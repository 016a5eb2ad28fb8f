---------------------------- MODULE MCHapticsRing ----------------------------
\* A small instance of HapticsRing for TLC.
EXTENDS HapticsRing, TLC

\* Sample values are only stored and compared.
LevelSymmetry == Permutations(Level)
=============================================================================
