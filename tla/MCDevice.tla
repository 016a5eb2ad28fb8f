------------------------------- MODULE MCDevice -------------------------------
\* Small instances of Device for TLC.
EXTENDS Device, TLC

\* Handles are interchangeable: no definition singles one out.
HandleSymmetry == Permutations(Handle)
=============================================================================
