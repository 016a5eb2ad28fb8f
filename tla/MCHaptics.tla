------------------------------- MODULE MCHaptics -------------------------------
\* Small instances of Haptics for TLC.
EXTENDS Haptics
=============================================================================
