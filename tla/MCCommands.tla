------------------------------ MODULE MCCommands ------------------------------
\* Small instances of Commands for TLC.
EXTENDS Commands
=============================================================================
