------------------------------- MODULE MCDaemon -------------------------------
\* Small instances of Daemon for TLC.
EXTENDS Daemon, TLC

\* Clients are interchangeable; used only where no liveness is checked.
ClientSymmetry == Permutations(Client)
=============================================================================
