SPECIFICATION Spec
CONSTANTS
    Client = {c1, c2, c3}
    Free = Free
    MaxClients = 2
    MaxRead = 3
    InCap = 3
    ReplyCap = 1
    Timeout = 0
    Dsx = FALSE
    Split = TRUE
    MaxExtra = 1
    Polite = FALSE
    SendMayFail = TRUE
    MayStop = FALSE
INVARIANTS
    TypeOK
    SlotTable
    NoLineUnanswered
SYMMETRY ClientSymmetry
\* the daemon may block in read() or write() for ever
CHECK_DEADLOCK FALSE
