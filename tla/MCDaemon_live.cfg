SPECIFICATION FairSpec
CONSTANTS
    Client = {c1, c2}
    Free = Free
    MaxClients = 2
    MaxRead = 2
    InCap = 2
    ReplyCap = 1
    Timeout = 0
    Dsx = TRUE
    Split = FALSE
    MaxExtra = 1
    Polite = TRUE
    SendMayFail = FALSE
    MayStop = TRUE
INVARIANTS
    OneReplyPerLine
PROPERTIES
    EffectsExpire
    RequestsAnswered
    ShutdownCompletes
\* the daemon exits on a signal
CHECK_DEADLOCK FALSE
