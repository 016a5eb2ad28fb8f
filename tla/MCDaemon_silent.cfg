SPECIFICATION LoopFairSpec
CONSTANTS
    Client = {c1}
    Free = Free
    MaxClients = 1
    MaxRead = 2
    InCap = 0
    ReplyCap = 1
    Timeout = 1
    Dsx = TRUE
    Split = FALSE
    MaxExtra = 1
    Polite = FALSE
    SendMayFail = FALSE
    MayStop = FALSE
PROPERTY
    EffectsExpire
CHECK_DEADLOCK FALSE
