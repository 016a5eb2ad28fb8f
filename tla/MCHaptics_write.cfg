SPECIFICATION FairSpec
CONSTANTS
    Thread = {main}
    Owner = main
    Writer = {main}
    Stream = {s1}
    Null = Null
    SlowTick = FALSE
    MayFail = FALSE
PROPERTY
    WriteReturns
\* a tick may wait for ever for a mutex; streams are started only once
CHECK_DEADLOCK FALSE
