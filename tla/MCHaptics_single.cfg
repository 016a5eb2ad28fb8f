SPECIFICATION FairSpec
CONSTANTS
    Thread = {main}
    Owner = main
    Writer = {main}
    Stream = {s1, s2, s3}
    Null = Null
    SlowTick = FALSE
    MayFail = TRUE
INVARIANTS
    TypeOK
    NoUseAfterFree
PROPERTY
    StopReturns
\* a tick may wait for ever for a mutex; streams are started only once
CHECK_DEADLOCK FALSE
