SPECIFICATION Spec
CONSTANTS
    Thread = {main, feeder}
    Owner = main
    Writer = {feeder}
    Stream = {s1}
    Null = Null
    SlowTick = TRUE
    MayFail = FALSE
INVARIANT
    NoUseAfterFree
\* a tick may wait for ever for a mutex; streams are started only once
CHECK_DEADLOCK FALSE
