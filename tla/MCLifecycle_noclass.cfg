SPECIFICATION Spec
CONSTANTS
    Node = {hidraw0}
    MaxDevices = 1
    Plugs = 1
    Kills = 0
    AllocFailures = 0
INVARIANT
    FirstHandleThere
\* a service that was told to stop is not started again
CHECK_DEADLOCK FALSE
