SPECIFICATION Spec
CONSTANTS
    Node = {hidraw0, hidraw1}
    MaxDevices = 2
    Plugs = 3
    Kills = 1
    AllocFailures = 1
INVARIANTS
    TypeOK
    NoDescriptorLost
    BusIsOfDescriptor
    FindsWhatStayed
PROPERTY
    ServiceComesUp
\* a service that was told to stop is not started again
CHECK_DEADLOCK FALSE
