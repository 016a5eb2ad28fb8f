SPECIFICATION Spec
CONSTANTS
    Level = {a, b}
    RingSize = 6
    BlockSize = 4
    MaxWrite = 8
    WriteUnit = 2
INVARIANTS
    TypeOK
    RingConsistent
    ChannelsAligned
PROPERTY
    ImplementsQueue
SYMMETRY LevelSymmetry
