SPECIFICATION Spec
CONSTANTS
    Position = {0, 1, 2, 3, 4, 5, 6, 7, 8, 9, 10, 255}
    Strength = {0, 1, 2, 5, 8, 9}
    Foot = {0, 3, 6, 7, 8}
    Frequency = {0, 1, 255}
    Number <- MCNumber
    Controllers = 2
    IntHalf = 16777216
    LongHalf = 67108864
    MessageByte = {0, 1, 49, 128, 162, 255}
    MaxMessage = 3
    MaxPacket = 4
    Word = Word
    Missing = Missing
    ReadFails = ReadFails
INVARIANTS
    TypeOK
    ReadsWhatWasAsked
    SlopeFollowsLine
    FrontEndsAgree
    ExitStatusHonest
    DamageIsLocal
    OutputReadsBack
    ReceiverAccepts
    InputReadsBack
\* one conversion per behaviour
CHECK_DEADLOCK FALSE
