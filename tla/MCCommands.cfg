SPECIFICATION Spec
CONSTANTS
    PlainField = {motors}
    TriggerField = {right}
    Value = {v0, v1}
    Fresh = v0
    SeqTags = 1
    NDevices = 2
    Bus = {"usb"}
    Motors = motors
INVARIANTS
    TypeOK
    NothingForgotten
    OkMeansShown
    StagedIsTried
