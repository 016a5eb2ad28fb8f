SPECIFICATION Spec
CONSTANTS
    Handle = {daemon, dsctl}
    Nobody = Nobody
    PlainField = {lightbar}
    TriggerField = {right}
    Value = {v0, v1}
    Fresh = v0
    PowerOn = v1
    SeqTags = 2
    MaxEpoch = 1
INVARIANTS
    TypeOK
    CleanFieldsAgree
    TagsInStep
PROPERTY
    ImplementsBuffers
SYMMETRY HandleSymmetry
\* the controller may be unplugged for good with every handle closed
CHECK_DEADLOCK FALSE
