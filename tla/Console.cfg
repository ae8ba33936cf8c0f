CONSTANTS
    FrameLen = 5
    MinChunk = 2
    MaxChunk = 5
    MaxOpens = 3
SPECIFICATION LiveSpec
INVARIANTS
    TypeOK
    SampleWhole
    BacklogBound
PROPERTY Heard
