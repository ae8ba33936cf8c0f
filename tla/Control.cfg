SPECIFICATION LiveSpec
CONSTANTS
    FrameLen = 3
    MinChunk = 2
    MaxChunk = 2
    MaxOpens = 1
    Commands <- MCCommands
    BrakesOn = "brakes"
    Garbage <- MCGarbage
    MaxPosted = 4
PROPERTIES ConsoleLossReported EStopCached EStopReaches
INVARIANTS TypeOK OneRequest WheelCurrent
