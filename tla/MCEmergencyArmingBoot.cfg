SPECIFICATION FairSpec
CONSTANTS
    Modulus = 64
    ByteModulus = 8
    Window = 10
    Step = 2
    Slots = 3
    FirstPass = 0
    LastPass = 45
    Gaps <- PassGaps
PROPERTIES LoopEnds
CHECK_DEADLOCK FALSE
