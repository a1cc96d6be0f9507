SPECIFICATION FairSpec
CONSTANTS
    Modulus = 64
    ByteModulus = 8
    Window = 10
    Step = 2
    Slots = 3
    FirstPass = 10
    LastPass = 45
    Gaps <- PassGaps
INVARIANTS QueueIsHistory TriggeredIsDeliberate
PROPERTIES LoopEnds
CHECK_DEADLOCK FALSE
