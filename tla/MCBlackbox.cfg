SPECIFICATION FairSpec
CONSTANTS
    BufferSize = 7
    AutoFlushLen = 3
    PageSize = 6
    BlockSize = 6
    TestSize = 1
    Size = 36
    HeaderLen = 4
    HeaderChunk = 3
    MaxBudget = 8
    LineLen = 2
    FieldLines = 2
    SysinfoLines = 1
    Fields = 1
    FieldLen = 2
    IntraLen = 2
    InterLen = 1
    IFrameInterval = 2
    HasGPS = FALSE
    MaxBytes = 34
    MaxEvents = 3
    MaxStart = 8
INVARIANTS BlackboxTypeOK LogIsInOrder HeaderIsWhole IntraframeFirst
PROPERTIES HeaderEnds
