SPECIFICATION FairSpec
CONSTANTS
    NumGroups = 2
    Values = {0, 1}
    Default = 0
    Firmwares <- MCFirmwares
    PageWords = 2
    Worn = {2}
    Attempts = 3
    MaxInstalls = 1
INVARIANTS ConfigTypeOK SaveIsDurable
PROPERTIES LoadIsWhole RegisterSpec SaveEnds
