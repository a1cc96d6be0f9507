SPECIFICATION FlightSpec
CONSTANTS
    Procedures = {"RTH"}
    RxDataFailurePeriod = 1
    RxDataRecoveryPeriod = 0
    ThrottleLowDelay = 0
    OffDelay = 0
    ShortQuarantine = 2
    LongQuarantine = 2
    ReloadWhileActive = FALSE
    Setups <- Counting
    SwitchDisarmDelay = 0
    PrearmTimeout = 0
    Histories = {"SILENCE"}
PROPERTIES ArmingNeedsData
