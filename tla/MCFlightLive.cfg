SPECIFICATION FairFlightSpec
CONSTANTS
    Procedures = {"AUTO_LANDING"}
    RxDataFailurePeriod = 0
    RxDataRecoveryPeriod = 0
    ThrottleLowDelay = 0
    OffDelay = 0
    ShortQuarantine = 1
    LongQuarantine = 1
    ReloadWhileActive = FALSE
    Setups <- Overriding
    SwitchDisarmDelay = 1
    PrearmTimeout = 0
    Histories = {}
PROPERTIES PilotCanDisarm
