SPECIFICATION FlightSpec
CONSTANTS
    Procedures = {"DROP_IT"}
    RxDataFailurePeriod = 0
    RxDataRecoveryPeriod = 0
    ThrottleLowDelay = 0
    OffDelay = 0
    ShortQuarantine = 0
    LongQuarantine = 0
    ReloadWhileActive = FALSE
    Setups <- Armings
    SwitchDisarmDelay = 0
    PrearmTimeout = 1
    Histories = {"SWITCHES"}
INVARIANTS LockKeepsDisarmed
PROPERTIES PrearmBeforeArming
