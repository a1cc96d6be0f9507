SPECIFICATION FlightSpec
CONSTANTS
    Procedures = {"DROP_IT", "RTH"}
    RxDataFailurePeriod = 1
    RxDataRecoveryPeriod = 0
    ThrottleLowDelay = 0
    OffDelay = 0
    ShortQuarantine = 2
    LongQuarantine = 3
    ReloadWhileActive = FALSE
    Setups <- Switched
    SwitchDisarmDelay = 1
    PrearmTimeout = 0
    Histories = {"SILENCE", "REFUSALS", "FRAMES", "QUARANTINE"}
INVARIANTS FlightTypeOK SilenceIsAnswered ForcedRTHIsFailsafe
PROPERTIES ArmingNeedsData ArmingIsDeliberate OneFrameCannotDisarm QuarantineIsServed FailsafeSpec
