SPECIFICATION FairSpec
CONSTANTS
    Procedures <- AllProcedures
    RxDataFailurePeriod = 1
    RxDataRecoveryPeriod = 0
    ThrottleLowDelay = 1
    OffDelay = 1
    ShortQuarantine = 1
    LongQuarantine = 2
    ReloadWhileActive = FALSE
INVARIANTS PhaseConsistent
PROPERTIES LossIsAnswered AuthoritySpec PassTerminates FailsafeEnds
