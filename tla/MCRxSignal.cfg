SPECIFICATION Spec
CONSTANTS
    roll = roll
    pitch = pitch
    aux = aux
    RxDataFailurePeriod = 4
    RxDataRecoveryPeriod = 1
    FlightChannels <- RollAndPitch
    AuxChannels <- OneAux
    SignalTimeout = 2
    UpdatePeriod = 1
    Hold = 3
    LastTime = 13
    Watched = roll
INVARIANTS SilenceIsDetected BrokenChannelIsDetected RecoveryIsDetected DataIsNotStale
