SPECIFICATION NavSpec
CONSTANTS
    Crafts <- Fleet
    Switchings <- Switches
    Faults <- Losses
    HoverDelay = 2
INVARIANTS NavTypeOK ActiveWaypointIsGeo ForcedRTHIsFlown AbortedRTHIsIdle MotorWaitsForLaunch
