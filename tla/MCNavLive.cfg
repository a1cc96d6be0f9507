SPECIFICATION FairNavSpec
CONSTANTS
    Crafts <- Trials
    Switchings <- Switches
    Faults <- CompassLoss
    HoverDelay = 2
PROPERTIES EntryLoopEnds PositionLossIsAnswered
