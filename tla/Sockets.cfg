CONSTANTS
    Protocols <- AllProtocols
    MaxUnits <- Units
    Frame = 2
    MaxCancels <- Cancels
    None = None
SPECIFICATION FairSpec
CHECK_DEADLOCK FALSE
INVARIANTS
    NothingOrphaned
    InOrder
PROPERTIES
    WaitEnds
    EndNoticed
