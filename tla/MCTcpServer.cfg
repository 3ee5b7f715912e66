SPECIFICATION FairSpec
CONSTANTS
    MaxClients = 2
    Setups <- MCSetups
    AppKeepsPtr = TRUE
INVARIANTS
    TypeOK
    NothingDangles
    UpThenDown
PROPERTIES
    ClosedIsReleased
    WaitingClientServed
CHECK_DEADLOCK FALSE
