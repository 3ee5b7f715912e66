SPECIFICATION FairSpec
CONSTANTS
    numThreads = 3
    MaxGiven = 2
INVARIANTS
    TypeOK
    PointerIsLive
    NoBadAccess
    DealtLoopsLive
PROPERTIES
    PoolStarts
    PoolStops
CHECK_DEADLOCK FALSE
