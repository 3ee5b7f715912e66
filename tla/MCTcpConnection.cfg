SPECIFICATION Spec
CONSTANTS
    Workers = {w1}
    Messages = {m1, m2}
    MsgLen = 2
    SndBuf = 2
    MaxPeerSends = 1
    highWaterMark = 3
    WorkersMayShutdown = TRUE
INVARIANTS
    TypeOK
    InOrder
    OutputIsWatched
    PollerConsistent
CHECK_DEADLOCK FALSE
