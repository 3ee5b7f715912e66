SPECIFICATION FairSpec
CONSTANTS
    Workers = {w1}
    Messages = {m1, m2}
    MsgLen = 2
    SndBuf = 1
    MaxPeerSends = 1
    highWaterMark = 3
    WorkersMayShutdown = FALSE
PROPERTY ShutdownCompletes
CHECK_DEADLOCK FALSE
