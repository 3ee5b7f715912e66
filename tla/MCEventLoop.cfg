SPECIFICATION FairSpec
CONSTANTS
    Threads = {t1, t2}
    LoopThread = loopThread
    Functors = {f1, f2, f3}
    IoChannels = {c1}
    WakeupChannel = wakeupChannel
    InitEventListSize = 1
    MaxEventfd = 2
INVARIANTS
    TypeOK
    NoLostWakeup
PROPERTIES
    TaskQueueSpec
    QueuedFunctorRuns
    ReadyIsHandled
    QuitEnds
