SPECIFICATION TimedSpec
CONSTANTS
    Threads = {t1}
    LoopThread = loopThread
    Functors = {f1}
    IoChannels = {c1}
    WakeupChannel = wakeupChannel
    InitEventListSize = 1
    MaxEventfd = 2
PROPERTY QuitIsHonoured
