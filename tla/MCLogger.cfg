CONSTANTS
    Statements <- MCStatements
    Levels = {"WARN"}
    LineLen = 1
    Slots = 2
    MaxLines = 3
    MaxSlots = 1
    Lost = Lost
    kSmallBuffer = 24
    kMaxNumericSize = 6
    rollSize = 4
    flushInterval = 0
    checkEveryN = 2
    kRollPerSeconds = 2
    MaxTime = 3
SPECIFICATION Spec
INVARIANTS DiskIsPrefix RolledInTime LineIsStatement
PROPERTY LoggedReachesDisk
CHECK_DEADLOCK FALSE
