SPECIFICATION FairSpec
CONSTANTS
    MaxLines = 6
    Slots = 3
    Null = Null
    Blank = Blank
    Junk = Junk
INVARIANTS
    TypeOK
    BuffersSuffice
    WritesInOrder
PROPERTY LineReachesFile
