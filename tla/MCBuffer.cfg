CONSTANTS
    InitialPrependSize = 2
    InitialSize = 3
    ExtraSize = 4
    MaxBytes = 12

SPECIFICATION Spec

INVARIANTS
    TypeOK
    IndicesInBounds
    SizeBounded

PROPERTY ByteQueueSpec
