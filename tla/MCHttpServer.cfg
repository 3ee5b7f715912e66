SPECIFICATION FairSpec
CONSTANTS
    Clients <- MCClients
    Callbacks <- MCCallbacks
INVARIANTS
    TypeOK
    ParsedIsWritten
    ResponsesInOrder
    BadRequestHasCause
PROPERTY StreamAnswered
CHECK_DEADLOCK FALSE
