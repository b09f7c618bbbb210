SPECIFICATION ProgramSpec
CONSTANTS
    MaxRequests = 3
    MaxPieces = 2
    MaxTry = 3
    PoolSizes = {0, 2}
    Files <- SomeFiles
INVARIANTS  OwnInfo WorkOnce
PROPERTY Served
CHECK_DEADLOCK FALSE
