SPECIFICATION StartSpec
CONSTANTS
    PoolSizes = {0, 3}
    Files <- SmallFiles
INVARIANTS Explained PoolAsConfigured ByPosition
CHECK_DEADLOCK FALSE
