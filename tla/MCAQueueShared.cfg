CONSTANTS
    Free = Free
    Producers = {p1, p2}
    Consumers = {c1}
    Max = 3
    Batches = TRUE
    MaxItems = 6
SPECIFICATION Spec
INVARIANTS Exclusive
CHECK_DEADLOCK FALSE
