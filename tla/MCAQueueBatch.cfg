CONSTANTS
    Free = Free
    Producers = {p1}
    Consumers = {c1}
    Max = 4
    Batches = TRUE
    MaxItems = 6
SPECIFICATION Spec
INVARIANTS IInv Exclusive BatchRead
