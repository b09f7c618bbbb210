CONSTANTS
    Free = Free
    Producers = {p1, p2}
    Consumers = {c1, c2}
    Max = 3
    Batches = FALSE
    MaxItems = 5
SYMMETRY Interchangeable
SPECIFICATION Spec
INVARIANTS CountIsSize PointerHolds
PROPERTIES ImplementsLossyQueue
