SPECIFICATION Spec
SYMMETRY WriterSymmetry
CONSTANTS
    Writers = {w1, w2}
    Day = 3
    Keep = 4
    KeepAtStart = 6
    Pause = 1
    MaxTime = 9
INVARIANTS Kept Cleaned
CHECK_DEADLOCK FALSE
