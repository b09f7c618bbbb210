CONSTANTS
    Alive = {a1, a2}
    Perf = perf
    Clean = clean
    Free = free
    MaxFd = 1
    MaxTry = 2
SYMMETRY AliveSymmetry
SPECIFICATION Spec
INVARIANTS IInv Confined NoLeak OwnConnection
PROPERTY LogDirHeld
