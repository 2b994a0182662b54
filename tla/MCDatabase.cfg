SPECIFICATION Spec
CONSTANTS
    Callers = {c1}
    k1 = k1
    k2 = k2
    Keys = {k1, k2}
    Tasks = {t1, t2}
    Requests <- MCRequests
    NoRow = NoRow
    NoPool = NoPool
    Never = Never
    Half = 1
    MaxLen = 1
    MaxTime = 1
SYMMETRY TaskSymmetry
CHECK_DEADLOCK FALSE
INVARIANT StoreInv
PROPERTY ImplementsKvSpec
