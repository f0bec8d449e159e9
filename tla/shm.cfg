SPECIFICATION Spec
CONSTANTS
    Proc = {p1, p2, p3}
    Seg = {a1, a2}
    Keys = {k}
    SHMMNI = 2
    SHMALL = 3
    Size = 1
    SeqMod = 2
    Unused = Unused
    NoId = NoId
    Private = Private
    None = None
SYMMETRY ShmSymmetry
CHECK_DEADLOCK FALSE
INVARIANTS
    Lifetime
    PagesCounted
