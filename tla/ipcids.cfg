SPECIFICATION Spec
CONSTANTS
    Proc = {p1, p2}
    Key = {k1, k2}
    PRIVATE = PRIVATE
    IPCMNI = 3
    SeqMax = 1
    StartSize = 2
    MaxObjs = 4
    None = None
INVARIANTS
    Bookkeeping
    UniqueKeys
    StaleIdRefused
