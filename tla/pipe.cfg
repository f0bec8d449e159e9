SPECIFICATION Spec
CONSTANTS
    Proc = {p1, p2, p3}
    PIPE_SIZE = 2
    PIPE_BUF = 2
    ReadCounts = {1, 2}
    WriteCounts = {2, 3}
    Wrap = 2
    Labels = 3
    Signals = TRUE
    Faults = TRUE
    None = None
SYMMETRY ProcSymmetry
CHECK_DEADLOCK FALSE
INVARIANTS
    StreamIntact
    AtomicWrites
    NoLostWakeup
    EndsCounted
