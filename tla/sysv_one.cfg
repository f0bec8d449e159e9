SPECIFICATION Spec
CONSTANTS
    Proc = {p1, p2, p3}
    Sem = {0}
    SEMVMX = 2
    Menu <- OneMenu
    SetVals = {0, 2}
    MaxSeq = 1
    Signals = TRUE
    Exits = TRUE
SYMMETRY ProcSymmetry
CHECK_DEADLOCK FALSE
INVARIANTS
    TypeOK
    Ledger
    UndoLedger
    NoForgottenSleeper
    FirstServed
    NoStaleZeroWaiter
