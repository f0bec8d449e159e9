SPECIFICATION Spec
CONSTANTS
    Proc = {p1, p2}
    Sem = {0}
    SEMVMX = 1
    Menu <- OneMenu
    SetVals = {1}
    MaxSeq = 0
    Signals = FALSE
    Exits = FALSE
CHECK_DEADLOCK FALSE
INVARIANTS
    NoBUG
