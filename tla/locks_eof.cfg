SPECIFICATION Spec
CONSTANTS
    t1 = t1
    t2 = t2
    p3 = p3
    Proc = {t1}
    Files <- EofFiles
    Filp <- EofFiles
    OFFSET_MAX = 3
    Calls <- EofCalls
    None = None
CHECK_DEADLOCK FALSE
INVARIANTS
    SortedAndMerged
