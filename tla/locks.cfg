SPECIFICATION Spec
CONSTANTS
    t1 = t1
    t2 = t2
    p3 = p3
    Proc <- MCProc
    Files <- MCFiles
    Filp <- MCFiles
    OFFSET_MAX = 3
    Calls <- MCCalls
    None = None
CHECK_DEADLOCK FALSE
INVARIANTS
    LocksExact
    Exclusive
    BlockedByConflict
    NoCircularWait
