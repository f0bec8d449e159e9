SPECIFICATION StoreSpec
CONSTANTS
    Sem = {0, 1}
    SEMVMX = 1
    Ops <- SmallOps
    Pid = {1}
INVARIANTS
    AllOrNothing
    PidOfLastOperation
