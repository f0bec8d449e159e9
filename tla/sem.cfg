SPECIFICATION FairSpec
CONSTANTS
    Task = {t1, t2, t3}
    Killable = {t1}
    Val = 1
    MaxUps = 1
    None = None
INVARIANTS
    Accounting
    MutualExclusion
    NoLostWakeup
    NoLostSignal
PROPERTIES
    ImplementsCountingSemaphore
    FreePermitTaken
