SPECIFICATION FairSpec
CONSTANTS
    Proc = {p1, p2}
    SndMenu <- TypedSnd
    RcvMenu <- TypedRcv
    QBytes = {2}
    MaxMsgs = 3
    MaxSeq = 1
    Signals = TRUE
    None = None
CHECK_DEADLOCK FALSE
INVARIANTS
    FindsFirstOfLeast
PROPERTIES
    DeliveredReturns
    SignalEndsCall
