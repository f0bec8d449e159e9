SPECIFICATION Spec
CONSTANTS
    Proc = {p1, p2, p3}
    SndMenu <- SmallSnd
    RcvMenu <- SmallRcv
    QBytes = {1, 2}
    MaxMsgs = 3
    MaxSeq = 1
    Signals = TRUE
    None = None
SYMMETRY ProcSymmetry
CHECK_DEADLOCK FALSE
INVARIANTS
    Accounting
    ExactlyOnce
    FifoPerType
    NoStuckSender
    NoMissedMessage
    NoForgottenReceiver
    NoBUG
