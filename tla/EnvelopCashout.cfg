CONSTANTS
    r1 = r1
    t1 = t1
    w1 = w1
    w2 = w2
    y1 = y1
    Envelope <- Envelopes
    Transfer <- Transfers
    Worker = {w1, w2}
    Syncer = {y1}
    Cancels <- WaitingRed
    Patient <- Reds
    CrashAt <- Recoverable
SPECIFICATION FairSpec
INVARIANTS TypeOK NeverBoth MoneyFollowsStatus
PROPERTIES UndoneReturns OpenedSettles
CHECK_DEADLOCK FALSE
