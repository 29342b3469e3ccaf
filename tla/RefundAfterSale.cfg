SPECIFICATION Spec
CONSTANTS
    Num <- Two
    MaxOrder = 2
    MaxRefund = 2
    MaxRuns = 2
INVARIANTS TypeOK UnsentIsCancelled ReturnedIsNotSent NothingIsLost
PROPERTIES LifeKept
CHECK_DEADLOCK FALSE
