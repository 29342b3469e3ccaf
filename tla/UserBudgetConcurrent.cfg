SPECIFICATION Spec
CONSTANTS
    w1 = w1
    w2 = w2
    Worker <- TwoWorkers
    LogId <- ThreeLogs
    Flow <- OneFlow
    StartAmount = 3
    DailyTries = 2
    Creates <- MovingCreates
    Edits <- NoEdits
    Rejects <- NoRejects
INVARIANTS
    AmountMatchesLogs
CHECK_DEADLOCK FALSE
