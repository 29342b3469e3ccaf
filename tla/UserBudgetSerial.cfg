SPECIFICATION Spec
CONSTANTS
    w1 = w1
    w2 = w2
    Worker <- OneWorker
    LogId <- ThreeLogs
    Flow <- Flows
    StartAmount = 3
    DailyTries = 2
    Creates <- AllCreates
    Edits <- AllEdits
    Rejects <- NotPurchases
INVARIANTS
    TypeOK
    RowMatchesLogs
    BooksMatchCashouts
PROPERTIES
    AmountFollowsLogs
    CashoutWithinBalance
    
CHECK_DEADLOCK FALSE
