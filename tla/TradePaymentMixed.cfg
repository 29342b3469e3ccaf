SPECIFICATION Spec
CONSTANTS
    t1 = t1
    t2 = t2
    v1 = v1
    v2 = v2
    Trade <- OneTrade
    Web <- TwoWebs
    Channel <- Apps
    Share <- OneT
    Cash <- OneT
    WithCoupon <- OneTrade
    StartAmount = 1
    MaxCrash = 1
    Carts = TRUE
INVARIANTS
    TypeOK
    WalletConserved
    PaidIsFunded
PROPERTIES
    KeepsPromise
CHECK_DEADLOCK FALSE
