SPECIFICATION Spec
CONSTANTS
    t1 = t1
    t2 = t2
    v1 = v1
    v2 = v2
    Trade <- TwoTrades
    Web <- OneWeb
    Channel <- WalletToo
    Share <- Zero
    Cash <- Uneven
    WithCoupon <- TwoTrades
    StartAmount = 2
    MaxCrash = 0
    Carts = FALSE
INVARIANTS
    WalletConserved
PROPERTIES
    KeepsPromise
CHECK_DEADLOCK FALSE
