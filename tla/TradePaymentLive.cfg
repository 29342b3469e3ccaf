SPECIFICATION FairSpec
CONSTANTS
    t1 = t1
    t2 = t2
    v1 = v1
    v2 = v2
    Trade <- OneTrade
    Web <- OneWeb
    Channel <- Apps
    Share <- OneT
    Cash <- OneT
    WithCoupon <- NoTrade
    StartAmount = 1
    MaxCrash = 1
    Carts = FALSE
PROPERTIES
    MoneySettles
    LateIsSettled
CHECK_DEADLOCK FALSE
