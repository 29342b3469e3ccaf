CONSTANTS
    NItem = 2
    Num <- TwoOne
    NPackage = 2
    NPurchase = 2
    Arrivals = {1, 3}
    Losses = {1}
    MaxMoves = 2
    MaxReverts = 1
    MaxQueue = 1
SPECIFICATION FairSpec
INVARIANTS TypeOK CountersExact NotOverAssigned WaitingIsBought PackedInv
PROPERTIES ShippedWasChecked LifeKept 
CHECK_DEADLOCK FALSE
