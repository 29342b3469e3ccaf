SPECIFICATION Spec
CONSTANTS
    top = top
    middle = middle
    low = low
    c1 = c1
    c2 = c2
    Mama <- Mamas
    Direct <- Top
    Upper <- Line
    Coupon <- Two
    MaxHops = 3
    MaxRecord = 5
    Careful = TRUE
SYMMETRY AnyTwo
INVARIANTS TypeOK BooksMatch ChainLeadsToOwner FrozenIsUnderWay
CHECK_DEADLOCK FALSE
