SPECIFICATION FairSpec
CONSTANTS
    numFloors = 3
    Others = {1}
    States <- SomeStates
    HallOrders <- TwoOrders
    OrderChCap = 1
    StateChCap = 1
    MaxOrders = 2
INVARIANTS
    NoneLost
    PendingForAnother
PROPERTIES
    SendsEnd
