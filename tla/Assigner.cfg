SPECIFICATION Spec
CONSTANTS
    Node = {0, 1}
    NumFloors = 4
    Known <- SomeStates
    HallFloors = {1}
    OrderChCap = 1
    MaxChanges = 3
INVARIANTS
    SameSeenSameResult
    NearestTakesIt
