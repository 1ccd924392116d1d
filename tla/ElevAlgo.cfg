SPECIFICATION FairSpec
CONSTANTS
    NumFloors = 3
    StartPositions <- AnyStart
    PanelButtons <- Panel
INVARIANTS
    Coherent
PROPERTIES
    ServedOneWay
    RequestServed
CHECK_DEADLOCK FALSE
