SPECIFICATION Spec
CONSTANTS
    NumFloors = 4
    StartPositions <- BetweenFloors
    StartObstructed <- Released
    PanelButtons <- Panel
    ExternalOrders <- NoOrders
    MaxToggles = 0
    StateChCap = 1
INVARIANTS
    InShaft
