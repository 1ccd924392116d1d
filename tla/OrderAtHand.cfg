SPECIFICATION FairSpec
CONSTANTS
    NumFloors = 3
    StartPositions <- AtFloorZero
    StartObstructed <- Released
    PanelButtons <- OneCall
    ExternalOrders <- NoOrders
    MaxToggles = 0
    StateChCap = 1
PROPERTIES
    OrderServed
