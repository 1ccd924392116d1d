SPECIFICATION Spec
CONSTANTS
    NumFloors = 3
    StartPositions <- AnyStart
    StartObstructed <- BothWays
    PanelButtons <- Panel
    ExternalOrders <- AssignerOrders
    MaxToggles = 2
    StateChCap = 1
INVARIANTS
    MotorOnlyWhenClosed
    LampsMatchOrders
    DoorIsLookedAfter
    DoorCycleAtFloor
PROPERTIES
    ClearedOnlyWhenServed
    DoorNotShutOnObstruction
    StaysLocated
