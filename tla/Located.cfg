SPECIFICATION FairSpec
CONSTANTS
    NumFloors = 4
    StartPositions <- AtFloorZero
    StartObstructed <- BothWays
    PanelButtons <- SomeButtons
    ExternalOrders <- NoOrders
    MaxToggles = 2
    StateChCap = 1
INVARIANTS
    InShaft
    NeverTurnsBetweenFloors
    DrivesTowardWork
PROPERTIES
    ImplementsLift
    ObstructionTracked
    DoorCloses
    OrderServedOrAtHand
