SPECIFICATION Spec
CONSTANTS
    NumFloors = 4
    StopMotorOnDisconnect = TRUE
    MaxMail = 2
    Racing = TRUE
INVARIANTS
    AssertsHold
