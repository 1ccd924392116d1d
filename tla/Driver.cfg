SPECIFICATION DriverSpec
CONSTANTS
    NumFloors = 3
    StopMotorOnDisconnect = TRUE
    MaxMail = 2
    Racing = FALSE
    MaxSent = 1
INVARIANTS
    OneMotion
    AnswerWasTrue
    MotorObeys
PROPERTIES
    CallsReturn
    ImplementsShaft
