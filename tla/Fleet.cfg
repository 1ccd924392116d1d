SPECIFICATION FairSpec
CONSTANTS
    Node = {0, 1}
    Updates <- Reports
    Start <- Idle
    Timeout = 4
    Skew = 0
    Networks <- LossyOrLate
    MaxCrashes = 1
    Reporting = {1}
    HallFloors = {0, 1, 2}
PROPERTIES
    NoFalseTimeout
    ClearedWasServed
    DownIsForgotten
    ViewsConverge
    RightOnceQuiet
