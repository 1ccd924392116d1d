SPECIFICATION FairSpec
CONSTANTS
    heartbeatEvery = 2
    readTimeout = 3
    missedLimit = 5
    Late = 2
    MaxProcs = 5
    MaxCount = 8
INVARIANTS
    OnePrimary
    SuccessorStands
PROPERTIES
    CountGoesOn
    TakenOver
CHECK_DEADLOCK FALSE
