SPECIFICATION FairSpec
CONSTANTS
    Node = {a, b}
    Timeout = 4
    Loss = 1
    MaxStall = 1
    MaxHello = 2
INVARIANTS
    ChangesAddUp
    HelloOnce
PROPERTIES
    NoFalseLoss
    PeersConverge
