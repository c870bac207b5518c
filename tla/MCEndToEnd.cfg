SPECIFICATION MCSpec
CONSTANTS
    Users = {"u1"}
    Platforms = {"web"}
    Instances = {"s1"}
    Conns = {"c1"}
    Consumers = {"k1"}
    None = "none"
    ChanCap = 1
    MaxLog = 2
    MaxPushes = 2
    MaxCrashes = 1
    MaxRebalances = 0
    MaxFaults = 1
    MaxRestarts = 1
    MaxStalls = 1
INVARIANTS
    TypeOK
    WrittenInOrder
    CommittedIsWritten
    NumbersDiffer
PROPERTY
    
    ImplementsSockets
CHECK_DEADLOCK FALSE
