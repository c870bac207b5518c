SPECIFICATION FairSpec
CONSTANTS
    s1 = s1
    s2 = s2
    p1 = p1
    Instances = {s1, s2}
    Pushes = {p1}
    None = None
    ChanCap = 1
    MaxStarts = 2
    MaxStops = 1
    MaxFaults = 1
    MaxLeaves = 1
    MaxCrashes = 1
INVARIANTS
    TypeOK
    RemovesTakeEffect
    AnsweredPushReachedAll
PROPERTIES
    PushIsAnswered
    
CHECK_DEADLOCK FALSE
