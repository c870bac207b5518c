SPECIFICATION FairSpec
CONSTANTS
    s1 = s1
    p1 = p1
    Instances = {s1}
    Pushes = {p1}
    None = None
    ChanCap = 1
    MaxStarts = 1
    MaxStops = 0
    MaxFaults = 0
    MaxLeaves = 0
    MaxCrashes = 0
PROPERTIES
    ServingInstanceListed
CHECK_DEADLOCK FALSE
