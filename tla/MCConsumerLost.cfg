SPECIFICATION Spec
CONSTANTS
    r1 = r1
    c1 = c1
    Receivers = {r1}
    Consumers = {c1}
    None = None
    MaxLog = 2
    MaxCrashes = 0
    MaxRebalances = 0
    MaxFaults = 1
INVARIANTS
    CommittedIsSaved
CHECK_DEADLOCK FALSE
