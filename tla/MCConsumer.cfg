SPECIFICATION MCSpec
CONSTANTS
    r1 = r1
    r2 = r2
    c1 = c1
    c2 = c2
    Receivers = {r1, r2}
    Consumers = {c1, c2}
    None = None
    MaxLog = 2
    MaxCrashes = 1
    MaxRebalances = 1
    MaxFaults = 1
INVARIANTS
    TypeOK
    SeqIdentifiesMessage
    LaterNumbersAreLarger
    CommittedIsSettled
    NumberedOncePerAssignment
PROPERTIES
    ImplementsInbox
    CommitsGoForward
    EveryMessageSettled
CHECK_DEADLOCK FALSE
