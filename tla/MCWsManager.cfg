SPECIFICATION MCSpec
CONSTANTS
    u1 = u1
    p1 = p1
    p2 = p2
    c1 = c1
    c2 = c2
    m1 = m1
    m2 = m2
    h1 = h1
    Users = {u1}
    Platforms = {p1, p2}
    Shards = {h1}
    ShardOf <- OneShard
    Conns = {c1, c2}
    Workers = 3
    None = None
    MaxStalls = 1
    Msgs = {m1, m2}
    Rpc = Rpc
    QueueCap = 1
    MaxFaults = 1
INVARIANTS
    TypeOK
    SuccessesAreLoggedInOrder
    LoggedOnce
    RepliesInOrder
    LiveSenderIsAnswered
PROPERTIES
    ReceivedIsHandled
CHECK_DEADLOCK FALSE
