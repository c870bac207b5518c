SPECIFICATION Spec
CONSTANTS
    u1 = u1
    p1 = p1
    c1 = c1
    m1 = m1
    h1 = h1
    Users = {u1}
    Platforms = {p1}
    Shards = {h1}
    ShardOf <- OneShard
    Conns = {c1}
    Workers = 3
    None = None
    MaxStalls = 0
    Msgs = {m1}
    Rpc = Rpc
    QueueCap = 1
    MaxFaults = 1
INVARIANTS
    RepliesAreResults
CHECK_DEADLOCK FALSE
