SPECIFICATION FairSpec
CONSTANTS
    u1 = u1
    u2 = u2
    p1 = p1
    p2 = p2
    c1 = c1
    c2 = c2
    d1 = d1
    d2 = d2
    h1 = h1
    Users = {u1, u2}
    Platforms = {p1, p2}
    Shards = {h1}
    ShardOf <- OneShard
    Conns = {c1, c2}
    Deliveries = {d1, d2}
    Workers = 3
    None = None
    MaxStalls = 1
INVARIANTS
    TypeOK
    NoDeadClient
    DeliversToHub
    OnlyOverlapLosesClient
PROPERTIES
    DeadPeerLeavesHub
    DeliveryEnds
CHECK_DEADLOCK FALSE
