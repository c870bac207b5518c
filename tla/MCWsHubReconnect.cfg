SPECIFICATION Spec
CONSTANTS
    u1 = u1
    p1 = p1
    c1 = c1
    c2 = c2
    d1 = d1
    h1 = h1
    Users = {u1}
    Platforms = {p1}
    Shards = {h1}
    ShardOf <- OneShard
    Conns = {c1, c2}
    Deliveries = {d1}
    Workers = 3
    None = None
    MaxStalls = 0
INVARIANTS
    RunningClientInHub
CHECK_DEADLOCK FALSE
