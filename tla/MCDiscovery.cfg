SPECIFICATION FairSpec
CONSTANTS
    Procs <- MCProcs
    Kind <- MCKind
    Hosts = {"h1", "h2"}
    HostOf <- MCHostOf
    Addrs = {"a1", "a2", "a3", "a4", "ip6", "name"}
    AddrOf <- MCAddrOf
    SocketAddrs = {"a1", "a2", "a3", "a4", "ip6"}
    Urls = {"a1", "a2", "a3", "a4"}
    None = "none"
    Deployments = {{"consumer1", "db1", "db2"}, {"consumer1", "pusher1", "db3"}, {"ws1", "chat1", "chat2"}}
    ChanCap = 2
    MaxStarts = 4
    MaxStops = 1
    MaxFaults = 1
INVARIANTS
    TypeOK
    ChannelFollowsView
    ReadyIsListed
    FirstRoundFits
PROPERTIES
    StartEnds
    WaitingCallIsServed
    CallsRecover
CHECK_DEADLOCK FALSE
