SPECIFICATION FairSpec
CONSTANTS
    Ips <- MCIps
    Addrs <- MCAddrs
    IpOf <- MCIpOf
    NoAddr = "none"
    Streams = {1, 2, 3}
    MaxConnections = 2
    MaxPerIp = 2
    Slots = 1
    Permits = 1
    FreeFailures = 1
INVARIANTS
    SlotsBalanced
    LimitsHold
    OpenSessionsReachable
PROPERTY
    EveryTaskEnds
CHECK_DEADLOCK FALSE
