SPECIFICATION FairMeterSpec
CONSTANTS
    IPs = {a, b}
    Requests = {r1}
    Buckets = {b1, b2, b3}
    NumShards = 2
    ShardOf <- TwoShards
    Rate = 1
    Cost = 1
    BurstSize = 2
    IdleTimeout = 2
    MaxClock = 4
    MaxSkew = 0
    None = None
    Watched = {a}
INVARIANT
    WithinRate
PROPERTY
    SilentIsCollected
