SPECIFICATION Spec
CONSTANTS
    IPs = {a, b}
    Requests = {r1, r2}
    Buckets = {b1, b2, b3, b4}
    NumShards = 1
    ShardOf <- OneShard
    Rate = 3
    Cost = 2
    BurstSize = 2
    IdleTimeout = 2
    MaxClock = 4
    MaxSkew = 1
    None = None
SYMMETRY Symmetry
INVARIANT
    TypeOK
PROPERTIES
    OneBucketPerAddress
    EvictsOnlySilent
    RefinesTokenBuckets
