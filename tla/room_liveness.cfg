SPECIFICATION FairSpec
CONSTANTS
    Requests = {r1, r2, r3}
    MaxConcurrent = 1
    QueueSize = 2
    Cores = 1
PROPERTIES
    EveryGoroutineEnds
    NoStarvation
