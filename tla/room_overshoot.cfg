SPECIFICATION Spec
CONSTANTS
    Requests = {r1, r2, r3}
    MaxConcurrent = 1
    QueueSize = 2
    Cores = 1
INVARIANT
    OvershootWithinCores
