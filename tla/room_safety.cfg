SPECIFICATION Spec
CONSTANTS
    Requests = {r1, r2, r3, r4, r5}
    MaxConcurrent = 2
    QueueSize = 2
    Cores = 1
SYMMETRY Symmetry
INVARIANTS
    TypeOK
    CountersExact
    SignalNeverBlocks
    TicketReachable
PROPERTIES
    SlotConservation
    RefinesAdmissionLine
