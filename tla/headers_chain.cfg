SPECIFICATION Spec
CONSTANTS
    Values <- MCValues
    Codings <- MCCodings
    Requests <- MCRequests
    Responses <- MCResponses
INVARIANT
    ChainIsPreserved
CHECK_DEADLOCK FALSE
