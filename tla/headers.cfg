SPECIFICATION Spec
CONSTANTS
    Values <- MCValues
    Codings <- MCCodings
    Requests <- MCRequests
    Responses <- MCResponses
INVARIANTS
    TypeOK
    HopByHopStops
    EndToEndArrives
    ClientIsNamed
    ScannerReadsText
    BodyAsDescribed
    AnswerRelayed
CHECK_DEADLOCK FALSE
