SPECIFICATION FairSpec
CONSTANTS
    Clients = {c1, c2}
    Limit = 1
    Room = 1
    Margin = 1
    Grace = 1
    MaxSetting = 2
    Default <- MCDefault
    Environments <- MCEnvironments
INVARIANTS
    TypeOK
    AnswerInTime
    NoneOutlivesDeadline
    DrainedBeforeReturn
PROPERTY
    StopEnds
