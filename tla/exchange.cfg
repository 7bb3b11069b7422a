SPECIFICATION FairSpec
CONSTANT
    MaxChunks = 3
INVARIANTS
    TypeOK
    RightAnswer
    WholePage
    TruncationShows
    OwnPage
PROPERTY
    ExchangeEnds
