CONSTANTS
    NumAssets = 2
    QueryParams = {0, 5}
    DefaultPageSize = 2
    MaxPageSize = 3
    MaxPageNumber = 4
    KeepAlive = 1
    MaxVersion = 2
    MaxMoved = 2
SPECIFICATION FairSpec
INVARIANTS TypeOK NothingInvented NothingLeftOut StatusHonest PageInRange OutcomeFaithful
PROPERTY RequestEnds
CHECK_DEADLOCK FALSE
