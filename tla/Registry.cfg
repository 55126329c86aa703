CONSTANTS
    Assets = {weth, wbtc, foreign}
    Catalog = {weth, wbtc}
    PageSize = 2
    MaxOther = 2
    None = None
SPECIFICATION FairSpec
INVARIANTS TypeOK AnnouncedIsKnown MissingOnlyInGap
PROPERTY StreamedBecomesKnown
CHECK_DEADLOCK FALSE
