CONSTANTS
    Assets = {weth, wbtc, xau, foreign}
    Catalog = {weth, wbtc, xau}
    PageSize = 4
    MaxOther = 0
    None = None
SPECIFICATION Spec
INVARIANT RetriedOnLiveEvent
CHECK_DEADLOCK FALSE
