SPECIFICATION FairSpec
CONSTANTS
    Price = {1, 2, 3}
    Quantity = {0, 1, 2, 3, 4, 5, 6}
    MaxPosition = 2
    MaxInventory = 6
    Lookback = 3
    ZEntry = 2
    ZExit = 1
    TrailingStopPct = 50
    SpreadTicks = 1
    QuoteSize = 3
    TradeSize = 1
    RatioScale = 6
    MaxShares = 3
    MaxNotional = 9
    MaxDailyLoss = 3
    MaxOrdersPerSecond = 2
    MaxConcentrationPct = 100
    WarningPct = 80
    MaxNet = 4
    MaxGross = 5
    Second = 1
    FailFast = TRUE
    NumSlices = 2
    VolumeProfile <- MCProfile
    VisibleQty = 2
    Inputs <- MCInputs
    MaxOrders = 4
    Configs <- MCConfigs
INVARIANTS
    SerialOrdersRespectLimit
    
    SlicesFit
    SurvivorsAreRacers
PROPERTIES
    OrdersComplete
CHECK_DEADLOCK FALSE
