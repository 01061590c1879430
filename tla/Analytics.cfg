SPECIFICATION Spec
CONSTANTS
    None = None
    Configs <- MCConfigs
    WindowSize = 2
    LongWindow = 3
    WindowNs = 2
    TimeRange = 16
    Depth = 1
    Period = 2
    Span = 3
    SlowSpan = 5
    Inputs = {1, 2, 5}
    MaxInputs = 6
    CacheSize = 2
    BucketWidth = 2
    Timestamps = {1, 2, 3}
    MaxUses = 4
    MaxModelCalls = 4
    Latencies = {0, 2, 3, 5, 9}
    BucketCount = 3
    BucketWidthNs = 2
    WindowSeconds = 2
    Counts = {0, 1, 3}
    Keys = {1, 2}
    Levels = {1, 2}
    MaxSamples = 5
INVARIANTS
    FeaturesFollowHistory
    
    IndicatorsMatchHistory
    CacheIsLru
    
    StatisticsMatchSamples
PROPERTIES
    SwitchNeedsMargin
CHECK_DEADLOCK FALSE
