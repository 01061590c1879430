SPECIFICATION FairSpec
CONSTANTS
    None = None
    FlushCount = 2
    SymbolSet = {"A", "B"}
    Times = {2, 4}
    Configs <- MCConfigs
    Speeds = {0, 1, 2}
    Interval = 3
    MaxElapsed = 3
    OrderIds = {"o1", "o2"}
    MaxEntries = 4
    MaxFlushes = 2
    Month = 4
    retention_days = 2
    MaxDay = 10
INVARIANTS
    
    
    ReplayIsFaithful
    JournalIsSound
    
PROPERTIES
    StopEndsReplay
CHECK_DEADLOCK FALSE
