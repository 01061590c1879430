SPECIFICATION FairSpec
CONSTANTS
    Object = {1, 2, 3}
    TagRange = 16
    Configs <- MCConfigs
INVARIANTS
    ObjectsTravelSafely
    AccidentsAreKnown
PROPERTIES
    PushesReturn
CHECK_DEADLOCK FALSE
