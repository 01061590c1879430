SPECIFICATION FairSpec
CONSTANTS
    Q1Bound = 1
    Q2Bound = 1
    Q3Bound = 1
    MaxBatch = 2
    MaxMessages = 2
    Configs = {{"csv"}, {"display"}}
    None = None
INVARIANTS
    QueuesHold
    
PROPERTIES
    StopReturns
    MessagesMove
CHECK_DEADLOCK FALSE
