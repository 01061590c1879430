\* The whole life of a connection: logon, two orders or an order and its cancel, timers
\* up to the test-request timeout, one loss or failed attempt or disconnect, reconnection.
SPECIFICATION FairSpec
CONSTANTS
    HeartBtInt = 1
    MaxIds = 2
    MaxLosses = 1
    MaxSeq = 7
    MaxExSeq = 3
    ShutsDown = TRUE

    
    
PROPERTIES
    Recovers
CHECK_DEADLOCK FALSE
