\* The report of one order meets the sending of the next.
SPECIFICATION Spec
CONSTANTS
    HeartBtInt = 1
    MaxIds = 2
    MaxLosses = 0
    MaxSeq = 7
    MaxExSeq = 3
    ShutsDown = FALSE
INVARIANTS NoDeadlock
CHECK_DEADLOCK FALSE
