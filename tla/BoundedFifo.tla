---------------------------- MODULE BoundedFifo ----------------------------
(***************************************************************************)
(* What the handler's queues promise to the two threads that share one:    *)
(* a first-in first-out channel that holds at most Bound items.  Pushing   *)
(* never blocks: the push is either accepted or refused because the        *)
(* channel is full, and popping either delivers the oldest item or         *)
(* reports that there is none.                                             *)
(***************************************************************************)
EXTENDS Naturals, Sequences

CONSTANTS
    Item,   \* what travels through the channel
    None,   \* stands for "nothing delivered yet"
    Bound   \* how many items fit

VARIABLES
    queue,      \* the items accepted and not yet delivered, oldest first
    pushResult, \* what the last completed push returned
    popResult,  \* what the last completed pop returned
    delivered   \* the item the last successful pop handed over

vars == <<queue, pushResult, popResult, delivered>>

Init ==
    /\ queue = <<>>
    /\ pushResult = None
    /\ popResult = None
    /\ delivered = None

Accept(x) ==
    /\ Len(queue) < Bound
    /\ queue' = Append(queue, x)
    /\ pushResult' = TRUE
    /\ UNCHANGED <<popResult, delivered>>

Refuse ==
    /\ Len(queue) = Bound
    /\ pushResult' = FALSE
    /\ UNCHANGED <<queue, popResult, delivered>>

Deliver ==
    /\ queue # <<>>
    /\ delivered' = Head(queue)
    /\ queue' = Tail(queue)
    /\ popResult' = TRUE
    /\ UNCHANGED pushResult

ReportEmpty ==
    /\ queue = <<>>
    /\ popResult' = FALSE
    /\ UNCHANGED <<queue, pushResult, delivered>>

Next ==
    \/ \E x \in Item : Accept(x)
    \/ Refuse
    \/ Deliver
    \/ ReportEmpty

Spec == Init /\ [][Next]_vars
=============================================================================
