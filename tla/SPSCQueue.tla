----------------------------- MODULE SPSCQueue -----------------------------
(***************************************************************************)
(* include/qf/core/spsc_queue.hpp: the lock-free ring between two stages   *)
(* of the pipeline.  One thread pushes and one thread pops.  Every access  *)
(* to shared memory is a step of its own: the loads and stores of head_    *)
(* and tail_, and the accesses to a slot of buffer_, which is plain        *)
(* memory.  A batch (try_push_batch, try_pop_batch) is a run of single     *)
(* operations that ends at the first refusal.                              *)
(***************************************************************************)
EXTENDS Naturals, Sequences

CONSTANTS
    Item,       \* values of type T
    NoItem,     \* "no value": a slot nobody wrote, a result not yet produced
    Capacity    \* the template parameter Capacity; one slot stays unused

ASSUME CapacityAssumption == Capacity \in Nat \ {0}
ASSUME NoItemAssumption == NoItem \notin Item

VARIABLES
    buffer,     \* buffer_
    head,       \* head_, written by the producer only
    tail,       \* tail_, written by the consumer only
    pushPc,     \* where the producer is in try_push
    pushItem,   \* the argument of the push under way
    pushResult, \* what the last try_push returned
    popPc,      \* where the consumer is in try_pop
    popItem,    \* the out parameter of the pop under way
    popResult,  \* what the last try_pop returned
    delivered   \* the out parameter once try_pop has returned true

producer == <<pushPc, pushItem, pushResult>>
consumer == <<popPc, popItem, popResult, delivered>>
ringVars == <<buffer, head, tail, producer, consumer>>

Slot == 0 .. Capacity - 1

(* Mutant of Succ: the ring counts one slot too few before it wraps.       *)
SuccWrapsEarly(i) == IF i >= Capacity - 2 THEN 0 ELSE i + 1

(* (i + 1) & MASK, for an index i of the ring.                             *)
Succ(i) == IF i = Capacity - 1 THEN 0 ELSE i + 1

(* (h - t) & MASK: how far h is ahead of t around the ring.                *)
Distance(h, t) == IF t <= h THEN h - t ELSE h + Capacity - t

(* The slot k places after i.                                              *)
Ahead(i, k) == IF i + k < Capacity THEN i + k ELSE i + k - Capacity

RingInit ==
    /\ buffer = [i \in Slot |-> NoItem]
    /\ head = 0
    /\ tail = 0
    /\ pushPc = "idle"
    /\ pushItem = NoItem
    /\ pushResult = NoItem
    /\ popPc = "idle"
    /\ popItem = NoItem
    /\ popResult = NoItem
    /\ delivered = NoItem

-----------------------------------------------------------------------------
(* try_push.  head_ is the producer's own, so loading it and testing it    *)
(* against tail_ is one step, at the load of tail_.                        *)

PushCheckFull(x) ==
    /\ pushPc = "idle"
    /\ IF Succ(head) = tail
       THEN /\ pushResult' = FALSE
            /\ UNCHANGED <<pushPc, pushItem>>
       ELSE /\ pushPc' = "write"
            /\ pushItem' = x
            /\ UNCHANGED pushResult
    /\ UNCHANGED <<buffer, head, tail, consumer>>

PushWrite ==
    /\ pushPc = "write"
    /\ buffer' = [buffer EXCEPT ![head] = pushItem]
    /\ pushPc' = "publish"
    /\ UNCHANGED <<head, tail, pushItem, pushResult, consumer>>

PushPublish ==
    /\ pushPc = "publish"
    /\ head' = Succ(head)
    /\ pushPc' = "idle"
    /\ pushResult' = TRUE
    /\ UNCHANGED <<buffer, tail, pushItem, consumer>>

-----------------------------------------------------------------------------
(* try_pop.  tail_ is the consumer's own.                                  *)

(* Mutant of PopCheckEmpty: an empty ring is not noticed.                  *)
PopNeverEmpty ==
    /\ popPc = "idle"
    /\ popPc' = "read"
    /\ UNCHANGED <<buffer, head, tail, producer, popItem, popResult, delivered>>

PopCheckEmpty ==
    /\ popPc = "idle"
    /\ IF tail = head
       THEN /\ popResult' = FALSE
            /\ UNCHANGED popPc
       ELSE /\ popPc' = "read"
            /\ UNCHANGED popResult
    /\ UNCHANGED <<buffer, head, tail, producer, popItem, delivered>>

PopRead ==
    /\ popPc = "read"
    /\ popItem' = buffer[tail]
    /\ popPc' = "release"
    /\ UNCHANGED <<buffer, head, tail, producer, popResult, delivered>>

(* Mutant of PopRelease: the tail is not stored.                           *)
PopReleaseForgotten ==
    /\ popPc = "release"
    /\ popPc' = "idle"
    /\ popResult' = TRUE
    /\ delivered' = popItem
    /\ UNCHANGED <<buffer, head, tail, producer, popItem>>

PopRelease ==
    /\ popPc = "release"
    /\ tail' = Succ(tail)
    /\ popPc' = "idle"
    /\ popResult' = TRUE
    /\ delivered' = popItem
    /\ UNCHANGED <<buffer, head, producer, popItem>>

Push == (\E x \in Item : PushCheckFull(x)) \/ PushWrite \/ PushPublish
Pop  == PopCheckEmpty \/ PopRead \/ PopRelease

RingNext == Push \/ Pop

RingSpec == RingInit /\ [][RingNext]_ringVars

(* The two stages run their loops on threads of their own, so each thread  *)
(* that can take a step takes one: the consumer polls for ever, and a push *)
(* that has been started runs to its end.  Nothing makes the producer push *)
(* again.                                                                  *)
RingFairness == WF_ringVars(PushWrite) /\ WF_ringVars(PushPublish) /\ WF_ringVars(Pop)

FairRingSpec == RingSpec /\ RingFairness

-----------------------------------------------------------------------------
RingTypeOK ==
    /\ buffer \in [Slot -> Item \cup {NoItem}]
    /\ head \in Slot
    /\ tail \in Slot
    /\ pushPc \in {"idle", "write", "publish"}
    /\ pushItem \in Item \cup {NoItem}
    /\ pushResult \in BOOLEAN \cup {NoItem}
    /\ popPc \in {"idle", "read", "release"}
    /\ popItem \in Item \cup {NoItem}
    /\ popResult \in BOOLEAN \cup {NoItem}
    /\ delivered \in Item \cup {NoItem}

(* The items in the ring, oldest first.                                    *)
Contents == [k \in 1 .. Distance(head, tail) |-> buffer[Ahead(tail, k - 1)]]

(* The slots that hold an item the consumer has not taken yet.             *)
Occupied == {Ahead(tail, k) : k \in 0 .. Distance(head, tail) - 1}

(* What makes the ring correct and is kept by every step: the slots from   *)
(* tail to head hold items; a producer that is past its test for full, and *)
(* a consumer that is past its test for empty, still pass those tests; and *)
(* each has in hand exactly what is in the slot it is working on.          *)
RingOK ==
    /\ RingTypeOK
    /\ \A k \in 0 .. Distance(head, tail) - 1 : buffer[Ahead(tail, k)] \in Item
    /\ pushPc # "idle" => Succ(head) # tail /\ pushItem \in Item
    /\ pushPc = "publish" => buffer[head] = pushItem
    /\ popPc # "idle" => tail # head
    /\ popPc = "release" => popItem = buffer[tail]

(* The producer never writes a slot while the consumer reads it, although  *)
(* neither takes a lock: the only ordering is the acquire/release pair on  *)
(* head_ and tail_ (spsc_queue.hpp:24-30, 48-53).                          *)
NoSlotRace == ~(pushPc = "write" /\ popPc = "read" /\ head = tail)

(* A push never touches an item that is still waiting to be popped.        *)
NoOverwrite == [][\A i \in Occupied : buffer'[i] = buffer[i]]_ringVars

(* Every interleaving of try_push and try_pop is, seen by the two callers, *)
(* a first-in first-out queue of Capacity - 1 items: nothing is lost,      *)
(* duplicated or reordered, "full" and "empty" are only reported when they *)
(* are true.                                                               *)
Fifo == INSTANCE BoundedFifo
            WITH queue <- Contents, Bound <- Capacity - 1, None <- NoItem

ImplementsFifo == Fifo!Spec

(* An item in the ring reaches the consumer, which only has to keep        *)
(* polling: as long as something is in the ring the tail moves on.         *)
ItemsAreTaken == \A t \in Slot : (tail = t /\ head # t) ~> (tail # t)
=============================================================================
