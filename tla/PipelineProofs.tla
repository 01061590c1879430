--------------------------- MODULE PipelineProofs ---------------------------
(***************************************************************************)
(* Proofs about the feed handler process.  First the ring between two of   *)
(* its stages, for every capacity and every set of items: it is a bounded  *)
(* first-in first-out queue, however the loads and stores of its two       *)
(* threads interleave.  Then the pipeline built on such queues, for queues *)
(* of any size and any number of messages: messages keep their order, the  *)
(* counters account for all of them, and after stop() no thread is left.   *)
(***************************************************************************)
EXTENDS Pipeline, SPSCQueue, SequenceTheorems, TLAPS

-----------------------------------------------------------------------------
(* The ring.                                                               *)

(* Moving an index on by one, or k places ahead, stays in the ring.        *)
LEMMA RingIndex ==
    ASSUME NEW i \in Slot
    PROVE  /\ Succ(i) \in Slot
           /\ \A j \in Slot : Succ(i) = Succ(j) => i = j
           /\ \A k \in 0 .. Capacity - 1 : Ahead(i, k) \in Slot
           /\ Ahead(i, 0) = i
           /\ \A k \in 0 .. Capacity - 2 : Ahead(i, k + 1) = Ahead(Succ(i), k)
  BY CapacityAssumption DEF Slot, Succ, Ahead

(* Distance measures how far apart two indices are: it is less than the    *)
(* capacity, zero only when they meet, and walking it from t ends at h.    *)
LEMMA RingDistance ==
    ASSUME NEW h \in Slot, NEW t \in Slot
    PROVE  /\ Distance(h, t) \in 0 .. Capacity - 1
           /\ Distance(h, t) = 0 <=> h = t
           /\ Distance(h, t) = Capacity - 1 <=> Succ(h) = t
           /\ Ahead(t, Distance(h, t)) = h
           /\ Succ(h) # t => Distance(Succ(h), t) = Distance(h, t) + 1
           /\ h # t => Distance(h, Succ(t)) = Distance(h, t) - 1
           /\ \A k \in 0 .. Distance(h, t) - 1 : Ahead(t, k) # h
  BY CapacityAssumption DEF Slot, Succ, Ahead, Distance

(* RingOK holds in the initial state and is kept by every step of the two  *)
(* threads, so it always holds: the slots from tail to head hold items,    *)
(* and a thread that has passed its test for full or empty may rely on it  *)
(* until it has finished (spsc_queue.hpp:23-55).                           *)
THEOREM RingCorrect == RingSpec => []RingOK
<1>1. RingInit => RingOK
  BY SMTT(30), CapacityAssumption DEF RingInit, RingOK, RingTypeOK, Slot, Distance
<1>2. RingOK /\ [RingNext]_ringVars => RingOK'
  <2> SUFFICES ASSUME RingOK, [RingNext]_ringVars
               PROVE  RingOK'
    OBVIOUS
  <2> USE DEF RingOK, RingTypeOK
  <2>1. ASSUME NEW x \in Item, PushCheckFull(x)
        PROVE  RingOK'
    BY <2>1 DEF PushCheckFull, consumer
  <2>2. CASE PushWrite
    <3> USE DEF PushWrite, consumer
    <3>1. \A k \in 0 .. Distance(head, tail) - 1 : Ahead(tail, k) \in Slot \ {head}
      BY RingIndex, RingDistance
    <3>2. buffer' \in [Slot -> Item \cup {NoItem}] /\ buffer'[head] = pushItem
      BY <2>2
    <3>3. \A i \in Slot \ {head} : buffer'[i] = buffer[i]
      BY <2>2
    <3>4. \A k \in 0 .. Distance(head, tail) - 1 : buffer'[Ahead(tail, k)] \in Item
      BY <3>1, <3>3
    <3>5. popPc = "release" => popItem = buffer'[tail]
      BY <2>2, <3>3
    <3> QED BY <2>2, <3>2, <3>4, <3>5
  <2>3. CASE PushPublish
    <3> USE DEF PushPublish, consumer
    <3>1. /\ head' \in Slot
          /\ Distance(head', tail) = Distance(head, tail) + 1
          /\ Ahead(tail, Distance(head, tail)) = head
          /\ Distance(head, tail) \in 0 .. Capacity - 1
      BY <2>3, RingIndex, RingDistance
    <3>2. \A k \in 0 .. Distance(head', tail) - 1 : buffer[Ahead(tail, k)] \in Item
      BY <2>3, <3>1
    <3>3. popPc # "idle" => tail # head'
      BY <2>3, RingDistance
    <3> QED BY <2>3, <3>1, <3>2, <3>3
  <2>4. CASE PopCheckEmpty
    BY <2>4 DEF PopCheckEmpty, producer
  <2>5. CASE PopRead
    BY <2>5, RingDistance, RingIndex DEF PopRead, producer
  <2>6. CASE PopRelease
    <3> USE DEF PopRelease, producer
    <3>1. /\ tail' \in Slot
          /\ Distance(head, tail') = Distance(head, tail) - 1
          /\ Distance(head, tail) \in 0 .. Capacity - 1
      BY <2>6, RingIndex, RingDistance
    <3>2. \A k \in 0 .. Distance(head, tail') - 1 : buffer[Ahead(tail', k)] \in Item
      <4> SUFFICES ASSUME NEW k \in 0 .. Distance(head, tail') - 1
                   PROVE  buffer[Ahead(tail', k)] \in Item
        OBVIOUS
      <4>1. k + 1 \in 0 .. Distance(head, tail) - 1 /\ k \in 0 .. Capacity - 2
        BY <3>1, CapacityAssumption
      <4>2. Ahead(tail, k + 1) = Ahead(tail', k)
        BY <2>6, <4>1, RingIndex
      <4> QED BY <4>1, <4>2
    <3>3. popItem \in Item
      BY <2>6, <3>1, RingIndex, RingDistance
    <3>4. pushPc # "idle" => Succ(head) # tail'
      BY <2>6, RingIndex
    <3> QED BY <2>6, <3>1, <3>2, <3>3, <3>4
  <2>7. CASE UNCHANGED ringVars
    BY <2>7 DEF ringVars, producer, consumer
  <2> QED
    BY <2>1, <2>2, <2>3, <2>4, <2>5, <2>6, <2>7 DEF RingNext, Push, Pop
<1> QED BY <1>1, <1>2, PTL DEF RingSpec

(* No slot is written by the producer while the consumer reads it.         *)
THEOREM NoRace == RingSpec => []NoSlotRace
<1>1. RingOK => NoSlotRace
  BY DEF RingOK, NoSlotRace
<1> QED BY <1>1, RingCorrect, PTL

(* A step of either thread leaves every item that waits in the ring where  *)
(* it is (spsc_queue.hpp:29, 41: the only writes to buffer_).              *)
THEOREM PushPreservesItems == RingSpec => NoOverwrite
<1>1. RingOK /\ [RingNext]_ringVars => [\A i \in Occupied : buffer'[i] = buffer[i]]_ringVars
  <2> SUFFICES ASSUME RingOK, [RingNext]_ringVars, NEW i \in Occupied
               PROVE  buffer'[i] = buffer[i]
    OBVIOUS
  <2>1. i \in Slot \ {head}
    BY RingIndex, RingDistance DEF RingOK, RingTypeOK, Occupied
  <2>2. CASE PushWrite
    BY <2>1, <2>2 DEF PushWrite, RingOK, RingTypeOK
  <2>3. CASE ~PushWrite
    BY <2>3 DEF RingNext, Push, Pop, PushCheckFull, PushPublish, PopCheckEmpty,
                PopRead, PopRelease, ringVars
  <2> QED BY <2>2, <2>3
<1> QED BY <1>1, RingCorrect, PTL DEF RingSpec, NoOverwrite

-----------------------------------------------------------------------------
(* The contents of the ring are a sequence whose length is the distance    *)
(* from tail to head.                                                      *)
LEMMA ContentsType ==
    ASSUME RingOK
    PROVE  /\ Contents \in Seq(Item)
           /\ Len(Contents) = Distance(head, tail)
           /\ \A k \in 1 .. Distance(head, tail) :
                 Contents[k] = buffer[Ahead(tail, k - 1)]
  BY SMTT(30), RingDistance DEF RingOK, RingTypeOK, Contents

(* Storing head_ adds the pushed item at the end of the contents.          *)
LEMMA PublishAppends ==
    ASSUME RingOK, RingOK', PushPublish
    PROVE  Contents' = Append(Contents, pushItem)
<1> DEFINE d == Distance(head, tail)
<1>1. /\ d \in Nat
      /\ Distance(head', tail') = d + 1
      /\ Ahead(tail, d) = head
      /\ buffer[head] = pushItem
      /\ tail' = tail /\ buffer' = buffer /\ pushItem \in Item
  BY RingDistance, CapacityAssumption DEF RingOK, RingTypeOK, PushPublish
<1>2. /\ Contents \in Seq(Item) /\ Len(Contents) = d
      /\ \A k \in 1 .. d : Contents[k] = buffer[Ahead(tail, k - 1)]
  BY ContentsType
<1>3. /\ Contents' \in Seq(Item) /\ Len(Contents') = d + 1
      /\ \A k \in 1 .. d + 1 : Contents'[k] = buffer[Ahead(tail, k - 1)]
  BY <1>1, ContentsType DEF RingOK, RingTypeOK, Contents
<1>4. /\ Append(Contents, pushItem) \in Seq(Item)
      /\ Len(Append(Contents, pushItem)) = d + 1
      /\ \A k \in 1 .. d : Append(Contents, pushItem)[k] = Contents[k]
      /\ Append(Contents, pushItem)[d + 1] = pushItem
  BY <1>1, <1>2, AppendProperties
<1>5. \A k \in 1 .. d + 1 : Contents'[k] = Append(Contents, pushItem)[k]
  <2> SUFFICES ASSUME NEW k \in 1 .. d + 1
               PROVE  Contents'[k] = Append(Contents, pushItem)[k]
    OBVIOUS
  <2>1. CASE k \in 1 .. d
    BY <1>2, <1>3, <1>4, <2>1
  <2>2. CASE k = d + 1
    <3>1. k \in 1 .. d + 1 /\ k - 1 = d
      BY <1>1, <2>2
    <3> QED BY <1>1, <1>3, <1>4, <2>2, <3>1
  <2>3. k \in 1 .. d \/ k = d + 1
    BY <1>1
  <2> QED BY <2>1, <2>2, <2>3
<1> QED BY <1>3, <1>4, <1>5, SeqEqual

(* Storing tail_ removes the first item of the contents, which is the one  *)
(* the consumer has read.                                                  *)
LEMMA ReleaseRemovesFirst ==
    ASSUME RingOK, RingOK', PopRelease
    PROVE  /\ Contents # <<>>
           /\ Contents' = Tail(Contents)
           /\ delivered' = Head(Contents)
<1> DEFINE d == Distance(head, tail)
<1>1. /\ d \in 1 .. Capacity - 1
      /\ Distance(head', tail') = d - 1
      /\ tail \in Slot /\ tail' = Succ(tail) /\ buffer' = buffer
      /\ delivered' = buffer[tail]
  BY RingDistance DEF RingOK, RingTypeOK, PopRelease, producer
<1>2. /\ Contents \in Seq(Item) /\ Len(Contents) = d
      /\ \A k \in 1 .. d : Contents[k] = buffer[Ahead(tail, k - 1)]
  BY ContentsType
<1>3. /\ Contents' \in Seq(Item) /\ Len(Contents') = d - 1
      /\ \A k \in 1 .. d - 1 : Contents'[k] = buffer[Ahead(tail', k - 1)]
  <2>1. Contents' = [k \in 1 .. d - 1 |-> buffer[Ahead(tail', k - 1)]]
    BY <1>1 DEF Contents
  <2>2. \A k \in 1 .. d - 1 : buffer[Ahead(tail', k - 1)] \in Item
    BY <1>1 DEF RingOK
  <2> QED BY <1>1, <2>1, <2>2
<1>4. Contents # <<>>
  BY <1>1, <1>2
<1>5. /\ Tail(Contents) \in Seq(Item) /\ Len(Tail(Contents)) = d - 1
      /\ \A k \in 1 .. d - 1 : Tail(Contents)[k] = Contents[k + 1]
      /\ Head(Contents) = Contents[1]
  BY <1>2, <1>4, HeadTailProperties
<1>6. \A k \in 1 .. d - 1 : Contents'[k] = Tail(Contents)[k]
  <2> SUFFICES ASSUME NEW k \in 1 .. d - 1
               PROVE  Contents'[k] = Tail(Contents)[k]
    OBVIOUS
  <2>1. k - 1 \in 0 .. Capacity - 2 /\ k + 1 \in 1 .. d /\ (k - 1) + 1 = (k + 1) - 1
    BY <1>1, CapacityAssumption
  <2>2. Ahead(tail, (k - 1) + 1) = Ahead(tail', k - 1)
    BY <1>1, <2>1, RingIndex
  <2> QED BY <1>2, <1>3, <1>5, <2>1, <2>2
<1>7. Contents' = Tail(Contents)
  BY <1>3, <1>5, <1>6, SeqEqual
<1>8. Head(Contents) = buffer[tail]
  BY <1>1, <1>2, <1>5, RingIndex
<1> QED BY <1>1, <1>4, <1>7, <1>8

(* The ring implements the bounded first-in first-out queue: every step of *)
(* try_push and try_pop is a step of the abstract queue, or one it does    *)
(* not see (spsc_queue.hpp:23-55).                                         *)
THEOREM RingImplementsFifo == RingSpec => ImplementsFifo
<1>1. RingInit => Fifo!Init
  BY CapacityAssumption DEF RingInit, Fifo!Init, Contents, Distance
<1>2. RingOK /\ RingOK' /\ [RingNext]_ringVars => [Fifo!Next]_Fifo!vars
  <2> SUFFICES ASSUME RingOK, RingOK', [RingNext]_ringVars
               PROVE  [Fifo!Next]_Fifo!vars
    OBVIOUS
  <2>0. /\ Len(Contents) = Distance(head, tail)
        /\ Len(Contents) \in 0 .. Capacity - 1
        /\ Len(Contents) = Capacity - 1 <=> Succ(head) = tail
        /\ Contents = <<>> <=> head = tail
    <3>1. /\ head \in Slot /\ tail \in Slot
          /\ Contents \in Seq(Item) /\ Len(Contents) = Distance(head, tail)
      BY ContentsType DEF RingOK, RingTypeOK
    <3>2. Contents = <<>> <=> Len(Contents) = 0
      BY <3>1, EmptySeq
    <3> QED BY <3>1, <3>2, RingDistance
  <2>1. ASSUME NEW x \in Item, PushCheckFull(x)
        PROVE  Fifo!Refuse \/ UNCHANGED Fifo!vars
    BY <2>0, <2>1 DEF PushCheckFull, consumer, Fifo!Refuse, Fifo!vars, Contents
  <2>2. CASE PushWrite
    <3>1. \A k \in 1 .. Distance(head, tail) :
             buffer'[Ahead(tail, k - 1)] = buffer[Ahead(tail, k - 1)]
      <4> SUFFICES ASSUME NEW k \in 1 .. Distance(head, tail)
                   PROVE  buffer'[Ahead(tail, k - 1)] = buffer[Ahead(tail, k - 1)]
        OBVIOUS
      <4>1. k - 1 \in 0 .. Distance(head, tail) - 1 /\ k - 1 \in 0 .. Capacity - 1
        BY RingDistance, CapacityAssumption DEF RingOK, RingTypeOK
      <4>2. Ahead(tail, k - 1) \in Slot \ {head}
        BY <4>1, RingIndex, RingDistance DEF RingOK, RingTypeOK
      <4> QED BY <2>2, <4>2 DEF PushWrite, RingOK, RingTypeOK
    <3>2. Contents' = Contents
      BY <2>2, <3>1 DEF PushWrite, Contents
    <3> QED BY <2>2, <3>2 DEF PushWrite, consumer, Fifo!vars
  <2>3. CASE PushPublish
    <3>1. Len(Contents) < Capacity - 1
      BY <2>0, <2>3, CapacityAssumption DEF RingOK, PushPublish
    <3>2. pushItem \in Item
      BY <2>3 DEF RingOK, PushPublish
    <3>3. Fifo!Accept(pushItem)
      BY <2>3, <3>1, PublishAppends DEF PushPublish, consumer, Fifo!Accept
    <3> QED BY <3>2, <3>3 DEF Fifo!Next
  <2>4. CASE PopCheckEmpty
    BY <2>0, <2>4 DEF PopCheckEmpty, producer, Contents, Fifo!Next, Fifo!ReportEmpty,
                      Fifo!vars
  <2>5. CASE PopRead
    BY <2>5 DEF PopRead, producer, Contents, Fifo!vars
  <2>6. CASE PopRelease
    BY <2>6, ReleaseRemovesFirst DEF PopRelease, producer, Fifo!Next, Fifo!Deliver
  <2>7. CASE UNCHANGED ringVars
    BY <2>7 DEF ringVars, producer, consumer, Contents, Fifo!vars
  <2> QED
    BY <2>1, <2>2, <2>3, <2>4, <2>5, <2>6, <2>7 DEF RingNext, Push, Pop, Fifo!Next
<1> QED BY <1>1, <1>2, RingCorrect, PTL DEF RingSpec, ImplementsFifo, Fifo!Spec
-----------------------------------------------------------------------------
(* The pipeline.                                                           *)

(* A packet that waits has a message.                                      *)
PacketsFull == \A i \in DOMAIN q1 : q1[i].lo <= q1[i].hi

(* The book holds an event while it is in BookManager::process, and only   *)
(* then.                                                                   *)
EventHeld == event # None <=> pc["book"] = "process"

(* No stage runs before start().                                           *)
StartsOnce == pc["main"] = "start" => \A t \in Stage : pc[t] = "off"

(* A thread between the load and the store of queue_drops has counted the  *)
(* drop that it stores, and some thread is there or has been there when    *)
(* there was a drop.                                                       *)
DropsStored ==
    /\ \A t \in Stage : pc[t] = "drop" => register[t] < Dropped
    /\ Dropped > 0 => stats.queue_drops > 0 \/ \E t \in Stage : pc[t] = "drop"

(* Threads are joined in order, so a joiner that is past a thread finds it *)
(* gone: main's stages, and the consumer's helpers.                        *)
Gone(t) == pc[t] \in {"off", "done"}

Joined ==
    /\ pc["main"] \in {"join_parser", "join_book", "join_consumer", "done"} => pc["network"] = "done"
    /\ pc["main"] \in {"join_book", "join_consumer", "done"} => pc["parser"] = "done"
    /\ pc["main"] \in {"join_consumer", "done"} => pc["book"] = "done"
    /\ pc["main"] = "done" => pc["consumer"] = "done"
    /\ pc["consumer"] \in {"stop_csv", "join_csv", "done"} => Gone("display")
    /\ pc["consumer"] = "done" => Gone("csv")

PipelineInv ==
    /\ TypeOK /\ InOrder /\ PacketsFull
    /\ EventHeld /\ Accounted /\ DropsStored
    /\ StartsOnce /\ Joined

(* What stop() promises to the destructor of the pipeline.                 *)
StoppedIsQuiet == pc["main"] = "done" => \A t \in Stage \cup Helper : Gone(t)

-----------------------------------------------------------------------------
(* Queues.                                                                 *)

(* A push adds one element behind the others.                              *)
LEMMA PushedSeq ==
    ASSUME NEW S, NEW s \in Seq(S), NEW e \in S
    PROVE  /\ Append(s, e) \in Seq(S)
           /\ Len(Append(s, e)) = Len(s) + 1
           /\ DOMAIN Append(s, e) = 1 .. Len(s) + 1
           /\ DOMAIN s = 1 .. Len(s)
           /\ \A i \in 1 .. Len(s) : Append(s, e)[i] = s[i]
           /\ Append(s, e)[Len(s) + 1] = e
           /\ Range(Append(s, e)) \subseteq Range(s) \cup {e}
<1>1. /\ Append(s, e) \in Seq(S)
      /\ Len(Append(s, e)) = Len(s) + 1
      /\ DOMAIN Append(s, e) = 1 .. Len(s) + 1
      /\ DOMAIN s = 1 .. Len(s)
      /\ \A i \in 1 .. Len(s) : Append(s, e)[i] = s[i]
      /\ Append(s, e)[Len(s) + 1] = e
  OBVIOUS
<1>2. \A i \in 1 .. Len(s) + 1 : i \in 1 .. Len(s) \/ i = Len(s) + 1
  OBVIOUS
<1> QED BY Zenon, <1>1, <1>2 DEF Range

(* A pop removes the first element.                                        *)
LEMMA PoppedSeq ==
    ASSUME NEW S, NEW s \in Seq(S), s # <<>>
    PROVE  /\ Tail(s) \in Seq(S)
           /\ Head(s) \in S
           /\ Len(s) \in Nat /\ Len(s) > 0
           /\ Len(Tail(s)) = Len(s) - 1
           /\ DOMAIN s = 1 .. Len(s)
           /\ DOMAIN Tail(s) = 1 .. Len(s) - 1
           /\ Head(s) = s[1]
           /\ \A i \in 1 .. Len(s) - 1 : Tail(s)[i] = s[i + 1]
           /\ Range(Tail(s)) \subseteq Range(s)
           /\ Head(s) \in Range(s)
<1>1. /\ Tail(s) \in Seq(S)
      /\ Head(s) \in S
      /\ Len(s) \in Nat /\ Len(s) > 0
      /\ Len(Tail(s)) = Len(s) - 1
      /\ DOMAIN s = 1 .. Len(s)
      /\ DOMAIN Tail(s) = 1 .. Len(s) - 1
      /\ Head(s) = s[1]
      /\ \A i \in 1 .. Len(s) - 1 : Tail(s)[i] = s[i + 1]
  OBVIOUS
<1>2. /\ 1 \in DOMAIN s
      /\ \A i \in 1 .. Len(s) - 1 : i + 1 \in DOMAIN s
  BY <1>1
<1> QED BY <1>1, <1>2 DEF Range

-----------------------------------------------------------------------------
(* The order of the places.                                                *)

Ordered(P) == \A i, j \in 1 .. 6 : i < j => \A m \in P[i], n \in P[j] : m < n

(* Where all places but one keep within what they held, given place by place. *)
LEMMA SixPlaces ==
    ASSUME NEW P, NEW Q, NEW k \in 0 .. 6,
           k = 1 \/ Q[1] \subseteq P[1], k = 2 \/ Q[2] \subseteq P[2], k = 3 \/ Q[3] \subseteq P[3],
           k = 4 \/ Q[4] \subseteq P[4], k = 5 \/ Q[5] \subseteq P[5], k = 6 \/ Q[6] \subseteq P[6]
    PROVE  \A i \in 1 .. 6 : i # k => Q[i] \subseteq P[i]
<1> SUFFICES ASSUME NEW i \in 1 .. 6, i # k
             PROVE  Q[i] \subseteq P[i]
  BY Zenon
<1>1. i = 1 \/ i = 2 \/ i = 3 \/ i = 4 \/ i = 5 \/ i = 6
  OBVIOUS
<1> QED BY <1>1

(* What one stage takes from the place behind it, and loses nothing but    *)
(* what was before the rest, keeps the places in order; dropping messages  *)
(* anywhere keeps it too.                                                  *)
LEMMA Advance ==
    ASSUME NEW P, NEW Q, NEW A, NEW k \in 1 .. 5, Ordered(P),
           \A i \in 1 .. 6 : i # k => Q[i] \subseteq P[i],
           Q[k] \subseteq P[k] \cup A,
           A \subseteq P[k + 1],
           \A m \in A, n \in Q[k + 1] : m < n
    PROVE  Ordered(Q)
<1> SUFFICES ASSUME NEW i \in 1 .. 6, NEW j \in 1 .. 6, i < j, NEW m \in Q[i], NEW n \in Q[j]
             PROVE  m < n
  BY Zenon DEF Ordered
<1>1. CASE i = k /\ m \in A
  <2>1. CASE j = k + 1
    BY Zenon, <1>1, <2>1
  <2>2. CASE j # k + 1
    BY <1>1, <2>2 DEF Ordered
  <2> QED BY Zenon, <2>1, <2>2
<1>2. CASE j = k /\ n \in A
  BY <1>2 DEF Ordered
<1>3. CASE ~(i = k /\ m \in A) /\ ~(j = k /\ n \in A)
  BY Zenon, <1>3 DEF Ordered
<1> QED BY Zenon, <1>1, <1>2, <1>3

-----------------------------------------------------------------------------
(* Types.                                                                  *)

ControlOK ==
    /\ enabled \in Configs
    /\ pc \in [Thread -> Location]
    /\ {running, shutdown} \subseteq BOOLEAN
    /\ helperRunning \in [Helper -> BOOLEAN]

DataOK ==
    /\ arrived \in 0 .. MaxMessages
    /\ q1 \in Seq(Packet) /\ Len(q1) <= Q1Bound
    /\ q2 \in Seq(Message) /\ Len(q2) <= Q2Bound
    /\ q3 \in Seq(Message) /\ Len(q3) <= Q3Bound
    /\ batch \in Packet
    /\ event \in Message \cup {None}
    /\ stats \in [messages_parsed : Nat, book_updates : Nat, queue_drops : Nat]
    /\ {register, refused} \subseteq [Stage -> Nat]
    /\ collected \in [tick : Nat, total : Nat]

(* The type invariant speaks of control and of data. *)
LEMMA TypeParts == TypeOK <=> ControlOK /\ DataOK
  BY Zenon DEF TypeOK, ControlOK, DataOK

(* Every thread goes from one of its program points to another. *)
LEMMA ControlNext == ControlOK /\ [Next]_vars => ControlOK'
<1> SUFFICES ASSUME ControlOK, [Next]_vars
             PROVE  ControlOK'
  BY Zenon
<1>1. pc' \in [Thread -> Location]
  <2> USE DEF ControlOK, Location, Goto
  <2>1. CASE Network
    BY Zenon, <2>1 DEF Network, TestRunning, Receive, RunForEnds, StoreDrops
  <2>2. CASE Parser
    BY Zenon, <2>2 DEF Parser, TestRunning, ParserIdle, BadFrame, GoodFrame, BatchDone, InvalidMessage,
                ParsedMessage, StoreDrops
  <2>3. CASE Book
    BY Zenon, <2>3 DEF Book, TestRunning, BookPop, BookPush, StoreDrops
  <2>4. CASE ConsumerStart
    BY Zenon, <2>4 DEF ConsumerStart
  <2>5. CASE Consumer /\ ~ConsumerStart
    BY Zenon, <2>5 DEF Consumer, TestRunning, ConsumerWork, StopHelper, JoinHelper
  <2>6. CASE Display \/ Csv
    BY <2>6 DEF Display, Csv, HelperStep
  <2>7. CASE Start
    BY Zenon, <2>7 DEF Start
  <2>8. CASE Main /\ ~Start
    BY Zenon, <2>8 DEF Main, WaitTest, WaitBlock, Stop, Join
  <2>9. CASE SpuriousWakeup \/ Signal \/ Notify
    BY Zenon, <2>9 DEF SpuriousWakeup, Signal, Notify
  <2>10. CASE UNCHANGED vars
    BY Zenon, <2>10 DEF vars
  <2> QED BY Zenon, <2>1, <2>2, <2>3, <2>4, <2>5, <2>6, <2>7, <2>8, <2>9, <2>10 DEF Next
<1>2. /\ enabled' = enabled
      /\ running' \in {running, TRUE, FALSE} /\ shutdown' \in {shutdown, TRUE}
  <2> USE DEF control
  <2>1. CASE Network
    BY Zenon, <2>1 DEF Network, TestRunning, Receive, RunForEnds, StoreDrops
  <2>2. CASE Parser
    BY Zenon, <2>2 DEF Parser, TestRunning, ParserIdle, BadFrame, GoodFrame, BatchDone, InvalidMessage,
                ParsedMessage, StoreDrops
  <2>3. CASE Book
    BY Zenon, <2>3 DEF Book, TestRunning, BookPop, BookPush, StoreDrops
  <2>4. CASE Consumer
    BY Zenon, <2>4 DEF Consumer, ConsumerStart, TestRunning, ConsumerWork, StopHelper, JoinHelper
  <2>5. CASE Display \/ Csv
    BY Zenon, <2>5 DEF Display, Csv, HelperStep
  <2>6. CASE Main
    BY Zenon, <2>6 DEF Main, Start, WaitTest, WaitBlock, Stop, Join
  <2>7. CASE SpuriousWakeup \/ Signal \/ Notify
    BY Zenon, <2>7 DEF SpuriousWakeup, Signal, Notify
  <2>8. CASE UNCHANGED vars
    BY Zenon, <2>8 DEF vars
  <2> QED BY Zenon, <2>1, <2>2, <2>3, <2>4, <2>5, <2>6, <2>7, <2>8 DEF Next
<1>3. helperRunning' \in [Helper -> BOOLEAN]
  <2> USE DEF control, ControlOK
  <2>1. CASE ConsumerStart
    BY Zenon, <2>1 DEF ConsumerStart, Helper
  <2>2. CASE \/ StopHelper("display", "stop_display", "join_display")
             \/ StopHelper("csv", "stop_csv", "join_csv")
    BY Zenon, <2>2 DEF StopHelper, Helper
  <2>3. CASE UNCHANGED helperRunning
    BY Zenon, <2>3
  <2>4. CASE Consumer
    BY Zenon, <2>1, <2>2, <2>3, <2>4 DEF Consumer, TestRunning, ConsumerWork, JoinHelper
  <2>5. CASE Network \/ Parser \/ Book
    BY Zenon, <2>3, <2>5 DEF Network, Parser, Book, TestRunning, Receive, RunForEnds, ParserIdle,
                BadFrame, GoodFrame, BatchDone, InvalidMessage, ParsedMessage, BookPop, BookPush,
                StoreDrops
  <2>6. CASE Display \/ Csv
    BY Zenon, <2>3, <2>6 DEF Display, Csv, HelperStep
  <2>7. CASE Main
    BY Zenon, <2>3, <2>7 DEF Main, Start, WaitTest, WaitBlock, Stop, Join
  <2>8. CASE SpuriousWakeup \/ Signal \/ Notify \/ UNCHANGED vars
    BY Zenon, <2>3, <2>8 DEF SpuriousWakeup, Signal, Notify, vars
  <2> QED BY Zenon, <2>4, <2>5, <2>6, <2>7, <2>8 DEF Next
<1>4. {running', shutdown'} \subseteq BOOLEAN
  BY <1>2, Zenon DEF ControlOK
<1> QED BY Zenon, <1>1, <1>2, <1>3, <1>4 DEF ControlOK
-----------------------------------------------------------------------------
(* Kinds of steps.                                                         *)

(* A step of control: no message moves, nothing is counted, and no stage   *)
(* enters or leaves an increment of queue_drops or BookManager::process.   *)
ControlStep ==
    /\ UNCHANGED <<arrived, queues, hands, counters>>
    /\ \A t \in Stage : pc'[t] = "drop" <=> pc[t] = "drop"
    /\ pc'["book"] = "process" <=> pc["book"] = "process"

DropStep == \E t \in Stage, next \in {"work", "message", "loop"} : StoreDrops(t, next)

(* A step moves a message, counts a drop, or is a step of control.         *)
LEMMA StepKinds ==
    ControlOK /\ StartsOnce /\ [Next]_vars =>
        \/ \E n \in 1 .. MaxBatch : Receive(n)
        \/ BadFrame \/ GoodFrame \/ InvalidMessage \/ ParsedMessage
        \/ BookPop \/ BookPush \/ ConsumerWork
        \/ DropStep
        \/ ControlStep
<1> SUFFICES ASSUME ControlOK, StartsOnce, [Next]_vars
             PROVE  \/ \E n \in 1 .. MaxBatch : Receive(n)
                    \/ BadFrame \/ GoodFrame \/ InvalidMessage \/ ParsedMessage
                    \/ BookPop \/ BookPush \/ ConsumerWork
                    \/ DropStep
                    \/ ControlStep
  BY Zenon
<1>0. pc \in [Thread -> Location]
  BY Zenon DEF ControlOK
<1> USE DEF Thread, Stage, Helper, Goto
<1>1. CASE Network
  BY Zenon, <1>0, <1>1 DEF Network, DropStep, ControlStep, TestRunning, RunForEnds
<1>2. CASE Parser
  BY Zenon, <1>0, <1>2 DEF Parser, DropStep, ControlStep, TestRunning, ParserIdle, BatchDone
<1>3. CASE Book
  BY Zenon, <1>0, <1>3 DEF Book, DropStep, ControlStep, TestRunning
<1>4. CASE Consumer
  BY Zenon, <1>0, <1>4 DEF Consumer, ControlStep, ConsumerStart, TestRunning, StopHelper, JoinHelper
<1>5. CASE Display \/ Csv
  BY Zenon, <1>0, <1>5 DEF Display, Csv, ControlStep, HelperStep
<1>6. CASE Start
  <2>1. \A t \in Stage : pc[t] = "off"
    BY Zenon, <1>6 DEF Start, StartsOnce
  <2>2. \A t \in Stage : pc'[t] \in {"start", "loop"}
    BY Zenon, <1>6 DEF Start
  <2> QED BY Zenon, <1>6, <2>1, <2>2 DEF Start, ControlStep
<1>7. CASE Main /\ ~Start
  BY Zenon, <1>0, <1>7 DEF Main, ControlStep, WaitTest, WaitBlock, Stop, Join
<1>8. CASE SpuriousWakeup \/ Signal \/ Notify
  BY Zenon, <1>0, <1>8 DEF ControlStep, SpuriousWakeup, Signal, Notify
<1>9. CASE UNCHANGED vars
  BY Zenon, <1>9 DEF ControlStep, vars
<1> QED BY Zenon, <1>1, <1>2, <1>3, <1>4, <1>5, <1>6, <1>7, <1>8, <1>9 DEF Next

(* What the assumption on the bounds gives. *)
LEMMA BoundsFacts ==
    /\ Q1Bound \in Nat /\ Q2Bound \in Nat /\ Q3Bound \in Nat /\ MaxBatch \in Nat
    /\ MaxMessages \in Nat
    /\ None \notin Message
  BY BoundsAssumption DEF Message

(* A refused push is a load of queue_drops and a count.                    *)
LEMMA RefuseType ==
    ASSUME DataOK, NEW t \in Stage, Refuse(t)
    PROVE  /\ {register', refused'} \subseteq [Stage -> Nat]
           /\ UNCHANGED <<stats, collected>>
  BY DEF DataOK, Refuse

(* The parser goes on to the next message of its packet.                   *)
LEMMA NextMessage ==
    ASSUME DataOK, batch.lo <= batch.hi, batch' = [batch EXCEPT !.lo = @ + 1]
    PROVE  /\ batch' \in Packet
           /\ batch.lo \in Message
           /\ batch'.lo = batch.lo + 1 /\ batch'.hi = batch.hi
<1>1. batch \in [lo : 1 .. MaxMessages + 1, hi : 0 .. MaxMessages]
  BY Zenon DEF DataOK, Packet
<1>2. batch' \in [lo : 1 .. MaxMessages + 1, hi : 0 .. MaxMessages]
  BY <1>1, BoundsFacts
<1>3. batch'.lo = batch.lo + 1 /\ batch'.hi = batch.hi /\ batch.lo \in 1 .. MaxMessages
  BY <1>1, BoundsFacts
<1> QED BY Zenon, <1>2, <1>3 DEF Packet, Message

(* Every step keeps the queues within their bounds and the data typed. *)
LEMMA DataNext == TypeOK /\ EventHeld /\ StartsOnce /\ [Next]_vars => DataOK'
<1> SUFFICES ASSUME ControlOK, DataOK, EventHeld, StartsOnce, [Next]_vars
             PROVE  DataOK'
  BY Zenon, TypeParts
<1> USE DEF queues, hands, counters
<1>1. ASSUME NEW n \in 1 .. MaxBatch, Receive(n)
      PROVE  DataOK'
  <2>1. arrived' \in 0 .. MaxMessages
    BY <1>1, BoundsFacts DEF Receive, DataOK
  <2>2. CASE Len(q1) < Q1Bound
    <3> DEFINE packet == [lo |-> arrived + 1, hi |-> arrived + n]
    <3>1. packet \in Packet
      BY <1>1, BoundsFacts DEF Receive, DataOK, Packet
    <3> HIDE DEF packet
    <3>2. q1' = Append(q1, packet)
      BY Zenon, <1>1, <2>2 DEF Receive, packet
    <3>3. q1' \in Seq(Packet) /\ Len(q1') <= Q1Bound
      BY <2>2, <3>1, <3>2, PushedSeq, BoundsFacts DEF DataOK
    <3> QED BY Zenon, <1>1, <2>1, <2>2, <3>3 DEF Receive, DataOK
  <2>3. CASE ~(Len(q1) < Q1Bound)
    <3>1. /\ {register', refused'} \subseteq [Stage -> Nat]
          /\ UNCHANGED <<stats, collected>>
      BY Zenon, <1>1, <2>3, RefuseType DEF Receive, Stage
    <3> QED BY Zenon, <1>1, <2>1, <2>3, <3>1 DEF Receive, DataOK
  <2> QED BY Zenon, <2>2, <2>3
<1>2. CASE BadFrame
  BY <1>2, PoppedSeq, BoundsFacts DEF BadFrame, DataOK
<1>3. CASE GoodFrame
  BY <1>3, PoppedSeq, BoundsFacts DEF GoodFrame, DataOK
<1>4. CASE InvalidMessage
  <2>1. batch' \in Packet
    BY Zenon, <1>4, NextMessage DEF InvalidMessage
  <2> QED BY Zenon, <1>4, <2>1 DEF InvalidMessage, DataOK
<1>5. CASE ParsedMessage
  <2>1. batch' \in Packet /\ batch.lo \in Message
    BY Zenon, <1>5, NextMessage DEF ParsedMessage
  <2>2. CASE Len(q2) < Q2Bound
    <3>1. q2' \in Seq(Message) /\ Len(q2') <= Q2Bound
      <4>1. q2' = Append(q2, batch.lo)
        BY Zenon, <1>5, <2>2 DEF ParsedMessage
      <4> QED BY <2>1, <2>2, <4>1, PushedSeq, BoundsFacts DEF DataOK
    <3>2. stats' \in [messages_parsed : Nat, book_updates : Nat, queue_drops : Nat]
      <4>1. stats \in [messages_parsed : Nat, book_updates : Nat, queue_drops : Nat]
        BY Zenon DEF DataOK
      <4>2. stats' = [stats EXCEPT !.messages_parsed = @ + 1]
        BY Zenon, <1>5, <2>2 DEF ParsedMessage
      <4> QED BY <4>1, <4>2
    <3> QED BY Zenon, <1>5, <2>1, <2>2, <3>1, <3>2 DEF ParsedMessage, DataOK
  <2>3. CASE ~(Len(q2) < Q2Bound)
    <3>1. /\ {register', refused'} \subseteq [Stage -> Nat]
          /\ UNCHANGED <<stats, collected>>
      BY Zenon, <1>5, <2>3, RefuseType DEF ParsedMessage, Stage
    <3> QED BY Zenon, <1>5, <2>1, <2>3, <3>1 DEF ParsedMessage, DataOK
  <2> QED BY Zenon, <2>2, <2>3
<1>6. CASE BookPop
  <2>1. CASE q2 = <<>>
    BY Zenon, <1>6, <2>1 DEF BookPop, DataOK
  <2>2. CASE q2 # <<>>
    <3>1. q2' = Tail(q2) /\ event' = Head(q2)
      BY Zenon, <1>6, <2>2 DEF BookPop
    <3>2. /\ q2' \in Seq(Message) /\ Len(q2') <= Q2Bound
          /\ event' \in Message
      BY <2>2, <3>1, PoppedSeq, BoundsFacts DEF DataOK
    <3> QED BY Zenon, <1>6, <2>2, <3>2 DEF BookPop, DataOK
  <2> QED BY Zenon, <2>1, <2>2
<1>7. CASE BookPush
  <2>1. event \in Message
    BY Zenon, <1>7 DEF BookPush, DataOK, EventHeld
  <2>2. CASE Len(q3) < Q3Bound
    <3>1. q3' \in Seq(Message) /\ Len(q3') <= Q3Bound
      <4>1. q3' = Append(q3, event)
        BY Zenon, <1>7, <2>2 DEF BookPush
      <4> QED BY <2>1, <2>2, <4>1, PushedSeq, BoundsFacts DEF DataOK
    <3>2. stats' \in [messages_parsed : Nat, book_updates : Nat, queue_drops : Nat]
      <4>1. stats \in [messages_parsed : Nat, book_updates : Nat, queue_drops : Nat]
        BY Zenon DEF DataOK
      <4>2. stats' = [stats EXCEPT !.book_updates = @ + 1]
        BY Zenon, <1>7, <2>2 DEF BookPush
      <4> QED BY <4>1, <4>2
    <3> QED BY Zenon, <1>7, <2>1, <2>2, <3>1, <3>2 DEF BookPush, DataOK
  <2>3. CASE ~(Len(q3) < Q3Bound)
    <3>1. /\ {register', refused'} \subseteq [Stage -> Nat]
          /\ UNCHANGED <<stats, collected>>
      BY Zenon, <1>7, <2>3, RefuseType DEF BookPush, Stage
    <3> QED BY Zenon, <1>7, <2>3, <3>1 DEF BookPush, DataOK
  <2> QED BY Zenon, <2>2, <2>3
<1>8. CASE ConsumerWork
  <2>1. /\ q3' \in Seq(Message) /\ Len(q3') <= Q3Bound
        /\ Len(q3) - Len(q3') \in Nat
    BY <1>8, PoppedSeq, BoundsFacts DEF ConsumerWork, DataOK
  <2>2. collected' \in [tick : Nat, total : Nat]
    <3> DEFINE n == Len(q3) - Len(q3')
    <3>1. PICK second \in BOOLEAN :
             collected' = ConsumerTick([collected EXCEPT !.tick = @ + n], second)
      BY Zenon, <1>8 DEF ConsumerWork
    <3>2. n \in Nat
      BY Zenon, <2>1
    <3> HIDE DEF n
    <3>3. collected \in [tick : Nat, total : Nat]
      BY Zenon DEF DataOK
    <3> QED BY <3>1, <3>2, <3>3 DEF ConsumerTick
  <2> QED BY Zenon, <1>8, <2>1, <2>2 DEF ConsumerWork, DataOK
<1>9. CASE DropStep
  <2>1. PICK t \in Stage : /\ stats' = [stats EXCEPT !.queue_drops = register[t] + 1]
                           /\ UNCHANGED <<arrived, queues, hands, register, refused, collected>>
    BY Zenon, <1>9 DEF DropStep, StoreDrops
  <2>2. stats' \in [messages_parsed : Nat, book_updates : Nat, queue_drops : Nat]
    <3>1. stats \in [messages_parsed : Nat, book_updates : Nat, queue_drops : Nat]
      BY Zenon DEF DataOK
    <3>2. register[t] \in Nat
      BY Zenon DEF DataOK
    <3> QED BY <2>1, <3>1, <3>2
  <2> QED BY SMTT(30), <2>1, <2>2 DEF DataOK
<1>10. CASE ControlStep
  BY Zenon, <1>10 DEF ControlStep, DataOK
<1> QED BY Zenon, <1>1, <1>2, <1>3, <1>4, <1>5, <1>6, <1>7, <1>8, <1>9, <1>10, StepKinds
-----------------------------------------------------------------------------
(* The order of the messages.                                              *)

Flow == InOrder /\ PacketsFull

Pieces(q) == UNION {p.lo .. p.hi : p \in Range(q)}

(* InOrder in terms of the places, one by one.                             *)
LEMMA PlaceParts ==
    /\ Place[1] = Range(q3) /\ Place[2] = InHand(event) /\ Place[3] = Range(q2)
    /\ Place[4] = batch.lo .. batch.hi /\ Place[5] = Pieces(q1)
    /\ Place[6] = arrived + 1 .. MaxMessages
    /\ Place'[1] = Range(q3') /\ Place'[2] = InHand(event') /\ Place'[3] = Range(q2')
    /\ Place'[4] = batch'.lo .. batch'.hi /\ Place'[5] = Pieces(q1')
    /\ Place'[6] = arrived' + 1 .. MaxMessages
    /\ DOMAIN Place = 1 .. 6 /\ DOMAIN Place' = 1 .. 6
  BY DEF Place, Pieces

Sorted(q) == \A i, j \in DOMAIN q : i < j => q[i] < q[j]
SortedPackets(q) == \A i, j \in DOMAIN q : i < j => q[i].hi < q[j].lo
Full(q) == \A i \in DOMAIN q : q[i].lo <= q[i].hi

(* The order of the messages, from stage to stage and within each queue. *)
LEMMA FlowParts ==
    /\ Flow <=> Ordered(Place) /\ Sorted(q2) /\ Sorted(q3) /\ SortedPackets(q1) /\ Full(q1)
    /\ Flow' <=> Ordered(Place') /\ Sorted(q2') /\ Sorted(q3') /\ SortedPackets(q1') /\ Full(q1')
  BY Zenon, PlaceParts DEF Flow, InOrder, PacketsFull, Ordered, Sorted, SortedPackets, Full

(* Pushing behind, and popping from, a sorted queue.                       *)
LEMMA SortedPush ==
    ASSUME NEW q \in Seq(Message), NEW m \in Message, Sorted(q), \A n \in Range(q) : n < m
    PROVE  Sorted(Append(q, m))
<1> SUFFICES ASSUME NEW i \in 1 .. Len(q) + 1, NEW j \in 1 .. Len(q) + 1, i < j
             PROVE  Append(q, m)[i] < Append(q, m)[j]
  BY PushedSeq DEF Sorted
<1>1. i \in DOMAIN q /\ Append(q, m)[i] = q[i] /\ q[i] \in Range(q)
  BY PushedSeq DEF Range
<1>2. CASE j = Len(q) + 1
  BY <1>1, <1>2, PushedSeq
<1>3. CASE j # Len(q) + 1
  BY <1>1, <1>3, PushedSeq DEF Sorted
<1> QED BY Zenon, <1>2, <1>3

(* A pop from a sorted queue takes the least message. *)
LEMMA SortedPop ==
    ASSUME NEW q \in Seq(Message), q # <<>>, Sorted(q)
    PROVE  /\ Sorted(Tail(q))
           /\ \A n \in Range(Tail(q)) : Head(q) < n
  BY SMTT(30), PoppedSeq DEF Sorted, Range

(* A packet of later messages keeps the first queue sorted. *)
LEMMA PacketsPush ==
    ASSUME NEW q \in Seq(Packet), NEW p \in Packet, SortedPackets(q), Full(q), p.lo <= p.hi,
           \A n \in Pieces(q) : n < p.lo
    PROVE  /\ SortedPackets(Append(q, p)) /\ Full(Append(q, p))
           /\ Pieces(Append(q, p)) \subseteq Pieces(q) \cup (p.lo .. p.hi)
<1>1. ASSUME NEW i \in 1 .. Len(q)
      PROVE  q[i].hi < p.lo
  <2>1. q[i] \in Packet /\ q[i].lo <= q[i].hi /\ q[i] \in Range(q)
    BY PushedSeq DEF Full, Range
  <2>2. q[i].hi \in q[i].lo .. q[i].hi
    BY SMTT(30), <2>1, BoundsFacts DEF Packet
  <2>3. q[i].hi \in Pieces(q)
    BY Zenon, <2>1, <2>2 DEF Pieces
  <2> QED BY Zenon, <2>3
<1>2. SortedPackets(Append(q, p))
  <2> SUFFICES ASSUME NEW i \in 1 .. Len(q) + 1, NEW j \in 1 .. Len(q) + 1, i < j
               PROVE  Append(q, p)[i].hi < Append(q, p)[j].lo
    BY PushedSeq DEF SortedPackets
  <2>1. i \in 1 .. Len(q) /\ Append(q, p)[i] = q[i]
    BY PushedSeq
  <2>2. CASE j = Len(q) + 1
    BY <1>1, <2>1, <2>2, PushedSeq
  <2>3. CASE j # Len(q) + 1
    BY <2>1, <2>3, PushedSeq DEF SortedPackets
  <2> QED BY Zenon, <2>2, <2>3
<1>3. Full(Append(q, p))
  BY PushedSeq DEF Full
<1>4. Range(Append(q, p)) \subseteq Range(q) \cup {p}
  BY Zenon, PushedSeq
<1>5. Pieces(Append(q, p)) \subseteq Pieces(q) \cup (p.lo .. p.hi)
  BY Zenon, <1>4 DEF Pieces
<1> QED BY Zenon, <1>2, <1>3, <1>5

(* A pop from the first queue takes the packet of the least messages. *)
LEMMA PacketsPop ==
    ASSUME NEW q \in Seq(Packet), q # <<>>, SortedPackets(q), Full(q)
    PROVE  /\ SortedPackets(Tail(q)) /\ Full(Tail(q))
           /\ Pieces(Tail(q)) \subseteq Pieces(q)
           /\ Head(q).lo .. Head(q).hi \subseteq Pieces(q)
           /\ \A m \in Head(q).lo .. Head(q).hi, n \in Pieces(Tail(q)) : m < n
<1>1. SortedPackets(Tail(q))
  BY SMTT(30), PoppedSeq DEF SortedPackets
<1>2. Full(Tail(q))
  BY PoppedSeq DEF Full
<1>3. Range(Tail(q)) \subseteq Range(q) /\ Head(q) \in Range(q)
  BY Zenon, PoppedSeq
<1>4. Pieces(Tail(q)) \subseteq Pieces(q) /\ Head(q).lo .. Head(q).hi \subseteq Pieces(q)
  BY Zenon, <1>3 DEF Pieces
<1>5. ASSUME NEW m \in Head(q).lo .. Head(q).hi, NEW n \in Pieces(Tail(q))
      PROVE  m < n
  <2>1. PICK r \in Range(Tail(q)) : n \in r.lo .. r.hi
    BY Zenon DEF Pieces
  <2>2. PICK i \in 1 .. Len(q) - 1 : r = q[i + 1]
    BY PoppedSeq DEF Range
  <2>3. 1 \in DOMAIN q /\ i + 1 \in DOMAIN q /\ 1 < i + 1 /\ Head(q) = q[1]
    BY PoppedSeq
  <2>4. Head(q).hi < r.lo
    BY Zenon, <2>2, <2>3 DEF SortedPackets
  <2>5. Head(q) \in Packet /\ r \in Packet
    BY <2>2, <2>3, PoppedSeq
  <2> QED BY SMTT(30), <2>1, <2>4, <2>5, BoundsFacts DEF Packet
<1> QED BY Zenon, <1>1, <1>2, <1>4, <1>5

(* A step that moves messages keeps the flow.                              *)
LEMMA FlowNext == TypeOK /\ EventHeld /\ StartsOnce /\ Flow /\ [Next]_vars => Flow'
<1> SUFFICES ASSUME ControlOK, DataOK, EventHeld, StartsOnce, Flow, [Next]_vars
             PROVE  Flow'
  BY Zenon, TypeParts
<1> USE DEF queues, hands, counters
<1> DEFINE P == Place
           Q == Place'
<1>0. /\ q1 \in Seq(Packet) /\ q2 \in Seq(Message) /\ q3 \in Seq(Message)
      /\ batch \in Packet /\ arrived \in 0 .. MaxMessages
      /\ Ordered(P) /\ Sorted(q2) /\ Sorted(q3) /\ SortedPackets(q1) /\ Full(q1)
  BY Zenon, FlowParts DEF DataOK
<1>A. /\ P[1] = Range(q3) /\ P[2] = InHand(event) /\ P[3] = Range(q2)
      /\ P[4] = batch.lo .. batch.hi /\ P[5] = Pieces(q1) /\ P[6] = arrived + 1 .. MaxMessages
  BY Zenon, PlaceParts
<1>B. /\ Q[1] = Range(q3') /\ Q[2] = InHand(event') /\ Q[3] = Range(q2')
      /\ Q[4] = batch'.lo .. batch'.hi /\ Q[5] = Pieces(q1') /\ Q[6] = arrived' + 1 .. MaxMessages
  BY Zenon, PlaceParts
<1>C. SUFFICES Ordered(Q) /\ Sorted(q2') /\ Sorted(q3') /\ SortedPackets(q1') /\ Full(q1')
  BY Zenon, FlowParts
<1> HIDE DEF P, Q
<1>D. ASSUME NEW k \in 1 .. 5, NEW A,
             \A i \in 1 .. 6 : i # k => Q[i] \subseteq P[i],
             Q[k] \subseteq P[k] \cup A, A \subseteq P[k + 1],
             \A m \in A, n \in Q[k + 1] : m < n
      PROVE  Ordered(Q)
  BY Zenon, <1>0, <1>D, Advance
<1>E. ASSUME Q[1] \subseteq P[1], Q[2] \subseteq P[2], Q[3] \subseteq P[3],
             Q[4] \subseteq P[4], Q[5] \subseteq P[5], Q[6] \subseteq P[6]
      PROVE  Ordered(Q)
  <2>1. \A i \in 1 .. 6 : i # 0 => Q[i] \subseteq P[i]
    BY <1>E, SixPlaces
  <2> SUFFICES ASSUME NEW i \in 1 .. 6, NEW j \in 1 .. 6, i < j, NEW m \in Q[i], NEW n \in Q[j]
               PROVE  m < n
    BY Zenon DEF Ordered
  <2>2. m \in P[i] /\ n \in P[j]
    BY <2>1
  <2> QED BY Zenon, <1>0, <2>2 DEF Ordered
<1>1. ASSUME NEW n \in 1 .. MaxBatch, Receive(n)
      PROVE  Ordered(Q) /\ Sorted(q2') /\ Sorted(q3') /\ SortedPackets(q1') /\ Full(q1')
  <2>1. /\ arrived' = arrived + n /\ arrived + n <= MaxMessages
        /\ UNCHANGED <<q2, q3, batch, event>>
    BY Zenon, <1>1 DEF Receive
  <2>2. CASE Len(q1) < Q1Bound
    <3> DEFINE packet == [lo |-> arrived + 1, hi |-> arrived + n]
               A == arrived + 1 .. arrived + n
    <3>1. q1' = Append(q1, packet)
      BY Zenon, <1>1, <2>2 DEF Receive
    <3>2. packet \in Packet /\ packet.lo <= packet.hi /\ packet.lo .. packet.hi = A
      BY <1>0, <2>1, BoundsFacts DEF Packet
    <3>3. \A m \in Pieces(q1) : m < packet.lo
      <4>1. arrived + 1 \in P[6]
        BY <1>0, <1>A, <2>1, BoundsFacts
      <4>2. \A m \in P[5], y \in P[6] : m < y
        BY <1>0 DEF Ordered
      <4> QED BY Zenon, <1>A, <4>1, <4>2
    <3> HIDE DEF packet
    <3>4. SortedPackets(q1') /\ Full(q1') /\ Pieces(q1') \subseteq Pieces(q1) \cup A
      BY Zenon, <1>0, <3>1, <3>2, <3>3, PacketsPush
    <3>5. A \subseteq P[6] /\ Q[6] \subseteq P[6] /\ \A x \in A, y \in Q[6] : x < y
      BY <1>0, <1>A, <1>B, <2>1, BoundsFacts
    <3> HIDE DEF A
    <3>6. \A i \in 1 .. 6 : i # 5 => Q[i] \subseteq P[i]
      <4>1. Q[1] = P[1] /\ Q[2] = P[2] /\ Q[3] = P[3] /\ Q[4] = P[4]
        BY Zenon, <1>A, <1>B, <2>1
      <4> QED BY <3>5, <4>1, SixPlaces
    <3>7. Q[5] \subseteq P[5] \cup A
      BY Zenon, <1>A, <1>B, <3>4
    <3>8. Ordered(Q)
      BY <1>D, <3>5, <3>6, <3>7
    <3> QED BY Zenon, <1>0, <2>1, <3>4, <3>8
  <2>3. CASE ~(Len(q1) < Q1Bound)
    <3>1. q1' = q1
      BY Zenon, <1>1, <2>3 DEF Receive
    <3>2. Q[6] \subseteq P[6]
      BY <1>0, <1>A, <1>B, <2>1, BoundsFacts
    <3>3. Q[1] = P[1] /\ Q[2] = P[2] /\ Q[3] = P[3] /\ Q[4] = P[4] /\ Q[5] = P[5]
      BY Zenon, <1>A, <1>B, <2>1, <3>1
    <3>4. Ordered(Q)
      BY Zenon, <1>E, <3>2, <3>3
    <3> QED BY Zenon, <1>0, <2>1, <3>1, <3>4
  <2> QED BY Zenon, <2>2, <2>3
<1>2. CASE BadFrame
  <2>1. q1 # <<>> /\ q1' = Tail(q1) /\ UNCHANGED <<arrived, q2, q3, batch, event>>
    BY Zenon, <1>2 DEF BadFrame
  <2>2. SortedPackets(q1') /\ Full(q1') /\ Pieces(q1') \subseteq Pieces(q1)
    BY Zenon, <1>0, <2>1, PacketsPop
  <2>3. Q[1] = P[1] /\ Q[2] = P[2] /\ Q[3] = P[3] /\ Q[4] = P[4] /\ Q[6] = P[6]
    BY Zenon, <1>A, <1>B, <2>1
  <2>4. Ordered(Q)
    BY Zenon, <1>A, <1>B, <1>E, <2>2, <2>3
  <2> QED BY Zenon, <1>0, <2>1, <2>2, <2>4
<1>3. CASE GoodFrame
  <2> DEFINE A == Head(q1).lo .. Head(q1).hi
  <2>1. /\ q1 # <<>> /\ q1' = Tail(q1) /\ batch' = Head(q1)
        /\ UNCHANGED <<arrived, q2, q3, event>>
    BY Zenon, <1>3 DEF GoodFrame
  <2>2. /\ SortedPackets(q1') /\ Full(q1') /\ Pieces(q1') \subseteq Pieces(q1)
        /\ A \subseteq Pieces(q1)
        /\ \A m \in A, n \in Pieces(q1') : m < n
    BY Zenon, <1>0, <2>1, PacketsPop
  <2>3. Q[4] = A
    BY Zenon, <1>B, <2>1
  <2> HIDE DEF A
  <2>4. Q[1] = P[1] /\ Q[2] = P[2] /\ Q[3] = P[3] /\ Q[6] = P[6]
    BY Zenon, <1>A, <1>B, <2>1
  <2>5. \A i \in 1 .. 6 : i # 4 => Q[i] \subseteq P[i]
    BY <1>A, <1>B, <2>2, <2>4, SixPlaces
  <2>6. Ordered(Q)
    <3>1. Q[4] \subseteq P[4] \cup A /\ A \subseteq P[5] /\ \A m \in A, n \in Q[5] : m < n
      BY Zenon, <1>A, <1>B, <2>2, <2>3
    <3> QED BY <1>D, <2>5, <3>1
  <2> QED BY Zenon, <1>0, <2>1, <2>2, <2>6
<1>4. CASE InvalidMessage
  <2>1. batch' = [batch EXCEPT !.lo = @ + 1] /\ UNCHANGED <<arrived, q1, q2, q3, event>>
    BY Zenon, <1>4 DEF InvalidMessage
  <2>2. batch'.lo = batch.lo + 1 /\ batch'.hi = batch.hi /\ batch.lo \in Int /\ batch.hi \in Int
    BY <1>4, <2>1, NextMessage DEF InvalidMessage, DataOK, Packet
  <2>3. Q[4] \subseteq P[4]
    BY <1>A, <1>B, <2>2
  <2>4. Q[1] = P[1] /\ Q[2] = P[2] /\ Q[3] = P[3] /\ Q[5] = P[5] /\ Q[6] = P[6]
    BY Zenon, <1>A, <1>B, <2>1
  <2>5. Ordered(Q)
    BY Zenon, <1>E, <2>3, <2>4
  <2> QED BY Zenon, <1>0, <2>1, <2>5
<1>5. CASE ParsedMessage
  <2>1. /\ batch.lo <= batch.hi /\ batch' = [batch EXCEPT !.lo = @ + 1]
        /\ UNCHANGED <<arrived, q1, q3, event>>
    BY Zenon, <1>5 DEF ParsedMessage
  <2>2. /\ batch'.lo = batch.lo + 1 /\ batch'.hi = batch.hi
        /\ batch.lo \in Message /\ batch.lo \in Int /\ batch.hi \in Int
    BY <2>1, NextMessage DEF DataOK, Packet
  <2>3. /\ Q[4] \subseteq P[4] /\ batch.lo \in P[4]
        /\ \A n \in Q[4] : batch.lo < n
    BY <1>A, <1>B, <2>1, <2>2
  <2>4. Q[1] = P[1] /\ Q[2] = P[2] /\ Q[5] = P[5] /\ Q[6] = P[6]
    BY Zenon, <1>A, <1>B, <2>1
  <2>5. CASE Len(q2) < Q2Bound
    <3>1. q2' = Append(q2, batch.lo)
      BY Zenon, <1>5, <2>5 DEF ParsedMessage
    <3>2. \A m \in P[3], n \in P[4] : m < n
      BY <1>0 DEF Ordered
    <3>3. Sorted(q2')
      BY Zenon, <1>0, <1>A, <2>2, <2>3, <3>1, <3>2, SortedPush
    <3>4. Q[3] \subseteq P[3] \cup {batch.lo}
      BY <1>0, <1>A, <1>B, <2>2, <3>1, PushedSeq
    <3>5. \A i \in 1 .. 6 : i # 3 => Q[i] \subseteq P[i]
      BY <2>3, <2>4, SixPlaces
    <3>6. {batch.lo} \subseteq P[4] /\ \A m \in {batch.lo}, n \in Q[4] : m < n
      BY Zenon, <2>3
    <3>7. Ordered(Q)
      <4> DEFINE A == {batch.lo}
      <4>1. /\ Q[3] \subseteq P[3] \cup A /\ A \subseteq P[4]
            /\ \A m \in A, n \in Q[4] : m < n
        BY Zenon, <3>4, <3>6
      <4> HIDE DEF A
      <4> QED BY <1>D, <3>5, <4>1
    <3> QED BY Zenon, <1>0, <2>1, <3>3, <3>7
  <2>6. CASE ~(Len(q2) < Q2Bound)
    <3>1. q2' = q2
      BY Zenon, <1>5, <2>6 DEF ParsedMessage
    <3>2. Ordered(Q)
      BY Zenon, <1>A, <1>B, <1>E, <2>3, <2>4, <3>1
    <3> QED BY Zenon, <1>0, <2>1, <3>1, <3>2
  <2> QED BY Zenon, <2>5, <2>6
<1>6. CASE BookPop
  <2>1. UNCHANGED <<arrived, q1, q3, batch>>
    BY Zenon, <1>6 DEF BookPop
  <2>2. Q[1] = P[1] /\ Q[4] = P[4] /\ Q[5] = P[5] /\ Q[6] = P[6]
    BY Zenon, <1>A, <1>B, <2>1
  <2>3. CASE q2 = <<>>
    <3>1. UNCHANGED <<q2, event>>
      BY Zenon, <1>6, <2>3 DEF BookPop
    <3>2. Ordered(Q)
      BY Zenon, <1>A, <1>B, <1>E, <2>2, <3>1
    <3> QED BY Zenon, <1>0, <2>1, <3>1, <3>2
  <2>4. CASE q2 # <<>>
    <3>1. q2' = Tail(q2) /\ event' = Head(q2)
      BY Zenon, <1>6, <2>4 DEF BookPop
    <3>2. /\ Sorted(q2') /\ \A n \in Q[3] : Head(q2) < n
          /\ Q[3] \subseteq P[3] /\ Head(q2) \in P[3]
      BY <1>0, <1>A, <1>B, <2>4, <3>1, SortedPop, PoppedSeq
    <3>3. Q[2] \subseteq P[2] \cup {Head(q2)}
      BY Zenon, <1>B, <3>1 DEF InHand
    <3>4. \A i \in 1 .. 6 : i # 2 => Q[i] \subseteq P[i]
      BY <2>2, <3>2, SixPlaces
    <3>5. {Head(q2)} \subseteq P[3] /\ \A m \in {Head(q2)}, n \in Q[3] : m < n
      BY Zenon, <3>2
    <3>6. Ordered(Q)
      <4> DEFINE A == {Head(q2)}
      <4>1. /\ Q[2] \subseteq P[2] \cup A /\ A \subseteq P[3]
            /\ \A m \in A, n \in Q[3] : m < n
        BY Zenon, <3>3, <3>5
      <4> HIDE DEF A
      <4> QED BY <1>D, <3>4, <4>1
    <3> QED BY Zenon, <1>0, <2>1, <3>2, <3>6
  <2> QED BY Zenon, <2>3, <2>4
<1>7. CASE BookPush
  <2>1. event' = None /\ UNCHANGED <<arrived, q1, q2, batch>>
    BY Zenon, <1>7 DEF BookPush
  <2>2. Q[2] = {} /\ Q[3] = P[3] /\ Q[4] = P[4] /\ Q[5] = P[5] /\ Q[6] = P[6]
    BY Zenon, <1>A, <1>B, <2>1 DEF InHand
  <2>3. event \in Message /\ event \in P[2]
    BY Zenon, <1>7, <1>A DEF BookPush, DataOK, EventHeld, InHand
  <2>4. CASE Len(q3) < Q3Bound
    <3>1. q3' = Append(q3, event)
      BY Zenon, <1>7, <2>4 DEF BookPush
    <3>2. \A m \in P[1], n \in P[2] : m < n
      BY <1>0 DEF Ordered
    <3>3. Sorted(q3')
      BY Zenon, <1>0, <1>A, <2>3, <3>1, <3>2, SortedPush
    <3>4. Q[1] \subseteq P[1] \cup {event}
      BY <1>0, <1>A, <1>B, <2>3, <3>1, PushedSeq
    <3>5. \A i \in 1 .. 6 : i # 1 => Q[i] \subseteq P[i]
      BY <2>2, SixPlaces
    <3>6. {event} \subseteq P[2] /\ \A m \in {event}, n \in Q[2] : m < n
      BY Zenon, <2>2, <2>3
    <3>7. Ordered(Q)
      <4> DEFINE A == {event}
      <4>1. /\ Q[1] \subseteq P[1] \cup A /\ A \subseteq P[2]
            /\ \A m \in A, n \in Q[2] : m < n
        BY Zenon, <3>4, <3>6
      <4> HIDE DEF A
      <4> QED BY <1>D, <3>5, <4>1
    <3> QED BY Zenon, <1>0, <2>1, <3>3, <3>7
  <2>5. CASE ~(Len(q3) < Q3Bound)
    <3>1. q3' = q3
      BY Zenon, <1>7, <2>5 DEF BookPush
    <3>2. Ordered(Q)
      BY Zenon, <1>A, <1>B, <1>E, <2>2, <3>1
    <3> QED BY Zenon, <1>0, <2>1, <3>1, <3>2
  <2> QED BY Zenon, <2>4, <2>5
<1>8. CASE ConsumerWork
  <2>1. UNCHANGED <<arrived, q1, q2, batch, event>> /\ q3' = IF q3 = <<>> THEN q3 ELSE Tail(q3)
    BY Zenon, <1>8 DEF ConsumerWork
  <2>2. Sorted(q3') /\ Range(q3') \subseteq Range(q3)
    BY Zenon, <1>0, <2>1, SortedPop, PoppedSeq
  <2>3. Q[2] = P[2] /\ Q[3] = P[3] /\ Q[4] = P[4] /\ Q[5] = P[5] /\ Q[6] = P[6]
    BY Zenon, <1>A, <1>B, <2>1
  <2>4. Ordered(Q)
    BY Zenon, <1>A, <1>B, <1>E, <2>2, <2>3
  <2> QED BY Zenon, <1>0, <2>1, <2>2, <2>4
<1>9. CASE DropStep \/ ControlStep
  <2>1. UNCHANGED <<arrived, q1, q2, q3, batch, event>>
    BY Zenon, <1>9 DEF DropStep, StoreDrops, ControlStep
  <2>2. Ordered(Q)
    BY Zenon, <1>A, <1>B, <1>E, <2>1
  <2> QED BY Zenon, <1>0, <2>1, <2>2
<1> QED BY Zenon, <1>1, <1>2, <1>3, <1>4, <1>5, <1>6, <1>7, <1>8, <1>9, StepKinds

-----------------------------------------------------------------------------
(* The counters.                                                           *)

Counted ==
    /\ stats.messages_parsed = Len(q2) + Held(event) + stats.book_updates + refused["book"]
    /\ stats.book_updates = Len(q3) + collected.tick + collected.total
    /\ stats.queue_drops <= Dropped

(* The counters account for the messages if each of the two parts holds. *)
LEMMA CountedParts == Counted /\ DropsStored => Accounted
  BY Zenon DEF Counted, DropsStored, Accounted

(* A refused push is counted, and the stage goes to store it.              *)
LEMMA RefuseCounts ==
    ASSUME DataOK, pc \in [Thread -> Location], DropsStored, stats.queue_drops <= Dropped,
           NEW t \in {"network", "parser", "book"}, Refuse(t),
           pc' = [pc EXCEPT ![t] = "drop"]
    PROVE  /\ DropsStored' /\ stats'.queue_drops <= Dropped'
           /\ t # "book" => refused'["book"] = refused["book"]
           /\ t = "book" => refused'["book"] = refused["book"] + 1
<1>1. /\ refused \in [Stage -> Nat] /\ register \in [Stage -> Nat]
      /\ stats.queue_drops \in Nat /\ stats' = stats
      /\ refused' = [refused EXCEPT ![t] = @ + 1]
      /\ register' = [register EXCEPT ![t] = stats.queue_drops]
  BY Zenon DEF DataOK, Refuse
<1>2. Dropped \in Nat /\ Dropped' = Dropped + 1
  BY <1>1 DEF Dropped, Stage
<1>3. t \in Stage /\ pc'[t] = "drop" /\ \A u \in Stage : u # t => pc'[u] = pc[u]
  BY Zenon DEF Stage, Thread
<1>4. \A u \in Stage : pc'[u] = "drop" => register'[u] < Dropped'
  <2> SUFFICES ASSUME NEW u \in Stage, pc'[u] = "drop"
               PROVE  register'[u] < Dropped'
    BY Zenon
  <2>1. CASE u = t
    BY <1>1, <1>2, <1>3, <2>1
  <2>2. CASE u # t
    BY <1>1, <1>2, <1>3, <2>2 DEF DropsStored
  <2> QED BY Zenon, <2>1, <2>2
<1>5. DropsStored'
  BY Zenon, <1>3, <1>4 DEF DropsStored
<1> QED BY <1>1, <1>2, <1>5 DEF Stage

(* A step that neither refuses nor stores leaves the drops alone.          *)
LEMMA DropsKept ==
    ASSUME DropsStored, UNCHANGED <<register, refused>>, stats'.queue_drops = stats.queue_drops,
           \A t \in Stage : pc'[t] = "drop" <=> pc[t] = "drop"
    PROVE  DropsStored' /\ Dropped' = Dropped
  BY Zenon DEF DropsStored, Dropped

(* Every step keeps the counters, the stores of queue_drops and the held event right. *)
LEMMA CountedNext ==
    TypeOK /\ EventHeld /\ StartsOnce /\ Counted /\ DropsStored /\ [Next]_vars
        => Counted' /\ DropsStored' /\ EventHeld'
<1> SUFFICES ASSUME ControlOK, DataOK, EventHeld, StartsOnce, Counted, DropsStored, [Next]_vars
             PROVE  Counted' /\ DropsStored' /\ EventHeld'
  BY Zenon, TypeParts
<1> USE DEF queues, hands, counters
<1>0. /\ q2 \in Seq(Message) /\ q3 \in Seq(Message)
      /\ pc \in [Thread -> Location]
      /\ stats \in [messages_parsed : Nat, book_updates : Nat, queue_drops : Nat]
      /\ refused \in [Stage -> Nat] /\ register \in [Stage -> Nat]
      /\ collected \in [tick : Nat, total : Nat]
      /\ event \in Message \cup {None}
  BY Zenon DEF DataOK, ControlOK
<1>P. /\ stats.messages_parsed \in Nat /\ stats.book_updates \in Nat
      /\ Len(q2) \in Nat /\ Held(event) \in Nat /\ refused["book"] \in Nat
      /\ stats.messages_parsed = Len(q2) + Held(event) + stats.book_updates + refused["book"]
  BY <1>0 DEF Counted, Held, Stage
<1>U. /\ stats.book_updates \in Nat
      /\ Len(q3) \in Nat /\ collected.tick \in Nat /\ collected.total \in Nat
      /\ stats.book_updates = Len(q3) + collected.tick + collected.total
  BY <1>0 DEF Counted
<1>D. stats.queue_drops <= Dropped
  BY Zenon DEF Counted
<1>1. ASSUME NEW n \in 1 .. MaxBatch, Receive(n)
      PROVE  Counted' /\ DropsStored' /\ EventHeld'
  <2>1. UNCHANGED <<q2, q3, event>>
    BY Zenon, <1>1 DEF Receive
  <2>2. CASE Len(q1) < Q1Bound
    <3>1. UNCHANGED <<pc, stats, register, refused, collected>>
      BY Zenon, <1>1, <2>2 DEF Receive
    <3> QED BY Zenon, <2>1, <3>1, DropsKept DEF Counted, EventHeld
  <2>3. CASE ~(Len(q1) < Q1Bound)
    <3>1. pc' = [pc EXCEPT !["network"] = "drop"] /\ Refuse("network")
      BY Zenon, <1>1, <2>3 DEF Receive
    <3>2. /\ DropsStored' /\ stats'.queue_drops <= Dropped'
          /\ refused'["book"] = refused["book"]
      BY Zenon, <1>0, <3>1, RefuseCounts DEF Counted
    <3>3. UNCHANGED <<stats, collected>> /\ pc'["book"] = pc["book"]
      BY Zenon, <1>0, <3>1 DEF Refuse, Thread, Stage
    <3> QED BY Zenon, <2>1, <3>2, <3>3 DEF Counted, EventHeld
  <2> QED BY Zenon, <2>2, <2>3
<1>2. CASE BadFrame \/ GoodFrame \/ InvalidMessage
  <2>1. UNCHANGED <<q2, q3, event, stats, register, refused, collected>>
    BY Zenon, <1>2 DEF BadFrame, GoodFrame, InvalidMessage
  <2>2. /\ \A t \in Stage : pc'[t] = "drop" <=> pc[t] = "drop"
        /\ pc'["book"] = pc["book"]
    BY SMTT(30), <1>0, <1>2 DEF BadFrame, GoodFrame, InvalidMessage, Goto, Stage, Thread
  <2> QED BY Zenon, <2>1, <2>2, DropsKept DEF Counted, EventHeld
<1>3. CASE ParsedMessage
  <2>1. UNCHANGED <<q3, event>>
    BY Zenon, <1>3 DEF ParsedMessage
  <2>2. CASE Len(q2) < Q2Bound
    <3>1. /\ q2' = Append(q2, batch.lo) /\ stats' = [stats EXCEPT !.messages_parsed = @ + 1]
          /\ UNCHANGED <<pc, register, refused, collected>>
      BY Zenon, <1>3, <2>2 DEF ParsedMessage
    <3>2. Len(q2') = Len(q2) + 1
      <4>1. batch.lo \in Message
        BY Zenon, <1>3, NextMessage DEF ParsedMessage
      <4> QED BY <1>0, <3>1, <4>1, PushedSeq
    <3>3. /\ stats'.messages_parsed = stats.messages_parsed + 1
          /\ stats'.book_updates = stats.book_updates
          /\ stats'.queue_drops = stats.queue_drops
      BY Zenon, <1>0, <3>1
    <3>4. DropsStored' /\ Dropped' = Dropped
      BY Zenon, <3>1, <3>3, DropsKept
    <3>5. UNCHANGED <<q3, event, refused, collected>>
      BY Zenon, <2>1, <3>1
    <3>6. Counted'
      <4>1. stats'.messages_parsed = Len(q2') + Held(event') + stats'.book_updates + refused'["book"]
        <5>1. Held(event') = Held(event) /\ refused'["book"] = refused["book"]
          BY Zenon, <3>5
        <5> QED BY <1>P, <3>2, <3>3, <5>1
      <4>2. stats'.book_updates = Len(q3') + collected'.tick + collected'.total
        BY Zenon, <3>3, <3>5 DEF Counted
      <4>3. stats'.queue_drops <= Dropped'
        BY Zenon, <3>3, <3>4 DEF Counted
      <4> QED BY Zenon, <4>1, <4>2, <4>3 DEF Counted
    <3> QED BY Zenon, <2>1, <3>1, <3>4, <3>6 DEF EventHeld
  <2>3. CASE ~(Len(q2) < Q2Bound)
    <3>1. q2' = q2 /\ pc' = [pc EXCEPT !["parser"] = "drop"] /\ Refuse("parser")
      BY Zenon, <1>3, <2>3 DEF ParsedMessage
    <3>2. /\ DropsStored' /\ stats'.queue_drops <= Dropped'
          /\ refused'["book"] = refused["book"]
      BY Zenon, <1>0, <3>1, RefuseCounts DEF Counted
    <3>3. UNCHANGED <<stats, collected>> /\ pc'["book"] = pc["book"]
      BY Zenon, <1>0, <3>1 DEF Refuse, Thread, Stage
    <3> QED BY Zenon, <2>1, <3>1, <3>2, <3>3 DEF Counted, EventHeld
  <2> QED BY Zenon, <2>2, <2>3
<1>4. CASE BookPop
  <2>1. UNCHANGED <<q3, stats, register, refused, collected>>
    BY Zenon, <1>4 DEF BookPop
  <2>2. /\ \A t \in Stage : pc'[t] = "drop" <=> pc[t] = "drop"
        /\ pc["book"] = "work"
    BY SMTT(30), <1>0, <1>4 DEF BookPop, Goto, Stage, Thread
  <2>3. DropsStored' /\ Dropped' = Dropped
    BY Zenon, <2>1, <2>2, DropsKept
  <2>4. event = None
    BY Zenon, <2>2 DEF EventHeld
  <2>5. CASE q2 = <<>>
    <3>1. UNCHANGED <<q2, event>> /\ pc'["book"] = "loop"
      BY Zenon, <1>0, <1>4, <2>5 DEF BookPop, Goto, Thread, Stage
    <3> QED BY Zenon, <2>1, <2>3, <2>4, <3>1 DEF Counted, EventHeld
  <2>6. CASE q2 # <<>>
    <3>1. event' = Head(q2) /\ q2' = Tail(q2) /\ pc'["book"] = "process"
      BY SMTT(30), <1>0, <1>4, <2>6 DEF BookPop, Goto, Thread, Stage
    <3>2. Head(q2) \in Message /\ Len(q2') = Len(q2) - 1 /\ Len(q2) \in Nat
      BY Zenon, <1>0, <2>6, <3>1, PoppedSeq
    <3>3. event' # None
      BY Zenon, <3>1, <3>2, BoundsFacts
    <3>4. Held(event) = 0 /\ Held(event') = 1 /\ refused["book"] \in Nat
      BY Zenon, <1>0, <2>4, <3>3 DEF Held, Stage
    <3>5. Counted'
      <4>1. Len(q3') = Len(q3) /\ stats' = stats /\ refused' = refused /\ collected' = collected
        BY Zenon, <2>1
      <4>2. stats'.messages_parsed = Len(q2') + Held(event') + stats'.book_updates + refused'["book"]
        BY <1>P, <3>2, <3>4, <4>1
      <4> QED BY Zenon, <1>D, <1>U, <2>3, <4>1, <4>2 DEF Counted
    <3> QED BY Zenon, <2>3, <3>1, <3>3, <3>5 DEF EventHeld
  <2> QED BY Zenon, <2>5, <2>6
<1>5. CASE BookPush
  <2>1. event' = None /\ pc["book"] = "process" /\ UNCHANGED <<q2, collected>>
    BY Zenon, <1>5 DEF BookPush, Refuse
  <2>2. event \in Message /\ event # None
    BY Zenon, <1>0, <2>1 DEF EventHeld
  <2>3. Held(event) = 1 /\ Held(event') = 0 /\ refused["book"] \in Nat
    BY Zenon, <1>0, <2>1, <2>2 DEF Held, Stage
  <2>4. CASE Len(q3) < Q3Bound
    <3>1. /\ q3' = Append(q3, event) /\ stats' = [stats EXCEPT !.book_updates = @ + 1]
          /\ pc' = [pc EXCEPT !["book"] = "loop"]
          /\ UNCHANGED <<register, refused>>
      BY Zenon, <1>5, <2>4 DEF BookPush, Goto
    <3>2. Len(q3') = Len(q3) + 1
      BY <1>0, <2>2, <3>1, PushedSeq
    <3>3. /\ stats'.messages_parsed = stats.messages_parsed
          /\ stats'.book_updates = stats.book_updates + 1
          /\ stats'.queue_drops = stats.queue_drops
      BY Zenon, <1>0, <3>1
    <3>4. (\A t \in Stage : pc'[t] = "drop" <=> pc[t] = "drop") /\ pc'["book"] = "loop"
      BY Zenon, <1>0, <2>1, <3>1 DEF Stage, Thread
    <3>5. DropsStored' /\ Dropped' = Dropped
      BY Zenon, <3>1, <3>3, <3>4, DropsKept
    <3>6. UNCHANGED <<q2, refused, collected>>
      BY Zenon, <2>1, <3>1
    <3>7. Counted'
      <4>1. /\ Len(q2') = Len(q2) /\ refused'["book"] = refused["book"]
            /\ collected'.tick = collected.tick /\ collected'.total = collected.total
        BY Zenon, <3>6
      <4>2. stats'.messages_parsed = Len(q2') + Held(event') + stats'.book_updates + refused'["book"]
        BY <1>P, <2>3, <3>3, <4>1
      <4>3. stats'.book_updates = Len(q3') + collected'.tick + collected'.total
        BY <1>U, <3>2, <3>3, <4>1
      <4>4. stats'.queue_drops <= Dropped'
        BY Zenon, <1>D, <3>3, <3>5
      <4> QED BY Zenon, <4>2, <4>3, <4>4 DEF Counted
    <3> QED BY Zenon, <2>1, <3>4, <3>5, <3>7 DEF EventHeld
  <2>5. CASE ~(Len(q3) < Q3Bound)
    <3>1. q3' = q3 /\ pc' = [pc EXCEPT !["book"] = "drop"] /\ Refuse("book")
      BY Zenon, <1>5, <2>5 DEF BookPush, Goto
    <3>2. /\ DropsStored' /\ stats'.queue_drops <= Dropped'
          /\ refused'["book"] = refused["book"] + 1
      BY Zenon, <1>0, <3>1, RefuseCounts DEF Counted
    <3>3. stats' = stats /\ pc'["book"] = "drop"
      BY Zenon, <1>0, <3>1 DEF Refuse, Thread, Stage
    <3>4. Counted'
      <4>1. /\ Len(q2') = Len(q2) /\ Len(q3') = Len(q3)
            /\ stats'.messages_parsed = stats.messages_parsed
            /\ stats'.book_updates = stats.book_updates
            /\ collected'.tick = collected.tick /\ collected'.total = collected.total
        BY Zenon, <2>1, <3>1, <3>3
      <4>2. stats'.messages_parsed = Len(q2') + Held(event') + stats'.book_updates + refused'["book"]
        <5>1. refused'["book"] = refused["book"] + 1
          BY Zenon, <3>2
        <5>2. \A a, b, c \in Nat : a + 1 + b + c = a + 0 + b + (c + 1)
          OBVIOUS
        <5>3. Len(q2) + 1 + stats.book_updates + refused["book"] =
                Len(q2) + 0 + stats.book_updates + (refused["book"] + 1)
          BY Zenon, <1>P, <5>2
        <5>4. stats.messages_parsed = Len(q2) + 1 + stats.book_updates + refused["book"]
          BY Zenon, <1>P, <2>3
        <5>5. Held(event') = 0
          BY Zenon, <2>3
        <5> QED BY Zenon, <4>1, <5>1, <5>3, <5>4, <5>5
      <4>3. stats'.book_updates = Len(q3') + collected'.tick + collected'.total
        BY Zenon, <1>U, <4>1
      <4> QED BY Zenon, <3>2, <4>2, <4>3 DEF Counted
    <3> QED BY Zenon, <2>1, <3>2, <3>3, <3>4 DEF EventHeld
  <2> QED BY Zenon, <2>4, <2>5
<1>6. CASE ConsumerWork
  <2>1. UNCHANGED <<q2, event, stats, register, refused>>
    BY Zenon, <1>6 DEF ConsumerWork
  <2>2. /\ \A t \in Stage : pc'[t] = "drop" <=> pc[t] = "drop"
        /\ pc'["book"] = pc["book"]
    BY Zenon, <1>0, <1>6 DEF ConsumerWork, Goto, Stage, Thread
  <2>3. DropsStored' /\ Dropped' = Dropped
    BY Zenon, <2>1, <2>2, DropsKept
  <2> DEFINE n == Len(q3) - Len(q3')
  <2>4. n \in Nat /\ Len(q3) \in Nat /\ Len(q3') = Len(q3) - n
    BY <1>0, <1>6, PoppedSeq DEF ConsumerWork
  <2>5. PICK second \in BOOLEAN : collected' = ConsumerTick([collected EXCEPT !.tick = @ + n], second)
    BY Zenon, <1>6 DEF ConsumerWork
  <2> HIDE DEF n
  <2>6. collected'.tick + collected'.total = collected.tick + collected.total + n
    BY <1>0, <2>4, <2>5 DEF ConsumerTick
  <2>7. collected'.tick \in Nat /\ collected'.total \in Nat
    BY <1>0, <2>4, <2>5 DEF ConsumerTick
  <2>8. Counted'
    <3>1. stats'.messages_parsed = Len(q2') + Held(event') + stats'.book_updates + refused'["book"]
      BY Zenon, <1>P, <2>1
    <3>2. stats'.book_updates = Len(q3') + collected'.tick + collected'.total
      <4>1. Len(q3') + (collected'.tick + collected'.total) =
               Len(q3) + (collected.tick + collected.total)
        BY SMTT(30), <1>U, <2>4, <2>6, <2>7
      <4>2. stats'.book_updates = stats.book_updates
        BY Zenon, <2>1
      <4> QED BY SMTT(30), <1>U, <2>4, <2>7, <4>1, <4>2
    <3>3. stats'.queue_drops <= Dropped'
      BY Zenon, <1>D, <2>1, <2>3
    <3> QED BY Zenon, <3>1, <3>2, <3>3 DEF Counted
  <2> QED BY Zenon, <2>1, <2>2, <2>3, <2>8 DEF EventHeld
<1>7. CASE DropStep
  <2>1. PICK t \in Stage, next \in {"work", "message", "loop"} : StoreDrops(t, next)
    BY Zenon, <1>7 DEF DropStep
  <2>2. /\ pc[t] = "drop" /\ pc' = [pc EXCEPT ![t] = next]
        /\ stats' = [stats EXCEPT !.queue_drops = register[t] + 1]
        /\ UNCHANGED <<q2, q3, event, register, refused, collected>>
    BY Zenon, <2>1 DEF StoreDrops, Goto
  <2>3. /\ stats'.messages_parsed = stats.messages_parsed
        /\ stats'.book_updates = stats.book_updates
        /\ stats'.queue_drops = register[t] + 1 /\ register[t] \in Nat
    BY Zenon, <1>0, <2>2
  <2>4. Dropped' = Dropped /\ Dropped \in Nat /\ register[t] < Dropped
    <3>1. Dropped' = Dropped
      BY Zenon, <2>2 DEF Dropped
    <3>2. Dropped \in Nat
      BY SMTT(30), <1>0 DEF Dropped, Stage
    <3>3. register[t] < Dropped
      BY Zenon, <2>2 DEF DropsStored
    <3> QED BY Zenon, <3>1, <3>2, <3>3
  <2>5. Counted'
    BY <2>2, <2>3, <2>4 DEF Counted
  <2>6. \A u \in Stage : pc'[u] = "drop" => pc[u] = "drop"
    BY Zenon, <1>0, <2>2 DEF Stage, Thread
  <2>7. DropsStored'
    BY <2>2, <2>3, <2>4, <2>6 DEF DropsStored
  <2>8. pc'["book"] = "process" <=> pc["book"] = "process"
    BY SMTT(30), <1>0, <2>2 DEF Stage, Thread
  <2> QED BY Zenon, <2>2, <2>5, <2>7, <2>8 DEF EventHeld
<1>8. CASE ControlStep
  <2>1. UNCHANGED <<q2, q3, event, stats, register, refused, collected>>
    BY Zenon, <1>8 DEF ControlStep
  <2> QED BY Zenon, <1>8, <2>1, DropsKept DEF ControlStep, Counted, EventHeld
<1> QED BY Zenon, <1>1, <1>2, <1>3, <1>4, <1>5, <1>6, <1>7, <1>8, StepKinds

-----------------------------------------------------------------------------
(* The threads.                                                            *)

(* Every step keeps start() before the stages and the joins in order. *)
LEMMA ThreadsNext ==
    TypeOK /\ StartsOnce /\ Joined /\ [Next]_vars => StartsOnce' /\ Joined'
<1> SUFFICES ASSUME TypeOK, StartsOnce, Joined, [Next]_vars
             PROVE  StartsOnce' /\ Joined'
  BY Zenon
<1>0. pc \in [Thread -> Location]
  BY Zenon DEF TypeOK
<1> USE DEF StartsOnce, Joined, Gone, Thread, Stage, Helper, Goto
<1>1. CASE Network
  <2>1. /\ pc["network"] \in {"loop", "work", "drop"}
        /\ \A t \in Thread : t # "network" => pc'[t] = pc[t]
    <3>1. CASE TestRunning("network", "done") \/ RunForEnds \/ StoreDrops("network", "work")
      BY Zenon, <1>0, <3>1 DEF TestRunning, RunForEnds, StoreDrops
    <3>2. CASE \E n \in 1 .. MaxBatch : Receive(n)
      BY Zenon, <1>0, <3>2 DEF Receive
    <3> QED BY Zenon, <1>1, <3>1, <3>2 DEF Network
  <2>2. pc["network"] # "off" /\ pc["network"] # "done"
    BY Zenon, <2>1
  <2>3. pc["main"] # "start"
    BY Zenon, <2>2
  <2> QED BY Zenon, <2>1, <2>2, <2>3
<1>2. CASE Parser
  BY <1>0, <1>2 DEF Parser, TestRunning, ParserIdle, BadFrame, GoodFrame, BatchDone, InvalidMessage,
              ParsedMessage, StoreDrops
<1>3. CASE Book
  BY Zenon, <1>0, <1>3 DEF Book, TestRunning, BookPop, BookPush, StoreDrops
<1>4. CASE ConsumerStart
  BY Zenon, <1>0, <1>4 DEF ConsumerStart
<1>5. CASE Consumer /\ ~ConsumerStart
  BY Zenon, <1>0, <1>5 DEF Consumer, TestRunning, ConsumerWork, StopHelper, JoinHelper
<1>6. CASE Display \/ Csv
  BY <1>0, <1>6 DEF Display, Csv, HelperStep
<1>7. CASE Start
  BY Zenon, <1>0, <1>7 DEF Start
<1>8. CASE Main /\ ~Start
  BY Zenon, <1>0, <1>8 DEF Main, WaitTest, WaitBlock, Stop, Join
<1>9. CASE SpuriousWakeup \/ Signal \/ Notify
  BY <1>0, <1>9 DEF SpuriousWakeup, Signal, Notify
<1>10. CASE UNCHANGED vars
  BY Zenon, <1>10 DEF vars
<1> QED BY Zenon, <1>1, <1>2, <1>3, <1>4, <1>5, <1>6, <1>7, <1>8, <1>9, <1>10 DEF Next
-----------------------------------------------------------------------------
(* The theorems.                                                           *)

(* The pipeline starts with empty queues, zero counters and no stage running. *)
LEMMA PipelineInit == Init => PipelineInv
<1> SUFFICES ASSUME Init
             PROVE  PipelineInv
  BY Zenon
<1>1. /\ q1 = <<>> /\ q2 = <<>> /\ q3 = <<>> /\ batch = NoBatch /\ event = None /\ arrived = 0
      /\ stats = [messages_parsed |-> 0, book_updates |-> 0, queue_drops |-> 0]
      /\ register = [t \in Stage |-> 0] /\ refused = [t \in Stage |-> 0]
      /\ collected = [tick |-> 0, total |-> 0]
      /\ pc = [t \in Thread |-> IF t = "main" THEN "start" ELSE "off"]
  BY Zenon DEF Init
<1>2. ControlOK
  <2>1. pc \in [Thread -> Location]
    BY Zenon, <1>1 DEF Location
  <2> QED BY Zenon, <2>1 DEF Init, ControlOK
<1>3. DataOK
  <2>1. batch \in Packet
    BY <1>1, BoundsFacts DEF NoBatch, Packet
  <2>2. q1 \in Seq(Packet) /\ q2 \in Seq(Message) /\ q3 \in Seq(Message)
    BY <1>1
  <2>3. Len(q1) <= Q1Bound /\ Len(q2) <= Q2Bound /\ Len(q3) <= Q3Bound
    BY <1>1, BoundsFacts
  <2> QED BY <1>1, <2>1, <2>2, <2>3, BoundsFacts DEF DataOK
<1>4. Flow
  <2>1. Place[1] = {} /\ Place[2] = {} /\ Place[3] = {} /\ Place[4] = {} /\ Place[5] = {}
    BY <1>1, PlaceParts DEF Range, InHand, Pieces, NoBatch
  <2>2. Ordered(Place)
    <3> SUFFICES ASSUME NEW i \in 1 .. 6, NEW j \in 1 .. 6, i < j
                 PROVE  Place[i] = {}
      BY Zenon DEF Ordered
    <3>1. i = 1 \/ i = 2 \/ i = 3 \/ i = 4 \/ i = 5
      OBVIOUS
    <3> QED BY Zenon, <2>1, <3>1
  <2>3. Sorted(q2) /\ Sorted(q3) /\ SortedPackets(q1) /\ Full(q1)
    BY <1>1 DEF Sorted, SortedPackets, Full
  <2> QED BY SMTT(30), <2>2, <2>3, FlowParts
<1>5. \A t \in Stage \cup Helper : pc[t] = "off"
  BY Zenon, <1>1 DEF Stage, Helper, Thread
<1>6. pc["main"] = "start" /\ StartsOnce /\ Joined /\ EventHeld
  BY Zenon, <1>1, <1>5 DEF StartsOnce, Joined, Gone, EventHeld, Thread, Stage, Helper
<1>7. Dropped = 0
  BY <1>1 DEF Dropped, Stage
<1>8. DropsStored
  BY <1>5, <1>7 DEF DropsStored
<1>9. Counted
  <2>1. Held(event) = 0 /\ Len(q2) = 0 /\ Len(q3) = 0 /\ refused["book"] = 0
    BY Zenon, <1>1 DEF Held, Stage
  <2> QED BY <1>1, <1>7, <2>1 DEF Counted
<1> QED BY Zenon, <1>2, <1>3, <1>4, <1>6, <1>8, <1>9, TypeParts, CountedParts DEF PipelineInv, Flow

(* Every step of every thread keeps the invariant. *)
LEMMA PipelineNext == PipelineInv /\ [Next]_vars => PipelineInv'
<1> SUFFICES ASSUME PipelineInv, [Next]_vars
             PROVE  PipelineInv'
  BY Zenon
<1>1. TypeOK /\ EventHeld /\ StartsOnce /\ Flow /\ Counted /\ DropsStored /\ Joined
  BY Zenon DEF PipelineInv, Flow, Counted, Accounted
<1>2. TypeOK'
  <2>1. ControlOK' /\ DataOK'
    BY Zenon, <1>1, TypeParts, ControlNext, DataNext
  <2> QED BY Zenon, <2>1 DEF TypeOK, ControlOK, DataOK
<1>3. Flow'
  BY Zenon, <1>1, FlowNext
<1>4. Counted' /\ DropsStored' /\ EventHeld'
  BY SMTT(30), <1>1, CountedNext
<1>5. Accounted'
  BY Zenon, <1>4 DEF Counted, DropsStored, Accounted
<1>6. StartsOnce' /\ Joined'
  BY Zenon, <1>1, ThreadsNext
<1> QED BY Zenon, <1>2, <1>3, <1>4, <1>5, <1>6 DEF PipelineInv, Flow

(* The invariant holds in every reachable state. *)
LEMMA PipelineCorrect == Spec => []PipelineInv
  BY PipelineInit, PipelineNext, PTL DEF Spec

(* The queues never hold more than they may, and no message overtakes      *)
(* another or is handled twice, whatever the sizes of the queues and       *)
(* whatever is dropped (try_push and try_pop of the four stages).          *)
THEOREM QueuesInOrder == Spec => []QueuesHold
<1>1. PipelineInv => QueuesHold
  BY Zenon DEF PipelineInv, QueuesHold
<1> QED BY <1>1, PipelineCorrect, PTL

(* The counters of all stages account for every message, and the racy      *)
(* queue_drops never counts too many and never misses all                  *)
(* (PipelineStats, StatsCollector).                                        *)
THEOREM CountersAccount == Spec => []Accounted
<1>1. PipelineInv => Accounted
  BY Zenon DEF PipelineInv
<1> QED BY <1>1, PipelineCorrect, PTL

(* When main has returned from stop(), every stage and every helper is     *)
(* gone, so the queues and the books can be destroyed (pipeline.cpp:21-28).*)
THEOREM StopIsQuiet == Spec => []StoppedIsQuiet
<1>1. PipelineInv => StoppedIsQuiet
  BY Zenon DEF PipelineInv, Joined, StoppedIsQuiet, Gone, Stage, Helper
<1> QED BY <1>1, PipelineCorrect, PTL

=============================================================================
