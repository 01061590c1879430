----------------------------- MODULE PooledRing -----------------------------
(***************************************************************************)
(* Producers take objects from an ObjectPool and push them; consumers pop  *)
(* them and give them back.  The queue is MPSCQueue or a RingBuffer with   *)
(* one of its three policies; the template parameter is the variable       *)
(* policy.  Every access to memory that another thread can see is a step.  *)
(* Memory is sequentially consistent.  compare_exchange_weak fails only    *)
(* when the value differs: a spurious failure repeats the loop.            *)
(*                                                                         *)
(* A ticket numbers the slots that were claimed since the start, where the *)
(* code only keeps the number modulo Capacity; seen is the ticket of a     *)
(* thread.  history:                                                       *)
(*   claims   the objects of the pushes in the order of their tickets      *)
(*   popped   how many tickets consumers claimed                           *)
(*   taken    the ticket and the object of every pop                       *)
(*   wasfull  whether the ring was ever full                               *)
(*   spurious whether a push was refused before it ever was                *)
(*   upset    what went wrong:                                             *)
(*     overfull   a slot of a full ring was claimed                        *)
(*     underflow  a slot of an empty ring was claimed                      *)
(*     overtaken  a slot was written again before it was read              *)
(*     unwritten  a slot was read before it was written                    *)
(***************************************************************************)
EXTENDS Integers, Sequences, FiniteSets, SequencesExt

CONSTANTS
    Object,     \* the objects of the pool
    TagRange,   \* the tags of the free list wrap here
    Configs     \* the queues that are looked at

\* Capacity is a power of 2, and one slot stays empty.
ASSUME CapacityAssumption == \A c \in Configs : c.capacity \in {2, 4, 8}

INVALID == 0
ASSUME ObjectAssumption == Object \subseteq Nat \ {INVALID}

VARIABLES
    config,             \* [policy, capacity, producers, consumers, pushes]
    head, tail, committed, buffer,   \* the ring
    free,               \* head_ of the pool: an object and a tag
    next,               \* free_list_
    th,                 \* the locals of each thread
    started, history

ring == <<head, tail, committed, buffer>>
pool == <<free, next>>
vars == <<config, ring, pool, th, started, history>>

policy == config.policy
Capacity == config.capacity
MaxPushes == config.pushes  \* bound: calls of acquire
Producer == config.producers
Consumer == config.consumers

\* Locals: where the thread is, the object it works on, the head or tail it
\* has read, its ticket, old_head and next.
Idle == [pc |-> "idle", obj |-> INVALID, h |-> 0, seen |-> 0,
         old |-> [idx |-> INVALID, tag |-> 0], nxt |-> INVALID]

Plus1(i) == (i + 1) % Capacity

Init ==
    /\ config \in Configs
    /\ head = 0 /\ tail = 0 /\ committed = 0
    /\ buffer = [i \in 0 .. Capacity - 1 |-> INVALID]
    /\ free = [idx |-> 1, tag |-> 0]
    /\ next = [o \in Object |-> IF o + 1 \in Object THEN o + 1 ELSE INVALID]
    /\ th = [t \in Producer \cup Consumer |-> Idle]
    /\ started = 0
    /\ history = [claims |-> <<>>, popped |-> 0, taken |-> {},
                   wasfull |-> FALSE, spurious |-> FALSE, upset |-> {}]

At(t, pc) == th[t].pc = pc

Tickets == Len(history.claims)

------------------------------------------------------------------------------
\* ObjectPool.

\* A load of head_, alone or by a failed compare-and-swap.
Loaded(l) ==
    IF free.idx = INVALID THEN Idle
    ELSE [l EXCEPT !.pc = "acquire_next", !.old = free]

AcquireLoad(t) ==
    /\ t \in Producer
    /\ At(t, "idle")
    /\ started < MaxPushes
    /\ started' = started + 1
    /\ th' = [th EXCEPT ![t] = Loaded(@)]
    /\ UNCHANGED <<config, ring, pool, history>>

AcquireNext(t) ==
    /\ At(t, "acquire_next")
    /\ th' = [th EXCEPT ![t].pc = "acquire_cas",
                        ![t].nxt = next[th[t].old.idx]]
    /\ UNCHANGED <<config, ring, pool, started, history>>

\* A bug of the free list: the swap looks at the index only.
AcquireCasUntagged(t) ==
    LET l == th[t]
    IN  /\ At(t, "acquire_cas")
        /\ IF free.idx = l.old.idx
           THEN /\ free' = [idx |-> l.nxt, tag |-> free.tag]
                /\ th' = [th EXCEPT ![t] = [Idle EXCEPT !.pc = "push",
                                                       !.obj = l.old.idx]]
           ELSE /\ th' = [th EXCEPT ![t] = Loaded(@)]
                /\ UNCHANGED free
        /\ UNCHANGED <<config, ring, next, started, history>>

AcquireCas(t) ==
    LET l == th[t]
    IN  /\ At(t, "acquire_cas")
        /\ IF free = l.old
           THEN /\ free' = [idx |-> l.nxt, tag |-> (l.old.tag + 1) % TagRange]
                /\ th' = [th EXCEPT ![t] = [Idle EXCEPT !.pc = "push",
                                                       !.obj = l.old.idx]]
           ELSE /\ th' = [th EXCEPT ![t] = Loaded(@)]
                /\ UNCHANGED free
        /\ UNCHANGED <<config, ring, next, started, history>>

ReleaseLoad(t) ==
    /\ At(t, "release")
    /\ th' = [th EXCEPT ![t].pc = "release_link", ![t].old = free]
    /\ UNCHANGED <<config, ring, pool, started, history>>

ReleaseLink(t) ==
    /\ At(t, "release_link")
    /\ next' = [next EXCEPT ![th[t].obj] = th[t].old.idx]
    /\ th' = [th EXCEPT ![t].pc = "release_cas"]
    /\ UNCHANGED <<config, ring, free, started, history>>

ReleaseCas(t) ==
    LET l == th[t]
    IN  /\ At(t, "release_cas")
        /\ IF free = l.old
           THEN /\ free' = [idx |-> l.obj, tag |-> (l.old.tag + 1) % TagRange]
                /\ th' = [th EXCEPT ![t] = Idle]
           ELSE /\ th' = [th EXCEPT ![t].pc = "release_link", ![t].old = free]
                /\ UNCHANGED free
        /\ UNCHANGED <<config, ring, next, started, history>>

------------------------------------------------------------------------------
\* Pushing: claim_head, the write of the slot, commit.

PushLoad(t) ==
    /\ At(t, "push")
    /\ th' = [th EXCEPT ![t].pc = "push_full", ![t].h = head]
    /\ UNCHANGED <<config, ring, pool, started, history>>

Refused == [history EXCEPT !.spurious = @ \/ ~history.wasfull]

\* A push that is refused leaves the caller with its object.
PushFull(t) ==
    LET full == Plus1(th[t].h) = tail
    IN  /\ At(t, "push_full")
        /\ th' = [th EXCEPT ![t].pc = IF full THEN "release" ELSE "push_claim"]
        /\ history' = IF full THEN Refused ELSE history
        /\ UNCHANGED <<config, ring, pool, started>>

Claimed(t) ==
    [history EXCEPT
        !.claims = Append(@, th[t].obj),
        !.wasfull = @ \/ Plus1(Plus1(head)) = tail,
        !.upset = @ \cup IF Plus1(head) = tail THEN {"overfull"} ELSE {}]

\* The single producer stores the head it read plus 1; several producers
\* swap it, and read it again when they fail.
PushClaim(t) ==
    /\ At(t, "push_claim")
    /\ IF policy = "SPSC" \/ head = th[t].h
       THEN /\ head' = Plus1(th[t].h)
            /\ th' = [th EXCEPT ![t].pc = "push_write",
                                ![t].seen = Tickets + 1]
            /\ history' = Claimed(t)
       ELSE /\ th' = [th EXCEPT ![t].pc = "push_full", ![t].h = head]
            /\ UNCHANGED <<head, history>>
    /\ UNCHANGED <<config, tail, committed, buffer, pool, started>>

\* A ticket reuses the slot of the ticket Capacity before it.
Written(t) ==
    [history EXCEPT !.upset = @ \cup
        IF \E c \in Consumer :
               At(c, "pop_read") /\ th[c].seen + Capacity = th[t].seen
        THEN {"overtaken"} ELSE {}]

PushWrite(t) ==
    /\ At(t, "push_write")
    /\ buffer' = [buffer EXCEPT ![th[t].h] = th[t].obj]
    /\ th' = [th EXCEPT ![t] = IF policy = "SPSC" THEN Idle
                               ELSE [@ EXCEPT !.pc = "push_commit"]]
    /\ history' = Written(t)
    /\ UNCHANGED <<config, head, tail, committed, pool, started>>

\* A bug of the commit: the index is stored without the step to the next.
PushCommitSame(t) ==
    /\ At(t, "push_commit")
    /\ committed = th[t].h
    /\ th' = [th EXCEPT ![t] = Idle]
    /\ UNCHANGED <<config, ring, pool, started, history>>

\* A bug of the commit: a producer does not wait for the ones before it.
PushCommitNow(t) ==
    /\ At(t, "push_commit")
    /\ committed' = Plus1(th[t].h)
    /\ th' = [th EXCEPT ![t] = Idle]
    /\ UNCHANGED <<config, head, tail, buffer, pool, started, history>>

\* The loop ends when the producers before this one have committed.
PushCommit(t) ==
    /\ At(t, "push_commit")
    /\ committed = th[t].h
    /\ committed' = Plus1(th[t].h)
    /\ th' = [th EXCEPT ![t] = Idle]
    /\ UNCHANGED <<config, head, tail, buffer, pool, started, history>>

------------------------------------------------------------------------------
\* Popping: MPSCQueue reads the slot and then frees it, a RingBuffer frees
\* it first.

Readable == IF policy = "SPSC" THEN head ELSE committed

\* The slot that the ticket of c stands for was claimed and not yet written.
Unwritten(c) ==
    \E p \in Producer : At(p, "push_write") /\ th[p].seen = th[c].seen

Taken(c) ==
    [history EXCEPT
        !.taken = @ \cup {<<th[c].seen, buffer[th[c].h]>>},
        !.upset = @ \cup IF Unwritten(c) THEN {"unwritten"} ELSE {}]

\* Polling an empty queue changes nothing and is left out.
PopLoad(c) ==
    /\ c \in Consumer
    /\ At(c, "idle")
    /\ tail # Readable
    /\ th' = [th EXCEPT ![c].pc = "pop_empty", ![c].h = tail]
    /\ UNCHANGED <<config, ring, pool, started, history>>

PopEmpty(c) ==
    /\ At(c, "pop_empty")
    /\ th' = [th EXCEPT ![c] =
                 IF @.h = Readable THEN Idle
                 ELSE [@ EXCEPT !.seen = history.popped + 1,
                                !.pc = IF policy = "MPSCQueue" THEN "pop_read"
                                       ELSE "pop_claim"]]
    /\ UNCHANGED <<config, ring, pool, started, history>>

PopClaim(c) ==
    /\ At(c, "pop_claim")
    /\ IF policy # "MPMC" \/ tail = th[c].h
       THEN /\ tail' = Plus1(th[c].h)
            /\ th' = [th EXCEPT ![c].pc = "pop_read",
                                ![c].seen = history.popped + 1]
            /\ history' = [history EXCEPT !.popped = @ + 1,
                  !.upset = @ \cup IF tail = Readable THEN {"underflow"}
                                   ELSE {}]
       ELSE /\ th' = [th EXCEPT ![c].pc = "pop_empty", ![c].h = tail]
            /\ UNCHANGED <<tail, history>>
    /\ UNCHANGED <<config, head, committed, buffer, pool, started>>

PopRead(c) ==
    /\ At(c, "pop_read")
    /\ th' = [th EXCEPT ![c].obj = buffer[th[c].h],
                        ![c].pc = IF policy = "MPSCQueue" THEN "pop_free"
                                  ELSE "release"]
    /\ history' = Taken(c)
    /\ UNCHANGED <<config, ring, pool, started>>

PopFree(c) ==
    /\ At(c, "pop_free")
    /\ tail' = Plus1(th[c].h)
    /\ th' = [th EXCEPT ![c].pc = "release"]
    /\ history' = [history EXCEPT !.popped = @ + 1]
    /\ UNCHANGED <<config, head, committed, buffer, pool, started>>

------------------------------------------------------------------------------

Step(t) ==
    \/ AcquireLoad(t)
    \/ AcquireNext(t)
    \/ AcquireCas(t)
    \/ ReleaseLoad(t)
    \/ ReleaseLink(t)
    \/ ReleaseCas(t)
    \/ PushLoad(t)
    \/ PushFull(t)
    \/ PushClaim(t)
    \/ PushWrite(t)
    \/ PushCommit(t)
    \/ PopLoad(t)
    \/ PopEmpty(t)
    \/ PopClaim(t)
    \/ PopRead(t)
    \/ PopFree(t)

\* Once something went wrong the model stops: an object may then be nowhere
\* or in two places.
Next == history.upset = {} /\ \E t \in Producer \cup Consumer : Step(t)

Spec == Init /\ [][Next]_vars

\* Some thread that can take a step takes one.
FairSpec == Spec /\ WF_vars(Next)

------------------------------------------------------------------------------

\* The n-th object of the free list, INVALID after its end.
FreeList ==
    LET list[n \in 1 .. Cardinality(Object) + 1] ==
            IF n = 1 THEN free.idx
            ELSE IF list[n - 1] = INVALID THEN INVALID ELSE next[list[n - 1]]
    IN  list

Held(t) ==
    IF th[t].pc \in {"push", "push_full", "push_claim", "release",
                     "release_link", "release_cas", "pop_free"}
    THEN {th[t].obj} ELSE {}

Read == {pair[1] : pair \in history.taken}

\* Where an object may be: in the free list, with a thread, in the queue.
Places(o) ==
    {<<"free", n>> : n \in {m \in DOMAIN FreeList : FreeList[m] = o}}
    \cup {<<"held", t>> : t \in {u \in DOMAIN th : o \in Held(u)}}
    \cup {<<"queued", n>> : n \in {m \in 1 .. Tickets : /\ m \notin Read
                                              /\ history.claims[m] = o}}

\* Types, for the indices and the locals of MPSCQueue, RingBuffer and
\* ObjectPool.
TypeOK ==
    /\ {head, tail, committed} \subseteq 0 .. Capacity - 1
    /\ buffer \in [0 .. Capacity - 1 -> Object \cup {INVALID}]
    /\ free \in [idx : Object \cup {INVALID}, tag : 0 .. TagRange - 1]
    /\ next \in [Object -> Object \cup {INVALID}]
    /\ \A t \in DOMAIN th : th[t].h \in 0 .. Capacity - 1

\* No object is given out twice and none gets lost: it is in the free list,
\* with one thread, or in the queue (acquire, release and the ring together).
EachObjectInOnePlace ==
    history.upset = {} => \A o \in Object : Cardinality(Places(o)) = 1

\* What is popped with a ticket was pushed with it, so the queue is first in
\* first out, unless one of the known accidents has happened (try_pop).
PopsInOrder ==
    history.upset = {} =>
        \A pair \in history.taken : history.claims[pair[1]] = pair[2]

\* Objects travel from the pool through the queue and back, none shared, lost
\* or overtaken (acquire, try_push, try_pop, release).
ObjectsTravelSafely == TypeOK /\ EachObjectInOnePlace /\ PopsInOrder

\* What can go wrong, by policy.  Several producers can claim a slot of a
\* full ring, because the swap compares an index that may have gone around.
\* The single producer publishes before it writes.  A single consumer that
\* frees the slot before it reads it is safe, because the slot behind the
\* tail is the one that stays empty; several consumers are not safe.
OnlyKnownAccidents ==
    history.upset \subseteq
        CASE policy \in {"MPSCQueue", "MPSC"} -> {"overfull"}
          [] policy = "SPSC" -> {"unwritten"}
          [] policy = "MPMC" -> {"overfull", "underflow", "overtaken"}

\* With one producer a push is refused only if the ring is full (claim_head).
SoleProducerRefusedWhenFull ==
    Cardinality(Producer) = 1 => ~history.spurious

\* What can go wrong is known for every policy and number of producers.
AccidentsAreKnown == OnlyKnownAccidents /\ SoleProducerRefusedWhenFull

\* Producers that claimed slots do not spin for ever waiting for each other
\* (the loop in commit): time and again none of them waits.
PushesReturn ==
    []<>(history.upset # {} \/ \A t \in Producer : ~At(t, "push_commit"))

\* What the comment on try_push says: it returns false if full.
RefusedOnlyWhenFull == ~history.spurious

==============================================================================
