---------------------------- MODULE ReplayProofs ----------------------------
(***************************************************************************)
(* Invariants of the replay of a recording, for every recording, every     *)
(* choice among ticks of the same time and every interleaving of the two   *)
(* threads, and of the bars that are made from the published ticks.  They  *)
(* hold from the moment the ticks are loaded; that the loaded ticks are    *)
(* records of a sound file is shown in DataFilesProofs.                    *)
(***************************************************************************)
EXTENDS DataFiles, FiniteSetTheorems, TLAPS

------------------------------------------------------------------------------
\* Replaying: types, for every step of the two threads.

\* The publishing thread has taken a tick from the heap.
Holding == pub.pc \in {"callback", "pause", "waiting", "clock", "sleep", "publish", "emit"}

Clock == [running : BOOLEAN, speed : Nat, origin : Nat, elapsed : Nat, manual : Nat, sleep : Nat]

\* The ticks are distinct records, and of some ticks one is the earliest.
TicksInv ==
    /\ config \in Configs
    /\ ticks \in Seq(Record)
    /\ \A i, j \in DOMAIN ticks : ticks[i] = ticks[j] => i = j
    /\ \A heap \in SUBSET (DOMAIN ticks) :
          heap # {} => \E i \in heap : \A j \in heap : ticks[i].ts <= ticks[j].ts

\* The publishing thread: where it is, its heap, its tick, the clock started.
ThreadPc == {"idle", "loaded", "start", "merge", "end", "done", "callback", "pause", "waiting",
             "clock", "sleep", "publish", "emit"}

Thread == [pc : ThreadPc, heap : SUBSET (DOMAIN ticks), cur : Nat, started : {TRUE, FALSE, engine}]

ThreadInv ==
    /\ pub \in Thread
    /\ Holding => pub.cur \in DOMAIN ticks \ pub.heap
    /\ engine /\ pub.pc = "start" => ticks # <<>>
    /\ pub.started => clock.running
    /\ pub.pc \in {"sleep", "publish", "emit"} => pub.started

\* The flags and the clock.
ClockInv ==
    /\ clock \in Clock
    /\ running \in BOOLEAN /\ paused \in BOOLEAN /\ merging \in BOOLEAN

PlayInv == TicksInv /\ ThreadInv /\ ClockInv

\* Nothing of a replay changes.
LEMMA PlayKept ==
    ASSUME PlayInv, config' = config, UNCHANGED play_vars
    PROVE  PlayInv'
<1>1. ticks' = ticks /\ pub' = pub /\ clock' = clock /\ UNCHANGED flags
  BY Zenon DEF play_vars
<1>2. running' = running /\ paused' = paused /\ merging' = merging
  BY <1>1, Zenon DEF flags
<1> QED
  BY <1>1, <1>2, Zenon DEF PlayInv, TicksInv, ThreadInv, Thread, ClockInv, Holding, engine

\* The fields of the publishing thread when it goes on.
LEMMA GoneOn ==
    ASSUME PlayInv, NEW pc, pub' = [pub EXCEPT !.pc = pc]
    PROVE  /\ pub'.pc = pc /\ pub'.heap = pub.heap /\ pub'.cur = pub.cur
           /\ pub'.started = pub.started
  BY Zenon DEF PlayInv, ThreadInv, Thread

\* The clock shows a time.
LEMMA ClockShows ==
    ASSUME NEW c \in Clock
    PROVE  /\ Now(c) \in Nat
           /\ c.speed \in Nat /\ c.origin \in Nat /\ c.elapsed \in Nat /\ c.manual \in Nat
           /\ c.sleep \in Nat /\ c.running \in BOOLEAN
<1>1. /\ c.speed \in Nat /\ c.origin \in Nat /\ c.elapsed \in Nat /\ c.manual \in Nat
      /\ c.sleep \in Nat /\ c.running \in BOOLEAN
  BY Zenon DEF Clock
<1>2. c.origin + c.elapsed * c.speed \in Nat
  BY <1>1
<1> QED
  BY <1>1, <1>2, Zenon DEF Now

\* start of the clock.
LEMMA ClockStarts ==
    ASSUME NEW c \in Clock, NEW origin \in Nat
    PROVE  LET d == StartClock(c, origin)
           IN  /\ d \in Clock /\ d.running = TRUE /\ d.origin = origin /\ d.manual = origin
               /\ d.elapsed = 0 /\ d.speed = c.speed /\ d.sleep = c.sleep
<1>1. 0 \in Nat /\ TRUE \in BOOLEAN
  OBVIOUS
<1> QED
  BY <1>1, Zenon DEF StartClock, Clock

\* set_speed.
LEMMA SpeedSet ==
    ASSUME NEW c \in Clock, NEW m \in Nat
    PROVE  LET d == SetSpeed(c, m)
           IN  /\ d \in Clock /\ d.running = c.running /\ d.speed = m /\ d.sleep = c.sleep
               /\ c.running => d.origin = Now(c) /\ d.manual = Now(c) /\ d.elapsed = 0
               /\ ~ c.running => d.elapsed = c.elapsed
<1> DEFINE d == SetSpeed(c, m)
           a == [c EXCEPT !.origin = Now(c), !.elapsed = 0, !.manual = Now(c)]
<1>1. Now(c) \in Nat /\ 0 \in Nat /\ c.running \in BOOLEAN
  BY ClockShows
<1>2. /\ a \in Clock /\ a.running = c.running /\ a.sleep = c.sleep
      /\ a.origin = Now(c) /\ a.manual = Now(c) /\ a.elapsed = 0
  BY <1>1, Zenon DEF Clock
<1>3. d = [(IF c.running THEN a ELSE c) EXCEPT !.speed = m]
  BY Zenon DEF SetSpeed
<1> HIDE DEF a, d
<1>4. CASE c.running
  <2>1. d = [a EXCEPT !.speed = m]
    BY <1>3, <1>4, Zenon
  <2>2. /\ d \in Clock /\ d.running = a.running /\ d.speed = m /\ d.sleep = a.sleep
        /\ d.origin = a.origin /\ d.manual = a.manual /\ d.elapsed = a.elapsed
    BY <1>2, <2>1, Zenon DEF Clock
  <2> QED
    BY <1>2, <1>4, <2>2, Zenon DEF d
<1>5. CASE ~ c.running
  <2>1. d = [c EXCEPT !.speed = m]
    BY <1>3, <1>5, Zenon
  <2>2. /\ d \in Clock /\ d.running = c.running /\ d.speed = m /\ d.sleep = c.sleep
        /\ d.elapsed = c.elapsed
    BY <2>1, Zenon DEF Clock
  <2> QED
    BY <1>5, <2>2, Zenon DEF d
<1> QED
  BY <1>4, <1>5, Zenon

\* The time to sleep.
LEMMA SleepTime ==
    ASSUME NEW c \in Clock, NEW target \in Nat
    PROVE  SleepFor(c, target) \in Nat
<1>1. Now(c) \in Nat /\ c.speed \in Nat
  BY ClockShows, Zenon
<1>2. \A s, now \in Nat : s # 0 /\ ~ (now >= target) => (target - now) \div s \in Nat
  OBVIOUS
<1>3. 0 \in Nat
  OBVIOUS
<1> QED
  BY <1>1, <1>2, <1>3, Zenon DEF SleepFor

\* The earliest tick of a heap.
LEMMA EarliestTick ==
    ASSUME PlayInv, NEW heap \in SUBSET (DOMAIN ticks), heap # {}
    PROVE  /\ MinTs(heap) \in Nat
           /\ \A j \in heap : MinTs(heap) <= ticks[j].ts
           /\ \E i \in heap : ticks[i].ts = MinTs(heap) /\ ticks[i].ts \in Times
<1> DEFINE T == {ticks[i].ts : i \in heap}
<1>1. \A i \in heap : ticks[i].ts \in Times
  <2>1. \A r \in Record : r.ts \in Times
    BY Zenon DEF Record
  <2>2. \A i \in DOMAIN ticks : ticks[i] \in Record
    BY DEF PlayInv, TicksInv
  <2> QED
    BY <2>1, <2>2, Zenon
<1>2. T \in SUBSET Nat /\ T # {}
  BY Zenon, <1>1, FileAssumption
<1>3. Min(T) \in T /\ \A y \in T : Min(T) <= y
  <2>1. PICK i \in heap : \A j \in heap : ticks[i].ts <= ticks[j].ts
    BY Zenon DEF PlayInv, TicksInv
  <2>2. ticks[i].ts \in T /\ \A y \in T : ticks[i].ts <= y
    BY <2>1, Zenon
  <2> HIDE DEF T
  <2>3. \E x \in T : \A y \in T : x <= y
    BY <2>2, Zenon
  <2> QED
    BY <2>3, Zenon DEF Min
<1>4. MinTs(heap) = Min(T)
  BY Zenon DEF MinTs
<1>5. MinTs(heap) \in Nat
  BY <1>2, <1>3, <1>4
<1> QED
  BY <1>1, <1>3, <1>4, <1>5, Zenon

\* What a step of a replay leaves alone but for the publication of a tick.
Still ==
    /\ config' = config /\ ticks' = ticks /\ published' = published
    /\ bars' = bars /\ emitted' = emitted

\* The publishing thread stands.
Quiet == Still /\ pub' = pub

\* It goes on with its tick.
Walk == Still /\ Holding /\ Holding' /\ pub'.heap = pub.heap /\ pub'.cur = pub.cur

\* It drops its tick.
Drop == Still /\ Holding /\ pub'.pc = "merge" /\ pub'.heap = pub.heap

\* It takes one of the earliest ticks.
Take ==
    /\ Still /\ pub.pc = "merge" /\ pub'.pc = "callback"
    /\ pub'.cur \in pub.heap /\ ticks[pub'.cur].ts = MinTs(pub.heap)
    /\ pub'.heap = pub.heap \ {pub'.cur}

\* Steps in which the publishing thread has no part.
LEMMA QuietStep ==
    ASSUME PlayInv,
           \/ StoreOpen /\ UNCHANGED play_vars
           \/ Stop \/ StopMerger \/ Unpause \/ Pause
           \/ \E target \in Times : Seek(target)
           \/ \E multiplier \in Speeds : ChangeSpeed(multiplier)
           \/ TimePasses
           \/ Notify /\ pub' = pub
    PROVE  PlayInv' /\ Quiet
<1>1. ASSUME Still, pub' = pub, ClockInv', clock.running => clock'.running
      PROVE  PlayInv'
  BY <1>1, Zenon DEF Still, PlayInv, TicksInv, ThreadInv, Thread, Holding, engine
<1>2. CASE StoreOpen /\ UNCHANGED play_vars
  <2>1. config' = config
    BY <1>2, Zenon DEF StoreOpen
  <2>2. Quiet
    BY <1>2, <2>1, Zenon DEF play_vars, Quiet, Still
  <2> QED
    BY <1>2, <2>1, <2>2, PlayKept, Zenon
<1>3. ASSUME UNCHANGED store_vars PROVE config' = config
  BY <1>3, Zenon DEF store_vars
<1>4. clock \in Clock /\ running \in BOOLEAN /\ paused \in BOOLEAN /\ merging \in BOOLEAN
  BY Zenon DEF PlayInv, ClockInv
<1>5. CASE Stop \/ StopMerger \/ Unpause \/ Pause \/ \E target \in Times : Seek(target)
  <2>1. /\ UNCHANGED store_vars /\ ticks' = ticks /\ published' = published /\ bars' = bars
        /\ emitted' = emitted /\ pub' = pub /\ clock' = clock
        /\ running' \in {running, FALSE} /\ paused' \in {paused, TRUE, FALSE}
        /\ merging' \in {merging, FALSE}
    BY <1>5, Zenon DEF Stop, StopMerger, Unpause, Pause, Seek
  <2>2. ClockInv'
    BY <1>4, <2>1, Zenon DEF ClockInv
  <2>3. Quiet
    BY <1>3, <2>1, Zenon DEF Quiet, Still
  <2> QED
    BY <1>1, <2>1, <2>2, <2>3, Zenon DEF Quiet
<1>6. ASSUME NEW m \in Speeds, ChangeSpeed(m) PROVE PlayInv' /\ Quiet
  <2>1. /\ UNCHANGED store_vars /\ ticks' = ticks /\ published' = published /\ bars' = bars
        /\ emitted' = emitted /\ pub' = pub /\ clock' = SetSpeed(clock, m) /\ UNCHANGED flags
    BY <1>6, Zenon DEF ChangeSpeed
  <2>2. m \in Nat
    BY ClockAssumption
  <2>3. clock' \in Clock /\ clock'.running = clock.running
    BY <1>4, <2>1, <2>2, SpeedSet, Zenon
  <2>4. ClockInv'
    BY <1>4, <2>1, <2>3, Zenon DEF ClockInv, flags
  <2>5. Quiet
    BY <1>3, <2>1, Zenon DEF Quiet, Still
  <2> QED
    BY <1>1, <2>1, <2>3, <2>4, <2>5, Zenon DEF Quiet
<1>7. CASE TimePasses
  <2>1. /\ UNCHANGED store_vars /\ ticks' = ticks /\ published' = published /\ bars' = bars
        /\ emitted' = emitted /\ pub' = pub /\ UNCHANGED flags
        /\ clock' = [clock EXCEPT !.elapsed = Smaller(clock.elapsed + 1, MaxElapsed),
                                  !.sleep = Larger(clock.sleep - 1, 0)]
    BY <1>7, Zenon DEF TimePasses
  <2>2. Smaller(clock.elapsed + 1, MaxElapsed) \in Nat /\ Larger(clock.sleep - 1, 0) \in Nat
    <3>1. clock.elapsed \in Nat /\ clock.sleep \in Nat /\ MaxElapsed \in Nat
      BY <1>4, ClockShows, ClockAssumption, Zenon
    <3> QED
      BY <3>1 DEF Smaller, Larger
  <2>3. clock' \in Clock /\ clock'.running = clock.running
    BY <1>4, <2>1, <2>2, Zenon DEF Clock
  <2>4. ClockInv'
    BY <1>4, <2>1, <2>3, Zenon DEF ClockInv, flags
  <2>5. Quiet
    BY <1>3, <2>1, Zenon DEF Quiet, Still
  <2> QED
    BY <1>1, <2>1, <2>3, <2>4, <2>5, Zenon DEF Quiet
<1>8. CASE Notify /\ pub' = pub
  <2>1. /\ UNCHANGED store_vars /\ ticks' = ticks /\ published' = published /\ bars' = bars
        /\ emitted' = emitted /\ pub' = pub /\ clock' = clock /\ UNCHANGED flags
    BY <1>8, Zenon DEF Notify
  <2>2. ClockInv'
    BY <1>4, <2>1, Zenon DEF ClockInv, flags
  <2>3. Quiet
    BY <1>3, <2>1, Zenon DEF Quiet, Still
  <2> QED
    BY <1>1, <2>1, <2>2, <2>3, Zenon DEF Quiet
<1> QED
  BY <1>2, <1>5, <1>6, <1>7, <1>8, Zenon

\* Steps of the publishing thread with its tick in hand.
LEMMA WalkStep ==
    ASSUME PlayInv, Callback \/ WaitIfPaused \/ WakeUp \/ PublishTest \/ (Notify /\ pub' # pub)
    PROVE  PlayInv' /\ (Walk \/ Drop)
<1>1. /\ UNCHANGED store_vars /\ ticks' = ticks /\ published' = published /\ bars' = bars
      /\ emitted' = emitted /\ clock' = clock /\ UNCHANGED flags
  BY Zenon DEF Callback, WaitIfPaused, WakeUp, PublishTest, Notify
<1>2. Still
  BY <1>1, Zenon DEF store_vars, Still
<1>3. \E pc : /\ pub' = [pub EXCEPT !.pc = pc]
              /\ \/ pub.pc = "callback" /\ pc \in {"clock", "merge", "pause"}
                 \/ pub.pc = "pause" /\ pc \in {"waiting", "clock", "merge"}
                 \/ pub.pc = "sleep" /\ pc = "publish"
                 \/ pub.pc = "publish" /\ pc \in {"emit", "merge"}
                 \/ pub.pc = "waiting" /\ pc = "pause"
  BY Zenon DEF Callback, WaitIfPaused, WakeUp, PublishTest, Notify, Go, At
<1>4. PICK pc : /\ pub' = [pub EXCEPT !.pc = pc]
                /\ \/ pub.pc = "callback" /\ pc \in {"clock", "merge", "pause"}
                   \/ pub.pc = "pause" /\ pc \in {"waiting", "clock", "merge"}
                   \/ pub.pc = "sleep" /\ pc = "publish"
                   \/ pub.pc = "publish" /\ pc \in {"emit", "merge"}
                   \/ pub.pc = "waiting" /\ pc = "pause"
  BY Zenon, <1>3
<1>5. /\ pub'.pc = pc /\ pub'.heap = pub.heap /\ pub'.cur = pub.cur
      /\ pub'.started = pub.started
  BY <1>4, GoneOn, Zenon
<1>6. Holding
  BY <1>4 DEF Holding
<1>7. pc = "merge" \/ Holding'
  BY <1>4, <1>5 DEF Holding
<1>8. Walk \/ Drop
  BY <1>2, <1>5, <1>6, <1>7, Zenon DEF Walk, Drop
<1>9. pub' \in Thread
  <2>1. pc \in ThreadPc
    BY <1>4 DEF ThreadPc
  <2> QED
    BY <1>4, <2>1, Zenon DEF PlayInv, ThreadInv, Thread
<1>10. pub'.pc \in {"sleep", "publish", "emit"} => pub'.started
  <2>1. pc \in {"sleep", "publish", "emit"} => pub.pc \in {"sleep", "publish"}
    BY <1>4
  <2>2. pub.pc \in {"sleep", "publish"} => pub.started
    BY Zenon DEF PlayInv, ThreadInv, Thread
  <2> QED
    BY <1>5, <2>1, <2>2, Zenon
<1>11. pub'.pc # "start"
  BY <1>4, <1>5
<1>12. Holding' => pub'.cur \in DOMAIN ticks \ pub'.heap
  BY <1>5, <1>6, Zenon DEF PlayInv, ThreadInv, Thread
<1>13. ThreadInv'
  BY <1>1, <1>2, <1>5, <1>9, <1>10, <1>11, <1>12, Zenon DEF PlayInv, ThreadInv, Thread, Still, engine
<1>14. TicksInv' /\ ClockInv'
  BY <1>1, <1>2, Zenon DEF PlayInv, TicksInv, ClockInv, Still, flags
<1> QED
  BY <1>8, <1>13, <1>14, Zenon DEF PlayInv

\* The clock that wait_until uses: the first tick has started it.
WaitClock == IF pub.started THEN clock ELSE StartClock(clock, ticks[pub.cur].ts)

\* The time of the tick in hand.
LEMMA TickInHand ==
    ASSUME PlayInv, Holding
    PROVE  /\ pub.cur \in DOMAIN ticks \ pub.heap /\ ticks[pub.cur] \in Record
           /\ ticks[pub.cur].ts \in Times /\ ticks[pub.cur].ts \in Nat
<1>1. pub.cur \in DOMAIN ticks \ pub.heap
  BY Zenon DEF PlayInv, ThreadInv, Thread
<1>2. ticks[pub.cur] \in Record
  BY <1>1 DEF PlayInv, TicksInv
<1>3. ticks[pub.cur].ts \in Times
  BY <1>2, Zenon DEF Record
<1>4. ticks[pub.cur].ts \in Nat
  BY Zenon, <1>3, FileAssumption
<1> QED
  BY <1>1, <1>2, <1>3, <1>4, Zenon

\* wait_until, up to its sleep.
LEMMA ClockWaitStep ==
    ASSUME PlayInv, ClockWait
    PROVE  /\ PlayInv' /\ Walk
           /\ WaitClock \in Clock /\ WaitClock.running
           /\ clock' = [WaitClock EXCEPT !.sleep = SleepFor(WaitClock, ticks[pub.cur].ts)]
           /\ SleepFor(WaitClock, ticks[pub.cur].ts) \in Nat
           /\ pub'.pc = IF SleepFor(WaitClock, ticks[pub.cur].ts) = 0 THEN "publish" ELSE "sleep"
<1> DEFINE ts == ticks[pub.cur].ts
           c == WaitClock
           pc == IF SleepFor(c, ts) = 0 THEN "publish" ELSE "sleep"
<1>1. /\ pub.pc = "clock" /\ UNCHANGED store_vars /\ ticks' = ticks /\ published' = published
      /\ bars' = bars /\ emitted' = emitted /\ UNCHANGED flags
      /\ clock' = [c EXCEPT !.sleep = SleepFor(c, ts)]
      /\ pub' = [pub EXCEPT !.started = TRUE, !.pc = pc]
  BY Zenon DEF ClockWait, WaitClock, At
<1>2. Holding
  BY <1>1 DEF Holding
<1>3. ts \in Nat /\ pub.cur \in DOMAIN ticks \ pub.heap
  BY <1>2, TickInHand, Zenon
<1>4. c \in Clock /\ c.running
  <2>1. clock \in Clock
    BY Zenon DEF PlayInv, ClockInv
  <2>2. CASE pub.started
    BY <2>1, <2>2, Zenon DEF WaitClock, PlayInv, ThreadInv, Thread
  <2>3. CASE ~ pub.started
    BY <1>3, <2>1, <2>3, ClockStarts, Zenon DEF WaitClock
  <2> QED
    BY <2>2, <2>3, Zenon
<1>5. SleepFor(c, ts) \in Nat
  BY <1>3, <1>4, SleepTime, Zenon
<1> HIDE DEF c, ts
<1>6. clock' \in Clock /\ clock'.running = c.running
  BY <1>1, <1>4, <1>5, Zenon DEF Clock
<1>7. pc \in {"publish", "sleep"}
  BY Zenon
<1> HIDE DEF pc
<1>8. /\ pub'.pc = pc /\ pub'.heap = pub.heap /\ pub'.cur = pub.cur /\ pub'.started = TRUE
  BY <1>1, Zenon DEF PlayInv, ThreadInv, Thread
<1>9. pub' \in Thread
  <2>1. pc \in ThreadPc
    BY <1>7 DEF ThreadPc
  <2> QED
    BY <1>1, <2>1, Zenon DEF PlayInv, ThreadInv, Thread
<1>10. Still
  BY <1>1, Zenon DEF store_vars, Still
<1>11. Holding' /\ pub'.pc # "start"
  BY <1>7, <1>8 DEF Holding
<1>12. ThreadInv'
  BY <1>3, <1>4, <1>6, <1>8, <1>9, <1>10, <1>11, Zenon DEF ThreadInv, Thread, Still, engine
<1>13. TicksInv' /\ ClockInv'
  BY <1>1, <1>6, <1>10, Zenon DEF PlayInv, TicksInv, ClockInv, Still, flags
<1>14. PlayInv' /\ Walk
  BY <1>2, <1>8, <1>10, <1>11, <1>12, <1>13, Zenon DEF PlayInv, Walk
<1> QED
  BY <1>1, <1>4, <1>5, <1>8, <1>14, Zenon DEF c, ts, pc

\* The publication of the tick.
LEMMA PublishStep ==
    ASSUME PlayInv, Publish
    PROVE  /\ PlayInv' /\ Holding /\ pub.pc = "emit"
           /\ config' = config /\ ticks' = ticks /\ pub'.pc = "merge" /\ pub'.heap = pub.heap
           /\ published' = Append(published, ticks[pub.cur])
           /\ clock' = IF clock.speed = 0 THEN advance_to(clock, ticks[pub.cur].ts) ELSE clock
           /\ clock'.running = clock.running
<1> DEFINE ts == ticks[pub.cur].ts
<1>1. /\ pub.pc = "emit" /\ UNCHANGED store_vars /\ ticks' = ticks /\ UNCHANGED flags
      /\ published' = Append(published, ticks[pub.cur])
      /\ clock' = (IF clock.speed = 0 THEN advance_to(clock, ts) ELSE clock)
      /\ pub' = [pub EXCEPT !.pc = "merge"]
  BY Zenon DEF Publish, At, Go
<1>2. Holding
  BY <1>1 DEF Holding
<1>3. ts \in Nat
  BY <1>2, TickInHand, Zenon
<1>4. clock' \in Clock /\ clock'.running = clock.running
  <2>1. clock \in Clock
    BY Zenon DEF PlayInv, ClockInv
  <2>2. advance_to(clock, ts) \in Clock /\ advance_to(clock, ts).running = clock.running
    <3> HIDE DEF ts
    <3> QED
      BY <1>3, <2>1, Zenon DEF advance_to, Clock
  <2> QED
    BY <1>1, <2>1, <2>2, Zenon
<1>5. pub'.pc = "merge" /\ pub'.heap = pub.heap /\ pub'.cur = pub.cur /\ pub'.started = pub.started
  BY <1>1, GoneOn, Zenon
<1>6. config' = config
  BY <1>1, Zenon DEF store_vars
<1>7. pub' \in Thread
  BY <1>1, Zenon DEF PlayInv, ThreadInv, Thread, ThreadPc
<1>8. ~ Holding' /\ pub'.pc \notin {"start", "sleep", "publish", "emit"}
  BY <1>5 DEF Holding
<1>9. ThreadInv'
  BY <1>1, <1>4, <1>5, <1>6, <1>7, <1>8, Zenon DEF PlayInv, ThreadInv, Thread, engine
<1>10. TicksInv' /\ ClockInv'
  BY <1>1, <1>4, <1>6, Zenon DEF PlayInv, TicksInv, ClockInv, flags
<1> QED
  BY <1>1, <1>2, <1>4, <1>5, <1>6, <1>9, <1>10, Zenon DEF PlayInv

\* The next tick, or the end of the merge.
LEMMA PickStep ==
    ASSUME PlayInv, Pick
    PROVE  /\ PlayInv' /\ pub.pc = "merge"
           /\ \/ Take
              \/ /\ Still /\ pub'.pc = "end" /\ pub'.heap = pub.heap
                 /\ pub.heap = {} \/ ~ (IF engine THEN running ELSE merging)
<1>1. /\ pub.pc = "merge" /\ UNCHANGED store_vars /\ ticks' = ticks /\ UNCHANGED flags
      /\ clock' = clock /\ published' = published /\ bars' = bars /\ emitted' = emitted
  BY Zenon DEF Pick, At
<1>2. Still
  BY <1>1, Zenon DEF Still, store_vars
<1>3. TicksInv' /\ ClockInv'
  BY <1>1, <1>2, Zenon DEF PlayInv, TicksInv, ClockInv, Still, flags
<1>4. CASE pub.heap = {} \/ ~ (IF engine THEN running ELSE merging)
  <2>1. pub' = [pub EXCEPT !.pc = "end"]
    BY <1>4, Zenon DEF Pick, Go
  <2>2. pub'.pc = "end" /\ pub'.heap = pub.heap /\ pub'.cur = pub.cur
        /\ pub'.started = pub.started
    BY <2>1, GoneOn, Zenon
  <2>3. pub' \in Thread
    BY <2>1, Zenon DEF PlayInv, ThreadInv, Thread, ThreadPc
  <2>4. ~ Holding' /\ pub'.pc \notin {"start", "sleep", "publish", "emit"}
    BY <2>2 DEF Holding
  <2>5. ThreadInv'
    BY <1>1, <1>2, <2>2, <2>3, <2>4, Zenon DEF PlayInv, ThreadInv, Thread, Still, engine
  <2> QED
    BY <1>1, <1>2, <1>3, <1>4, <2>2, <2>5, Zenon DEF PlayInv
<1>5. CASE ~ (pub.heap = {} \/ ~ (IF engine THEN running ELSE merging))
  <2>1. PICK i \in pub.heap : /\ ticks[i].ts = MinTs(pub.heap)
                              /\ pub' = [pub EXCEPT !.pc = "callback", !.cur = i, !.heap = pub.heap \ {i}]
    BY <1>5, Zenon DEF Pick
  <2>2. pub'.pc = "callback" /\ pub'.heap = pub.heap \ {i} /\ pub'.cur = i
        /\ pub'.started = pub.started
    BY <2>1, Zenon DEF PlayInv, ThreadInv, Thread
  <2>3. pub.heap \subseteq DOMAIN ticks /\ i \in Nat
    <3>1. pub.heap \subseteq DOMAIN ticks
      BY Zenon DEF PlayInv, ThreadInv, Thread
    <3>2. \A k \in DOMAIN ticks : k \in Nat
      BY DEF PlayInv, TicksInv
    <3> QED
      BY <3>1, <3>2, Zenon
  <2>4. pub' \in Thread
    <3>1. pub.heap \ {i} \in SUBSET (DOMAIN ticks)
      BY <2>3, Zenon
    <3> QED
      BY <2>1, <2>3, <3>1, Zenon DEF PlayInv, ThreadInv, Thread, ThreadPc
  <2>5. Holding' /\ pub'.pc \notin {"start", "sleep", "publish", "emit"}
    BY <2>2 DEF Holding
  <2>6. ThreadInv'
    BY <1>1, <1>2, <2>2, <2>3, <2>4, <2>5, Zenon DEF PlayInv, ThreadInv, Thread, Still, engine
  <2>7. Take
    BY <1>1, <1>2, <2>1, <2>2, Zenon DEF Take
  <2> QED
    BY <1>1, <1>3, <2>6, <2>7, Zenon DEF PlayInv
<1> QED
  BY <1>4, <1>5, Zenon

\* The start of a replay and its end.
LEMMA StartStepReplay ==
    ASSUME PlayInv, StartRunning \/ StartLoop \/ Finish
    PROVE  /\ PlayInv' /\ config' = config /\ ticks' = ticks /\ published' = published
           /\ ~ Holding /\ ~ Holding'
<1>1. /\ UNCHANGED store_vars /\ ticks' = ticks /\ published' = published
  BY Zenon DEF StartRunning, StartLoop, Finish
<1>2. config' = config
  BY <1>1, Zenon DEF store_vars
<1>3. TicksInv'
  BY <1>1, <1>2, Zenon DEF PlayInv, TicksInv
<1>4. clock \in Clock /\ running \in BOOLEAN /\ paused \in BOOLEAN /\ merging \in BOOLEAN
  BY Zenon DEF PlayInv, ClockInv
<1>5. pub \in Thread
  BY Zenon DEF PlayInv, ThreadInv
<1>6. ASSUME NEW pc \in {"start", "done"}, pub' = [pub EXCEPT !.pc = pc],
             pub.pc \in {"loaded", "end"}, clock' = clock,
             engine /\ pc = "start" => ticks # <<>>
      PROVE  ThreadInv' /\ ~ Holding /\ ~ Holding'
  <2>1. /\ pub'.pc = pc /\ pub'.heap = pub.heap /\ pub'.cur = pub.cur /\ pub'.started = pub.started
    BY <1>6, GoneOn, Zenon
  <2>2. pub' \in Thread
    <3>1. pc \in ThreadPc
      BY <1>6 DEF ThreadPc
    <3> QED
      BY <1>5, <1>6, <3>1, Zenon DEF Thread
  <2>3. ~ Holding /\ ~ Holding' /\ pub'.pc \notin {"sleep", "publish", "emit"}
    BY <1>6, <2>1 DEF Holding
  <2> QED
    BY <1>1, <1>2, <1>6, <2>1, <2>2, <2>3, Zenon DEF PlayInv, ThreadInv, Thread, engine
<1>7. CASE StartRunning
  <2>1. /\ pub.pc = "loaded" /\ clock' = clock /\ paused' = paused /\ merging' = merging
        /\ IF engine /\ ticks = <<>>
           THEN pub' = [pub EXCEPT !.pc = "done"] /\ running' = running
           ELSE pub' = [pub EXCEPT !.pc = "start"] /\ running' = TRUE
    BY <1>7, Zenon DEF StartRunning, At, Go
  <2>2. ClockInv'
    BY <1>4, <2>1, Zenon DEF ClockInv
  <2>3. "start" # "done" /\ pub.pc \in {"loaded", "end"}
    BY <2>1
  <2>4. ThreadInv' /\ ~ Holding /\ ~ Holding'
    BY <1>6, <2>1, <2>3, Zenon
  <2> QED
    BY <1>1, <1>2, <1>3, <2>2, <2>4, Zenon DEF PlayInv
<1>8. CASE Finish
  <2>1. /\ pub.pc = "end" /\ clock' = clock /\ paused' = paused /\ merging' = FALSE
        /\ pub' = [pub EXCEPT !.pc = "done"] /\ running' = FALSE
    BY <1>8, Zenon DEF Finish, At, Go
  <2>2. ClockInv'
    BY <1>4, <2>1, Zenon DEF ClockInv
  <2>3. "start" # "done" /\ pub.pc \in {"loaded", "end"}
    BY <2>1
  <2>4. ThreadInv' /\ ~ Holding /\ ~ Holding'
    BY <1>6, <2>1, <2>3, Zenon
  <2> QED
    BY <1>1, <1>2, <1>3, <2>2, <2>4, Zenon DEF PlayInv
<1>9. CASE StartLoop
  <2> DEFINE pc == IF ticks = <<>> THEN "end" ELSE "merge"
  <2>1. /\ pub.pc = "start" /\ running' = running
        /\ pub' = [pub EXCEPT !.pc = pc, !.heap = DOMAIN ticks, !.started = engine]
        /\ IF engine
           THEN /\ clock' = StartClock(clock, MinTs(DOMAIN ticks))
                /\ UNCHANGED <<paused, seek_target, merging>>
           ELSE paused' = FALSE /\ merging' = (ticks # <<>>) /\ clock' = clock
    BY <1>9, Zenon DEF StartLoop, At
  <2>2. pc \in {"end", "merge"}
    BY Zenon
  <2> HIDE DEF pc
  <2>3. pub'.pc = pc /\ pub'.heap = DOMAIN ticks /\ pub'.started = engine
    BY <1>5, <2>1, Zenon DEF Thread
  <2>4. pub' \in Thread
    <3>1. pc \in ThreadPc
      BY <2>2 DEF ThreadPc
    <3> QED
      BY <1>5, <2>1, <3>1, Zenon DEF Thread
  <2>5. CASE engine
    <3>1. DOMAIN ticks # {}
      <4>1. ticks # <<>> /\ ticks \in Seq(Record)
        BY <2>1, <2>5, Zenon DEF PlayInv, ThreadInv, TicksInv
      <4>2. \A q \in Seq(Record) : q # <<>> => 1 \in DOMAIN q
        OBVIOUS
      <4> QED
        BY <4>1, <4>2, Zenon
    <3>2. MinTs(DOMAIN ticks) \in Nat
      <4> DEFINE heap == DOMAIN ticks
      <4>1. heap \in SUBSET (DOMAIN ticks) /\ heap # {}
        BY <3>1, Zenon
      <4> HIDE DEF heap
      <4>2. MinTs(heap) \in Nat
        BY <4>1, EarliestTick, Zenon
      <4> QED
        BY <4>2, Zenon DEF heap
    <3>3. clock' \in Clock /\ clock'.running = TRUE
      BY <1>4, <2>1, <2>5, <3>2, ClockStarts, Zenon
    <3>4. ClockInv'
      BY <1>4, <2>1, <2>5, <3>3, Zenon DEF ClockInv
    <3>5. ~ Holding /\ ~ Holding' /\ pub'.pc \notin {"start", "sleep", "publish", "emit"}
      BY <2>1, <2>2, <2>3 DEF Holding
    <3>6. ThreadInv'
      BY <1>1, <1>2, <2>4, <3>3, <3>5, Zenon DEF ThreadInv, Thread, engine
    <3> QED
      BY <1>1, <1>2, <1>3, <3>4, <3>5, <3>6, Zenon DEF PlayInv
  <2>6. CASE ~ engine
    <3>1. ClockInv'
      BY <1>4, <2>1, <2>6, Zenon DEF ClockInv
    <3>2. ~ Holding /\ ~ Holding' /\ pub'.pc \notin {"start", "sleep", "publish", "emit"}
      BY <2>1, <2>2, <2>3 DEF Holding
    <3>3. ThreadInv'
      BY <1>1, <1>2, <2>3, <2>4, <2>6, <3>2, Zenon DEF ThreadInv, Thread, engine
    <3> QED
      BY <1>1, <1>2, <1>3, <3>1, <3>2, <3>3, Zenon DEF PlayInv
  <2> QED
    BY <2>5, <2>6, Zenon
<1> QED
  BY <1>7, <1>8, <1>9, Zenon

------------------------------------------------------------------------------
\* Ticks come out in the order of time.

\* What was published was taken from the heap; what is left is later.
OrderInv ==
    /\ published \in Seq(Record)
    /\ \A k \in DOMAIN published :
          \E i \in DOMAIN ticks \ pub.heap : published[k] = ticks[i] /\ (Holding => i # pub.cur)
    /\ pub.pc \in {"idle", "loaded", "start"} => published = <<>>
    /\ \A k \in DOMAIN published, i \in pub.heap : published[k].ts <= ticks[i].ts
    /\ Holding => /\ \A k \in DOMAIN published : published[k].ts <= ticks[pub.cur].ts
                  /\ \A i \in pub.heap : ticks[pub.cur].ts <= ticks[i].ts
    /\ PublishedInTimeOrder

\* A step that publishes nothing and takes nothing from the heap.
LEMMA OrderKept ==
    ASSUME OrderInv, ticks' = ticks, published' = published, pub'.heap = pub.heap,
           Holding' => Holding /\ pub'.cur = pub.cur,
           pub'.pc \in {"idle", "loaded", "start"} => pub.pc \in {"idle", "loaded", "start"}
    PROVE  OrderInv'
<1>1. PublishedInTimeOrder'
  BY Zenon DEF OrderInv, PublishedInTimeOrder
<1>2. ASSUME NEW k \in DOMAIN published
      PROVE  \E i \in DOMAIN ticks \ pub'.heap : published[k] = ticks[i] /\ (Holding' => i # pub'.cur)
  BY <1>2, Zenon DEF OrderInv
<1> QED
  BY <1>1, <1>2, Zenon DEF OrderInv

\* Nothing is published before the merge begins.
LEMMA OrderStarts ==
    ASSUME OrderInv, pub.pc \in {"idle", "loaded", "start"}, published' = published, ~ Holding'
    PROVE  OrderInv'
<1>1. published' = <<>>
  BY Zenon DEF OrderInv
<1>2. DOMAIN <<>> = {} /\ <<>> \in Seq(Record)
  OBVIOUS
<1>3. Range(<<>>) = {}
  BY <1>2, Zenon DEF Range
<1>4. PublishedInTimeOrder'
  BY <1>1, <1>2, <1>3, Zenon DEF PublishedInTimeOrder
<1> QED
  BY <1>1, <1>2, <1>4, Zenon DEF OrderInv

\* The earliest tick is taken.
LEMMA OrderTaken ==
    ASSUME PlayInv, OrderInv, Take
    PROVE  OrderInv'
<1>1. /\ ticks' = ticks /\ published' = published /\ pub.pc = "merge" /\ pub'.pc = "callback"
      /\ pub'.cur \in pub.heap /\ ticks[pub'.cur].ts = MinTs(pub.heap)
      /\ pub'.heap = pub.heap \ {pub'.cur}
  BY Zenon DEF Take, Still
<1>2. pub.heap \in SUBSET (DOMAIN ticks) /\ pub.heap # {}
  BY <1>1, Zenon DEF PlayInv, ThreadInv, Thread
<1>3. \A i \in pub.heap : ticks[pub'.cur].ts <= ticks[i].ts
  <2>1. \A i \in pub.heap : MinTs(pub.heap) <= ticks[i].ts
    BY <1>2, EarliestTick, Zenon
  <2> QED
    BY <1>1, <2>1, Zenon
<1>4. pub'.pc \notin {"idle", "loaded", "start"}
  BY <1>1
<1>5. PublishedInTimeOrder'
  BY <1>1, Zenon DEF OrderInv, PublishedInTimeOrder
<1>6. ASSUME NEW k \in DOMAIN published
      PROVE  \E i \in DOMAIN ticks \ pub'.heap : published[k] = ticks[i] /\ i # pub'.cur
  <2>1. PICK i \in DOMAIN ticks \ pub.heap : published[k] = ticks[i]
    BY Zenon DEF OrderInv
  <2> QED
    BY <1>1, <2>1, Zenon
<1>7. \A k \in DOMAIN published, i \in pub.heap : published[k].ts <= ticks[i].ts
  BY Zenon DEF OrderInv
<1> QED
  BY <1>1, <1>3, <1>4, <1>5, <1>6, <1>7, Zenon DEF OrderInv

\* The tick in hand is published.
LEMMA OrderPublished ==
    ASSUME PlayInv, OrderInv, Holding, ticks' = ticks, pub'.heap = pub.heap, pub'.pc = "merge",
           published' = Append(published, ticks[pub.cur])
    PROVE  OrderInv'
<1> DEFINE t == ticks[pub.cur]
           n == Len(published)
<1>1. t \in Record /\ pub.cur \in DOMAIN ticks \ pub.heap
  <2>1. pub.cur \in DOMAIN ticks \ pub.heap
    BY Zenon DEF PlayInv, ThreadInv
  <2>2. \A i \in DOMAIN ticks : ticks[i] \in Record
    BY DEF PlayInv, TicksInv
  <2> QED
    BY <2>1, <2>2, Zenon
<1>2. published \in Seq(Record)
  BY Zenon DEF OrderInv
<1> HIDE DEF t
<1>3. /\ n \in Nat /\ DOMAIN published = 1 .. n
      /\ Append(published, t) \in Seq(Record) /\ DOMAIN Append(published, t) = 1 .. n + 1
      /\ Append(published, t)[n + 1] = t /\ n + 1 \notin 1 .. n /\ n + 1 \in 1 .. n + 1
      /\ \A k \in 1 .. n : Append(published, t)[k] = published[k]
      /\ \A k \in 1 .. n + 1 : k \in 1 .. n \/ k = n + 1
  BY <1>1, <1>2
<1>4. published' = Append(published, t)
  BY Zenon DEF t
<1> HIDE DEF n
<1>5. /\ published' \in Seq(Record) /\ DOMAIN published' = 1 .. n + 1 /\ published'[n + 1] = t
      /\ \A k \in 1 .. n : published'[k] = published[k]
  BY <1>3, <1>4, Zenon
<1>6. ~ Holding' /\ pub'.pc \notin {"idle", "loaded", "start"}
  BY DEF Holding
<1>7. ASSUME NEW k \in 1 .. n
      PROVE  /\ published[k].ts <= t.ts
             /\ \E i \in DOMAIN ticks \ pub.heap : published[k] = ticks[i] /\ i # pub.cur
             /\ published[k] # t
  <2>1. published[k].ts <= t.ts
    BY <1>3, Zenon DEF OrderInv, t
  <2>2. PICK i \in DOMAIN ticks \ pub.heap : published[k] = ticks[i] /\ i # pub.cur
    BY <1>3, Zenon DEF OrderInv
  <2>3. published[k] # t
    BY <1>1, <2>2, Zenon DEF PlayInv, TicksInv, t
  <2> QED
    BY <2>1, <2>2, <2>3, Zenon
<1>8. \A k \in DOMAIN published' : \E i \in DOMAIN ticks \ pub'.heap : published'[k] = ticks'[i]
  <2>1. ASSUME NEW k \in 1 .. n + 1
        PROVE  \E i \in DOMAIN ticks \ pub.heap : published'[k] = ticks[i]
    <3>1. CASE k \in 1 .. n
      BY <1>5, <1>7, <3>1, Zenon
    <3>2. CASE k = n + 1
      BY <1>1, <1>5, <3>2, Zenon DEF t
    <3> QED
      BY <1>3, <3>1, <3>2, Zenon
  <2> QED
    BY <1>5, <2>1, Zenon
<1>9. \A k \in DOMAIN published', i \in pub'.heap : published'[k].ts <= ticks[i].ts
  BY <1>3, <1>5, Zenon DEF OrderInv, t
<1>10. PublishedInTimeOrder'
  <2>1. ASSUME NEW i \in DOMAIN published', NEW j \in DOMAIN published', i < j
        PROVE  published'[i].ts <= published'[j].ts /\ published'[i] # published'[j]
    <3>1. i \in 1 .. n
      BY <1>3, <1>5, <2>1
    <3>2. CASE j \in 1 .. n
      <4>1. published[i].ts <= published[j].ts /\ published[i] # published[j]
        BY <1>3, <2>1, <3>1, <3>2, Zenon DEF OrderInv, PublishedInTimeOrder
      <4> QED
        BY <1>5, <3>1, <3>2, <4>1, Zenon
    <3>3. CASE j = n + 1
      BY <1>5, <1>7, <3>1, <3>3, Zenon
    <3> QED
      BY <1>3, <1>5, <3>2, <3>3, Zenon
  <2>2. Range(published') \subseteq Range(ticks)'
    <3>1. ASSUME NEW x \in Range(published') PROVE x \in Range(ticks)
      <4>1. PICK k \in DOMAIN published' : x = published'[k]
        BY Zenon DEF Range
      <4> QED
        BY <1>8, <4>1, Zenon DEF Range
    <3> QED
      BY <3>1, Zenon
  <2> QED
    BY <2>1, <2>2, Zenon DEF PublishedInTimeOrder
<1> QED
  BY <1>5, <1>6, <1>8, <1>9, <1>10, Zenon DEF OrderInv

\* A step of a replay, its loading apart.
Onward ==
    \/ StoreOpen /\ UNCHANGED play_vars
    \/ Player \/ Other \/ TimePasses

\* Every step keeps the types and the order of the ticks.
LEMMA OrderStep ==
    ASSUME PlayInv, OrderInv, Onward
    PROVE  PlayInv' /\ OrderInv'
<1>1. CASE Quiet /\ PlayInv'
  <2>1. ticks' = ticks /\ published' = published /\ pub' = pub
    BY <1>1, Zenon DEF Quiet, Still
  <2> QED
    BY <1>1, <2>1, OrderKept, Zenon DEF Holding
<1>2. CASE PlayInv' /\ (Walk \/ Drop)
  <2>1. /\ ticks' = ticks /\ published' = published /\ pub'.heap = pub.heap
        /\ Holding' => Holding /\ pub'.cur = pub.cur
    <3>1. CASE Walk
      BY <3>1, Zenon DEF Walk, Still
    <3>2. CASE Drop
      <4>1. pub'.pc = "merge"
        BY <3>2, Zenon DEF Drop
      <4>2. ~ Holding'
        BY <4>1 DEF Holding
      <4> QED
        BY <3>2, <4>2, Zenon DEF Drop, Still
    <3> QED
      BY <1>2, <3>1, <3>2, Zenon
  <2>2. pub'.pc \notin {"idle", "loaded", "start"}
    <3>1. pub'.pc = "merge" \/ Holding'
      BY <1>2, Zenon DEF Walk, Drop
    <3> QED
      BY <3>1 DEF Holding
  <2> QED
    BY <1>2, <2>1, <2>2, OrderKept, Zenon
<1>3. CASE Pick
  <2>1. PlayInv' /\ pub.pc = "merge"
    BY <1>3, PickStep, Zenon
  <2>2. CASE Take
    BY <2>1, <2>2, OrderTaken, Zenon
  <2>3. CASE Still /\ pub'.pc = "end" /\ pub'.heap = pub.heap
    <3>1. ~ Holding' /\ pub'.pc \notin {"idle", "loaded", "start"}
      BY <2>3 DEF Holding
    <3> QED
      BY <2>1, <2>3, <3>1, OrderKept, Zenon DEF Still
  <2> QED
    BY <1>3, <2>2, <2>3, PickStep, Zenon
<1>4. CASE Publish
  BY <1>4, PublishStep, OrderPublished, Zenon
<1>5. CASE StartRunning \/ StartLoop
  <2>1. PlayInv' /\ published' = published /\ ~ Holding'
    BY <1>5, StartStepReplay, Zenon
  <2>2. pub.pc \in {"idle", "loaded", "start"}
    BY <1>5, Zenon DEF StartRunning, StartLoop, At
  <2> QED
    BY <2>1, <2>2, OrderStarts, Zenon
<1>6. CASE Finish
  <2>1. PlayInv' /\ published' = published /\ ~ Holding' /\ ticks' = ticks
    BY <1>6, StartStepReplay, Zenon
  <2>2. pub' = [pub EXCEPT !.pc = "done"]
    BY <1>6, Zenon DEF Finish, Go
  <2>3. pub'.heap = pub.heap /\ pub'.pc = "done"
    BY <2>2, GoneOn, Zenon
  <2>4. pub'.pc \notin {"idle", "loaded", "start"}
    BY <2>3
  <2> QED
    BY <2>1, <2>3, <2>4, OrderKept, Zenon
<1>7. CASE ClockWait
  BY <1>2, <1>7, ClockWaitStep, Zenon
<1>8. CASE Callback \/ WaitIfPaused \/ WakeUp \/ PublishTest \/ (Notify /\ pub' # pub)
  BY <1>2, <1>8, WalkStep, Zenon
<1>9. CASE \/ StoreOpen /\ UNCHANGED play_vars
           \/ Stop \/ StopMerger \/ Unpause \/ Pause
           \/ \E target \in Times : Seek(target)
           \/ \E multiplier \in Speeds : ChangeSpeed(multiplier)
           \/ TimePasses
           \/ Notify /\ pub' = pub
  BY <1>1, <1>9, QuietStep, Zenon
<1> QED
  BY <1>3, <1>4, <1>5, <1>6, <1>7, <1>8, <1>9, Zenon DEF Onward, Player, Other

------------------------------------------------------------------------------
\* A stop is the only reason for a tick to be missed, apart from a seek.

History == [seeks : SUBSET Times, stopped : {"no", "lost", "emit", "yes"}, late : BOOLEAN,
            slowed : BOOLEAN, early : BOOLEAN]

\* The ticks that were taken are in the callback's hands, published, or before
\* a target of seek.
Taken ==
    \A i \in DOMAIN ticks \ pub.heap :
        \/ Holding /\ i = pub.cur
        \/ ticks[i] \in Range(published)
        \/ \E target \in history.seeks : ticks[i].ts < target

\* Nobody has stopped the replay: the flags hold, and no tick is missed.
SkipInv ==
    /\ seek_target = 0 \/ seek_target \in history.seeks
    /\ caller = "merger" => history.stopped # "no"
    /\ history.stopped = "no" =>
          /\ Holding \/ pub.pc \in {"start", "merge"} => running
          /\ (Holding \/ pub.pc = "merge") /\ ~ engine => merging
          /\ pub.pc \in {"end", "done"} => pub.heap = {}
          /\ Holding \/ pub.pc \in {"merge", "end", "done"} => Taken

\* After a stop the flag stays down.
StopInv ==
    /\ history \in History
    /\ ~ history.late
    /\ history.stopped = "yes" => ~ running /\ pub.pc \notin {"idle", "loaded", "emit"}
    /\ history.stopped = "emit" => ~ running /\ pub.pc = "emit"

\* A step after which the same ticks are left, and no flag has fallen but by a
\* stop.
Kept ==
    /\ history.seeks \subseteq history'.seeks
    /\ seek_target' \in {seek_target, 0} \cup history'.seeks
    /\ caller' = "merger" => caller = "merger" \/ history'.stopped # "no"
    /\ history'.stopped = "no" => /\ history.stopped = "no"
                                  /\ running' = running /\ merging' = merging

\* Such a step misses no tick.
LEMMA SkipKept ==
    ASSUME SkipInv, Quiet \/ Walk, Kept
    PROVE  SkipInv'
<1>1. ticks' = ticks /\ published' = published /\ config' = config /\ pub'.heap = pub.heap
  BY Zenon DEF Quiet, Walk, Still
<1>2. (Holding' <=> Holding) /\ (Holding => pub'.cur = pub.cur) /\ (~ Holding => pub' = pub)
  BY Zenon DEF Quiet, Walk, Holding
<1>3. \A pc \in {"start", "merge", "end", "done"} : pub'.pc = pc => pub.pc = pc \/ Holding
  BY <1>2, Zenon
<1>4. ASSUME Taken PROVE Taken'
  BY <1>1, <1>2, <1>4, Zenon DEF Taken, Kept
<1>5. Holding' => pub'.pc \notin {"start", "merge", "end", "done"}
  BY DEF Holding
<1>6. ASSUME history'.stopped = "no"
      PROVE  /\ Holding' \/ pub'.pc \in {"start", "merge"} => running'
             /\ (Holding' \/ pub'.pc = "merge") /\ ~ engine' => merging'
             /\ pub'.pc \in {"end", "done"} => pub'.heap = {}
             /\ Holding' \/ pub'.pc \in {"merge", "end", "done"} => Taken'
  <2>1. history.stopped = "no" /\ running' = running /\ merging' = merging
    BY <1>6, Zenon DEF Kept
  <2>2. engine' = engine
    BY <1>1, Zenon DEF engine
  <2>3. CASE Holding'
    BY <1>2, <1>4, <1>5, <2>1, <2>2, <2>3, Zenon DEF SkipInv
  <2>4. CASE ~ Holding'
    BY <1>2, <1>4, <2>1, <2>2, <2>4, Zenon DEF SkipInv
  <2> QED
    BY <2>3, <2>4, Zenon
<1>7. seek_target' = 0 \/ seek_target' \in history'.seeks
  BY Zenon DEF SkipInv, Kept
<1>8. caller' = "merger" => history'.stopped # "no"
  BY Zenon DEF SkipInv, Kept
<1> QED
  BY <1>6, <1>7, <1>8, Zenon DEF SkipInv

\* The replay lets go of its tick when it was stopped or seeks a later one.
LEMMA DropReason ==
    ASSUME PlayInv, Callback \/ WaitIfPaused \/ WakeUp \/ PublishTest \/ (Notify /\ pub' # pub), Drop
    PROVE  ~ running \/ ticks[pub.cur].ts < seek_target
<1>1. pub'.pc = "merge"
  BY Zenon DEF Drop
<1>2. ASSUME NEW pc, Go(pc) PROVE pc = "merge"
  BY <1>1, <1>2, GoneOn, Zenon DEF Go
<1>3. CASE Callback
  <2>1. Go(IF engine THEN "clock" ELSE IF ~running \/ ticks[pub.cur].ts < seek_target
           THEN "merge" ELSE "pause")
    BY <1>3, Zenon DEF Callback
  <2>2. (IF engine THEN "clock" ELSE IF ~running \/ ticks[pub.cur].ts < seek_target
           THEN "merge" ELSE "pause") = "merge"
    BY <1>2, <2>1, Zenon
  <2> QED
    BY <2>2
<1>4. CASE WaitIfPaused
  <2>1. Go(IF paused /\ running THEN "waiting" ELSE IF running THEN "clock" ELSE "merge")
    BY <1>4, Zenon DEF WaitIfPaused
  <2>2. (IF paused /\ running THEN "waiting" ELSE IF running THEN "clock" ELSE "merge") = "merge"
    BY <1>2, <2>1, Zenon
  <2> QED
    BY <2>2
<1>5. CASE PublishTest
  <2>1. Go(IF running THEN "emit" ELSE "merge")
    BY <1>5, Zenon DEF PublishTest
  <2>2. (IF running THEN "emit" ELSE "merge") = "merge"
    BY <1>2, <2>1, Zenon
  <2> QED
    BY <2>2
<1>6. CASE WakeUp \/ (Notify /\ pub' # pub)
  <2>1. Go("publish") \/ Go("pause")
    BY <1>6, Zenon DEF WakeUp, Notify
  <2>2. "publish" # "merge" /\ "pause" # "merge"
    OBVIOUS
  <2> QED
    BY <1>2, <2>1, <2>2, Zenon
<1> QED
  BY <1>3, <1>4, <1>5, <1>6, Zenon

\* A tick that is let go of is before a target of seek, if nobody has stopped.
LEMMA SkipWalk ==
    ASSUME PlayInv, SkipInv,
           Callback \/ WaitIfPaused \/ WakeUp \/ PublishTest \/ (Notify /\ pub' # pub)
    PROVE  SkipInv'
<1>1. /\ history' = history /\ UNCHANGED flags /\ (caller' = caller \/ caller' = "no")
  BY Zenon DEF Callback, WaitIfPaused, WakeUp, PublishTest, Notify
<1>2. running' = running /\ seek_target' = seek_target /\ merging' = merging
  BY <1>1, Zenon DEF flags
<1>3. caller' = "merger" => caller = "merger"
  BY <1>1
<1>4. CASE Walk
  BY <1>1, <1>2, <1>3, <1>4, SkipKept, Zenon DEF Kept
<1>5. CASE Drop
  <2>1. /\ ticks' = ticks /\ published' = published /\ config' = config /\ pub'.heap = pub.heap
        /\ pub'.pc = "merge" /\ Holding
    BY <1>5, Zenon DEF Drop, Still
  <2>2. ~ Holding' /\ pub'.pc \notin {"end", "done"}
    BY <2>1 DEF Holding
  <2>3. ~ running \/ ticks[pub.cur].ts < seek_target
    BY <1>5, DropReason, Zenon
  <2>4. ASSUME history.stopped = "no" PROVE running /\ (~ engine => merging) /\ Taken
    BY <2>1, <2>4, Zenon DEF SkipInv
  <2>5. ASSUME history.stopped = "no"
        PROVE  \E target \in history.seeks : ticks[pub.cur].ts < target
    <3>1. ticks[pub.cur].ts < seek_target
      BY <2>3, <2>4, <2>5, Zenon
    <3>2. ticks[pub.cur].ts \in Nat
      BY <2>1, TickInHand, Zenon
    <3>3. ~ (ticks[pub.cur].ts < 0)
      BY <3>2
    <3>4. seek_target # 0
      BY <3>1, <3>3, Zenon
    <3> QED
      BY <3>1, <3>4, Zenon DEF SkipInv
  <2>6. ASSUME history.stopped = "no" PROVE Taken'
    BY <1>1, <2>1, <2>2, <2>4, <2>5, <2>6, Zenon DEF Taken
  <2>7. engine' = engine
    BY <2>1, Zenon DEF engine
  <2> QED
    BY <1>1, <1>2, <1>3, <2>1, <2>2, <2>4, <2>6, <2>7, Zenon DEF SkipInv
<1> QED
  BY <1>4, <1>5, WalkStep, Zenon

\* The merge goes on while there are ticks.
LEMMA SkipPick ==
    ASSUME PlayInv, SkipInv, Pick
    PROVE  SkipInv'
<1>1. /\ pub.pc = "merge" /\ history' = history /\ UNCHANGED flags /\ caller' = caller
  BY Zenon DEF Pick, At
<1>2. running' = running /\ seek_target' = seek_target /\ merging' = merging
  BY <1>1, Zenon DEF flags
<1>3. ~ Holding
  BY <1>1 DEF Holding
<1>4. ASSUME history.stopped = "no" PROVE running /\ (~ engine => merging) /\ Taken
  BY <1>1, <1>4, Zenon DEF SkipInv
<1>5. CASE Take
  <2>1. /\ ticks' = ticks /\ published' = published /\ config' = config /\ pub'.pc = "callback"
        /\ pub'.heap = pub.heap \ {pub'.cur}
    BY <1>5, Zenon DEF Take, Still
  <2>2. Holding' /\ pub'.pc \notin {"end", "done"}
    BY <2>1 DEF Holding
  <2>3. engine' = engine
    BY <2>1, Zenon DEF engine
  <2>4. ASSUME history.stopped = "no" PROVE Taken'
    BY <1>1, <1>3, <1>4, <2>1, <2>2, <2>4, Zenon DEF Taken
  <2> QED
    BY <1>1, <1>2, <1>4, <2>2, <2>3, <2>4, Zenon DEF SkipInv
<1>6. CASE /\ Still /\ pub'.pc = "end" /\ pub'.heap = pub.heap
           /\ pub.heap = {} \/ ~ (IF engine THEN running ELSE merging)
  <2>1. ticks' = ticks /\ published' = published /\ config' = config
    BY <1>6, Zenon DEF Still
  <2>2. ~ Holding' /\ pub'.pc \notin {"start", "merge"}
    BY <1>6 DEF Holding
  <2>3. ASSUME history.stopped = "no" PROVE pub.heap = {}
    BY <1>4, <1>6, <2>3, Zenon
  <2>4. ASSUME history.stopped = "no" PROVE Taken'
    BY <1>1, <1>3, <1>4, <1>6, <2>1, <2>2, <2>4, Zenon DEF Taken
  <2>5. pub'.pc # "merge"
    BY <1>6
  <2> QED
    BY <1>1, <1>2, <1>6, <2>2, <2>3, <2>4, <2>5, Zenon DEF SkipInv
<1> QED
  BY <1>5, <1>6, PickStep, Zenon

\* What a publication writes down.
LEMMA HistoryPublished ==
    ASSUME PlayInv, StopInv, Publish
    PROVE  /\ history' \in History
           /\ history'.seeks = history.seeks /\ history'.slowed = history.slowed
           /\ history'.late = (history.late \/ history.stopped = "yes")
           /\ history'.stopped = IF history.stopped = "emit" THEN "yes" ELSE history.stopped
           /\ history'.early = (history.early \/
                 Now(clock') + Larger(clock'.speed, 1) <= ticks[pub.cur].ts)
<1> DEFINE late == history.late \/ history.stopped = "yes"
           stopped == IF history.stopped = "emit" THEN "yes" ELSE history.stopped
           early == history.early \/ Now(clock') + Larger(clock'.speed, 1) <= ticks[pub.cur].ts
<1>1. history' = [history EXCEPT !.early = early, !.late = late, !.stopped = stopped]
  BY Zenon DEF Publish
<1>2. history \in History
  BY Zenon DEF StopInv
<1>3. late \in BOOLEAN /\ early \in BOOLEAN
  BY <1>2, Zenon DEF History
<1>4. stopped \in {"no", "lost", "emit", "yes"}
  BY <1>2, Zenon DEF History
<1> HIDE DEF late, stopped, early
<1>5. /\ history'.early = early /\ history'.late = late /\ history'.stopped = stopped
      /\ history'.seeks = history.seeks /\ history'.slowed = history.slowed
  BY <1>1, <1>2, Zenon DEF History
<1>6. history' \in History
  BY <1>1, <1>2, <1>3, <1>4, Zenon DEF History
<1> QED
  BY <1>5, <1>6, Zenon DEF late, stopped, early

\* The tick in hand is published.
LEMMA SkipPublish ==
    ASSUME PlayInv, OrderInv, SkipInv, StopInv, Publish
    PROVE  SkipInv'
<1>1. /\ Holding /\ config' = config /\ ticks' = ticks /\ pub'.pc = "merge" /\ pub'.heap = pub.heap
      /\ published' = Append(published, ticks[pub.cur])
  BY PublishStep, Zenon
<1>2. UNCHANGED flags /\ caller' = caller
  BY Zenon DEF Publish
<1>3. running' = running /\ seek_target' = seek_target /\ merging' = merging
  BY <1>2, Zenon DEF flags
<1>4. history'.seeks = history.seeks /\ (history'.stopped = "no" => history.stopped = "no")
  <2>1. /\ history'.seeks = history.seeks
        /\ history'.stopped = IF history.stopped = "emit" THEN "yes" ELSE history.stopped
    BY HistoryPublished, Zenon
  <2>2. "yes" # "no"
    OBVIOUS
  <2> QED
    BY <2>1, <2>2, Zenon
<1>5. ~ Holding' /\ pub'.pc \notin {"end", "done"}
  BY <1>1 DEF Holding
<1>6. engine' = engine
  BY <1>1, Zenon DEF engine
<1>7. Range(published) \subseteq Range(published') /\ ticks[pub.cur] \in Range(published')
  <2>1. published \in Seq(Record) /\ ticks[pub.cur] \in Record
    BY <1>1, TickInHand, Zenon DEF OrderInv
  <2>2. \A q \in Seq(Record), r \in Record :
           /\ \A k \in DOMAIN q : k \in DOMAIN Append(q, r) /\ Append(q, r)[k] = q[k]
           /\ Len(q) + 1 \in DOMAIN Append(q, r) /\ Append(q, r)[Len(q) + 1] = r
    OBVIOUS
  <2>3. /\ \A k \in DOMAIN published : k \in DOMAIN published' /\ published'[k] = published[k]
        /\ \E k \in DOMAIN published' : published'[k] = ticks[pub.cur]
    BY <1>1, <2>1, <2>2, Zenon
  <2> QED
    BY <2>3, Zenon DEF Range
<1>8. ASSUME history'.stopped = "no" PROVE running' /\ (~ engine' => merging') /\ Taken'
  <2>1. history.stopped = "no" /\ running /\ (~ engine => merging) /\ Taken
    BY <1>1, <1>4, <1>8, Zenon DEF SkipInv
  <2>2. Taken'
    BY <1>1, <1>4, <1>5, <1>7, <2>1, Zenon DEF Taken
  <2> QED
    BY <1>3, <1>6, <2>1, <2>2, Zenon
<1> QED
  BY <1>1, <1>2, <1>3, <1>4, <1>5, <1>8, Zenon DEF SkipInv

\* The start, with an empty hand, and the end.
LEMMA SkipStart ==
    ASSUME PlayInv, SkipInv, StartRunning \/ StartLoop \/ Finish
    PROVE  SkipInv'
<1>1. /\ history' = history /\ caller' = caller /\ UNCHANGED store_vars
      /\ ticks' = ticks /\ published' = published
  BY Zenon DEF StartRunning, StartLoop, Finish
<1>2. engine' = engine
  BY <1>1, Zenon DEF store_vars, engine
<1>3. pub \in Thread /\ ticks \in Seq(Record)
  BY Zenon DEF PlayInv, ThreadInv, TicksInv
<1>4. ~ Holding /\ ~ Holding'
  BY StartStepReplay, Zenon
<1>5. DOMAIN <<>> = {}
  OBVIOUS
<1>6. CASE StartRunning
  <2>1. /\ seek_target' = seek_target /\ merging' = merging
        /\ IF engine /\ ticks = <<>>
           THEN pub' = [pub EXCEPT !.pc = "done"] /\ running' = running
           ELSE pub' = [pub EXCEPT !.pc = "start"] /\ running' = TRUE
    BY <1>6, Zenon DEF StartRunning, Go
  <2>2. CASE engine /\ ticks = <<>>
    <3>1. pub'.pc = "done" /\ pub'.heap = pub.heap
      BY <2>1, <2>2, GoneOn, Zenon
    <3>2. pub.heap = {} /\ DOMAIN ticks = {}
      BY <1>3, <1>5, <2>2, Zenon DEF Thread
    <3>3. Taken'
      BY <1>1, <3>2, Zenon DEF Taken
    <3>4. pub'.pc \notin {"start", "merge"} /\ pub'.pc # "merge"
      BY <3>1
    <3> QED
      BY <1>1, <1>4, <2>1, <3>1, <3>2, <3>3, <3>4, Zenon DEF SkipInv
  <2>3. CASE ~ (engine /\ ticks = <<>>)
    <3>1. pub'.pc = "start" /\ running' = TRUE
      BY <2>1, <2>3, GoneOn, Zenon
    <3>2. pub'.pc \notin {"end", "done"} /\ pub'.pc # "merge" /\ pub'.pc \notin {"merge", "end", "done"}
      BY <3>1
    <3> QED
      BY <1>1, <1>4, <2>1, <3>1, <3>2, Zenon DEF SkipInv
  <2> QED
    BY <2>2, <2>3, Zenon
<1>7. CASE StartLoop
  <2>1. /\ pub.pc = "start" /\ running' = running
        /\ pub' = [pub EXCEPT !.pc = IF ticks = <<>> THEN "end" ELSE "merge",
                              !.heap = DOMAIN ticks, !.started = engine]
        /\ IF engine THEN seek_target' = seek_target
           ELSE seek_target' = 0 /\ merging' = (ticks # <<>>)
    BY <1>7, Zenon DEF StartLoop, At
  <2>2. /\ pub'.heap = DOMAIN ticks
        /\ pub'.pc = IF ticks = <<>> THEN "end" ELSE "merge"
    BY <1>3, <2>1, Zenon DEF Thread
  <2>3. Taken'
    BY <1>1, <2>2, Zenon DEF Taken
  <2>4. "end" # "merge" /\ "end" \notin {"start", "merge"} /\ "merge" \notin {"end", "done"}
    OBVIOUS
  <2>5. history.stopped = "no" => running
    BY <2>1, Zenon DEF SkipInv
  <2>6. seek_target' = seek_target \/ seek_target' = 0
    BY <2>1, Zenon
  <2>7. pub'.pc = "merge" /\ ~ engine => merging'
    BY <2>1, <2>2, <2>4, Zenon
  <2>8. pub'.pc \in {"end", "done"} => pub'.heap = {}
    BY <1>5, <2>2, <2>4, Zenon
  <2> QED
    BY <1>1, <1>2, <1>4, <2>1, <2>3, <2>5, <2>6, <2>7, <2>8, Zenon DEF SkipInv
<1>8. CASE Finish
  <2>1. /\ pub.pc = "end" /\ seek_target' = seek_target /\ pub' = [pub EXCEPT !.pc = "done"]
    BY <1>8, Zenon DEF Finish, At, Go
  <2>2. pub'.pc = "done" /\ pub'.heap = pub.heap
    BY <2>1, GoneOn, Zenon
  <2>3. pub'.pc \notin {"start", "merge"} /\ pub'.pc # "merge"
    BY <2>2
  <2>4. history.stopped = "no" => pub.heap = {} /\ Taken
    BY <2>1, Zenon DEF SkipInv
  <2>5. Taken => Taken'
    BY <1>1, <1>4, <2>2, Zenon DEF Taken
  <2> QED
    BY <1>1, <1>4, <2>1, <2>2, <2>3, <2>4, <2>5, Zenon DEF SkipInv
<1> QED
  BY <1>6, <1>7, <1>8, Zenon

\* The calls of the other thread, and time, take no tick away.
LEMMA SkipOther ==
    ASSUME PlayInv, SkipInv, StopInv,
           \/ StoreOpen /\ UNCHANGED play_vars
           \/ Stop \/ StopMerger \/ Unpause \/ Pause
           \/ \E target \in Times : Seek(target)
           \/ \E multiplier \in Speeds : ChangeSpeed(multiplier)
           \/ TimePasses
           \/ Notify /\ pub' = pub
    PROVE  SkipInv'
<1>1. Quiet
  BY QuietStep, Zenon
<1>2. history \in History
  BY Zenon DEF StopInv
<1>3. "no" # "merger" /\ "unpause" # "merger" /\ "notify" # "merger"
  OBVIOUS
<1>4. CASE Stop
  <2>1. PICK x : /\ x = CASE At("loaded") -> "lost" [] At("emit") -> "emit" [] OTHER -> "yes"
                 /\ history' = [history EXCEPT !.stopped = x] /\ seek_target' = seek_target
    BY <1>4, Zenon DEF Stop
  <2>2. history'.stopped = x /\ history'.seeks = history.seeks
    BY <1>2, <2>1, Zenon DEF History
  <2>3. x # "no"
    BY <2>1
  <2> QED
    BY <1>1, <2>1, <2>2, <2>3, SkipKept, Zenon DEF Kept
<1>5. CASE StopMerger
  <2>1. history' = history /\ seek_target' = seek_target /\ caller = "merger" /\ caller' = "unpause"
    BY <1>5, Zenon DEF StopMerger
  <2>2. history.stopped # "no"
    BY <2>1, Zenon DEF SkipInv
  <2> QED
    BY <1>1, <1>3, <2>1, <2>2, SkipKept, Zenon DEF Kept
<1>6. CASE Unpause \/ Pause
  <2>1. /\ history' = history /\ seek_target' = seek_target /\ running' = running
        /\ merging' = merging /\ caller' \in {"no", "notify"}
    BY <1>6, Zenon DEF Unpause, Pause, Call
  <2> QED
    BY <1>1, <1>3, <2>1, SkipKept, Zenon DEF Kept
<1>7. ASSUME NEW target \in Times, Seek(target) PROVE SkipInv'
  <2>1. /\ history' = [history EXCEPT !.seeks = history.seeks \cup {target}]
        /\ seek_target' = target /\ running' = running /\ merging' = merging /\ caller' = "no"
    BY <1>7, Zenon DEF Seek, Call
  <2>2. history'.stopped = history.stopped /\ history'.seeks = history.seeks \cup {target}
    BY <1>2, <2>1, Zenon DEF History
  <2> QED
    BY <1>1, <1>3, <2>1, <2>2, SkipKept, Zenon DEF Kept
<1>8. ASSUME NEW m \in Speeds, ChangeSpeed(m) PROVE SkipInv'
  <2>1. /\ \E x : history' = [history EXCEPT !.slowed = x]
        /\ UNCHANGED flags /\ caller' = "no"
    BY <1>8, Zenon DEF ChangeSpeed, Call
  <2>2. history'.stopped = history.stopped /\ history'.seeks = history.seeks
    BY <1>2, <2>1, Zenon DEF History
  <2> QED
    BY <1>1, <1>3, <2>1, <2>2, SkipKept, Zenon DEF Kept, flags
<1>9. CASE TimePasses \/ (StoreOpen /\ UNCHANGED play_vars) \/ (Notify /\ pub' = pub)
  <2>1. history' = history /\ UNCHANGED flags /\ caller' \in {caller, "no"}
    BY <1>9, Zenon DEF TimePasses, play_vars, Notify
  <2> QED
    BY <1>1, <1>3, <2>1, SkipKept, Zenon DEF Kept, flags
<1> QED
  BY <1>4, <1>5, <1>6, <1>7, <1>8, <1>9, Zenon

\* A step that does not raise the flag, nor gets a stopped replay to the callback.
LEMMA StopKept ==
    ASSUME StopInv, history' \in History,
           history'.stopped = history.stopped, history'.late = history.late,
           running' => running,
           pub'.pc \in {"idle", "loaded", "emit"} => pub'.pc = pub.pc \/ running,
           pub.pc = "emit" => pub'.pc = "emit"
    PROVE  StopInv'
BY Zenon DEF StopInv

\* A stop that comes before start is lost.
LEMMA StopEarly ==
    ASSUME StopInv, pub.pc \in {"idle", "loaded"}, history' = history
    PROVE  StopInv'
<1>1. pub.pc # "emit"
  OBVIOUS
<1>2. history.stopped # "yes" /\ history.stopped # "emit"
  BY <1>1, Zenon DEF StopInv
<1> QED
  BY <1>2, Zenon DEF StopInv

\* The publishing thread before the callback of a tick.
LEMMA StopWalk ==
    ASSUME PlayInv, StopInv,
           Callback \/ WaitIfPaused \/ WakeUp \/ PublishTest \/ Notify \/ Pick \/ ClockWait
    PROVE  StopInv'
<1>1. history' = history /\ running' = running /\ history \in History
  BY Zenon DEF Callback, WaitIfPaused, WakeUp, PublishTest, Notify, Pick, ClockWait, flags, StopInv
<1>2. CASE pub' = pub
  BY <1>1, <1>2, StopKept, Zenon
<1>3. ASSUME pub.pc # "emit", NEW pc, Go(pc), pc \notin {"idle", "loaded", "emit"} \/ running
      PROVE  StopInv'
  <2>1. pub'.pc = pc
    BY <1>3, GoneOn, Zenon DEF Go
  <2> QED
    BY <1>1, <1>3, <2>1, StopKept, Zenon
<1>4. CASE Callback
  <2>1. pub.pc = "callback" /\ \E pc \in {"clock", "merge", "pause"} : Go(pc)
    BY <1>4, Zenon DEF Callback, At
  <2>2. pub.pc # "emit" /\ \A pc \in {"clock", "merge", "pause"} : pc \notin {"idle", "loaded", "emit"}
    BY <2>1
  <2> QED
    BY <1>3, <2>1, <2>2, Zenon
<1>5. CASE WaitIfPaused
  <2>1. pub.pc = "pause" /\ \E pc \in {"waiting", "clock", "merge"} : Go(pc)
    BY <1>5, Zenon DEF WaitIfPaused, At
  <2>2. pub.pc # "emit" /\ \A pc \in {"waiting", "clock", "merge"} : pc \notin {"idle", "loaded", "emit"}
    BY <2>1
  <2> QED
    BY <1>3, <2>1, <2>2, Zenon
<1>6. CASE PublishTest
  <2>1. pub.pc = "publish" /\ ((Go("emit") /\ running) \/ Go("merge"))
    BY <1>6, Zenon DEF PublishTest, At
  <2>2. pub.pc # "emit" /\ "merge" \notin {"idle", "loaded", "emit"}
    BY <2>1
  <2> QED
    BY <1>3, <2>1, <2>2, Zenon
<1>7. CASE WakeUp \/ (Notify /\ pub' # pub)
  <2>1. pub.pc \in {"sleep", "waiting"} /\ \E pc \in {"publish", "pause"} : Go(pc)
    BY <1>7, Zenon DEF WakeUp, Notify, At
  <2>2. pub.pc # "emit" /\ \A pc \in {"publish", "pause"} : pc \notin {"idle", "loaded", "emit"}
    BY <2>1
  <2> QED
    BY <1>3, <2>1, <2>2, Zenon
<1>8. CASE Pick
  <2>1. pub.pc = "merge" /\ pub'.pc \in {"callback", "end"}
    BY <1>8, PickStep, Zenon DEF Take
  <2>2. pub.pc # "emit" /\ pub'.pc \notin {"idle", "loaded", "emit"}
    BY <2>1
  <2> QED
    BY <1>1, <2>2, StopKept, Zenon
<1>9. CASE ClockWait
  <2>1. pub.pc = "clock" /\ pub'.pc \in {"publish", "sleep"}
    BY <1>9, ClockWaitStep, Zenon DEF ClockWait, At
  <2>2. pub.pc # "emit" /\ pub'.pc \notin {"idle", "loaded", "emit"}
    BY <2>1
  <2> QED
    BY <1>1, <2>2, StopKept, Zenon
<1> QED
  BY <1>2, <1>4, <1>5, <1>6, <1>7, <1>8, <1>9, Zenon

\* A stop and the steps that follow it.
LEMMA StopStepReplay ==
    ASSUME PlayInv, StopInv, Onward
    PROVE  StopInv'
<1>1. history \in History /\ history.late \in BOOLEAN
  BY Zenon DEF StopInv, History
<1>2. CASE Stop
  <2>1. PICK x : /\ x = CASE At("loaded") -> "lost" [] At("emit") -> "emit" [] OTHER -> "yes"
                 /\ history' = [history EXCEPT !.stopped = x]
                 /\ running' = FALSE /\ pub' = pub /\ pub.pc \notin {"idle", "done"}
    BY <1>2, Zenon DEF Stop, Call
  <2>2. history'.stopped = x /\ history'.late = history.late
    BY <1>1, <2>1, Zenon DEF History
  <2>3. /\ x \in {"no", "lost", "emit", "yes"}
        /\ x = "yes" => pub.pc \notin {"idle", "loaded", "emit"}
        /\ x = "emit" => pub.pc = "emit"
    BY <2>1 DEF At
  <2>4. history' \in History
    BY <1>1, <2>1, <2>3, Zenon DEF History
  <2> QED
    BY <2>1, <2>2, <2>3, <2>4, Zenon DEF StopInv
<1>3. CASE StopMerger \/ Unpause \/ Pause \/ TimePasses \/ (StoreOpen /\ UNCHANGED play_vars)
  <2>1. history' = history /\ running' = running /\ pub' = pub
    BY <1>3, Zenon DEF StopMerger, Unpause, Pause, TimePasses, play_vars, flags
  <2> QED
    BY <1>1, <2>1, StopKept, Zenon
<1>4. ASSUME NEW target \in Times, Seek(target) PROVE StopInv'
  <2>1. PICK x \in SUBSET Times : history' = [history EXCEPT !.seeks = x]
    <3>1. history.seeks \cup {target} \in SUBSET Times
      BY <1>1, Zenon DEF History
    <3> QED
      BY <1>4, <3>1, Zenon DEF Seek
  <2>2. running' = running /\ pub' = pub
    BY <1>4, Zenon DEF Seek
  <2>3. history' \in History /\ history'.stopped = history.stopped /\ history'.late = history.late
    BY <1>1, <2>1, Zenon DEF History
  <2> QED
    BY <2>2, <2>3, StopKept, Zenon
<1>5. ASSUME NEW m \in Speeds, ChangeSpeed(m) PROVE StopInv'
  <2>1. PICK x \in BOOLEAN : history' = [history EXCEPT !.slowed = x]
    <3>1. (history.slowed \/ pub.pc \in {"sleep", "publish", "emit"}) \in BOOLEAN
      BY Zenon
    <3> QED
      BY <1>5, <3>1, Zenon DEF ChangeSpeed
  <2>2. running' = running /\ pub' = pub
    BY <1>5, Zenon DEF ChangeSpeed, flags
  <2>3. history' \in History /\ history'.stopped = history.stopped /\ history'.late = history.late
    BY <1>1, <2>1, Zenon DEF History
  <2> QED
    BY <2>2, <2>3, StopKept, Zenon
<1>6. CASE StartRunning
  <2>1. history' = history /\ pub.pc \in {"idle", "loaded"}
    BY <1>6, Zenon DEF StartRunning, At
  <2> QED
    BY <2>1, StopEarly, Zenon
<1>7. ASSUME pub.pc \in {"start", "end"}, pub'.pc \in {"end", "merge", "done"},
             history' = history, running' => running
      PROVE  StopInv'
  <2>1. pub.pc # "emit" /\ pub'.pc \notin {"idle", "loaded", "emit"}
    BY <1>7
  <2> QED
    BY <1>1, <1>7, <2>1, StopKept, Zenon
<1>9. CASE StartLoop
  <2>1. /\ history' = history /\ running' = running /\ pub.pc = "start"
        /\ pub' = [pub EXCEPT !.pc = IF ticks = <<>> THEN "end" ELSE "merge",
                              !.heap = DOMAIN ticks, !.started = engine]
    BY <1>9, Zenon DEF StartLoop, At
  <2>2. pub'.pc = IF ticks = <<>> THEN "end" ELSE "merge"
    BY <2>1, Zenon DEF PlayInv, ThreadInv, Thread
  <2> QED
    BY <1>7, <2>1, <2>2, Zenon
<1>10. CASE Finish
  <2>1. history' = history /\ running' = FALSE /\ pub.pc = "end" /\ pub' = [pub EXCEPT !.pc = "done"]
    BY <1>10, Zenon DEF Finish, At, Go
  <2>2. pub'.pc = "done"
    BY <2>1, GoneOn, Zenon
  <2> QED
    BY <1>7, <2>1, <2>2, Zenon
<1>8. CASE Publish
  <2>1. pub.pc = "emit" /\ pub'.pc = "merge" /\ running' = running
    BY <1>8, PublishStep, Zenon DEF Publish, flags
  <2>2. history.stopped # "yes"
    BY <2>1, Zenon DEF StopInv
  <2>3. /\ history' \in History /\ ~ history'.late
        /\ history'.stopped = IF history.stopped = "emit" THEN "yes" ELSE history.stopped
    BY <1>8, <2>2, HistoryPublished, Zenon DEF StopInv
  <2>4. history'.stopped = "yes" => history.stopped = "emit"
    BY <2>2, <2>3, Zenon
  <2>5. history'.stopped # "emit" /\ pub'.pc \notin {"idle", "loaded", "emit"}
    BY <2>1, <2>3
  <2> QED
    BY <2>1, <2>3, <2>4, <2>5, Zenon DEF StopInv
<1> QED
  BY <1>2, <1>3, <1>4, <1>5, <1>6, <1>8, <1>9, <1>10, StopWalk, Zenon DEF Onward, Player, Other

\* Every step keeps the ticks, misses none, and keeps quiet after a stop.
LEMMA SkipStep ==
    ASSUME PlayInv, OrderInv, SkipInv, StopInv, Onward
    PROVE  SkipInv' /\ StopInv'
<1>1. CASE ClockWait
  <2>1. Walk
    BY <1>1, ClockWaitStep, Zenon
  <2>2. history' = history /\ UNCHANGED flags /\ caller' = caller
    BY <1>1, Zenon DEF ClockWait
  <2>3. SkipInv'
    BY <2>1, <2>2, SkipKept, Zenon DEF Kept, flags
  <2> QED
    BY <2>3, StopStepReplay, Zenon
<1>2. CASE Callback \/ WaitIfPaused \/ WakeUp \/ PublishTest \/ (Notify /\ pub' # pub)
  BY <1>2, SkipWalk, StopStepReplay, Zenon
<1>3. CASE \/ StoreOpen /\ UNCHANGED play_vars
           \/ Stop \/ StopMerger \/ Unpause \/ Pause
           \/ \E target \in Times : Seek(target)
           \/ \E multiplier \in Speeds : ChangeSpeed(multiplier)
           \/ TimePasses
           \/ Notify /\ pub' = pub
  BY <1>3, SkipOther, StopStepReplay, Zenon
<1>4. CASE StartRunning \/ StartLoop \/ Finish
  BY <1>4, SkipStart, StopStepReplay, Zenon
<1> QED
  BY <1>1, <1>2, <1>3, <1>4, SkipPick, SkipPublish, StopStepReplay, Zenon DEF Onward, Player, Other

------------------------------------------------------------------------------
\* A tick is published when virtual time is there.

\* The clock was anchored at a time of the recording or after one.
Anchored(c) ==
    /\ c.elapsed <= MaxElapsed
    /\ c.running => \E t \in Times : t <= c.origin /\ t <= c.manual

\* The sleep ends when virtual time is there, up to one unit of real time.
OnSchedule(c, pc, ts) ==
    /\ pc = "sleep" => /\ c.speed > 0
                       /\ c.sleep > 0 => Now(c) + c.sleep * c.speed <= ts
                       /\ ts < Now(c) + (c.sleep + 1) * c.speed
    /\ pc \in {"publish", "emit"} /\ c.speed > 0 => ts < Now(c) + c.speed

TimeInv ==
    /\ Anchored(clock)
    /\ ~ history.slowed =>
          ~ history.early /\ OnSchedule(clock, pub.pc, ticks[pub.cur].ts)

\* A clock that runs at a speed.
LEMMA ClockRuns ==
    ASSUME NEW c \in Clock, c.running, c.speed > 0
    PROVE  Now(c) = c.origin + c.elapsed * c.speed
<1>1. c.speed \in Nat
  BY ClockShows, Zenon
<1>2. c.speed # 0
  BY <1>1
<1> QED
  BY <1>2, Zenon DEF Now

\* Virtual time is not before a time of the recording.
LEMMA NowAnchored ==
    ASSUME NEW c \in Clock, c.running, Anchored(c)
    PROVE  \E t \in Times : t <= Now(c)
<1>1. PICK t \in Times : t <= c.origin /\ t <= c.manual
  BY Zenon DEF Anchored
<1>2. t \in Nat /\ c.speed \in Nat /\ c.origin \in Nat /\ c.elapsed \in Nat
  BY ClockShows, FileAssumption, Zenon
<1>3. \A a, o, e, s \in Nat : a <= o => a <= o + e * s
  <2>1. \A e, s \in Nat : e * s \in Nat
    OBVIOUS
  <2>2. \A a, o, p \in Nat : a <= o => a <= o + p
    OBVIOUS
  <2> QED
    BY <2>1, <2>2, Zenon
<1>4. t <= Now(c)
  BY <1>1, <1>2, <1>3, Zenon DEF Now
<1> QED
  BY <1>4, Zenon

\* Time passes for a clock: a sleep does not outlast the time that is told
\* apart, since no recording does.
LEMMA TimeGoesOn ==
    ASSUME NEW c \in Clock, c.running, Anchored(c), NEW pc, NEW ts \in Times,
           OnSchedule(c, pc, ts), NEW d \in Clock, d.running, d.speed = c.speed, d.origin = c.origin,
           d.elapsed = Smaller(c.elapsed + 1, MaxElapsed), d.sleep = Larger(c.sleep - 1, 0),
           (c.speed > 0 /\ c.elapsed < MaxElapsed) \/ c.sleep > 0
    PROVE  OnSchedule(d, pc, ts)
<1> DEFINE s == c.speed
           o == c.origin
           e == c.elapsed
<1>1. /\ s \in Nat /\ o \in Nat /\ e \in Nat /\ c.sleep \in Nat /\ ts \in Nat
      /\ MaxElapsed \in Nat /\ e <= MaxElapsed
  BY ClockShows, FileAssumption, ClockAssumption, Zenon DEF Anchored
<1>2. ASSUME s > 0 PROVE Now(c) = o + e * s /\ Now(d) = o + d.elapsed * s
  BY <1>2, ClockRuns, Zenon
<1>3. \A a, b, x \in Nat : a <= b => a * x <= b * x
  <2>1. SUFFICES ASSUME NEW a \in Nat, NEW b \in Nat, NEW x \in Nat, a <= b PROVE a * x <= b * x
    OBVIOUS
  <2>2. PICK k \in Nat : b = a + k
    BY <2>1
  <2>3. b * x = a * x + k * x /\ k * x \in Nat /\ a * x \in Nat
    BY <2>2
  <2> QED
    BY <2>3
<1>4. d.elapsed \in Nat /\ e <= d.elapsed /\ (e < MaxElapsed => d.elapsed = e + 1)
      /\ (~ (e < MaxElapsed) => e = MaxElapsed /\ d.elapsed = e)
  BY <1>1 DEF Smaller
<1>5. /\ c.sleep > 0 => d.sleep = c.sleep - 1
      /\ ~ (c.sleep > 0) => c.sleep = 0 /\ d.sleep = 0
  BY <1>1 DEF Larger
<1>6. e * s \in Nat /\ d.elapsed * s \in Nat /\ e * s <= d.elapsed * s
      /\ (d.elapsed = e + 1 => d.elapsed * s = e * s + s)
  <2>1. e * s \in Nat /\ d.elapsed * s \in Nat /\ (e + 1) * s = e * s + s
    BY <1>1, <1>4
  <2> QED
    BY <1>1, <1>3, <1>4, <2>1, Zenon
<1>7. ASSUME pc = "sleep"
      PROVE  /\ s > 0 /\ (d.sleep > 0 => Now(d) + d.sleep * s <= ts)
             /\ ts < Now(d) + (d.sleep + 1) * s
  <2>1. /\ s > 0 /\ (c.sleep > 0 => Now(c) + c.sleep * s <= ts)
        /\ ts < Now(c) + (c.sleep + 1) * s
    BY <1>7, Zenon DEF OnSchedule
  <2>2. c.sleep * s \in Nat /\ (c.sleep + 1) * s = c.sleep * s + s
        /\ (c.sleep > 0 => c.sleep * s >= s /\ (c.sleep - 1) * s = c.sleep * s - s
                           /\ ((c.sleep - 1) + 1) * s = c.sleep * s)
    <3>1. c.sleep * s \in Nat /\ (c.sleep + 1) * s = c.sleep * s + s
          /\ (c.sleep - 1) * s = c.sleep * s - s /\ ((c.sleep - 1) + 1) * s = c.sleep * s
      BY <1>1
    <3>2. ASSUME c.sleep > 0 PROVE c.sleep * s >= s
      <4>1. c.sleep - 1 \in Nat
        BY <1>1, <3>2
      <4>2. (c.sleep - 1) * s \in Nat
        BY <1>1, <4>1
      <4> QED
        BY <1>1, <3>1, <4>2
    <3> QED
      BY <3>1, <3>2, Zenon
  <2>3. CASE e < MaxElapsed
    <3>1. Now(d) = Now(c) + s /\ Now(c) \in Nat
      BY <1>2, <1>4, <1>6, <2>1, <2>3, <1>1
    <3>2. CASE c.sleep > 0
      <4>1. d.sleep = c.sleep - 1
        BY <1>5, <3>2, Zenon
      <4>2. /\ d.sleep * s = c.sleep * s - s /\ (d.sleep + 1) * s = c.sleep * s
        BY <2>2, <3>2, <4>1, Zenon
      <4> QED
        BY <1>1, <2>1, <2>2, <3>1, <3>2, <4>2
    <3>3. CASE ~ (c.sleep > 0)
      <4>1. d.sleep = 0 /\ c.sleep = 0
        BY <1>5, <3>3, Zenon
      <4>2. (0 + 1) * s = s /\ ~ (0 > 0)
        BY <1>1
      <4>3. ts < Now(c) + s
        BY <2>1, <4>1, <4>2, Zenon
      <4>4. ts < Now(d) + s
        BY <1>1, <3>1, <4>3
      <4> QED
        BY <2>1, <4>1, <4>2, <4>4, Zenon
    <3> QED
      BY <3>2, <3>3, Zenon
  <2>4. CASE ~ (e < MaxElapsed)
    <3>1. c.sleep > 0
      BY <2>4, Zenon
    <3>2. PICK t \in Times : t <= o
      BY Zenon DEF Anchored
    <3>3. t \in Nat /\ ts - t <= MaxElapsed /\ e = MaxElapsed
      BY <1>4, <2>4, FileAssumption, ClockAssumption, Zenon
    <3>4. e * s >= e
      <4>1. s - 1 \in Nat /\ s = (s - 1) + 1
        BY <1>1, <2>1
      <4>2. e * (s - 1) \in Nat /\ e * s = e * (s - 1) + e
        BY <1>1, <4>1
      <4> QED
        BY <1>1, <4>2
    <3>5. Now(c) >= ts /\ Now(c) \in Nat
      BY <1>1, <1>2, <1>6, <2>1, <3>2, <3>3, <3>4
    <3> QED
      BY <1>1, <2>1, <2>2, <3>1, <3>5
  <2> QED
    BY <2>3, <2>4, Zenon
<1>8. ASSUME pc \in {"publish", "emit"}, s > 0 PROVE ts < Now(d) + s
  <2>1. ts < Now(c) + s
    BY <1>8, Zenon DEF OnSchedule
  <2> QED
    BY <1>1, <1>2, <1>6, <1>8, <2>1
<1> QED
  BY <1>7, <1>8, Zenon DEF OnSchedule

\* A schedule is kept from the sleep to the callback only.
LEMMA NoSchedule ==
    ASSUME NEW c, NEW pc, pc \notin {"sleep", "publish", "emit"}, NEW ts
    PROVE  OnSchedule(c, pc, ts)
<1>1. pc # "sleep" /\ pc \notin {"publish", "emit"}
  OBVIOUS
<1> QED
  BY <1>1, Zenon DEF OnSchedule

\* A step that changes neither the clock nor what is written down.
LEMMA TimeKept ==
    ASSUME TimeInv, clock' = clock, history'.slowed = history.slowed, history'.early = history.early,
           pub'.pc \in {"sleep", "publish", "emit"} =>
               \A ts : ts = ticks[pub.cur].ts /\ OnSchedule(clock, pub.pc, ts) =>
                   ticks'[pub'.cur].ts = ts /\ OnSchedule(clock, pub'.pc, ts)
    PROVE  TimeInv'
<1>1. ASSUME OnSchedule(clock, pub.pc, ticks[pub.cur].ts)
      PROVE  OnSchedule(clock, pub'.pc, ticks'[pub'.cur].ts)
  <2>1. CASE pub'.pc \in {"sleep", "publish", "emit"}
    BY <1>1, <2>1, Zenon
  <2>2. CASE pub'.pc \notin {"sleep", "publish", "emit"}
    BY <2>2, NoSchedule, Zenon
  <2> QED
    BY <2>1, <2>2, Zenon
<1> QED
  BY <1>1, Zenon DEF TimeInv

\* The end of a sleep, and the test of the flag after it.
LEMMA TimeWalk ==
    ASSUME PlayInv, TimeInv, Callback \/ WaitIfPaused \/ WakeUp \/ PublishTest \/ Notify \/ Pick
    PROVE  TimeInv'
<1>1. history' = history /\ clock' = clock /\ ticks' = ticks
  BY Zenon DEF Callback, WaitIfPaused, WakeUp, PublishTest, Notify, Pick
<1>2. CASE pub' = pub
  BY <1>1, <1>2, TimeKept, Zenon
<1>3. ASSUME pub'.pc \notin {"sleep", "publish", "emit"} PROVE TimeInv'
  BY <1>1, <1>3, TimeKept, Zenon
<1>4. ASSUME NEW pc, Go(pc) PROVE pub'.pc = pc /\ pub'.cur = pub.cur
  BY <1>4, GoneOn, Zenon DEF Go
<1>5. CASE Callback
  <2>1. \E pc \in {"clock", "merge", "pause"} : Go(pc)
    BY <1>5, Zenon DEF Callback
  <2>2. pub'.pc \in {"clock", "merge", "pause"}
    BY <1>4, <2>1, Zenon
  <2> QED
    BY <1>3, <2>2
<1>6. CASE WaitIfPaused
  <2>1. \E pc \in {"waiting", "clock", "merge"} : Go(pc)
    BY <1>6, Zenon DEF WaitIfPaused
  <2>2. pub'.pc \in {"waiting", "clock", "merge"}
    BY <1>4, <2>1, Zenon
  <2> QED
    BY <1>3, <2>2
<1>7. CASE Notify /\ pub' # pub
  <2>1. pub'.pc = "pause"
    BY <1>4, <1>7, Zenon DEF Notify
  <2> QED
    BY <1>3, <2>1
<1>8. CASE Pick
  <2>1. pub'.pc \in {"callback", "end"}
    BY <1>8, PickStep, Zenon DEF Take
  <2> QED
    BY <1>3, <2>1
<1>9. CASE PublishTest
  <2>1. pub.pc = "publish" /\ (Go("emit") \/ Go("merge"))
    BY <1>9, Zenon DEF PublishTest, At
  <2>2. CASE Go("merge")
    <3>1. pub'.pc = "merge"
      BY <1>4, <2>2, Zenon
    <3> QED
      BY <1>3, <3>1
  <2>3. CASE Go("emit")
    <3>1. pub'.pc = "emit" /\ pub'.cur = pub.cur
      BY <1>4, <2>3, Zenon
    <3>2. "publish" \in {"publish", "emit"} /\ "emit" # "sleep"
      OBVIOUS
    <3>3. ASSUME NEW ts, OnSchedule(clock, "publish", ts) PROVE OnSchedule(clock, "emit", ts)
      BY <3>2, <3>3, Zenon DEF OnSchedule
    <3> QED
      BY <1>1, <2>1, <3>1, <3>3, TimeKept, Zenon
  <2> QED
    BY <2>1, <2>2, <2>3, Zenon
<1>10. CASE WakeUp
  <2>1. pub.pc = "sleep" /\ (clock.sleep = 0 \/ Now(clock) >= ticks[pub.cur].ts) /\ Go("publish")
    BY <1>10, Zenon DEF WakeUp, At
  <2>2. pub'.pc = "publish" /\ pub'.cur = pub.cur
    BY <1>4, <2>1, Zenon
  <2>3. Now(clock) \in Nat /\ clock.speed \in Nat /\ clock.sleep \in Nat
    BY ClockShows, Zenon DEF PlayInv, ClockInv
  <2>4. ticks[pub.cur].ts \in Nat
    <3>1. Holding
      BY <2>1 DEF Holding
    <3> QED
      BY <3>1, TickInHand, Zenon
  <2>5. "publish" # "sleep"
    OBVIOUS
  <2>6. ASSUME NEW ts, ts = ticks[pub.cur].ts, OnSchedule(clock, "sleep", ts)
        PROVE  OnSchedule(clock, "publish", ts)
    <3>1. clock.speed > 0 /\ ts < Now(clock) + (clock.sleep + 1) * clock.speed
      BY <2>6, Zenon DEF OnSchedule
    <3>2. ts < Now(clock) + clock.speed
      <4>1. CASE clock.sleep = 0
        <5>1. (0 + 1) * clock.speed = clock.speed
          BY <2>3
        <5> QED
          BY <3>1, <4>1, <5>1, Zenon
      <4>2. CASE Now(clock) >= ts
        BY <2>3, <2>4, <2>6, <3>1, <4>2
      <4> QED
        BY <2>1, <2>6, <4>1, <4>2, Zenon
    <3> QED
      BY <2>5, <3>2, Zenon DEF OnSchedule
  <2> QED
    BY <1>1, <2>1, <2>2, <2>6, TimeKept, Zenon
<1> QED
  BY <1>2, <1>5, <1>6, <1>7, <1>8, <1>9, <1>10, Zenon

\* wait_until sleeps until virtual time is there, up to the rounding.
LEMMA SleepsLongEnough ==
    ASSUME NEW c \in Clock, NEW ts \in Nat, NEW d, d.speed = c.speed, Now(d) = Now(c),
           d.sleep = SleepFor(c, ts)
    PROVE  OnSchedule(d, IF SleepFor(c, ts) = 0 THEN "publish" ELSE "sleep", ts)
<1> DEFINE k == SleepFor(c, ts)
           now == Now(c)
           s == c.speed
<1>1. now \in Nat /\ s \in Nat /\ k \in Nat
  BY ClockShows, SleepTime, Zenon
<1>2. \A a, b \in Nat : b > 0 => (a \div b) * b <= a /\ a < (a \div b) * b + b /\ a \div b \in Nat
  OBVIOUS
<1>3. k = IF s = 0 \/ now >= ts THEN 0 ELSE (ts - now) \div s
  BY Zenon DEF SleepFor
<1> HIDE DEF k, now, s
<1>4. ASSUME s > 0, ~ (now >= ts)
      PROVE  k * s <= ts - now /\ ts - now < k * s + s
  <2>1. ts - now \in Nat /\ s # 0
    BY <1>1, <1>4
  <2>2. k = (ts - now) \div s
    BY <1>3, <1>4, <2>1, Zenon
  <2> QED
    BY <1>1, <1>2, <1>4, <2>1, <2>2, Zenon
<1>5. CASE k = 0
  <2>1. ASSUME s > 0 PROVE ts < now + s
    <3>1. CASE now >= ts
      BY <1>1, <2>1, <3>1
    <3>2. CASE ~ (now >= ts)
      <4>1. ts - now < 0 * s + s
        BY <1>4, <1>5, <2>1, <3>2, Zenon
      <4> QED
        BY <1>1, <4>1
    <3> QED
      BY <3>1, <3>2, Zenon
  <2>2. "publish" # "sleep"
    OBVIOUS
  <2> QED
    BY <1>5, <2>1, <2>2, Zenon DEF OnSchedule, k, now, s
<1>6. CASE k # 0
  <2>1. s > 0 /\ ~ (now >= ts)
    <3>1. s # 0 /\ ~ (now >= ts)
      BY <1>3, <1>6, Zenon
    <3> QED
      BY <1>1, <3>1
  <2>2. now + k * s <= ts /\ ts < now + (k + 1) * s
    <3>1. k * s \in Nat /\ (k + 1) * s = k * s + s
      BY <1>1
    <3>2. k * s <= ts - now /\ ts - now < k * s + s
      BY <1>4, <2>1, Zenon
    <3> QED
      BY <1>1, <3>1, <3>2
  <2>3. "sleep" \notin {"publish", "emit"}
    OBVIOUS
  <2> QED
    BY <1>6, <2>1, <2>2, <2>3, Zenon DEF OnSchedule, k, now, s
<1> QED
  BY <1>5, <1>6, Zenon

\* wait_until sleeps until the time of the tick.
LEMMA TimeWait ==
    ASSUME PlayInv, TimeInv, ClockWait
    PROVE  TimeInv'
<1> DEFINE c == WaitClock
           ts == ticks[pub.cur].ts
<1>1. /\ c \in Clock /\ c.running /\ clock' = [c EXCEPT !.sleep = SleepFor(c, ts)]
      /\ pub'.pc = (IF SleepFor(c, ts) = 0 THEN "publish" ELSE "sleep")
      /\ Walk
  BY ClockWaitStep, Zenon
<1>2. ticks' = ticks /\ pub'.cur = pub.cur /\ history' = history /\ Holding
  BY <1>1, Zenon DEF Walk, Still, ClockWait
<1>3. ts \in Times /\ ts \in Nat
  BY <1>2, TickInHand, Zenon
<1>4. clock \in Clock /\ Anchored(clock)
  BY Zenon DEF PlayInv, ClockInv, TimeInv
<1>5. Anchored(c)
  <2>1. CASE pub.started
    BY <1>4, <2>1, Zenon DEF WaitClock
  <2>2. CASE ~ pub.started
    <3>1. c = StartClock(clock, ts)
      BY <2>2, Zenon DEF WaitClock
    <3>2. c.elapsed = 0 /\ c.origin = ts /\ c.manual = ts
      BY <1>3, <1>4, <3>1, ClockStarts, Zenon
    <3>3. ts <= ts /\ 0 <= MaxElapsed
      BY <1>3, ClockAssumption
    <3> QED
      BY <1>3, <3>2, <3>3, Zenon DEF Anchored
  <2> QED
    BY <2>1, <2>2, Zenon
<1> HIDE DEF c, ts
<1>6. /\ clock'.speed = c.speed /\ clock'.elapsed = c.elapsed /\ clock'.origin = c.origin
      /\ clock'.manual = c.manual /\ clock'.running = c.running /\ clock'.sleep = SleepFor(c, ts)
  BY <1>1, Zenon DEF Clock
<1>7. Now(clock') = Now(c)
  BY <1>6, Zenon DEF Now
<1>8. OnSchedule(clock', pub'.pc, ts)
  BY <1>1, <1>3, <1>6, <1>7, SleepsLongEnough, Zenon
<1>9. Anchored(clock')
  BY <1>5, <1>6, Zenon DEF Anchored
<1> QED
  BY <1>2, <1>8, <1>9, Zenon DEF TimeInv, ts

\* The engine starts its clock at the earliest tick.
LEMMA TimeStart ==
    ASSUME PlayInv, TimeInv, StartRunning \/ StartLoop \/ Finish
    PROVE  TimeInv'
<1>1. history' = history /\ ticks' = ticks
  BY Zenon DEF StartRunning, StartLoop, Finish
<1>2. pub'.pc \notin {"sleep", "publish", "emit"}
  <2>1. ~ Holding'
    BY StartStepReplay, Zenon
  <2> QED
    BY <2>1 DEF Holding
<1>3. CASE clock' = clock
  BY <1>1, <1>2, <1>3, TimeKept, Zenon
<1>4. CASE clock' # clock
  <2>1. pub.pc = "start" /\ engine /\ clock' = StartClock(clock, MinTs(DOMAIN ticks))
    BY <1>4, Zenon DEF StartRunning, StartLoop, Finish, At
  <2>2. DOMAIN ticks # {}
    <3>1. ticks # <<>> /\ ticks \in Seq(Record)
      BY <2>1, Zenon DEF PlayInv, ThreadInv, TicksInv
    <3>2. \A q \in Seq(Record) : q # <<>> => 1 \in DOMAIN q
      OBVIOUS
    <3> QED
      BY <3>1, <3>2, Zenon
  <2>3. MinTs(DOMAIN ticks) \in Nat /\ MinTs(DOMAIN ticks) \in Times
    BY <2>2, EarliestTick, Zenon
  <2>4. /\ clock'.elapsed = 0 /\ clock'.origin = MinTs(DOMAIN ticks)
        /\ clock'.manual = MinTs(DOMAIN ticks)
    BY <2>1, <2>3, ClockStarts, Zenon DEF PlayInv, ClockInv
  <2>5. 0 <= MaxElapsed /\ \A n \in Nat : n <= n
    BY ClockAssumption
  <2>6. Anchored(clock')
    BY <2>3, <2>4, <2>5, Zenon DEF Anchored
  <2>7. OnSchedule(clock', pub'.pc, ticks'[pub'.cur].ts)
    BY <1>2, NoSchedule, Zenon
  <2> QED
    BY <1>1, <2>6, <2>7, Zenon DEF TimeInv
<1> QED
  BY <1>3, <1>4, Zenon

\* The publication of a tick whose time has come.
LEMMA TimePublish ==
    ASSUME PlayInv, TimeInv, StopInv, Publish
    PROVE  TimeInv'
<1> DEFINE ts == ticks[pub.cur].ts
<1>1. /\ Holding /\ pub.pc = "emit" /\ ticks' = ticks /\ pub'.pc = "merge"
      /\ clock' = IF clock.speed = 0 THEN advance_to(clock, ts) ELSE clock
  BY PublishStep, Zenon
<1>2. ts \in Times /\ ts \in Nat
  BY <1>1, TickInHand, Zenon
<1>3. clock \in Clock /\ Anchored(clock)
  BY Zenon DEF PlayInv, ClockInv, TimeInv
<1>4. clock.speed \in Nat /\ Now(clock) \in Nat /\ clock.manual \in Nat /\ clock.origin \in Nat
  BY <1>3, ClockShows, Zenon
<1>5. /\ history'.slowed = history.slowed
      /\ history'.early = (history.early \/ Now(clock') + Larger(clock'.speed, 1) <= ts)
  BY HistoryPublished, Zenon
<1>6. pub'.pc \notin {"sleep", "publish", "emit"}
  BY <1>1
<1>7. OnSchedule(clock', pub'.pc, ticks'[pub'.cur].ts)
  BY <1>6, NoSchedule, Zenon
<1>8. CASE clock.speed = 0
  <2>1. clock' = [clock EXCEPT !.manual = ts]
    BY <1>1, <1>8, Zenon DEF advance_to
  <2> HIDE DEF ts
  <2>2. /\ clock'.manual = ts /\ clock'.origin = clock.origin /\ clock'.elapsed = clock.elapsed
        /\ clock'.speed = clock.speed /\ clock'.running = clock.running
    BY <1>3, <2>1, Zenon DEF Clock
  <2>3. Now(clock') = ts
    BY <1>8, <2>2, Zenon DEF Now
  <2>4. ~ (Now(clock') + Larger(clock'.speed, 1) <= ts)
    <3>1. Larger(clock'.speed, 1) = 1
      BY <1>8, <2>2 DEF Larger
    <3> QED
      BY <1>2, <2>3, <3>1
  <2>5. ASSUME clock.running PROVE \E t \in Times : t <= clock.origin /\ t <= ts
    <3>1. PICK t \in Times : t <= clock.origin
      BY <1>3, <2>5, Zenon DEF Anchored
    <3>2. t \in Nat
      BY FileAssumption, Zenon
    <3>3. CASE t <= ts
      BY <3>1, <3>3, Zenon
    <3>4. CASE ~ (t <= ts)
      <4>1. ts <= clock.origin /\ ts <= ts
        BY <1>2, <1>4, <3>1, <3>2, <3>4
      <4> QED
        BY <1>2, <4>1, Zenon
    <3> QED
      BY <3>3, <3>4, Zenon
  <2>6. Anchored(clock')
    BY <1>3, <2>2, <2>5, Zenon DEF Anchored
  <2> QED
    BY <1>5, <1>7, <2>4, <2>6, Zenon DEF TimeInv
<1>9. CASE clock.speed # 0
  <2>1. clock' = clock
    BY <1>1, <1>9, Zenon
  <2>2. clock.speed > 0 /\ Larger(clock.speed, 1) = clock.speed
    BY <1>4, <1>9 DEF Larger
  <2>3. ASSUME ~ history.slowed PROVE ~ (Now(clock') + Larger(clock'.speed, 1) <= ts)
    <3>1. OnSchedule(clock, "emit", ts)
      BY <1>1, <2>3, Zenon DEF TimeInv
    <3>2. ts < Now(clock) + clock.speed
      BY <2>2, <3>1, Zenon DEF OnSchedule
    <3>3. ~ (Now(clock) + clock.speed <= ts)
      BY <1>2, <1>4, <3>2
    <3> QED
      BY <2>1, <2>2, <3>3, Zenon
  <2> QED
    BY <1>3, <1>5, <1>7, <2>1, <2>3, Zenon DEF TimeInv
<1> QED
  BY <1>8, <1>9, Zenon

\* set_speed anchors the clock at the time that it shows.
LEMMA TimeChange ==
    ASSUME PlayInv, TimeInv, StopInv, NEW m \in Speeds, ChangeSpeed(m)
    PROVE  TimeInv'
<1>1. /\ clock' = SetSpeed(clock, m) /\ pub' = pub /\ ticks' = ticks
      /\ history' = [history EXCEPT !.slowed =
                         history.slowed \/ pub.pc \in {"sleep", "publish", "emit"}]
  BY Zenon DEF ChangeSpeed
<1>2. /\ history'.early = history.early
      /\ history'.slowed = (history.slowed \/ pub.pc \in {"sleep", "publish", "emit"})
  BY <1>1, Zenon DEF StopInv, History
<1>3. clock \in Clock /\ Anchored(clock) /\ m \in Nat
  BY ClockAssumption, Zenon DEF PlayInv, ClockInv, TimeInv
<1>4. /\ clock'.running = clock.running
      /\ clock.running => clock'.origin = Now(clock) /\ clock'.manual = Now(clock)
                          /\ clock'.elapsed = 0
      /\ ~ clock.running => clock'.elapsed = clock.elapsed
  BY <1>1, <1>3, SpeedSet, Zenon
<1>5. 0 <= MaxElapsed
  BY ClockAssumption
<1>6. Anchored(clock')
  <2>1. CASE clock.running
    <3>1. \E t \in Times : t <= Now(clock)
      BY <1>3, <2>1, NowAnchored, Zenon
    <3> QED
      BY <1>4, <1>5, <2>1, <3>1, Zenon DEF Anchored
  <2>2. CASE ~ clock.running
    BY <1>3, <1>4, <2>2, Zenon DEF Anchored
  <2> QED
    BY <2>1, <2>2, Zenon
<1>7. ASSUME ~ history'.slowed
      PROVE  ~ history'.early /\ OnSchedule(clock', pub'.pc, ticks'[pub'.cur].ts)
  <2>1. pub'.pc \notin {"sleep", "publish", "emit"} /\ ~ history.slowed
    BY <1>1, <1>2, <1>7, Zenon
  <2> QED
    BY <1>2, <2>1, NoSchedule, Zenon DEF TimeInv
<1> QED
  BY <1>6, <1>7, Zenon DEF TimeInv

\* Time passes.
LEMMA TimeTicks ==
    ASSUME PlayInv, TimeInv, TimePasses
    PROVE  TimeInv'
<1>1. /\ clock.running /\ ((clock.speed > 0 /\ clock.elapsed < MaxElapsed) \/ clock.sleep > 0)
      /\ clock' = [clock EXCEPT !.elapsed = Smaller(clock.elapsed + 1, MaxElapsed),
                                !.sleep = Larger(clock.sleep - 1, 0)]
      /\ history' = history /\ pub' = pub /\ ticks' = ticks
  BY Zenon DEF TimePasses
<1>2. clock \in Clock /\ Anchored(clock)
  BY Zenon DEF PlayInv, ClockInv, TimeInv
<1>3. clock' \in Clock
  BY QuietStep, Zenon DEF PlayInv, ClockInv
<1>4. /\ clock'.running = clock.running /\ clock'.speed = clock.speed
      /\ clock'.origin = clock.origin /\ clock'.manual = clock.manual
      /\ clock'.elapsed = Smaller(clock.elapsed + 1, MaxElapsed)
      /\ clock'.sleep = Larger(clock.sleep - 1, 0)
  BY <1>1, <1>2, Zenon DEF Clock
<1>5. Smaller(clock.elapsed + 1, MaxElapsed) <= MaxElapsed
  <2>1. clock.elapsed \in Nat /\ MaxElapsed \in Nat
    BY <1>2, ClockShows, ClockAssumption, Zenon
  <2> QED
    BY <2>1 DEF Smaller
<1>6. Anchored(clock')
  BY <1>2, <1>4, <1>5, Zenon DEF Anchored
<1>7. ASSUME ~ history.slowed
      PROVE  OnSchedule(clock', pub.pc, ticks[pub.cur].ts)
  <2>1. OnSchedule(clock, pub.pc, ticks[pub.cur].ts)
    BY <1>7, Zenon DEF TimeInv
  <2>2. CASE pub.pc \in {"sleep", "publish", "emit"}
    <3>1. Holding
      BY <2>2 DEF Holding
    <3>2. ticks[pub.cur].ts \in Times
      BY <3>1, TickInHand, Zenon
    <3> QED
      BY <1>1, <1>2, <1>3, <1>4, <2>1, <3>2, TimeGoesOn, Zenon
  <2>3. CASE pub.pc \notin {"sleep", "publish", "emit"}
    BY <2>3, NoSchedule, Zenon
  <2> QED
    BY <2>2, <2>3, Zenon
<1> QED
  BY <1>1, <1>6, <1>7, Zenon DEF TimeInv

\* No tick is early but by a change of speed.
LEMMA TimeStep ==
    ASSUME PlayInv, TimeInv, StopInv, Onward
    PROVE  TimeInv'
<1>1. CASE Stop \/ StopMerger \/ Unpause \/ Pause \/ (\E target \in Times : Seek(target))
           \/ (StoreOpen /\ UNCHANGED play_vars)
  <2>1. clock' = clock /\ pub' = pub /\ ticks' = ticks
    BY <1>1, Zenon DEF Stop, StopMerger, Unpause, Pause, Seek, play_vars
  <2>2. \/ history' = history
        \/ \E x : history' = [history EXCEPT !.stopped = x] \/ history' = [history EXCEPT !.seeks = x]
    BY <1>1, Zenon DEF Stop, StopMerger, Unpause, Pause, Seek, play_vars
  <2>3. history'.slowed = history.slowed /\ history'.early = history.early
    BY <2>2, Zenon DEF StopInv, History
  <2> QED
    BY <2>1, <2>3, TimeKept, Zenon
<1> QED
  BY <1>1, TimeWalk, TimeWait, TimeStart, TimePublish, TimeChange, TimeTicks, Zenon
     DEF Onward, Player, Other

------------------------------------------------------------------------------
\* The bars of a replay.

\* The least and the largest of some numbers that have a bound.
LEMMA EndsAre ==
    ASSUME NEW n \in Nat, NEW T \in SUBSET (0 .. n), T # {}
    PROVE  /\ Min(T) \in T /\ \A y \in T : Min(T) <= y
           /\ Max(T) \in T /\ \A y \in T : Max(T) >= y
<1> DEFINE R == {ss \in Nat \X Nat : ss[1] < ss[2]}
<1>1. ASSUME NEW D \in SUBSET Nat, D # {}
      PROVE  \E d \in D : \A m \in D : d <= m
  <2>1. IsWellFoundedOn(R, Nat)
    BY NatLessThanWellFounded DEF OpToRel
  <2>2. PICK d \in D : \A m \in D : ~ (<<m, d>> \in R)
    <3> HIDE DEF R
    <3> QED
      BY <1>1, <2>1, WFMin, Zenon
  <2>3. \A m \in D : d <= m
    <3> TAKE m \in D
    <3>1. ~ (<<m, d>> \in R)
      BY <2>2
    <3> QED
      BY <3>1
  <2> QED
    BY <2>3
<1>2. Min(T) \in T /\ \A y \in T : Min(T) <= y
  <2>1. T \in SUBSET Nat
    OBVIOUS
  <2>2. \E x \in T : \A y \in T : x <= y
    BY <1>1, <2>1, Zenon
  <2> QED
    BY <2>2, Zenon DEF Min
<1>3. \E x \in T : \A y \in T : x >= y
  <2> DEFINE D == {n - k : k \in T}
  <2>1. D \in SUBSET Nat /\ D # {}
    <3>1. \A k \in 0 .. n : n - k \in Nat
      OBVIOUS
    <3> QED
      BY <3>1, Zenon
  <2>2. PICK d \in D : \A m \in D : d <= m
    <3> HIDE DEF D
    <3> QED
      BY <1>1, <2>1, Zenon
  <2>3. PICK k \in T : d = n - k
    BY <2>2, Zenon
  <2>4. \A y \in T : k >= y
    <3> TAKE y \in T
    <3>1. n - k <= n - y
      BY <2>2, <2>3, Zenon
    <3>2. k \in 0 .. n /\ y \in 0 .. n
      BY Zenon
    <3> QED
      BY <3>1, <3>2
  <2> QED
    BY <2>4, Zenon
<1>4. Max(T) \in T /\ \A y \in T : Max(T) >= y
  BY <1>3, Zenon DEF Max
<1> QED
  BY <1>2, <1>4, Zenon

\* A place after some others: Min, Max and Cardinality with it.
LEMMA OnePlaceMore ==
    ASSUME NEW n \in Nat, NEW part \in SUBSET (1 .. n), part # {}
    PROVE  /\ Min(part) \in part
           /\ Max(part) \in part
           /\ Min(part \cup {n + 1}) = Min(part)
           /\ Max(part \cup {n + 1}) = n + 1
           /\ Cardinality(part \cup {n + 1}) = Cardinality(part) + 1
<1>1. /\ \A k \in 1 .. n : k \in Nat /\ k \in 0 .. n /\ k < n + 1
      /\ n + 1 \in Nat /\ n + 1 \notin 1 .. n
  OBVIOUS
<1>2. Min(part) \in part /\ \A y \in part : Min(part) <= y
  <2>1. part \in SUBSET (0 .. n)
    BY <1>1, Zenon
  <2> QED
    BY <2>1, EndsAre, Zenon
<1>3. Max(part) \in part
  <2>1. part \in SUBSET (0 .. n)
    BY <1>1, Zenon
  <2> QED
    BY <2>1, EndsAre, Zenon
<1>4. Min(part \cup {n + 1}) = Min(part)
  <2> DEFINE all == part \cup {n + 1}
  <2>1. all \in SUBSET (0 .. n + 1) /\ all \in SUBSET Nat /\ all # {}
    <3>1. \A k \in 1 .. n : k \in 0 .. n + 1
      OBVIOUS
    <3>2. n + 1 \in 0 .. n + 1
      BY <1>1
    <3> QED
      BY <1>1, <3>1, <3>2, Zenon
  <2>2. Min(all) \in all /\ \A y \in all : Min(all) <= y
    <3> HIDE DEF all
    <3> QED
      BY <1>1, <2>1, EndsAre, Zenon
  <2>3. Min(part) \in all /\ Min(part) \in Nat /\ Min(part) < n + 1
    BY <1>1, <1>2, Zenon
  <2>4. Min(all) <= Min(part) /\ (Min(all) \in part \/ Min(all) = n + 1) /\ Min(all) \in Nat
    BY <2>1, <2>2, <2>3, Zenon
  <2> HIDE DEF all
  <2>5. Min(all) # n + 1
    BY <2>3, <2>4
  <2>6. Min(part) <= Min(all)
    BY <1>2, <2>4, <2>5, Zenon
  <2>7. Min(all) = Min(part)
    BY <2>3, <2>4, <2>6
  <2> QED
    BY <2>7, Zenon DEF all
<1>5. Max(part \cup {n + 1}) = n + 1
  <2> DEFINE all == part \cup {n + 1}
  <2>1. n + 1 \in all /\ \A y \in all : n + 1 >= y /\ y \in Nat
    <3>1. \A y \in part : n + 1 >= y /\ y \in Nat
      BY <1>1
    <3>2. n + 1 >= n + 1
      BY <1>1
    <3> QED
      BY <1>1, <3>1, <3>2, Zenon
  <2> HIDE DEF all
  <2>2. Max(all) \in all /\ \A y \in all : Max(all) >= y
    <3>1. \E x \in all : \A y \in all : x >= y
      BY <2>1, Zenon
    <3> QED
      BY <3>1, Zenon DEF Max
  <2>3. Max(all) = n + 1
    BY <1>1, <2>1, <2>2
  <2> QED
    BY <2>3, Zenon DEF all
<1>6. Cardinality(part \cup {n + 1}) = Cardinality(part) + 1
  <2>1. IsFiniteSet(1 .. n)
    BY FS_Interval
  <2>2. IsFiniteSet(part)
    BY <2>1, FS_Subset, Zenon
  <2>3. n + 1 \notin part
    BY <1>1, Zenon
  <2> QED
    BY <2>2, <2>3, FS_AddElement, Zenon
<1> QED
  BY <1>2, <1>3, <1>4, <1>5, <1>6, Zenon

\* One price more: the highest and the lowest with it.
LEMMA OnePriceMore ==
    ASSUME NEW P \in SUBSET (0 .. 2), P # {}, NEW p \in 0 .. 2
    PROVE  /\ Max(P) \in P /\ Min(P) \in P
           /\ Max(P \cup {p}) = Larger(Max(P), p)
           /\ Min(P \cup {p}) = Smaller(Min(P), p)
<1> DEFINE Q == P \cup {p}
<1>1. Q \in SUBSET (0 .. 2) /\ Q # {} /\ P \in SUBSET Nat /\ Q \in SUBSET Nat
  <2>1. 0 .. 2 \subseteq Nat
    OBVIOUS
  <2> QED
    BY <2>1, Zenon
<1>2. 2 \in Nat
  OBVIOUS
<1>3. \A y \in P : y \in Q
  BY Zenon
<1>4. p \in Q /\ \A y \in Q : y \in P \/ y = p
  BY Zenon
<1> HIDE DEF Q
<1>5. Max(P) \in P /\ (\A y \in P : Max(P) >= y) /\ Max(Q) \in Q /\ \A y \in Q : Max(Q) >= y
  BY <1>1, <1>2, EndsAre, Zenon
<1>6. Min(P) \in P /\ (\A y \in P : Min(P) <= y) /\ Min(Q) \in Q /\ \A y \in Q : Min(Q) <= y
  BY <1>1, <1>2, EndsAre, Zenon
<1>7. Max(P) \in Nat /\ Max(Q) \in Nat /\ Min(P) \in Nat /\ Min(Q) \in Nat /\ p \in Nat
  BY <1>1, <1>4, <1>5, <1>6, Zenon
<1>8. /\ Max(Q) >= p /\ Max(Q) >= Max(P) /\ (Max(Q) = p \/ Max(P) >= Max(Q))
      /\ Min(Q) <= p /\ Min(Q) <= Min(P) /\ (Min(Q) = p \/ Min(P) <= Min(Q))
  BY <1>3, <1>4, <1>5, <1>6, Zenon
<1>9. Max(Q) = Larger(Max(P), p) /\ Min(Q) = Smaller(Min(P), p)
  BY <1>7, <1>8 DEF Larger, Smaller
<1> QED
  BY <1>5, <1>6, <1>9, Zenon DEF Q

\* The price of a record, and the interval of a time.
LEMMA TickFacts ==
    /\ \A r \in Record : Price(r) \in 0 .. 2 /\ r.ts \in Nat /\ r.sym \in SymbolSet
    /\ \A r \in Record : align_to_interval(r.ts) \in Int
    /\ \A r, t \in Record :
          r.ts <= t.ts => align_to_interval(r.ts) <= align_to_interval(t.ts)
<1>1. Interval \in Nat \ {0} /\ Times \subseteq Nat
  BY ClockAssumption, FileAssumption, Zenon
<1>2. \A r \in Record : r.n \in Nat /\ r.ts \in Times /\ r.sym \in SymbolSet
  BY Zenon DEF Record
<1>3. \A n \in Nat : (2 * n) % 3 \in 0 .. 2
  OBVIOUS
<1>4. ASSUME NEW x \in Nat, NEW y \in Nat, x <= y
      PROVE  x \div Interval \in Int /\ x \div Interval <= y \div Interval
  BY <1>1, <1>4
<1>5. ASSUME NEW x \in Int, NEW y \in Int, x <= y
      PROVE  x * Interval \in Int /\ x * Interval <= y * Interval
  BY <1>1, <1>5
<1>6. ASSUME NEW x \in Nat, NEW y \in Nat, x <= y
      PROVE  align_to_interval(x) \in Int /\ align_to_interval(x) <= align_to_interval(y)
  <2>1. x \div Interval \in Int /\ y \div Interval \in Int /\ x \div Interval <= y \div Interval
    <3>1. y <= y
      OBVIOUS
    <3> QED
      BY <1>4, <1>6, <3>1, Zenon
  <2> QED
    BY <1>5, <2>1, Zenon DEF align_to_interval
<1>7. \A r \in Record : r.ts \in Nat /\ r.ts <= r.ts
  <2>1. \A x \in Nat : x <= x
    OBVIOUS
  <2> QED
    BY <1>1, <1>2, <2>1, Zenon
<1>8. \A r \in Record : align_to_interval(r.ts) \in Int
  BY <1>6, <1>7, Zenon
<1>9. \A r \in Record : Price(r) \in 0 .. 2
  BY <1>2, <1>3, Zenon DEF Price
<1> QED
  BY <1>2, <1>6, <1>7, <1>8, <1>9, Zenon

\* The prices at some places of q.
Prices(q, part) == {Price(q[i]) : i \in part}

\* The bar of some ticks is a bar, with the fields that BarOf gives it.
LEMMA BarIsBar ==
    ASSUME NEW n \in Nat, NEW q, \A i \in 1 .. n : q[i] \in Record,
           NEW part \in SUBSET (1 .. n), part # {}
    PROVE  /\ BarOf(q, part) \in Bar
           /\ Prices(q, part) \in SUBSET (0 .. 2) /\ Prices(q, part) # {}
<1>1. Min(part) \in part /\ Max(part) \in part
  BY OnePlaceMore, Zenon
<1>2. Prices(q, part) \in SUBSET (0 .. 2) /\ Prices(q, part) # {}
  BY TickFacts, Zenon DEF Prices
<1>3. Max(Prices(q, part)) \in Int /\ Min(Prices(q, part)) \in Int
  <2>1. 0 \in 0 .. 2 /\ 0 .. 2 \subseteq Int
    OBVIOUS
  <2> QED
    BY <1>2, <2>1, OnePriceMore, Zenon
<1>4. Cardinality(part) \in Int
  <2>1. IsFiniteSet(1 .. n)
    BY FS_Interval
  <2>2. IsFiniteSet(part)
    BY <2>1, FS_Subset, Zenon
  <2>3. Cardinality(part) \in Nat
    BY <2>2, FS_CardinalityType, Zenon
  <2> QED
    BY <2>3
<1>5. \A r \in Record : Price(r) \in Int /\ r.ts \in Int
  <2>1. 0 .. 2 \subseteq Int /\ Nat \subseteq Int
    OBVIOUS
  <2> QED
    BY <2>1, TickFacts, Zenon
<1>6. q[Min(part)] \in Record /\ q[Max(part)] \in Record
  BY <1>1, Zenon
<1>7. BarOf(q, part) \in Bar
  BY <1>3, <1>4, <1>5, <1>6, TickFacts, Zenon DEF BarOf, Bar, Prices
<1> QED
  BY <1>2, <1>7, Zenon

\* Two sequences with the same first ticks.
SameStart(p, q, n) == \A i \in 1 .. n : p[i] = q[i]

\* The bar of some ticks depends on these ticks only.
LEMMA BarStays ==
    ASSUME NEW n \in Nat, NEW q, NEW p, SameStart(p, q, n),
           NEW part \in SUBSET (1 .. n), part # {}
    PROVE  BarOf(p, part) = BarOf(q, part)
<1>1. p[Min(part)] = q[Min(part)] /\ p[Max(part)] = q[Max(part)]
  BY OnePlaceMore, Zenon DEF SameStart
<1>2. Prices(p, part) = Prices(q, part)
  <2>1. \A i \in part : p[i] = q[i]
    BY Zenon DEF SameStart
  <2>2. ASSUME NEW x PROVE x \in Prices(p, part) <=> x \in Prices(q, part)
    BY <2>1, Zenon DEF Prices
  <2> QED
    BY <2>2, Zenon
<1> QED
  BY <1>1, <1>2, Zenon DEF BarOf, Prices

\* The bar of one tick is the bar that add_tick starts with it.
LEMMA BarStarts ==
    ASSUME NEW n \in Nat, NEW q, q[n] \in Record
    PROVE  BarOf(q, {n}) = NewBar(q[n])
<1>1. Min({n}) = n /\ Max({n}) = n
  <2>1. \A x, y \in {n} : x <= y /\ x >= y
    OBVIOUS
  <2> QED
    BY <2>1, Zenon DEF Min, Max
<1>2. Prices(q, {n}) = {Price(q[n])}
  BY Zenon DEF Prices
<1>3. Min({Price(q[n])}) = Price(q[n]) /\ Max({Price(q[n])}) = Price(q[n])
  <2> DEFINE c == Price(q[n])
  <2>1. c \in 0 .. 2
    BY TickFacts, Zenon
  <2> HIDE DEF c
  <2>2. \A x, y \in {c} : x <= y /\ x >= y
    BY <2>1
  <2>3. Min({c}) = c /\ Max({c}) = c
    BY <2>2, Zenon DEF Min, Max
  <2> QED
    BY <2>3, Zenon DEF c
<1>4. Cardinality({n}) = 1
  BY FS_Singleton, Zenon
<1> QED
  BY <1>1, <1>2, <1>3, <1>4, Zenon DEF BarOf, NewBar, Prices

\* Two bars with the same fields are the same.
LEMMA SameBar ==
    ASSUME NEW x \in Bar, NEW y \in Bar,
           x.sym = y.sym, x.open = y.open, x.high = y.high, x.low = y.low,
           x.close = y.close, x.tick_count = y.tick_count,
           x.start_time = y.start_time, x.end_time = y.end_time
    PROVE  x = y
  BY DEF Bar

\* add_tick on the bar of some ticks makes the bar with one tick more.
LEMMA BarGrows ==
    ASSUME NEW n \in Nat, NEW q, \A i \in 1 .. n + 1 : q[i] \in Record,
           NEW part \in SUBSET (1 .. n), part # {}
    PROVE  BarOf(q, part \cup {n + 1}) = Updated(BarOf(q, part), q[n + 1])
<1> DEFINE all == part \cup {n + 1}
           old == BarOf(q, part)
           new == BarOf(q, all)
           t == q[n + 1]
<1>1. /\ n + 1 \in Nat /\ n + 1 \in 1 .. n + 1 /\ \A i \in 1 .. n : i \in 1 .. n + 1
  OBVIOUS
<1>2. t \in Record /\ all \in SUBSET (1 .. n + 1) /\ all # {} /\ \A i \in 1 .. n : q[i] \in Record
  BY <1>1, Zenon
<1>3. old \in Bar /\ Prices(q, part) \in SUBSET (0 .. 2) /\ Prices(q, part) # {}
  BY <1>2, BarIsBar, Zenon
<1>4. new \in Bar
  BY <1>1, <1>2, BarIsBar, Zenon
<1>5. Min(all) = Min(part) /\ Max(all) = n + 1 /\ Cardinality(all) = Cardinality(part) + 1
  BY OnePlaceMore, Zenon
<1>6. Prices(q, all) = Prices(q, part) \cup {Price(t)} /\ Price(t) \in 0 .. 2
  <2>1. ASSUME NEW x
        PROVE  x \in Prices(q, all) <=> x \in Prices(q, part) \cup {Price(t)}
    BY Zenon DEF Prices
  <2> QED
    BY <1>2, <2>1, TickFacts, Zenon
<1>7. /\ Max(Prices(q, all)) = Larger(Max(Prices(q, part)), Price(t))
      /\ Min(Prices(q, all)) = Smaller(Min(Prices(q, part)), Price(t))
  BY <1>3, <1>6, OnePriceMore, Zenon
<1>8. /\ new.sym = old.sym /\ new.open = old.open /\ new.start_time = old.start_time
      /\ new.close = Price(t) /\ new.end_time = t.ts
  BY <1>5, Zenon DEF BarOf
<1>9. /\ new.high = Larger(old.high, Price(t)) /\ new.low = Smaller(old.low, Price(t))
      /\ new.tick_count = old.tick_count + 1
  BY <1>5, <1>7, Zenon DEF BarOf, Prices
<1> HIDE DEF all, old, new, t
<1>10. Price(t) \in Int /\ t.ts \in Int
  <2>1. 0 .. 2 \subseteq Int /\ Nat \subseteq Int
    OBVIOUS
  <2> QED
    BY <1>2, <2>1, TickFacts, Zenon
<1>11. Updated(old, t) \in Bar
  <2>1. /\ old.high \in Int /\ old.low \in Int /\ old.tick_count \in Int
    BY <1>3, Zenon DEF Bar
  <2>2. /\ Larger(old.high, Price(t)) \in Int /\ Smaller(old.low, Price(t)) \in Int
        /\ old.tick_count + 1 \in Int
    BY <1>10, <2>1 DEF Larger, Smaller
  <2>3. ASSUME NEW high \in Int, NEW low \in Int, NEW close \in Int, NEW count \in Int, NEW end \in Int
        PROVE  [old EXCEPT !.high = high, !.low = low, !.close = close,
                           !.tick_count = count, !.end_time = end] \in Bar
    BY <1>3, Zenon DEF Bar
  <2> QED
    BY <1>10, <2>2, <2>3, Zenon DEF Updated
<1>12. new = Updated(old, t)
  <2> DEFINE up == Updated(old, t)
  <2>1. /\ up.sym = old.sym /\ up.open = old.open /\ up.start_time = old.start_time
        /\ up.close = Price(t) /\ up.end_time = t.ts
        /\ up.high = Larger(old.high, Price(t)) /\ up.low = Smaller(old.low, Price(t))
        /\ up.tick_count = old.tick_count + 1
    BY <1>3 DEF Updated, Bar
  <2> HIDE DEF up
  <2>2. up \in Bar
    BY <1>11 DEF up
  <2>3. new = up
    BY <1>4, <1>8, <1>9, <2>1, <2>2, SameBar, Zenon
  <2> QED
    BY <2>3 DEF up
<1> QED
  BY <1>12 DEF new, old, all, t

\* Two ticks of the same bar.
Alike(r, t) ==
    /\ r.sym = t.sym
    /\ align_to_interval(r.ts) = align_to_interval(t.ts)

\* No tick of q of the symbol of q[k] lies in a later interval.
Current(q, k) ==
    \A j \in DOMAIN q :
        q[j].sym = q[k].sym => align_to_interval(q[j].ts) <= align_to_interval(q[k].ts)

\* The bar of the tick at place k.
BarAt(q, k) == BarOf(q, PartOf(q, q[k]))

\* p is q and then t, which is no earlier than the ticks of q.
Longer(q, p, n, t) ==
    /\ n \in Nat /\ DOMAIN q = 1 .. n /\ DOMAIN p = 1 .. n + 1
    /\ \A i \in 1 .. n : q[i] \in Record /\ p[i] = q[i] /\ q[i].ts <= t.ts
    /\ p[n + 1] = t /\ t \in Record

\* The ticks of a bar, with one tick more at the end.
LEMMA PartsGrow ==
    ASSUME NEW q, NEW p, NEW n, NEW t, Longer(q, p, n, t)
    PROVE  /\ \A k : k \in DOMAIN p <=> k \in DOMAIN q \/ k = n + 1
           /\ n + 1 \notin DOMAIN q
           /\ PartOf(p, t) = PartOf(q, t) \cup {n + 1}
           /\ \A k \in DOMAIN q :
                 /\ k \in PartOf(q, q[k])
                 /\ Alike(q[k], t) => /\ PartOf(p, p[k]) = PartOf(p, t)
                                      /\ PartOf(q, q[k]) = PartOf(q, t)
                 /\ ~ Alike(q[k], t) => PartOf(p, p[k]) = PartOf(q, q[k])
<1>1. /\ n \in Nat /\ DOMAIN q = 1 .. n /\ DOMAIN p = 1 .. n + 1
      /\ \A i \in DOMAIN q : p[i] = q[i]
      /\ p[n + 1] = t
  BY Zenon DEF Longer
<1>2. \A k : k \in DOMAIN p <=> k \in DOMAIN q \/ k = n + 1
  BY <1>1
<1>3. n + 1 \notin DOMAIN q
  BY <1>1
<1>4. PartOf(p, t) = PartOf(q, t) \cup {n + 1}
  <2>1. ASSUME NEW i PROVE i \in PartOf(p, t) <=> i \in PartOf(q, t) \cup {n + 1}
    BY <1>1, <1>2, Zenon DEF PartOf
  <2> QED
    BY <2>1, Zenon
<1>5. ASSUME NEW k \in DOMAIN q
      PROVE  /\ k \in PartOf(q, q[k])
             /\ Alike(q[k], t) => /\ PartOf(p, p[k]) = PartOf(p, t)
                                  /\ PartOf(q, q[k]) = PartOf(q, t)
             /\ ~ Alike(q[k], t) => PartOf(p, p[k]) = PartOf(q, q[k])
  <2>1. k \in PartOf(q, q[k])
    BY Zenon DEF PartOf
  <2>2. ASSUME Alike(q[k], t)
        PROVE  PartOf(p, p[k]) = PartOf(p, t) /\ PartOf(q, q[k]) = PartOf(q, t)
    BY <1>1, <2>2, Zenon DEF PartOf, Alike
  <2>3. ASSUME ~ Alike(q[k], t) PROVE PartOf(p, p[k]) = PartOf(q, q[k])
    <3>1. ASSUME NEW i PROVE i \in PartOf(p, p[k]) <=> i \in PartOf(q, q[k])
      BY <1>1, <1>2, <2>3, Zenon DEF PartOf, Alike
    <3> QED
      BY <3>1, Zenon
  <2> QED
    BY <2>1, <2>2, <2>3, Zenon
<1> QED
  BY <1>2, <1>3, <1>4, <1>5, Zenon

\* The latest intervals, with one tick more at the end.
LEMMA CurrentGrows ==
    ASSUME NEW q, NEW p, NEW n, NEW t, Longer(q, p, n, t)
    PROVE  /\ Current(p, n + 1)
           /\ \A k \in DOMAIN q :
                 /\ Current(p, k) <=> Current(q, k) /\ (q[k].sym = t.sym => Alike(q[k], t))
                 /\ Alike(q[k], t) => Current(q, k)
<1> DEFINE A(i) == align_to_interval(p[i].ts)
<1>1. /\ \A k : k \in DOMAIN p <=> k \in DOMAIN q \/ k = n + 1
      /\ \A i \in DOMAIN q : p[i] = q[i]
      /\ p[n + 1] = t
  <2>1. \A k : k \in DOMAIN p <=> k \in DOMAIN q \/ k = n + 1
    BY PartsGrow
  <2> QED
    BY <2>1, Zenon DEF Longer
<1>2. /\ \A i \in DOMAIN q : A(i) \in Int /\ A(i) <= A(n + 1)
      /\ A(n + 1) \in Int
  BY TickFacts, Zenon DEF Longer
<1>3. /\ \A i \in DOMAIN q : align_to_interval(q[i].ts) = A(i)
      /\ align_to_interval(t.ts) = A(n + 1)
  BY <1>1, Zenon
<1> HIDE DEF A
<1>4. A(n + 1) <= A(n + 1)
  BY <1>2
<1>5. Current(p, n + 1)
  BY <1>1, <1>2, <1>4, Zenon DEF Current, A
<1>6. ASSUME NEW k \in DOMAIN q
      PROVE  /\ Current(p, k) <=> Current(q, k) /\ (q[k].sym = t.sym => Alike(q[k], t))
             /\ Alike(q[k], t) => Current(q, k)
  <2>1. /\ A(k) \in Int /\ A(k) <= A(n + 1)
        /\ A(n + 1) <= A(k) <=> A(k) = A(n + 1)
    BY <1>2
  <2>2. Current(p, k) <=> \A j \in DOMAIN p : p[j].sym = p[k].sym => A(j) <= A(k)
    BY Zenon DEF Current, A
  <2>3. Current(q, k) <=> \A j \in DOMAIN q : p[j].sym = p[k].sym => A(j) <= A(k)
    BY <1>1, <1>3, Zenon DEF Current
  <2>4. Alike(q[k], t) <=> p[k].sym = p[n + 1].sym /\ A(k) = A(n + 1)
    BY <1>1, <1>3, Zenon DEF Alike
  <2>5. Current(p, k) <=> Current(q, k) /\ (q[k].sym = t.sym => Alike(q[k], t))
    BY <1>1, <2>1, <2>2, <2>3, <2>4, Zenon
  <2>6. Alike(q[k], t) => Current(q, k)
    BY <1>2, <2>3, <2>4, Zenon
  <2> QED
    BY <2>5, <2>6, Zenon
<1> QED
  BY <1>5, <1>6, Zenon

\* The bars, with one tick more at the end: the bar of the tick is updated or
\* begins, and the others stay.
LEMMA BarsGrow ==
    ASSUME NEW q, NEW p, NEW n, NEW t, Longer(q, p, n, t)
    PROVE  /\ BarAt(p, n + 1) \in Bar
           /\ \A k \in DOMAIN q :
                 /\ BarAt(q, k) \in Bar
                 /\ BarAt(q, k).start_time = align_to_interval(q[k].ts)
                 /\ Alike(q[k], t) => /\ BarAt(p, k) = BarAt(p, n + 1)
                                      /\ BarAt(p, n + 1) = Updated(BarAt(q, k), t)
                 /\ ~ Alike(q[k], t) => BarAt(p, k) = BarAt(q, k)
           /\ (\A k \in DOMAIN q : ~ Alike(q[k], t)) => BarAt(p, n + 1) = NewBar(t)
<1>1. /\ n \in Nat /\ DOMAIN q = 1 .. n /\ DOMAIN p = 1 .. n + 1
      /\ \A i \in 1 .. n : q[i] \in Record /\ p[i] = q[i]
      /\ p[n + 1] = t /\ t \in Record
  BY Zenon DEF Longer
<1>2. SameStart(p, q, n) /\ n \in Nat
  BY Zenon DEF SameStart, Longer
<1>3. /\ n + 1 \in Nat /\ n + 1 \in 1 .. n + 1
      /\ \A i \in 1 .. n + 1 : i \in 1 .. n \/ i = n + 1
  BY <1>1
<1>4. \A i \in 1 .. n + 1 : p[i] \in Record
  BY <1>1, <1>3, Zenon
<1>5. PartOf(p, t) \in SUBSET (1 .. n + 1) /\ \A k \in DOMAIN q : PartOf(q, q[k]) \in SUBSET (1 .. n)
  BY <1>1, Zenon DEF PartOf
<1>6. BarAt(p, n + 1) \in Bar
  <2>1. PartOf(p, t) = PartOf(q, t) \cup {n + 1}
    BY PartsGrow
  <2>2. PartOf(p, t) # {}
    BY <2>1, Zenon
  <2> QED
    BY <1>1, <1>3, <1>4, <1>5, <2>2, BarIsBar, Zenon DEF BarAt
<1>7. ASSUME NEW k \in DOMAIN q
      PROVE  /\ BarAt(q, k) \in Bar
             /\ BarAt(q, k).start_time = align_to_interval(q[k].ts)
             /\ Alike(q[k], t) => /\ BarAt(p, k) = BarAt(p, n + 1)
                                  /\ BarAt(p, n + 1) = Updated(BarAt(q, k), t)
             /\ ~ Alike(q[k], t) => BarAt(p, k) = BarAt(q, k)
  <2> DEFINE part == PartOf(q, q[k])
  <2>1. part \in SUBSET (1 .. n) /\ part # {}
    BY <1>5, PartsGrow, Zenon
  <2>2. BarAt(q, k) \in Bar
    BY <1>1, <2>1, BarIsBar, Zenon DEF BarAt
  <2>3. BarAt(q, k).start_time = align_to_interval(q[k].ts)
    <3>1. Min(part) \in part
      <4> HIDE DEF part
      <4> QED
        BY <1>1, <2>1, OnePlaceMore, Zenon
    <3>2. align_to_interval(q[Min(part)].ts) = align_to_interval(q[k].ts)
      BY <3>1, Zenon DEF PartOf
    <3> QED
      BY <3>2, Zenon DEF BarAt, BarOf
  <2>4. ASSUME ~ Alike(q[k], t) PROVE BarAt(p, k) = BarAt(q, k)
    <3>1. PartOf(p, p[k]) = part
      BY <2>4, PartsGrow, Zenon
    <3> HIDE DEF part
    <3>2. BarOf(p, part) = BarOf(q, part)
      BY <1>2, <2>1, BarStays, Zenon
    <3> QED
      BY <3>1, <3>2, Zenon DEF BarAt, part
  <2>5. ASSUME Alike(q[k], t)
        PROVE  BarAt(p, k) = BarAt(p, n + 1) /\ BarAt(p, n + 1) = Updated(BarAt(q, k), t)
    <3>1. PartOf(p, p[k]) = PartOf(p, t) /\ PartOf(p, t) = part \cup {n + 1}
      BY <2>5, PartsGrow
    <3> HIDE DEF part
    <3>2. BarOf(p, part \cup {n + 1}) = Updated(BarOf(p, part), p[n + 1])
      BY <1>1, <1>4, <2>1, BarGrows, Zenon
    <3>3. BarOf(p, part) = BarOf(q, part)
      BY <1>2, <2>1, BarStays, Zenon
    <3> QED
      BY <1>1, <3>1, <3>2, <3>3, Zenon DEF BarAt, part
  <2> QED
    BY <2>2, <2>3, <2>4, <2>5, Zenon
<1>8. ASSUME \A k \in DOMAIN q : ~ Alike(q[k], t) PROVE BarAt(p, n + 1) = NewBar(t)
  <2>1. PartOf(q, t) = {}
    BY <1>8, Zenon DEF PartOf, Alike
  <2>2. PartOf(p, t) = {n + 1}
    <3>1. PartOf(p, t) = PartOf(q, t) \cup {n + 1}
      BY PartsGrow
    <3> QED
      BY <2>1, <3>1, Zenon
  <2>3. BarOf(p, {n + 1}) = NewBar(p[n + 1])
    BY <1>1, <1>3, BarStarts, Zenon
  <2> QED
    BY <1>1, <2>2, <2>3, Zenon DEF BarAt
<1> QED
  BY <1>6, <1>7, <1>8, Zenon

\* The bars in progress and the completed ones are those of the ticks: a bar in
\* progress is of the latest interval of its symbol, a completed one earlier.
BarsAgree(q, b, done) ==
    /\ b \in [SymbolSet -> Bar \cup {None}]
    /\ \A s \in SymbolSet : b[s] = None => \A k \in DOMAIN q : q[k].sym # s
    /\ \A s \in SymbolSet :
          b[s] # None => \E k \in DOMAIN q : q[k].sym = s /\ Current(q, k)
    /\ \A k \in DOMAIN q : Current(q, k) => b[q[k].sym] = BarAt(q, k)
    /\ \A k \in DOMAIN q : ~ Current(q, k) => BarAt(q, k) \in done
    /\ \A x \in done : \E k \in DOMAIN q : ~ Current(q, k) /\ x = BarAt(q, k)

\* add_tick keeps the bars in agreement with the ticks.
LEMMA AddTick ==
    ASSUME NEW q, NEW p, NEW n, NEW t, Longer(q, p, n, t),
           NEW b, NEW done, BarsAgree(q, b, done)
    PROVE  LET r == add_tick([bars |-> b, emitted |-> done], t)
           IN  BarsAgree(p, r.bars, r.emitted)
<1> DEFINE bar == b[t.sym]
           same == bar # None /\ bar.start_time = align_to_interval(t.ts)
           nb == IF same THEN Updated(bar, t) ELSE NewBar(t)
           c == [b EXCEPT ![t.sym] = nb]
           e == done \cup IF same \/ bar = None THEN {} ELSE {bar}
           r == add_tick([bars |-> b, emitted |-> done], t)
<1>1. r.bars = c /\ r.emitted = e
  BY Zenon DEF add_tick
<1>2. /\ t.sym \in SymbolSet /\ p[n + 1] = t /\ \A k \in DOMAIN q : p[k] = q[k]
      /\ \A k \in DOMAIN q : q[k].sym \in SymbolSet
  BY TickFacts, Zenon DEF Longer
<1>3. /\ \A k : k \in DOMAIN p <=> k \in DOMAIN q \/ k = n + 1
      /\ n + 1 \notin DOMAIN q
  BY PartsGrow
<1>4. /\ Current(p, n + 1)
      /\ \A k \in DOMAIN q :
            /\ Current(p, k) <=> Current(q, k) /\ (q[k].sym = t.sym => Alike(q[k], t))
            /\ Alike(q[k], t) => Current(q, k)
  BY CurrentGrows, Zenon
<1>5. /\ BarAt(p, n + 1) \in Bar
      /\ \A k \in DOMAIN q :
            /\ BarAt(q, k) \in Bar
            /\ BarAt(q, k).start_time = align_to_interval(q[k].ts)
            /\ Alike(q[k], t) => /\ BarAt(p, k) = BarAt(p, n + 1)
                                 /\ BarAt(p, n + 1) = Updated(BarAt(q, k), t)
            /\ ~ Alike(q[k], t) => BarAt(p, k) = BarAt(q, k)
      /\ (\A k \in DOMAIN q : ~ Alike(q[k], t)) => BarAt(p, n + 1) = NewBar(t)
  <2>1. BarAt(p, n + 1) \in Bar
    BY BarsGrow
  <2>2. (\A k \in DOMAIN q : ~ Alike(q[k], t)) => BarAt(p, n + 1) = NewBar(t)
    BY BarsGrow
  <2>3. ASSUME NEW k \in DOMAIN q
        PROVE  /\ BarAt(q, k) \in Bar
               /\ BarAt(q, k).start_time = align_to_interval(q[k].ts)
               /\ Alike(q[k], t) => /\ BarAt(p, k) = BarAt(p, n + 1)
                                    /\ BarAt(p, n + 1) = Updated(BarAt(q, k), t)
               /\ ~ Alike(q[k], t) => BarAt(p, k) = BarAt(q, k)
    BY BarsGrow
  <2> QED
    BY <2>1, <2>2, <2>3, Zenon
<1>6. /\ b \in [SymbolSet -> Bar \cup {None}]
      /\ \A s \in SymbolSet : b[s] = None => \A k \in DOMAIN q : q[k].sym # s
      /\ \A s \in SymbolSet :
            b[s] # None => \E k \in DOMAIN q : q[k].sym = s /\ Current(q, k)
      /\ \A k \in DOMAIN q : Current(q, k) => b[q[k].sym] = BarAt(q, k)
      /\ \A k \in DOMAIN q : ~ Current(q, k) => BarAt(q, k) \in done
      /\ \A x \in done : \E k \in DOMAIN q : ~ Current(q, k) /\ x = BarAt(q, k)
  BY Zenon DEF BarsAgree
<1>7. \A k \in DOMAIN q : q[k].sym = t.sym /\ Current(q, k) =>
         bar = BarAt(q, k) /\ bar # None /\ (same <=> Alike(q[k], t))
  <2>1. ASSUME NEW k \in DOMAIN q, q[k].sym = t.sym, Current(q, k)
        PROVE  bar = BarAt(q, k) /\ bar # None /\ (same <=> Alike(q[k], t))
    <3>1. bar = BarAt(q, k)
      BY <1>6, <2>1, Zenon
    <3>2. bar # None /\ bar.start_time = align_to_interval(q[k].ts)
      BY <1>5, <3>1, BarAssumption, Zenon
    <3> QED
      BY <2>1, <3>1, <3>2, Zenon DEF Alike
  <2> QED
    BY <2>1, Zenon
<1>8. nb = BarAt(p, n + 1)
  <2>1. CASE same
    <3>1. PICK k \in DOMAIN q : q[k].sym = t.sym /\ Current(q, k)
      BY <1>2, <1>6, <2>1, Zenon
    <3>2. bar = BarAt(q, k) /\ Alike(q[k], t)
      BY <1>7, <2>1, <3>1, Zenon
    <3> QED
      BY <1>5, <2>1, <3>2, Zenon
  <2>2. CASE ~ same
    <3>1. \A k \in DOMAIN q : ~ Alike(q[k], t)
      BY <1>4, <1>7, <2>2, Zenon DEF Alike
    <3> QED
      BY <1>5, <2>2, <3>1, Zenon
  <2> QED
    BY <2>1, <2>2, Zenon
<1>9. /\ c \in [SymbolSet -> Bar \cup {None}]
      /\ c[t.sym] = nb /\ nb # None
      /\ \A s \in SymbolSet : s # t.sym => c[s] = b[s]
  <2>1. nb \in Bar /\ nb # None
    BY <1>5, <1>8, BarAssumption, Zenon
  <2> HIDE DEF nb
  <2> QED
    BY <1>2, <1>6, <2>1, Zenon
<1>10. (\A x \in done : x \in e) /\ \A x \in e : x \in done \/ (x = bar /\ ~ same /\ bar # None)
  BY Zenon
<1>11. bar # None /\ ~ same => bar \in e
  BY Zenon
<1> HIDE DEF c, e, nb, same, bar
<1>12. \A s \in SymbolSet : c[s] = None => \A k \in DOMAIN p : p[k].sym # s
  <2>1. ASSUME NEW s \in SymbolSet, c[s] = None
        PROVE  s # t.sym /\ \A k \in DOMAIN q : q[k].sym # s
    BY <1>6, <1>9, <2>1, Zenon
  <2> QED
    BY <1>2, <1>3, <2>1, Zenon
<1>13. \A s \in SymbolSet :
          c[s] # None => \E k \in DOMAIN p : p[k].sym = s /\ Current(p, k)
  <2>1. ASSUME NEW s \in SymbolSet, c[s] # None
        PROVE  \E k \in DOMAIN p : p[k].sym = s /\ Current(p, k)
    <3>1. CASE s = t.sym
      BY <1>2, <1>3, <1>4, <3>1, Zenon
    <3>2. CASE s # t.sym
      <4>1. PICK k \in DOMAIN q : q[k].sym = s /\ Current(q, k)
        BY <1>6, <1>9, <2>1, <3>2, Zenon
      <4>2. k \in DOMAIN p /\ p[k].sym = s /\ Current(p, k)
        BY <1>2, <1>3, <1>4, <3>2, <4>1, Zenon
      <4> QED
        BY <4>2, Zenon
    <3> QED
      BY <3>1, <3>2, Zenon
  <2> QED
    BY <2>1, Zenon
<1>14. \A k \in DOMAIN p : Current(p, k) => c[p[k].sym] = BarAt(p, k)
  <2>1. ASSUME NEW k \in DOMAIN q, Current(p, k) PROVE c[q[k].sym] = BarAt(p, k)
    <3>1. Current(q, k)
      BY <1>4, <2>1, Zenon
    <3>2. CASE q[k].sym = t.sym
      BY <1>4, <1>5, <1>8, <1>9, <2>1, <3>2, Zenon
    <3>3. CASE q[k].sym # t.sym
      <4>1. BarAt(p, k) = BarAt(q, k)
        BY <1>5, <3>3, Zenon DEF Alike
      <4> QED
        BY <1>2, <1>6, <1>9, <3>1, <3>3, <4>1, Zenon
    <3> QED
      BY <3>2, <3>3, Zenon
  <2>2. c[p[n + 1].sym] = BarAt(p, n + 1)
    BY <1>2, <1>8, <1>9, Zenon
  <2> QED
    BY <1>2, <1>3, <2>1, <2>2, Zenon
<1>15. \A k \in DOMAIN p : ~ Current(p, k) => BarAt(p, k) \in e
  <2>1. ASSUME NEW k \in DOMAIN q, ~ Current(p, k) PROVE BarAt(p, k) \in e
    <3>1. CASE Current(q, k)
      <4>1. q[k].sym = t.sym /\ ~ Alike(q[k], t)
        BY <1>4, <2>1, <3>1, Zenon
      <4>2. bar = BarAt(q, k) /\ bar # None /\ ~ same
        BY <1>7, <3>1, <4>1, Zenon
      <4> QED
        BY <1>5, <1>11, <4>1, <4>2, Zenon
    <3>2. CASE ~ Current(q, k)
      <4>1. BarAt(p, k) = BarAt(q, k)
        BY <1>4, <1>5, <3>2, Zenon
      <4> QED
        BY <1>6, <1>10, <3>2, <4>1, Zenon
    <3> QED
      BY <3>1, <3>2, Zenon
  <2> QED
    BY <1>3, <1>4, <2>1, Zenon
<1>16. \A x \in e : \E k \in DOMAIN p : ~ Current(p, k) /\ x = BarAt(p, k)
  <2>1. ASSUME NEW x \in e, x \in done
        PROVE  \E k \in DOMAIN p : ~ Current(p, k) /\ x = BarAt(p, k)
    <3>1. PICK k \in DOMAIN q : ~ Current(q, k) /\ x = BarAt(q, k)
      BY <1>6, <2>1, Zenon
    <3>2. ~ Current(p, k) /\ BarAt(p, k) = BarAt(q, k) /\ k \in DOMAIN p
      BY <1>3, <1>4, <1>5, <3>1, Zenon
    <3> QED
      BY <3>1, <3>2, Zenon
  <2>2. ASSUME NEW x \in e, x = bar, ~ same, bar # None
        PROVE  \E k \in DOMAIN p : ~ Current(p, k) /\ x = BarAt(p, k)
    <3>1. PICK k \in DOMAIN q : q[k].sym = t.sym /\ Current(q, k)
      BY <1>2, <1>6, <2>2, Zenon DEF bar
    <3>2. bar = BarAt(q, k) /\ ~ Alike(q[k], t)
      BY <1>7, <2>2, <3>1, Zenon
    <3>3. ~ Current(p, k) /\ BarAt(p, k) = BarAt(q, k) /\ k \in DOMAIN p
      BY <1>3, <1>4, <1>5, <3>1, <3>2, Zenon
    <3> QED
      BY <2>2, <3>2, <3>3, Zenon
  <2> QED
    BY <1>10, <2>1, <2>2, Zenon
<1>17. BarsAgree(p, c, e)
  BY <1>9, <1>12, <1>13, <1>14, <1>15, <1>16, Zenon DEF BarsAgree
<1> QED
  BY <1>1, <1>17, Zenon

\* All bars, and all bars of the ticks.
Known(b, done) == done \cup ({b[s] : s \in SymbolSet} \ {None})

TickBars(q) == {BarOf(q, PartOf(q, t)) : t \in Range(q)}

\* Bars that agree with the ticks are all the bars of the ticks, and no others.
LEMMA AllBars ==
    ASSUME NEW q, NEW b, NEW done, BarsAgree(q, b, done),
           \A k \in DOMAIN q : q[k] \in Record /\ BarAt(q, k) \in Bar
    PROVE  Known(b, done) = TickBars(q)
<1>1. \A k \in DOMAIN q : q[k].sym \in SymbolSet /\ BarAt(q, k) # None
  BY TickFacts, BarAssumption, Zenon
<1>2. ASSUME NEW k \in DOMAIN q PROVE BarAt(q, k) \in done \cup ({b[s] : s \in SymbolSet} \ {None})
  <2>1. CASE Current(q, k)
    <3>1. b[q[k].sym] = BarAt(q, k)
      BY <2>1, Zenon DEF BarsAgree
    <3> QED
      BY <1>1, <3>1, Zenon
  <2>2. CASE ~ Current(q, k)
    BY <2>2, Zenon DEF BarsAgree
  <2> QED
    BY <2>1, <2>2, Zenon
<1>3. ASSUME NEW x \in done PROVE x \in {BarAt(q, k) : k \in DOMAIN q}
  BY Zenon DEF BarsAgree
<1>4. ASSUME NEW s \in SymbolSet, b[s] # None PROVE b[s] \in {BarAt(q, k) : k \in DOMAIN q}
  <2>1. PICK k \in DOMAIN q : q[k].sym = s /\ Current(q, k)
    BY <1>4, Zenon DEF BarsAgree
  <2>2. b[s] = BarAt(q, k)
    BY <2>1, Zenon DEF BarsAgree
  <2> QED
    BY <2>2, Zenon
<1>5. done \cup ({b[s] : s \in SymbolSet} \ {None}) = {BarAt(q, k) : k \in DOMAIN q}
  BY <1>2, <1>3, <1>4, Zenon
<1>6. ASSUME NEW x PROVE x \in {BarAt(q, k) : k \in DOMAIN q} <=> x \in TickBars(q)
  BY Zenon DEF BarAt, TickBars, Range
<1> QED
  BY <1>5, <1>6, Zenon DEF Known

\* The bars are those of the ticks that were published; after flush all of them
\* are completed.
BarsInv ==
    /\ BarsMatchTicks
    /\ pub.pc # "done" => BarsAgree(published, bars, emitted)

\* Bars that agree with the ticks are what BarsMatchTicks says.
LEMMA BarsSay ==
    ASSUME NEW q \in Seq(Record), NEW b, NEW done, BarsAgree(q, b, done)
    PROVE  Known(b, done) = TickBars(q)
<1>1. Len(q) \in Nat /\ DOMAIN q = 1 .. Len(q) /\ \A k \in 1 .. Len(q) : q[k] \in Record
  OBVIOUS
<1>2. ASSUME NEW k \in DOMAIN q PROVE BarAt(q, k) \in Bar
  <2>1. PartOf(q, q[k]) \in SUBSET (1 .. Len(q)) /\ PartOf(q, q[k]) # {}
    BY <1>1, Zenon DEF PartOf
  <2> QED
    BY <1>1, <2>1, BarIsBar, Zenon DEF BarAt
<1>3. \A k \in DOMAIN q : q[k] \in Record /\ BarAt(q, k) \in Bar
  BY <1>1, <1>2, Zenon
<1> QED
  BY <1>3, AllBars, Zenon

\* A step without a tick for the bars.
LEMMA BarsKept ==
    ASSUME BarsInv, published' = published, bars' = bars, emitted' = emitted,
           pub'.pc # "done" => pub.pc # "done"
    PROVE  BarsInv'
  BY Zenon DEF BarsInv, BarsMatchTicks

\* A tick goes to the bars.
LEMMA BarsPublish ==
    ASSUME PlayInv, OrderInv, BarsInv, Publish
    PROVE  BarsInv'
<1> DEFINE t == ticks[pub.cur]
           n == Len(published)
           q == published
           p == Append(published, t)
           r == add_tick([bars |-> bars, emitted |-> emitted], t)
<1>1. published' = p /\ bars' = r.bars /\ emitted' = r.emitted
  BY Zenon DEF Publish
<1>2. pub.pc = "emit" /\ Holding
  BY PublishStep, Zenon
<1>3. t \in Record /\ published \in Seq(Record) /\ \A k \in DOMAIN published : published[k].ts <= t.ts
  BY <1>2, TickInHand, Zenon DEF OrderInv
<1>4. Longer(published, p, n, t) /\ p \in Seq(Record)
  <2> HIDE DEF t
  <2>1. n \in Nat /\ DOMAIN published = 1 .. n /\ DOMAIN p = 1 .. n + 1 /\ p \in Seq(Record)
    BY <1>3
  <2>2. p[n + 1] = t /\ \A i \in 1 .. n : p[i] = published[i] /\ published[i] \in Record
    BY <1>3
  <2> HIDE DEF p, n
  <2> QED
    BY <1>3, <2>1, <2>2, Zenon DEF Longer
<1>5. BarsAgree(published, bars, emitted)
  <2>1. pub.pc # "done"
    BY <1>2
  <2> QED
    BY <2>1, Zenon DEF BarsInv
<1>6. BarsAgree(p, r.bars, r.emitted)
  <2> HIDE DEF p, n, t
  <2> QED
    BY <1>4, <1>5, AddTick, Zenon
<1> HIDE DEF p, r
<1>7. Known(r.bars, r.emitted) = TickBars(p)
  BY <1>4, <1>6, BarsSay, Zenon
<1>8. BarsAgree(published', bars', emitted')
  BY <1>1, <1>6, Zenon
<1>9. BarsMatchTicks'
  BY <1>1, <1>7, Zenon DEF BarsMatchTicks, Known, TickBars
<1> QED
  BY <1>8, <1>9, Zenon DEF BarsInv

\* Every step keeps the bars those of the ticks.
LEMMA BarsStep ==
    ASSUME PlayInv, OrderInv, BarsInv, Onward
    PROVE  BarsInv'
<1>1. CASE Quiet
  BY <1>1, BarsKept, Zenon DEF Quiet, Still
<1>2. CASE Walk \/ Drop
  <2>1. Holding /\ Still
    BY <1>2, Zenon DEF Walk, Drop
  <2>2. pub.pc # "done"
    BY <2>1 DEF Holding
  <2> QED
    BY <2>1, <2>2, BarsKept, Zenon DEF Still
<1>3. CASE Pick
  <2>1. pub.pc = "merge" /\ Still
    BY <1>3, PickStep, Zenon DEF Take
  <2>2. pub.pc # "done"
    BY <2>1
  <2> QED
    BY <2>1, <2>2, BarsKept, Zenon DEF Still
<1>4. CASE StartRunning \/ StartLoop
  <2>1. pub.pc \in {"loaded", "start"} /\ published' = published /\ bars' = bars /\ emitted' = emitted
    BY <1>4, Zenon DEF StartRunning, StartLoop, At
  <2>2. pub.pc # "done"
    BY <2>1
  <2> QED
    BY <2>1, <2>2, BarsKept, Zenon
<1>5. CASE Finish
  <2>1. /\ pub' = [pub EXCEPT !.pc = "done"] /\ published' = published
        /\ bars' = [s \in SymbolSet |-> None]
        /\ emitted' = emitted \cup ({bars[s] : s \in SymbolSet} \ {None})
    BY <1>5, Zenon DEF Finish, Go, Flushed
  <2>2. pub'.pc = "done"
    BY <2>1, GoneOn, Zenon
  <2>3. {bars'[s] : s \in SymbolSet} \ {None} = {}
    BY <2>1, Zenon
  <2>4. emitted' \cup ({bars'[s] : s \in SymbolSet} \ {None})
        = emitted \cup ({bars[s] : s \in SymbolSet} \ {None})
    BY <2>1, <2>3, Zenon
  <2> QED
    BY <2>1, <2>2, <2>4, Zenon DEF BarsInv, BarsMatchTicks
<1>6. CASE ClockWait
  BY <1>2, <1>6, ClockWaitStep, Zenon
<1>7. CASE Callback \/ WaitIfPaused \/ WakeUp \/ PublishTest \/ (Notify /\ pub' # pub)
  BY <1>2, <1>7, WalkStep, Zenon
<1>8. CASE \/ StoreOpen /\ UNCHANGED play_vars
           \/ Stop \/ StopMerger \/ Unpause \/ Pause
           \/ \E target \in Times : Seek(target)
           \/ \E multiplier \in Speeds : ChangeSpeed(multiplier)
           \/ TimePasses
           \/ Notify /\ pub' = pub
  BY <1>1, <1>8, QuietStep, Zenon
<1> QED
  BY <1>3, <1>4, <1>5, <1>6, <1>7, <1>8, BarsPublish, Zenon DEF Onward, Player, Other

==============================================================================
