-------------------------------- MODULE Replay --------------------------------
(***************************************************************************)
(* Replaying a recorded file: MultiStreamMerger and ReplayPublisher, or    *)
(* ReplayEngine, on a ReplayClock, with the calls that another thread      *)
(* makes meanwhile, and a BarAggregator behind the callback.  Real time    *)
(* is kept relative: elapsed since the clock was anchored, and the time a  *)
(* sleeping thread still waits.                                            *)
(***************************************************************************)
EXTENDS TickStorage

CONSTANTS
    Speeds,       \* multipliers; 0 is as fast as possible
    Interval,     \* of the bars
    MaxElapsed    \* bound: real time that is told apart

\* A recording takes no longer than the time that is told apart.
ASSUME ClockAssumption ==
    /\ Speeds \subseteq Nat
    /\ \A c \in Configs : c.speed \in Nat /\ c.ranges \subseteq Nat \X Nat
    /\ Interval \in Nat \ {0} /\ MaxElapsed \in Nat
    /\ \A first, last \in Times : last - first <= MaxElapsed

VARIABLES
    ticks,       \* merged_ticks_, or ticks_ of the engine
    running, paused, seek_target, merging,   \* the flags; merging: merger's
    pub,         \* the publishing thread: [pc, heap, cur, started]
    clock,       \* [running, speed, origin, elapsed, manual, sleep]
    calls,       \* calls that may still come from the other thread
    caller,      \* the other thread: what its call does next
    published,   \* the ticks given to the callback
    bars,        \* of each symbol: the bar in progress, or None
    emitted,     \* the completed bars
    history      \* [seeks, stopped, late, slowed, early]: the targets of seek,
                 \* when stop came, a tick after it, a change of speed in a
                 \* sleep, a tick early by a unit of real time

flags == <<running, paused, seek_target, merging>>
play_vars == <<ticks, flags, pub, clock, calls, caller, published, bars,
               emitted, history>>
vars == <<store_vars, play_vars>>

engine == config.engine      \* ReplayEngine instead of ReplayPublisher

Init ==
    /\ StoreInit
    /\ ticks = <<>>
    /\ running = FALSE /\ paused = FALSE /\ seek_target = 0 /\ merging = FALSE
    /\ pub = [pc |-> "idle", heap |-> {}, cur |-> 0, started |-> FALSE]
    /\ clock = [running |-> FALSE, speed |-> config.speed, origin |-> 0,
                elapsed |-> 0, manual |-> 0, sleep |-> 0]
    /\ calls = config.calls
    /\ caller = "no"
    /\ published = <<>>
    /\ bars = [s \in SymbolSet |-> None]
    /\ emitted = {}
    /\ history = [seeks |-> {}, stopped |-> "no", late |-> FALSE,
                  slowed |-> FALSE, early |-> FALSE]

------------------------------------------------------------------------------
\* ReplayClock.

Now(c) ==
    IF ~c.running \/ c.speed = 0 THEN c.manual
    ELSE c.origin + c.elapsed * c.speed

StartClock(c, origin) ==
    [c EXCEPT !.running = TRUE, !.origin = origin, !.manual = origin,
              !.elapsed = 0]

\* set_speed anchors the clock at the virtual time that it shows.
SetSpeed(c, multiplier) ==
    LET cur == Now(c)
        anchored == IF c.running
                    THEN [c EXCEPT !.origin = cur, !.elapsed = 0, !.manual = cur]
                    ELSE c
    IN  [anchored EXCEPT !.speed = multiplier]

advance_to(c, ts) == [c EXCEPT !.manual = ts]

\* wait_until: the real time to sleep, by the speed at the time of the call.
SleepFor(c, target) ==
    IF c.speed = 0 \/ Now(c) >= target THEN 0
    ELSE (target - Now(c)) \div c.speed

------------------------------------------------------------------------------
\* BarAggregator.

align_to_interval(ts) == (ts \div Interval) * Interval

Price(tick) == (2 * tick.n) % 3

NewBar(tick) ==
    [sym |-> tick.sym, open |-> Price(tick), high |-> Price(tick),
     low |-> Price(tick), close |-> Price(tick), tick_count |-> 1,
     start_time |-> align_to_interval(tick.ts), end_time |-> tick.ts]

Larger(a, b) == IF a > b THEN a ELSE b

Smaller(a, b) == IF a < b THEN a ELSE b

\* The bar after a tick of its interval.
Updated(bar, tick) ==
    [bar EXCEPT !.high = Larger(@, Price(tick)),
                !.low = Smaller(@, Price(tick)),
                !.close = Price(tick),
                !.tick_count = @ + 1,
                !.end_time = tick.ts]

Bar == [sym : SymbolSet, open : Int, high : Int, low : Int, close : Int,
        tick_count : Int, start_time : Int, end_time : Int]

ASSUME BarAssumption == None \notin Bar

\* add_tick on [bars, emitted].
add_tick(b, tick) ==
    LET bar == b.bars[tick.sym]
        same == bar # None /\ bar.start_time = align_to_interval(tick.ts)
    IN  [bars |-> [b.bars EXCEPT ![tick.sym] = IF same THEN Updated(bar, tick)
                                              ELSE NewBar(tick)],
         emitted |-> b.emitted \cup IF same \/ bar = None THEN {} ELSE {bar}]

\* flush, which the client calls after the replay.
Flushed(b) ==
    [bars |-> [s \in SymbolSet |-> None],
     emitted |-> b.emitted \cup ({b.bars[s] : s \in SymbolSet} \ {None})]

------------------------------------------------------------------------------
\* The publishing thread.

At(pc) == pub.pc = pc

Go(pc) == pub' = [pub EXCEPT !.pc = pc]

\* add_stream for each symbol, or load for all of them.  The sort of load may
\* swap ticks with equal timestamps; that is left to the choice in Pick.
Load ==
    /\ At("idle") /\ ticks = <<>>
    /\ index # None /\ writer = None /\ ctl = "idle"
    /\ \E range \in config.ranges :
          LET read(sym) == read_range(index, file, sym, range[1], range[2])
          IN  ticks' \in IF file = None THEN {<<>>}
                         ELSE IF engine THEN {read(AnySymbol)}
                         ELSE {read("A"), read("A") \o read("B")}
    /\ Go("loaded")
    /\ UNCHANGED <<store_vars, flags, clock, calls, caller, published, bars,
                   emitted, history>>

\* The engine returns at once if there is nothing to replay.
StartRunning ==
    /\ At("loaded")
    /\ IF engine /\ ticks = <<>>
       THEN Go("done") /\ UNCHANGED running
       ELSE Go("start") /\ running' = TRUE
    /\ UNCHANGED <<store_vars, ticks, paused, seek_target, merging, clock,
                   calls, caller, published, bars, emitted, history>>

MinTs(heap) == Min({ticks[i].ts : i \in heap})

\* The engine starts the clock; the publisher resets its flags and merges.
StartLoop ==
    /\ At("start")
    /\ pub' = [pub EXCEPT !.pc = IF ticks = <<>> THEN "end" ELSE "merge",
                          !.heap = DOMAIN ticks, !.started = engine]
    /\ IF engine
       THEN /\ clock' = StartClock(clock, MinTs(DOMAIN ticks))
            /\ UNCHANGED <<paused, seek_target, merging>>
       ELSE /\ paused' = FALSE /\ seek_target' = 0
            /\ merging' = (ticks # <<>>)
            /\ UNCHANGED clock
    /\ UNCHANGED <<store_vars, ticks, running, calls, caller, published,
                   bars, emitted, history>>

\* The next tick: one of the earliest, in any order if there are several.
Pick ==
    /\ At("merge")
    /\ IF pub.heap = {} \/ ~(IF engine THEN running ELSE merging)
       THEN Go("end")
       ELSE \E i \in {j \in pub.heap : ticks[j].ts = MinTs(pub.heap)} :
               pub' = [pub EXCEPT !.pc = "callback", !.cur = i,
                                  !.heap = @ \ {i}]
    /\ UNCHANGED <<store_vars, ticks, flags, clock, calls, caller,
                   published, bars, emitted, history>>

\* A bug of the seek: it skips the tick at the target.
CallbackSkipsOne ==
    /\ At("callback")
    /\ Go(IF engine THEN "clock"
          ELSE IF ~running \/ (seek_target > 0 /\ ticks[pub.cur].ts <= seek_target)
          THEN "merge" ELSE "pause")
    /\ UNCHANGED <<store_vars, ticks, flags, clock, calls, caller,
                   published, bars, emitted, history>>

\* The callback returns if it was stopped or if it seeks a later tick.
Callback ==
    /\ At("callback")
    /\ Go(IF engine THEN "clock"
          ELSE IF ~running \/ ticks[pub.cur].ts < seek_target
          THEN "merge" ELSE "pause")
    /\ UNCHANGED <<store_vars, ticks, flags, clock, calls, caller,
                   published, bars, emitted, history>>

\* wait_if_paused: the predicate is evaluated with the mutex held, and
\* waiting releases it.
WaitIfPaused ==
    /\ At("pause")
    /\ Go(IF paused /\ running THEN "waiting"
          ELSE IF running THEN "clock" ELSE "merge")
    /\ UNCHANGED <<store_vars, ticks, flags, clock, calls, caller,
                   published, bars, emitted, history>>

\* The first tick starts the clock; then wait_until.
ClockWait ==
    /\ At("clock")
    /\ LET ts == ticks[pub.cur].ts
           c == IF pub.started THEN clock ELSE StartClock(clock, ts)
       IN  /\ clock' = [c EXCEPT !.sleep = SleepFor(c, ts)]
           /\ pub' = [pub EXCEPT !.started = TRUE,
                                 !.pc = IF SleepFor(c, ts) = 0 THEN "publish"
                                        ELSE "sleep"]
    /\ UNCHANGED <<store_vars, ticks, flags, calls, caller, published, bars,
                   emitted, history>>

\* The sleep ends at its deadline, or earlier when the time has come.
WakeUp ==
    /\ At("sleep")
    /\ clock.sleep = 0 \/ Now(clock) >= ticks[pub.cur].ts
    /\ Go("publish")
    /\ UNCHANGED <<store_vars, ticks, flags, clock, calls, caller,
                   published, bars, emitted, history>>

\* The flag is read again after the wait.
PublishTest ==
    /\ At("publish")
    /\ Go(IF running THEN "emit" ELSE "merge")
    /\ UNCHANGED <<store_vars, ticks, flags, clock, calls, caller, published,
                   bars, emitted, history>>

Publish ==
    /\ At("emit")
    /\ LET tick == ticks[pub.cur]
           c == IF clock.speed = 0 THEN advance_to(clock, tick.ts) ELSE clock
           b == add_tick([bars |-> bars, emitted |-> emitted], tick)
       IN  /\ clock' = c
           /\ published' = Append(published, tick)
           /\ bars' = b.bars /\ emitted' = b.emitted
           /\ history' = [history EXCEPT
                 !.early = @ \/ Now(c) + Larger(c.speed, 1) <= tick.ts,
                 !.late = @ \/ history.stopped = "yes",
                 !.stopped = IF @ = "emit" THEN "yes" ELSE @]
    /\ Go("merge")
    /\ UNCHANGED <<store_vars, ticks, flags, calls, caller>>

\* merge and start end; the client flushes the bars.
Finish ==
    /\ At("end")
    /\ Go("done")
    /\ running' = FALSE /\ merging' = FALSE
    /\ LET b == Flushed([bars |-> bars, emitted |-> emitted])
       IN  bars' = b.bars /\ emitted' = b.emitted
    /\ UNCHANGED <<store_vars, ticks, paused, seek_target, clock, calls,
                   caller, published, history>>

Player ==
    \/ StartRunning \/ StartLoop \/ Pick \/ Callback \/ WaitIfPaused
    \/ ClockWait \/ WakeUp \/ PublishTest \/ Publish \/ Finish

------------------------------------------------------------------------------
\* The other thread.

Call(next) ==
    /\ pub.pc \notin {"idle", "done"}
    /\ caller = "no"
    /\ calls > 0
    /\ calls' = calls - 1
    /\ caller' = next

\* stop.  Before start has set the flag it has no effect.
Stop ==
    /\ Call(IF engine THEN "no" ELSE "merger")
    /\ running' = FALSE
    /\ history' = [history EXCEPT !.stopped =
                      CASE At("loaded") -> "lost"
                        [] At("emit") -> "emit"
                        [] OTHER -> "yes"]
    /\ UNCHANGED <<store_vars, ticks, paused, seek_target, merging, pub, clock,
                   published, bars, emitted>>

StopMerger ==
    /\ caller = "merger"
    /\ merging' = FALSE
    /\ caller' = "unpause"
    /\ UNCHANGED <<store_vars, ticks, running, paused, seek_target, pub, clock,
                   calls, published, bars, emitted, history>>

\* With the mutex held, in stop and in resume.
Unpause ==
    /\ ~engine
    /\ \/ caller = "unpause" /\ caller' = "notify" /\ UNCHANGED calls
       \/ Call("notify")
    /\ paused' = FALSE
    /\ UNCHANGED <<store_vars, ticks, running, seek_target, merging, pub,
                   clock, published, bars, emitted, history>>

\* A bug of the notification: nobody is woken.
NotifyNobody ==
    /\ caller = "notify"
    /\ caller' = "no"
    /\ UNCHANGED <<store_vars, ticks, flags, pub, clock, calls, published,
                   bars, emitted, history>>

Notify ==
    /\ caller = "notify"
    /\ caller' = "no"
    /\ IF At("waiting") THEN Go("pause") ELSE UNCHANGED pub
    /\ UNCHANGED <<store_vars, ticks, flags, clock, calls, published, bars,
                   emitted, history>>

Pause ==
    /\ ~engine
    /\ Call("no")
    /\ paused' = TRUE
    /\ UNCHANGED <<store_vars, ticks, running, seek_target, merging, pub,
                   clock, published, bars, emitted, history>>

Seek(target) ==
    /\ ~engine
    /\ Call("no")
    /\ seek_target' = target
    /\ history' = [history EXCEPT !.seeks = @ \cup {target}]
    /\ UNCHANGED <<store_vars, ticks, running, paused, merging, pub, clock,
                   published, bars, emitted>>

\* set_speed in one step: the virtual time that it anchors is the current one.
ChangeSpeed(multiplier) ==
    /\ Call("no")
    /\ clock' = SetSpeed(clock, multiplier)
    /\ history' = [history EXCEPT !.slowed =
                      @ \/ pub.pc \in {"sleep", "publish", "emit"}]
    /\ UNCHANGED <<store_vars, ticks, flags, pub, published, bars, emitted>>

\* Time matters while the clock has a speed or somebody sleeps.
TimePasses ==
    /\ clock.running /\ ~At("done")
    /\ (clock.speed > 0 /\ clock.elapsed < MaxElapsed) \/ clock.sleep > 0
    /\ clock' = [clock EXCEPT !.elapsed = Smaller(@ + 1, MaxElapsed),
                              !.sleep = Larger(@ - 1, 0)]
    /\ UNCHANGED <<store_vars, ticks, flags, pub, calls, caller, published,
                   bars, emitted, history>>

Other ==
    \/ Stop \/ StopMerger \/ Unpause \/ Notify \/ Pause
    \/ \E target \in Times : Seek(target)
    \/ \E multiplier \in Speeds : ChangeSpeed(multiplier)

------------------------------------------------------------------------------

\* Ticks come out in the order of their time, each once, and only loaded ones.
PublishedInTimeOrder ==
    /\ \A i, j \in DOMAIN published :
          i < j => /\ published[i].ts <= published[j].ts
                   /\ published[i] # published[j]
    /\ Range(published) \subseteq Range(ticks)

\* A replay that nobody stops publishes every tick, but for those before a
\* target of seek, however it is paused, resumed and slowed down.
NothingSkipped ==
    (At("done") /\ history.stopped = "no") =>
        \A i \in DOMAIN ticks :
            \/ ticks[i] \in Range(published)
            \/ \E target \in history.seeks : ticks[i].ts < target

\* After stop no tick is published but one that is on its way to the callback.
\* (A stop before start is lost: start sets the flag.)
QuietAfterStop == ~history.late

\* A tick is published when virtual time has reached it, up to the rounding of
\* the sleep, unless the speed changes meanwhile: the deadline of a sleep
\* stays, and without speed there is none (wait_until).
OnTime == history.early => history.slowed

\* The places in q of the ticks of the same symbol and interval as a tick.
PartOf(q, tick) ==
    {i \in DOMAIN q :
        /\ q[i].sym = tick.sym
        /\ align_to_interval(q[i].ts) = align_to_interval(tick.ts)}

\* The bar of the ticks at some places of q.
BarOf(q, part) ==
    LET first == q[Min(part)]
        last == q[Max(part)]
        prices == {Price(q[i]) : i \in part}
    IN  [sym |-> first.sym, open |-> Price(first), high |-> Max(prices),
         low |-> Min(prices), close |-> Price(last),
         tick_count |-> Cardinality(part),
         start_time |-> align_to_interval(first.ts), end_time |-> last.ts]

\* The bars are what the published ticks say: one bar for a symbol and an
\* interval, with the first, last, highest and lowest price and the count.
BarsMatchTicks ==
    LET all == emitted \cup ({bars[s] : s \in SymbolSet} \ {None})
    IN  all = {BarOf(published, PartOf(published, t)) : t \in Range(published)}

\* What comes out of a replay is what was recorded, in time and in order, and
\* the bars are those of the ticks that came out (start of the two players).
ReplayIsFaithful ==
    /\ PublishedInTimeOrder /\ NothingSkipped /\ QuietAfterStop /\ OnTime
    /\ BarsMatchTicks

\* stop ends a replay, paused or not: start returns.
StopEndsReplay == []<>(history.stopped = "yes" => At("done"))

\* What the comment on wait_until says: it blocks until virtual time is there.
NeverEarly == ~history.early

==============================================================================
