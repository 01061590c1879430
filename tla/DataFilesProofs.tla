-------------------------- MODULE DataFilesProofs --------------------------
(***************************************************************************)
(* What is proved about recording and about replaying, put together for    *)
(* every recording, every journal and every interleaving: the ticks of a   *)
(* replay are loaded from a sound file, so that it publishes what was      *)
(* recorded, and the files are sound after every crash.                    *)
(***************************************************************************)
EXTENDS RecordingProofs, ReplayProofs

------------------------------------------------------------------------------
\* Loading the ticks of a replay.

\* What read_range returns are records of the symbol, with increasing numbers.
LEMMA ReadTicks ==
    ASSUME NEW f, FileOK(f), NEW idx, NEW symbol, NEW start \in Nat, NEW end \in Nat, NEW got,
           got = read_range(idx, f, symbol, start, end)
    PROVE  /\ got \in Seq(Record)
           /\ \A k, l \in DOMAIN got : k < l => got[k].n < got[l].n
           /\ \A k \in DOMAIN got : symbol \in {AnySymbol, got[k].sym}
<1>1. CASE find(idx, start) \in DOMAIN f.data
  <2>1. Gathers(got, f.data, find(idx, start), {r \in Record : Wanted(r, symbol, start, end)})
    BY <1>1, RangeRead, Zenon
  <2> QED
    BY <2>1, Zenon DEF Gathers, Wanted
<1>2. CASE find(idx, start) \notin DOMAIN f.data
  <2>1. got = <<>>
    BY <1>2, RangeRead, Zenon
  <2> QED
    BY <2>1
<1> QED
  BY <1>1, <1>2, Zenon

\* Records with increasing numbers are distinct.
LEMMA NumbersDiffer ==
    ASSUME NEW got \in Seq(Record), \A k, l \in DOMAIN got : k < l => got[k].n < got[l].n
    PROVE  \A k, l \in DOMAIN got : got[k] = got[l] => k = l
<1> SUFFICES ASSUME NEW k \in DOMAIN got, NEW l \in DOMAIN got, got[k] = got[l], k # l PROVE FALSE
  OBVIOUS
<1>1. (k < l \/ l < k) /\ got[k].n \in Nat
  <2>1. k \in 1 .. Len(got) /\ l \in 1 .. Len(got) /\ Len(got) \in Nat /\ got[k] \in Record
    OBVIOUS
  <2>2. k < l \/ l < k
    BY <2>1
  <2> QED
    BY <2>1, <2>2, Zenon DEF Record
<1>2. got[k].n < got[l].n \/ got[l].n < got[k].n
  BY <1>1, Zenon
<1>3. got[k].n < got[k].n
  BY <1>2, Zenon
<1> QED
  BY <1>1, <1>3

\* The streams of two symbols have no tick in common.
LEMMA StreamsDiffer ==
    ASSUME NEW a \in Seq(Record), NEW b \in Seq(Record),
           \A k, l \in DOMAIN a : a[k] = a[l] => k = l,
           \A k, l \in DOMAIN b : b[k] = b[l] => k = l,
           \A k \in DOMAIN a, l \in DOMAIN b : a[k] # b[l]
    PROVE  a \o b \in Seq(Record) /\ \A k, l \in DOMAIN (a \o b) : (a \o b)[k] = (a \o b)[l] => k = l
<1> DEFINE c == a \o b
           n == Len(a)
<1>1. /\ c \in Seq(Record) /\ n \in Nat /\ Len(b) \in Nat
      /\ DOMAIN c = 1 .. n + Len(b) /\ DOMAIN a = 1 .. n /\ DOMAIN b = 1 .. Len(b)
      /\ \A k \in 1 .. n : c[k] = a[k]
      /\ \A k \in 1 .. Len(b) : c[n + k] = b[k]
  OBVIOUS
<1> HIDE DEF c, n
<1>2. ASSUME NEW k \in DOMAIN c
      PROVE  (k \in DOMAIN a /\ c[k] = a[k]) \/ (k - n \in DOMAIN b /\ c[k] = b[k - n])
  <2>1. k \in 1 .. n \/ (k - n \in 1 .. Len(b) /\ n + (k - n) = k)
    BY <1>1
  <2> QED
    BY <1>1, <2>1, Zenon
<1>3. ASSUME NEW k \in DOMAIN c, NEW l \in DOMAIN c, c[k] = c[l] PROVE k = l
  <2>1. CASE k \in DOMAIN a /\ l \in DOMAIN a /\ c[k] = a[k] /\ c[l] = a[l]
    BY <1>3, <2>1, Zenon
  <2>2. CASE k - n \in DOMAIN b /\ l - n \in DOMAIN b /\ c[k] = b[k - n] /\ c[l] = b[l - n]
    <3>1. k - n = l - n
      BY <1>3, <2>2, Zenon
    <3> QED
      BY <1>1, <3>1
  <2> QED
    BY <1>2, <1>3, <2>1, <2>2, Zenon
<1> QED
  BY <1>1, <1>3, Zenon DEF c

\* Of some records one is the earliest.
LEMMA EarliestOf ==
    ASSUME NEW q \in Seq(Record), NEW heap \in SUBSET (DOMAIN q), heap # {}
    PROVE  \E i \in heap : \A j \in heap : q[i].ts <= q[j].ts
<1> DEFINE T == {q[i].ts : i \in heap}
<1>1. \A i \in DOMAIN q : q[i] \in Record
  OBVIOUS
<1>2. T \in SUBSET Nat /\ T # {}
  BY <1>1, TickFacts, Zenon
<1>3. PICK ts \in T : \A u \in T : ts <= u
  <2> HIDE DEF T
  <2> QED
    BY <1>2, LeastNumber, Zenon
<1>4. PICK i \in heap : ts = q[i].ts
  BY <1>3, Zenon
<1> QED
  BY <1>3, <1>4, Zenon

\* What is loaded: records of the file, each once.
LEMMA LoadedTicks ==
    ASSUME StoreInv, TicksInv, Load
    PROVE  TicksInv'
<1>1. config' = config /\ config \in Configs
  BY Zenon DEF Load, store_vars, TicksInv
<1>2. PICK range \in config.ranges :
         ticks' \in IF file = None THEN {<<>>}
                    ELSE IF engine THEN {read_range(index, file, AnySymbol, range[1], range[2])}
                    ELSE {read_range(index, file, "A", range[1], range[2]),
                          read_range(index, file, "A", range[1], range[2])
                          \o read_range(index, file, "B", range[1], range[2])}
  BY Zenon DEF Load
<1>3. range[1] \in Nat /\ range[2] \in Nat
  <2>1. range \in Nat \X Nat
    BY <1>1, ClockAssumption, Zenon
  <2> QED
    BY <2>1
<1> DEFINE Read(symbol) == read_range(index, file, symbol, range[1], range[2])
           Distinct(q) == \A i, j \in DOMAIN q : q[i] = q[j] => i = j
<1>4. ASSUME NEW symbol, file # None
      PROVE  /\ Read(symbol) \in Seq(Record) /\ Distinct(Read(symbol))
             /\ \A k \in DOMAIN Read(symbol) : symbol \in {AnySymbol, Read(symbol)[k].sym}
  <2>1. FileOK(file)
    BY <1>4, Zenon DEF StoreInv, DiskInv
  <2>2. /\ Read(symbol) \in Seq(Record)
        /\ \A k, l \in DOMAIN Read(symbol) : k < l => Read(symbol)[k].n < Read(symbol)[l].n
        /\ \A k \in DOMAIN Read(symbol) : symbol \in {AnySymbol, Read(symbol)[k].sym}
    BY <1>3, <2>1, ReadTicks, Zenon
  <2> HIDE DEF Read
  <2> QED
    BY <2>2, NumbersDiffer, Zenon
<1>5. ticks' \in Seq(Record) /\ Distinct(ticks')
  <2>1. CASE file = None
    <3>1. <<>> \in Seq(Record) /\ DOMAIN <<>> = {}
      OBVIOUS
    <3>2. ticks' = <<>>
      BY <1>2, <2>1, Zenon
    <3> QED
      BY <3>1, <3>2, Zenon
  <2>2. CASE file # None
    <3>1. \/ ticks' = Read(AnySymbol) \/ ticks' = Read("A")
          \/ ticks' = Read("A") \o Read("B")
      BY <1>2, <2>2, Zenon
    <3> HIDE DEF Read
    <3>2. \A symbol : Read(symbol) \in Seq(Record) /\ Distinct(Read(symbol))
      BY <1>4, <2>2, Zenon
    <3>3. \A k \in DOMAIN Read("A"), l \in DOMAIN Read("B") : Read("A")[k] # Read("B")[l]
      <4>1. \A k \in DOMAIN Read("A") : Read("A")[k].sym = "A"
        <5>1. "A" # AnySymbol
          BY DEF AnySymbol
        <5> QED
          BY <1>4, <2>2, <5>1, Zenon
      <4>2. \A k \in DOMAIN Read("B") : Read("B")[k].sym = "B"
        <5>1. "B" # AnySymbol
          BY DEF AnySymbol
        <5> QED
          BY <1>4, <2>2, <5>1, Zenon
      <4>3. "A" # "B"
        OBVIOUS
      <4> QED
        BY <4>1, <4>2, <4>3, Zenon
    <3>4. Read("A") \o Read("B") \in Seq(Record) /\ Distinct(Read("A") \o Read("B"))
      BY <3>2, <3>3, StreamsDiffer, Zenon
    <3> QED
      BY <3>1, <3>2, <3>4, Zenon
  <2> QED
    BY <2>1, <2>2, Zenon
<1>6. \A heap \in SUBSET (DOMAIN ticks') :
         heap # {} => \E i \in heap : \A j \in heap : ticks'[i].ts <= ticks'[j].ts
  BY <1>5, EarliestOf, Zenon
<1> QED
  BY <1>1, <1>5, <1>6, Zenon DEF TicksInv

\* A replay, from its loading to the flush of the bars.
ReplayInv == PlayInv /\ OrderInv /\ SkipInv /\ StopInv /\ TimeInv /\ BarsInv

\* add_stream or load, before anything else.
LEMMA LoadStep ==
    ASSUME StoreInv, ReplayInv, Load
    PROVE  ReplayInv'
<1>1. /\ pub.pc = "idle" /\ ticks = <<>> /\ pub' = [pub EXCEPT !.pc = "loaded"]
      /\ UNCHANGED store_vars /\ UNCHANGED flags /\ clock' = clock /\ caller' = caller
      /\ published' = published /\ bars' = bars /\ emitted' = emitted /\ history' = history
  BY Zenon DEF Load, At, Go
<1>2. /\ config' = config
      /\ running' = running /\ paused' = paused /\ merging' = merging /\ seek_target' = seek_target
  BY <1>1, Zenon DEF store_vars, flags
<1>3. PlayInv /\ OrderInv /\ SkipInv /\ StopInv /\ TimeInv /\ BarsInv
  BY Zenon DEF ReplayInv
<1>4. /\ pub'.pc = "loaded" /\ pub'.heap = pub.heap /\ pub'.cur = pub.cur
      /\ pub'.started = pub.started
  BY <1>1, <1>3, GoneOn, Zenon
<1>5. /\ ~ Holding' /\ "loaded" \in ThreadPc
      /\ pub'.pc \notin {"start", "merge", "end", "done", "sleep", "publish", "emit"}
      /\ pub.pc # "done"
  BY <1>1, <1>4 DEF Holding, ThreadPc
<1>6. TicksInv'
  BY <1>3, LoadedTicks, Zenon DEF PlayInv
<1>7. PlayInv'
  <2>1. pub \in Thread /\ (pub.started => clock.running)
    BY <1>3, Zenon DEF PlayInv, ThreadInv
  <2>2. pub.heap = {}
    <3>1. DOMAIN <<>> = {}
      OBVIOUS
    <3> QED
      BY <1>1, <2>1, <3>1, Zenon DEF Thread
  <2>3. pub' \in Thread'
    BY <1>1, <1>2, <1>5, <2>1, <2>2, Zenon DEF Thread, engine
  <2>4. ThreadInv'
    <3>1. pub'.pc # "start"
      BY <1>4
    <3> QED
      BY <1>1, <1>4, <1>5, <2>1, <2>3, <3>1, Zenon DEF ThreadInv
  <2>5. ClockInv'
    BY <1>1, <1>2, <1>3, Zenon DEF PlayInv, ClockInv
  <2> QED
    BY <1>6, <2>4, <2>5, Zenon DEF PlayInv
<1>8. OrderInv'
  BY <1>1, <1>3, <1>5, OrderStarts, Zenon
<1>9. SkipInv'
  BY <1>1, <1>2, <1>3, <1>5, Zenon DEF SkipInv
<1>10. StopInv'
  BY <1>1, <1>3, StopEarly, Zenon
<1>11. TimeInv'
  BY <1>1, <1>3, <1>5, TimeKept, Zenon
<1>12. BarsInv'
  BY <1>1, <1>3, <1>5, BarsKept, Zenon
<1> QED
  BY <1>7, <1>8, <1>9, <1>10, <1>11, <1>12, Zenon DEF ReplayInv

\* Nothing of a replay changes.
LEMMA ReplayKept ==
    ASSUME ReplayInv, config' = config, UNCHANGED play_vars
    PROVE  ReplayInv'
<1>1. /\ ticks' = ticks /\ UNCHANGED flags /\ pub' = pub /\ clock' = clock /\ caller' = caller
      /\ published' = published /\ bars' = bars /\ emitted' = emitted /\ history' = history
  BY Zenon DEF play_vars
<1>2. /\ running' = running /\ paused' = paused /\ merging' = merging /\ seek_target' = seek_target
  BY <1>1, Zenon DEF flags
<1>3. PlayInv /\ OrderInv /\ SkipInv /\ StopInv /\ TimeInv /\ BarsInv
  BY Zenon DEF ReplayInv
<1>4. PlayInv'
  BY <1>3, PlayKept, Zenon
<1>5. OrderInv'
  BY <1>1, <1>3, OrderKept, Zenon DEF Holding
<1>6. SkipInv'
  BY <1>1, <1>2, <1>3, Zenon DEF SkipInv, Holding, Taken, engine
<1>7. StopInv'
  BY <1>1, <1>2, <1>3, Zenon DEF StopInv
<1>8. TimeInv'
  BY <1>1, <1>3, Zenon DEF TimeInv
<1>9. BarsInv'
  BY <1>1, <1>3, BarsKept, Zenon
<1> QED
  BY <1>4, <1>5, <1>6, <1>7, <1>8, <1>9, Zenon DEF ReplayInv

\* Recording does not touch a replay.
LEMMA RecordKeeps == ASSUME RecordStep PROVE config' = config /\ UNCHANGED play_vars
<1>1. StoreNext /\ UNCHANGED play_vars
  BY Zenon DEF RecordStep
<1>2. ASSUME NEW sym \in SymbolSet, NEW ts \in Times, EventTest(sym, ts) \/ StoreWrite(sym, ts)
      PROVE  config' = config
  BY <1>2, Zenon DEF EventTest, StoreWrite
<1>3. CASE Start \/ EventWrite \/ StopStore \/ StopClose \/ StopReset
  BY <1>1, <1>3, Zenon DEF Start, EventWrite, StopStore, StopClose, StopReset
<1>4. CASE Spill \/ Crash \/ StoreOpen \/ StoreFlush \/ StoreClose
  BY <1>1, <1>4, Zenon DEF Spill, Crash, StoreOpen, StoreFlush, StoreClose
<1>5. CASE StoreRebuild
  <2>1. UNCHANGED <<config, recording, ev, ctl, made, left>>
    BY <1>5, Zenon DEF StoreRebuild
  <2> QED
    BY <1>1, <2>1, Zenon
<1> QED
  BY <1>1, <1>2, <1>3, <1>4, <1>5, Zenon DEF StoreNext

\* Every step keeps ReplayInv.
LEMMA ReplayInvStep ==
    ASSUME StoreInv, ReplayInv, [DataNext]_data_vars
    PROVE  ReplayInv'
<1>1. CASE RecordStep
  BY <1>1, RecordKeeps, ReplayKept, Zenon
<1>2. CASE ReplayStep
  <2>1. Load \/ Onward
    BY <1>2, Zenon DEF ReplayStep, Onward
  <2>2. CASE Onward
    BY <2>2, OrderStep, SkipStep, TimeStep, BarsStep, Zenon DEF ReplayInv
  <2> QED
    BY <2>1, <2>2, LoadStep, Zenon
<1>3. CASE UNCHANGED vars
  BY <1>3, ReplayKept, Zenon DEF vars, store_vars
<1> QED
  BY <1>1, <1>2, <1>3, PartsMove, Zenon

\* Nothing is loaded at the beginning.
LEMMA ReplayStarts == ASSUME DataInit PROVE ReplayInv
<1>1. /\ config \in Configs /\ ticks = <<>> /\ running = FALSE /\ paused = FALSE
      /\ seek_target = 0 /\ merging = FALSE
      /\ pub = [pc |-> "idle", heap |-> {}, cur |-> 0, started |-> FALSE]
      /\ clock = [running |-> FALSE, speed |-> config.speed, origin |-> 0,
                  elapsed |-> 0, manual |-> 0, sleep |-> 0]
      /\ caller = "no" /\ published = <<>> /\ bars = [s \in SymbolSet |-> None] /\ emitted = {}
      /\ history = [seeks |-> {}, stopped |-> "no", late |-> FALSE, slowed |-> FALSE, early |-> FALSE]
  BY Zenon DEF DataInit, Init, StoreInit
<1>2. /\ <<>> \in Seq(Record) /\ DOMAIN <<>> = {} /\ 0 \in Nat
      /\ config.speed \in Nat /\ MaxElapsed \in Nat
  BY <1>1, ClockAssumption
<1>3. /\ pub.pc = "idle" /\ pub.heap = {} /\ pub.cur = 0 /\ pub.started = FALSE
  BY <1>1, Zenon
<1>4. /\ ~ Holding /\ "idle" \in ThreadPc
      /\ pub.pc \notin {"start", "merge", "end", "done", "sleep", "publish", "emit"}
  BY <1>3 DEF Holding, ThreadPc
<1>5. Range(<<>>) = {}
  BY <1>2, Zenon DEF Range
<1>6. TicksInv
  BY <1>1, <1>2, Zenon DEF TicksInv
<1>7. ThreadInv
  <2>1. pub \in Thread
    BY <1>1, <1>2, <1>4, Zenon DEF Thread
  <2>2. pub.pc # "start"
    BY <1>3
  <2> QED
    BY <1>3, <1>4, <2>1, <2>2, Zenon DEF ThreadInv
<1>8. ClockInv
  BY <1>1, <1>2, Zenon DEF ClockInv, Clock
<1>9. OrderInv
  <2>1. PublishedInTimeOrder
    BY <1>1, <1>2, <1>5, Zenon DEF PublishedInTimeOrder
  <2> QED
    BY <1>1, <1>2, <1>4, <2>1, Zenon DEF OrderInv
<1>10. SkipInv
  <2>1. caller # "merger"
    BY <1>1
  <2> QED
    BY <1>1, <1>4, <2>1, Zenon DEF SkipInv
<1>11. StopInv
  <2>1. /\ history.stopped = "no" /\ history.late = FALSE
    BY <1>1, Zenon
  <2>2. history.stopped # "yes" /\ history.stopped # "emit"
    BY <2>1
  <2>3. history \in History
    BY <1>1, Zenon DEF History
  <2> QED
    BY <2>1, <2>2, <2>3, Zenon DEF StopInv
<1>12. TimeInv
  <2>1. /\ clock.elapsed = 0 /\ clock.running = FALSE /\ history.early = FALSE
    BY <1>1, Zenon
  <2>2. Anchored(clock)
    <3>1. 0 <= MaxElapsed
      BY <1>2
    <3> QED
      BY <2>1, <3>1, Zenon DEF Anchored
  <2>3. OnSchedule(clock, pub.pc, ticks[pub.cur].ts)
    BY <1>4, NoSchedule, Zenon
  <2> QED
    BY <2>1, <2>2, <2>3, Zenon DEF TimeInv
<1>13. BarsInv
  <2>1. BarsAgree(<<>>, bars, {})
    BY <1>1, <1>2, Zenon DEF BarsAgree
  <2>2. Known(bars, {}) = TickBars(<<>>)
    BY <1>2, <2>1, BarsSay, Zenon
  <2> QED
    BY <1>1, <2>1, <2>2, Zenon DEF BarsInv, BarsMatchTicks, Known, TickBars
<1> QED
  BY <1>6, <1>7, <1>8, <1>9, <1>10, <1>11, <1>12, <1>13, Zenon DEF ReplayInv, PlayInv

\* ReplayInv holds always.
LEMMA ReplayHolds == DataSpec => []ReplayInv
<1>1. DataInit => ReplayInv
  BY ReplayStarts
<1>2. StoreInv /\ ReplayInv /\ [DataNext]_data_vars => ReplayInv'
  BY ReplayInvStep
<1> QED
  BY <1>1, <1>2, StoreHolds, PTL DEF DataSpec

\* A replay publishes the recorded ticks in the order of time, none twice, none
\* missed but by a stop or a seek, none after a stop, none early but by a change
\* of speed, and the bars are those of the ticks (replay_publisher.cpp and
\* replay_engine.cpp: start; bar_aggregator.cpp: add_tick and flush).
THEOREM ReplayCorrect == DataSpec => []ReplayIsFaithful
<1>1. ReplayInv => ReplayIsFaithful
  <2> SUFFICES ASSUME ReplayInv PROVE ReplayIsFaithful
    OBVIOUS
  <2>1. PlayInv /\ OrderInv /\ SkipInv /\ StopInv /\ TimeInv /\ BarsInv
    BY Zenon DEF ReplayInv
  <2>2. PublishedInTimeOrder
    BY <2>1, Zenon DEF OrderInv
  <2>3. NothingSkipped
    <3> SUFFICES ASSUME pub.pc = "done", history.stopped = "no"
                 PROVE  \A i \in DOMAIN ticks :
                            \/ ticks[i] \in Range(published)
                            \/ \E target \in history.seeks : ticks[i].ts < target
      BY Zenon DEF NothingSkipped, At
    <3>1. ~ Holding
      BY DEF Holding
    <3>2. pub.heap = {} /\ Taken
      BY <2>1, Zenon DEF SkipInv
    <3> QED
      BY <3>1, <3>2, Zenon DEF Taken
  <2>4. QuietAfterStop
    BY <2>1, Zenon DEF StopInv, QuietAfterStop
  <2>5. OnTime
    BY <2>1, Zenon DEF TimeInv, OnTime
  <2>6. BarsMatchTicks
    BY <2>1, Zenon DEF BarsInv
  <2> QED
    BY <2>2, <2>3, <2>4, <2>5, <2>6, Zenon DEF ReplayIsFaithful
<1> QED
  BY <1>1, ReplayHolds, PTL

------------------------------------------------------------------------------
\* The tick files.

\* All records of the file, in every state.
LEMMA ContentsAre ==
    ASSUME StoreInv
    PROVE  /\ writer # None => Contents = Held(writer)
           /\ writer = None /\ file # None => Contents = file.data
           /\ writer = None /\ file = None => Contents = <<>>
<1>1. CASE writer # None
  BY <1>1, DiskOpen, Zenon DEF StoreInv, Contents, Held
<1>2. CASE writer = None /\ file # None
  <2>1. file.data \in Seq(Record)
    BY <1>2, FileData, Zenon DEF StoreInv, DiskInv
  <2>2. file.data \o <<>> = file.data
    BY <2>1
  <2> QED
    BY <1>2, <2>2, Zenon DEF Contents, Disk
<1>3. CASE writer = None /\ file = None
  BY <1>3, Zenon DEF Contents, Disk
<1> QED
  BY <1>1, <1>2, <1>3, Zenon

\* The file on the disk has its safe part.
LEMMA DiskFile ==
    ASSUME StoreInv, Disk # None
    PROVE  /\ Disk \in File /\ Disk.safe \in 0 .. Len(Disk.data)
           /\ promised \in Nat /\ promised <= Disk.safe
<1>1. Disk \in File /\ Disk.safe <= Len(Disk.data)
  <2>1. CASE writer # None
    <3>1. Disk = writer.file /\ WriterOK(writer)
      BY <2>1, DiskOpen, Zenon DEF StoreInv, RecordsInv
    <3> QED
      BY <3>1, WriterParts, Zenon DEF WriterOK
  <2>2. CASE writer = None
    <3>1. Disk = file /\ FileOK(file)
      BY <2>2, Zenon DEF StoreInv, DiskInv, Disk
    <3>2. Len(file.data) \in Nat
      BY <3>1, FileData, Zenon
    <3>3. Len(file.data) <= Len(file.data)
      BY <3>2
    <3> QED
      BY <3>1, <3>3, Zenon DEF FileOK
  <2> QED
    BY <2>1, <2>2, Zenon
<1>2. Disk.data \in Seq(Record) /\ Disk.safe \in Nat
  BY <1>1, Zenon DEF File
<1>3. Disk.safe \in 0 .. Len(Disk.data)
  BY <1>1, <1>2
<1> QED
  BY <1>1, <1>3, Zenon DEF StoreInv, DiskInv

\* A tick file is sound at every moment, and so is what a crash leaves of it:
\* what flush or close has written is there, in order, at the offsets that the
\* store has indexed, under an honest header (tick_recorder.cpp, tick_store.cpp
\* and BinaryWriter: write, flush, flush_buffer, close).
THEOREM FilesCorrect == DataSpec => []FilesAreSound
<1>1. StoreInv /\ ReplayInv /\ JournalInv /\ RotationInv => FilesAreSound
  <2> SUFFICES ASSUME StoreInv, ReplayInv, JournalInv, RotationInv PROVE FilesAreSound
    OBVIOUS
  <2>1. TypeOK
    <3>1. /\ clock \in Clock /\ running \in BOOLEAN /\ paused \in BOOLEAN /\ merging \in BOOLEAN
      BY Zenon DEF ReplayInv, PlayInv, ClockInv
    <3>2. clock.speed \in Nat /\ clock.sleep \in Nat
      BY <3>1, Zenon DEF Clock
    <3>3. {recording, running, paused, merging} \subseteq BOOLEAN
      BY <3>1, Zenon DEF StoreInv, ThreadsInv
    <3>4. next_sequence \in Nat \ {0} /\ last_day \in -1 .. Month - 1 /\ dirs \subseteq 0 .. MaxDay
      BY Zenon DEF JournalInv, RotationInv
    <3>5. owner \in {"nobody", "recorder", "store"} /\ (writer = None <=> owner = "nobody")
      BY Zenon DEF StoreInv, ThreadsInv
    <3> QED
      BY <3>2, <3>3, <3>4, <3>5, DiskFile, Zenon DEF TypeOK
  <2>2. FlushedSurvives
    <3> SUFFICES ASSUME Disk # None PROVE Len(Survived(Disk).data) >= promised
      BY Zenon DEF FlushedSurvives
    <3>1. Disk \in File /\ Disk.safe \in 0 .. Len(Disk.data) /\ promised \in Nat /\ promised <= Disk.safe
      BY DiskFile, Zenon
    <3>2. Disk.data \in Seq(Record)
      BY <3>1, Zenon DEF File
    <3>3. Survived(Disk).data = SubSeq(Disk.data, 1, Disk.safe)
      BY <3>1, Zenon DEF Survived, File
    <3>4. Len(SubSeq(Disk.data, 1, Disk.safe)) = Disk.safe
      BY <3>1, <3>2
    <3> QED
      BY <3>1, <3>3, <3>4
  <2>3. RecordedInOrder
    <3>1. CASE writer # None
      BY <3>1, ContentsAre, HeldInOrder, Zenon DEF RecordedInOrder, InOrder, StoreInv
    <3>2. CASE writer = None /\ file # None
      BY <3>2, ContentsAre, Zenon DEF RecordedInOrder, FileOK, InOrder, StoreInv, DiskInv
    <3>3. CASE writer = None /\ file = None
      <4>1. DOMAIN <<>> = {}
        OBVIOUS
      <4> QED
        BY <3>3, <4>1, ContentsAre, Zenon DEF RecordedInOrder
    <3> QED
      BY <3>1, <3>2, <3>3, Zenon
  <2>4. OffsetsHold
    <3> SUFFICES ASSUME owner = "store"
                 PROVE  \A i \in 1 .. writer.count :
                            index[Len(index) - writer.count + i] = Entry(Contents[i], i)
      BY Zenon DEF OffsetsHold
    <3>1. writer # None
      <4>1. "store" # "nobody"
        OBVIOUS
      <4> QED
        BY <4>1, Zenon DEF StoreInv, ThreadsInv
    <3>2. Contents = Held(writer) /\ writer.count = Len(Held(writer)) /\ Located(index, Held(writer))
      BY <3>1, ContentsAre, HeldInOrder, Zenon DEF StoreInv, IndexInv
    <3> QED
      BY <3>2, Zenon DEF Located
  <2>5. HeaderHonest
    BY Zenon DEF HeaderHonest, StoreInv, DiskInv, FileOK
  <2> QED
    BY <2>1, <2>2, <2>3, <2>4, <2>5, Zenon DEF FilesAreSound
<1> QED
  BY <1>1, StoreHolds, ReplayHolds, JournalHolds, RotationHolds, PTL

==============================================================================
