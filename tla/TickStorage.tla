----------------------------- MODULE TickStorage -----------------------------
(***************************************************************************)
(* TickRecorder and TickStore on one file.  The recorder gets its events   *)
(* on the thread that publishes them, while a controller starts and stops  *)
(* it; the flag recording_ is all that keeps them apart.  The store opens  *)
(* the same path, and writes to it when the recorder does not.  A crash    *)
(* ends the process that writes.  The calls of one thread are steps; a     *)
(* write that overlaps a close of the other thread counts as before or     *)
(* after it.                                                               *)
(***************************************************************************)
EXTENDS TickFiles

CONSTANTS
    SymbolSet, Times,   \* of the events
    Configs             \* bounds and choices of a behaviour

Record == [sym : SymbolSet, ts : Times, n : Nat]

File == [head : Nat \cup {None}, data : Seq(Record), safe : Nat]

Writer == [buffer : Seq(Record), count : Nat, next_offset : Nat, file : File]

Index == Seq([ts : Times, offset : Nat])

ASSUME FileAssumption ==
    /\ FlushCount \in Nat /\ Times \subseteq Nat
    /\ None \notin Nat \cup File \cup Writer \cup Index

\* Records in the order in which they came.
InOrder(records) ==
    \A i, j \in DOMAIN records :
        i < j => /\ records[i].ts <= records[j].ts
                 /\ records[i].n < records[j].n

\* What an earlier recording left is such a file.
ASSUME RecordingAssumption ==
    \A c \in Configs : c.data \in Seq(Record) /\ InOrder(c.data)

VARIABLES
    config,      \* [data, events, crashes, opens, ...]: what an earlier
                 \* recording left, and how much happens
    writer,      \* the open writer with its file, or None
    owner,       \* who has the writer: recorder or store
    file,        \* the file while nobody writes to it, None if there is none
    recording,   \* recording_
    ev,          \* on_parsed_event: the event that passed the test, or None
    ctl,         \* stop(): idle, close or reset comes next
    made,        \* events and store writes so far
    index,       \* of the store, None while there is no store
    left,        \* crashes and openings that may still come
    promised     \* records that a flush or a close has made safe

rec_vars == <<writer, owner, file, recording, ev, ctl>>
store_vars == <<config, rec_vars, made, index, left, promised>>

Disk == IF writer # None THEN writer.file ELSE file

\* All records of the file, the buffered ones included.
Contents ==
    IF Disk = None THEN <<>>
    ELSE Disk.data \o (IF writer # None THEN writer.buffer ELSE <<>>)

StoreInit ==
    /\ config \in Configs
    /\ writer = None /\ owner = "nobody"
    /\ file = IF config.data = <<>> THEN None
              ELSE [head |-> Len(config.data), data |-> config.data,
                    safe |-> Len(config.data)]
    /\ recording = FALSE /\ ev = None /\ ctl = "idle"
    /\ made = <<>>
    /\ index = None
    /\ left = [crashes |-> config.crashes, opens |-> config.opens]
    /\ promised = Len(config.data)

------------------------------------------------------------------------------
\* TickRecorder.

\* start: a new writer truncates the file.
Start ==
    /\ ctl = "idle" /\ ~recording /\ writer = None
    /\ left.opens > 0
    /\ left' = [left EXCEPT !.opens = @ - 1]
    /\ writer' = OpenWriter /\ owner' = "recorder"
    /\ promised' = 0
    /\ recording' = TRUE
    /\ UNCHANGED <<config, file, ev, ctl, made, index>>

\* receive_timestamp does not decrease.
NextRecord(sym, ts) ==
    [sym |-> sym, ts |-> ts, n |-> Len(made) + 1]

Later(ts) == \A i \in DOMAIN made : made[i] <= ts

\* The test of recording_ in on_parsed_event.
EventTest(sym, ts) ==
    /\ Len(made) < config.events
    /\ Later(ts)
    /\ ev = None /\ recording
    /\ ev' = NextRecord(sym, ts)
    /\ made' = Append(made, ts)
    /\ UNCHANGED <<config, writer, owner, file, recording, ctl, index, left,
                   promised>>

\* The write.  The writer throws if it was closed since the test.  If it was
\* destroyed, the behaviour is undefined: the process dies.
EventWrite ==
    /\ ev # None
    /\ ev' = None
    /\ \/ /\ owner = "recorder"
          /\ writer' = WriteRecord(writer, ev)
          /\ UNCHANGED <<owner, file, recording, ctl>>
       \/ /\ owner # "recorder" /\ ctl = "reset"
          /\ UNCHANGED <<writer, owner, file, recording, ctl>>
       \/ /\ owner # "recorder" /\ ctl # "reset"
          /\ ctl' = "idle" /\ recording' = FALSE
          /\ UNCHANGED <<writer, owner, file>>
    /\ UNCHANGED <<config, made, index, left, promised>>

StopStore ==
    /\ ctl = "idle" /\ recording
    /\ recording' = FALSE
    /\ ctl' = "close"
    /\ UNCHANGED <<config, writer, owner, file, ev, made, index, left,
                   promised>>

StopClose ==
    /\ ctl = "close"
    /\ ctl' = "reset"
    /\ file' = CloseWriter(writer)
    /\ promised' = writer.count
    /\ writer' = None /\ owner' = "nobody"
    /\ UNCHANGED <<config, recording, ev, made, index, left>>

StopReset ==
    /\ ctl = "reset"
    /\ ctl' = "idle"
    /\ UNCHANGED <<config, writer, owner, file, recording, ev, made, index,
                   left, promised>>

------------------------------------------------------------------------------
\* The C library and the operating system.  Without crashes only close decides
\* what a reader sees.

Spill ==
    /\ writer # None
    /\ config.crashes > 0
    /\ \E n \in writer.file.safe .. Len(writer.file.data) :
          writer' = [writer EXCEPT !.file = Spilled(@, n)]
    /\ UNCHANGED <<config, owner, file, recording, ev, ctl, made, index, left,
                   promised>>

Crash ==
    /\ writer # None
    /\ left.crashes > 0
    /\ left' = [left EXCEPT !.crashes = @ - 1]
    /\ file' = Survived(writer.file)
    /\ writer' = None /\ owner' = "nobody"
    /\ index' = IF owner = "store" THEN None ELSE index
    /\ recording' = FALSE /\ ev' = None /\ ctl' = "idle"
    /\ UNCHANGED <<config, made, promised>>

------------------------------------------------------------------------------
\* TickStore.

\* The constructor indexes the file if there is one.
StoreOpen ==
    /\ index = None
    /\ left.opens > 0
    /\ left' = [left EXCEPT !.opens = @ - 1]
    /\ index' \in build(Disk)
    /\ UNCHANGED <<config, rec_vars, made, promised>>

\* write: the first one makes a writer.
StoreWrite(sym, ts) ==
    LET w == IF writer = None THEN OpenWriter ELSE writer
        record == NextRecord(sym, ts)
    IN  /\ index # None
        /\ owner # "recorder" /\ ctl = "idle" /\ ~recording
        /\ Len(made) < config.events
        /\ Later(ts)
        /\ writer' = WriteRecord(w, record)
        /\ owner' = "store"
        /\ index' = Append(index, Entry(record, OffsetOf(w)))
        /\ made' = Append(made, ts)
        /\ promised' = IF writer = None THEN 0 ELSE promised
        /\ UNCHANGED <<config, file, recording, ev, ctl, left>>

StoreFlush ==
    /\ owner = "store"
    /\ writer' = FlushWriter(writer)
    /\ promised' = writer.count
    /\ UNCHANGED <<config, owner, file, recording, ev, ctl, made, index, left>>

\* close, by the caller or by the destructor.
StoreClose ==
    /\ owner = "store"
    /\ file' = CloseWriter(writer)
    /\ promised' = writer.count
    /\ writer' = None /\ owner' = "nobody"
    /\ UNCHANGED <<config, recording, ev, ctl, made, index, left>>

\* rebuild_index closes the writer first.
StoreRebuild ==
    /\ index # None
    /\ owner # "recorder"
    /\ IF owner = "store"
       THEN /\ file' = CloseWriter(writer)
            /\ promised' = writer.count
            /\ writer' = None /\ owner' = "nobody"
       ELSE UNCHANGED <<file, promised, writer, owner>>
    /\ index' \in build(file')
    /\ UNCHANGED <<config, recording, ev, ctl, made, left>>

StoreNext ==
    \/ Start
    \/ \E sym \in SymbolSet, ts \in Times : EventTest(sym, ts)
    \/ EventWrite
    \/ StopStore \/ StopClose \/ StopReset
    \/ Spill \/ Crash
    \/ StoreOpen
    \/ \E sym \in SymbolSet, ts \in Times : StoreWrite(sym, ts)
    \/ StoreFlush \/ StoreClose \/ StoreRebuild

------------------------------------------------------------------------------

\* The header of a file that nobody writes to says how many records it has,
\* or 0 or nothing if the process died before close (write_header).
HeaderHonest ==
    (writer = None /\ file # None) =>
        file.head \in {None, 0, Len(file.data)}

\* What flush or close has written survives a crash at any time (flush: "Flush
\* buffered records to disk").
FlushedSurvives ==
    Disk # None => Len(Survived(Disk).data) >= promised

\* The offsets that write returned, which the store keeps in its index, are
\* where the records are or will be, across buffering, flushes and spills.
OffsetsHold ==
    owner = "store" =>
        \A i \in 1 .. writer.count :
            index[Len(index) - writer.count + i] = Entry(Contents[i], i)

\* The file holds the events in the order in which they came, each once,
\* whatever was flushed, spilled or lost in between (flush_buffer).
RecordedInOrder ==
    \A i, j \in DOMAIN Contents : i < j => Contents[i].n < Contents[j].n

\* A range read by a store that opens now returns the records in the range in their
\* order, and misses none but some with the smallest timestamp: the sort of
\* build may put the last of those first (read_range).
MissesOnlyTies ==
    (file # None /\ index = None) =>
        \A idx \in build(file), sym \in SymbolSet \cup {AnySymbol},
           start, end \in Times :
            LET got == read_range(idx, file, sym, start, end)
                wanted == {r \in Range(file.data) : Wanted(r, sym, start, end)}
            IN  /\ Range(got) \subseteq wanted
                /\ \A i, j \in DOMAIN got : i < j => got[i].n < got[j].n
                /\ \A r \in wanted \ Range(got) :
                       /\ \A q \in Range(got) : r.n < q.n
                       /\ \A q \in Range(file.data) :
                             q.ts >= start => r.ts <= q.ts

\* What the comment on TickStore::write says: it appends to the file.
WriteAppends ==
    [][(owner # "store" /\ owner' = "store") =>
            /\ Len(Contents) <= Len(Contents')
            /\ SubSeq(Contents', 1, Len(Contents)) = Contents]_store_vars

==============================================================================
