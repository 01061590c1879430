------------------------------ MODULE TickFiles ------------------------------
(***************************************************************************)
(* A file of ticks as BinaryWriter writes it, TimeIndex indexes it and     *)
(* TickStore reads it.  An offset is the number of the record, counted     *)
(* from 1; 0 is the place of the header.  A file:                          *)
(*   head   the record count of the header on the disk, None if there is   *)
(*          no header yet                                                  *)
(*   data   the records given to fwrite                                    *)
(*   safe   how many of them have left the buffer of the C library         *)
(* A crash keeps what is safe.  A record that is torn by the crash is not  *)
(* read (fread returns 0), so it counts as missing.                        *)
(***************************************************************************)
EXTENDS Integers, Sequences, FiniteSetsExt

CONSTANTS
    FlushCount,   \* flush_count of the writer
    None          \* no header, no writer, no file

------------------------------------------------------------------------------
\* BinaryWriter.  w is the writer and its file; file_ is open while it exists.

\* The constructor truncates the file; its header is still in the C buffer.
OpenWriter ==
    [buffer |-> <<>>, count |-> 0, next_offset |-> 1,
     file |-> [head |-> None, data |-> <<>>, safe |-> 0]]

flush_buffer(w) ==
    [w EXCEPT !.file.data = @ \o w.buffer,
              !.next_offset = @ + Len(w.buffer),
              !.buffer = <<>>]

\* The offset that write returns.
OffsetOf(w) == w.next_offset + Len(w.buffer)

WriteRecord(w, record) ==
    LET added == [w EXCEPT !.buffer = Append(@, record), !.count = @ + 1]
    IN  IF Len(added.buffer) >= FlushCount THEN flush_buffer(added) ELSE added

\* The C library may write out more of its buffer at any time.
Spilled(file, n) == [file EXCEPT !.head = IF @ = None THEN 0 ELSE @, !.safe = n]

AllSafe(file) == Spilled(file, Len(file.data))

\* A bug of flush: the C library keeps the records.
FlushWriterHalf(w) == flush_buffer(w)

FlushWriter(w) ==
    LET flushed == flush_buffer(w)
    IN  [flushed EXCEPT !.file = AllSafe(flushed.file)]

\* write_header seeks, which empties the C buffer, and writes the count.
CloseWriter(w) == [FlushWriter(w).file EXCEPT !.head = w.count]

\* What a crash leaves.
Survived(file) ==
    [file EXCEPT !.data = SubSeq(@, 1, file.safe)]

------------------------------------------------------------------------------
\* TimeIndex: a sequence of entries.

Entry(record, offset) == [ts |-> record.ts, offset |-> offset]

Sorted(entries) ==
    \A i, j \in DOMAIN entries : i < j => entries[i].ts <= entries[j].ts

\* A file can only be indexed if it has a header.
Indexable(file) == file # None /\ file.head # None

\* build: std::sort leaves entries with equal timestamps in any order.
build(file) ==
    IF ~Indexable(file) THEN {<<>>}
    ELSE LET entries == [i \in DOMAIN file.data |-> Entry(file.data[i], i)]
         IN  {s \in {[i \in DOMAIN entries |-> entries[p[i]]] :
                        p \in {q \in [DOMAIN entries -> DOMAIN entries] :
                                  IsInjective(q)}} : Sorted(s)}

\* A bug of find: the entry after the one that was looked for.
findAfter(index, target) ==
    LET found == {i \in DOMAIN index : index[i].ts > target}
    IN  IF found = {} THEN 0 ELSE index[Min(found)].offset

\* find: binary search for the first entry that is not before target.
find(index, target) ==
    LET found == {i \in DOMAIN index : index[i].ts >= target}
    IN  IF found = {} THEN 0 ELSE index[Min(found)].offset

\* TickStore::read_range: from the record found, those that are wanted, until
\* one is too late.  AnySymbol is the default symbol.
AnySymbol == "all"

Wanted(record, symbol, start, end) ==
    /\ record.ts >= start
    /\ record.ts <= end
    /\ symbol \in {AnySymbol, record.sym}

read_range(index, file, symbol, start, end) ==
    LET data == Survived(file).data
        from == find(index, start)
        result[i \in 1 .. Len(data) + 1] ==
            IF i > Len(data) \/ data[i].ts > end THEN <<>>
            ELSE IF Wanted(data[i], symbol, start, end)
            THEN <<data[i]>> \o result[i + 1]
            ELSE result[i + 1]
    IN  IF from \in DOMAIN data THEN result[from] ELSE <<>>

==============================================================================
