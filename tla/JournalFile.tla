---------------------------- MODULE JournalFile ----------------------------
(***************************************************************************)
(* The order journal in memory and in its file.  flush_to_file truncates   *)
(* the file and writes all of it; a process that dies meanwhile leaves the *)
(* first entries, or a file that is not a journal.  load_from_file keeps   *)
(* the entries it could read even when it fails.  An entry is its sequence *)
(* number and its order.                                                   *)
(***************************************************************************)
EXTENDS Integers, Sequences, FiniteSetsExt

CONSTANTS
    OrderIds,
    MaxEntries, MaxFlushes   \* bounds: calls of append and flush_to_file

VARIABLES
    entries,          \* entries_
    by_order,         \* index_: for each order the places of its entries
    next_sequence,
    saved,            \* {the entries in the file}, {} if it is not a journal
    past              \* [appends, flushes, kept]: kept was flushed last

journal == <<entries, by_order, next_sequence>>
journal_vars == <<journal, saved, past>>

Forgotten ==
    /\ entries' = <<>>
    /\ by_order' = [o \in OrderIds |-> <<>>]
    /\ next_sequence' = 1

JournalInit ==
    /\ entries = <<>>
    /\ by_order = [o \in OrderIds |-> <<>>]
    /\ next_sequence = 1
    /\ saved = {}
    /\ past = [appends |-> 0, flushes |-> 0, kept |-> <<>>]

JournalAppend(order) ==
    /\ past.appends < MaxEntries
    /\ past' = [past EXCEPT !.appends = @ + 1]
    /\ entries' = Append(entries, [seq |-> next_sequence, order |-> order])
    /\ by_order' = [by_order EXCEPT ![order] = Append(@, Len(entries) + 1)]
    /\ next_sequence' = next_sequence + 1
    /\ UNCHANGED saved

flush_to_file ==
    /\ past.flushes < MaxFlushes
    /\ past' = [past EXCEPT !.flushes = @ + 1, !.kept = entries]
    /\ saved' = {entries}
    /\ UNCHANGED journal

\* The process dies in flush_to_file.
FlushDies ==
    /\ past.flushes < MaxFlushes
    /\ past' = [past EXCEPT !.flushes = @ + 1, !.kept = entries]
    /\ saved' \in {{}} \cup {{SubSeq(entries, 1, n)} : n \in 0 .. Len(entries)}
    /\ Forgotten

\* The process dies at another time.
ProcessDies ==
    /\ entries # <<>>
    /\ Forgotten
    /\ UNCHANGED <<saved, past>>

PlacesOf(list, order) ==
    LET places[n \in 0 .. Len(list)] ==
            IF n = 0 THEN <<>>
            ELSE IF list[n].order = order THEN Append(places[n - 1], n)
            ELSE places[n - 1]
    IN  places[Len(list)]

\* A bug of the loading: the places of the old entries are kept.
load_from_fileAdds ==
    /\ \E list \in saved :
          /\ entries' = list
          /\ by_order' = [o \in OrderIds |-> by_order[o] \o PlacesOf(list, o)]
          /\ next_sequence' = Max({1} \cup {list[i].seq + 1 : i \in DOMAIN list})
    /\ UNCHANGED <<saved, past>>

\* Another file leaves the journal as it is.
load_from_file ==
    /\ \E list \in saved :
          /\ entries' = list
          /\ by_order' = [o \in OrderIds |-> PlacesOf(list, o)]
          /\ next_sequence' = Max({1} \cup {list[i].seq + 1 : i \in DOMAIN list})
    /\ UNCHANGED <<saved, past>>

JournalNext ==
    \/ \E order \in OrderIds : JournalAppend(order)
    \/ flush_to_file
    \/ FlushDies
    \/ ProcessDies
    \/ load_from_file

get_history(order) ==
    [i \in DOMAIN by_order[order] |-> entries[by_order[order][i]]]

------------------------------------------------------------------------------

\* Sequence numbers increase through appends, restarts and loads, also of a
\* file that was cut short ("a monotonically increasing sequence number").
SequencesIncrease ==
    /\ \A i, j \in DOMAIN entries : i < j => entries[i].seq < entries[j].seq
    /\ \A i \in DOMAIN entries : entries[i].seq < next_sequence

\* The history of an order is all its entries, oldest first: index_ agrees
\* with entries_ after every load (get_history).
HistoryIsComplete ==
    \A o \in OrderIds :
        LET list == get_history(o) IN
        /\ Range(list) = {e \in Range(entries) : e.order = o}
        /\ \A i, j \in DOMAIN list : i < j => list[i].seq < list[j].seq

\* The journal, its numbers and its index stay consistent, whatever file was
\* loaded and wherever it was cut (append and load_from_file).
JournalIsSound == SequencesIncrease /\ HistoryIsComplete

==============================================================================
