---------------------------- MODULE SequencedFeed ----------------------------
(***************************************************************************)
(* The wire format between the simulator and the handler: Batcher packs    *)
(* messages into datagrams and numbers them (src/protocol/batcher.cpp), a  *)
(* UDP network loses, duplicates and reorders datagrams, FrameParser takes *)
(* them apart (frame_parser.hpp) and SequenceTracker watches the numbers   *)
(* (sequence.cpp).  Of a buffer only the cell where a message starts is    *)
(* kept, with the length field that its header holds there; cells of       *)
(* earlier batches stay in the buffer, as they do in the code.             *)
(***************************************************************************)
EXTENDS Integers, Sequences, SequencesExt, FiniteSets, FiniteSetsExt

CONSTANTS
    MaxSize,            \* max_size_, the size of a datagram
    BatchHeaderSize,    \* sizeof(BatchHeader)
    HeaderSize,         \* sizeof(MessageHeader)
    MessageLength,      \* the wire sizes of the messages
    SeqRange,           \* 2^64: sequence numbers are uint64_t
    MaxMessages,        \* bound: messages offered to the batcher
    MaxDuplicates,      \* bound: datagrams that the tracker calls duplicates
    None

ASSUME SizeAssumption ==
    /\ {MaxSize, BatchHeaderSize, HeaderSize, MaxMessages, MaxDuplicates} \subseteq Nat
    /\ SeqRange \in Nat \ {0}
    /\ HeaderSize > 0
    /\ \A l \in MessageLength : l \in Nat /\ l >= HeaderSize

VARIABLES
    offered,    \* the messages accepted by add_and_flush, in order
    buffer, write_pos, msg_count, seq_num,      \* Batcher
    sent,       \* history: every datagram that was sent, in order
    network,    \* datagrams that may still arrive, by their place in sent
    tracker,    \* SequenceTracker
    received,   \* history: the datagrams that reached the tracker, by place
    accepted,   \* history: those that it did not call duplicates
    status      \* what check returned, and for which datagram

batcher == <<offered, buffer, write_pos, msg_count, seq_num>>
history == <<received, accepted, status>>
vars == <<batcher, sent, network, tracker, history>>

FreshTracker ==
    [expected |-> 0, initialized |-> FALSE, gaps |-> <<>>, total_gap |-> 0, duplicates |-> 0]

Init ==
    /\ offered = <<>>
    /\ buffer = [p \in 0 .. MaxSize - 1 |-> None]
    /\ write_pos = BatchHeaderSize
    /\ msg_count = 0
    /\ seq_num = 0
    /\ sent = <<>>
    /\ network = {}
    /\ tracker = FreshTracker
    /\ received = {}
    /\ accepted = {}
    /\ status = None

-----------------------------------------------------------------------------
(* write_header and the callback: the datagram is a copy of the buffer up  *)
(* to write_pos_.                                                          *)
Datagram ==
    [seq_num |-> seq_num, msg_count |-> msg_count, total_len |-> write_pos,
     cells |-> [p \in 0 .. write_pos - 1 |-> buffer[p]]]

Send ==
    /\ sent' = Append(sent, Datagram)
    /\ network' = network \cup {Len(sent) + 1}
    /\ seq_num' = (seq_num + 1) % SeqRange

Put(message, pos) ==
    /\ buffer' = [buffer EXCEPT ![pos] = message]
    /\ write_pos' = pos + message.len

(* Mutant of AddAndFlush: the message that does not fit is dropped.        *)
AddAndFlushDrops(len) ==
    LET message == [id |-> Len(offered) + 1, len |-> len] IN
    /\ Len(offered) < MaxMessages
    /\ BatchHeaderSize + len <= MaxSize
    /\ offered' = Append(offered, message)
    /\ IF write_pos + len > MaxSize
       THEN /\ Send
            /\ write_pos' = BatchHeaderSize
            /\ msg_count' = 0
            /\ UNCHANGED buffer
       ELSE /\ Put(message, write_pos)
            /\ msg_count' = msg_count + 1
            /\ UNCHANGED <<sent, network, seq_num>>
    /\ UNCHANGED <<tracker, history>>

(* add_and_flush; a message that fits no datagram is refused.  A batch     *)
(* that has no room left is never empty, so flush(callback) does send it.  *)
AddAndFlush(len) ==
    LET message == [id |-> Len(offered) + 1, len |-> len] IN
    /\ Len(offered) < MaxMessages
    /\ BatchHeaderSize + len <= MaxSize
    /\ offered' = Append(offered, message)
    /\ IF write_pos + len > MaxSize
       THEN /\ Send
            /\ Put(message, BatchHeaderSize)
            /\ msg_count' = 1
       ELSE /\ Put(message, write_pos)
            /\ msg_count' = msg_count + 1
            /\ UNCHANGED <<sent, network, seq_num>>
    /\ UNCHANGED <<tracker, history>>

(* flush(callback), at the end of MarketSimulator::run.                    *)
Flush ==
    /\ msg_count > 0
    /\ Send
    /\ write_pos' = BatchHeaderSize
    /\ msg_count' = 0
    /\ UNCHANGED <<offered, buffer, tracker, history>>

-----------------------------------------------------------------------------
(* FrameParser::parse: walk from message to message by the length field.   *)
FrameAt(d) ==
    LET walk[offset \in BatchHeaderSize .. d.total_len] ==
            IF offset + HeaderSize > d.total_len \/ d.cells[offset] = None THEN <<>>
            ELSE LET m == d.cells[offset] IN
                 IF m.len < HeaderSize \/ m.len > d.total_len - offset THEN <<>>
                 ELSE <<m>> \o walk[offset + m.len]
    IN  walk[BatchHeaderSize]

-----------------------------------------------------------------------------
(* Mutant of Check: a gap is recorded with the number that ended it.       *)
CheckGapInclusive(t, seq) ==
    IF ~ t.initialized
    THEN [t EXCEPT !.initialized = TRUE, !.expected = (seq + 1) % SeqRange]
    ELSE IF seq = t.expected THEN [t EXCEPT !.expected = (seq + 1) % SeqRange]
    ELSE IF seq < t.expected THEN [t EXCEPT !.duplicates = @ + 1]
    ELSE [t EXCEPT !.total_gap = @ + (seq - t.expected),
                   !.gaps = Append(@, [from |-> t.expected, to |-> seq]),
                   !.expected = (seq + 1) % SeqRange]

(* SequenceTracker::check                                                  *)
Check(t, seq) ==
    IF ~ t.initialized
    THEN [t EXCEPT !.initialized = TRUE, !.expected = (seq + 1) % SeqRange]
    ELSE IF seq = t.expected THEN [t EXCEPT !.expected = (seq + 1) % SeqRange]
    ELSE IF seq < t.expected THEN [t EXCEPT !.duplicates = @ + 1]
    ELSE [t EXCEPT !.total_gap = @ + (seq - t.expected),
                   !.gaps = Append(@, [from |-> t.expected, to |-> seq - 1]),
                   !.expected = (seq + 1) % SeqRange]

Status(t, next) ==
    IF next.duplicates > t.duplicates THEN "Duplicate"
    ELSE IF Len(next.gaps) > Len(t.gaps) THEN "Gap" ELSE "Ok"

(* A datagram arrives.  It stays in the network, because a copy may arrive *)
(* again later, until it is lost.                                          *)
Arrive ==
    \E i \in network :
        LET next == Check(tracker, sent[i].seq_num) IN
        /\ next.duplicates <= MaxDuplicates
        /\ tracker' = next
        /\ received' = received \cup {i}
        /\ accepted' = IF Status(tracker, next) = "Duplicate" THEN accepted
                       ELSE accepted \cup {i}
        /\ status' = [datagram |-> i, result |-> Status(tracker, next),
                      newest |-> \A j \in received : j < i,
                      again |-> i \in accepted]
        /\ UNCHANGED <<batcher, sent, network>>

Lose ==
    /\ \E i \in network : network' = network \ {i}
    /\ UNCHANGED <<batcher, sent, tracker, history>>

(* SequenceTracker::reset                                                  *)
Reset ==
    /\ tracker' = FreshTracker
    /\ received' = {}
    /\ accepted' = {}
    /\ status' = None
    /\ UNCHANGED <<batcher, sent, network>>

Next ==
    \/ \E len \in MessageLength : AddAndFlush(len)
    \/ Flush \/ Arrive \/ Lose \/ Reset

Spec == Init /\ [][Next]_vars

-----------------------------------------------------------------------------
(* The messages of the datagram being filled, in order.                    *)
Unsent == FrameAt(Datagram)

(* The batcher neither loses, repeats nor reorders a message, whatever the *)
(* sizes: the datagrams sent so far, taken apart by FrameParser, followed  *)
(* by the batch in the buffer, are the messages that were accepted         *)
(* (batcher.cpp:50-65, frame_parser.hpp:33-58).                            *)
NothingLostInBatches ==
    FlattenSeq([i \in DOMAIN sent |-> FrameAt(sent[i])]) \o Unsent = offered

(* No datagram is larger than max_size_ or empty, and the header says how  *)
(* many messages follow, which FrameParser never compares.                 *)
HeadersHonest ==
    \A i \in DOMAIN sent :
        /\ sent[i].total_len <= MaxSize
        /\ sent[i].msg_count = Len(FrameAt(sent[i])) /\ sent[i].msg_count > 0
        /\ sent[i].seq_num = (i - 1) % SeqRange

Missing(gap) == gap.from .. gap.to

(* As long as the numbers do not wrap around, the recorded gaps and the    *)
(* accepted datagrams split what has been seen since the first datagram:   *)
(* no number is in two gaps, none is both accepted and in a gap, none is   *)
(* forgotten, and total_gap_count_ is the size of the gaps                 *)
(* (sequence.cpp:5-36).                                                    *)
GapsAccountForAll ==
    LET taken == {sent[i].seq_num : i \in accepted}
        missing == UNION {Missing(tracker.gaps[g]) : g \in DOMAIN tracker.gaps}
    IN  tracker.initialized =>
            /\ taken # {} /\ taken \cap missing = {}
            /\ taken \cup missing = Min(taken) .. tracker.expected - 1
            /\ Cardinality(missing) = tracker.total_gap

(* No datagram is accepted twice, however often and late it arrives, and   *)
(* one that is newer than all before it is never called a duplicate.       *)
DuplicatesAreOld ==
    status # None =>
        /\ status.again => status.result = "Duplicate"
        /\ status.newest => status.result # "Duplicate"

(* Batching and framing are inverse (add_and_flush, flush and parse).      *)
WireIsFaithful == NothingLostInBatches /\ HeadersHonest

(* What the tracker says of a datagram is so, and its counters add up,     *)
(* whatever the network does (check).                                      *)
TrackerIsHonest == GapsAccountForAll /\ DuplicatesAreOld

(* "Total gap count (number of missing packets)" (sequence.hpp:35): the    *)
(* datagrams between the first one accepted and the last one received that *)
(* have not arrived.                                                       *)
GapsAreMissingPackets ==
    tracker.initialized =>
        tracker.total_gap =
            Cardinality({i \in Min(accepted) .. Max(received) : i \notin received})
=============================================================================
