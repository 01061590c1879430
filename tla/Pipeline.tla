------------------------------ MODULE Pipeline ------------------------------
(***************************************************************************)
(* The feed handler process: src/core/pipeline.cpp, the four stages of     *)
(* src/handler, the threads the consumer stage starts (console display and *)
(* CSV logger), the statistics they share, and main() with its signal      *)
(* handler.  The queues are bounded FIFOs whose pushes and pops are single *)
(* steps, which is what the module SPSCQueue shows of the real ring.       *)
(*                                                                         *)
(* Messages are numbered in the order in which their datagrams arrive; a   *)
(* packet is the interval of its messages.  Whether a datagram has a good  *)
(* frame and a message is valid is chosen freely.                          *)
(***************************************************************************)
EXTENDS Integers, Sequences, Functions

CONSTANTS
    Q1Bound, Q2Bound, Q3Bound,  \* usable slots of q1_, q2_, q3_
    MaxBatch,                   \* messages of a datagram
    MaxMessages,                \* bound: messages that arrive in all
    Configs,                    \* the helper threads that PipelineConfig may enable
    None

ASSUME BoundsAssumption ==
    /\ {Q1Bound, Q2Bound, Q3Bound, MaxBatch} \subseteq Nat \ {0}
    /\ MaxMessages \in Nat
    /\ None \notin Nat

Stage == {"network", "parser", "book", "consumer"}
Helper == {"display", "csv"}
ASSUME ConfigsAssumption == Configs \subseteq SUBSET Helper

Thread == Stage \cup Helper \cup {"main", "handler"}

VARIABLES
    enabled,        \* config_: the helper threads that are enabled
    pc,             \* where each thread is
    running,        \* Pipeline::running_
    shutdown,       \* g_shutdown
    helperRunning,  \* ConsoleDisplay::running_ and CsvLogger::running_
    arrived,        \* the number of messages that have arrived
    q1, q2, q3,
    batch,          \* the parser's packet: the messages it still has to handle
    event,          \* the book's event
    stats,          \* PipelineStats, without packets_received and parse_errors
    register,       \* queue_drops as read by a thread that increments it
    refused,        \* the pushes each stage saw refused
    collected       \* StatsCollector: updates_this_tick_ and throughput_.total_

queues == <<q1, q2, q3>>
hands == <<batch, event>>
counters == <<stats, register, refused, collected>>
control == <<enabled, running, shutdown, helperRunning>>
vars == <<pc, control, arrived, queues, hands, counters>>

NoBatch == [lo |-> 1, hi |-> 0]

Init ==
    /\ enabled \in Configs
    /\ pc = [t \in Thread |-> IF t = "main" THEN "start" ELSE "off"]
    /\ running = FALSE
    /\ shutdown = FALSE
    /\ helperRunning = [h \in Helper |-> FALSE]
    /\ arrived = 0
    /\ q1 = <<>> /\ q2 = <<>> /\ q3 = <<>>
    /\ batch = NoBatch
    /\ event = None
    /\ stats = [messages_parsed |-> 0, book_updates |-> 0, queue_drops |-> 0]
    /\ register = [t \in Stage |-> 0]
    /\ refused = [t \in Stage |-> 0]
    /\ collected = [tick |-> 0, total |-> 0]

Goto(t, from, to) == pc[t] = from /\ pc' = [pc EXCEPT ![t] = to]

(* The head of a stage's loop: while (running_.load(...)).                 *)
TestRunning(t, exit) ==
    /\ Goto(t, "loop", IF running THEN "work" ELSE exit)
    /\ UNCHANGED <<control, arrived, queues, hands, counters>>

-----------------------------------------------------------------------------
(* ++stats_.queue_drops on a plain uint64_t that three threads increment:  *)
(* a load and a store, with anything in between.                           *)
Refuse(t) ==
    /\ refused' = [refused EXCEPT ![t] = @ + 1]
    /\ register' = [register EXCEPT ![t] = stats.queue_drops]
    /\ UNCHANGED <<stats, collected>>

StoreDrops(t, next) ==
    /\ Goto(t, "drop", next)
    /\ stats' = [stats EXCEPT !.queue_drops = register[t] + 1]
    /\ UNCHANGED <<control, arrived, queues, hands, register, refused, collected>>

-----------------------------------------------------------------------------
(* Thread 1.  io.run_for lets any number of receive callbacks run.         *)

Receive(n) ==
    /\ pc["network"] = "work"
    /\ arrived + n <= MaxMessages
    /\ arrived' = arrived + n
    /\ IF Len(q1) < Q1Bound
       THEN /\ q1' = Append(q1, [lo |-> arrived + 1, hi |-> arrived + n])
            /\ UNCHANGED <<pc, counters>>
       ELSE /\ pc' = [pc EXCEPT !["network"] = "drop"]
            /\ Refuse("network")
            /\ UNCHANGED q1
    /\ UNCHANGED <<control, q2, q3, hands>>

RunForEnds ==
    /\ Goto("network", "work", "loop")
    /\ UNCHANGED <<control, arrived, queues, hands, counters>>

Network ==
    \/ TestRunning("network", "done")
    \/ \E n \in 1 .. MaxBatch : Receive(n)
    \/ RunForEnds
    \/ StoreDrops("network", "work")

-----------------------------------------------------------------------------
(* Thread 2.  FrameParser::parse either reports an error, and the datagram *)
(* is abandoned, or finds the messages of the frame.                       *)

ParserIdle ==
    /\ q1 = <<>>
    /\ Goto("parser", "work", "loop")
    /\ UNCHANGED <<control, arrived, queues, hands, counters>>

BadFrame ==
    /\ q1 # <<>>
    /\ Goto("parser", "work", "loop")
    /\ q1' = Tail(q1)
    /\ UNCHANGED <<control, arrived, q2, q3, hands, counters>>

GoodFrame ==
    /\ q1 # <<>>
    /\ Goto("parser", "work", "message")
    /\ batch' = Head(q1)
    /\ q1' = Tail(q1)
    /\ UNCHANGED <<control, arrived, q2, q3, event, counters>>

(* Mutant of BatchDone: the walk does not end after the last message.      *)
BatchDoneStays ==
    /\ batch.lo > batch.hi
    /\ Goto("parser", "message", "message")
    /\ UNCHANGED <<control, arrived, queues, hands, counters>>

(* The loop over the messages of the frame ends after the last one.        *)
BatchDone ==
    /\ batch.lo > batch.hi
    /\ Goto("parser", "message", "loop")
    /\ UNCHANGED <<control, arrived, queues, hands, counters>>

InvalidMessage ==
    /\ pc["parser"] = "message" /\ batch.lo <= batch.hi
    /\ batch' = [batch EXCEPT !.lo = @ + 1]
    /\ UNCHANGED <<pc, control, arrived, queues, event, counters>>

(* Mutant of ParsedMessage: the frame is walked from its end.              *)
ParsedMessageFromEnd ==
    /\ pc["parser"] = "message" /\ batch.lo <= batch.hi
    /\ batch' = [batch EXCEPT !.hi = @ - 1]
    /\ Len(q2) < Q2Bound
    /\ q2' = Append(q2, batch.hi)
    /\ stats' = [stats EXCEPT !.messages_parsed = @ + 1]
    /\ UNCHANGED <<pc, control, arrived, q1, q3, event, register, refused, collected>>

ParsedMessage ==
    /\ pc["parser"] = "message" /\ batch.lo <= batch.hi
    /\ batch' = [batch EXCEPT !.lo = @ + 1]
    /\ IF Len(q2) < Q2Bound
       THEN /\ q2' = Append(q2, batch.lo)
            /\ stats' = [stats EXCEPT !.messages_parsed = @ + 1]
            /\ UNCHANGED <<pc, register, refused, collected>>
       ELSE /\ pc' = [pc EXCEPT !["parser"] = "drop"]
            /\ Refuse("parser")
            /\ UNCHANGED q2
    /\ UNCHANGED <<control, arrived, q1, q3, event>>

Parser ==
    \/ TestRunning("parser", "done")
    \/ ParserIdle \/ BadFrame \/ GoodFrame
    \/ BatchDone \/ InvalidMessage \/ ParsedMessage
    \/ StoreDrops("parser", "message")

-----------------------------------------------------------------------------
(* Thread 3.  At "process" the thread is inside BookManager::process.      *)

BookPop ==
    /\ IF q2 = <<>>
       THEN Goto("book", "work", "loop") /\ UNCHANGED <<q2, event>>
       ELSE /\ Goto("book", "work", "process")
            /\ event' = Head(q2)
            /\ q2' = Tail(q2)
    /\ UNCHANGED <<control, arrived, q1, q3, batch, counters>>

BookPush ==
    /\ pc["book"] = "process"
    /\ event' = None
    /\ IF Len(q3) < Q3Bound
       THEN /\ q3' = Append(q3, event)
            /\ Goto("book", "process", "loop")
            /\ stats' = [stats EXCEPT !.book_updates = @ + 1]
            /\ UNCHANGED <<register, refused, collected>>
       ELSE /\ Goto("book", "process", "drop")
            /\ Refuse("book")
            /\ UNCHANGED q3
    /\ UNCHANGED <<control, arrived, q1, q2, batch>>

Book ==
    \/ TestRunning("book", "done")
    \/ BookPop \/ BookPush
    \/ StoreDrops("book", "loop")

-----------------------------------------------------------------------------
(* Thread 4                                                                *)

ConsumerStart ==
    /\ pc["consumer"] = "start"
    /\ \E opened \in BOOLEAN :  \* CsvLogger::start gives up if the file does not open
        /\ helperRunning' = [h \in Helper |-> h \in enabled /\ (h = "csv" => opened)]
        /\ pc' = [t \in Thread |->
                    IF t = "consumer" \/ (t \in Helper /\ helperRunning'[t])
                    THEN "loop" ELSE pc[t]]
    /\ UNCHANGED <<enabled, running, shutdown, arrived, queues, hands, counters>>

(* Mutant of ConsumerTick: the count of the second is not reset.           *)
ConsumerTickKeeps(count, second) ==
    IF second THEN [count EXCEPT !.total = @ + count.tick] ELSE count

(* StatsCollector::tick, when a second has passed.                         *)
ConsumerTick(count, second) ==
    IF second THEN [tick |-> 0, total |-> count.total + count.tick] ELSE count

(* One round of the loop: take an update if there is one, count it, tick.  *)
ConsumerWork ==
    /\ Goto("consumer", "work", "loop")
    /\ q3' = IF q3 = <<>> THEN q3 ELSE Tail(q3)
    /\ \E second \in BOOLEAN :
        collected' = ConsumerTick([collected EXCEPT !.tick = @ + Len(q3) - Len(q3')], second)
    /\ UNCHANGED <<control, arrived, q1, q2, hands, stats, register, refused>>

(* display.stop(), then csv_logger->stop(): lower the flag, then join.     *)
StopHelper(h, from, to) ==
    /\ Goto("consumer", from, to)
    /\ helperRunning' = [helperRunning EXCEPT ![h] = FALSE]
    /\ UNCHANGED <<enabled, running, shutdown, arrived, queues, hands, counters>>

JoinHelper(h, from, to) ==
    /\ pc[h] \in {"off", "done"}
    /\ Goto("consumer", from, to)
    /\ UNCHANGED <<control, arrived, queues, hands, counters>>

Consumer ==
    \/ ConsumerStart
    \/ TestRunning("consumer", "stop_display")
    \/ ConsumerWork
    \/ StopHelper("display", "stop_display", "join_display")
    \/ JoinHelper("display", "join_display", "stop_csv")
    \/ StopHelper("csv", "stop_csv", "join_csv")
    \/ JoinHelper("csv", "join_csv", "done")

-----------------------------------------------------------------------------
(* ConsoleDisplay::run and CsvLogger::run: at "read" they take a snapshot  *)
(* of the statistics and the books, and sleep.                             *)
HelperStep(h, from, to) ==
    /\ Goto(h, from, to)
    /\ UNCHANGED <<control, arrived, queues, hands, counters>>

Display ==
    \/ HelperStep("display", "loop", IF helperRunning["display"] THEN "read" ELSE "done")
    \/ HelperStep("display", "read", "loop")

(* CsvLogger::run sleeps first, and tests its flag again after the sleep.  *)
Csv ==
    \/ HelperStep("csv", "loop", IF helperRunning["csv"] THEN "sleep" ELSE "done")
    \/ HelperStep("csv", "sleep", IF helperRunning["csv"] THEN "read" ELSE "done")
    \/ HelperStep("csv", "read", "loop")

-----------------------------------------------------------------------------
(* main: start the pipeline, wait for the signal, stop the pipeline.       *)

Start ==
    /\ pc["main"] = "start"
    /\ running' = TRUE
    /\ pc' = [t \in Thread |-> CASE t = "main" -> "check"
                                 [] t = "consumer" -> "start"
                                 [] t \in Stage \ {"consumer"} -> "loop"
                                 [] OTHER -> pc[t]]
    /\ UNCHANGED <<enabled, shutdown, helperRunning, arrived, queues, hands, counters>>

(* g_cv.wait(lock, predicate): test the predicate, then block.             *)
WaitTest ==
    /\ Goto("main", "check", IF shutdown THEN "stop" ELSE "blocking")
    /\ UNCHANGED <<control, arrived, queues, hands, counters>>

WaitBlock ==
    /\ Goto("main", "blocking", "blocked")
    /\ UNCHANGED <<control, arrived, queues, hands, counters>>

(* A condition variable may wake up by itself, but need not.               *)
SpuriousWakeup ==
    /\ Goto("main", "blocked", "check")
    /\ UNCHANGED <<control, arrived, queues, hands, counters>>

(* signal_handler, which does not take g_mtx.                              *)
Signal ==
    /\ pc["main"] # "done"
    /\ Goto("handler", "off", "notify")
    /\ shutdown' = TRUE
    /\ UNCHANGED <<enabled, running, helperRunning, arrived, queues, hands, counters>>

Notify ==
    /\ pc["handler"] = "notify"
    /\ pc' = [pc EXCEPT !["handler"] = "off",
                        !["main"] = IF @ = "blocked" THEN "check" ELSE @]
    /\ UNCHANGED <<control, arrived, queues, hands, counters>>

(* Mutant of Stop: the flag stays up.                                      *)
StopForgotten ==
    /\ Goto("main", "stop", "join_network")
    /\ UNCHANGED <<control, arrived, queues, hands, counters>>

Stop ==
    /\ Goto("main", "stop", "join_network")
    /\ running' = FALSE
    /\ UNCHANGED <<enabled, shutdown, helperRunning, arrived, queues, hands, counters>>

Join(t, from, to) ==
    /\ pc[t] = "done"
    /\ Goto("main", from, to)
    /\ UNCHANGED <<control, arrived, queues, hands, counters>>

Main ==
    \/ Start \/ WaitTest \/ WaitBlock \/ Stop
    \/ Join("network", "join_network", "join_parser")
    \/ Join("parser", "join_parser", "join_book")
    \/ Join("book", "join_book", "join_consumer")
    \/ Join("consumer", "join_consumer", "done")

Next ==
    \/ Network \/ Parser \/ Book \/ Consumer \/ Display \/ Csv
    \/ Main \/ SpuriousWakeup \/ Signal \/ Notify

Spec == Init /\ [][Next]_vars

(* Every thread keeps running.  Datagrams, signals and spurious wakeups    *)
(* need not come.                                                          *)
Fairness ==
    /\ WF_vars(TestRunning("network", "done") \/ RunForEnds \/ StoreDrops("network", "work"))
    /\ WF_vars(Parser)
    /\ WF_vars(Book)
    /\ WF_vars(Consumer)
    /\ WF_vars(Display)
    /\ WF_vars(Csv)
    /\ WF_vars(Main)
    /\ WF_vars(Notify)

FairSpec == Spec /\ Fairness

-----------------------------------------------------------------------------
Location ==
    {"off", "start", "loop", "work", "drop", "done", "message", "process",
     "stop_display", "join_display", "stop_csv", "join_csv", "read", "sleep", "check", "blocking",
     "blocked", "stop", "notify", "join_network", "join_parser", "join_book", "join_consumer"}

Packet == [lo : 1 .. MaxMessages + 1, hi : 0 .. MaxMessages]
Message == 1 .. MaxMessages

TypeOK ==
    /\ enabled \in Configs
    /\ pc \in [Thread -> Location]
    /\ {running, shutdown} \subseteq BOOLEAN
    /\ helperRunning \in [Helper -> BOOLEAN]
    /\ arrived \in 0 .. MaxMessages
    /\ q1 \in Seq(Packet) /\ Len(q1) <= Q1Bound
    /\ q2 \in Seq(Message) /\ Len(q2) <= Q2Bound
    /\ q3 \in Seq(Message) /\ Len(q3) <= Q3Bound
    /\ batch \in Packet
    /\ event \in Message \cup {None}
    /\ stats \in [messages_parsed : Nat, book_updates : Nat, queue_drops : Nat]
    /\ {register, refused} \subseteq [Stage -> Nat]
    /\ collected \in [tick : Nat, total : Nat]

InHand(m) == IF m = None THEN {} ELSE {m}

(* The messages at each place of the pipeline, the furthest first.         *)
Place ==
    << Range(q3), InHand(event), Range(q2), batch.lo .. batch.hi,
       UNION {p.lo .. p.hi : p \in Range(q1)}, arrived + 1 .. MaxMessages >>

(* Messages never overtake each other and none is handled twice, however   *)
(* many are dropped on the way: what is further down the pipeline arrived  *)
(* earlier, and the queues are sorted (network_stage.cpp, parser_stage.cpp,*)
(* book_stage.cpp, consumer_stage.cpp).                                    *)
InOrder ==
    /\ \A i, j \in DOMAIN Place : i < j => \A m \in Place[i], n \in Place[j] : m < n
    /\ \A i, j \in DOMAIN q2 : i < j => q2[i] < q2[j]
    /\ \A i, j \in DOMAIN q3 : i < j => q3[i] < q3[j]
    /\ \A i, j \in DOMAIN q1 : i < j => q1[i].hi < q1[j].lo

(* The queues keep their bounds and the order of what they hold, though    *)
(* every stage drops what does not fit (try_push of the three stages).     *)
QueuesHold == TypeOK /\ InOrder

(* The counters of the stages and of StatsCollector agree with what is     *)
(* between them: what the parser counted is waiting, at the book, refused  *)
(* by q3_ or counted by the book, and so on to total_updates.  Of the      *)
(* drops, queue_drops may lose some when stages drop together, but it      *)
(* never counts too many and never misses all.                             *)
Held(m) == IF m = None THEN 0 ELSE 1

Dropped == refused["network"] + refused["parser"] + refused["book"]

Accounted ==
    /\ stats.messages_parsed =
         Len(q2) + Held(event) + stats.book_updates + refused["book"]
    /\ stats.book_updates =
         Len(q3) + collected.tick + collected.total
    /\ stats.queue_drops <= Dropped
    /\ (Dropped > 0 /\ \A t \in Stage : pc[t] # "drop") => stats.queue_drops > 0

(* stop() returns: no thread waits for another that waits for it, and no   *)
(* stage stays in an inner loop.  When it has returned, which is when the  *)
(* queues and the books are destroyed, no thread can touch them any more   *)
(* (pipeline.cpp:21-28).                                                   *)
StopReturns ==
    (pc["main"] = "stop") ~>
        /\ pc["main"] = "done"
        /\ \A t \in Stage \cup Helper : pc[t] \in {"off", "done"}

(* While the handler runs, no message stays anywhere in the pipeline       *)
(* forever: after the last datagram the queues and the stages empty.       *)
InFlight == UNION {Place[i] : i \in 1 .. 5}
MessagesMove == running ~> (~running \/ InFlight = {})

(* "incrementing a drop counter" (PRD.md:309): when no stage is in the     *)
(* middle of an increment, queue_drops is the number of packets, messages  *)
(* and updates that were refused.                                          *)
DropsCounted ==
    (\A t \in Stage : pc[t] # "drop") => stats.queue_drops = Dropped

(* "Waits for signal, then shuts down cleanly" (PRD.md:345).               *)
SignalStops == shutdown ~> (pc["main"] = "done")
=============================================================================
