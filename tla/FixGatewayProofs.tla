------------------------- MODULE FixGatewayProofs -------------------------
(***************************************************************************)
(* Proofs about FixGateway, for every heartbeat interval and every bound   *)
(* on orders, losses and sequence numbers: the numbers and the orders of   *)
(* the two sides agree in every reachable state.                           *)
(***************************************************************************)
EXTENDS FixGateway, TLAPS

----------------------------------------------------------------------------
(* The inductive invariant. *)

SessionRec ==
    [sender : {"QF", "EX"}, target : {"QF", "EX"}, state : SessionState,
     outbound_seq : Nat \ {0}, inbound_seq : Nat,
     send_age : 0..HeartBtInt, recv_age : 0..SilenceLimit, test_age : 0..HeartBtInt,
     pending_test : Nat]

MessageType == {"Logon", "Logout", "Heartbeat", "TestRequest", "ResendRequest", "Reject",
                "SequenceReset", "NewOrderSingle", "OrderCancelRequest", "ExecutionReport",
                "OrderCancelReject"}

MessageRec ==
    [type : MessageType, id : Nat, ref : Nat, flag : BOOLEAN,
     status : {"none", "New"} \cup Terminal, seq : Nat,
     sender : {"", "QF", "EX"}, target : {"", "QF", "EX"}]

ResultRec == [s : SessionRec, sent : Seq(MessageRec), app : Seq(MessageRec)]

LinkTyped ==
    /\ gw \in SessionRec /\ ex \in SessionRec
    /\ to_ex \in Seq(MessageRec) /\ to_gw \in Seq(MessageRec)
    /\ tcp \in [phase : Phase, running : BOOLEAN]
    /\ recv_buf \in {"empty", "rest", "broken"}
    /\ losses \in 0..MaxLosses

OrdersTyped ==
    /\ app \in [step : {"idle", "locked", "sent"},
                op : {"none", "NewOrderSingle", "OrderCancelRequest"}, id : Nat, orig : Nat]
    /\ io \in {Idle} \cup MessageRec
    /\ orders \in [pending : SUBSET Nat, cancel_to_orig : SUBSET (Nat \X Nat), next : 1..(MaxIds + 1)]
    /\ exchange \in [seen : Seq(Nat), live : SUBSET Nat]
    /\ done \in SUBSET Nat

(* What is in flight from session `s` to session `t`.  A numbered message  *)
(* is between what `t` expects and what `s` has used; a reset moves `t` no *)
(* further than `s` is and than the messages behind it are; a request for  *)
(* a gap names only numbers that `t` has used.                             *)
Numbered(m) == m.type # "SequenceReset"

InFlight(f, s, t) ==
    /\ t.inbound_seq <= s.outbound_seq
    /\ \A i \in DOMAIN f : Numbered(f[i]) => t.inbound_seq <= f[i].seq /\ f[i].seq < s.outbound_seq
    /\ \A i \in DOMAIN f : ~Numbered(f[i]) => f[i].ref <= s.outbound_seq
    /\ \A i \in DOMAIN f : f[i].type = "ResendRequest" => f[i].ref < t.outbound_seq
    /\ \A i, j \in DOMAIN f : (i < j /\ Numbered(f[j])) =>
            IF Numbered(f[i]) THEN f[i].seq < f[j].seq ELSE f[i].ref <= f[j].seq

Flights == InFlight(to_ex, gw, ex) /\ InFlight(to_gw, ex, gw)

NothingInFlight == ~connected => to_ex = <<>> /\ to_gw = <<>>

(* The ClOrdID that the next order on the wire is at least. *)
Unsent == IF app.step = "locked" THEN app.id ELSE orders.next

Seen == {exchange.seen[i] : i \in DOMAIN exchange.seen}

(* The order that is sent and not yet recorded. *)
Unrecorded == IF app.step = "sent" /\ app.op = "NewOrderSingle" THEN {app.id} ELSE {}

(* The application thread uses each ClOrdID for one message. *)
IdsUsed ==
    /\ app.step # "idle" => /\ app.op # "none" /\ app.id = orders.next - 1 /\ app.id > 0
                            /\ app.id \notin orders.pending \cup done
    /\ app.step = "idle" => app.id = 0
    /\ orders.pending \cup done \subseteq 1..(orders.next - 1)

(* Orders on the wire are new to the exchange and known to the gateway. *)
OrdersInFlight ==
    /\ \A i \in DOMAIN to_ex : to_ex[i].type = "NewOrderSingle" =>
          /\ to_ex[i].id \in orders.pending \cup Unrecorded
          /\ \A id \in Seen : id < to_ex[i].id
          /\ to_ex[i].id < Unsent
    /\ \A i, j \in DOMAIN to_ex :
          (i < j /\ to_ex[i].type = "NewOrderSingle" /\ to_ex[j].type = "NewOrderSingle") =>
             to_ex[i].id < to_ex[j].id

(* Orders at the exchange. *)
OrdersAtExchange ==
    /\ \A id \in Seen : 0 < id /\ id < Unsent
    /\ exchange.live \subseteq Seen \cap (orders.pending \cup Unrecorded)

(* The report of an end is about an order that is no longer live. *)
Ends(m) == m.type = "ExecutionReport" /\ m.status \in Terminal

EndsAreTrue ==
    /\ \A i \in DOMAIN to_gw : Ends(to_gw[i]) => to_gw[i].id \in Seen \ exchange.live
    /\ Ends(io) => io.id \in Seen \ exchange.live
    /\ done \cap orders.pending = {}

GatewayInv ==
    /\ LinkTyped /\ Flights /\ NothingInFlight
    /\ OrdersTyped /\ IdsUsed /\ OrdersInFlight /\ OrdersAtExchange /\ OrdersOnceInOrder /\ EndsAreTrue

----------------------------------------------------------------------------
(* Messages and results. *)

(* A message has the fields that it is built from. *)
LEMMA MessageFields ==
    ASSUME NEW type \in MessageType, NEW id \in Nat, NEW ref \in Nat, NEW flag \in BOOLEAN
    PROVE  /\ Message(type, id, ref, flag) \in MessageRec
           /\ Message(type, id, ref, flag).type = type
           /\ Message(type, id, ref, flag).id = id
           /\ Message(type, id, ref, flag).ref = ref
           /\ Message(type, id, ref, flag).status = "none"
  BY Zenon DEF Message, MessageRec

(* The numbers of a message are natural numbers. *)
LEMMA MessageNumbers ==
    \A m \in MessageRec : m.id \in Nat /\ m.ref \in Nat /\ m.seq \in Nat
  BY Zenon DEF MessageRec

(* Stamping sets the number and the two ends only. *)
LEMMA StampedFields ==
    ASSUME NEW s \in SessionRec, NEW m \in MessageRec, NEW seq \in Nat
    PROVE  /\ Stamped(s, m, seq) \in MessageRec
           /\ Stamped(s, m, seq).seq = seq
           /\ Stamped(s, m, seq).type = m.type /\ Stamped(s, m, seq).id = m.id
           /\ Stamped(s, m, seq).ref = m.ref /\ Stamped(s, m, seq).status = m.status
  BY Zenon DEF Stamped, MessageRec, SessionRec

(* A result starts with the session and nothing sent. *)
LEMMA ResultFields ==
    ASSUME NEW s \in SessionRec
    PROVE  Result(s) \in ResultRec /\ Result(s).s = s /\ Result(s).sent = <<>> /\ Result(s).app = <<>>
  BY DEF Result, ResultRec

(* send_message uses up one number. *)
LEMMA SendMessage ==
    ASSUME NEW r \in ResultRec, NEW m \in MessageRec
    PROVE  /\ send_message(r, m) \in ResultRec
           /\ send_message(r, m).sent = Append(r.sent, Stamped(r.s, m, r.s.outbound_seq))
           /\ send_message(r, m).s.outbound_seq = r.s.outbound_seq + 1
           /\ send_message(r, m).s.inbound_seq = r.s.inbound_seq
           /\ send_message(r, m).s.state = r.s.state
           /\ send_message(r, m).s.pending_test = r.s.pending_test
           /\ send_message(r, m).app = r.app
<1>1. r.s \in SessionRec /\ r.sent \in Seq(MessageRec) /\ r.app \in Seq(MessageRec)
  BY Zenon DEF ResultRec
<1>2. r.s.outbound_seq \in Nat \ {0}
  BY Zenon, <1>1 DEF SessionRec
<1>3. Stamped(r.s, m, r.s.outbound_seq) \in MessageRec
  BY Zenon, <1>1, <1>2, StampedFields
<1>4. r.s.outbound_seq + 1 \in Nat \ {0} /\ 0 \in 0..HeartBtInt
  BY <1>2, HeartBtIntAssumption
<1> DEFINE s2 == [r.s EXCEPT !.outbound_seq = @ + 1, !.send_age = 0]
<1>5. s2 \in SessionRec
  BY Zenon, <1>1, <1>4 DEF SessionRec
<1>6. /\ s2.outbound_seq = r.s.outbound_seq + 1 /\ s2.inbound_seq = r.s.inbound_seq
      /\ s2.state = r.s.state /\ s2.pending_test = r.s.pending_test
  BY Zenon, <1>1 DEF SessionRec
<1>7. /\ send_message(r, m).s = s2 /\ send_message(r, m).app = r.app
      /\ send_message(r, m).sent = Append(r.sent, Stamped(r.s, m, r.s.outbound_seq))
  BY Zenon DEF send_message, ResultRec
<1>8. Append(r.sent, Stamped(r.s, m, r.s.outbound_seq)) \in Seq(MessageRec)
  BY <1>1, <1>3
<1>9. send_message(r, m) \in ResultRec
  BY Zenon, <1>5, <1>8 DEF send_message, ResultRec
<1> HIDE DEF s2
<1> QED
  BY Zenon, <1>6, <1>7, <1>9

(* transition changes the state only. *)
LEMMA Transition ==
    ASSUME NEW r \in ResultRec, NEW state \in SessionState
    PROVE  /\ transition(r, state) \in ResultRec
           /\ transition(r, state).sent = r.sent /\ transition(r, state).app = r.app
           /\ transition(r, state).s.outbound_seq = r.s.outbound_seq
           /\ transition(r, state).s.inbound_seq = r.s.inbound_seq
  BY Zenon DEF transition, ResultRec, SessionRec

----------------------------------------------------------------------------
(* Sequences of messages. *)

(* The places of a sequence with one more message, *)
LEMMA AppendPlaces ==
    ASSUME NEW f \in Seq(MessageRec), NEW e \in MessageRec
    PROVE  /\ Append(f, e) \in Seq(MessageRec)
           /\ \A i \in DOMAIN Append(f, e) :
                 \/ i \in DOMAIN f /\ Append(f, e)[i] = f[i]
                 \/ i = Len(f) + 1 /\ Append(f, e)[i] = e
           /\ \A i \in DOMAIN f : i \in Nat /\ i < Len(f) + 1
           /\ Len(f) \in Nat
  OBVIOUS

(* of two sequences one after the other, *)
LEMMA ConcatPlaces ==
    ASSUME NEW f \in Seq(MessageRec), NEW g \in Seq(MessageRec)
    PROVE  /\ f \o g \in Seq(MessageRec)
           /\ \A i \in DOMAIN (f \o g) :
                 \/ i \in DOMAIN f /\ (f \o g)[i] = f[i]
                 \/ i - Len(f) \in DOMAIN g /\ (f \o g)[i] = g[i - Len(f)]
           /\ \A i \in DOMAIN f : i \in Nat /\ i <= Len(f)
           /\ \A i \in DOMAIN g : i \in Nat /\ i > 0
           /\ DOMAIN (f \o g) \subseteq Nat
           /\ Len(f) \in Nat
  OBVIOUS

(* and of a sequence without its first message. *)
LEMMA TailPlaces ==
    ASSUME NEW f \in Seq(MessageRec), f # <<>>
    PROVE  /\ Tail(f) \in Seq(MessageRec)
           /\ Head(f) \in MessageRec
           /\ \A i \in DOMAIN Tail(f) : i \in Nat /\ i > 0 /\ i + 1 \in DOMAIN f /\ Tail(f)[i] = f[i + 1]
           /\ 1 \in DOMAIN f /\ Head(f) = f[1]
  OBVIOUS

----------------------------------------------------------------------------
(* What a session sends.  `r` is a result of session `s`, whose            *)
(* counterparty is `t`: its messages can follow whatever `s` sent before.  *)

Answer(s, r, t) ==
    /\ r \in ResultRec
    /\ s.outbound_seq <= r.s.outbound_seq
    /\ \A i \in DOMAIN r.sent :
          /\ Numbered(r.sent[i]) =>
                s.outbound_seq <= r.sent[i].seq /\ r.sent[i].seq < r.s.outbound_seq
          /\ ~Numbered(r.sent[i]) => r.sent[i].ref <= r.s.outbound_seq
          /\ r.sent[i].type = "ResendRequest" => r.sent[i].ref < t.outbound_seq
    /\ \A i, j \in DOMAIN r.sent : (i < j /\ Numbered(r.sent[j])) =>
          IF Numbered(r.sent[i]) THEN r.sent[i].seq < r.sent[j].seq
                                 ELSE r.sent[i].ref <= r.sent[j].seq

(* No order and no report is among the messages. *)
AdminType == {"Logon", "Logout", "Heartbeat", "TestRequest", "ResendRequest", "Reject",
              "SequenceReset"}

Quiet(r) == \A i \in DOMAIN r.sent : r.sent[i].type \in AdminType

(* Saying nothing is an answer. *)
LEMMA AnswerNone ==
    ASSUME NEW s \in SessionRec, NEW t
    PROVE  Answer(s, Result(s), t) /\ Quiet(Result(s))
<1>1. s.outbound_seq \in Nat
  BY Zenon DEF SessionRec
<1> QED
  BY <1>1, ResultFields DEF Answer, Quiet

(* A result with the same messages and numbers. *)
LEMMA AnswerSame ==
    ASSUME NEW s, NEW t, NEW r, NEW q \in ResultRec, Answer(s, r, t),
           q.sent = r.sent, q.s.outbound_seq = r.s.outbound_seq
    PROVE  Answer(s, q, t) /\ (Quiet(r) => Quiet(q))
  BY Zenon DEF Answer, Quiet

(* One message more behind the others. *)
LEMMA AnswerMore ==
    ASSUME NEW s \in SessionRec, NEW t \in SessionRec, NEW r, NEW q \in ResultRec, Answer(s, r, t),
           NEW e \in MessageRec, q.sent = Append(r.sent, e),
           \/ q.s.outbound_seq = r.s.outbound_seq + 1 /\ e.seq = r.s.outbound_seq
           \/ q.s.outbound_seq = r.s.outbound_seq /\ ~Numbered(e),
           ~Numbered(e) => e.ref <= q.s.outbound_seq,
           e.type = "ResendRequest" => e.ref < t.outbound_seq
    PROVE  Answer(s, q, t) /\ (Quiet(r) /\ e.type \in AdminType => Quiet(q))
<1>1. r.sent \in Seq(MessageRec) /\ r.s.outbound_seq \in Nat /\ q.s.outbound_seq \in Nat
      /\ s.outbound_seq \in Nat /\ t.outbound_seq \in Nat
  BY Zenon DEF Answer, ResultRec, SessionRec
<1>2. \A m \in MessageRec : m.seq \in Nat /\ m.ref \in Nat
  BY Zenon DEF MessageRec
<1>3. \A i \in DOMAIN r.sent : r.sent[i] \in MessageRec
  BY <1>1
<1>4. \A i \in DOMAIN q.sent :
        \/ i \in DOMAIN r.sent /\ q.sent[i] = r.sent[i]
        \/ i = Len(r.sent) + 1 /\ q.sent[i] = e
  BY Zenon, <1>1, AppendPlaces
<1>5. /\ \A i \in DOMAIN r.sent : i \in Nat /\ i < Len(r.sent) + 1
      /\ Len(r.sent) \in Nat
  BY Zenon, <1>1, AppendPlaces
<1>6. r.s.outbound_seq <= q.s.outbound_seq
  BY <1>1
<1>7. \A i \in DOMAIN q.sent :
        /\ Numbered(q.sent[i]) =>
              s.outbound_seq <= q.sent[i].seq /\ q.sent[i].seq < q.s.outbound_seq
        /\ ~Numbered(q.sent[i]) => q.sent[i].ref <= q.s.outbound_seq
        /\ q.sent[i].type = "ResendRequest" => q.sent[i].ref < t.outbound_seq
  <2> TAKE i \in DOMAIN q.sent
  <2>1. CASE i \in DOMAIN r.sent /\ q.sent[i] = r.sent[i]
    <3>1. /\ Numbered(r.sent[i]) =>
                s.outbound_seq <= r.sent[i].seq /\ r.sent[i].seq < r.s.outbound_seq
          /\ ~Numbered(r.sent[i]) => r.sent[i].ref <= r.s.outbound_seq
          /\ r.sent[i].type = "ResendRequest" => r.sent[i].ref < t.outbound_seq
      BY Zenon, <2>1 DEF Answer
    <3>2. r.sent[i].seq \in Nat /\ r.sent[i].ref \in Nat
      BY Zenon, <1>2, <1>3, <2>1
    <3> QED
      BY SMTT(30), <1>1, <1>6, <2>1, <3>1, <3>2
  <2>2. CASE q.sent[i] = e
    <3>1. s.outbound_seq <= r.s.outbound_seq
      BY Zenon DEF Answer
    <3> HIDE DEF Answer
    <3> QED
      BY <1>1, <1>2, <2>2, <3>1
  <2> QED
    BY Zenon, <1>4, <2>1, <2>2
<1>8. ASSUME NEW i \in DOMAIN q.sent, NEW j \in DOMAIN q.sent, i < j, Numbered(q.sent[j])
      PROVE  IF Numbered(q.sent[i]) THEN q.sent[i].seq < q.sent[j].seq
                                    ELSE q.sent[i].ref <= q.sent[j].seq
  <2>1. CASE j \in DOMAIN r.sent
    <3>1. i \in DOMAIN r.sent
      BY <1>4, <1>5, <1>8, <2>1
    <3> QED
      BY <1>4, <1>5, <1>8, <2>1, <3>1 DEF Answer
  <2>2. CASE j = Len(r.sent) + 1 /\ q.sent[j] = e
    <3>1. i \in DOMAIN r.sent /\ q.sent[i] = r.sent[i]
      BY <1>4, <1>5, <1>8, <2>2
    <3>2. e.seq = r.s.outbound_seq
      BY Zenon, <1>8, <2>2
    <3> QED
      BY Zenon, <1>1, <1>2, <1>3, <2>2, <3>1, <3>2 DEF Answer
  <2> QED
    BY Zenon, <1>4, <2>1, <2>2
<1>9. Quiet(r) /\ e.type \in AdminType => Quiet(q)
  BY Zenon, <1>4 DEF Quiet
<1>10. s.outbound_seq <= q.s.outbound_seq
  BY <1>1, <1>6 DEF Answer
<1> QED
  BY Zenon, <1>7, <1>8, <1>9, <1>10 DEF Answer

(* send_message in particular. *)
LEMMA AnswerSend ==
    ASSUME NEW s \in SessionRec, NEW t \in SessionRec, NEW r, Answer(s, r, t), NEW m \in MessageRec,
           ~Numbered(m) => m.ref <= r.s.outbound_seq + 1,
           m.type = "ResendRequest" => m.ref < t.outbound_seq
    PROVE  Answer(s, send_message(r, m), t)
           /\ (Quiet(r) /\ m.type \in AdminType => Quiet(send_message(r, m)))
<1>1. r \in ResultRec /\ r.s \in SessionRec /\ r.s.outbound_seq \in Nat
  BY Zenon DEF Answer, ResultRec, SessionRec
<1> DEFINE e == Stamped(r.s, m, r.s.outbound_seq)
<1>2. e \in MessageRec /\ e.seq = r.s.outbound_seq /\ e.type = m.type /\ e.ref = m.ref
  BY ZenonT(60), <1>1, StampedFields
<1>3. /\ send_message(r, m) \in ResultRec
      /\ send_message(r, m).sent = Append(r.sent, e)
      /\ send_message(r, m).s.outbound_seq = r.s.outbound_seq + 1
  BY Zenon, <1>1, SendMessage
<1> HIDE DEF e
<1>4. (Numbered(e) <=> Numbered(m)) /\ (~Numbered(e) => e.ref <= send_message(r, m).s.outbound_seq)
  BY Zenon, <1>2, <1>3 DEF Numbered
<1> QED
  BY Zenon, <1>2, <1>3, <1>4, AnswerMore

----------------------------------------------------------------------------
(* The operations of a session, one lemma each: what they send can follow, *)
(* is neither an order nor a report, and the number expected next and the  *)
(* messages for the application stay as they are.                          *)

Says(s, r, q, t) ==
    /\ Answer(s, q, t) /\ Quiet(q)
    /\ q.s.inbound_seq = r.s.inbound_seq /\ q.app = r.app

(* send_message_locked of an administrative message is a quiet answer, *)
LEMMA SaysSend ==
    ASSUME NEW s \in SessionRec, NEW t \in SessionRec, NEW r, Answer(s, r, t), Quiet(r),
           NEW m \in MessageRec, m.type \in AdminType,
           ~Numbered(m) => m.ref <= r.s.outbound_seq + 1,
           m.type = "ResendRequest" => m.ref < t.outbound_seq
    PROVE  Says(s, r, send_message(r, m), t)
<1>1. r \in ResultRec
  BY Zenon DEF Answer
<1>2. Answer(s, send_message(r, m), t) /\ Quiet(send_message(r, m))
  BY Zenon, AnswerSend
<1>3. send_message(r, m).s.inbound_seq = r.s.inbound_seq /\ send_message(r, m).app = r.app
  BY Zenon, <1>1, SendMessage
<1> QED
  BY Zenon, <1>2, <1>3 DEF Says

(* also of one that has no number to get wrong. *)
LEMMA SaysPlain ==
    ASSUME NEW s \in SessionRec, NEW t \in SessionRec, NEW r, Answer(s, r, t), Quiet(r),
           NEW type \in AdminType \ {"SequenceReset", "ResendRequest"}, NEW id \in Nat,
           NEW ref \in Nat, NEW flag \in BOOLEAN
    PROVE  Says(s, r, send_message(r, Message(type, id, ref, flag)), t)
<1> DEFINE m == Message(type, id, ref, flag)
<1>1. m \in MessageRec /\ m.type = type
  BY MessageFields DEF MessageType, AdminType
<1> HIDE DEF m
<1>2. Numbered(m) /\ m.type # "ResendRequest" /\ m.type \in AdminType
  BY Zenon, <1>1 DEF Numbered
<1>3. Says(s, r, send_message(r, m), t)
  BY Zenon, <1>1, <1>2, SaysSend
<1> QED
  BY Zenon, <1>3 DEF m

(* A change of state says nothing more. *)
LEMMA SaysTransition ==
    ASSUME NEW s, NEW t, NEW r, NEW q, Says(s, r, q, t), NEW state \in SessionState
    PROVE  Says(s, r, transition(q, state), t)
<1>1. q \in ResultRec
  BY Zenon DEF Says, Answer
<1>2. /\ transition(q, state) \in ResultRec
      /\ transition(q, state).sent = q.sent /\ transition(q, state).app = q.app
      /\ transition(q, state).s.outbound_seq = q.s.outbound_seq
      /\ transition(q, state).s.inbound_seq = q.s.inbound_seq
  BY Zenon, <1>1, Transition
<1>3. Answer(s, transition(q, state), t) /\ Quiet(transition(q, state))
  BY Zenon, <1>2, AnswerSame DEF Says
<1> QED
  BY Zenon, <1>2, <1>3 DEF Says

(* A handler that returns early says nothing. *)
LEMMA SaysNothing ==
    ASSUME NEW s, NEW t, NEW r, Answer(s, r, t), Quiet(r)
    PROVE  Says(s, r, r, t)
  BY Zenon DEF Says

(* A test request, with the note of its id. *)
LEMMA SaysProbe ==
    ASSUME NEW s \in SessionRec, NEW t \in SessionRec, NEW r, Answer(s, r, t), Quiet(r)
    PROVE  Says(s, r, Probe(r), t)
<1> DEFINE id == r.s.outbound_seq
           q == send_message(r, Message("TestRequest", id, None, FALSE))
           p == [q EXCEPT !.s.pending_test = id, !.s.test_age = 0]
<1>1. id \in Nat /\ None \in Nat
  BY Zenon DEF Answer, ResultRec, SessionRec, None
<1>2. "TestRequest" \in AdminType \ {"SequenceReset", "ResendRequest"}
  BY Zenon DEF AdminType
<1>3. Says(s, r, q, t)
  BY Zenon, <1>1, <1>2, SaysPlain
<1>4. q \in ResultRec
  BY Zenon, <1>3 DEF Says, Answer
<1>5. Probe(r) = p
  BY Zenon DEF Probe
<1> HIDE DEF q
<1>6. q.s \in SessionRec /\ 0 \in 0..HeartBtInt
  BY <1>4, HeartBtIntAssumption DEF ResultRec
<1>7. p \in ResultRec
  <2>1. [q.s EXCEPT !.pending_test = id, !.test_age = 0] \in SessionRec
    BY Zenon, <1>1, <1>6 DEF SessionRec
  <2> QED
    BY Zenon, <1>4, <2>1 DEF ResultRec
<1>8. p.sent = q.sent /\ p.app = q.app
  BY Zenon, <1>4 DEF ResultRec
<1>9. p.s.outbound_seq = q.s.outbound_seq /\ p.s.inbound_seq = q.s.inbound_seq
  <2>1. p.s = [q.s EXCEPT !.pending_test = id, !.test_age = 0]
    BY Zenon, <1>4 DEF ResultRec
  <2> QED
    BY ZenonT(60), <1>6, <2>1 DEF SessionRec
<1> HIDE DEF p
<1>10. Answer(s, p, t) /\ Quiet(p)
  BY Zenon, <1>3, <1>7, <1>8, <1>9, AnswerSame DEF Says
<1> QED
  BY Zenon, <1>3, <1>5, <1>8, <1>9, <1>10 DEF Says

(* A request for numbers that the counterparty has used. *)
LEMMA SaysResendRequest ==
    ASSUME NEW s \in SessionRec, NEW t \in SessionRec, NEW r, Answer(s, r, t), Quiet(r),
           NEW begin \in Nat, NEW end \in Nat, end < t.outbound_seq
    PROVE  Says(s, r, send_resend_request(r, begin, end), t)
<1> DEFINE m == Message("ResendRequest", begin, end, FALSE)
<1>1. m \in MessageRec /\ m.type = "ResendRequest" /\ m.ref = end
  <2>1. "ResendRequest" \in MessageType /\ FALSE \in BOOLEAN
    BY Zenon DEF MessageType
  <2> QED
    BY Zenon, <2>1 DEF Message, MessageRec
<1>2. send_resend_request(r, begin, end) = send_message(r, m)
  BY Zenon DEF send_resend_request
<1> HIDE DEF m
<1>3. Numbered(m) /\ m.type \in AdminType /\ m.ref < t.outbound_seq
  BY Zenon, <1>1 DEF Numbered, AdminType
<1>4. Says(s, r, send_message(r, m), t)
  BY Zenon, <1>1, <1>3, SaysSend
<1> QED
  BY Zenon, <1>2, <1>4

(* What a session says of its own accord. *)
LEMMA Unasked ==
    ASSUME NEW s \in SessionRec, NEW t \in SessionRec
    PROVE  /\ Says(s, Result(s), send_logon(s, FALSE), t)
           /\ Says(s, Result(s), send_logout(s), t)
           /\ Says(s, Result(s), send_test_request(s), t)
           /\ Says(s, Result(s), send_reject(s, 1), t)
           /\ Says(s, Result(s), send_resend_request(Result(s), 1, 0), t)
           /\ Says(s, Result(s), send_sequence_reset(s, s.outbound_seq + 1, FALSE), t)
<1> DEFINE r == Result(s)
           Kind == AdminType \ {"SequenceReset", "ResendRequest"}
<1>1. Answer(s, r, t) /\ Quiet(r) /\ r.s = s
  BY Zenon, AnswerNone, ResultFields
<1>2. None \in Nat /\ 1 \in Nat /\ {"LogonSent", "LogoutSent"} \subseteq SessionState
  BY Zenon DEF None, SessionState
<1>3. {"Logon", "Logout", "Reject"} \subseteq Kind
  BY Zenon DEF AdminType
<1>4. s.outbound_seq \in Nat /\ t.outbound_seq \in Nat \ {0}
  BY Zenon DEF SessionRec
<1> HIDE DEF r, Kind
<1>5. \A type \in Kind, id, ref \in Nat, flag \in BOOLEAN :
        Says(s, r, send_message(r, Message(type, id, ref, flag)), t)
  BY Zenon, <1>1, SaysPlain DEF Kind
<1>6. Says(s, r, send_logon(s, FALSE), t)
  <2>1. send_logon(s, FALSE) = transition(send_message(r, Message("Logon", None, None, FALSE)), "LogonSent")
    BY Zenon DEF send_logon, r
  <2>2. Says(s, r, send_message(r, Message("Logon", None, None, FALSE)), t)
    BY Zenon, <1>2, <1>3, <1>5
  <2> QED
    BY Zenon, <1>2, <2>1, <2>2, SaysTransition
<1>7. Says(s, r, send_logout(s), t)
  <2>1. send_logout(s) = transition(send_message(r, Message("Logout", None, None, FALSE)), "LogoutSent")
    BY Zenon DEF send_logout, Plain, r
  <2>2. Says(s, r, send_message(r, Message("Logout", None, None, FALSE)), t)
    BY Zenon, <1>2, <1>3, <1>5
  <2> QED
    BY Zenon, <1>2, <2>1, <2>2, SaysTransition
<1>8. Says(s, r, send_test_request(s), t)
  BY Zenon, <1>1, SaysProbe DEF send_test_request, r
<1>9. Says(s, r, send_reject(s, 1), t)
  BY Zenon, <1>2, <1>3, <1>5 DEF send_reject, r
<1>10. Says(s, r, send_resend_request(r, 1, 0), t)
  BY <1>1, <1>4, SaysResendRequest
<1>11. Says(s, r, send_sequence_reset(s, s.outbound_seq + 1, FALSE), t)
  <2> DEFINE m == Message("SequenceReset", None, s.outbound_seq + 1, FALSE)
  <2>1. m \in MessageRec /\ m.type = "SequenceReset" /\ m.ref = s.outbound_seq + 1
    <3>1. "SequenceReset" \in MessageType /\ FALSE \in BOOLEAN /\ s.outbound_seq + 1 \in Nat
      BY <1>4 DEF MessageType
    <3> QED
      BY Zenon, <1>2, <3>1 DEF Message, MessageRec
  <2>2. send_sequence_reset(s, s.outbound_seq + 1, FALSE) = send_message(r, m)
    BY Zenon DEF send_sequence_reset, r
  <2> HIDE DEF m
  <2>3. m.type \in AdminType /\ m.ref <= r.s.outbound_seq + 1
    BY <1>1, <1>4, <2>1 DEF AdminType
  <2>4. Says(s, r, send_message(r, m), t)
    BY Zenon, <1>1, <2>1, <2>3, SaysSend
  <2> QED
    BY Zenon, <2>2, <2>4
<1> QED
  BY Zenon, <1>6, <1>7, <1>8, <1>9, <1>10, <1>11 DEF r

(* The timer, a second later. *)
LEMMA Timer ==
    ASSUME NEW s \in SessionRec, NEW t \in SessionRec
    PROVE  Says(s, Result(s), check_heartbeat(Aged(s)), t)
<1> DEFINE a == Aged(s)
           r == Result(a)
           beaten == IF a.send_age >= HeartBtInt THEN send_message(r, Plain("Heartbeat")) ELSE r
<1>1. a \in SessionRec /\ a.outbound_seq = s.outbound_seq /\ a.inbound_seq = s.inbound_seq
  <2>1. /\ Older(s.send_age, HeartBtInt) \in 0..HeartBtInt
        /\ Older(s.recv_age, SilenceLimit) \in 0..SilenceLimit
        /\ Older(s.test_age, HeartBtInt) \in 0..HeartBtInt
    BY HeartBtIntAssumption DEF SessionRec, Older, SilenceLimit
  <2>2. a \in SessionRec
    BY Zenon, <2>1 DEF SessionRec, Aged
  <2> QED
    BY Zenon, <2>2 DEF SessionRec, Aged
<1>2. Answer(a, r, t) /\ Quiet(r) /\ r.s = a /\ r.app = <<>> /\ Result(s).s = s /\ Result(s).app = <<>>
  BY Zenon, <1>1, AnswerNone, ResultFields
<1> DEFINE q == check_heartbeat(a)
<1> HIDE DEF a
<1>3. {"Heartbeat", "Logout"} \subseteq AdminType \ {"SequenceReset", "ResendRequest"}
      /\ None \in Nat /\ "LogoutSent" \in SessionState
  BY Zenon DEF AdminType, None, SessionState
<1>4. Says(a, r, beaten, t)
  BY Zenon, <1>1, <1>2, <1>3, SaysPlain, SaysNothing DEF Plain
<1>5. Answer(a, beaten, t) /\ Quiet(beaten)
  BY Zenon, <1>4 DEF Says
<1>6. /\ Says(a, beaten, Probe(beaten), t)
      /\ Says(a, beaten, transition(send_message(beaten, Plain("Logout")), "LogoutSent"), t)
  BY Zenon, <1>1, <1>3, <1>5, SaysProbe, SaysPlain, SaysTransition DEF Plain
<1>7. q \in {r, beaten, Probe(beaten), transition(send_message(beaten, Plain("Logout")), "LogoutSent")}
  BY Zenon DEF check_heartbeat
<1> HIDE DEF q, beaten
<1>8. Says(a, r, q, t)
  BY Zenon, <1>2, <1>4, <1>6, <1>7, SaysNothing DEF Says
<1>9. Says(s, Result(s), q, t)
  <2>1. Answer(s, q, t)
    BY Zenon, <1>1, <1>8 DEF Says, Answer
  <2> QED
    BY Zenon, <1>1, <1>2, <1>8, <2>1 DEF Says
<1> QED
  BY Zenon, <1>9 DEF q, a

----------------------------------------------------------------------------
(* Receiving. *)

(* The number expected next is set. *)
Expecting(r, n) == [r EXCEPT !.s.inbound_seq = n]

(* A change of the expected number says nothing. *)
LEMMA Expects ==
    ASSUME NEW s, NEW t, NEW r, Answer(s, r, t), Quiet(r), NEW n \in Nat
    PROVE  /\ Answer(s, Expecting(r, n), t) /\ Quiet(Expecting(r, n))
           /\ Expecting(r, n).s.inbound_seq = n /\ Expecting(r, n).app = r.app
<1> DEFINE q == [r EXCEPT !.s.inbound_seq = n]
<1>1. r \in ResultRec /\ r.s \in SessionRec
  BY Zenon DEF Answer, ResultRec
<1>2. q.s = [r.s EXCEPT !.inbound_seq = n] /\ q.sent = r.sent /\ q.app = r.app
  BY Zenon, <1>1 DEF ResultRec
<1>3. [r.s EXCEPT !.inbound_seq = n] \in SessionRec
  BY Zenon, <1>1 DEF SessionRec
<1>4. q \in ResultRec
  BY Zenon, <1>1, <1>3 DEF ResultRec
<1>5. q.s.inbound_seq = n /\ q.s.outbound_seq = r.s.outbound_seq
  BY Zenon, <1>1, <1>2 DEF SessionRec
<1> HIDE DEF q
<1>6. Answer(s, q, t) /\ Quiet(q)
  BY Zenon, <1>2, <1>4, <1>5, AnswerSame
<1> QED
  BY Zenon, <1>2, <1>5, <1>6 DEF q, Expecting

(* A heartbeat that answers the test request. *)
LEMMA SaysHeartbeatSeen ==
    ASSUME NEW s, NEW t, NEW r, Answer(s, r, t), Quiet(r), NEW m
    PROVE  Says(s, r, handle_heartbeat(r, m), t)
<1> DEFINE q == [r EXCEPT !.s.pending_test = None]
<1>1. r \in ResultRec /\ r.s \in SessionRec /\ None \in Nat
  BY Zenon DEF Answer, ResultRec, None
<1>2. q.s = [r.s EXCEPT !.pending_test = None] /\ q.sent = r.sent /\ q.app = r.app
  BY Zenon, <1>1 DEF ResultRec
<1>3. [r.s EXCEPT !.pending_test = None] \in SessionRec
  BY Zenon, <1>1 DEF SessionRec
<1>4. q \in ResultRec
  BY Zenon, <1>1, <1>3 DEF ResultRec
<1>5. q.s.inbound_seq = r.s.inbound_seq /\ q.s.outbound_seq = r.s.outbound_seq
  BY <1>1, <1>2 DEF SessionRec
<1>6. handle_heartbeat(r, m) \in {q, r}
  BY Zenon DEF handle_heartbeat
<1> HIDE DEF q
<1>7. Says(s, r, q, t) /\ Says(s, r, r, t)
  BY Zenon, <1>2, <1>4, <1>5, AnswerSame, SaysNothing DEF Says
<1> QED
  BY Zenon, <1>6, <1>7

(* The gap fill goes no further than the numbers that are used. *)
LEMMA SaysGapFill ==
    ASSUME NEW s \in SessionRec, NEW t \in SessionRec, NEW r, Answer(s, r, t), Quiet(r),
           NEW m \in MessageRec, m.ref < s.outbound_seq
    PROVE  Says(s, r, handle_resend_request(r, m), t)
<1> DEFINE end_seq == IF m.ref > 0 THEN m.ref + 1 ELSE r.s.outbound_seq
           fill == Message("SequenceReset", None, end_seq, TRUE)
           e == Stamped(r.s, fill, m.id)
           q == [r EXCEPT !.sent = Append(@, e), !.s.send_age = 0]
<1>1. r \in ResultRec /\ r.s \in SessionRec /\ r.sent \in Seq(MessageRec) /\ None \in Nat
      /\ s.outbound_seq <= r.s.outbound_seq
  BY Zenon DEF Answer, ResultRec, None
<1>2. r.s.outbound_seq \in Nat /\ s.outbound_seq \in Nat /\ m.ref \in Nat /\ m.id \in Nat
  BY Zenon, <1>1 DEF SessionRec, MessageRec
<1>3. end_seq \in Nat /\ end_seq <= r.s.outbound_seq
  BY <1>1, <1>2
<1> HIDE DEF end_seq
<1>4. fill \in MessageRec /\ fill.type = "SequenceReset" /\ fill.ref = end_seq
  <2>1. "SequenceReset" \in MessageType /\ TRUE \in BOOLEAN
    BY Zenon DEF MessageType
  <2> QED
    BY Zenon, <1>1, <1>3, <2>1 DEF Message, MessageRec
<1> HIDE DEF fill
<1>5. e \in MessageRec /\ e.type = "SequenceReset" /\ e.ref = end_seq
  BY ZenonT(60), <1>1, <1>2, <1>4, StampedFields
<1>6. handle_resend_request(r, m) = q
  BY Zenon DEF handle_resend_request, fill, end_seq
<1> HIDE DEF e
<1>7. q.s = [r.s EXCEPT !.send_age = 0] /\ q.sent = Append(r.sent, e) /\ q.app = r.app
  BY Zenon, <1>1 DEF ResultRec
<1>8. 0 \in 0..HeartBtInt /\ Append(r.sent, e) \in Seq(MessageRec)
  BY <1>1, <1>5, HeartBtIntAssumption
<1>9. [r.s EXCEPT !.send_age = 0] \in SessionRec
  BY Zenon, <1>1, <1>8 DEF SessionRec
<1>10. q \in ResultRec
  BY Zenon, <1>1, <1>8, <1>9 DEF ResultRec
<1>11. q.s.inbound_seq = r.s.inbound_seq /\ q.s.outbound_seq = r.s.outbound_seq
  BY Zenon, <1>1, <1>7 DEF SessionRec
<1> HIDE DEF q
<1>12. ~Numbered(e) /\ e.type # "ResendRequest" /\ e.type \in AdminType /\ e.ref <= q.s.outbound_seq
  BY Zenon, <1>3, <1>5, <1>11 DEF Numbered, AdminType
<1>13. Answer(s, q, t) /\ Quiet(q)
  BY Zenon, <1>5, <1>7, <1>10, <1>11, <1>12, AnswerMore
<1> QED
  BY Zenon, <1>6, <1>7, <1>11, <1>13 DEF Says

(* A message that is not a duplicate is counted, and a gap before it is    *)
(* asked for.                                                              *)
LEMMA Accepts ==
    ASSUME NEW s \in SessionRec, NEW t \in SessionRec, NEW r, Answer(s, r, t), Quiet(r),
           NEW m \in MessageRec, m.seq < t.outbound_seq
    PROVE  /\ Answer(s, Accepted(r, m), t) /\ Quiet(Accepted(r, m))
           /\ Accepted(r, m).s.inbound_seq = m.seq + 1
           /\ Accepted(r, m).app = r.app
<1> DEFINE asked == IF m.seq > r.s.inbound_seq
                    THEN send_resend_request(r, r.s.inbound_seq, m.seq - 1)
                    ELSE r
<1>1. r.s.inbound_seq \in Nat /\ m.seq \in Nat /\ t.outbound_seq \in Nat /\ m.seq + 1 \in Nat
  <2>1. r.s.inbound_seq \in Nat /\ t.outbound_seq \in Nat
    BY Zenon DEF Answer, ResultRec, SessionRec
  <2>2. m.seq \in Nat
    BY Zenon, MessageNumbers
  <2> QED
    BY <2>1, <2>2
<1>2. m.seq > r.s.inbound_seq => m.seq - 1 \in Nat /\ m.seq - 1 < t.outbound_seq
  BY <1>1
<1>3. Says(s, r, asked, t)
  BY Zenon, <1>1, <1>2, SaysResendRequest, SaysNothing
<1>4. Accepted(r, m) = Expecting(asked, m.seq + 1)
  BY Zenon DEF Accepted, Expecting
<1> HIDE DEF asked
<1>5. Answer(s, asked, t) /\ Quiet(asked) /\ asked.app = r.app
  BY Zenon, <1>3 DEF Says
<1>6. \A n \in Nat : /\ Answer(s, Expecting(asked, n), t) /\ Quiet(Expecting(asked, n))
                     /\ Expecting(asked, n).s.inbound_seq = n
                     /\ Expecting(asked, n).app = asked.app
  BY <1>5, Expects
<1> QED
  BY Zenon, <1>1, <1>4, <1>5, <1>6

(* The handlers of session messages; any other message is for the          *)
(* application.                                                            *)
LEMMA Dispatches ==
    ASSUME NEW s \in SessionRec, NEW t \in SessionRec, NEW r, Answer(s, r, t), Quiet(r),
           NEW m \in MessageRec, m.type # "SequenceReset", r.s.inbound_seq = m.seq + 1, r.app = <<>>,
           m.type = "ResendRequest" => m.ref < s.outbound_seq
    PROVE  /\ Answer(s, Dispatch(r, m), t) /\ Quiet(Dispatch(r, m))
           /\ Dispatch(r, m).s.inbound_seq = m.seq + 1
           /\ Dispatch(r, m).app # <<>> => m.type \notin AdminType
<1> DEFINE q == Dispatch(r, m)
           Kind == AdminType \ {"SequenceReset", "ResendRequest"}
<1>1. r \in ResultRec /\ m.id \in Nat /\ None \in Nat /\ m.seq + 1 \in Nat
  BY MessageNumbers DEF Answer, None
<1>2. {"Logon", "Logout", "Heartbeat"} \subseteq Kind /\ {"Active", "Disconnected"} \subseteq SessionState
  BY Zenon DEF AdminType, SessionState
<1> HIDE DEF Kind
<1>3. \A type \in Kind, id, ref \in Nat, flag \in BOOLEAN :
        Says(s, r, send_message(r, Message(type, id, ref, flag)), t)
  BY Zenon, SaysPlain DEF Kind
<1>4. Says(s, r, r, t)
  BY Zenon, SaysNothing
<1>5. CASE m.type = "Logon"
  <2> DEFINE answered ==
               CASE r.s.state = "LogonSent" -> transition(r, "Active")
                 [] r.s.state = "Disconnected" -> transition(send_message(r, Plain("Logon")), "Active")
                 [] OTHER -> r
  <2>1. answered \in {transition(r, "Active"), transition(send_message(r, Plain("Logon")), "Active"), r}
    BY Zenon
  <2>2. q \in {Expecting(answered, m.seq + 1), answered}
    BY Zenon, <1>5 DEF Dispatch, handle_logon, Expecting
  <2> HIDE DEF answered
  <2>3. /\ Says(s, r, transition(r, "Active"), t)
        /\ Says(s, r, transition(send_message(r, Plain("Logon")), "Active"), t)
    BY Zenon, <1>1, <1>2, <1>3, <1>4, SaysTransition DEF Plain
  <2>4. Says(s, r, answered, t)
    BY Zenon, <1>4, <2>1, <2>3
  <2>5. /\ Answer(s, answered, t) /\ Quiet(answered)
        /\ answered.s.inbound_seq = m.seq + 1 /\ answered.app = <<>>
    BY Zenon, <2>4 DEF Says
  <2> HIDE DEF q
  <2>6. Answer(s, q, t) /\ Quiet(q) /\ q.s.inbound_seq = m.seq + 1 /\ q.app = <<>>
    <3>1. \A n \in Nat : /\ Answer(s, Expecting(answered, n), t) /\ Quiet(Expecting(answered, n))
                         /\ Expecting(answered, n).s.inbound_seq = n
                         /\ Expecting(answered, n).app = answered.app
      BY <2>5, Expects
    <3> QED
      BY Zenon, <1>1, <2>2, <2>5, <3>1
  <2> QED
    BY Zenon, <2>6 DEF q
<1>6. CASE m.type \in {"Logout", "Heartbeat", "TestRequest", "ResendRequest", "Reject"}
  <2>1. CASE m.type = "Logout"
    <3>1. q \in {transition(r, "Disconnected"),
                 transition(send_message(r, Plain("Logout")), "Disconnected")}
      BY Zenon, <2>1 DEF Dispatch, handle_logout
    <3> HIDE DEF q
    <3>2. Says(s, r, q, t)
      BY Zenon, <1>1, <1>2, <1>3, <1>4, <3>1, SaysTransition DEF Plain
    <3> QED
      BY Zenon, <3>2 DEF Says, q
  <2>2. CASE m.type = "Heartbeat"
    <3>1. q = handle_heartbeat(r, m)
      BY Zenon, <2>2 DEF Dispatch
    <3> HIDE DEF q
    <3>2. Says(s, r, q, t)
      BY Zenon, <3>1, SaysHeartbeatSeen
    <3> QED
      BY Zenon, <3>2 DEF Says, q
  <2>3. CASE m.type = "TestRequest"
    <3>1. q = send_message(r, Message("Heartbeat", m.id, None, FALSE))
      BY Zenon, <2>3 DEF Dispatch, handle_test_request
    <3> HIDE DEF q
    <3>2. Says(s, r, q, t)
      BY Zenon, <1>1, <1>2, <1>3, <3>1
    <3> QED
      BY Zenon, <3>2 DEF Says, q
  <2>4. CASE m.type = "ResendRequest"
    <3>1. q = handle_resend_request(r, m)
      BY Zenon, <2>4 DEF Dispatch
    <3> HIDE DEF q
    <3>2. Says(s, r, q, t)
      BY Zenon, <2>4, <3>1, SaysGapFill
    <3> QED
      BY Zenon, <3>2 DEF Says, q
  <2>5. CASE m.type = "Reject"
    <3>1. q = r
      BY Zenon, <2>5 DEF Dispatch
    <3> HIDE DEF q
    <3> QED
      BY Zenon, <3>1 DEF q
  <2> QED
    BY Zenon, <1>6, <2>1, <2>2, <2>3, <2>4, <2>5
<1>7. CASE m.type \notin AdminType
  <2>1. q = [r EXCEPT !.app = Append(@, m)]
    BY Zenon, <1>7 DEF Dispatch, AdminType
  <2>2. Append(r.app, m) \in Seq(MessageRec)
    BY <1>1 DEF ResultRec
  <2> HIDE DEF q
  <2>3. q \in ResultRec
    BY Zenon, <1>1, <2>1, <2>2 DEF ResultRec
  <2>4. q.s = r.s /\ q.sent = r.sent
    BY Zenon, <1>1, <2>1 DEF ResultRec
  <2>5. Answer(s, q, t) /\ Quiet(q)
    BY Zenon, <2>3, <2>4, AnswerSame
  <2> QED
    BY Zenon, <1>7, <2>4, <2>5 DEF q
<1>8. m.type \in {"Logon", "SequenceReset", "Logout", "Heartbeat", "TestRequest", "ResendRequest", "Reject"}
      \/ m.type \notin AdminType
  BY Zenon DEF AdminType
<1> QED
  BY Zenon, <1>5, <1>6, <1>7, <1>8

(* `u` is session `s` after it has taken `m`. *)
Moves(s, u, m) ==
    u.inbound_seq \in {s.inbound_seq} \cup IF Numbered(m) THEN {m.seq + 1} ELSE {m.ref}

(* on_message_received: the number expected next moves, if at all, behind  *)
(* the message or to where a reset says.                                   *)
LEMMA Receives ==
    ASSUME NEW s \in SessionRec, NEW t \in SessionRec, NEW m \in MessageRec,
           Numbered(m) => m.seq < t.outbound_seq,
           m.type = "ResendRequest" => m.ref < s.outbound_seq
    PROVE  /\ Answer(s, on_message_received(s, m), t) /\ Quiet(on_message_received(s, m))
           /\ Moves(s, on_message_received(s, m).s, m)
           /\ on_message_received(s, m).app # <<>> => m.type \notin AdminType
<1> DEFINE s0 == [s EXCEPT !.recv_age = 0]
           r == Result(s0)
           q == on_message_received(s, m)
<1>1. s0 \in SessionRec /\ s0.outbound_seq = s.outbound_seq /\ s0.inbound_seq = s.inbound_seq
  <2>1. 0 \in 0..SilenceLimit
    BY HeartBtIntAssumption DEF SilenceLimit
  <2>2. s0 \in SessionRec
    BY Zenon, <2>1 DEF SessionRec
  <2> QED
    BY Zenon, <2>2 DEF SessionRec
<1>3. \/ q = r
      \/ m.type = "SequenceReset" /\ q = handle_sequence_reset(r, m)
      \/ m.type # "SequenceReset" /\ q = Dispatch(Accepted(r, m), m)
  BY DEF on_message_received
<1>4. handle_sequence_reset(r, m) \in {r, Expecting(r, m.ref)}
  BY Zenon DEF handle_sequence_reset, Expecting
<1> HIDE DEF s0, q
<1>5. Answer(s, r, t) /\ Quiet(r) /\ r.s.inbound_seq = s.inbound_seq /\ r.app = <<>>
  <2>1. Answer(s0, r, t) /\ Quiet(r) /\ r.s = s0 /\ r.app = <<>>
    BY Zenon, <1>1, AnswerNone, ResultFields
  <2> QED
    BY Zenon, <1>1, <2>1 DEF Answer
<1> HIDE DEF r
<1>6. CASE q = r
  BY Zenon, <1>5, <1>6 DEF q, Moves
<1>7. CASE m.type = "SequenceReset" /\ q = Expecting(r, m.ref)
  <2>1. m.ref \in Nat /\ ~Numbered(m)
    BY Zenon, <1>7, MessageNumbers DEF Numbered
  <2>2. Answer(s, q, t) /\ Quiet(q) /\ q.s.inbound_seq = m.ref /\ q.app = <<>>
    BY <1>5, <1>7, <2>1, Expects
  <2> QED
    BY Zenon, <2>1, <2>2 DEF q, Moves
<1>8. CASE m.type # "SequenceReset" /\ q = Dispatch(Accepted(r, m), m)
  <2>1. Numbered(m)
    BY Zenon, <1>8 DEF Numbered
  <2>2. /\ Answer(s, Accepted(r, m), t) /\ Quiet(Accepted(r, m))
        /\ Accepted(r, m).s.inbound_seq = m.seq + 1 /\ Accepted(r, m).app = <<>>
    BY <1>5, <2>1, Accepts
  <2>3. /\ Answer(s, q, t) /\ Quiet(q) /\ q.s.inbound_seq = m.seq + 1
        /\ q.app # <<>> => m.type \notin AdminType
    BY Zenon, <1>8, <2>2, Dispatches
  <2> QED
    BY Zenon, <2>1, <2>3 DEF q, Moves
<1> QED
  BY Zenon, <1>3, <1>4, <1>6, <1>7, <1>8

----------------------------------------------------------------------------
(* What is in flight. *)

(* A session's messages go behind those in flight, or are dropped. *)
LEMMA FlightSent ==
    ASSUME NEW s \in SessionRec, NEW t \in SessionRec, NEW f \in Seq(MessageRec), InFlight(f, s, t),
           NEW r, Answer(s, r, t)
    PROVE  /\ r.s \in SessionRec
           /\ InFlight(f, r.s, t)
           /\ f \o r.sent \in Seq(MessageRec)
           /\ InFlight(f \o r.sent, r.s, t)
<1> DEFINE g == r.sent
           h == f \o g
<1>1. g \in Seq(MessageRec) /\ r.s \in SessionRec /\ s.outbound_seq <= r.s.outbound_seq
  BY Zenon DEF Answer, ResultRec
<1>2. s.outbound_seq \in Nat /\ r.s.outbound_seq \in Nat /\ t.inbound_seq \in Nat /\ t.outbound_seq \in Nat
  BY Zenon, <1>1 DEF SessionRec
<1>3. \A i \in DOMAIN g :
        /\ Numbered(g[i]) => s.outbound_seq <= g[i].seq /\ g[i].seq < r.s.outbound_seq
        /\ ~Numbered(g[i]) => g[i].ref <= r.s.outbound_seq
        /\ g[i].type = "ResendRequest" => g[i].ref < t.outbound_seq
  BY Zenon DEF Answer
<1>4. \A i, j \in DOMAIN g : (i < j /\ Numbered(g[j])) =>
        IF Numbered(g[i]) THEN g[i].seq < g[j].seq ELSE g[i].ref <= g[j].seq
  BY Zenon DEF Answer
<1>5. /\ t.inbound_seq <= s.outbound_seq
      /\ \A i \in DOMAIN f :
           /\ Numbered(f[i]) => t.inbound_seq <= f[i].seq /\ f[i].seq < s.outbound_seq
           /\ ~Numbered(f[i]) => f[i].ref <= s.outbound_seq
           /\ f[i].type = "ResendRequest" => f[i].ref < t.outbound_seq
  BY Zenon DEF InFlight
<1>6. \A i, j \in DOMAIN f : (i < j /\ Numbered(f[j])) =>
        IF Numbered(f[i]) THEN f[i].seq < f[j].seq ELSE f[i].ref <= f[j].seq
  BY Zenon DEF InFlight
<1> HIDE DEF g
<1>7. /\ h \in Seq(MessageRec)
      /\ \A i \in DOMAIN h :
           \/ i \in DOMAIN f /\ h[i] = f[i]
           \/ i - Len(f) \in DOMAIN g /\ h[i] = g[i - Len(f)]
      /\ \A i \in DOMAIN f : i \in Nat /\ i <= Len(f)
      /\ \A i \in DOMAIN g : i \in Nat /\ i > 0
      /\ DOMAIN h \subseteq Nat
      /\ Len(f) \in Nat
  BY Zenon, <1>1, ConcatPlaces
<1>8. /\ \A i \in DOMAIN f : f[i].seq \in Nat /\ f[i].ref \in Nat
      /\ \A i \in DOMAIN g : g[i].seq \in Nat /\ g[i].ref \in Nat
  <2>1. (\A i \in DOMAIN f : f[i] \in MessageRec) /\ (\A i \in DOMAIN g : g[i] \in MessageRec)
    BY <1>1
  <2> QED
    BY Zenon, <2>1, MessageNumbers
<1> HIDE DEF h
<1>9. \A i \in DOMAIN f :
        /\ Numbered(f[i]) => t.inbound_seq <= f[i].seq /\ f[i].seq < r.s.outbound_seq
        /\ ~Numbered(f[i]) => f[i].ref <= r.s.outbound_seq
  BY <1>1, <1>2, <1>5, <1>8
<1>10. t.inbound_seq <= r.s.outbound_seq
  BY <1>1, <1>2, <1>5
<1>11. InFlight(f, r.s, t)
  BY Zenon, <1>5, <1>6, <1>9, <1>10 DEF InFlight
<1>12. \A i \in DOMAIN g : Numbered(g[i]) => t.inbound_seq <= g[i].seq
  BY <1>2, <1>3, <1>5, <1>8
<1>13. \A i \in DOMAIN h :
         /\ Numbered(h[i]) => t.inbound_seq <= h[i].seq /\ h[i].seq < r.s.outbound_seq
         /\ ~Numbered(h[i]) => h[i].ref <= r.s.outbound_seq
         /\ h[i].type = "ResendRequest" => h[i].ref < t.outbound_seq
  BY Zenon, <1>3, <1>5, <1>7, <1>9, <1>12
<1>14. ASSUME NEW i \in DOMAIN h, NEW j \in DOMAIN h, i < j, Numbered(h[j])
       PROVE  IF Numbered(h[i]) THEN h[i].seq < h[j].seq ELSE h[i].ref <= h[j].seq
  <2>1. CASE j \in DOMAIN f /\ h[j] = f[j]
    <3>1. i \in DOMAIN f /\ h[i] = f[i]
      BY <1>7, <1>14, <2>1
    <3> QED
      BY Zenon, <1>6, <1>14, <2>1, <3>1
  <2>2. CASE j - Len(f) \in DOMAIN g /\ h[j] = g[j - Len(f)]
    <3>1. CASE i \in DOMAIN f /\ h[i] = f[i]
      BY <1>2, <1>3, <1>5, <1>8, <1>14, <2>2, <3>1
    <3>2. CASE i - Len(f) \in DOMAIN g /\ h[i] = g[i - Len(f)]
      <4>1. i - Len(f) < j - Len(f)
        BY <1>7, <1>14
      <4> QED
        BY Zenon, <1>4, <1>14, <2>2, <3>2, <4>1
    <3> QED
      BY Zenon, <1>7, <3>1, <3>2
  <2> QED
    BY Zenon, <1>7, <2>1, <2>2
<1>15. InFlight(h, r.s, t)
  BY Zenon, <1>10, <1>13, <1>14 DEF InFlight
<1> QED
  BY Zenon, <1>1, <1>7, <1>11, <1>15 DEF g, h

(* The receiver may use more numbers itself. *)
LEMMA FlightPeer ==
    ASSUME NEW s \in SessionRec, NEW t \in SessionRec, NEW f \in Seq(MessageRec), InFlight(f, s, t),
           NEW u \in SessionRec, u.inbound_seq = t.inbound_seq, t.outbound_seq <= u.outbound_seq
    PROVE  InFlight(f, s, u)
<1>1. t.outbound_seq \in Nat /\ u.outbound_seq \in Nat
  BY Zenon DEF SessionRec
<1>2. \A i \in DOMAIN f : f[i].type = "ResendRequest" => f[i].ref < t.outbound_seq
  BY Zenon DEF InFlight
<1>3. \A i \in DOMAIN f : f[i].ref \in Nat
  BY MessageNumbers
<1>4. \A i \in DOMAIN f : f[i].type = "ResendRequest" => f[i].ref < u.outbound_seq
  BY <1>1, <1>2, <1>3
<1> QED
  BY Zenon, <1>4 DEF InFlight

(* The first message is taken. *)
LEMMA FlightTaken ==
    ASSUME NEW s \in SessionRec, NEW t \in SessionRec, NEW f \in Seq(MessageRec), InFlight(f, s, t),
           f # <<>>, NEW u \in SessionRec, t.outbound_seq <= u.outbound_seq,
           Moves(t, u, Head(f))
    PROVE  InFlight(Tail(f), s, u)
<1> DEFINE g == Tail(f)
<1>1. /\ t.outbound_seq \in Nat /\ u.outbound_seq \in Nat /\ s.outbound_seq \in Nat
      /\ t.inbound_seq \in Nat /\ u.inbound_seq \in Nat
  BY Zenon DEF SessionRec
<1>2. /\ t.inbound_seq <= s.outbound_seq
      /\ \A i \in DOMAIN f :
           /\ Numbered(f[i]) => t.inbound_seq <= f[i].seq /\ f[i].seq < s.outbound_seq
           /\ ~Numbered(f[i]) => f[i].ref <= s.outbound_seq
           /\ f[i].type = "ResendRequest" => f[i].ref < t.outbound_seq
  BY Zenon DEF InFlight
<1>3. \A i, j \in DOMAIN f : (i < j /\ Numbered(f[j])) =>
        IF Numbered(f[i]) THEN f[i].seq < f[j].seq ELSE f[i].ref <= f[j].seq
  BY Zenon DEF InFlight
<1>4. /\ \A i \in DOMAIN g : i \in Nat /\ i > 0 /\ i + 1 \in DOMAIN f /\ g[i] = f[i + 1]
      /\ 1 \in DOMAIN f /\ Head(f) = f[1]
  BY Zenon, TailPlaces
<1>5. \A i \in DOMAIN f : f[i].seq \in Nat /\ f[i].ref \in Nat
  BY MessageNumbers
<1> HIDE DEF g
<1>6. u.inbound_seq <= s.outbound_seq
  BY <1>1, <1>2, <1>4, <1>5 DEF Moves
<1>7. ASSUME NEW i \in DOMAIN g
      PROVE  /\ Numbered(g[i]) => u.inbound_seq <= g[i].seq /\ g[i].seq < s.outbound_seq
             /\ ~Numbered(g[i]) => g[i].ref <= s.outbound_seq
             /\ g[i].type = "ResendRequest" => g[i].ref < u.outbound_seq
  <2>1. i + 1 \in DOMAIN f /\ g[i] = f[i + 1] /\ 1 < i + 1 /\ 1 \in DOMAIN f
    BY <1>4
  <2>2. g[i].seq \in Nat /\ g[i].ref \in Nat /\ f[1].seq \in Nat /\ f[1].ref \in Nat
    BY Zenon, <1>5, <2>1
  <2>3. /\ Numbered(g[i]) => t.inbound_seq <= g[i].seq /\ g[i].seq < s.outbound_seq
        /\ ~Numbered(g[i]) => g[i].ref <= s.outbound_seq
        /\ g[i].type = "ResendRequest" => g[i].ref < t.outbound_seq
    BY Zenon, <1>2, <2>1
  <2>4. Numbered(g[i]) => IF Numbered(f[1]) THEN f[1].seq < g[i].seq ELSE f[1].ref <= g[i].seq
    BY Zenon, <1>3, <2>1
  <2>5. \/ u.inbound_seq = t.inbound_seq
        \/ Numbered(f[1]) /\ u.inbound_seq = f[1].seq + 1
        \/ ~Numbered(f[1]) /\ u.inbound_seq = f[1].ref
    BY Zenon, <1>4 DEF Moves
  <2> QED
    BY <1>1, <2>2, <2>3, <2>4, <2>5
<1>8. ASSUME NEW i \in DOMAIN g, NEW j \in DOMAIN g, i < j, Numbered(g[j])
      PROVE  IF Numbered(g[i]) THEN g[i].seq < g[j].seq ELSE g[i].ref <= g[j].seq
  <2>1. /\ i + 1 \in DOMAIN f /\ j + 1 \in DOMAIN f /\ g[i] = f[i + 1] /\ g[j] = f[j + 1]
        /\ i + 1 < j + 1
    BY <1>4, <1>8
  <2> QED
    BY Zenon, <1>3, <1>8, <2>1
<1>9. InFlight(g, s, u)
  BY Zenon, <1>6, <1>7, <1>8 DEF InFlight
<1> QED
  BY Zenon, <1>9 DEF g

(* A session that speaks: `f` is what it has in flight, `b` what comes.    *)
LEMMA SideSpeaks ==
    ASSUME NEW s \in SessionRec, NEW t \in SessionRec,
           NEW f \in Seq(MessageRec), NEW b \in Seq(MessageRec), InFlight(f, s, t), InFlight(b, t, s),
           NEW r, Answer(s, r, t), r.s.inbound_seq = s.inbound_seq,
           NEW f2 \in {f, f \o r.sent}
    PROVE  /\ r.s \in SessionRec /\ f2 \in Seq(MessageRec)
           /\ InFlight(f2, r.s, t) /\ InFlight(b, t, r.s)
<1>1. r.s \in SessionRec /\ s.outbound_seq <= r.s.outbound_seq
  BY Zenon DEF Answer, ResultRec
<1>2. f2 \in Seq(MessageRec) /\ InFlight(f2, r.s, t)
  BY Zenon, FlightSent
<1>3. InFlight(b, t, r.s)
  BY Zenon, <1>1, FlightPeer
<1> QED
  BY Zenon, <1>1, <1>2, <1>3

(* A session that takes the first message of what comes. *)
LEMMA SideTakes ==
    ASSUME NEW s \in SessionRec, NEW t \in SessionRec,
           NEW f \in Seq(MessageRec), NEW b \in Seq(MessageRec), InFlight(f, s, t), InFlight(b, t, s),
           b # <<>>, NEW r, Answer(s, r, t),
           Moves(s, r.s, Head(b)),
           NEW f2 \in {f, f \o r.sent}
    PROVE  /\ r.s \in SessionRec /\ f2 \in Seq(MessageRec) /\ Tail(b) \in Seq(MessageRec)
           /\ InFlight(f2, r.s, t) /\ InFlight(Tail(b), t, r.s)
<1>1. r.s \in SessionRec /\ s.outbound_seq <= r.s.outbound_seq
  BY Zenon DEF Answer, ResultRec
<1>2. f2 \in Seq(MessageRec) /\ InFlight(f2, r.s, t)
  BY Zenon, FlightSent
<1>3. InFlight(Tail(b), t, r.s)
  BY Zenon, <1>1, FlightTaken
<1>4. Tail(b) \in Seq(MessageRec)
  BY Zenon, TailPlaces
<1> QED
  BY Zenon, <1>1, <1>2, <1>3, <1>4

(* What on_message_received makes of that message. *)
LEMMA SideReceives ==
    ASSUME NEW s \in SessionRec, NEW t \in SessionRec,
           NEW b \in Seq(MessageRec), InFlight(b, t, s), b # <<>>,
           NEW r, r = on_message_received(s, Head(b))
    PROVE  /\ Answer(s, r, t) /\ Quiet(r)
           /\ Moves(s, r.s, Head(b))
           /\ r.app # <<>> => Head(b).type \notin AdminType
<1>1. 1 \in DOMAIN b /\ Head(b) = b[1] /\ Head(b) \in MessageRec
  BY Zenon, TailPlaces
<1>2. /\ Numbered(Head(b)) => Head(b).seq < t.outbound_seq
      /\ Head(b).type = "ResendRequest" => Head(b).ref < s.outbound_seq
  BY Zenon, <1>1 DEF InFlight
<1> QED
  BY Zenon, <1>1, <1>2, Receives

----------------------------------------------------------------------------
(* Messages of the application: orders, cancels and reports. *)

(* The answer of the order handler goes behind that of the session. *)
AppAnswer(r, m) == Then(r, send_app_message(r.s, m))

(* send_app_message adds one application message to an answer. *)
LEMMA AnswerApp ==
    ASSUME NEW s \in SessionRec, NEW t \in SessionRec, NEW r, Answer(s, r, t),
           NEW m \in MessageRec, m.type \notin AdminType
    PROVE  /\ Answer(s, AppAnswer(r, m), t) /\ AppAnswer(r, m).s.inbound_seq = r.s.inbound_seq
           /\ \E e \in MessageRec : /\ AppAnswer(r, m).sent = Append(r.sent, e)
                                    /\ e.type = m.type /\ e.id = m.id /\ e.status = m.status
<1> DEFINE q == AppAnswer(r, m)
           n == send_app_message(r.s, m)
           e == Stamped(r.s, m, r.s.outbound_seq)
<1>1. r \in ResultRec /\ r.s \in SessionRec /\ r.sent \in Seq(MessageRec) /\ r.s.outbound_seq \in Nat
  BY Zenon DEF Answer, ResultRec, SessionRec
<1>2. Result(r.s) \in ResultRec /\ Result(r.s).s = r.s /\ Result(r.s).sent = <<>>
  BY Zenon, <1>1, ResultFields
<1>3. /\ n \in ResultRec /\ n.sent = Append(<<>>, e)
      /\ n.s.outbound_seq = r.s.outbound_seq + 1 /\ n.s.inbound_seq = r.s.inbound_seq
  <2> DEFINE z == Result(r.s)
  <2>1. n = send_message(z, m)
    BY Zenon DEF send_app_message
  <2> HIDE DEF z, n, e
  <2>2. z \in ResultRec /\ z.s = r.s /\ z.sent = <<>>
    BY Zenon, <1>2 DEF z
  <2>3. /\ n \in ResultRec /\ n.sent = Append(z.sent, Stamped(z.s, m, z.s.outbound_seq))
        /\ n.s.outbound_seq = z.s.outbound_seq + 1 /\ n.s.inbound_seq = z.s.inbound_seq
    BY Zenon, <2>1, <2>2, SendMessage
  <2> QED
    BY Zenon, <2>2, <2>3 DEF e
<1>4. e \in MessageRec /\ e.seq = r.s.outbound_seq /\ e.type = m.type /\ e.id = m.id /\ e.status = m.status
  BY ZenonT(60), <1>1, StampedFields
<1> HIDE DEF n, e
<1>5. r.sent \o n.sent = Append(r.sent, e)
  BY <1>1, <1>3, <1>4
<1>6. q = [n EXCEPT !.sent = r.sent \o @]
  BY Zenon DEF Then, n, AppAnswer
<1> HIDE DEF q
<1>7. q.s = n.s /\ q.sent = Append(r.sent, e) /\ q.app = n.app
  BY Zenon, <1>3, <1>5, <1>6 DEF ResultRec
<1>8. Append(r.sent, e) \in Seq(MessageRec)
  BY <1>1, <1>4
<1>9. q \in ResultRec
  BY Zenon, <1>3, <1>5, <1>6, <1>8 DEF ResultRec
<1>10. Numbered(e) /\ e.type # "ResendRequest"
  BY Zenon, <1>4 DEF Numbered, AdminType
<1>11. q.s.outbound_seq = r.s.outbound_seq + 1 /\ q.s.inbound_seq = r.s.inbound_seq
  BY Zenon, <1>3, <1>7
<1>12. Answer(s, q, t)
  BY Zenon, <1>4, <1>7, <1>9, <1>10, <1>11, AnswerMore
<1> QED
  BY Zenon, <1>4, <1>7, <1>11, <1>12 DEF q

(* The order handler's own answer, and the orders of the application. *)
LEMMA AnswerAlone ==
    ASSUME NEW s \in SessionRec, NEW t \in SessionRec, NEW m \in MessageRec, m.type \notin AdminType,
           NEW q, q = send_app_message(s, m)
    PROVE  /\ Answer(s, q, t) /\ q.s.inbound_seq = s.inbound_seq
           /\ \E e \in MessageRec : /\ q.sent = Append(<<>>, e)
                                    /\ e.type = m.type /\ e.id = m.id /\ e.status = m.status
<1>1. Answer(s, Result(s), t) /\ Result(s).s = s /\ Result(s).sent = <<>> /\ Result(s) \in ResultRec
  BY Zenon, AnswerNone, ResultFields
<1>2. Numbered(m) /\ m.type # "ResendRequest"
  BY Zenon DEF Numbered, AdminType
<1>3. Answer(s, q, t)
  BY Zenon, <1>1, <1>2, AnswerSend DEF send_app_message
<1>4. /\ q.s.inbound_seq = s.inbound_seq
      /\ q.sent = Append(<<>>, Stamped(s, m, s.outbound_seq))
  <2> DEFINE z == Result(s)
  <2>1. q = send_message(z, m)
    BY Zenon DEF send_app_message
  <2> HIDE DEF z
  <2>2. z \in ResultRec /\ z.s = s /\ z.sent = <<>>
    BY Zenon, <1>1 DEF z
  <2>3. q.sent = Append(z.sent, Stamped(z.s, m, z.s.outbound_seq)) /\ q.s.inbound_seq = z.s.inbound_seq
    BY <2>1, <2>2, SendMessage
  <2> QED
    BY Zenon, <2>2, <2>3
<1>5. s.outbound_seq \in Nat
  BY Zenon DEF SessionRec
<1> QED
  BY Zenon, <1>3, <1>4, <1>5, StampedFields

(* The reports that the exchange sends. *)
ReportOf(id, status) == [Message("ExecutionReport", id, 0, FALSE) EXCEPT !.status = status]

(* An execution report has the fields it is built from. *)
LEMMA ReportMessage ==
    ASSUME NEW id \in Nat, NEW status \in {"New"} \cup Terminal, NEW m, m = ReportOf(id, status)
    PROVE  /\ m \in MessageRec /\ m.type = "ExecutionReport" /\ m.id = id /\ m.status = status
           /\ m.type \notin AdminType
<1>1. "ExecutionReport" \in MessageType /\ FALSE \in BOOLEAN /\ 0 \in Nat
      /\ "ExecutionReport" \notin AdminType /\ status \in {"none", "New"} \cup Terminal
  BY Zenon DEF MessageType, AdminType
<1> DEFINE p == Message("ExecutionReport", id, 0, FALSE)
<1>2. p \in MessageRec /\ p.type = "ExecutionReport" /\ p.id = id
  BY Zenon, <1>1 DEF Message, MessageRec
<1> HIDE DEF p
<1>3. m = [p EXCEPT !.status = status]
  BY Zenon DEF p, ReportOf
<1>4. m \in MessageRec
  BY Zenon, <1>1, <1>2, <1>3 DEF MessageRec
<1>5. m.type = p.type /\ m.id = p.id /\ m.status = status
  BY Zenon, <1>2, <1>3 DEF MessageRec
<1> QED
  BY Zenon, <1>1, <1>2, <1>4, <1>5

----------------------------------------------------------------------------
(* The steps of the exchange.  `q` is all that it says in the step.        *)

EndsIn(q, ended) == \A i \in DOMAIN q.sent : Ends(q.sent[i]) => q.sent[i].id \in ended

(* An answer of administrative messages ends no order. *)
LEMMA QuietEnds ==
    ASSUME NEW q, Quiet(q), NEW ended
    PROVE  EndsIn(q, ended)
  BY Zenon DEF Quiet, EndsIn, Ends, AdminType

(* One message more ends at most the order that it names. *)
LEMMA AppendEnds ==
    ASSUME NEW r, r.sent \in Seq(MessageRec), Quiet(r), NEW e \in MessageRec,
           NEW q, q.sent = Append(r.sent, e), NEW ended, Ends(e) => e.id \in ended
    PROVE  EndsIn(q, ended)
<1>1. \A i \in DOMAIN q.sent :
        \/ i \in DOMAIN r.sent /\ q.sent[i] = r.sent[i]
        \/ i = Len(r.sent) + 1 /\ q.sent[i] = e
  BY Zenon, AppendPlaces
<1>2. \A i \in DOMAIN r.sent : ~Ends(r.sent[i])
  BY SMTT(30) DEF Quiet, Ends, AdminType
<1> QED
  BY Zenon, <1>1, <1>2 DEF EndsIn

ExchangeSays(q) ==
    /\ Answer(ex, q, gw) /\ ExchangeSends(q)
    /\ exchange' \in [seen : Seq(Nat), live : SUBSET Nat]
    /\ EndsIn(q, Seen' \ exchange'.live)

(* A fill at the exchange is a report, and no order becomes live by it. *)
LEMMA FillParts ==
    ASSUME LinkTyped, OrdersTyped, OrdersAtExchange, ExchangeFills
    PROVE  \E q : /\ ExchangeSays(q) /\ q.s.inbound_seq = ex.inbound_seq
                  /\ exchange'.seen = exchange.seen /\ exchange'.live \subseteq exchange.live
<1>1. PICK id \in exchange.live : /\ ExchangeSends(Report(ex, id, "Filled"))
                                  /\ exchange' = [exchange EXCEPT !.live = @ \ {id}]
  BY Zenon DEF ExchangeFills
<1> DEFINE m == ReportOf(id, "Filled")
           q == send_app_message(ex, m)
<1>2. q = Report(ex, id, "Filled")
  BY Zenon DEF Report, ReportOf
<1>3. ex \in SessionRec /\ gw \in SessionRec
  BY Zenon DEF LinkTyped
<1>4. exchange \in [seen : Seq(Nat), live : SUBSET Nat] /\ id \in Nat
  BY Zenon DEF OrdersTyped
<1>5. /\ exchange' \in [seen : Seq(Nat), live : SUBSET Nat]
      /\ exchange'.seen = exchange.seen /\ exchange'.live = exchange.live \ {id}
  BY Zenon, <1>1, <1>4
<1>6. m \in MessageRec /\ m.id = id /\ m.type \notin AdminType
  BY Zenon, ReportMessage, <1>4 DEF Terminal
<1> HIDE DEF m
<1>7. /\ Answer(ex, q, gw) /\ q.s.inbound_seq = ex.inbound_seq
      /\ \E e \in MessageRec : q.sent = Append(<<>>, e) /\ e.id = id
  BY <1>3, <1>6, AnswerAlone
<1> HIDE DEF q
<1>8. id \in Seen' \ exchange'.live
  <2>1. id \in Seen
    BY Zenon DEF OrdersAtExchange
  <2> QED
    BY Zenon, <1>5, <2>1 DEF Seen
<1>9. EndsIn(q, Seen' \ exchange'.live)
  <2>1. PICK e \in MessageRec : q.sent = Append(<<>>, e) /\ e.id = id
    BY Zenon, <1>7
  <2>2. Result(ex).sent = <<>> /\ Quiet(Result(ex)) /\ <<>> \in Seq(MessageRec)
    BY <1>3, ResultFields, AnswerNone
  <2> QED
    BY Zenon, <1>8, <2>1, <2>2, AppendEnds
<1> QED
  BY Zenon, <1>1, <1>2, <1>5, <1>7, <1>9 DEF ExchangeSays

(* The exchange's own messages leave its orders alone. *)
LEMMA SpeechParts ==
    ASSUME LinkTyped, OrdersTyped, ExchangeSpeaks
    PROVE  \E q : /\ ExchangeSays(q) /\ q.s.inbound_seq = ex.inbound_seq /\ exchange' = exchange
<1>1. PICK q \in {send_test_request(ex), send_reject(ex, 1), send_resend_request(Result(ex), 1, 0),
                   send_sequence_reset(ex, ex.outbound_seq + 1, FALSE), send_logout(ex)} :
          ExchangeSends(q)
  BY Zenon DEF ExchangeSpeaks
<1>2. ex \in SessionRec /\ gw \in SessionRec
  BY Zenon DEF LinkTyped
<1>3. Says(ex, Result(ex), q, gw) /\ Result(ex).s = ex
  BY Zenon, <1>1, <1>2, Unasked, ResultFields
<1>4. Answer(ex, q, gw) /\ Quiet(q) /\ q.s.inbound_seq = ex.inbound_seq
  BY Zenon, <1>3 DEF Says
<1>5. exchange' = exchange /\ exchange \in [seen : Seq(Nat), live : SUBSET Nat]
  BY Zenon DEF ExchangeSpeaks, OrdersTyped
<1>6. EndsIn(q, Seen' \ exchange'.live)
  BY Zenon, <1>4, QuietEnds
<1> QED
  BY Zenon, <1>1, <1>4, <1>5, <1>6 DEF ExchangeSays

(* An order that the exchange sees is new to it. *)
LEMMA SeenMore ==
    ASSUME OrdersTyped, NEW id \in Nat, exchange'.seen = Append(exchange.seen, id)
    PROVE  Seen' = Seen \cup {id}
<1>1. exchange.seen \in Seq(Nat)
  BY Zenon DEF OrdersTyped
<1>2. \A i \in DOMAIN Append(exchange.seen, id) :
        \/ i \in DOMAIN exchange.seen /\ Append(exchange.seen, id)[i] = exchange.seen[i]
        \/ Append(exchange.seen, id)[i] = id
  BY <1>1
<1>3. \A i \in DOMAIN exchange.seen : /\ i \in DOMAIN Append(exchange.seen, id)
                                      /\ Append(exchange.seen, id)[i] = exchange.seen[i]
  BY <1>1
<1>4. /\ Len(exchange.seen) + 1 \in DOMAIN Append(exchange.seen, id)
      /\ Append(exchange.seen, id)[Len(exchange.seen) + 1] = id
  BY <1>1
<1> QED
  BY Zenon, <1>2, <1>3, <1>4 DEF Seen

(* The exchange answers a message and takes at most the order in it. *)
LEMMA ReceiveParts ==
    ASSUME LinkTyped, OrdersTyped, Flights, OrdersInFlight, OrdersAtExchange, ExchangeReceives
    PROVE  \E q : /\ ExchangeSays(q)
                  /\ Moves(ex, q.s, Head(to_ex))
                  /\ \/ /\ exchange'.seen = exchange.seen
                        /\ exchange'.live \subseteq exchange.live
                     \/ /\ Head(to_ex).type = "NewOrderSingle"
                        /\ exchange'.seen = Append(exchange.seen, Head(to_ex).id)
                        /\ exchange'.live \subseteq exchange.live \cup {Head(to_ex).id}
<1> DEFINE m == Head(to_ex)
           r == on_message_received(ex, m)
           MovesOn(q) == Moves(ex, q.s, m)
           Told(id, status) == AppAnswer(r, ReportOf(id, status))
           Refused == AppAnswer(r, Message("OrderCancelReject", m.id, m.ref, FALSE))
           Taken == \/ /\ exchange'.seen = exchange.seen
                       /\ exchange'.live \subseteq exchange.live
                    \/ /\ m.type = "NewOrderSingle"
                       /\ exchange'.seen = Append(exchange.seen, m.id)
                       /\ exchange'.live \subseteq exchange.live \cup {m.id}
<1> SUFFICES \E q : ExchangeSays(q) /\ MovesOn(q) /\ Taken
  BY Zenon
<1>1. /\ ex \in SessionRec /\ gw \in SessionRec /\ to_ex \in Seq(MessageRec) /\ to_ex # <<>>
      /\ InFlight(to_ex, gw, ex)
  BY Zenon DEF LinkTyped, Flights, ExchangeReceives
<1>2. m \in MessageRec /\ 1 \in DOMAIN to_ex /\ m = to_ex[1]
  BY Zenon, <1>1, TailPlaces
<1>3. m.id \in Nat /\ m.ref \in Nat
  BY Zenon, <1>2, MessageNumbers
<1>4. Answer(ex, r, gw) /\ Quiet(r) /\ MovesOn(r)
  BY ZenonT(60), <1>1, SideReceives
<1>5. r.sent \in Seq(MessageRec)
  BY Zenon, <1>4 DEF Answer, ResultRec
<1>6. exchange \in [seen : Seq(Nat), live : SUBSET Nat]
  BY Zenon DEF OrdersTyped
<1>7. \/ ExchangeSends(r) /\ exchange' = exchange
      \/ /\ m.type = "NewOrderSingle"
         /\ \E status \in {"New", "Rejected"} :
              /\ ExchangeSends(Told(m.id, status))
              /\ exchange' = [seen |-> Append(exchange.seen, m.id),
                              live |-> exchange.live \cup IF status = "New" THEN {m.id} ELSE {}]
      \/ /\ m.ref \in exchange.live /\ ExchangeSends(Told(m.ref, "Cancelled"))
         /\ exchange' = [exchange EXCEPT !.live = @ \ {m.ref}]
      \/ ExchangeSends(Refused) /\ exchange' = exchange
  BY Zenon DEF ExchangeReceives, Report, ReportOf, CancelReject, AppAnswer
<1> HIDE DEF m, r
<1>8. \A ended : \A id \in Nat, status \in {"New"} \cup Terminal :
        (status \in Terminal => id \in ended) =>
           Answer(ex, Told(id, status), gw) /\ MovesOn(Told(id, status)) /\ EndsIn(Told(id, status), ended)
  <2> TAKE ended
  <2> TAKE id \in Nat, status \in {"New"} \cup Terminal
  <2> HAVE status \in Terminal => id \in ended
  <2> DEFINE p == ReportOf(id, status)
             q == Told(id, status)
  <2>1. p \in MessageRec /\ p.id = id /\ p.status = status /\ p.type \notin AdminType
    BY ReportMessage
  <2> HIDE DEF p
  <2>2. q = AppAnswer(r, p)
    BY Zenon DEF p
  <2> HIDE DEF q
  <2>3. /\ Answer(ex, q, gw) /\ q.s.inbound_seq = r.s.inbound_seq
        /\ \E e \in MessageRec : /\ q.sent = Append(r.sent, e)
                                 /\ e.type = p.type /\ e.id = p.id /\ e.status = p.status
    <3>1. /\ Answer(ex, AppAnswer(r, p), gw) /\ AppAnswer(r, p).s.inbound_seq = r.s.inbound_seq
          /\ \E e \in MessageRec : /\ AppAnswer(r, p).sent = Append(r.sent, e)
                                   /\ e.type = p.type /\ e.id = p.id /\ e.status = p.status
      <4>1. p \in MessageRec /\ p.type \notin AdminType /\ ex \in SessionRec /\ gw \in SessionRec
            /\ Answer(ex, r, gw)
        BY Zenon, <1>1, <1>4, <2>1
      <4> QED
        BY <4>1, AnswerApp
    <3> QED
      BY Zenon, <2>2, <3>1
  <2>4. EndsIn(q, ended)
    <3>1. PICK e \in MessageRec : q.sent = Append(r.sent, e) /\ e.id = p.id /\ e.status = p.status
      BY Zenon, <2>3
    <3>2. Ends(e) => e.id \in ended
      BY Zenon, <2>1, <3>1 DEF Ends
    <3> QED
      BY Zenon, <1>4, <1>5, <3>1, <3>2, AppendEnds
  <2>5. MovesOn(q)
    BY Zenon, <1>4, <2>3 DEF Moves
  <2> QED
    BY Zenon, <2>3, <2>4, <2>5 DEF q
<1>9. Answer(ex, Refused, gw) /\ MovesOn(Refused) /\ \A ended : EndsIn(Refused, ended)
  <2> DEFINE p == Message("OrderCancelReject", m.id, m.ref, FALSE)
             q == Refused
  <2>1. p \in MessageRec /\ p.type = "OrderCancelReject"
    <3>1. "OrderCancelReject" \in MessageType /\ FALSE \in BOOLEAN
      BY Zenon DEF MessageType
    <3> QED
      BY Zenon, <1>3, <3>1 DEF Message, MessageRec
  <2> HIDE DEF p
  <2>2. p \in MessageRec /\ p.type \notin AdminType
    BY Zenon, <2>1 DEF AdminType
  <2>3. q = AppAnswer(r, p)
    BY Zenon DEF p
  <2> HIDE DEF q
  <2>4. /\ Answer(ex, q, gw) /\ q.s.inbound_seq = r.s.inbound_seq
        /\ \E e \in MessageRec : /\ q.sent = Append(r.sent, e)
                                 /\ e.type = p.type /\ e.id = p.id /\ e.status = p.status
    <3>1. /\ Answer(ex, AppAnswer(r, p), gw) /\ AppAnswer(r, p).s.inbound_seq = r.s.inbound_seq
          /\ \E e \in MessageRec : /\ AppAnswer(r, p).sent = Append(r.sent, e)
                                   /\ e.type = p.type /\ e.id = p.id /\ e.status = p.status
      <4>1. ex \in SessionRec /\ gw \in SessionRec /\ Answer(ex, r, gw)
        BY Zenon, <1>1, <1>4
      <4> QED
        BY <2>2, <4>1, AnswerApp
    <3> QED
      BY Zenon, <2>3, <3>1
  <2>5. \A ended : EndsIn(q, ended)
    <3>1. PICK e \in MessageRec : q.sent = Append(r.sent, e) /\ e.type = p.type
      BY Zenon, <2>4
    <3>2. ~Ends(e)
      BY Zenon, <2>1, <3>1 DEF Ends
    <3> QED
      BY Zenon, <1>4, <1>5, <3>1, <3>2, AppendEnds
  <2>6. MovesOn(q)
    BY Zenon, <1>4, <2>4 DEF Moves
  <2> QED
    BY Zenon, <2>4, <2>5, <2>6 DEF q
<1> HIDE DEF Refused, Told
<1>10. CASE ExchangeSends(r) /\ exchange' = exchange
  <2>1. ExchangeSays(r)
    BY Zenon, <1>4, <1>6, <1>10, QuietEnds DEF ExchangeSays
  <2>2. Taken
    BY Zenon, <1>10
  <2> QED
    BY Zenon, <1>4, <2>1, <2>2
<1>11. CASE /\ m.type = "NewOrderSingle"
            /\ \E status \in {"New", "Rejected"} :
                 /\ ExchangeSends(Told(m.id, status))
                 /\ exchange' = [seen |-> Append(exchange.seen, m.id),
                                 live |-> exchange.live \cup IF status = "New" THEN {m.id} ELSE {}]
  <2>1. PICK status \in {"New", "Rejected"} :
                 /\ ExchangeSends(Told(m.id, status))
                 /\ exchange' = [seen |-> Append(exchange.seen, m.id),
                                 live |-> exchange.live \cup IF status = "New" THEN {m.id} ELSE {}]
    BY Zenon, <1>11
  <2>2. /\ exchange'.seen = Append(exchange.seen, m.id)
        /\ exchange'.live \subseteq exchange.live \cup {m.id}
        /\ exchange' \in [seen : Seq(Nat), live : SUBSET Nat]
    BY <1>3, <1>6, <2>1
  <2>3. \A id \in Seen : id < m.id
    BY Zenon, <1>2, <1>11 DEF OrdersInFlight
  <2>4. m.id \notin exchange.live
    BY <1>3, <1>6, <2>3 DEF OrdersAtExchange
  <2>5. status = "Rejected" => m.id \in Seen' \ exchange'.live
    BY <1>3, <2>1, <2>2, <2>4, SeenMore
  <2>6. status \in {"New"} \cup Terminal /\ (status \in Terminal => status = "Rejected")
    BY Zenon DEF Terminal
  <2>7. /\ Answer(ex, Told(m.id, status), gw) /\ MovesOn(Told(m.id, status))
        /\ EndsIn(Told(m.id, status), Seen' \ exchange'.live)
    BY Zenon, <1>3, <1>8, <2>5, <2>6
  <2>8. ExchangeSays(Told(m.id, status))
    BY Zenon, <2>1, <2>2, <2>7 DEF ExchangeSays
  <2>9. Taken
    BY Zenon, <1>11, <2>2
  <2> QED
    BY Zenon, <2>7, <2>8, <2>9
<1>12. CASE /\ m.ref \in exchange.live /\ ExchangeSends(Told(m.ref, "Cancelled"))
            /\ exchange' = [exchange EXCEPT !.live = @ \ {m.ref}]
  <2>1. /\ exchange'.seen = exchange.seen /\ exchange'.live = exchange.live \ {m.ref}
        /\ exchange' \in [seen : Seq(Nat), live : SUBSET Nat]
    BY SMTT(30), <1>6, <1>12
  <2>2. m.ref \in Seen' \ exchange'.live
    BY Zenon, <1>12, <2>1 DEF OrdersAtExchange, Seen
  <2>3. "Cancelled" \in {"New"} \cup Terminal
    BY Zenon DEF Terminal
  <2>4. /\ Answer(ex, Told(m.ref, "Cancelled"), gw) /\ MovesOn(Told(m.ref, "Cancelled"))
        /\ EndsIn(Told(m.ref, "Cancelled"), Seen' \ exchange'.live)
    BY Zenon, <1>3, <1>8, <2>2, <2>3
  <2>5. ExchangeSays(Told(m.ref, "Cancelled"))
    BY Zenon, <1>12, <2>1, <2>4 DEF ExchangeSays
  <2>6. Taken
    BY Zenon, <1>6, <2>1
  <2> QED
    BY Zenon, <2>4, <2>5, <2>6
<1>13. CASE ExchangeSends(Refused) /\ exchange' = exchange
  <2>1. ExchangeSays(Refused)
    BY Zenon, <1>6, <1>9, <1>13 DEF ExchangeSays
  <2>2. Taken
    BY Zenon, <1>13
  <2> QED
    BY Zenon, <1>9, <2>1, <2>2
<1> QED
  BY Zenon, <1>7, <1>10, <1>11, <1>12, <1>13

----------------------------------------------------------------------------
(* The link: the two sessions and what is between them. *)

LinkInv == LinkTyped /\ Flights /\ NothingInFlight

LinkKept == UNCHANGED <<gw, ex, to_ex, to_gw>>

(* The gateway's session speaks. *)
LEMMA GatewaySpoke ==
    ASSUME LinkInv, NEW r, Answer(gw, r, ex), r.s.inbound_seq = gw.inbound_seq,
           GatewaySends(r), UNCHANGED <<ex, to_gw, tcp, recv_buf, losses>>
    PROVE  LinkInv'
<1>1. /\ gw \in SessionRec /\ ex \in SessionRec /\ to_ex \in Seq(MessageRec) /\ to_gw \in Seq(MessageRec)
      /\ InFlight(to_ex, gw, ex) /\ InFlight(to_gw, ex, gw)
  BY Zenon DEF LinkInv, LinkTyped, Flights
<1>2. gw' = r.s /\ to_ex' \in {to_ex, to_ex \o r.sent} /\ (~connected => to_ex' = to_ex)
  BY Zenon DEF GatewaySends
<1>3. /\ r.s \in SessionRec /\ to_ex' \in Seq(MessageRec)
      /\ InFlight(to_ex', r.s, ex) /\ InFlight(to_gw, ex, r.s)
  BY Zenon, <1>1, <1>2, SideSpeaks
<1>4. LinkTyped'
  BY Zenon, <1>2, <1>3 DEF LinkInv, LinkTyped
<1>5. Flights'
  BY Zenon, <1>2, <1>3 DEF Flights
<1>6. NothingInFlight'
  BY Zenon, <1>2 DEF LinkInv, NothingInFlight, connected
<1> QED
  BY Zenon, <1>4, <1>5, <1>6 DEF LinkInv

(* The exchange's session speaks. *)
LEMMA ExchangeSpoke ==
    ASSUME LinkInv, NEW r, Answer(ex, r, gw), r.s.inbound_seq = ex.inbound_seq,
           ExchangeSends(r), UNCHANGED <<gw, to_ex, tcp, recv_buf, losses>>
    PROVE  LinkInv'
<1>1. /\ gw \in SessionRec /\ ex \in SessionRec /\ to_ex \in Seq(MessageRec) /\ to_gw \in Seq(MessageRec)
      /\ InFlight(to_ex, gw, ex) /\ InFlight(to_gw, ex, gw)
  BY Zenon DEF LinkInv, LinkTyped, Flights
<1>2. ex' = r.s /\ to_gw' \in {to_gw, to_gw \o r.sent} /\ (~connected => to_gw' = to_gw)
  BY Zenon DEF ExchangeSends
<1>3. /\ r.s \in SessionRec /\ to_gw' \in Seq(MessageRec)
      /\ InFlight(to_gw', r.s, gw) /\ InFlight(to_ex, gw, r.s)
  BY Zenon, <1>1, <1>2, SideSpeaks
<1>4. LinkTyped'
  BY Zenon, <1>2, <1>3 DEF LinkInv, LinkTyped
<1>5. Flights'
  BY Zenon, <1>2, <1>3 DEF Flights
<1>6. NothingInFlight'
  BY Zenon, <1>2 DEF LinkInv, NothingInFlight, connected
<1> QED
  BY Zenon, <1>4, <1>5, <1>6 DEF LinkInv

(* The exchange takes a message. *)
LEMMA ExchangeTook ==
    ASSUME LinkInv, to_ex # <<>>, NEW r, Answer(ex, r, gw),
           Moves(ex, r.s, Head(to_ex)),
           ExchangeSends(r), to_ex' = Tail(to_ex), UNCHANGED <<gw, tcp, recv_buf, losses>>
    PROVE  LinkInv'
<1>1. /\ gw \in SessionRec /\ ex \in SessionRec /\ to_ex \in Seq(MessageRec) /\ to_gw \in Seq(MessageRec)
      /\ InFlight(to_ex, gw, ex) /\ InFlight(to_gw, ex, gw) /\ connected
  BY Zenon DEF LinkInv, LinkTyped, Flights, NothingInFlight
<1>2. ex' = r.s /\ to_gw' \in {to_gw, to_gw \o r.sent}
  BY Zenon DEF ExchangeSends
<1>3. /\ r.s \in SessionRec /\ to_gw' \in Seq(MessageRec) /\ Tail(to_ex) \in Seq(MessageRec)
      /\ InFlight(to_gw', r.s, gw) /\ InFlight(Tail(to_ex), gw, r.s)
  BY ZenonT(60), <1>1, <1>2, SideTakes
<1>4. LinkTyped'
  BY Zenon, <1>2, <1>3 DEF LinkInv, LinkTyped
<1>5. Flights'
  BY Zenon, <1>2, <1>3 DEF Flights
<1>6. NothingInFlight'
  BY Zenon, <1>1 DEF NothingInFlight, connected
<1> QED
  BY Zenon, <1>4, <1>5, <1>6 DEF LinkInv

(* The gateway takes a message. *)
LEMMA GatewayTook ==
    ASSUME LinkInv, on_tcp_data
    PROVE  LinkInv'
<1>1. /\ gw \in SessionRec /\ ex \in SessionRec /\ to_ex \in Seq(MessageRec) /\ to_gw \in Seq(MessageRec)
      /\ InFlight(to_ex, gw, ex) /\ InFlight(to_gw, ex, gw)
  BY Zenon DEF LinkInv, LinkTyped, Flights
<1> DEFINE r == on_message_received(gw, Head(to_gw))
<1>2. /\ connected /\ to_gw # <<>> /\ to_gw' = Tail(to_gw) /\ UNCHANGED <<ex, tcp, losses>>
      /\ recv_buf' \in {"empty", "broken"}
      /\ (gw' = r.s /\ to_ex' \in {to_ex, to_ex \o r.sent}) \/ (gw' = gw /\ to_ex' = to_ex)
  <2>1. \A e \in Extracted(recv_buf) : e.buf \in {"empty", "broken"}
    BY DEF Extracted, LinkInv, LinkTyped
  <2> QED
    BY Zenon, <2>1 DEF on_tcp_data, GatewaySends, exVars
<1>3. /\ Answer(gw, r, ex)
      /\ Moves(gw, r.s, Head(to_gw))
  BY Zenon, <1>1, <1>2, SideReceives
<1> HIDE DEF r
<1>4. /\ gw' \in SessionRec /\ to_ex' \in Seq(MessageRec) /\ to_gw' \in Seq(MessageRec)
      /\ InFlight(to_ex', gw', ex) /\ InFlight(to_gw', ex, gw')
  <2>1. CASE gw' = r.s /\ to_ex' \in {to_ex, to_ex \o r.sent}
    BY ZenonT(60), <1>1, <1>2, <1>3, <2>1, SideTakes
  <2>2. CASE gw' = gw /\ to_ex' = to_ex
    <3>1. gw.outbound_seq \in Nat
      BY Zenon, <1>1 DEF SessionRec
    <3>2. InFlight(Tail(to_gw), ex, gw)
      BY <1>1, <1>2, <3>1, FlightTaken DEF Moves
    <3> QED
      BY Zenon, <1>1, <1>2, <2>2, <3>2, TailPlaces
  <2> QED
    BY Zenon, <1>2, <2>1, <2>2
<1>5. LinkTyped'
  BY Zenon, <1>2, <1>4 DEF LinkInv, LinkTyped
<1>6. Flights'
  BY Zenon, <1>2, <1>4 DEF Flights
<1>7. NothingInFlight'
  BY Zenon, <1>2 DEF NothingInFlight, connected
<1> QED
  BY Zenon, <1>5, <1>6, <1>7 DEF LinkInv

(* The connection ends: nothing is in flight and the numbers stay. *)
LEMMA LinkClosed ==
    ASSUME LinkInv, NEW phase \in Phase, NEW running \in BOOLEAN, Closed(phase, running),
           phase # "connected", recv_buf' \in {"empty", "rest", "broken"}, losses' \in 0..MaxLosses
    PROVE  LinkInv'
<1>1. gw \in SessionRec /\ ex \in SessionRec /\ "Disconnected" \in SessionState
  BY Zenon DEF LinkInv, LinkTyped, SessionState
<1>2. /\ gw' = [gw EXCEPT !.state = "Disconnected"] /\ ex' = [ex EXCEPT !.state = "Disconnected"]
      /\ to_ex' = <<>> /\ to_gw' = <<>> /\ tcp' = [phase |-> phase, running |-> running]
  BY Zenon DEF Closed, on_disconnect
<1>3. gw' \in SessionRec /\ ex' \in SessionRec
  BY Zenon, <1>1, <1>2 DEF SessionRec
<1>4. /\ gw'.outbound_seq = gw.outbound_seq /\ gw'.inbound_seq = gw.inbound_seq
      /\ ex'.outbound_seq = ex.outbound_seq /\ ex'.inbound_seq = ex.inbound_seq
  BY Zenon, <1>1, <1>2 DEF SessionRec
<1>5. LinkTyped'
  BY <1>2, <1>3 DEF LinkTyped
<1>6. Flights'
  <2>1. gw.inbound_seq <= ex.outbound_seq /\ ex.inbound_seq <= gw.outbound_seq
    BY Zenon DEF LinkInv, Flights, InFlight
  <2>2. gw'.inbound_seq <= ex'.outbound_seq /\ ex'.inbound_seq <= gw'.outbound_seq
    BY Zenon, <1>4, <2>1
  <2>3. DOMAIN to_ex' = {} /\ DOMAIN to_gw' = {}
    BY <1>2
  <2> QED
    BY Zenon, <2>2, <2>3 DEF Flights, InFlight
<1>7. NothingInFlight'
  BY Zenon, <1>2 DEF NothingInFlight
<1> QED
  BY Zenon, <1>5, <1>6, <1>7 DEF LinkInv

(* The client moves between two states in which it is not connected. *)
LEMMA LinkDown ==
    ASSUME LinkInv, ~connected, NEW phase \in Phase, NEW running \in BOOLEAN, LinkKept,
           tcp' = [phase |-> phase, running |-> running], recv_buf' = recv_buf, losses' \in 0..MaxLosses
    PROVE  LinkInv'
<1>1. LinkTyped' /\ Flights'
  BY Zenon DEF LinkInv, LinkTyped, Flights, LinkKept
<1>2. NothingInFlight'
  BY Zenon DEF LinkInv, NothingInFlight, LinkKept
<1> QED
  BY Zenon, <1>1, <1>2 DEF LinkInv

(* on_connect_ logs on. *)
LEMMA LinkConnected ==
    ASSUME LinkInv, Connected
    PROVE  LinkInv'
<1> DEFINE r == send_logon(gw, FALSE)
<1>1. /\ tcp.phase = "connecting" /\ tcp' = [tcp EXCEPT !.phase = "connected"]
      /\ gw' = r.s /\ to_ex' = r.sent /\ UNCHANGED <<ex, to_gw, recv_buf, losses>>
  BY Zenon DEF Connected, exVars, ioVars
<1>2. /\ gw \in SessionRec /\ ex \in SessionRec /\ to_ex \in Seq(MessageRec) /\ to_gw \in Seq(MessageRec)
      /\ InFlight(to_ex, gw, ex) /\ InFlight(to_gw, ex, gw) /\ tcp \in [phase : Phase, running : BOOLEAN]
  BY Zenon DEF LinkInv, LinkTyped, Flights
<1>3. to_ex = <<>>
  BY Zenon, <1>1 DEF LinkInv, NothingInFlight, connected
<1>4. Says(gw, Result(gw), r, ex) /\ Result(gw).s = gw
  BY Zenon, <1>2, Unasked, ResultFields
<1> HIDE DEF r
<1>5. Answer(gw, r, ex) /\ r.s.inbound_seq = gw.inbound_seq
  BY Zenon, <1>4 DEF Says
<1>6. to_ex' = to_ex \o r.sent
  BY <1>1, <1>3, <1>5 DEF Answer, ResultRec
<1>7. /\ r.s \in SessionRec /\ to_ex' \in Seq(MessageRec)
      /\ InFlight(to_ex', r.s, ex) /\ InFlight(to_gw, ex, r.s)
  BY Zenon, <1>2, <1>5, <1>6, SideSpeaks
<1>8. tcp' \in [phase : Phase, running : BOOLEAN] /\ tcp'.phase = "connected"
  BY Zenon, <1>1, <1>2 DEF Phase
<1>9. LinkTyped'
  BY Zenon, <1>1, <1>7, <1>8 DEF LinkInv, LinkTyped
<1>10. Flights'
  BY Zenon, <1>1, <1>7 DEF Flights
<1>11. NothingInFlight'
  BY Zenon, <1>8 DEF NothingInFlight, connected
<1> QED
  BY Zenon, <1>9, <1>10, <1>11 DEF LinkInv

(* Every step keeps the link. *)
LEMMA LinkNext ==
    ASSUME LinkInv, OrdersTyped, IdsUsed, OrdersInFlight, OrdersAtExchange, [Next]_vars
    PROVE  LinkInv'
<1>1. /\ gw \in SessionRec /\ ex \in SessionRec /\ losses \in 0..MaxLosses
      /\ tcp \in [phase : Phase, running : BOOLEAN] /\ recv_buf \in {"empty", "rest", "broken"}
      /\ LinkTyped /\ Flights /\ losses + 1 \in Nat /\ (losses < MaxLosses => losses + 1 \in 0..MaxLosses)
  BY FixBounds DEF LinkInv, LinkTyped
<1>2. CASE connect \/ Resolved \/ ConnectFailed \/ ReconnectTimer \/ (tcp_disconnect /\ ~connected)
  <2>1. ~connected /\ LinkKept /\ recv_buf' = recv_buf
    BY Zenon, <1>2 DEF connect, Resolved, ConnectFailed, ReconnectTimer, tcp_disconnect, Closed, connected,
                exVars, ioVars, LinkKept
  <2>2. losses' \in 0..MaxLosses
    BY Zenon, <1>1, <1>2 DEF connect, Resolved, ConnectFailed, ReconnectTimer, tcp_disconnect
  <2>3. \E phase \in Phase, running \in BOOLEAN : tcp' = [phase |-> phase, running |-> running]
    <3>1. {"off", "resolving", "connecting", "waiting"} \subseteq Phase
      BY Zenon DEF Phase
    <3>2. \A p \in Phase : [tcp EXCEPT !.phase = p] = [phase |-> p, running |-> tcp.running]
      BY <1>1
    <3>3. tcp.running \in BOOLEAN
      BY Zenon, <1>1
    <3>4. CASE connect
      BY Zenon, <3>1, <3>4 DEF connect
    <3>5. CASE Resolved \/ ConnectFailed \/ ReconnectTimer
      BY Zenon, <3>1, <3>2, <3>3, <3>5 DEF Resolved, ConnectFailed, ReconnectTimer, Rescheduled
    <3>6. CASE tcp_disconnect /\ ~connected
      BY Zenon, <3>1, <3>6 DEF tcp_disconnect
    <3> QED
      BY Zenon, <1>2, <3>4, <3>5, <3>6
  <2> QED
    BY Zenon, <2>1, <2>2, <2>3, LinkDown
<1>3. CASE Connected
  BY Zenon, <1>3, LinkConnected
<1>4. CASE ConnectionLost
  <2>1. Rescheduled.phase \in Phase \ {"connected"} /\ tcp.running \in BOOLEAN
    BY Zenon, <1>1 DEF Rescheduled, Phase
  <2>2. /\ Closed(Rescheduled.phase, tcp.running) /\ losses' \in 0..MaxLosses
        /\ recv_buf' \in {"empty", "rest", "broken"}
    BY Zenon, <1>1, <1>4 DEF ConnectionLost
  <2> QED
    BY Zenon, <2>1, <2>2, LinkClosed
<1>5. CASE tcp_disconnect /\ connected
  <2>1. /\ Closed("off", FALSE) /\ losses' \in 0..MaxLosses /\ recv_buf' \in {"empty", "rest", "broken"}
        /\ "off" \in Phase /\ "off" # "connected"
    BY Zenon, <1>1, <1>5 DEF tcp_disconnect, Phase
  <2> QED
    BY Zenon, <2>1, LinkClosed
<1>6. CASE on_tcp_data
  BY Zenon, <1>6, GatewayTook
<1>7. CASE on_app_message \/ send_new_order \/ send_cancel \/ Track \/ UNCHANGED vars
  <2>1. UNCHANGED <<gw, ex, to_ex, to_gw, tcp, recv_buf, losses>>
    BY Zenon, <1>7 DEF on_app_message, send_new_order, send_cancel, Begin, Track, exVars, ioVars, vars
  <2> QED
    BY Zenon, <2>1 DEF LinkInv, LinkTyped, Flights, NothingInFlight, connected
<1>8. CASE heartbeat_timer
  <2>1. GatewaySends(check_heartbeat(Aged(gw))) /\ UNCHANGED <<ex, to_gw, tcp, recv_buf, losses>>
    BY Zenon, <1>8 DEF heartbeat_timer, exVars, ioVars
  <2>2. Answer(gw, check_heartbeat(Aged(gw)), ex)
        /\ check_heartbeat(Aged(gw)).s.inbound_seq = gw.inbound_seq
    BY Zenon, <1>1, Timer, ResultFields DEF Says
  <2> QED
    BY Zenon, <2>1, <2>2, GatewaySpoke
<1>9. CASE disconnect
  <2>1. GatewaySends(send_logout(gw)) /\ UNCHANGED <<ex, to_gw, tcp, recv_buf, losses>>
    BY Zenon, <1>9 DEF disconnect, exVars, ioVars
  <2>2. Answer(gw, send_logout(gw), ex) /\ send_logout(gw).s.inbound_seq = gw.inbound_seq
    BY ZenonT(60), <1>1, Unasked, ResultFields DEF Says
  <2> QED
    BY Zenon, <2>1, <2>2, GatewaySpoke
<1>10. CASE Send
  <2> DEFINE m == Message(app.op, app.id, app.orig, FALSE)
             r == send_app_message(gw, m)
  <2>1. app.op \in MessageType /\ app.op \notin AdminType /\ app.id \in Nat /\ app.orig \in Nat
    BY Zenon, <1>10 DEF Send, OrdersTyped, IdsUsed, MessageType, AdminType
  <2>2. m \in MessageRec /\ m.type = app.op
    BY Zenon, <2>1 DEF Message, MessageRec
  <2>3. GatewaySends(r) /\ UNCHANGED <<ex, to_gw, tcp, recv_buf, losses>>
    BY Zenon, <1>10 DEF Send, exVars, ioVars
  <2> HIDE DEF m
  <2>4. Answer(gw, r, ex) /\ r.s.inbound_seq = gw.inbound_seq
    BY <1>1, <2>1, <2>2, AnswerAlone
  <2> HIDE DEF r
  <2> QED
    BY Zenon, <2>3, <2>4, GatewaySpoke
<1>11. CASE ExchangeReceives
  <2>1. PICK q : ExchangeSays(q) /\ Moves(ex, q.s, Head(to_ex))
    BY Zenon, <1>1, <1>11, ReceiveParts
  <2>2. to_ex # <<>> /\ to_ex' = Tail(to_ex) /\ UNCHANGED <<gw, tcp, recv_buf, losses>>
    BY Zenon, <1>11 DEF ExchangeReceives, ioVars
  <2> QED
    BY Zenon, <2>1, <2>2, ExchangeTook DEF ExchangeSays
<1>12. CASE ExchangeFills
  <2>1. PICK q : ExchangeSays(q) /\ q.s.inbound_seq = ex.inbound_seq
    BY Zenon, <1>1, <1>12, FillParts
  <2>2. UNCHANGED <<gw, to_ex, tcp, recv_buf, losses>>
    BY Zenon, <1>12 DEF ExchangeFills, ioVars
  <2> QED
    BY Zenon, <2>1, <2>2, ExchangeSpoke DEF ExchangeSays
<1>13. CASE ExchangeSpeaks
  <2>1. PICK q : ExchangeSays(q) /\ q.s.inbound_seq = ex.inbound_seq
    BY Zenon, <1>1, <1>13, SpeechParts
  <2>2. UNCHANGED <<gw, to_ex, tcp, recv_buf, losses>>
    BY Zenon, <1>13 DEF ExchangeSpeaks, ioVars
  <2> QED
    BY Zenon, <2>1, <2>2, ExchangeSpoke DEF ExchangeSays
<1> QED
  BY Zenon, <1>2, <1>3, <1>4, <1>5, <1>6, <1>7, <1>8, <1>9, <1>10, <1>11, <1>12, <1>13
     DEF Next, Client, Application

----------------------------------------------------------------------------
(* The orders. *)

OrderInv ==
    /\ OrdersTyped /\ IdsUsed /\ OrdersInFlight /\ OrdersAtExchange /\ OrdersOnceInOrder
    /\ EndsAreTrue

(* No order joins those on the wire, and none changes its place. *)
OrdersStay ==
    \A i \in DOMAIN to_ex' :
       to_ex'[i].type = "NewOrderSingle" => i \in DOMAIN to_ex /\ to_ex'[i] = to_ex[i]

(* No end joins those on the wire. *)
EndsStay ==
    \A i \in DOMAIN to_gw' : Ends(to_gw'[i]) => \E k \in DOMAIN to_gw : to_gw[k] = to_gw'[i]

(* Messages of the session behind what is in flight. *)
LEMMA QuietWire ==
    ASSUME LinkTyped, NEW r, Answer(gw, r, ex), Quiet(r), to_ex' \in {to_ex, to_ex \o r.sent}
    PROVE  OrdersStay
<1>1. to_ex \in Seq(MessageRec) /\ r.sent \in Seq(MessageRec)
  BY Zenon DEF LinkTyped, Answer, ResultRec
<1>2. CASE to_ex' = to_ex
  BY Zenon, <1>2 DEF OrdersStay
<1>3. CASE to_ex' = to_ex \o r.sent
  <2>1. \A i \in DOMAIN (to_ex \o r.sent) :
          \/ i \in DOMAIN to_ex /\ (to_ex \o r.sent)[i] = to_ex[i]
          \/ i - Len(to_ex) \in DOMAIN r.sent /\ (to_ex \o r.sent)[i] = r.sent[i - Len(to_ex)]
    BY Zenon, <1>1, ConcatPlaces
  <2>2. \A i \in DOMAIN r.sent : r.sent[i].type # "NewOrderSingle"
    BY Zenon DEF Quiet, AdminType
  <2> QED
    BY Zenon, <1>3, <2>1, <2>2 DEF OrdersStay
<1> QED
  BY Zenon, <1>2, <1>3

(* Steps of the client and of the gateway's session. *)
LEMMA WireKeeps ==
    ASSUME OrderInv, UNCHANGED <<app, orders, exchange, done>>, OrdersStay, EndsStay,
           io' \in {io, Idle} \cup MessageRec,
           Ends(io') => io' = io \/ \E k \in DOMAIN to_gw : to_gw[k] = io'
    PROVE  OrderInv'
<1>1. Seen' = Seen /\ Unsent' = Unsent /\ Unrecorded' = Unrecorded
  BY Zenon DEF Seen, Unsent, Unrecorded
<1>2. OrdersTyped' /\ IdsUsed' /\ OrdersOnceInOrder'
  BY Zenon DEF OrderInv, OrdersTyped, IdsUsed, OrdersOnceInOrder
<1>3. OrdersInFlight'
  BY Zenon, <1>1 DEF OrderInv, OrdersInFlight, OrdersStay
<1>4. OrdersAtExchange'
  BY Zenon, <1>1 DEF OrderInv, OrdersAtExchange
<1>5. EndsAreTrue'
  BY Zenon, <1>1 DEF OrderInv, EndsAreTrue, EndsStay
<1> QED
  BY Zenon, <1>2, <1>3, <1>4, <1>5 DEF OrderInv

(* The steps of the TCP client and of the session keep the orders in agreement. *)
LEMMA WireNext ==
    ASSUME LinkInv, OrderInv,
           \/ connect \/ Resolved \/ Connected \/ ConnectFailed \/ ReconnectTimer \/ ConnectionLost
           \/ tcp_disconnect \/ heartbeat_timer \/ disconnect \/ on_tcp_data
    PROVE  OrderInv'
<1>1. /\ gw \in SessionRec /\ ex \in SessionRec /\ to_ex \in Seq(MessageRec) /\ to_gw \in Seq(MessageRec)
      /\ InFlight(to_gw, ex, gw) /\ LinkTyped
  BY Zenon DEF LinkInv, LinkTyped, Flights
<1>2. CASE connect \/ Resolved \/ ConnectFailed \/ ReconnectTimer
  <2>1. UNCHANGED <<app, orders, exchange, done, io, to_ex, to_gw>>
    BY Zenon, <1>2 DEF connect, Resolved, ConnectFailed, ReconnectTimer, exVars, ioVars, appVars
  <2>2. OrdersStay /\ EndsStay
    BY Zenon, <2>1 DEF OrdersStay, EndsStay
  <2> QED
    BY Zenon, <2>1, <2>2, WireKeeps
<1>3. CASE ConnectionLost \/ tcp_disconnect
  <2>1. /\ UNCHANGED <<app, orders, exchange, done, io>>
        /\ (to_ex' = <<>> /\ to_gw' = <<>>) \/ (to_ex' = to_ex /\ to_gw' = to_gw)
    BY Zenon, <1>3 DEF ConnectionLost, tcp_disconnect, Closed, appVars
  <2>2. OrdersStay /\ EndsStay
    BY <2>1 DEF OrdersStay, EndsStay
  <2> QED
    BY Zenon, <2>1, <2>2, WireKeeps
<1>4. CASE Connected
  <2> DEFINE r == send_logon(gw, FALSE)
  <2>1. UNCHANGED <<app, orders, exchange, done, io, to_gw>> /\ to_ex' = r.sent
    BY Zenon, <1>4 DEF Connected, exVars, ioVars, appVars
  <2>2. Answer(gw, r, ex) /\ Quiet(r)
    BY Zenon, <1>1, Unasked DEF Says
  <2>3. to_ex = <<>>
    BY Zenon, <1>4 DEF Connected, LinkInv, NothingInFlight, connected
  <2> HIDE DEF r
  <2>4. to_ex' = to_ex \o r.sent
    BY <2>1, <2>2, <2>3 DEF Answer, ResultRec
  <2>5. OrdersStay /\ EndsStay
    BY Zenon, <1>1, <2>1, <2>2, <2>4, QuietWire DEF EndsStay
  <2> QED
    BY Zenon, <2>1, <2>5, WireKeeps
<1>5. CASE heartbeat_timer
  <2>1. UNCHANGED <<app, orders, exchange, done, io, to_gw>> /\ GatewaySends(check_heartbeat(Aged(gw)))
    BY Zenon, <1>5 DEF heartbeat_timer, exVars, ioVars, appVars
  <2>2. Answer(gw, check_heartbeat(Aged(gw)), ex) /\ Quiet(check_heartbeat(Aged(gw)))
    BY Zenon, <1>1, Timer DEF Says
  <2>3. OrdersStay /\ EndsStay
    BY Zenon, <1>1, <2>1, <2>2, QuietWire DEF EndsStay, GatewaySends
  <2> QED
    BY Zenon, <2>1, <2>3, WireKeeps
<1>6. CASE disconnect
  <2>1. UNCHANGED <<app, orders, exchange, done, io, to_gw>> /\ GatewaySends(send_logout(gw))
    BY Zenon, <1>6 DEF disconnect, exVars, ioVars, appVars
  <2>2. Answer(gw, send_logout(gw), ex) /\ Quiet(send_logout(gw))
    BY Zenon, <1>1, Unasked DEF Says
  <2>3. OrdersStay /\ EndsStay
    BY Zenon, <1>1, <2>1, <2>2, QuietWire DEF EndsStay, GatewaySends
  <2> QED
    BY Zenon, <2>1, <2>3, WireKeeps
<1>7. CASE on_tcp_data
  <2> DEFINE r == on_message_received(gw, Head(to_gw))
  <2>1. /\ UNCHANGED <<app, orders, exchange, done>> /\ to_gw # <<>> /\ to_gw' = Tail(to_gw)
        /\ to_ex' \in {to_ex, to_ex \o r.sent} /\ io' \in {io, Idle, Head(to_gw)}
    BY Zenon, <1>7 DEF on_tcp_data, exVars, appVars, GatewaySends
  <2>2. Answer(gw, r, ex) /\ Quiet(r)
    BY Zenon, <1>1, <2>1, SideReceives
  <2>3. /\ Head(to_gw) \in MessageRec /\ 1 \in DOMAIN to_gw /\ Head(to_gw) = to_gw[1]
        /\ \A i \in DOMAIN Tail(to_gw) : i + 1 \in DOMAIN to_gw /\ Tail(to_gw)[i] = to_gw[i + 1]
    BY Zenon, <1>1, <2>1, TailPlaces
  <2> HIDE DEF r
  <2>4. OrdersStay
    BY Zenon, <1>1, <2>1, <2>2, QuietWire
  <2>5. EndsStay
    BY Zenon, <2>1, <2>3 DEF EndsStay
  <2>6. ~Ends(Idle)
    BY Zenon DEF Ends, Idle
  <2> QED
    BY ZenonT(60), <2>1, <2>3, <2>4, <2>5, <2>6, WireKeeps
<1> QED
  BY Zenon, <1>2, <1>3, <1>4, <1>5, <1>6, <1>7

(* A report or a cancel reject is handled under both mutexes. *)
LEMMA HandledNext ==
    ASSUME OrderInv, on_app_message
    PROVE  OrderInv'
<1>1. /\ UNCHANGED <<app, exchange, to_ex, to_gw>> /\ io' = Idle /\ app.step = "idle" /\ io \in MessageRec
  BY Zenon DEF on_app_message, exVars, OrderInv, OrdersTyped
<1>2. orders \in [pending : SUBSET Nat, cancel_to_orig : SUBSET (Nat \X Nat), next : 1..(MaxIds + 1)]
      /\ done \in SUBSET Nat /\ io.id \in Nat /\ MaxIds \in Nat
  BY Zenon, <1>1, MessageNumbers, FixBounds DEF OrderInv, OrdersTyped
<1>3. /\ orders' \in [pending : SUBSET Nat, cancel_to_orig : SUBSET (Nat \X Nat), next : 1..(MaxIds + 1)]
      /\ orders'.next = orders.next /\ done' \in SUBSET Nat
      /\ \/ orders'.pending = orders.pending /\ done' = done
         \/ Ends(io) /\ orders'.pending = orders.pending \ {io.id} /\ done' = done \cup {io.id}
  <2>1. CASE ExecutionReport(io)
    <3>1. CASE io.status \in Terminal
      BY Zenon, <1>2, <2>1, <3>1 DEF ExecutionReport, Ends
    <3>2. CASE io.status \notin Terminal
      BY Zenon, <1>2, <2>1, <3>2 DEF ExecutionReport
    <3> QED
      BY Zenon, <3>1, <3>2
  <2>2. CASE CancelRejected(io)
    BY Zenon, <1>2, <2>2 DEF CancelRejected
  <2> QED
    BY Zenon, <2>1, <2>2 DEF on_app_message
<1>4. Ends(io) => io.id \in Seen \ exchange.live
  BY Zenon DEF OrderInv, EndsAreTrue
<1>5. Seen' = Seen /\ Unrecorded' = Unrecorded /\ Unsent' = Unsent /\ Unrecorded = {}
  BY <1>1, <1>3 DEF Seen, Unrecorded, Unsent
<1>6. OrdersTyped'
  BY Zenon, <1>1, <1>3 DEF OrderInv, OrdersTyped
<1>7. \A id \in Seen : id \in Nat /\ id > 0 /\ id < orders.next
  <2>1. \A id \in Seen : id \in Nat
    BY DEF Seen, OrderInv, OrdersTyped
  <2> QED
    BY Zenon, <1>1, <2>1 DEF OrderInv, OrdersAtExchange, Unsent
<1>8. IdsUsed'
  <2>1. orders.pending \cup done \subseteq 1..(orders.next - 1) /\ app.id = 0
    BY Zenon, <1>1 DEF OrderInv, IdsUsed
  <2>2. orders'.pending \cup done' \subseteq 1..(orders'.next - 1)
    BY <1>2, <1>3, <1>4, <1>7, <2>1
  <2> QED
    BY Zenon, <1>1, <2>1, <2>2 DEF IdsUsed
<1>9. OrdersInFlight'
  <2>1. \A i \in DOMAIN to_ex : to_ex[i].type = "NewOrderSingle" =>
          /\ to_ex[i].id \in orders'.pending
          /\ \A id \in Seen : id < to_ex[i].id
          /\ to_ex[i].id < Unsent
    <3> TAKE i \in DOMAIN to_ex
    <3> HAVE to_ex[i].type = "NewOrderSingle"
    <3>1. /\ to_ex[i].id \in orders.pending
          /\ \A id \in Seen : id < to_ex[i].id
          /\ to_ex[i].id < Unsent
      BY Zenon, <1>5 DEF OrderInv, OrdersInFlight
    <3>2. Ends(io) => io.id # to_ex[i].id
      BY <1>4, <1>7, <3>1
    <3> QED
      BY Zenon, <1>3, <3>1, <3>2
  <2> QED
    BY Zenon, <1>1, <1>5, <2>1 DEF OrderInv, OrdersInFlight
<1>10. OrdersAtExchange'
  BY Zenon, <1>1, <1>3, <1>4, <1>5 DEF OrderInv, OrdersAtExchange
<1>11. OrdersOnceInOrder'
  BY Zenon, <1>1 DEF OrderInv, OrdersOnceInOrder
<1>12. EndsAreTrue'
  <2>1. ~Ends(Idle)
    BY Zenon DEF Ends, Idle
  <2> QED
    BY Zenon, <1>1, <1>3, <1>5, <2>1 DEF OrderInv, EndsAreTrue
<1> QED
  BY Zenon, <1>6, <1>8, <1>9, <1>10, <1>11, <1>12 DEF OrderInv

(* The application thread takes a ClOrdID. *)
LEMMA BegunNext ==
    ASSUME OrderInv, send_new_order \/ send_cancel
    PROVE  OrderInv'
<1>1. orders \in [pending : SUBSET Nat, cancel_to_orig : SUBSET (Nat \X Nat), next : 1..(MaxIds + 1)]
      /\ MaxIds \in Nat /\ orders.next \in Nat \ {0}
  BY FixBounds DEF OrderInv, OrdersTyped
<1>2. PICK op \in {"NewOrderSingle", "OrderCancelRequest"}, orig \in Nat : Begin(op, orig)
  BY <1>1 DEF send_new_order, send_cancel
<1>3. /\ app.step = "idle" /\ orders.next <= MaxIds
      /\ app' = [step |-> "locked", op |-> op, id |-> orders.next, orig |-> orig]
      /\ orders' = [orders EXCEPT !.next = @ + 1]
      /\ UNCHANGED <<exchange, done, io, to_ex, to_gw>>
  BY Zenon, <1>2 DEF Begin, exVars, ioVars
<1>4. /\ orders' \in [pending : SUBSET Nat, cancel_to_orig : SUBSET (Nat \X Nat), next : 1..(MaxIds + 1)]
      /\ orders'.pending = orders.pending /\ orders'.next = orders.next + 1
  BY <1>1, <1>3
<1>5. app'.step = "locked" /\ app'.op = op /\ app'.id = orders.next
  BY Zenon, <1>3
<1>6. Seen' = Seen /\ Unrecorded' = {} /\ Unrecorded = {} /\ Unsent' = Unsent
  BY Zenon, <1>3, <1>5 DEF Seen, Unrecorded, Unsent
<1>7. OrdersTyped'
  BY Zenon, <1>1, <1>3, <1>4 DEF OrderInv, OrdersTyped
<1>8. IdsUsed'
  <2>1. orders.pending \cup done \subseteq 1..(orders.next - 1)
    BY Zenon DEF OrderInv, IdsUsed
  <2> QED
    BY <1>1, <1>3, <1>4, <1>5, <2>1 DEF IdsUsed
<1>9. OrdersInFlight'
  BY Zenon, <1>3, <1>4, <1>6 DEF OrderInv, OrdersInFlight
<1>10. OrdersAtExchange' /\ OrdersOnceInOrder' /\ EndsAreTrue'
  BY Zenon, <1>3, <1>4, <1>6 DEF OrderInv, OrdersAtExchange, OrdersOnceInOrder, EndsAreTrue
<1> QED
  BY Zenon, <1>7, <1>8, <1>9, <1>10 DEF OrderInv

(* The application thread records the order and gives the mutex back. *)
LEMMA TrackedNext ==
    ASSUME OrderInv, Track
    PROVE  OrderInv'
<1>1. /\ orders \in [pending : SUBSET Nat, cancel_to_orig : SUBSET (Nat \X Nat), next : 1..(MaxIds + 1)]
      /\ app \in [step : {"idle", "locked", "sent"},
                  op : {"none", "NewOrderSingle", "OrderCancelRequest"}, id : Nat, orig : Nat]
      /\ MaxIds \in Nat /\ orders.next \in Nat \ {0} /\ app.step = "sent"
      /\ UNCHANGED <<exchange, done, io, to_ex, to_gw>>
  BY FixBounds DEF OrderInv, OrdersTyped, Track, exVars, ioVars
<1>2. /\ app' = [step |-> "idle", op |-> "none", id |-> 0, orig |-> 0]
      /\ app'.step = "idle" /\ app'.id = 0
  BY Zenon DEF Track, AppIdle
<1>3. /\ orders' \in [pending : SUBSET Nat, cancel_to_orig : SUBSET (Nat \X Nat), next : 1..(MaxIds + 1)]
      /\ orders'.pending = orders.pending \cup Unrecorded /\ orders'.next = orders.next
  BY <1>1 DEF Track, Unrecorded
<1>4. Seen' = Seen /\ Unrecorded' = {} /\ Unsent' = Unsent
  BY Zenon, <1>1, <1>2, <1>3 DEF Seen, Unrecorded, Unsent
<1>5. app.id = orders.next - 1 /\ app.id > 0 /\ app.id \notin orders.pending \cup done
      /\ orders.pending \cup done \subseteq 1..(orders.next - 1)
  BY Zenon, <1>1 DEF OrderInv, IdsUsed
<1>6. OrdersTyped'
  BY Zenon, <1>1, <1>2, <1>3 DEF OrderInv, OrdersTyped
<1>7. IdsUsed'
  BY <1>1, <1>2, <1>3, <1>5 DEF IdsUsed, Unrecorded
<1>8. OrdersInFlight' /\ OrdersAtExchange' /\ OrdersOnceInOrder'
  BY Zenon, <1>1, <1>3, <1>4 DEF OrderInv, OrdersInFlight, OrdersAtExchange, OrdersOnceInOrder
<1>9. EndsAreTrue'
  <2>1. done \cap Unrecorded = {}
    BY Zenon, <1>5 DEF Unrecorded
  <2>2. done' \cap orders'.pending = {}
    BY Zenon, <1>1, <1>3, <2>1 DEF OrderInv, EndsAreTrue
  <2> QED
    BY Zenon, <1>1, <1>4, <2>2 DEF OrderInv, EndsAreTrue
<1> QED
  BY Zenon, <1>6, <1>7, <1>8, <1>9 DEF OrderInv

(* The application thread sends its order or its cancel. *)
LEMMA SentNext ==
    ASSUME LinkInv, OrderInv, Send
    PROVE  OrderInv'
<1>1. /\ gw \in SessionRec /\ ex \in SessionRec /\ to_ex \in Seq(MessageRec)
      /\ app \in [step : {"idle", "locked", "sent"},
                  op : {"none", "NewOrderSingle", "OrderCancelRequest"}, id : Nat, orig : Nat]
      /\ orders.next \in Nat
  BY DEF LinkInv, LinkTyped, OrderInv, OrdersTyped
<1>2. app.step = "locked" /\ UNCHANGED <<exchange, done, io, to_gw, orders>>
  BY Zenon DEF Send, exVars, ioVars
<1>3. /\ app' \in [step : {"idle", "locked", "sent"},
                   op : {"none", "NewOrderSingle", "OrderCancelRequest"}, id : Nat, orig : Nat]
      /\ app'.step = "sent" /\ app'.op = app.op /\ app'.id = app.id
  BY Zenon, <1>1 DEF Send
<1>4. /\ app.op # "none" /\ app.id = orders.next - 1 /\ app.id > 0
      /\ app.id \notin orders.pending \cup done
      /\ orders.pending \cup done \subseteq 1..(orders.next - 1)
  BY Zenon, <1>2 DEF OrderInv, IdsUsed
<1> DEFINE m == Message(app.op, app.id, app.orig, FALSE)
           r == send_app_message(gw, m)
<1>5. app.op \in MessageType /\ app.op \notin AdminType /\ app.id \in Nat /\ app.orig \in Nat
  BY Zenon, <1>1, <1>4 DEF MessageType, AdminType
<1>6. m \in MessageRec /\ m.type = app.op /\ m.id = app.id
  BY Zenon, <1>5 DEF Message, MessageRec
<1>7. to_ex' \in {to_ex, to_ex \o r.sent}
  BY Zenon DEF Send, GatewaySends
<1> HIDE DEF m
<1>8. PICK e \in MessageRec : r.sent = Append(<<>>, e) /\ e.type = app.op /\ e.id = app.id
  BY <1>1, <1>5, <1>6, AnswerAlone
<1> HIDE DEF r
<1>9. to_ex' \in {to_ex, Append(to_ex, e)}
  BY <1>1, <1>7, <1>8
<1>10. \A i \in DOMAIN to_ex' :
          \/ i \in DOMAIN to_ex /\ to_ex'[i] = to_ex[i]
          \/ i = Len(to_ex) + 1 /\ to_ex'[i] = e
  BY Zenon, <1>1, <1>9, AppendPlaces
<1>11. /\ Seen' = Seen /\ Unsent = app.id /\ Unsent' = app.id + 1 /\ Unrecorded = {}
       /\ Unrecorded' = IF app.op = "NewOrderSingle" THEN {app.id} ELSE {}
  BY <1>1, <1>2, <1>3, <1>4 DEF Seen, Unsent, Unrecorded
<1>12. OrdersTyped'
  BY Zenon, <1>2, <1>3 DEF OrderInv, OrdersTyped
<1>13. IdsUsed'
  BY Zenon, <1>2, <1>3, <1>4 DEF IdsUsed
<1>14. \A id \in Seen : id \in Nat /\ 0 < id /\ id < app.id
  <2>1. \A id \in Seen : id \in Nat
    BY DEF Seen, OrderInv, OrdersTyped
  <2> QED
    BY Zenon, <1>11, <2>1 DEF OrderInv, OrdersAtExchange
<1>15. \A i \in DOMAIN to_ex : to_ex[i].type = "NewOrderSingle" =>
          /\ to_ex[i].id \in Nat /\ to_ex[i].id \in orders.pending
          /\ \A id \in Seen : id < to_ex[i].id
          /\ to_ex[i].id < app.id
  <2>1. \A i \in DOMAIN to_ex : to_ex[i].id \in Nat
    BY <1>1, MessageNumbers
  <2> QED
    BY Zenon, <1>11, <2>1 DEF OrderInv, OrdersInFlight
<1>16. OrdersInFlight'
  <2>1. ASSUME NEW i \in DOMAIN to_ex', to_ex'[i].type = "NewOrderSingle"
        PROVE  /\ to_ex'[i].id \in orders.pending \cup Unrecorded'
               /\ \A id \in Seen : id < to_ex'[i].id
               /\ to_ex'[i].id < Unsent'
    <3>1. CASE i \in DOMAIN to_ex /\ to_ex'[i] = to_ex[i]
      <4>1. /\ to_ex[i].id \in Nat /\ to_ex[i].id \in orders.pending
            /\ \A id \in Seen : id < to_ex[i].id
            /\ to_ex[i].id < app.id
        BY Zenon, <1>15, <2>1, <3>1
      <4> QED
        BY <1>5, <1>11, <3>1, <4>1
    <3>2. CASE to_ex'[i] = e
      BY <1>5, <1>8, <1>11, <1>14, <2>1, <3>2
    <3> QED
      BY Zenon, <1>10, <3>1, <3>2
  <2>2. ASSUME NEW i \in DOMAIN to_ex', NEW j \in DOMAIN to_ex', i < j,
               to_ex'[i].type = "NewOrderSingle", to_ex'[j].type = "NewOrderSingle"
        PROVE  to_ex'[i].id < to_ex'[j].id
    <3>1. /\ \A k \in DOMAIN to_ex : k \in Nat /\ k < Len(to_ex) + 1
          /\ Len(to_ex) \in Nat
      BY Zenon, <1>1, <1>8, AppendPlaces
    <3>2. i \in DOMAIN to_ex /\ to_ex'[i] = to_ex[i]
      BY <1>10, <2>2, <3>1
    <3>3. CASE j \in DOMAIN to_ex /\ to_ex'[j] = to_ex[j]
      BY Zenon, <2>2, <3>2, <3>3 DEF OrderInv, OrdersInFlight
    <3>4. CASE to_ex'[j] = e
      BY Zenon, <1>8, <1>15, <2>2, <3>2, <3>4
    <3> QED
      BY Zenon, <1>10, <3>3, <3>4
  <2> QED
    BY Zenon, <1>2, <1>11, <2>1, <2>2 DEF OrdersInFlight
<1>17. OrdersAtExchange'
  <2>1. \A id \in Seen : 0 < id /\ id < app.id + 1
    BY <1>5, <1>14
  <2> QED
    BY Zenon, <1>2, <1>11, <2>1 DEF OrderInv, OrdersAtExchange
<1>18. OrdersOnceInOrder' /\ EndsAreTrue'
  BY Zenon, <1>2, <1>11 DEF OrderInv, OrdersOnceInOrder, EndsAreTrue
<1> QED
  BY Zenon, <1>12, <1>13, <1>16, <1>17, <1>18 DEF OrderInv

(* What a step of the exchange does to the orders there. *)
ExchangeKeeps ==
    /\ exchange'.seen = exchange.seen
    /\ exchange'.live \subseteq exchange.live

ExchangeAdds(m) ==
    /\ m.type = "NewOrderSingle"
    /\ exchange'.seen = Append(exchange.seen, m.id)
    /\ exchange'.live \subseteq exchange.live \cup {m.id}

(* What the exchange says of its orders joins what is in flight. *)
LEMMA ExchangeEnds ==
    ASSUME to_gw \in Seq(MessageRec), EndsAreTrue, NEW q, ExchangeSays(q),
           Seen \ exchange.live \subseteq Seen' \ exchange'.live,
           UNCHANGED <<io, done, orders>>
    PROVE  EndsAreTrue'
<1>1. q.sent \in Seq(MessageRec)
  BY Zenon DEF ExchangeSays, Answer, ResultRec
<1>2. to_gw' \in {to_gw, to_gw \o q.sent}
  BY Zenon DEF ExchangeSays, ExchangeSends
<1>3. \A i \in DOMAIN to_gw' :
         \/ i \in DOMAIN to_gw /\ to_gw'[i] = to_gw[i]
         \/ i - Len(to_gw) \in DOMAIN q.sent /\ to_gw'[i] = q.sent[i - Len(to_gw)]
  <2>1. \A i \in DOMAIN (to_gw \o q.sent) :
           \/ i \in DOMAIN to_gw /\ (to_gw \o q.sent)[i] = to_gw[i]
           \/ i - Len(to_gw) \in DOMAIN q.sent /\ (to_gw \o q.sent)[i] = q.sent[i - Len(to_gw)]
    BY Zenon, <1>1, ConcatPlaces
  <2>2. CASE to_gw' = to_gw
    BY Zenon, <2>2
  <2>3. CASE to_gw' = to_gw \o q.sent
    BY Zenon, <2>1, <2>3
  <2> QED
    BY Zenon, <1>2, <2>2, <2>3
<1>4. \A i \in DOMAIN q.sent : Ends(q.sent[i]) => q.sent[i].id \in Seen' \ exchange'.live
  BY Zenon DEF ExchangeSays, EndsIn
<1> QED
  BY ZenonT(60), <1>3, <1>4 DEF EndsAreTrue

(* The exchange fills an order or speaks unasked, or takes a message that is no new  *)
(* order for it.                                                                      *)
LEMMA ExchangeKeepsNext ==
    ASSUME LinkInv, OrderInv, NEW q, ExchangeSays(q), ExchangeKeeps,
           \/ to_ex' = to_ex
           \/ to_ex # <<>> /\ to_ex' = Tail(to_ex),
           UNCHANGED <<app, orders, io, done>>
    PROVE  OrderInv'
<1>1. to_ex \in Seq(MessageRec) /\ to_gw \in Seq(MessageRec)
  BY Zenon DEF LinkInv, LinkTyped
<1>2. Seen' = Seen /\ Unsent' = Unsent /\ Unrecorded' = Unrecorded
  BY Zenon DEF Seen, Unsent, Unrecorded, ExchangeKeeps
<1>3. OrdersTyped'
  BY Zenon DEF OrderInv, OrdersTyped, ExchangeSays
<1>4. IdsUsed'
  BY Zenon DEF OrderInv, IdsUsed
<1>5. OrdersInFlight'
  <2>1. CASE to_ex' = to_ex
    BY Zenon, <1>2, <2>1 DEF OrderInv, OrdersInFlight
  <2>2. CASE to_ex # <<>> /\ to_ex' = Tail(to_ex)
    <3>1. \A i \in DOMAIN to_ex' : i \in Nat /\ i + 1 \in DOMAIN to_ex /\ to_ex'[i] = to_ex[i + 1]
      BY Zenon, <1>1, <2>2, TailPlaces
    <3>2. \A i, j \in DOMAIN to_ex' : i < j => i + 1 < j + 1
      BY <3>1
    <3> QED
      BY Zenon, <1>2, <3>1, <3>2 DEF OrderInv, OrdersInFlight
  <2> QED
    BY Zenon, <2>1, <2>2
<1>6. OrdersAtExchange'
  BY Zenon, <1>2 DEF OrderInv, OrdersAtExchange, ExchangeKeeps
<1>7. OrdersOnceInOrder'
  BY Zenon DEF OrderInv, OrdersOnceInOrder, ExchangeKeeps
<1>8. EndsAreTrue'
  <2>1. Seen \ exchange.live \subseteq Seen' \ exchange'.live
    BY Zenon, <1>2 DEF ExchangeKeeps
  <2> QED
    BY Zenon, <1>1, <2>1, ExchangeEnds DEF OrderInv
<1> QED
  BY Zenon, <1>3, <1>4, <1>5, <1>6, <1>7, <1>8 DEF OrderInv

(* The exchange takes a new order. *)
LEMMA ExchangeAddsNext ==
    ASSUME LinkInv, OrderInv, NEW q, ExchangeSays(q), to_ex # <<>>, ExchangeAdds(Head(to_ex)),
           to_ex' = Tail(to_ex), UNCHANGED <<app, orders, io, done>>
    PROVE  OrderInv'
<1> DEFINE m == Head(to_ex)
<1>1. to_ex \in Seq(MessageRec) /\ to_gw \in Seq(MessageRec)
  BY Zenon DEF LinkInv, LinkTyped
<1>2. /\ m \in MessageRec /\ 1 \in DOMAIN to_ex /\ m = to_ex[1]
      /\ \A i \in DOMAIN to_ex' :
            i \in Nat /\ i > 0 /\ i + 1 \in DOMAIN to_ex /\ to_ex'[i] = to_ex[i + 1]
  BY Zenon, <1>1, TailPlaces
<1>3. /\ m.type = "NewOrderSingle" /\ exchange'.seen = Append(exchange.seen, m.id)
      /\ exchange'.live \subseteq exchange.live \cup {m.id}
  BY Zenon DEF ExchangeAdds
<1> HIDE DEF m
<1>4. m.id \in Nat
  BY Zenon, <1>2, MessageNumbers
<1>5. Seen' = Seen \cup {m.id} /\ Unsent' = Unsent /\ Unrecorded' = Unrecorded
  <2>1. Seen' = Seen \cup {m.id}
    BY Zenon, <1>3, <1>4, SeenMore DEF OrderInv
  <2> QED
    BY Zenon, <2>1 DEF Unsent, Unrecorded
<1>6. /\ m.id \in orders.pending \cup Unrecorded
      /\ \A id \in Seen : id < m.id
      /\ m.id < Unsent
  BY Zenon, <1>2, <1>3 DEF OrderInv, OrdersInFlight
<1>7. m.id \notin Seen
  BY <1>4, <1>6
<1>8. m.id > 0
  <2>1. orders.pending \subseteq 1..(orders.next - 1)
    BY Zenon DEF OrderInv, IdsUsed
  <2>2. \A id \in Unrecorded : id > 0
    BY Zenon DEF OrderInv, IdsUsed, Unrecorded
  <2> QED
    BY <1>4, <1>6, <2>1, <2>2
<1>9. OrdersTyped'
  BY Zenon DEF OrderInv, OrdersTyped, ExchangeSays
<1>10. IdsUsed'
  BY Zenon DEF OrderInv, IdsUsed
<1>11. OrdersInFlight'
  <2>1. \A i, j \in DOMAIN to_ex' : i < j => i + 1 < j + 1
    BY <1>2
  <2>2. \A i \in DOMAIN to_ex' : 1 < i + 1
    BY <1>2
  <2>3. \A i \in DOMAIN to_ex' : to_ex'[i].type = "NewOrderSingle" => m.id < to_ex'[i].id
    BY ZenonT(60), <1>2, <1>3, <2>2 DEF OrderInv, OrdersInFlight
  <2>4. \A i \in DOMAIN to_ex' : to_ex'[i].type = "NewOrderSingle" =>
          /\ to_ex'[i].id \in orders.pending \cup Unrecorded
          /\ \A id \in Seen : id < to_ex'[i].id
          /\ to_ex'[i].id < Unsent
    BY Zenon, <1>2 DEF OrderInv, OrdersInFlight
  <2>5. \A i, j \in DOMAIN to_ex' :
          (i < j /\ to_ex'[i].type = "NewOrderSingle" /\ to_ex'[j].type = "NewOrderSingle") =>
             to_ex'[i].id < to_ex'[j].id
    <3> TAKE i, j \in DOMAIN to_ex'
    <3>1. /\ i + 1 \in DOMAIN to_ex /\ to_ex'[i] = to_ex[i + 1]
          /\ j + 1 \in DOMAIN to_ex /\ to_ex'[j] = to_ex[j + 1]
          /\ i < j => i + 1 < j + 1
      BY Zenon, <1>2, <2>1
    <3> QED
      BY Zenon, <3>1 DEF OrderInv, OrdersInFlight
  <2> QED
    BY Zenon, <1>5, <2>3, <2>4, <2>5 DEF OrdersInFlight
<1>12. OrdersAtExchange'
  <2>1. 0 < m.id
    BY Zenon, <1>4, <1>8
  <2> QED
    BY Zenon, <1>3, <1>5, <1>6, <2>1 DEF OrderInv, OrdersAtExchange
<1>13. OrdersOnceInOrder'
  <2>1. exchange.seen \in Seq(Nat)
    BY Zenon DEF OrderInv, OrdersTyped
  <2>2. /\ \A i \in DOMAIN exchange'.seen :
             \/ i \in DOMAIN exchange.seen /\ exchange'.seen[i] = exchange.seen[i]
             \/ i = Len(exchange.seen) + 1 /\ exchange'.seen[i] = m.id
        /\ \A i \in DOMAIN exchange.seen : i \in Nat /\ i < Len(exchange.seen) + 1
        /\ Len(exchange.seen) \in Nat
    BY <1>3, <1>4, <2>1
  <2>3. \A i \in DOMAIN exchange.seen : exchange.seen[i] < m.id
    BY Zenon, <1>6 DEF Seen
  <2>4. ASSUME NEW i \in DOMAIN exchange'.seen, NEW j \in DOMAIN exchange'.seen, i < j
        PROVE  exchange'.seen[i] < exchange'.seen[j]
    <3>1. i \in DOMAIN exchange.seen /\ exchange'.seen[i] = exchange.seen[i]
      BY <2>2, <2>4
    <3> QED
      BY Zenon, <2>2, <2>3, <2>4, <3>1 DEF OrderInv, OrdersOnceInOrder
  <2> QED
    BY Zenon, <2>4 DEF OrdersOnceInOrder
<1>14. EndsAreTrue'
  <2>1. Seen \ exchange.live \subseteq Seen' \ exchange'.live
    BY Zenon, <1>3, <1>5, <1>7
  <2> QED
    BY Zenon, <1>1, <2>1, ExchangeEnds DEF OrderInv
<1> QED
  BY Zenon, <1>9, <1>10, <1>11, <1>12, <1>13, <1>14 DEF OrderInv

----------------------------------------------------------------------------
(* The theorems. *)

(* Every step keeps the orders in agreement. *)
LEMMA OrdersNext ==
    ASSUME LinkInv, OrderInv, [Next]_vars
    PROVE  OrderInv'
<1>1. LinkTyped /\ Flights /\ OrdersTyped /\ OrdersInFlight /\ OrdersAtExchange
  BY Zenon DEF LinkInv, OrderInv
<1>2. CASE ExchangeReceives
  <2>1. PICK q : ExchangeSays(q) /\ (ExchangeKeeps \/ ExchangeAdds(Head(to_ex)))
    BY Zenon, <1>1, <1>2, ReceiveParts DEF ExchangeKeeps, ExchangeAdds
  <2>2. to_ex # <<>> /\ to_ex' = Tail(to_ex) /\ UNCHANGED <<app, orders, io, done>>
    BY Zenon, <1>2 DEF ExchangeReceives, ioVars, appVars
  <2> QED
    BY Zenon, <2>1, <2>2, ExchangeKeepsNext, ExchangeAddsNext
<1>3. CASE ExchangeFills
  <2>1. PICK q : ExchangeSays(q) /\ ExchangeKeeps
    BY Zenon, <1>1, <1>3, FillParts DEF ExchangeKeeps
  <2>2. UNCHANGED <<to_ex, app, orders, io, done>>
    BY Zenon, <1>3 DEF ExchangeFills, ioVars, appVars
  <2> QED
    BY Zenon, <2>1, <2>2, ExchangeKeepsNext
<1>4. CASE ExchangeSpeaks
  <2>1. PICK q : ExchangeSays(q) /\ ExchangeKeeps
    BY Zenon, <1>1, <1>4, SpeechParts DEF ExchangeKeeps
  <2>2. UNCHANGED <<to_ex, app, orders, io, done>>
    BY Zenon, <1>4 DEF ExchangeSpeaks, ioVars, appVars
  <2> QED
    BY Zenon, <2>1, <2>2, ExchangeKeepsNext
<1>5. CASE UNCHANGED vars
  <2>1. UNCHANGED <<app, orders, exchange, done, io, to_ex, to_gw>>
    BY Zenon, <1>5 DEF vars
  <2>2. OrdersStay /\ EndsStay
    BY Zenon, <2>1 DEF OrdersStay, EndsStay
  <2> QED
    BY Zenon, <2>1, <2>2, WireKeeps
<1>6. CASE on_app_message
  BY Zenon, <1>6, HandledNext
<1>7. CASE send_new_order \/ send_cancel
  BY Zenon, <1>7, BegunNext
<1>8. CASE Send
  BY Zenon, <1>8, SentNext
<1>9. CASE Track
  BY Zenon, <1>9, TrackedNext
<1>10. CASE \/ connect \/ Resolved \/ Connected \/ ConnectFailed \/ ReconnectTimer \/ ConnectionLost
            \/ tcp_disconnect \/ heartbeat_timer \/ disconnect \/ on_tcp_data
  BY Zenon, <1>10, WireNext
<1> QED
  BY Zenon, <1>2, <1>3, <1>4, <1>5, <1>6, <1>7, <1>8, <1>9, <1>10 DEF Next, Client, Application

(* The invariant holds before the client connects. *)
LEMMA GatewayInit == Init => GatewayInv
<1> SUFFICES ASSUME Init PROVE GatewayInv
  BY Zenon
<1>1. gw \in SessionRec /\ ex \in SessionRec
  <2>1. Session("QF", "EX") \in SessionRec /\ Session("EX", "QF") \in SessionRec
    <3>1. /\ 0 \in 0..HeartBtInt /\ HeartBtInt \in 0..HeartBtInt /\ 0 \in 0..SilenceLimit
          /\ 1 \in Nat \ {0} /\ 0 \in Nat
      BY HeartBtIntAssumption DEF SilenceLimit
    <3>2. "Disconnected" \in SessionState
      BY Zenon DEF SessionState
    <3> QED
      BY Zenon, <3>1, <3>2 DEF Session, SessionRec, None
  <2> QED
    BY Zenon, <2>1 DEF Init
<1>2. gw.inbound_seq = 1 /\ gw.outbound_seq = 1 /\ ex.inbound_seq = 1 /\ ex.outbound_seq = 1
  BY Zenon DEF Init, Session
<1>3. LinkTyped
  BY <1>1, FixBounds DEF Init, LinkTyped, Phase
<1>4. Flights /\ NothingInFlight
  BY <1>2 DEF Init, Flights, InFlight, NothingInFlight
<1>5. OrdersTyped
  BY FixBounds DEF Init, OrdersTyped, AppIdle
<1>6. IdsUsed /\ OrdersInFlight /\ OrdersAtExchange /\ OrdersOnceInOrder
  BY DEF Init, IdsUsed, OrdersInFlight, OrdersAtExchange, OrdersOnceInOrder, AppIdle, Seen
<1>7. EndsAreTrue
  BY DEF Init, EndsAreTrue, Ends, Idle
<1> QED
  BY Zenon, <1>3, <1>4, <1>5, <1>6, <1>7 DEF GatewayInv

(* Every step of gateway, network and exchange keeps the invariant. *)
LEMMA GatewayNext == GatewayInv /\ [Next]_vars => GatewayInv'
<1> SUFFICES ASSUME GatewayInv, [Next]_vars PROVE GatewayInv'
  BY Zenon
<1>1. LinkInv /\ OrderInv
  BY Zenon DEF GatewayInv, LinkInv, OrderInv
<1>2. LinkInv'
  BY Zenon, <1>1, LinkNext DEF OrderInv
<1>3. OrderInv'
  BY Zenon, <1>1, OrdersNext
<1> QED
  BY Zenon, <1>2, <1>3 DEF GatewayInv, LinkInv, OrderInv

(* The invariant holds in every reachable state. *)
LEMMA GatewayAlways == Spec => []GatewayInv
  BY GatewayInit, GatewayNext, PTL DEF Spec

(* What is in flight to session `t` is fresh for it. *)
LEMMA FlightIsFresh ==
    ASSUME NEW f, NEW s, NEW t \in SessionRec, f \in Seq(MessageRec), InFlight(f, s, t)
    PROVE  Fresh(f, t)
<1>1. \A i \in DOMAIN f : f[i].seq \in Nat
  BY MessageNumbers
<1>2. t.inbound_seq \in Nat
  BY Zenon DEF SessionRec
<1>3. \A i \in DOMAIN f : f[i].type # "SequenceReset" => t.inbound_seq <= f[i].seq
  BY Zenon DEF InFlight, Numbered
<1>4. \A i, j \in DOMAIN f : (i < j /\ f[i].type # "SequenceReset" /\ f[j].type # "SequenceReset") =>
         f[i].seq < f[j].seq
  BY Zenon DEF InFlight, Numbered
<1> QED
  BY Zenon, <1>1, <1>2, <1>3, <1>4 DEF Fresh

(* Over all reconnections, neither side expects a number that the other has not       *)
(* reached and nothing in flight is taken for a duplicate: send_message numbers each   *)
(* message once, on_message_received advances to the number after the one it read or,  *)
(* behind a gap fill, to what the sender names, and on_disconnect keeps the numbers.   *)
THEOREM NumbersCorrect == Spec => []NumbersAgree
<1>1. GatewayInv => NumbersAgree
  <2> SUFFICES ASSUME GatewayInv PROVE NumbersAgree
    BY Zenon
  <2>1. gw \in SessionRec /\ ex \in SessionRec /\ InFlight(to_ex, gw, ex) /\ InFlight(to_gw, ex, gw)
        /\ to_ex \in Seq(MessageRec) /\ to_gw \in Seq(MessageRec)
    BY Zenon DEF GatewayInv, LinkTyped, Flights
  <2>2. \A s \in SessionRec : SessionOK(s)
    BY Zenon, HeartBtIntAssumption DEF SessionRec, SessionOK
  <2>3. orders.pending \cup done \cup exchange.live \subseteq 1..MaxIds
    <3>1. orders.next \in 1..(MaxIds + 1) /\ MaxIds \in Nat
      BY Zenon, FixBounds DEF GatewayInv, OrdersTyped
    <3>2. orders.pending \cup done \cup exchange.live \subseteq 1..(orders.next - 1)
      <4>1. orders.pending \cup done \subseteq 1..(orders.next - 1)
        BY Zenon DEF GatewayInv, IdsUsed
      <4>2. Unrecorded \subseteq 1..(orders.next - 1)
        <5>1. app.id \in Nat
          BY Zenon DEF GatewayInv, OrdersTyped
        <5> QED
          BY <3>1, <5>1 DEF GatewayInv, IdsUsed, Unrecorded
      <4>3. exchange.live \subseteq orders.pending \cup Unrecorded
        BY Zenon DEF GatewayInv, OrdersAtExchange
      <4> QED
        BY Zenon, <4>1, <4>2, <4>3
    <3> QED
      BY <3>1, <3>2
  <2>4. TypeOK
    BY Zenon, <2>1, <2>2, <2>3 DEF GatewayInv, LinkTyped, OrdersTyped, TypeOK
  <2>5. NeverAhead
    BY Zenon, <2>1 DEF InFlight, NeverAhead
  <2>6. InFlightIsFresh
    BY Zenon, <2>1, FlightIsFresh DEF InFlightIsFresh
  <2> QED
    BY Zenon, <2>4, <2>5, <2>6 DEF NumbersAgree
<1> QED
  BY <1>1, GatewayAlways, PTL

(* The exchange gets each order at most once and in the order of the ClOrdIDs, and     *)
(* pending_orders_ holds every order that is live there and none whose end was told:   *)
(* send_new_order records the order behind the send and under the mutex that           *)
(* on_app_message takes.                                                               *)
THEOREM OrdersCorrect == Spec => []OrdersAgree
<1>1. GatewayInv => OrdersAgree
  BY Zenon DEF GatewayInv, OrdersAgree, PendingIsRight, OrdersAtExchange, EndsAreTrue, Unrecorded
<1> QED
  BY <1>1, GatewayAlways, PTL
============================================================================
