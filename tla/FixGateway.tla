---------------------------- MODULE FixGateway ----------------------------
(***************************************************************************)
(* The order gateway: a FIX session over an automatically reconnecting TCP *)
(* client, used by an application thread and by the thread that runs the   *)
(* io_context, against an exchange.                                        *)
(*                                                                         *)
(* Two mutexes.  The application thread takes the gateway's, then the      *)
(* session's (app.step = "locked" waits for the second).  The io thread    *)
(* takes the session's, then, for an application message, the gateway's    *)
(* (io # Idle holds the first and waits for the second).  All other uses   *)
(* of a mutex end in the step in which they begin.                         *)
(*                                                                         *)
(* The exchange is external: a FixSession that accepts, without timers,    *)
(* and an order handler.  TCP delivers in order and loses what is in       *)
(* flight when the connection ends; both ends learn of the end at once.    *)
(***************************************************************************)
EXTENDS FixSession

CONSTANTS MaxIds,    \* how many ClOrdIDs the application uses
          MaxLosses, \* how often the connection is lost
          MaxSeq,    \* number up to which the gateway acts
          MaxExSeq,  \* number up to which the exchange speaks unasked
          ShutsDown  \* whether the TCP client is disconnected

ASSUME FixBounds == /\ MaxIds \in Nat /\ MaxLosses \in Nat /\ MaxSeq \in Nat /\ MaxExSeq \in Nat
                    /\ ShutsDown \in BOOLEAN

VARIABLES gw, ex,         \* the two sessions
          to_ex, to_gw,   \* bytes in flight, by message
          tcp,            \* the client: its phase and running_
          recv_buf,       \* what is left in the receive buffer
          app, io,        \* where the two threads are
          orders,         \* pending_orders_, cancel_to_orig_, next ClOrdID
          exchange,       \* orders accepted and orders live
          done,           \* orders whose end was reported to the application
          losses

vars == <<gw, ex, to_ex, to_gw, tcp, recv_buf, app, io, orders, exchange, done, losses>>

Idle == [type |-> "Idle"]
AppIdle == [step |-> "idle", op |-> "none", id |-> 0, orig |-> 0]
Terminal == {"Filled", "Cancelled", "Rejected"}
Phase == {"off", "resolving", "connecting", "connected", "waiting"}

connected == tcp.phase = "connected"
Deadlocked == app.step = "locked" /\ io # Idle

Init ==
    /\ gw = Session("QF", "EX") /\ ex = Session("EX", "QF")
    /\ to_ex = <<>> /\ to_gw = <<>>
    /\ tcp = [phase |-> "off", running |-> FALSE]
    /\ recv_buf = "empty"
    /\ app = AppIdle /\ io = Idle
    /\ orders = [pending |-> {}, cancel_to_orig |-> {}, next |-> 1]
    /\ exchange = [seen |-> <<>>, live |-> {}]
    /\ done = {}
    /\ losses = 0

\* The send callback drops the bytes while the client is not connected.
GatewaySends(r) ==
    /\ gw' = r.s
    /\ to_ex' = IF connected THEN to_ex \o r.sent ELSE to_ex

ExchangeSends(r) ==
    /\ ex' = r.s
    /\ to_gw' = IF connected THEN to_gw \o r.sent ELSE to_gw

\* The bound on what the gateway does: a message counts once, an order three times.
Spent == gw.outbound_seq + 2 * (orders.next - 1)

appVars == <<app, orders>>
exVars == <<ex, exchange>>
ioVars == <<io, recv_buf, done>>

----------------------------------------------------------------------------
(* The TCP client, on the io thread. *)

connect ==
    /\ tcp.phase = "off" /\ ~tcp.running
    /\ tcp' = [phase |-> "resolving", running |-> TRUE]
    /\ UNCHANGED <<gw, to_ex, to_gw, losses, appVars, exVars, ioVars>>

\* schedule_reconnect: the interval is not 0, since the gateway sets 5000 ms.
Rescheduled == [tcp EXCEPT !.phase = IF tcp.running THEN "waiting" ELSE "off"]

\* Resolving ends; running_ is not looked at again before connecting.
Resolved ==
    /\ io = Idle /\ tcp.phase = "resolving"
    /\ tcp' = [tcp EXCEPT !.phase = "connecting"]
    /\ UNCHANGED <<gw, to_ex, to_gw, losses, appVars, exVars, ioVars>>

\* on_connect_ logs on at once, with the numbers of the connections before.
Connected ==
    /\ io = Idle /\ tcp.phase = "connecting"
    /\ tcp' = [tcp EXCEPT !.phase = "connected"]
    /\ LET r == send_logon(gw, FALSE)
       IN  gw' = r.s /\ to_ex' = r.sent
    /\ UNCHANGED <<to_gw, losses, appVars, exVars, ioVars>>

ConnectFailed ==
    /\ io = Idle /\ tcp.phase \in {"resolving", "connecting"}
    /\ losses < MaxLosses /\ losses' = losses + 1
    /\ tcp' = Rescheduled
    /\ UNCHANGED <<gw, to_ex, to_gw, appVars, exVars, ioVars>>

ReconnectTimer ==
    /\ io = Idle /\ tcp.phase = "waiting"
    /\ tcp' = [tcp EXCEPT !.phase = "resolving"]
    /\ UNCHANGED <<gw, to_ex, to_gw, losses, appVars, exVars, ioVars>>

\* do_close with the callback of the gateway; the exchange sees the end too.
Closed(phase, running) ==
    /\ tcp' = [phase |-> phase, running |-> running]
    /\ gw' = on_disconnect(gw) /\ ex' = on_disconnect(ex)
    /\ to_ex' = <<>> /\ to_gw' = <<>>

\* A mutant: the end of the connection does not arm the timer.
LostForGood ==
    /\ io = Idle /\ connected
    /\ losses < MaxLosses /\ losses' = losses + 1
    /\ Closed("off", tcp.running)
    /\ UNCHANGED <<exchange, io, recv_buf, done, appVars>>

\* A read or a write ends in an error.  The part of a message that was already read
\* stays in the receive buffer.
ConnectionLost ==
    /\ io = Idle /\ connected
    /\ losses < MaxLosses /\ losses' = losses + 1
    /\ Closed(Rescheduled.phase, tcp.running)
    /\ recv_buf' \in {recv_buf} \cup IF to_gw = <<>> \/ recv_buf = "broken" THEN {} ELSE {"rest"}
    /\ UNCHANGED <<exchange, io, done, appVars>>

\* TcpClient::disconnect.  While the name is being resolved there is no socket to
\* close, and the connection is still made.
tcp_disconnect ==
    /\ ShutsDown /\ io = Idle /\ tcp.running
    /\ losses < MaxLosses /\ losses' = losses + 1
    /\ \/ connected /\ Closed("off", FALSE)
       \/ /\ ~connected
          /\ tcp' = [phase |-> IF tcp.phase = "resolving" THEN "resolving" ELSE "off",
                     running |-> FALSE]
          /\ UNCHANGED <<gw, ex, to_ex, to_gw>>
    /\ UNCHANGED <<exchange, recv_buf, io, done, appVars>>

----------------------------------------------------------------------------
(* Messages from the exchange and the heartbeat timer, on the io thread. *)

\* extract_message_length on the next message behind what the buffer holds.  Behind a
\* rest, either the rest lacked its length and the message is found all the same, or
\* the message is taken for the body of the rest and no later byte begins a message.
Extracted(buf) ==
    CASE buf = "empty" -> {[found |-> TRUE, buf |-> "empty"]}
      [] buf = "rest" -> {[found |-> TRUE, buf |-> "empty"], [found |-> FALSE, buf |-> "broken"]}
      [] buf = "broken" -> {[found |-> FALSE, buf |-> "broken"]}

\* on_tcp_data for one message.
on_tcp_data ==
    /\ io = Idle /\ connected /\ to_gw # <<>>
    /\ \E e \in Extracted(recv_buf) :
         /\ recv_buf' = e.buf
         /\ \/ /\ e.found
               /\ LET r == on_message_received(gw, Head(to_gw))
                  IN  /\ GatewaySends(r)
                      /\ io' = IF r.app = <<>> THEN Idle ELSE Head(to_gw)
            \/ ~e.found /\ UNCHANGED <<gw, to_ex, io>>
    /\ to_gw' = Tail(to_gw)
    /\ UNCHANGED <<tcp, done, losses, appVars, exVars>>

\* handle_execution_report.
ExecutionReport(m) ==
    /\ m.type = "ExecutionReport"
    /\ orders' = [orders EXCEPT !.pending = IF m.status \in Terminal THEN @ \ {m.id} ELSE @]
    /\ done' = IF m.status \in Terminal THEN done \cup {m.id} ELSE done

\* handle_cancel_reject looks the cancel up by the ClOrdID of the order, but keeps it
\* by the ClOrdID of the cancel.
CancelRejected(m) ==
    /\ m.type = "OrderCancelReject"
    /\ orders' = [orders EXCEPT !.cancel_to_orig = {c \in @ : c[1] # m.ref}]
    /\ done' = done

\* A mutant: the report is handled without the gateway's mutex.
ReportUnlocked ==
    /\ io # Idle /\ io' = Idle
    /\ ExecutionReport(io) \/ CancelRejected(io)
    /\ UNCHANGED <<gw, to_ex, to_gw, tcp, recv_buf, losses, app, exVars>>

\* Under both mutexes.
on_app_message ==
    /\ io # Idle /\ app.step = "idle" /\ io' = Idle
    /\ ExecutionReport(io) \/ CancelRejected(io)
    /\ UNCHANGED <<gw, to_ex, to_gw, tcp, recv_buf, losses, app, exVars>>

heartbeat_timer ==
    /\ io = Idle /\ Spent < MaxSeq
    /\ GatewaySends(check_heartbeat(Aged(gw)))
    /\ UNCHANGED <<to_gw, tcp, losses, appVars, exVars, ioVars>>

----------------------------------------------------------------------------
(* The application thread. *)

\* send_new_order and send_cancel begin: the gateway's mutex and a ClOrdID.
Begin(op, orig) ==
    /\ app.step = "idle" /\ orders.next <= MaxIds /\ Spent < MaxSeq
    /\ app' = [step |-> "locked", op |-> op, id |-> orders.next, orig |-> orig]
    /\ orders' = [orders EXCEPT !.next = @ + 1]
    /\ UNCHANGED <<gw, to_ex, to_gw, tcp, losses, exVars, ioVars>>

send_new_order == Begin("NewOrderSingle", 0)

send_cancel == \E orig \in 1..(orders.next - 1) : Begin("OrderCancelRequest", orig)

Send ==
    /\ app.step = "locked" /\ io = Idle
    /\ GatewaySends(send_app_message(gw, Message(app.op, app.id, app.orig, FALSE)))
    /\ app' = [app EXCEPT !.step = "sent"]
    /\ UNCHANGED <<to_gw, tcp, losses, orders, exVars, ioVars>>

\* The order, or the way from the cancel to the order, is recorded and the mutex given
\* back.
Track ==
    /\ app.step = "sent"
    /\ orders' = IF app.op = "NewOrderSingle"
                 THEN [orders EXCEPT !.pending = @ \cup {app.id}]
                 ELSE [orders EXCEPT !.cancel_to_orig = @ \cup {<<app.id, app.orig>>}]
    /\ app' = AppIdle
    /\ UNCHANGED <<gw, to_ex, to_gw, tcp, losses, exVars, ioVars>>

\* FixGateway::disconnect only logs out.
disconnect ==
    /\ io = Idle /\ gw.state = "Active" /\ Spent < MaxSeq
    /\ GatewaySends(send_logout(gw))
    /\ UNCHANGED <<to_gw, tcp, losses, appVars, exVars, ioVars>>

----------------------------------------------------------------------------
(* The exchange. *)

Report(s, id, status) ==
    send_app_message(s, [Message("ExecutionReport", id, 0, FALSE) EXCEPT !.status = status])

CancelReject(s, m) == send_app_message(s, Message("OrderCancelReject", m.id, m.ref, FALSE))

\* The order handler's answer follows what the session sends.
Then(r, next) == [next EXCEPT !.sent = r.sent \o @]

ExchangeReceives ==
    /\ to_ex # <<>>
    /\ LET m == Head(to_ex)
           r == on_message_received(ex, m)
       IN  \/ r.app = <<>> /\ ExchangeSends(r) /\ UNCHANGED exchange
           \/ /\ r.app # <<>> /\ m.type = "NewOrderSingle"
              /\ \E status \in {"New", "Rejected"} :
                   /\ ExchangeSends(Then(r, Report(r.s, m.id, status)))
                   /\ exchange' = [seen |-> Append(exchange.seen, m.id),
                                   live |-> exchange.live \cup IF status = "New" THEN {m.id} ELSE {}]
           \/ /\ r.app # <<>> /\ m.type = "OrderCancelRequest"
              /\ IF m.ref \in exchange.live
                 THEN /\ ExchangeSends(Then(r, Report(r.s, m.ref, "Cancelled")))
                      /\ exchange' = [exchange EXCEPT !.live = @ \ {m.ref}]
                 ELSE /\ ExchangeSends(Then(r, CancelReject(r.s, m)))
                      /\ UNCHANGED exchange
    /\ to_ex' = Tail(to_ex)
    /\ UNCHANGED <<gw, tcp, losses, appVars, ioVars>>

ExchangeFills ==
    \E id \in exchange.live :
        /\ ExchangeSends(Report(ex, id, "Filled"))
        /\ exchange' = [exchange EXCEPT !.live = @ \ {id}]
        /\ UNCHANGED <<gw, to_ex, tcp, losses, appVars, ioVars>>

\* What else a counterparty may say: a test request, a reject, a request
\* for everything since 1, a reset to the number it will use next, a logout.
ExchangeSpeaks ==
    /\ connected /\ ex.state = "Active" /\ ex.outbound_seq < MaxExSeq
    /\ \E r \in {send_test_request(ex), send_reject(ex, 1), send_resend_request(Result(ex), 1, 0),
                 send_sequence_reset(ex, ex.outbound_seq + 1, FALSE), send_logout(ex)} :
          ExchangeSends(r)
    /\ UNCHANGED <<exchange, gw, to_ex, tcp, losses, appVars, ioVars>>

----------------------------------------------------------------------------
Client == Resolved \/ Connected \/ ReconnectTimer \/ on_tcp_data \/ on_app_message
Application == send_new_order \/ send_cancel \/ Send \/ Track \/ disconnect

Next ==
    \/ connect \/ ConnectFailed \/ ConnectionLost \/ tcp_disconnect \/ heartbeat_timer
    \/ Client \/ Application
    \/ ExchangeReceives \/ ExchangeFills \/ ExchangeSpeaks

Spec == Init /\ [][Next]_vars

\* The io thread runs what is ready and the application thread goes on; the exchange
\* reads; a connection attempt that does not fail ends.
Fairness ==
    /\ WF_vars(Resolved) /\ WF_vars(ReconnectTimer) /\ WF_vars(Connected)
    /\ WF_vars(on_tcp_data) /\ WF_vars(on_app_message)
    /\ WF_vars(Send) /\ WF_vars(Track)
    /\ WF_vars(ExchangeReceives)

FairSpec == Spec /\ Fairness

----------------------------------------------------------------------------
(* Properties. *)

\* Every variable has its type.
TypeOK ==
    /\ SessionOK(gw) /\ SessionOK(ex)
    /\ tcp.phase \in Phase /\ tcp.running \in BOOLEAN
    /\ recv_buf \in {"empty", "rest", "broken"}
    /\ app.step \in {"idle", "locked", "sent"}
    /\ orders.pending \cup done \cup exchange.live \subseteq 1..MaxIds
    /\ losses \in 0..MaxLosses

\* Neither side expects a number that the other side has not reached, whatever
\* messages the connections before have lost: otherwise the next logon would be
\* taken for a duplicate and the sessions could never meet again.
NeverAhead ==
    /\ ex.inbound_seq <= gw.outbound_seq
    /\ gw.inbound_seq <= ex.outbound_seq

\* Messages in flight are numbered in rising order and are new to their receiver, so
\* that the duplicate test of on_message_received never discards a message.  A gap
\* fill is exempt, because it carries an old number.
Fresh(flight, s) ==
    LET Numbered == {i \in DOMAIN flight : flight[i].type # "SequenceReset"}
    IN  /\ \A i \in Numbered : flight[i].seq >= s.inbound_seq
        /\ \A i, j \in Numbered : i < j => flight[i].seq < flight[j].seq

InFlightIsFresh == Fresh(to_gw, gw) /\ Fresh(to_ex, ex)

\* The exchange gets each order at most once and in the order of the ClOrdIDs, over
\* all reconnections.
OrdersOnceInOrder ==
    \A i, j \in DOMAIN exchange.seen : i < j => exchange.seen[i] < exchange.seen[j]

\* pending_orders_ holds every order that is live at the exchange, and no order whose
\* end the application was told: send_new_order records the order after it sends it,
\* and the report may be on its way by then.
PendingIsRight ==
    /\ exchange.live \subseteq orders.pending \cup {app.id}
    /\ done \cap orders.pending = {}

\* The two sides agree on the numbers: none is ahead, and nothing in flight would be
\* taken for a duplicate (send_message and on_message).
NumbersAgree == TypeOK /\ NeverAhead /\ InFlightIsFresh

\* The two sides agree on the orders (send_new_order and on_app_message).
OrdersAgree == OrdersOnceInOrder /\ PendingIsRight

\* Only the application thread and the io thread waiting for each other, or a broken
\* receive buffer, leave a logon without its answer.
LogonAnswered ==
    (connected /\ gw.state = "LogonSent")
        ~> (gw.state # "LogonSent" \/ Deadlocked \/ recv_buf = "broken")

\* A client that should be connected is connected again after a loss.
Reconnects ==
    (tcp.running /\ ~connected) ~> (connected \/ ~tcp.running \/ Deadlocked)

\* The session gets over losses: connections come back and logons are answered
\* (schedule_reconnect and handle_logon).
Recovers == LogonAnswered /\ Reconnects

\* "all public methods are mutex-protected" (fix_session.hpp): the two threads may
\* call them and neither waits for the other for ever.
NoDeadlock == ~Deadlocked
============================================================================
