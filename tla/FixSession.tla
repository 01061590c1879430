---------------------------- MODULE FixSession ----------------------------
(***************************************************************************)
(* The session layer of FIX 4.4: logon and logout, sequence numbers,       *)
(* heartbeats, test requests and gap fills.  An operation takes a session  *)
(* and gives a result: the session after it, the messages handed to the    *)
(* send callback and the messages handed to the application callback.      *)
(* Every operation holds the session's mutex from its start to its end.    *)
(*                                                                         *)
(* Instants are kept as ages, in seconds, up to the largest age that a     *)
(* timer tells apart.  A test request is named by its sequence number.     *)
(***************************************************************************)
EXTENDS Integers, Sequences

CONSTANT HeartBtInt \* heartbeat_interval_sec_

ASSUME HeartBtIntAssumption == HeartBtInt \in Nat \ {0}

None == 0

SessionState == {"Disconnected", "LogonSent", "Active", "LogoutSent"}

\* The silence after which the counterparty is probed.
SilenceLimit == HeartBtInt + 2

Session(sender, target) ==
    [sender |-> sender, target |-> target, state |-> "Disconnected",
     outbound_seq |-> 1, inbound_seq |-> 1,
     send_age |-> 0, recv_age |-> 0, test_age |-> HeartBtInt, pending_test |-> None]

\* A message before its header is stamped.  `id` is the TestReqID, ClOrdID or
\* BeginSeqNo, `ref` the EndSeqNo, NewSeqNo or OrigClOrdID, `flag` the GapFillFlag or
\* ResetSeqNumFlag, `status` the OrdStatus.
Message(type, id, ref, flag) ==
    [type |-> type, id |-> id, ref |-> ref, flag |-> flag, status |-> "none",
     seq |-> 0, sender |-> "", target |-> ""]

Plain(type) == Message(type, None, None, FALSE)

Result(s) == [s |-> s, sent |-> <<>>, app |-> <<>>]

Stamped(s, m, seq) == [m EXCEPT !.seq = seq, !.sender = s.sender, !.target = s.target]

----------------------------------------------------------------------------
(* Sending. *)

\* A mutant: the number is taken after the increment.
SendNextNumber(r, m) ==
    [r EXCEPT !.sent = Append(@, Stamped(r.s, m, r.s.outbound_seq + 1)),
              !.s.outbound_seq = @ + 1,
              !.s.send_age = 0]

send_message(r, m) ==
    [r EXCEPT !.sent = Append(@, Stamped(r.s, m, r.s.outbound_seq)),
              !.s.outbound_seq = @ + 1,
              !.s.send_age = 0]

transition(r, state) == [r EXCEPT !.s.state = state]

send_logon(s, reset_seq) ==
    LET numbered == IF reset_seq THEN [s EXCEPT !.outbound_seq = 1, !.inbound_seq = 1] ELSE s
    IN  transition(send_message(Result(numbered), Message("Logon", None, None, reset_seq)),
                   "LogonSent")

send_logout(s) == transition(send_message(Result(s), Plain("Logout")), "LogoutSent")

Probe(r) ==
    LET id == r.s.outbound_seq
        sent == send_message(r, Message("TestRequest", id, None, FALSE))
    IN  [sent EXCEPT !.s.pending_test = id, !.s.test_age = 0]

send_test_request(s) == Probe(Result(s))

send_resend_request(r, begin, end) ==
    send_message(r, Message("ResendRequest", begin, end, FALSE))

send_sequence_reset(s, new_seq, gap_fill) ==
    send_message(Result(s), Message("SequenceReset", None, new_seq, gap_fill))

send_reject(s, ref_seq) == send_message(Result(s), Message("Reject", None, ref_seq, FALSE))

send_app_message(s, m) == send_message(Result(s), m)

----------------------------------------------------------------------------
(* Handlers of session messages.  `r` already counts the message as accepted. *)

handle_logon(r, m) ==
    LET answered ==
          CASE r.s.state = "LogonSent" -> transition(r, "Active")
            [] r.s.state = "Disconnected" ->
                 transition(send_message(r, Plain("Logon")), "Active")
            [] OTHER -> r
    IN  IF m.flag THEN [answered EXCEPT !.s.inbound_seq = m.seq + 1] ELSE answered

handle_logout(r, m) ==
    IF r.s.state = "LogoutSent"
    THEN transition(r, "Disconnected")
    ELSE transition(send_message(r, Plain("Logout")), "Disconnected")

handle_heartbeat(r, m) ==
    IF m.id # None /\ m.id = r.s.pending_test
    THEN [r EXCEPT !.s.pending_test = None]
    ELSE r

handle_test_request(r, m) == send_message(r, Message("Heartbeat", m.id, None, FALSE))

\* Lost messages are not sent again: a gap fill moves the counterparty past them.
\* It carries the number of the first of them and uses up none.
handle_resend_request(r, m) ==
    LET end_seq == IF m.ref > 0 THEN m.ref + 1 ELSE r.s.outbound_seq
        fill == Message("SequenceReset", None, end_seq, TRUE)
    IN  [r EXCEPT !.sent = Append(@, Stamped(r.s, fill, m.id)), !.s.send_age = 0]

handle_sequence_reset(r, m) ==
    IF m.flag /\ m.ref <= r.s.inbound_seq
    THEN r
    ELSE [r EXCEPT !.s.inbound_seq = m.ref]

\* A message that skips numbers is accepted, and the numbers are asked for.
Accepted(r, m) ==
    LET asked == IF m.seq > r.s.inbound_seq
                 THEN send_resend_request(r, r.s.inbound_seq, m.seq - 1)
                 ELSE r
    IN  [asked EXCEPT !.s.inbound_seq = m.seq + 1]

Dispatch(r, m) ==
    CASE m.type = "Logon"         -> handle_logon(r, m)
      [] m.type = "Logout"        -> handle_logout(r, m)
      [] m.type = "Heartbeat"     -> handle_heartbeat(r, m)
      [] m.type = "TestRequest"   -> handle_test_request(r, m)
      [] m.type = "ResendRequest" -> handle_resend_request(r, m)
      [] m.type = "Reject"        -> r
      [] OTHER                    -> [r EXCEPT !.app = Append(@, m)]

on_message_received(s, m) ==
    LET r == Result([s EXCEPT !.recv_age = 0])
    IN  CASE m.sender # s.target \/ m.target # s.sender -> r
          [] m.type = "SequenceReset"                   -> handle_sequence_reset(r, m)
          [] m.seq < s.inbound_seq                      -> r
          [] OTHER                                      -> Dispatch(Accepted(r, m), m)

----------------------------------------------------------------------------
(* Timers and the end of a connection. *)

Older(age, limit) == IF age < limit THEN age + 1 ELSE limit

\* One second later.
Aged(s) == [s EXCEPT !.send_age = Older(@, HeartBtInt),
                     !.recv_age = Older(@, SilenceLimit),
                     !.test_age = Older(@, HeartBtInt)]

check_heartbeat(s) ==
    LET beaten == IF s.send_age >= HeartBtInt
                  THEN send_message(Result(s), Plain("Heartbeat"))
                  ELSE Result(s)
    IN  CASE s.state # "Active" -> Result(s)
          [] s.recv_age < SilenceLimit -> beaten
          [] s.pending_test = None -> Probe(beaten)
          [] s.test_age >= HeartBtInt ->
               transition(send_message(beaten, Plain("Logout")), "LogoutSent")
          [] OTHER -> beaten

on_disconnect(s) == [s EXCEPT !.state = "Disconnected"]

SessionOK(s) ==
    /\ s.state \in SessionState
    /\ s.outbound_seq \in Nat /\ s.inbound_seq \in Nat /\ s.pending_test \in Nat
    /\ s.send_age \in 0..HeartBtInt /\ s.recv_age \in 0..SilenceLimit
    /\ s.test_age \in 0..HeartBtInt
============================================================================
