------------------------------- MODULE Trading -------------------------------
(***************************************************************************)
(* From a signal to a position, and the kill switch beside it.             *)
(*                                                                         *)
(* The trader thread hands a signal and a view of the positions to the     *)
(* strategy engine and submits the decisions: each is checked before the   *)
(* trade and, if approved, worked by an execution algorithm.  The exchange *)
(* fills or drops child orders at any time.  Two threads use the circuit   *)
(* breaker: the drawdown monitor and an operator, who may also reset it    *)
(* and enable the strategy again.                                          *)
(*                                                                         *)
(* No file of the library connects these classes; the callbacks are wired  *)
(* here as their comments and tests describe.  Fields of an order:         *)
(*   signal   which signal asked for it                                    *)
(*   children the quantities of the child orders at the exchange           *)
(*   expired  the exchange dropped a child order                           *)
(***************************************************************************)
EXTENDS RiskLimits, ExecutionAlgo

CONSTANTS
    Inputs,         \* for each strategy the signals it is tried with: their
                    \* price, strength, type, whether the regime is the one
                    \* the strategy trades in, and the time since the last
    Configs,        \* what a behaviour is about: the strategy, the algorithm
                    \* that works its orders, whether the exchange fills in
                    \* parts and drops orders, and three bounds: the signals,
                    \* the orders, and the calls that find the breaker not
                    \* tripped
    MaxOrders       \* the largest bound on orders

Thread == {"monitor", "operator"}

VARIABLES
    prices,     \* the reference prices of risk and of the marks
    now,        \* the current timestamp
    strat,      \* the registered strategy and its private state
    active,     \* active_ of the registry
    folio,      \* the portfolio of each symbol
    risk,       \* the state of the limits and monitors
    config,     \* the member of Configs
    orders,     \* the approved orders
    trader,     \* the trader thread between on_signal and the callback
    tripped,    \* tripped_
    pc,         \* where each thread is in the breaker
    \* History: signals handled, trips begun, when the last cancel and the
    \* first disable happened, the sum of the legs a pair strategy asked
    \* for, and whether an order was approved while another was open.
    signals, trips, cancelled_at, disabled_at, legs, overlapped

vars == <<prices, now, strat, active, folio, risk, config, orders,
          trader, tripped, pc, signals, trips, cancelled_at, disabled_at, legs,
          overlapped>>

market == <<prices, now, strat, active, trader, signals, legs>>
breaker == <<tripped, pc, trips, cancelled_at, disabled_at>>

Idle == [pc |-> "idle", decisions |-> <<>>, view |-> [x \in Symbol |-> 0]]

Never == 0

\* The symbols the strategy is fed: only the pair needs two.
Traded == IF strat.name = "stat_arb" THEN Symbol ELSE {"A"}

Done == [symbol |-> "A", side |-> "Buy", quantity |-> 0,
         order_type |-> "Market", limit_price |-> 0, state |-> "done",
         signal |-> 0, algo |-> NewAlgo("Iceberg", 0), children |-> <<>>,
         expired |-> FALSE]

Open(i) == orders[i].state = "open"

Init ==
    /\ prices = [x \in Symbol |-> 0]
    /\ now = 0
    /\ config \in Configs
    /\ strat = Fresh(config.strategy)
    /\ active = TRUE
    /\ folio = [x \in Symbol |-> Flat]
    /\ risk = NoRisk
    /\ orders = <<>>
    /\ trader = Idle
    /\ tripped = FALSE
    /\ pc = [t \in Thread |-> "idle"]
    /\ signals = 0
    /\ trips = 0
    /\ cancelled_at = Never
    /\ disabled_at = Never
    /\ legs = [x \in Symbol |-> 0]
    /\ overlapped = FALSE

------------------------------------------------------------------------------
\* The trader thread.

Asked(decisions, x) ==
    Sum([i \in 1 .. Len(decisions) |->
            IF decisions[i].symbol = x THEN Signed(decisions[i]) ELSE 0])

\* A tick reaches everything that keeps a price; the strategies that are
\* active then decide on the positions the caller saw.
Signal(sig) ==
    LET view == [x \in Symbol |-> folio[x].position]
        r == IF active THEN on_signal(strat, sig, view[sig.symbol])
             ELSE Ask(strat, <<>>)
    IN  /\ trader.pc = "idle"
        /\ signals < config.signals
        /\ signals' = signals + 1
        /\ now' = now + sig.later
        /\ prices' = [prices EXCEPT ![sig.symbol] = sig.price]
        /\ folio' = [folio EXCEPT ![sig.symbol] = MarkToMarket(@, sig.price)]
        /\ strat' = r.s
        /\ legs' = [x \in Symbol |-> legs[x] + Asked(r.out, x)]
        /\ trader' = IF r.out = <<>> THEN Idle
                     ELSE [pc |-> "decided", decisions |-> r.out,
                           view |-> view]
        /\ UNCHANGED <<active, risk, config, orders, breaker, overlapped>>

\* The client's callback: an approved decision becomes an order.
Placed(os, d) ==
    IF Approved(check_pre_trade(risk, d, folio, prices, now))
    THEN Append(os, [symbol |-> d.symbol, side |-> d.side,
                     quantity |-> d.quantity, order_type |-> d.order_type,
                     limit_price |-> d.limit_price, state |-> "open",
                     signal |-> signals, algo |-> NewAlgo(config.algo, d.quantity),
                     children |-> <<>>, expired |-> FALSE])
    ELSE os

Submit ==
    LET os == FoldLeft(Placed, orders, trader.decisions)
        open(x) == {i \in 1 .. Len(os) : os[i].state = "open"
                                         /\ os[i].symbol = x}
    IN  /\ trader.pc = "decided"
        /\ Len(orders) + Len(trader.decisions) <= config.orders
        /\ orders' = os
        /\ overlapped' = \/ overlapped
                         \/ \E x \in Symbol : Cardinality(open(x)) > 1
        /\ trader' = Idle
        /\ risk' = prune(risk, now)
        /\ UNCHANGED <<prices, now, strat, active, folio, config, breaker,
                       signals, legs>>

------------------------------------------------------------------------------
\* The execution algorithm and the exchange.

SendSlice(i) ==
    LET a == orders[i].algo
    IN  /\ Open(i)
        /\ Ready(a)
        /\ UNCHANGED <<market, folio, risk, config, breaker, overlapped>>
        /\ orders' = [orders EXCEPT
               ![i].algo = next_slice(a),
               ![i].children = IF SliceSize(a) = 0 THEN @
                               ELSE Append(@, SliceSize(a))]

FillPrice(o) ==
    IF o.order_type = "Limit" THEN o.limit_price ELSE prices[o.symbol]

\* A fill goes to the portfolio, to both risk classes and to the algorithm.
ChildFilled(i, k, qty) ==
    LET o == orders[i]
        a == AlgoOnFill(o.algo, qty)
        left == IF qty < o.children[k]
                THEN [o.children EXCEPT ![k] = @ - qty]
                ELSE RemoveAt(o.children, k)
    IN  /\ Open(i)
        /\ IF config.partial THEN qty <= o.children[k] ELSE qty = o.children[k]
        /\ UNCHANGED <<market, config, breaker, overlapped>>
        /\ orders' = [orders EXCEPT
               ![i] = IF is_complete(a) THEN Done
                      ELSE [o EXCEPT !.algo = a, !.children = left]]
        /\ folio' = [folio EXCEPT ![o.symbol] = PnLOnFill(
                        [@ EXCEPT !.position = Update(@, o.side, qty)],
                        o.side, FillPrice(o), qty)]
        /\ risk' = PostTradeOnFill(check_post_trade(risk, folio', now),
                                   folio', prices)

\* The exchange drops a child order; the algorithm has no way to hear of it.
Expire(i, k) ==
    /\ Open(i)
    /\ config.partial
    /\ UNCHANGED <<market, folio, risk, config, breaker, overlapped>>
    /\ orders' = [orders EXCEPT ![i].children = RemoveAt(@, k),
                                ![i].expired = TRUE]

------------------------------------------------------------------------------
\* The circuit breaker: update_drawdown of the monitor and trip of the
\* operator test the flag and then run execute_trip.

Goto(t, from, to) == pc[t] = from /\ pc' = [pc EXCEPT ![t] = to]

TestTripped(t) ==
    /\ ~tripped
    /\ trips < config.trips
    /\ trips' = trips + 1
    /\ Goto(t, "idle", "store")
    /\ UNCHANGED <<market, folio, risk, config, orders, tripped, cancelled_at,
                   disabled_at, overlapped>>

StoreTripped(t) ==
    /\ Goto(t, "store", "cancel")
    /\ tripped' = TRUE
    /\ UNCHANGED <<market, folio, risk, config, orders, trips, cancelled_at,
                   disabled_at, overlapped>>

\* A bug of the trip: child orders are cancelled, their parents go on.
CancelAllChildren(t) ==
    /\ Goto(t, "cancel", "disable")
    /\ orders' = [i \in 1 .. Len(orders) |->
                     [orders[i] EXCEPT !.children = <<>>]]
    /\ cancelled_at' = IF trader.pc = "decided" THEN signals ELSE signals + 1
    /\ UNCHANGED <<market, folio, risk, config, tripped, trips, disabled_at,
                   overlapped>>

\* cancel_callback_: every order that is open now is cancelled.
CancelAll(t) ==
    /\ Goto(t, "cancel", "disable")
    /\ orders' = [i \in 1 .. Len(orders) |-> Done]
    /\ cancelled_at' = IF trader.pc = "decided" THEN signals ELSE signals + 1
    /\ UNCHANGED <<market, folio, risk, config, tripped, trips, disabled_at,
                   overlapped>>

\* disable_callback_.
DisableAll(t) ==
    /\ Goto(t, "disable", "publish")
    /\ active' = FALSE
    /\ disabled_at' = IF disabled_at = Never THEN signals + 1 ELSE disabled_at
    /\ UNCHANGED <<prices, now, strat, folio, risk, config, orders, trader,
                   tripped, signals, trips, cancelled_at, legs, overlapped>>

\* The alert and the event only tell others.
Publish(t) ==
    /\ Goto(t, "publish", "idle")
    /\ UNCHANGED <<market, folio, risk, config, orders, tripped, trips,
                   cancelled_at, disabled_at, overlapped>>

reset ==
    /\ pc["operator"] = "idle"
    /\ tripped
    /\ tripped' = FALSE
    /\ UNCHANGED <<market, folio, risk, config, orders, pc, trips,
                   cancelled_at, disabled_at, overlapped>>

enable ==
    /\ pc["operator"] = "idle"
    /\ ~active
    /\ active' = TRUE
    /\ disabled_at' = Never
    /\ UNCHANGED <<prices, now, strat, folio, risk, config, orders, trader,
                   tripped, pc, signals, trips, cancelled_at, legs,
                   overlapped>>

------------------------------------------------------------------------------

\* An order moves: its next slice is sent, or the exchange answers.
Work ==
    \E i \in 1 .. Len(orders) :
        \/ SendSlice(i)
        \/ \E k \in 1 .. Len(orders[i].children) :
              \/ \E qty \in Quantity \ {0} : ChildFilled(i, k, qty)
              \/ Expire(i, k)

Next ==
    \/ \E x \in Traded, in \in Inputs[config.strategy] :
          Signal([symbol |-> x, price |-> in.price, strength |-> in.strength,
                  type |-> in.type, regime |-> in.regime, later |-> in.later])
    \/ Submit
    \/ Work
    \/ \E t \in Thread :
          \/ TestTripped(t)
          \/ StoreTripped(t)
          \/ CancelAll(t)
          \/ DisableAll(t)
          \/ Publish(t)
    \/ reset
    \/ enable

Spec == Init /\ [][Next]_vars

\* The caller of an algorithm polls next_slice, and the exchange fills or
\* drops what it was sent.  Which order moves first does not matter.
FairSpec == Spec /\ WF_vars(Work)

------------------------------------------------------------------------------

OrderOK(o) ==
    /\ o.state \in {"open", "done"}
    /\ o.side \in Side
    /\ o.quantity \in Nat
    /\ o.algo.remaining \in 0 .. o.quantity
    /\ \A k \in DOMAIN o.children : o.children[k] > 0

\* Types, for the orders of the execution algorithms and the threads of the
\* circuit breaker.
TypeOK ==
    /\ \A i \in DOMAIN orders : OrderOK(orders[i])
    /\ trader.pc \in {"idle", "decided"}
    /\ pc \in [Thread -> {"idle", "store", "cancel", "disable", "publish"}]
    /\ active \in BOOLEAN /\ tripped \in BOOLEAN
    /\ signals \in 0 .. config.signals /\ Len(orders) <= config.orders

\* The position limit holds for a client that waits for each order of a
\* symbol before it places the next: PositionLimit::check counts the order
\* it is asked about and no other.
SerialOrdersRespectLimit ==
    ~overlapped => \A x \in Symbol : Abs(folio[x].position) <= MaxShares

\* What a strategy asks for, filled completely, keeps its own position limit
\* and never turns a position it leaves into the opposite one, as long as
\* the view it was given is right (on_signal of the four strategies that
\* look at the position).
DecisionsStayInside ==
    (trader.pc = "decided" /\ strat.name # "stat_arb") =>
    \A i \in DOMAIN trader.decisions :
        LET d == trader.decisions[i]
            view == trader.view[d.symbol]
            limit == IF strat.name = "market_making" THEN MaxInventory
                     ELSE MaxPosition
        IN  Abs(view) <= limit => Abs(view + Signed(d)) <= limit

\* The legs a pair strategy has asked for since it started are opposite and
\* equal, and are what spread_position_ says.
PairIsHedged ==
    strat.name = "stat_arb" =>
        /\ legs["A"] = strat.spread * TradeSize
        /\ legs["B"] = -legs["A"]

\* What the strategies ask for respects their own bounds (on_signal).
StrategiesKeepBounds == DecisionsStayInside /\ PairIsHedged

\* A slice is never sent for quantity that is filled or already at the
\* exchange, so a parent cannot be overfilled (next_slice and on_fill).
NoOversend ==
    \A i \in DOMAIN orders :
        Total(orders[i].children) <= orders[i].algo.remaining

\* Parents and children have their quantities, and the children fit into what
\* is left of the parent.
SlicesFit == TypeOK /\ NoOversend

\* execute_trip cancels first and disables second, and a signal may be under
\* way: what is still open while the strategy is disabled was asked for by a
\* signal that was handled after the cancel began and before the disable.
SurvivorsAreRacers ==
    disabled_at # Never =>
        \A i \in DOMAIN orders :
            Open(i) => /\ orders[i].signal >= cancelled_at
                       /\ orders[i].signal < disabled_at

\* An order is worked to its end unless the exchange drops a child order or
\* the breaker cancels it: the slices of every algorithm add up.
OrdersComplete ==
    []<>(\A i \in DOMAIN orders : Open(i) => orders[i].expired)

\* What the comment on CircuitBreaker says of a trigger: it cancels all open
\* orders and disables all strategies.  Once a trip is over and nothing was
\* enabled since, no order is open.
TripLeavesNothingOpen ==
    (tripped /\ ~active /\ pc = [t \in Thread |-> "idle"])
        => \A i \in DOMAIN orders : ~Open(i)

==============================================================================
