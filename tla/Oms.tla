-------------------------------- MODULE Oms ----------------------------------
(***************************************************************************)
(* The order management system: OrderManager with its transition table and *)
(* journal, FillManager, the portfolio it feeds, and the simulated         *)
(* exchange behind OrderRouter and SimExchangeConnector.  All calls are    *)
(* made from one thread: the exchange fills an order inside the call that  *)
(* routes it or inside a market update, through a callback that the        *)
(* client installs.  The client may acknowledge an order in that callback, *)
(* as the integration test does, or leave that to a message of the venue.  *)
(***************************************************************************)
EXTENDS Portfolio, FiniteSets, Functions

CONSTANTS
    Symbol,
    MarkPrice,          \* prices at which the client marks its positions
    MaxOrders,          \* orders submitted in a behaviour
    MaxPartialFills     \* config_.max_partial_fills of the fill model

ASSUME OmsAssumption ==
    /\ IsFiniteSet(Symbol)
    /\ Price \subseteq Nat /\ 0 \in Price
    /\ MarkPrice \subseteq Nat
    /\ Quantity \subseteq Nat /\ 0 \in Quantity
    /\ MaxOrders \in Nat /\ MaxPartialFills \in Nat \ {0}

VARIABLES
    oms,        \* orders_, the journal's histories, the portfolio, total_volume_
    routed,     \* ids that the client gave to OrderRouter::route
    pending,    \* SimExchange::pending_orders_: copies made by submit_order
    quotes      \* SimExchange::quotes_; 0 is no price

vars == <<oms, routed, pending, quotes>>

OrderState ==
    {"New", "Sent", "Acked", "PartialFill", "Filled", "Cancelled", "Rejected"}

TRANSITION_TABLE ==
    {<<"New", "Sent">>, <<"Sent", "Acked">>, <<"Sent", "Rejected">>}
      \cup {"Acked", "PartialFill"} \X {"PartialFill", "Filled", "Cancelled"}

Order == [symbol : Symbol, side : Side, type : {"Market", "Limit"},
          price : Price, quantity : Quantity \ {0}, filled_quantity : Nat,
          state : OrderState]

Remaining(o) == o.quantity - o.filled_quantity

IsTerminal(o) == o.state \in {"Filled", "Cancelled", "Rejected"}

Ids == 1 .. Len(oms.orders)

Quote == [best_bid : Price, best_ask : Price]

Init ==
    /\ oms = [orders |-> <<>>, journal |-> <<>>,
              portfolio |-> [s \in Symbol |-> Flat], total_volume |-> 0]
    /\ routed = {}
    /\ pending = <<>>
    /\ quotes = [s \in Symbol |-> [best_bid |-> 0, best_ask |-> 0]]

------------------------------------------------------------------------------
\* OrderManager and FillManager, as functions of the state m = oms.

\* A bug of the table lookup: a cancelled order may still be filled.
IsValidAfterCancel(from, to) ==
    <<from, to>> \in TRANSITION_TABLE \cup {<<"Cancelled", "Filled">>}

IsValid(from, to) == <<from, to>> \in TRANSITION_TABLE

\* A bug of the journal: acknowledgements are not recorded.
ApplyTransitionUnjournaled(m, id, target) ==
    IF IsValid(m.orders[id].state, target)
    THEN [m EXCEPT !.orders[id].state = target,
                   !.journal[id] = IF target = "Acked" THEN @
                                   ELSE Append(@, target)]
    ELSE m

ApplyTransition(m, id, target) ==
    IF IsValid(m.orders[id].state, target)
    THEN [m EXCEPT !.orders[id].state = target,
                   !.journal[id] = Append(@, target)]
    ELSE m

\* A bug of the order of the steps: the volume is added before the check.
BookFillCountsRefused(m, id, px, qty) ==
    LET counted == [m EXCEPT !.orders[id].filled_quantity = @ + qty,
                             !.total_volume = @ + qty]
        order   == counted.orders[id]
        target  == IF order.filled_quantity >= order.quantity
                   THEN "Filled" ELSE "PartialFill"
    IN  IF ~IsValid(order.state, target)
        THEN counted
        ELSE [ApplyTransition(counted, id, target) EXCEPT
                !.portfolio[order.symbol] = OnFill(@, order.side, px, qty)]

\* FillManager::on_fill.  The quantity is counted before the transition is
\* validated; the portfolio sees the fill only if the transition succeeds.
BookFill(m, id, px, qty) ==
    LET counted == [m EXCEPT !.orders[id].filled_quantity = @ + qty]
        order   == counted.orders[id]
        target  == IF order.filled_quantity >= order.quantity
                   THEN "Filled" ELSE "PartialFill"
    IN  IF ~IsValid(order.state, target)
        THEN counted
        ELSE [ApplyTransition(counted, id, target) EXCEPT
                !.portfolio[order.symbol] = OnFill(@, order.side, px, qty),
                !.total_volume = @ + qty]

\* The client's callback, with or without the acknowledgement.
Callback(m, id, px, qty, ack) ==
    BookFill(IF ack THEN ApplyTransition(m, id, "Acked") ELSE m, id, px, qty)

------------------------------------------------------------------------------
\* SimExchange.  A pending order is the copy [id, order] taken by submit_order.

\* SimFillModel::split_quantity: positive parts, at most MaxPartialFills.
SplitQuantity(total) ==
    {parts \in UNION {[1 .. n -> 1 .. total] : n \in 1 .. MaxPartialFills} :
        Sum(parts) = total}

MarketPriceFor(q, side) == IF side = "Buy" THEN q.best_ask ELSE q.best_bid

GenerateFills(m, id, px, parts, ack) ==
    LET after[i \in 0 .. Len(parts)] ==
            IF i = 0 THEN m ELSE Callback(after[i - 1], id, px, parts[i], ack)
    IN  after[Len(parts)]

Reject(m, id, ack) == Callback(m, id, 0, 0, ack)

ShouldFill(q, order) ==
    LET market == MarketPriceFor(q, order.side)
    IN  /\ market # 0
        /\ IF order.side = "Buy" THEN market <= order.price
                                 ELSE market >= order.price

\* A pending order p is filled at its limit, or kept; c = [oms, pending].
TryFillLimit(c, p, qs, parts, ack) ==
    IF ShouldFill(qs[p.order.symbol], p.order)
    THEN [c EXCEPT !.oms = GenerateFills(@, p.id, p.order.price, parts, ack)]
    ELSE [c EXCEPT !.pending = Append(@, p)]

\* Oldest first; what is not filled is kept in order.
CheckPendingOrders(m, qs, split, ack) ==
    LET after[i \in 0 .. Len(pending)] ==
            IF i = 0 THEN [oms |-> m, pending |-> <<>>]
            ELSE TryFillLimit(after[i - 1], pending[i], qs, split[i], ack)
    IN  after[Len(pending)]

------------------------------------------------------------------------------
\* OrderManager::submit; a decision with quantity 0 is refused.
Submit(s, side, type, px, qty) ==
    /\ Len(oms.orders) < MaxOrders
    /\ qty > 0
    /\ LET order == [symbol |-> s, side |-> side, type |-> type, price |-> px,
                     quantity |-> qty, filled_quantity |-> 0, state |-> "New"]
       IN  oms' = ApplyTransition(
                     [oms EXCEPT !.orders  = Append(@, order),
                                 !.journal = Append(@, <<"New">>)],
                     Len(oms.orders) + 1, "Sent")
    /\ UNCHANGED <<routed, pending, quotes>>

\* OrderRouter::route through SimExchangeConnector::send_order to
\* SimExchange::submit_order, which may reject at random.
Route(id, ack) ==
    LET order == oms.orders[id]
        px    == MarketPriceFor(quotes[order.symbol], order.side)
    IN  /\ id \notin routed
        /\ routed' = routed \cup {id}
        /\ UNCHANGED quotes
        /\ \/ /\ oms' = Reject(oms, id, ack)
              /\ UNCHANGED pending
           \/ /\ order.type = "Market" /\ px # 0
              /\ \E parts \in SplitQuantity(Remaining(order)) :
                    oms' = GenerateFills(oms, id, px, parts, ack)
              /\ UNCHANGED pending
           \/ /\ order.type = "Limit"
              /\ \E parts \in SplitQuantity(Remaining(order)) :
                    LET c == TryFillLimit([oms |-> oms, pending |-> pending],
                                          [id |-> id, order |-> order],
                                          quotes, parts, ack)
                    IN  oms' = c.oms /\ pending' = c.pending

OnMarketUpdate(s, bid, ask, ack) ==
    LET qs == [quotes EXCEPT ![s] = [best_bid |-> bid, best_ask |-> ask]]
    IN  /\ quotes' = qs
        /\ \E split \in [1 .. Len(pending) ->
                            UNION {SplitQuantity(q) : q \in Quantity \ {0}}] :
             /\ \A i \in 1 .. Len(pending) :
                   split[i] \in SplitQuantity(Remaining(pending[i].order))
             /\ LET c == CheckPendingOrders(oms, qs, split, ack)
                IN  oms' = c.oms /\ pending' = c.pending
        /\ UNCHANGED routed

\* Messages of the venue for an order it has received.
OnAck(id) ==
    /\ id \in routed
    /\ oms' = ApplyTransition(oms, id, "Acked")
    /\ UNCHANGED <<routed, pending, quotes>>

OnReject(id) ==
    /\ id \in routed
    /\ \A i \in 1 .. Len(pending) : pending[i].id # id
    /\ oms' = ApplyTransition(oms, id, "Rejected")
    /\ UNCHANGED <<routed, pending, quotes>>

\* OrderManager::cancel tells the exchange nothing.
Cancel(id) ==
    /\ oms' = ApplyTransition(oms, id, "Cancelled")
    /\ UNCHANGED <<routed, pending, quotes>>

MarkSymbol(s, mark) ==
    /\ UNCHANGED <<routed, pending, quotes>>
    /\ oms' = [oms EXCEPT !.portfolio[s] = MarkToMarket(@, mark)]

Next ==
    \/ \E s \in Symbol, side \in Side, qty \in Quantity :
          \/ Submit(s, side, "Market", 0, qty)
          \/ \E px \in Price \ {0} : Submit(s, side, "Limit", px, qty)
    \/ \E id \in Ids :
          \/ \E ack \in BOOLEAN : Route(id, ack)
          \/ OnAck(id)
          \/ OnReject(id)
          \/ Cancel(id)
    \/ \E s \in Symbol :
          \* without pending orders no callback runs and ack does not matter
          \/ \E bid, ask \in Price, ack \in BOOLEAN :
                (pending = <<>> => ack) /\ OnMarketUpdate(s, bid, ask, ack)
          \/ \E mark \in MarkPrice : MarkSymbol(s, mark)

Spec == Init /\ [][Next]_vars

------------------------------------------------------------------------------

\* Every order is a well-formed record with a history, every open lot has
\* something left, and the exchange keeps copies of routed orders (oms_types.hpp,
\* pnl_calculator.hpp, sim_exchange.hpp).
TypeOK ==
    /\ oms.orders \in Seq(Order)
    /\ oms.journal \in Seq(Seq(OrderState))
    /\ Len(oms.journal) = Len(oms.orders)
    /\ oms.portfolio \in [Symbol -> SymbolState]
    /\ oms.total_volume \in Nat
    /\ routed \subseteq Ids
    /\ \A i \in 1 .. Len(pending) :
          pending[i].id \in routed /\ pending[i].order \in Order
    /\ quotes \in [Symbol -> Quote]

\* The history that OrderJournal::get_history returns for an order leads from
\* New to its present state by legal transitions only, whatever mixture of
\* acknowledgements, partial fills, refused fills and cancels it has seen.
JournalExplainsState ==
    \A id \in Ids :
        LET h == oms.journal[id]
        IN  /\ h[1] = "New"
            /\ h[Len(h)] = oms.orders[id].state
            /\ \A i \in 1 .. Len(h) - 1 : IsValid(h[i], h[i + 1])

\* PositionTracker and PnLCalculator see the same fills but keep them apart:
\* the open lots always add up to the position, and long and short lots are
\* never open at the same time.
LotsMatchPosition ==
    \A s \in Symbol :
        LET p == oms.portfolio[s]
        IN  /\ p.position = Size(p.long_lots) - Size(p.short_lots)
            /\ p.long_lots = <<>> \/ p.short_lots = <<>>

\* FIFO accounting neither creates nor loses money: the realized profit is the
\* cash of all fills plus what the open lots cost (less what shorts brought).
RealizedIsCash ==
    \A s \in Symbol :
        LET p == oms.portfolio[s]
        IN  p.realized = Cash(p) + Cost(p.long_lots) - Cost(p.short_lots)

\* FillManager's volume is exactly the volume that the portfolio recorded, and
\* never exceeds what the orders count as filled.
VolumeIsBooked ==
    LET booked == [s \in Symbol |-> Size(oms.portfolio[s].fills)]
        total  == FoldFunction(+, 0, booked)
        filled == Sum([id \in Ids |-> oms.orders[id].filled_quantity])
    IN  oms.total_volume = total /\ total <= filled

\* No order is filled beyond its quantity, though the exchange fills from a
\* copy of the order that it took when the order was routed.
NoOverfill ==
    \A id \in Ids : oms.orders[id].filled_quantity <= oms.orders[id].quantity

\* The accounts of the fills agree: those of the orders, the fill manager, the
\* position, the lots and the profit (on_fill of FillManager and Portfolio).
AccountsAgree ==
    /\ TypeOK
    /\ LotsMatchPosition /\ RealizedIsCash /\ VolumeIsBooked /\ NoOverfill

\* Orders that are all done trade no more: a copy still pending at the exchange
\* after a cancel does not reach the portfolio.  And mark_to_market leaves as
\* total profit what selling everything at the mark would: the cash of all
\* fills plus the value of the position.
OnlyOpenOrdersMakeProfit ==
    [][/\ (\A id \in Ids : IsTerminal(oms.orders[id])) =>
             \A s \in Symbol :
                oms'.portfolio[s].position = oms.portfolio[s].position
       /\ \A s \in Symbol, mark \in MarkPrice :
             MarkSymbol(s, mark) =>
                LET p == oms'.portfolio[s]
                IN  p.realized + p.unrealized = Cash(p) + p.position * mark]_vars

\* Every fill that an order counts has reached the portfolio, as "receives
\* FillReports, forwards them to OrderManager and Portfolio" says.  It fails:
\* a fill that arrives before the acknowledgement is counted and refused.
FilledIsBooked ==
    oms.total_volume = Sum([id \in Ids |-> oms.orders[id].filled_quantity])

==============================================================================
