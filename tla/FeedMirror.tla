----------------------------- MODULE FeedMirror -----------------------------
(***************************************************************************)
(* The two ends of the feed: the simulator's OrderGenerator, which keeps   *)
(* its own book of live orders (src/simulator/order_generator.cpp,         *)
(* sim_order_book.cpp), and the handler's BookManager, which rebuilds the  *)
(* books from the messages.  Between them no message is lost, duplicated   *)
(* or reordered (what loss does is the subject of Pipeline and             *)
(* SequencedFeed): the module asks whether the messages themselves are     *)
(* enough to rebuild the simulator's book.                                 *)
(***************************************************************************)
EXTENDS Integers, Sequences, FiniteSets

CONSTANTS
    MaxOrders,      \* bound: orders the generator adds
    MaxInFlight,    \* bound: messages sent and not yet processed
    Price, MaxQuantity, QuantityRange, Symbol, None

ASSUME MirrorAssumption ==
    /\ MaxOrders \in Nat /\ MaxInFlight \in Nat \ {0}
    /\ IsFiniteSet(Price) /\ Price \subseteq Nat
    /\ MaxQuantity \in Nat /\ QuantityRange \in Nat /\ MaxQuantity < QuantityRange
    /\ None \notin Symbol

OrderId == 1 .. MaxOrders
SymbolsOf == [id \in OrderId |-> Symbol]

VARIABLES
    sim,            \* SimOrderBook::orders_
    next_order_id,  \* OrderGenerator::next_order_id_
    wire,           \* messages on their way to the handler
    traded,         \* history: orders whose last change was a Trade
    books, order_to_symbol, update

handler == <<books, order_to_symbol, update>>
vars == <<sim, next_order_id, wire, traded, handler>>

Handler == INSTANCE BookManager

(* random_quantity: min_qty is positive.                                   *)
RandomQuantity == 1 .. MaxQuantity

SimOrder == [symbol : Symbol, side : Handler!Side, price : Price, qty : RandomQuantity]

ASSUME MissingAssumption ==
    None \notin SimOrder \cup Handler!Order \cup Handler!Top /\ None \notin Handler!Book

Live(side) == {id \in OrderId : sim[id] # None /\ sim[id].side = side}
AllLive == Live("Buy") \cup Live("Sell")

Init ==
    /\ sim = [id \in OrderId |-> None]
    /\ next_order_id = 1
    /\ wire = <<>>
    /\ traded = {}
    /\ Handler!Init

-----------------------------------------------------------------------------
(* SimOrderBook::execute: an order with nothing left is erased.            *)
SimExecute(order, qty) ==
    IF qty >= order.qty THEN None ELSE [order EXCEPT !.qty = @ - qty]

Send(msg) == Len(wire) < MaxInFlight /\ wire' = Append(wire, msg)

(* OrderGenerator::next, one action per kind of message.                   *)
GenerateAdd ==
    /\ next_order_id <= MaxOrders
    /\ \E order \in SimOrder :
        /\ sim' = [sim EXCEPT ![next_order_id] = order]
        /\ Send([type |-> "Add", id |-> next_order_id, order |-> order])
    /\ next_order_id' = next_order_id + 1
    /\ UNCHANGED <<traded, handler>>

GenerateCancel ==
    /\ \E id \in AllLive :
        /\ sim' = [sim EXCEPT ![id] = None]
        /\ Send([type |-> "Cancel", id |-> id])
        /\ traded' = traded \ {id}
    /\ UNCHANGED <<next_order_id, handler>>

GenerateExecute ==
    /\ \E id \in AllLive : \E qty \in 1 .. sim[id].qty :
        /\ sim' = [sim EXCEPT ![id] = SimExecute(@, qty)]
        /\ Send([type |-> "Execute", id |-> id, qty |-> qty])
    /\ UNCHANGED <<next_order_id, traded, handler>>

GenerateReplace ==
    /\ \E id \in AllLive, price \in Price, qty \in RandomQuantity :
        /\ sim' = [sim EXCEPT ![id].price = price, ![id].qty = qty]
        /\ Send([type |-> "Replace", id |-> id, price |-> price, qty |-> qty])
        /\ traded' = traded \ {id}
    /\ UNCHANGED <<next_order_id, handler>>

(* A trade between any live bid and any live ask: both are executed in the *)
(* simulator, and a single Trade message is sent.                          *)
GenerateTrade ==
    /\ \E bid \in Live("Buy"), ask \in Live("Sell") :
        LET qty == IF sim[bid].qty <= sim[ask].qty THEN sim[bid].qty ELSE sim[ask].qty
        IN  /\ sim' = [sim EXCEPT ![bid] = SimExecute(@, qty), ![ask] = SimExecute(@, qty)]
            /\ Send([type |-> "Trade", symbol |-> sim[bid].symbol])
            /\ traded' = traded \cup {bid, ask}
    /\ UNCHANGED <<next_order_id, handler>>

(* The handler processes the oldest message.                               *)
Process(msg) ==
    \/ /\ msg.type = "Add"
       /\ Handler!ProcessAdd(msg.id, msg.order.symbol, msg.order.side, msg.order.price,
                             msg.order.qty)
    \/ msg.type = "Cancel" /\ Handler!ProcessCancel(msg.id)
    \/ msg.type = "Execute" /\ Handler!ProcessExecute(msg.id, msg.qty)
    \/ msg.type = "Replace" /\ Handler!ProcessReplace(msg.id, msg.price, msg.qty)
    \/ msg.type = "Trade" /\ Handler!ProcessTrade(msg.symbol)

Deliver ==
    /\ wire # <<>>
    /\ Process(Head(wire))
    /\ wire' = Tail(wire)
    /\ UNCHANGED <<sim, next_order_id, traded>>

Next ==
    \/ GenerateAdd \/ GenerateCancel \/ GenerateExecute \/ GenerateReplace \/ GenerateTrade
    \/ Deliver

Spec == Init /\ [][Next]_vars

-----------------------------------------------------------------------------
TypeOK ==
    /\ sim \in [OrderId -> SimOrder \cup {None}]
    /\ next_order_id \in 1 .. MaxOrders + 1
    /\ Len(wire) <= MaxInFlight
    /\ traded \subseteq OrderId
    /\ Handler!TypeOK

(* The order the handler holds under an id, None when there is none.       *)
Rebuilt(id) ==
    LET s == order_to_symbol[id] IN
    IF s = None \/ books[s] = None \/ books[s].orders[id] = None THEN None
    ELSE [symbol |-> s, side |-> books[s].orders[id].side,
          price |-> books[s].orders[id].price, qty |-> books[s].orders[id].qty]

CaughtUp == wire = <<>>

(* A handler that has caught up never misses an order: it holds every      *)
(* order of the simulator's book, at the same price and side and with at   *)
(* least the quantity that is left.                                        *)
HoldsEveryOrder ==
    CaughtUp => \A id \in AllLive :
        /\ Rebuilt(id) # None
        /\ Rebuilt(id).symbol = sim[id].symbol
        /\ Rebuilt(id).side = sim[id].side
        /\ Rebuilt(id).price = sim[id].price
        /\ Rebuilt(id).qty >= sim[id].qty

(* Only trades make the books differ: an order not traded since it was     *)
(* added, cancelled or replaced is the same in both.                       *)
ExactButForTrades == CaughtUp => \A id \in OrderId \ traded : Rebuilt(id) = sim[id]

(* The handler that caught up has the simulator's book, but for trades     *)
(* (order_generator.cpp and book_manager.cpp keep the same orders).        *)
BooksMirror == TypeOK /\ HoldsEveryOrder /\ ExactButForTrades

(* "A feed handler receives, decodes, and reconstructs live order books"   *)
(* (docs/plans/2026-02-24-feed-handler-design.md:14): with no message lost *)
(* the handler's orders are the simulator's.                               *)
BooksReconstructed == CaughtUp => \A id \in OrderId : Rebuilt(id) = sim[id]
=============================================================================
