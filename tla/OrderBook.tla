----------------------------- MODULE OrderBook -----------------------------
(***************************************************************************)
(* One limit order book of the handler (src/core/order_book.cpp,           *)
(* src/core/order_store.cpp, include/qf/core/price_level.hpp).  A book is  *)
(* a value with two redundant parts, the orders and the aggregated price   *)
(* levels, and every operation of the class is an operator from a book to  *)
(* a book.  The code maintains the levels incrementally; this module also  *)
(* says what they should be, by counting the orders.                       *)
(***************************************************************************)
EXTENDS Integers, FiniteSets

CONSTANTS
    OrderId,        \* order identifiers
    Price,          \* fixed-point prices
    MaxQuantity,    \* the largest quantity of an order
    QuantityRange,  \* 2^32: quantities and totals are uint32_t
    None            \* a missing order, level or update

ASSUME OrderIdAssumption == IsFiniteSet(OrderId)
ASSUME PriceAssumption == IsFiniteSet(Price) /\ Price \subseteq Nat
ASSUME QuantityAssumption ==
    /\ MaxQuantity \in Nat
    /\ QuantityRange \in Nat
    /\ MaxQuantity < QuantityRange

Side == {"Buy", "Sell"}
Quantity == 0 .. MaxQuantity

(* Order: price and remaining_quantity; the symbol is the book's.          *)
Order == [side : Side, price : Price, qty : Quantity]

MakeOrder(side, price, qty) == [side |-> side, price |-> price, qty |-> qty]

(* PriceLevel.  A price that is not a key of bids_ or asks_ is a level     *)
(* without orders: the code erases a level with its last order.            *)
Level == [qty : 0 .. QuantityRange - 1, count : Nat]
NoLevel == [qty |-> 0, count |-> 0]

Book == [orders : [OrderId -> Order \cup {None}], levels : [Side -> [Price -> Level]]]

(* The price and the total of the best level of one side.                  *)
Top == [price : Price, qty : 0 .. QuantityRange - 1]

ASSUME NoneAssumption == None \notin Order /\ None \notin Book /\ None \notin Top

EmptyBook == [orders |-> [id \in OrderId |-> None],
              levels |-> [s \in Side |-> [p \in Price |-> NoLevel]]]

-----------------------------------------------------------------------------
(* PriceLevel::add: the total wraps around at 2^32.                        *)
LevelAdd(level, qty) ==
    [qty |-> (level.qty + qty) % QuantityRange, count |-> level.count + 1]

(* PriceLevel::remove, and the erasure of the level it empties.            *)
LevelRemove(level, qty) ==
    IF level.count <= 1 THEN NoLevel
    ELSE [qty |-> IF qty >= level.qty THEN 0 ELSE level.qty - qty,
          count |-> level.count - 1]

(* Mutant of LevelExecute: a filled order stays in the count of its level. *)
LevelExecuteKeepsCount(level, qty, filled) ==
    IF level.count = 0 THEN NoLevel
    ELSE [qty |-> (level.qty - qty) % QuantityRange, count |-> level.count]

(* What execute_order does to the level of the order: the total goes down  *)
(* modulo 2^32, and a filled order leaves the level.                       *)
LevelExecute(level, qty, filled) ==
    IF level.count = 0 \/ (filled /\ level.count = 1) THEN NoLevel
    ELSE [qty |-> (level.qty - qty) % QuantityRange,
          count |-> IF filled THEN level.count - 1 ELSE level.count]

(* add_to_side, remove_from_side                                           *)
AddToSide(levels, side, price, qty) ==
    [levels EXCEPT ![side][price] = LevelAdd(@, qty)]

RemoveFromSide(levels, side, price, qty) ==
    [levels EXCEPT ![side][price] = LevelRemove(@, qty)]

-----------------------------------------------------------------------------
(* add_order: a duplicate id is refused and changes nothing.               *)
AddOrder(book, id, side, price, qty) ==
    IF book.orders[id] # None THEN book
    ELSE [orders |-> [book.orders EXCEPT ![id] = MakeOrder(side, price, qty)],
          levels |-> AddToSide(book.levels, side, price, qty)]

CancelOrder(book, id) ==
    LET order == book.orders[id] IN
    IF order = None THEN book
    ELSE [orders |-> [book.orders EXCEPT ![id] = None],
          levels |-> RemoveFromSide(book.levels, order.side, order.price, order.qty)]

(* execute_order.  The filled order is only removed from the store when    *)
(* its level exists (the code erases it inside update_level).              *)
ExecuteOrder(book, id, qty) ==
    LET order == book.orders[id]
        filled == qty = order.qty
        leaves == filled /\ book.levels[order.side][order.price].count > 0
    IN  IF order = None \/ qty = 0 \/ qty > order.qty THEN book
        ELSE [orders |-> [book.orders EXCEPT
                            ![id] = IF leaves THEN None
                                    ELSE MakeOrder(order.side, order.price, order.qty - qty)],
              levels |-> [book.levels EXCEPT
                            ![order.side][order.price] = LevelExecute(@, qty, filled)]]

(* Mutant of ReplaceOrder: the order keeps its old quantity in the store.  *)
ReplaceOrderLevelsOnly(book, id, price, qty) ==
    LET order == book.orders[id] IN
    IF order = None THEN book
    ELSE [orders |-> [book.orders EXCEPT ![id] = MakeOrder(order.side, price, order.qty)],
          levels |-> AddToSide(RemoveFromSide(book.levels, order.side, order.price, order.qty),
                               order.side, price, qty)]

ReplaceOrder(book, id, price, qty) ==
    LET order == book.orders[id] IN
    IF order = None THEN book
    ELSE [orders |-> [book.orders EXCEPT ![id] = MakeOrder(order.side, price, qty)],
          levels |-> AddToSide(RemoveFromSide(book.levels, order.side, order.price, order.qty),
                               order.side, price, qty)]

-----------------------------------------------------------------------------
(* best_bid, best_ask: the first key of bids_ (sorted downwards) and of    *)
(* asks_ (sorted upwards), and best_bid_qty, best_ask_qty.                 *)
Better(side, p, q) == IF side = "Buy" THEN p > q ELSE p < q

Best(book, side) ==
    LET keys == {p \in Price : book.levels[side][p].count > 0}
    IN  IF keys = {} THEN None
        ELSE LET top == CHOOSE p \in keys : \A q \in keys \ {p} : Better(side, p, q)
             IN  [price |-> top, qty |-> book.levels[side][top].qty]

-----------------------------------------------------------------------------
(* The reference: what the levels should be, counted from the orders.      *)

RestingAt(orders, side, price) ==
    {id \in OrderId : /\ orders[id] # None
                      /\ orders[id].side = side
                      /\ orders[id].price = price}

(* The shares that rest at a price, one by one: the k-th share of order id.*)
SharesAt(orders, side, price) ==
    {share \in OrderId \X (1 .. MaxQuantity) :
        /\ share[1] \in RestingAt(orders, side, price)
        /\ share[2] <= orders[share[1]].qty}

(* The order count of every level is the number of orders that rest there, *)
(* so a level exists exactly as long as an order does.                     *)
CountsMatch(book) ==
    \A s \in Side, p \in Price :
        /\ book.levels[s][p].count = Cardinality(RestingAt(book.orders, s, p))
        /\ book.levels[s][p].count = 0 => book.levels[s][p] = NoLevel

(* The total of every level is the number of shares that rest there.       *)
TotalsMatch(book) ==
    \A s \in Side, p \in Price :
        book.levels[s][p].qty = Cardinality(SharesAt(book.orders, s, p))

(* No total can reach 2^32.                                                *)
NoWrap == Cardinality(OrderId) * MaxQuantity < QuantityRange
=============================================================================
