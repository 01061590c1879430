---------------------------- MODULE BookManager ----------------------------
(***************************************************************************)
(* src/core/book_manager.cpp: routes the events of the feed to the book of *)
(* their symbol and reports the top of that book.  Only an AddOrder or a   *)
(* Trade carries a symbol; the other events name an order, and the manager *)
(* finds the book through order_to_symbol_.  Events arrive in any order    *)
(* and number: the feed is UDP and the stages before this one drop events  *)
(* when a queue is full.                                                   *)
(***************************************************************************)
EXTENDS OrderBook

CONSTANTS
    Symbol,     \* the traded symbols
    SymbolsOf   \* the symbols under which the feed adds an order id

ASSUME SymbolAssumption ==
    /\ None \notin Symbol
    /\ SymbolsOf \in [OrderId -> SUBSET Symbol]

VARIABLES
    books,              \* books_: None where no book has been created
    order_to_symbol,    \* order_to_symbol_
    update              \* the BookUpdate that process returned, None for BookUpdate{}

vars == <<books, order_to_symbol, update>>

Init ==
    /\ books = [s \in Symbol |-> None]
    /\ order_to_symbol = [id \in OrderId |-> None]
    /\ update = None

(* get_or_create                                                           *)
GetOrCreate(s) == IF books[s] = None THEN EmptyBook ELSE books[s]

(* make_update                                                             *)
MakeUpdate(s, book) ==
    [symbol |-> s, bid |-> Best(book, "Buy"), ask |-> Best(book, "Sell")]

SetBook(s, book) ==
    /\ books' = [books EXCEPT ![s] = book]
    /\ update' = MakeUpdate(s, book)

Ignore == update' = None /\ UNCHANGED <<books, order_to_symbol>>

-----------------------------------------------------------------------------
(* process, one action per kind of event.                                  *)

ProcessAdd(id, s, side, price, qty) ==
    /\ order_to_symbol' = [order_to_symbol EXCEPT ![id] = s]
    /\ SetBook(s, AddOrder(GetOrCreate(s), id, side, price, qty))

(* The book an event about an order goes to, None when there is none.      *)
Routed(id) ==
    IF order_to_symbol[id] # None /\ books[order_to_symbol[id]] # None
    THEN order_to_symbol[id] ELSE None

ProcessCancel(id) ==
    LET s == Routed(id) IN
    IF s = None THEN Ignore
    ELSE /\ SetBook(s, CancelOrder(books[s], id))
         /\ order_to_symbol' = [order_to_symbol EXCEPT ![id] = None]

(* Mutant of ProcessExecute: every execution drops the route.              *)
ProcessExecuteDropsRoute(id, qty) ==
    LET s == Routed(id) IN
    IF s = None THEN Ignore
    ELSE /\ SetBook(s, ExecuteOrder(books[s], id, qty))
         /\ order_to_symbol' = [order_to_symbol EXCEPT ![id] = None]

(* A filled order keeps its entry in order_to_symbol_.                     *)
ProcessExecute(id, qty) ==
    LET s == Routed(id) IN
    IF s = None THEN Ignore
    ELSE /\ SetBook(s, ExecuteOrder(books[s], id, qty))
         /\ UNCHANGED order_to_symbol

ProcessReplace(id, price, qty) ==
    LET s == Routed(id) IN
    IF s = None THEN Ignore
    ELSE /\ SetBook(s, ReplaceOrder(books[s], id, price, qty))
         /\ UNCHANGED order_to_symbol

(* A trade report creates the book and changes no order.                   *)
ProcessTrade(s) ==
    /\ SetBook(s, GetOrCreate(s))
    /\ UNCHANGED order_to_symbol

Reset ==
    /\ books' = [s \in Symbol |-> None]
    /\ order_to_symbol' = [id \in OrderId |-> None]
    /\ update' = None

Next ==
    \/ \E id \in OrderId, side \in Side, price \in Price, qty \in Quantity :
            \E s \in SymbolsOf[id] : ProcessAdd(id, s, side, price, qty)
    \/ \E id \in OrderId : ProcessCancel(id)
    \/ \E id \in OrderId, qty \in Quantity : ProcessExecute(id, qty)
    \/ \E id \in OrderId, price \in Price, qty \in Quantity : ProcessReplace(id, price, qty)
    \/ \E s \in Symbol : ProcessTrade(s)
    \/ Reset

Spec == Init /\ [][Next]_vars

-----------------------------------------------------------------------------
TypeOK ==
    /\ books \in [Symbol -> Book \cup {None}]
    /\ order_to_symbol \in [OrderId -> Symbol \cup {None}]
    /\ update \in [symbol : Symbol, bid : Top \cup {None}, ask : Top \cup {None}] \cup {None}

Live == {s \in Symbol : books[s] # None}

(* Whatever arrives, every price level counts the orders that rest at its  *)
(* price: none is left behind by an execution, a replacement or a refused  *)
(* duplicate, so no phantom level becomes the best price                   *)
(* (order_book.cpp:11-88).                                                 *)
LevelCounts == \A s \in Live : CountsMatch(books[s])

(* The total of every level is the sum of what its orders have left,       *)
(* although PriceLevel::remove clamps at zero instead of failing           *)
(* (price_level.hpp:20-24).                                                *)
LevelTotals == \A s \in Live : TotalsMatch(books[s])

(* The top of book sent to the consumers is the best price at which an     *)
(* order rests in the event's book, and there is one as long as an order   *)
(* rests on that side (book_manager.cpp:114-137).                          *)
BestOfOrders(orders, side, top) ==
    LET prices == {p \in Price : RestingAt(orders, side, p) # {}}
    IN  IF prices = {} THEN top = None
        ELSE /\ top # None
             /\ top.price \in prices
             /\ \A p \in prices \ {top.price} : Better(side, top.price, p)

UpdateIsTop ==
    update # None =>
        /\ books[update.symbol] # None
        /\ BestOfOrders(books[update.symbol].orders, "Buy", update.bid)
        /\ BestOfOrders(books[update.symbol].orders, "Sell", update.ask)

(* Every resting order can be reached by the events that name it: the      *)
(* route leads to its book.  This needs the exchange to use the id for one *)
(* symbol only: adding it again under another symbol moves the route even  *)
(* when the first order still rests (book_manager.cpp:14).                 *)
OneSymbol(id) == \A s, t \in SymbolsOf[id] : s = t

RestingIsRouted ==
    \A s \in Live, id \in OrderId :
        OneSymbol(id) /\ books[s].orders[id] # None => order_to_symbol[id] = s

=============================================================================
