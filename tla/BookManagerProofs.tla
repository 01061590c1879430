------------------------- MODULE BookManagerProofs -------------------------
(***************************************************************************)
(* The invariants of the handler's books, for any sets of orders, prices   *)
(* and symbols.  First a single book: each operation of the class keeps    *)
(* the price levels in step with the orders.  Then the manager: the        *)
(* inductive invariant is that the state is well-typed and every book      *)
(* counts its orders.                                                      *)
(***************************************************************************)
EXTENDS BookManager, FiniteSetTheorems, WellFoundedInduction, TLAPS

Orders == [OrderId -> Order \cup {None}]

(* Whether an entry of the store is an order that rests at a price, as a   *)
(* number, and how many shares it has there.                               *)
OrdersHere(order, side, price) ==
    IF order # None /\ order.side = side /\ order.price = price THEN 1 ELSE 0

SharesHere(order, side, price) ==
    IF order # None /\ order.side = side /\ order.price = price THEN order.qty ELSE 0

(* The orders and the shares at a price are finitely many.                 *)
LEMMA FiniteAt ==
    ASSUME NEW f \in Orders, NEW s \in Side, NEW p \in Price
    PROVE  /\ IsFiniteSet(RestingAt(f, s, p))
           /\ Cardinality(RestingAt(f, s, p)) \in Nat
           /\ IsFiniteSet(SharesAt(f, s, p))
           /\ Cardinality(SharesAt(f, s, p)) \in Nat
<1>1. RestingAt(f, s, p) \in SUBSET OrderId
  BY Zenon DEF RestingAt
<1>2. SharesAt(f, s, p) \in SUBSET (OrderId \X (1 .. MaxQuantity))
  BY Zenon DEF SharesAt
<1>3. IsFiniteSet(OrderId \X (1 .. MaxQuantity))
  <2>1. IsFiniteSet(1 .. MaxQuantity)
    BY QuantityAssumption, FS_Interval
  <2> QED BY Zenon, <2>1, OrderIdAssumption, FS_Product
<1> QED
  BY Zenon, <1>1, <1>2, <1>3, OrderIdAssumption, FS_Subset, FS_CardinalityType

(* Changing the entry of one id changes the number of orders at a price by *)
(* what that entry was and has become.                                     *)
LEMMA CountChange ==
    ASSUME NEW f \in Orders, NEW g \in Orders, NEW id \in OrderId,
           \A j \in OrderId \ {id} : f[j] = g[j],
           NEW s \in Side, NEW p \in Price
    PROVE  Cardinality(RestingAt(g, s, p)) =
             Cardinality(RestingAt(f, s, p)) - OrdersHere(f[id], s, p) + OrdersHere(g[id], s, p)
<1> DEFINE Rest == RestingAt(f, s, p) \ {id}
<1>1. ASSUME NEW h \in Orders, RestingAt(h, s, p) \ {id} = Rest
      PROVE  Cardinality(RestingAt(h, s, p)) = Cardinality(Rest) + OrdersHere(h[id], s, p)
  <2>1. IsFiniteSet(RestingAt(h, s, p)) /\ Cardinality(RestingAt(h, s, p)) \in Nat
    BY Zenon, FiniteAt
  <2>2. id \in RestingAt(h, s, p) <=> OrdersHere(h[id], s, p) = 1
    BY DEF RestingAt, OrdersHere
  <2>3. OrdersHere(h[id], s, p) \in {0, 1}
    BY Zenon DEF OrdersHere
  <2>4. Cardinality(RestingAt(h, s, p) \ {id}) =
           IF id \in RestingAt(h, s, p) THEN Cardinality(RestingAt(h, s, p)) - 1
           ELSE Cardinality(RestingAt(h, s, p))
    BY Zenon, <2>1, FS_RemoveElement
  <2>5. Cardinality(RestingAt(h, s, p) \ {id}) = Cardinality(Rest)
    BY Zenon, <1>1
  <2> HIDE DEF Rest
  <2>6. CASE OrdersHere(h[id], s, p) = 1
    BY <2>1, <2>2, <2>4, <2>5, <2>6
  <2>7. CASE OrdersHere(h[id], s, p) = 0
    BY <2>1, <2>2, <2>4, <2>5, <2>7
  <2> QED BY Zenon, <2>3, <2>6, <2>7
<1>2. RestingAt(g, s, p) \ {id} = Rest
  BY Zenon DEF RestingAt
<1>3. Cardinality(Rest) \in Nat
  BY Zenon, FiniteAt, FS_RemoveElement, FS_CardinalityType
<1>4. OrdersHere(f[id], s, p) \in Nat /\ OrdersHere(g[id], s, p) \in Nat
  BY Zenon DEF OrdersHere
<1>5. /\ Cardinality(RestingAt(f, s, p)) = Cardinality(Rest) + OrdersHere(f[id], s, p)
      /\ Cardinality(RestingAt(g, s, p)) = Cardinality(Rest) + OrdersHere(g[id], s, p)
  BY Zenon, <1>1, <1>2
<1> HIDE DEF Rest
<1> QED BY <1>3, <1>4, <1>5

(* The same for the shares.                                                *)
LEMMA SharesChange ==
    ASSUME NEW f \in Orders, NEW g \in Orders, NEW id \in OrderId,
           \A j \in OrderId \ {id} : f[j] = g[j],
           NEW s \in Side, NEW p \in Price
    PROVE  Cardinality(SharesAt(g, s, p)) =
             Cardinality(SharesAt(f, s, p)) - SharesHere(f[id], s, p) + SharesHere(g[id], s, p)
<1> DEFINE Rest == {share \in SharesAt(f, s, p) : share[1] # id}
           Own(h) == {id} \X (1 .. SharesHere(h[id], s, p))
<1>1. ASSUME NEW h \in Orders
      PROVE  SharesHere(h[id], s, p) \in 0 .. MaxQuantity
  BY QuantityAssumption DEF SharesHere, Orders, Order, Quantity
<1>2. IsFiniteSet(Rest) /\ Cardinality(Rest) \in Nat
  BY Zenon, FiniteAt, FS_Subset, FS_CardinalityType
<1>3. ASSUME NEW h \in Orders
      PROVE  IsFiniteSet(Own(h)) /\ Cardinality(Own(h)) = SharesHere(h[id], s, p)
  <2> DEFINE n == SharesHere(h[id], s, p)
  <2>1. n \in Nat
    BY <1>1, QuantityAssumption
  <2> HIDE DEF n
  <2>2. IsFiniteSet(1 .. n) /\ Cardinality(1 .. n) = n
    <3>1. 1 \in Int /\ n \in Int
      BY <2>1
    <3>2. IsFiniteSet(1 .. n) /\ Cardinality(1 .. n) = IF 1 > n THEN 0 ELSE n - 1 + 1
      BY Zenon, <3>1, FS_Interval
    <3> QED BY <2>1, <3>2
  <2>3. IsFiniteSet({id}) /\ Cardinality({id}) = 1
    BY Zenon, FS_Singleton
  <2>4. /\ IsFiniteSet({id} \X (1 .. n))
        /\ Cardinality({id} \X (1 .. n)) = Cardinality({id}) * Cardinality(1 .. n)
    BY Zenon, <2>2, <2>3, FS_Product
  <2> QED BY <2>1, <2>2, <2>3, <2>4 DEF n
<1>4. ASSUME NEW h \in Orders, \A j \in OrderId \ {id} : f[j] = h[j]
      PROVE  Cardinality(SharesAt(h, s, p)) = Cardinality(Rest) + SharesHere(h[id], s, p)
  <2>1. SharesAt(h, s, p) = Rest \cup Own(h)
    <3>1. ASSUME NEW x \in SharesAt(h, s, p)
          PROVE  x \in Rest \cup Own(h)
      BY <1>4, <3>1 DEF SharesAt, RestingAt, SharesHere, Orders, Order, Quantity
    <3>2. ASSUME NEW x \in Rest
          PROVE  x \in SharesAt(h, s, p)
      BY Zenon, <1>4, <3>2 DEF SharesAt, RestingAt
    <3>3. ASSUME NEW x \in Own(h)
          PROVE  x \in SharesAt(h, s, p)
      BY <1>1, <3>3, QuantityAssumption DEF SharesAt, RestingAt, SharesHere, Orders, Order, Quantity
    <3> QED BY Zenon, <3>1, <3>2, <3>3
  <2>2. Rest \cap Own(h) = {}
    BY Zenon
  <2>3. SharesHere(h[id], s, p) \in Nat
    BY <1>1, QuantityAssumption
  <2> HIDE DEF Rest, Own
  <2>4. Cardinality(Rest \cup Own(h)) = Cardinality(Rest) + Cardinality(Own(h)) - 0
    BY <1>2, <1>3, <2>2, FS_Union, FS_EmptySet
  <2> QED BY <1>2, <1>3, <2>1, <2>3, <2>4
<1>5. SharesHere(f[id], s, p) \in Nat /\ SharesHere(g[id], s, p) \in Nat
  BY <1>1, QuantityAssumption
<1>6. /\ Cardinality(SharesAt(f, s, p)) = Cardinality(Rest) + SharesHere(f[id], s, p)
      /\ Cardinality(SharesAt(g, s, p)) = Cardinality(Rest) + SharesHere(g[id], s, p)
  BY Zenon, <1>4
<1> HIDE DEF Rest, Own
<1> QED BY <1>2, <1>5, <1>6

-----------------------------------------------------------------------------
(* A total that stays below 2^32 does not wrap, and one that wraps is      *)
(* still a 32-bit number.                                                  *)
LEMMA Modulo ==
    /\ \A x \in Int : x % QuantityRange \in 0 .. QuantityRange - 1
    /\ \A x \in 0 .. QuantityRange - 1 : x % QuantityRange = x
  BY QuantityAssumption

(* A new Order has the fields it is built from. *)
LEMMA MakeOrderType ==
    ASSUME NEW side \in Side, NEW price \in Price, NEW qty \in Quantity
    PROVE  /\ MakeOrder(side, price, qty) \in Order
           /\ MakeOrder(side, price, qty) # None
           /\ MakeOrder(side, price, qty).side = side
           /\ MakeOrder(side, price, qty).price = price
           /\ MakeOrder(side, price, qty).qty = qty
  BY NoneAssumption DEF MakeOrder, Order

(* Updating the level of one price.                                        *)
LEMMA LevelsExcept ==
    ASSUME NEW levels \in [Side -> [Price -> Level]],
           NEW side \in Side, NEW price \in Price, NEW level \in Level
    PROVE  /\ [levels EXCEPT ![side][price] = level] \in [Side -> [Price -> Level]]
           /\ \A s \in Side, p \in Price :
                [levels EXCEPT ![side][price] = level][s][p] =
                    IF s = side /\ p = price THEN level ELSE levels[s][p]
  BY Zenon

(* What the operations on a level produce is a level.                      *)
LEMMA LevelOperations ==
    ASSUME NEW level \in Level, NEW qty \in Quantity, NEW filled \in BOOLEAN
    PROVE  /\ LevelAdd(level, qty) \in Level
           /\ LevelRemove(level, qty) \in Level
           /\ LevelExecute(level, qty, filled) \in Level
<1>1. level.qty \in 0 .. QuantityRange - 1 /\ level.count \in Nat /\ qty \in Nat
  BY QuantityAssumption DEF Level, Quantity
<1>2. NoLevel \in Level
  BY QuantityAssumption DEF NoLevel, Level
<1>3. (level.qty + qty) % QuantityRange \in 0 .. QuantityRange - 1
  <2> DEFINE x == level.qty + qty
  <2>1. x \in Int
    BY <1>1, QuantityAssumption
  <2> HIDE DEF x
  <2>2. x % QuantityRange \in 0 .. QuantityRange - 1
    BY Zenon, <2>1, Modulo
  <2> QED BY Zenon, <2>2 DEF x
<1>4. (level.qty - qty) % QuantityRange \in 0 .. QuantityRange - 1
  <2> DEFINE x == level.qty - qty
  <2>1. x \in Int
    BY <1>1, QuantityAssumption
  <2> HIDE DEF x
  <2>2. x % QuantityRange \in 0 .. QuantityRange - 1
    BY Zenon, <2>1, Modulo
  <2> QED BY Zenon, <2>2 DEF x
<1>5. LevelAdd(level, qty) \in Level
  BY <1>1, <1>3 DEF LevelAdd, Level
<1>6. LevelRemove(level, qty) \in Level
  BY <1>1, <1>2, QuantityAssumption DEF LevelRemove, Level
<1>7. LevelExecute(level, qty, filled) \in Level
  BY <1>1, <1>2, <1>4, QuantityAssumption DEF LevelExecute, Level
<1> QED BY Zenon, <1>5, <1>6, <1>7

(* The level of a resting order counts it.                                 *)
LEMMA RestingHasLevel ==
    ASSUME NEW b \in Book, CountsMatch(b), NEW id \in OrderId, b.orders[id] # None
    PROVE  b.levels[b.orders[id].side][b.orders[id].price].count >= 1
<1> DEFINE o == b.orders[id]
<1>1. b.orders \in Orders /\ o \in Order /\ o.side \in Side /\ o.price \in Price
  BY Zenon DEF Book, Orders, Order
<1>2. id \in RestingAt(b.orders, o.side, o.price)
  BY Zenon DEF RestingAt
<1>3. /\ Cardinality(RestingAt(b.orders, o.side, o.price)) # 0
      /\ Cardinality(RestingAt(b.orders, o.side, o.price)) \in Nat
  BY Zenon, <1>1, <1>2, FiniteAt, FS_EmptySet
<1> HIDE DEF o
<1>4. b.levels[o.side][o.price].count = Cardinality(RestingAt(b.orders, o.side, o.price))
  BY Zenon, <1>1 DEF CountsMatch
<1> QED BY <1>3, <1>4 DEF o

(* A book whose counts were right, and of which one entry and the counts   *)
(* it takes part in have changed together, has the right counts.           *)
LEMMA CountsStep ==
    ASSUME NEW b \in Book, CountsMatch(b), NEW c \in Book, NEW id \in OrderId,
           \A j \in OrderId \ {id} : b.orders[j] = c.orders[j],
           \A s \in Side, p \in Price :
              /\ c.levels[s][p].count = b.levels[s][p].count
                     - OrdersHere(b.orders[id], s, p) + OrdersHere(c.orders[id], s, p)
              /\ c.levels[s][p].count = 0 => c.levels[s][p] = NoLevel
    PROVE  CountsMatch(c)
<1>1. b.orders \in Orders /\ c.orders \in Orders
  BY Zenon DEF Book, Orders
<1>2. ASSUME NEW s \in Side, NEW p \in Price
      PROVE  c.levels[s][p].count = Cardinality(RestingAt(c.orders, s, p))
  <2>1. b.levels[s][p].count = Cardinality(RestingAt(b.orders, s, p))
    BY Zenon DEF CountsMatch
  <2>2. Cardinality(RestingAt(c.orders, s, p)) = Cardinality(RestingAt(b.orders, s, p))
            - OrdersHere(b.orders[id], s, p) + OrdersHere(c.orders[id], s, p)
    BY Zenon, <1>1, CountChange
  <2> QED BY Zenon, <2>1, <2>2
<1> QED BY Zenon, <1>2 DEF CountsMatch

(* The book with one entry of the store and one level replaced.            *)
Changed(b, id, entry, side, price, level) ==
    [orders |-> [b.orders EXCEPT ![id] = entry],
     levels |-> [b.levels EXCEPT ![side][price] = level]]

(* A changed book differs from the old one in one order and one level. *)
LEMMA ChangedBook ==
    ASSUME NEW b \in Book, NEW id \in OrderId, NEW entry \in Order \cup {None},
           NEW side \in Side, NEW price \in Price, NEW level \in Level
    PROVE  LET c == Changed(b, id, entry, side, price, level) IN
           /\ c \in Book
           /\ c.orders[id] = entry
           /\ \A j \in OrderId \ {id} : b.orders[j] = c.orders[j]
           /\ \A s \in Side, p \in Price :
                c.levels[s][p] = IF s = side /\ p = price THEN level ELSE b.levels[s][p]
<1> DEFINE c == Changed(b, id, entry, side, price, level)
<1>1. b.orders \in [OrderId -> Order \cup {None}] /\ b.levels \in [Side -> [Price -> Level]]
  BY Zenon DEF Book
<1>2. c.orders = [b.orders EXCEPT ![id] = entry]
  BY Zenon DEF Changed
<1>3. c.levels = [b.levels EXCEPT ![side][price] = level]
  BY Zenon DEF Changed
<1>4. c.orders \in [OrderId -> Order \cup {None}]
  BY Zenon, <1>1, <1>2
<1>5. /\ c.levels \in [Side -> [Price -> Level]]
      /\ \A s \in Side, p \in Price :
            c.levels[s][p] = IF s = side /\ p = price THEN level ELSE b.levels[s][p]
  BY <1>1, <1>3, LevelsExcept
<1>6. c = [orders |-> c.orders, levels |-> c.levels]
  BY Zenon DEF Changed
<1>7. c \in Book
  BY Zenon, <1>4, <1>5, <1>6 DEF Book
<1>8. c.orders[id] = entry /\ \A j \in OrderId \ {id} : b.orders[j] = c.orders[j]
  BY Zenon, <1>1, <1>2
<1> QED BY Zenon, <1>5, <1>7, <1>8

(* Changing an entry keeps the counts right when its level is changed by   *)
(* what the entry was and has become, and no other level is concerned.     *)
LEMMA ChangedCounts ==
    ASSUME NEW b \in Book, CountsMatch(b),
           NEW id \in OrderId, NEW entry \in Order \cup {None},
           NEW side \in Side, NEW price \in Price, NEW level \in Level,
           level.count = b.levels[side][price].count
               - OrdersHere(b.orders[id], side, price) + OrdersHere(entry, side, price),
           level.count = 0 => level = NoLevel,
           \A s \in Side, p \in Price : (s # side \/ p # price) =>
               OrdersHere(b.orders[id], s, p) = OrdersHere(entry, s, p)
    PROVE  CountsMatch(Changed(b, id, entry, side, price, level))
<1> DEFINE c == Changed(b, id, entry, side, price, level)
<1>1. /\ c \in Book
      /\ c.orders[id] = entry
      /\ \A j \in OrderId \ {id} : b.orders[j] = c.orders[j]
      /\ \A s \in Side, p \in Price :
            c.levels[s][p] = IF s = side /\ p = price THEN level ELSE b.levels[s][p]
  BY ChangedBook
<1> HIDE DEF c
<1>2. ASSUME NEW s \in Side, NEW p \in Price
      PROVE  /\ c.levels[s][p].count = b.levels[s][p].count
                   - OrdersHere(b.orders[id], s, p) + OrdersHere(c.orders[id], s, p)
             /\ c.levels[s][p].count = 0 => c.levels[s][p] = NoLevel
  <2>1. CASE s = side /\ p = price
    BY Zenon, <1>1, <2>1
  <2>2. CASE s # side \/ p # price
    <3>1. b.levels[s][p].count \in Nat /\ (b.levels[s][p].count = 0 => b.levels[s][p] = NoLevel)
      BY Zenon DEF Book, Level, CountsMatch
    <3>2. OrdersHere(entry, s, p) \in Nat
      BY Zenon DEF OrdersHere
    <3>3. c.levels[s][p] = b.levels[s][p]
      BY Zenon, <1>1, <2>2
    <3>4. OrdersHere(b.orders[id], s, p) = OrdersHere(c.orders[id], s, p)
      BY Zenon, <1>1, <2>2
    <3> QED BY <1>1, <3>1, <3>2, <3>3, <3>4
  <2> QED BY Zenon, <2>1, <2>2
<1> QED BY Zenon, <1>1, <1>2, CountsStep DEF c

(* The entry of an order counts once, at its own price.                    *)
LEMMA HereOnce ==
    ASSUME NEW o \in Order, NEW s \in Side, NEW p \in Price
    PROVE  /\ OrdersHere(o, s, p) = IF s = o.side /\ p = o.price THEN 1 ELSE 0
           /\ SharesHere(o, s, p) = IF s = o.side /\ p = o.price THEN o.qty ELSE 0
           /\ OrdersHere(None, s, p) = 0
           /\ SharesHere(None, s, p) = 0
  BY Zenon, NoneAssumption DEF OrdersHere, SharesHere

-----------------------------------------------------------------------------
(* What the operations do, in terms of Changed.                            *)

(* OrderBook::add_order changes one order and adds to one level. *)
LEMMA AddIsChange ==
    ASSUME NEW b \in Book, NEW id \in OrderId, b.orders[id] = None,
           NEW side \in Side, NEW price \in Price, NEW qty \in Quantity
    PROVE  /\ MakeOrder(side, price, qty) \in Order
           /\ LevelAdd(b.levels[side][price], qty) \in Level
           /\ AddOrder(b, id, side, price, qty) =
                Changed(b, id, MakeOrder(side, price, qty),
                        side, price, LevelAdd(b.levels[side][price], qty))
<1>1. b.levels[side][price] \in Level
  BY Zenon DEF Book
<1> QED BY Zenon, <1>1, LevelOperations, MakeOrderType DEF AddOrder, AddToSide, Changed

(* OrderBook::cancel_order removes one order and takes it from its level. *)
LEMMA CancelIsChange ==
    ASSUME NEW b \in Book, NEW id \in OrderId, b.orders[id] # None
    PROVE  LET o == b.orders[id] IN
           /\ o \in Order
           /\ b.levels[o.side][o.price] \in Level
           /\ LevelRemove(b.levels[o.side][o.price], o.qty) \in Level
           /\ CancelOrder(b, id) =
                Changed(b, id, None, o.side, o.price,
                        LevelRemove(b.levels[o.side][o.price], o.qty))
<1>1. b.orders[id] \in Order
  BY Zenon DEF Book
<1>2. b.levels[b.orders[id].side][b.orders[id].price] \in Level /\ b.orders[id].qty \in Quantity
  BY <1>1 DEF Book, Order
<1> QED BY Zenon, <1>1, <1>2, LevelOperations DEF CancelOrder, RemoveFromSide, Changed

(* add_order keeps the counts: a refused duplicate changes nothing.        *)
LEMMA AddKeepsCounts ==
    ASSUME NEW b \in Book, CountsMatch(b), NEW id \in OrderId,
           NEW side \in Side, NEW price \in Price, NEW qty \in Quantity
    PROVE  /\ AddOrder(b, id, side, price, qty) \in Book
           /\ CountsMatch(AddOrder(b, id, side, price, qty))
<1>1. CASE b.orders[id] # None
  BY Zenon, <1>1 DEF AddOrder
<1>2. CASE b.orders[id] = None
  <2> DEFINE o == MakeOrder(side, price, qty)
             l == LevelAdd(b.levels[side][price], qty)
  <2>1. /\ o \in Order /\ o.side = side /\ o.price = price
        /\ l \in Level
        /\ AddOrder(b, id, side, price, qty) = Changed(b, id, o, side, price, l)
    BY <1>2, AddIsChange, MakeOrderType
  <2>2. b.levels[side][price].count \in Nat /\ l.count = b.levels[side][price].count + 1
    BY Zenon DEF LevelAdd, Book, Level
  <2> HIDE DEF o, l
  <2>3. \A s \in Side, p \in Price :
          /\ OrdersHere(b.orders[id], s, p) = 0
          /\ OrdersHere(o, s, p) = IF s = side /\ p = price THEN 1 ELSE 0
    BY Zenon, <1>2, <2>1, HereOnce
  <2>4. /\ l.count = b.levels[side][price].count
               - OrdersHere(b.orders[id], side, price) + OrdersHere(o, side, price)
        /\ l.count # 0
    BY <2>2, <2>3
  <2>5. \A s \in Side, p \in Price : (s # side \/ p # price) =>
           OrdersHere(b.orders[id], s, p) = OrdersHere(o, s, p)
    BY Zenon, <2>3
  <2> QED BY <2>1, <2>4, <2>5, ChangedBook, ChangedCounts
<1> QED BY Zenon, <1>1, <1>2

(* cancel_order keeps the counts.                                          *)
LEMMA CancelKeepsCounts ==
    ASSUME NEW b \in Book, CountsMatch(b), NEW id \in OrderId
    PROVE  /\ CancelOrder(b, id) \in Book
           /\ CountsMatch(CancelOrder(b, id))
<1>1. CASE b.orders[id] = None
  BY Zenon, <1>1 DEF CancelOrder
<1>2. CASE b.orders[id] # None
  <2> DEFINE o == b.orders[id]
             k == b.levels[o.side][o.price]
             l == LevelRemove(k, o.qty)
  <2>1. /\ o \in Order /\ o.side \in Side /\ o.price \in Price
        /\ k \in Level /\ l \in Level
        /\ CancelOrder(b, id) = Changed(b, id, None, o.side, o.price, l)
    BY <1>2, CancelIsChange DEF Order
  <2>2. k.count \in Nat /\ k.count >= 1
    BY Zenon, <1>2, <2>1, RestingHasLevel DEF Level
  <2>3. l.count = k.count - 1 /\ (l.count = 0 => l = NoLevel)
    <3> HIDE DEF k, o
    <3> QED BY <2>2 DEF LevelRemove, NoLevel
  <2>4. \A s \in Side, p \in Price :
          /\ OrdersHere(o, s, p) = IF s = o.side /\ p = o.price THEN 1 ELSE 0
          /\ OrdersHere(None, s, p) = 0
    BY Zenon, <2>1, HereOnce
  <2>5. OrdersHere(o, o.side, o.price) = 1 /\ OrdersHere(None, o.side, o.price) = 0
    BY Zenon, <2>1, <2>4
  <2>6. l.count = k.count - OrdersHere(o, o.side, o.price) + OrdersHere(None, o.side, o.price)
    <3> HIDE DEF l, k, o
    <3> QED BY <2>2, <2>3, <2>5
  <2>7. \A s \in Side, p \in Price : (s # o.side \/ p # o.price) =>
           OrdersHere(o, s, p) = OrdersHere(None, s, p)
    BY Zenon, <2>4
  <2> HIDE DEF l
  <2>8. Changed(b, id, None, o.side, o.price, l) \in Book
    <3> HIDE DEF o
    <3>1. None \in Order \cup {None}
      OBVIOUS
    <3> QED BY Zenon, <2>1, <3>1, ChangedBook
  <2>9. CountsMatch(Changed(b, id, None, o.side, o.price, l))
    BY Zenon, <2>1, <2>3, <2>6, <2>7, ChangedCounts
  <2> QED BY Zenon, <2>1, <2>8, <2>9
<1> QED BY Zenon, <1>1, <1>2

(* What execute_order does to an order that has enough left: the filled    *)
(* order leaves the store, which needs its level to exist.                 *)
LEMMA ExecuteIsChange ==
    ASSUME NEW b \in Book, CountsMatch(b), NEW id \in OrderId, b.orders[id] # None,
           NEW qty \in Quantity, qty # 0, qty <= b.orders[id].qty
    PROVE  LET o == b.orders[id]
               filled == qty = o.qty
               entry == IF filled THEN None ELSE MakeOrder(o.side, o.price, o.qty - qty)
               level == LevelExecute(b.levels[o.side][o.price], qty, filled)
           IN  /\ o \in Order
               /\ entry \in Order \cup {None}
               /\ b.levels[o.side][o.price] \in Level
               /\ level \in Level
               /\ ExecuteOrder(b, id, qty) = Changed(b, id, entry, o.side, o.price, level)
<1> DEFINE o == b.orders[id]
           k == b.levels[o.side][o.price]
           filled == qty = o.qty
<1>1. o \in Order
  BY Zenon DEF Book
<1>2. k \in Level /\ o.qty \in Quantity
  BY <1>1 DEF Book, Order
<1>3. LevelExecute(k, qty, filled) \in Level
  <2>1. filled \in BOOLEAN
    BY Zenon
  <2> HIDE DEF k, filled
  <2> QED BY Zenon, <1>2, <2>1, LevelOperations
<1>4. k.count > 0
  <2>1. k.count >= 1 /\ k.count \in Nat
    BY Zenon, <1>2, RestingHasLevel DEF Level
  <2> HIDE DEF k
  <2> QED BY <2>1
<1>5. MakeOrder(o.side, o.price, o.qty - qty) \in Order
  <2>1. o.qty - qty \in Quantity
    BY <1>2, QuantityAssumption DEF Quantity
  <2> QED BY Zenon, <1>1, <2>1, MakeOrderType DEF Order
<1>6. ~(o = None \/ qty = 0 \/ qty > o.qty)
  BY <1>2, QuantityAssumption DEF Quantity
<1>7. ExecuteOrder(b, id, qty) =
        Changed(b, id, IF filled THEN None ELSE MakeOrder(o.side, o.price, o.qty - qty),
                o.side, o.price, LevelExecute(k, qty, filled))
  BY Zenon, <1>4, <1>6 DEF ExecuteOrder, Changed
<1> QED BY Zenon, <1>1, <1>2, <1>3, <1>5, <1>7

(* execute_order keeps the counts.                                         *)
LEMMA ExecuteKeepsCounts ==
    ASSUME NEW b \in Book, CountsMatch(b), NEW id \in OrderId, NEW qty \in Quantity
    PROVE  /\ ExecuteOrder(b, id, qty) \in Book
           /\ CountsMatch(ExecuteOrder(b, id, qty))
<1>1. CASE b.orders[id] = None \/ qty = 0 \/ qty > b.orders[id].qty
  BY Zenon, <1>1 DEF ExecuteOrder
<1>2. CASE ~(b.orders[id] = None \/ qty = 0 \/ qty > b.orders[id].qty)
  <2> DEFINE o == b.orders[id]
             k == b.levels[o.side][o.price]
             filled == qty = o.qty
             e == IF filled THEN None ELSE MakeOrder(o.side, o.price, o.qty - qty)
             l == LevelExecute(k, qty, filled)
  <2>0. /\ o # None /\ o \in Order /\ o.side \in Side /\ o.price \in Price
        /\ o.qty \in Quantity /\ qty # 0 /\ qty <= o.qty /\ o.qty - qty \in Quantity
    BY <1>2, QuantityAssumption DEF Quantity, Book, Order
  <2>1. /\ e \in Order \cup {None}
        /\ k \in Level /\ l \in Level
        /\ ExecuteOrder(b, id, qty) = Changed(b, id, e, o.side, o.price, l)
    BY Zenon, <2>0, ExecuteIsChange
  <2>2. k.count \in Nat /\ k.count >= 1
    BY Zenon, <2>0, <2>1, RestingHasLevel DEF Level
  <2>3. /\ l.count = IF filled THEN k.count - 1 ELSE k.count
        /\ l.count = 0 => l = NoLevel
    <3> HIDE DEF k, o, filled
    <3> QED BY <2>2 DEF LevelExecute, NoLevel
  <2>4. \A s \in Side, p \in Price :
          /\ OrdersHere(o, s, p) = IF s = o.side /\ p = o.price THEN 1 ELSE 0
          /\ filled => OrdersHere(e, s, p) = 0
          /\ ~filled => OrdersHere(e, s, p) = OrdersHere(o, s, p)
    <3> HIDE DEF o, filled
    <3>1. ~filled => e \in Order /\ e.side = o.side /\ e.price = o.price
      BY <2>0, MakeOrderType
    <3>2. filled => e = None
      BY Zenon
    <3> HIDE DEF e
    <3> QED BY <2>0, <3>1, <3>2, HereOnce
  <2>5. l.count = k.count - OrdersHere(o, o.side, o.price) + OrdersHere(e, o.side, o.price)
    <3>1. /\ OrdersHere(o, o.side, o.price) = 1
          /\ OrdersHere(e, o.side, o.price) = IF filled THEN 0 ELSE 1
      <4> HIDE DEF o, e, filled
      <4> QED BY Zenon, <2>0, <2>4
    <3> HIDE DEF l, k, o, e, filled
    <3> QED BY <2>2, <2>3, <3>1
  <2>6. \A s \in Side, p \in Price : (s # o.side \/ p # o.price) =>
           OrdersHere(o, s, p) = OrdersHere(e, s, p)
    <3> HIDE DEF e, filled
    <3> QED BY Zenon, <2>4
  <2> HIDE DEF l, e
  <2>7. CountsMatch(Changed(b, id, e, o.side, o.price, l))
    BY Zenon, <2>0, <2>1, <2>3, <2>5, <2>6, ChangedCounts
  <2>8. Changed(b, id, e, o.side, o.price, l) \in Book
    <3> HIDE DEF o
    <3> QED BY Zenon, <2>0, <2>1, ChangedBook
  <2> QED BY Zenon, <2>1, <2>7, <2>8
<1> QED BY <1>1, <1>2

(* replace_order is a cancel followed by an add of the same id on the same *)
(* side, so it keeps what they keep.                                       *)
LEMMA ReplaceIsCancelAdd ==
    ASSUME NEW b \in Book, NEW id \in OrderId, b.orders[id] # None,
           NEW price \in Price, NEW qty \in Quantity
    PROVE  /\ b.orders[id].side \in Side
           /\ ReplaceOrder(b, id, price, qty) =
                AddOrder(CancelOrder(b, id), id, b.orders[id].side, price, qty)
<1> DEFINE o == b.orders[id]
           c == CancelOrder(b, id)
<1>1. o \in Order
  BY Zenon DEF Book
<1>4. b.orders \in [OrderId -> Order \cup {None}]
  BY Zenon DEF Book
<1>5. /\ c.orders = [b.orders EXCEPT ![id] = None]
      /\ c.levels = RemoveFromSide(b.levels, o.side, o.price, o.qty)
  BY Zenon DEF CancelOrder
<1>6. c.orders[id] = None
  BY Zenon, <1>4, <1>5
<1>7. [c.orders EXCEPT ![id] = MakeOrder(o.side, price, qty)] =
      [b.orders EXCEPT ![id] = MakeOrder(o.side, price, qty)]
  BY Zenon, <1>4, <1>5
<1>8. ReplaceOrder(b, id, price, qty) =
        [orders |-> [b.orders EXCEPT ![id] = MakeOrder(o.side, price, qty)],
         levels |-> AddToSide(RemoveFromSide(b.levels, o.side, o.price, o.qty),
                              o.side, price, qty)]
  BY Zenon DEF ReplaceOrder
<1>9. AddOrder(c, id, o.side, price, qty) =
        [orders |-> [c.orders EXCEPT ![id] = MakeOrder(o.side, price, qty)],
         levels |-> AddToSide(c.levels, o.side, price, qty)]
  <2> HIDE DEF c, o
  <2> QED BY Zenon, <1>6 DEF AddOrder
<1> HIDE DEF c
<1> QED BY Zenon, <1>1, <1>5, <1>7, <1>8, <1>9 DEF Order, c

(* OrderBook::replace_order keeps the number of orders of every level. *)
LEMMA ReplaceKeepsCounts ==
    ASSUME NEW b \in Book, CountsMatch(b), NEW id \in OrderId,
           NEW price \in Price, NEW qty \in Quantity
    PROVE  /\ ReplaceOrder(b, id, price, qty) \in Book
           /\ CountsMatch(ReplaceOrder(b, id, price, qty))
<1>1. CASE b.orders[id] = None
  BY Zenon, <1>1 DEF ReplaceOrder
<1>2. CASE b.orders[id] # None
  BY Zenon, <1>2, ReplaceIsCancelAdd, CancelKeepsCounts, AddKeepsCounts
<1> QED BY Zenon, <1>1, <1>2

-----------------------------------------------------------------------------
(* When one entry changes, the shares at a price change with it; what they *)
(* become is a natural number and is bounded by what all orders can have.  *)
LEMMA NewTotal ==
    ASSUME NEW b \in Book, TotalsMatch(b), NEW c \in Book, NEW id \in OrderId,
           \A j \in OrderId \ {id} : b.orders[j] = c.orders[j],
           NEW s \in Side, NEW p \in Price
    PROVE  /\ Cardinality(SharesAt(c.orders, s, p)) = b.levels[s][p].qty
                  - SharesHere(b.orders[id], s, p) + SharesHere(c.orders[id], s, p)
           /\ Cardinality(SharesAt(c.orders, s, p)) \in Nat
           /\ Cardinality(SharesAt(c.orders, s, p)) <= Cardinality(OrderId) * MaxQuantity
<1>1. b.orders \in Orders /\ c.orders \in Orders
  BY Zenon DEF Book, Orders
<1>2. b.levels[s][p].qty = Cardinality(SharesAt(b.orders, s, p))
  BY Zenon DEF TotalsMatch
<1>3. Cardinality(SharesAt(c.orders, s, p)) = Cardinality(SharesAt(b.orders, s, p))
          - SharesHere(b.orders[id], s, p) + SharesHere(c.orders[id], s, p)
  BY Zenon, <1>1, SharesChange
<1>4. SharesAt(c.orders, s, p) \in SUBSET (OrderId \X (1 .. MaxQuantity))
  BY Zenon DEF SharesAt
<1>5. IsFiniteSet(1 .. MaxQuantity) /\ Cardinality(1 .. MaxQuantity) = MaxQuantity
  <2>1. 1 \in Int /\ MaxQuantity \in Int
    BY QuantityAssumption
  <2>2. /\ IsFiniteSet(1 .. MaxQuantity)
        /\ Cardinality(1 .. MaxQuantity) = IF 1 > MaxQuantity THEN 0 ELSE MaxQuantity - 1 + 1
    BY Zenon, <2>1, FS_Interval
  <2> QED BY <2>2, QuantityAssumption
<1>6. /\ IsFiniteSet(OrderId \X (1 .. MaxQuantity))
      /\ Cardinality(OrderId \X (1 .. MaxQuantity)) = Cardinality(OrderId) * MaxQuantity
  BY Zenon, <1>5, OrderIdAssumption, FS_Product
<1>7. Cardinality(SharesAt(c.orders, s, p)) <= Cardinality(OrderId) * MaxQuantity
  BY Zenon, <1>4, <1>6, FS_Subset
<1> QED BY Zenon, <1>1, <1>2, <1>3, <1>7, FiniteAt

(* Changing an entry keeps the totals right when the total of its level is *)
(* changed by what the entry had and has, and the counts are right.  A     *)
(* level that loses its last order needs no condition: no share is left.   *)
LEMMA ChangedTotals ==
    ASSUME NEW b \in Book, TotalsMatch(b),
           NEW id \in OrderId, NEW entry \in Order \cup {None},
           NEW side \in Side, NEW price \in Price, NEW level \in Level,
           CountsMatch(Changed(b, id, entry, side, price, level)),
           level.count # 0 =>
               level.qty = b.levels[side][price].qty
                   - SharesHere(b.orders[id], side, price) + SharesHere(entry, side, price),
           \A s \in Side, p \in Price : (s # side \/ p # price) =>
               SharesHere(b.orders[id], s, p) = SharesHere(entry, s, p)
    PROVE  TotalsMatch(Changed(b, id, entry, side, price, level))
<1> DEFINE c == Changed(b, id, entry, side, price, level)
<1>1. /\ c \in Book
      /\ c.orders[id] = entry
      /\ \A j \in OrderId \ {id} : b.orders[j] = c.orders[j]
      /\ \A s \in Side, p \in Price :
            c.levels[s][p] = IF s = side /\ p = price THEN level ELSE b.levels[s][p]
  BY ChangedBook
<1>2. CountsMatch(c)
  BY Zenon
<1> HIDE DEF c
<1>3. ASSUME NEW s \in Side, NEW p \in Price
      PROVE  c.levels[s][p].qty = Cardinality(SharesAt(c.orders, s, p))
  <2>1. Cardinality(SharesAt(c.orders, s, p)) = b.levels[s][p].qty
            - SharesHere(b.orders[id], s, p) + SharesHere(entry, s, p)
    BY Zenon, <1>1, NewTotal
  <2>2. CASE s = side /\ p = price /\ level.count # 0
    BY Zenon, <1>1, <2>1, <2>2
  <2>3. CASE s = side /\ p = price /\ level.count = 0
    <3>1. Cardinality(RestingAt(c.orders, s, p)) = 0 /\ c.levels[s][p] = NoLevel
      BY <1>1, <1>2, <2>3 DEF CountsMatch
    <3>2. c.orders \in Orders
      BY Zenon, <1>1 DEF Book, Orders
    <3>3. RestingAt(c.orders, s, p) = {}
      BY Zenon, <3>1, <3>2, FiniteAt, FS_EmptySet
    <3>4. SharesAt(c.orders, s, p) = {}
      BY Zenon, <3>3 DEF SharesAt
    <3> QED BY <3>1, <3>4, FS_EmptySet DEF NoLevel
  <2>4. CASE s # side \/ p # price
    <3>1. SharesHere(b.orders[id], s, p) = SharesHere(entry, s, p)
      BY Zenon, <2>4
    <3>2. SharesHere(entry, s, p) \in Nat
      BY QuantityAssumption DEF SharesHere, Order, Quantity
    <3>3. b.levels[s][p].qty \in Nat /\ c.levels[s][p] = b.levels[s][p]
      BY <1>1, <2>4, QuantityAssumption DEF Book, Level
    <3> QED BY <2>1, <3>1, <3>2, <3>3
  <2> QED BY Zenon, <2>2, <2>3, <2>4
<1>4. TotalsMatch(c)
  BY Zenon, <1>3 DEF TotalsMatch
<1> QED BY Zenon, <1>4 DEF c

(* add_order keeps the totals when none can reach 2^32.                    *)
LEMMA AddKeepsTotals ==
    ASSUME NoWrap, NEW b \in Book, CountsMatch(b), TotalsMatch(b), NEW id \in OrderId,
           NEW side \in Side, NEW price \in Price, NEW qty \in Quantity
    PROVE  TotalsMatch(AddOrder(b, id, side, price, qty))
<1>1. CASE b.orders[id] # None
  BY Zenon, <1>1 DEF AddOrder
<1>2. CASE b.orders[id] = None
  <2> DEFINE o == MakeOrder(side, price, qty)
             k == b.levels[side][price]
             l == LevelAdd(k, qty)
             c == Changed(b, id, o, side, price, l)
  <2>1. /\ o \in Order /\ o.side = side /\ o.price = price /\ o.qty = qty
        /\ l \in Level
        /\ AddOrder(b, id, side, price, qty) = c
    BY <1>2, AddIsChange, MakeOrderType
  <2>2. k.qty \in Nat /\ qty \in Nat
    BY QuantityAssumption DEF Book, Level, Quantity
  <2>3. \A s \in Side, p \in Price :
          /\ SharesHere(b.orders[id], s, p) = 0
          /\ SharesHere(o, s, p) = IF s = side /\ p = price THEN qty ELSE 0
    <3> HIDE DEF o
    <3> QED BY Zenon, <1>2, <2>1, HereOnce
  <2>4. k.qty + qty < QuantityRange
    <3>1. c \in Book /\ c.orders[id] = o /\ \A j \in OrderId \ {id} : b.orders[j] = c.orders[j]
      <4> HIDE DEF o, l
      <4> QED BY <2>1, ChangedBook
    <3>2. /\ Cardinality(SharesAt(c.orders, side, price)) = k.qty - 0 + qty
          /\ Cardinality(SharesAt(c.orders, side, price)) <= Cardinality(OrderId) * MaxQuantity
      <4> HIDE DEF o, l, c
      <4> QED BY <2>3, <3>1, NewTotal
    <3>3. Cardinality(OrderId) * MaxQuantity \in Nat
      BY OrderIdAssumption, QuantityAssumption, FS_CardinalityType
    <3> HIDE DEF c, k
    <3> QED BY <2>2, <3>2, <3>3, QuantityAssumption DEF NoWrap
  <2>5. l.qty = k.qty - SharesHere(b.orders[id], side, price) + SharesHere(o, side, price)
    <3>1. l.qty = k.qty + qty
      <4> HIDE DEF k
      <4>1. k.qty + qty \in 0 .. QuantityRange - 1
        BY <2>2, <2>4, QuantityAssumption
      <4> QED BY Zenon, <4>1, Modulo DEF LevelAdd
    <3> HIDE DEF k, l, o
    <3> QED BY <2>2, <2>3, <3>1
  <2>6. CountsMatch(c)
    <3> HIDE DEF c
    <3> QED BY Zenon, <2>1, AddKeepsCounts
  <2>7. \A s \in Side, p \in Price : (s # side \/ p # price) =>
           SharesHere(b.orders[id], s, p) = SharesHere(o, s, p)
    BY Zenon, <2>3
  <2>8. TotalsMatch(Changed(b, id, o, side, price, l))
    <3> HIDE DEF o, l
    <3> QED BY <2>1, <2>5, <2>6, <2>7, ChangedTotals
  <2> QED BY Zenon, <2>1, <2>8
<1> QED BY Zenon, <1>1, <1>2

(* cancel_order keeps the totals: the clamp in PriceLevel::remove never    *)
(* takes effect.                                                           *)
LEMMA CancelKeepsTotals ==
    ASSUME NEW b \in Book, CountsMatch(b), TotalsMatch(b), NEW id \in OrderId
    PROVE  TotalsMatch(CancelOrder(b, id))
<1>1. CASE b.orders[id] = None
  BY <1>1 DEF CancelOrder
<1>2. CASE b.orders[id] # None
  <2> DEFINE o == b.orders[id]
             k == b.levels[o.side][o.price]
             l == LevelRemove(k, o.qty)
             c == Changed(b, id, None, o.side, o.price, l)
  <2>1. /\ o \in Order /\ o.side \in Side /\ o.price \in Price /\ o.qty \in Nat
        /\ k \in Level /\ k.qty \in Nat /\ k.count \in Nat /\ l \in Level
        /\ CancelOrder(b, id) = c
    <3>1. /\ o \in Order /\ k \in Level /\ l \in Level
          /\ CancelOrder(b, id) = c
      BY Zenon, <1>2, CancelIsChange
    <3>2. o.side \in Side /\ o.price \in Price /\ o.qty \in Nat
      <4> HIDE DEF o
      <4> QED BY <3>1, QuantityAssumption DEF Order, Quantity
    <3>3. k.qty \in Nat /\ k.count \in Nat
      <4> HIDE DEF k
      <4> QED BY <3>1, QuantityAssumption DEF Level
    <3> QED BY Zenon, <3>1, <3>2, <3>3
  <2>2. \A s \in Side, p \in Price :
          /\ SharesHere(o, s, p) = IF s = o.side /\ p = o.price THEN o.qty ELSE 0
          /\ SharesHere(None, s, p) = 0
    <3> HIDE DEF o
    <3> QED BY Zenon, <2>1, HereOnce
  <2>3. k.qty >= o.qty
    <3>1. c \in Book /\ c.orders[id] = None /\ \A j \in OrderId \ {id} : b.orders[j] = c.orders[j]
      <4> DEFINE sd == o.side
                 pr == o.price
      <4>1. None \in Order \cup {None} /\ sd \in Side /\ pr \in Price /\ l \in Level
        BY Zenon, <2>1
      <4> HIDE DEF o, l, sd, pr
      <4>2. LET d == Changed(b, id, None, sd, pr, l) IN
            d \in Book /\ d.orders[id] = None /\ \A j \in OrderId \ {id} : b.orders[j] = d.orders[j]
        BY <4>1, ChangedBook
      <4> QED BY <4>2 DEF sd, pr
    <3>2. /\ Cardinality(SharesAt(c.orders, o.side, o.price)) = k.qty - o.qty + 0
          /\ Cardinality(SharesAt(c.orders, o.side, o.price)) \in Nat
      <4>1. /\ SharesHere(b.orders[id], o.side, o.price) = o.qty
            /\ SharesHere(c.orders[id], o.side, o.price) = 0
        <5> HIDE DEF c
        <5> QED BY Zenon, <2>1, <2>2, <3>1
      <4> DEFINE sd == o.side
                 pr == o.price
      <4>2. sd \in Side /\ pr \in Price
        BY Zenon, <2>1
      <4> HIDE DEF c, sd, pr
      <4>3. /\ Cardinality(SharesAt(c.orders, sd, pr)) = b.levels[sd][pr].qty
                  - SharesHere(b.orders[id], sd, pr) + SharesHere(c.orders[id], sd, pr)
            /\ Cardinality(SharesAt(c.orders, sd, pr)) \in Nat
        BY <3>1, <4>2, NewTotal
      <4> QED BY Zenon, <4>1, <4>3 DEF sd, pr
    <3> HIDE DEF c, k, o
    <3> QED BY <2>1, <3>2
  <2>4. l.count # 0 =>
          l.qty = k.qty - SharesHere(o, o.side, o.price) + SharesHere(None, o.side, o.price)
    <3>1. l.count # 0 => l.qty = k.qty - o.qty
      <4> HIDE DEF k, o
      <4> QED BY <2>1, <2>3 DEF LevelRemove, NoLevel
    <3> HIDE DEF k, l, o
    <3> QED BY <2>1, <2>2, <3>1
  <2>5. CountsMatch(c)
    <3> HIDE DEF c
    <3> QED BY Zenon, <2>1, CancelKeepsCounts
  <2>6. \A s \in Side, p \in Price : (s # o.side \/ p # o.price) =>
           SharesHere(o, s, p) = SharesHere(None, s, p)
    BY <2>2
  <2>7. TotalsMatch(Changed(b, id, None, o.side, o.price, l))
    <3>1. None \in Order \cup {None}
      BY Zenon
    <3> HIDE DEF l
    <3> QED BY Zenon, <2>1, <2>4, <2>5, <2>6, <3>1, ChangedTotals
  <2> QED BY Zenon, <2>1, <2>7
<1> QED BY Zenon, <1>1, <1>2

(* execute_order keeps the totals: its subtraction never goes below zero.  *)
LEMMA ExecuteKeepsTotals ==
    ASSUME NEW b \in Book, CountsMatch(b), TotalsMatch(b), NEW id \in OrderId,
           NEW qty \in Quantity
    PROVE  TotalsMatch(ExecuteOrder(b, id, qty))
<1>1. CASE b.orders[id] = None \/ qty = 0 \/ qty > b.orders[id].qty
  BY Zenon, <1>1 DEF ExecuteOrder
<1>2. CASE ~(b.orders[id] = None \/ qty = 0 \/ qty > b.orders[id].qty)
  <2> DEFINE o == b.orders[id]
             k == b.levels[o.side][o.price]
             filled == qty = o.qty
             e == IF filled THEN None ELSE MakeOrder(o.side, o.price, o.qty - qty)
             l == LevelExecute(k, qty, filled)
             c == Changed(b, id, e, o.side, o.price, l)
  <2>0. /\ o # None /\ o \in Order /\ o.side \in Side /\ o.price \in Price
        /\ o.qty \in Quantity /\ qty # 0 /\ qty <= o.qty /\ o.qty - qty \in Quantity
        /\ o.qty \in Nat /\ qty \in Nat
    BY <1>2, QuantityAssumption DEF Quantity, Book, Order
  <2>1. /\ e \in Order \cup {None}
        /\ k \in Level /\ l \in Level
        /\ ExecuteOrder(b, id, qty) = c
    BY Zenon, <2>0, ExecuteIsChange
  <2>2. k.qty \in 0 .. QuantityRange - 1 /\ k.count \in Nat
    BY Zenon, <2>1, QuantityAssumption DEF Level
  <2>3. \A s \in Side, p \in Price :
          /\ SharesHere(o, s, p) = IF s = o.side /\ p = o.price THEN o.qty ELSE 0
          /\ SharesHere(e, s, p) = IF s = o.side /\ p = o.price THEN o.qty - qty ELSE 0
    <3> HIDE DEF o
    <3>1. ~filled => /\ e \in Order /\ e.side = o.side /\ e.price = o.price
                     /\ e.qty = o.qty - qty
      BY <2>0, MakeOrderType
    <3>2. filled => e = None /\ o.qty - qty = 0
      BY <2>0
    <3> HIDE DEF e, filled
    <3> QED BY <2>0, <3>1, <3>2, HereOnce
  <2>4. k.qty >= qty
    <3>1. c \in Book /\ c.orders[id] = e /\ \A j \in OrderId \ {id} : b.orders[j] = c.orders[j]
      <4> DEFINE sd == o.side
                 pr == o.price
      <4>1. sd \in Side /\ pr \in Price /\ l \in Level /\ e \in Order \cup {None}
        BY Zenon, <2>0, <2>1
      <4> HIDE DEF o, l, e, sd, pr
      <4>2. LET d == Changed(b, id, e, sd, pr, l) IN
            d \in Book /\ d.orders[id] = e /\ \A j \in OrderId \ {id} : b.orders[j] = d.orders[j]
        BY <4>1, ChangedBook
      <4> QED BY Zenon, <4>2 DEF sd, pr
    <3>2. /\ Cardinality(SharesAt(c.orders, o.side, o.price)) = k.qty - o.qty + (o.qty - qty)
          /\ Cardinality(SharesAt(c.orders, o.side, o.price)) \in Nat
      <4>1. /\ SharesHere(b.orders[id], o.side, o.price) = o.qty
            /\ SharesHere(c.orders[id], o.side, o.price) = o.qty - qty
        <5> HIDE DEF c, e
        <5> QED BY Zenon, <2>0, <2>3, <3>1
      <4> HIDE DEF c, e
      <4> QED BY <2>0, <3>1, <4>1, NewTotal
    <3> HIDE DEF c, k, o
    <3> QED BY <2>0, <2>2, <3>2, QuantityAssumption
  <2>5. l.count # 0 =>
          l.qty = k.qty - SharesHere(o, o.side, o.price) + SharesHere(e, o.side, o.price)
    <3>1. k.qty - qty \in 0 .. QuantityRange - 1
      <4> HIDE DEF k
      <4> QED BY <2>0, <2>2, <2>4, QuantityAssumption
    <3>2. l.count # 0 => l.qty = k.qty - qty
      <4> HIDE DEF k, o, filled
      <4> QED BY Zenon, <2>2, <3>1, Modulo DEF LevelExecute, NoLevel
    <3> HIDE DEF k, l, o, e
    <3> QED BY <2>0, <2>2, <2>3, <3>2, QuantityAssumption
  <2>6. CountsMatch(c)
    <3> HIDE DEF c
    <3> QED BY Zenon, <2>1, ExecuteKeepsCounts
  <2>7. \A s \in Side, p \in Price : (s # o.side \/ p # o.price) =>
           SharesHere(o, s, p) = SharesHere(e, s, p)
    <3> HIDE DEF e
    <3> QED BY Zenon, <2>3
  <2>8. TotalsMatch(Changed(b, id, e, o.side, o.price, l))
    <3> HIDE DEF l, e
    <3> QED BY Zenon, <2>0, <2>1, <2>5, <2>6, <2>7, ChangedTotals
  <2> QED BY Zenon, <2>1, <2>8
<1> QED BY <1>1, <1>2

(* OrderBook::replace_order keeps the total of every level. *)
LEMMA ReplaceKeepsTotals ==
    ASSUME NoWrap, NEW b \in Book, CountsMatch(b), TotalsMatch(b), NEW id \in OrderId,
           NEW price \in Price, NEW qty \in Quantity
    PROVE  TotalsMatch(ReplaceOrder(b, id, price, qty))
<1>1. CASE b.orders[id] = None
  BY Zenon, <1>1 DEF ReplaceOrder
<1>2. CASE b.orders[id] # None
  BY Zenon, <1>2, ReplaceIsCancelAdd, CancelKeepsCounts, CancelKeepsTotals, AddKeepsTotals
<1> QED BY Zenon, <1>1, <1>2

(* A new book has no orders and no levels.                                 *)
LEMMA EmptyBookMatches ==
    EmptyBook \in Book /\ CountsMatch(EmptyBook) /\ TotalsMatch(EmptyBook)
<1>1. EmptyBook \in Book
  BY QuantityAssumption DEF EmptyBook, Book, Level, NoLevel
<1>2. ASSUME NEW s \in Side, NEW p \in Price
      PROVE  /\ RestingAt(EmptyBook.orders, s, p) = {}
             /\ SharesAt(EmptyBook.orders, s, p) = {}
             /\ EmptyBook.levels[s][p] = NoLevel
  BY Zenon DEF EmptyBook, RestingAt, SharesAt
<1>3. NoLevel.qty = 0 /\ NoLevel.count = 0
  BY Zenon DEF NoLevel
<1>4. CountsMatch(EmptyBook)
  BY Zenon, <1>2, <1>3, FS_EmptySet DEF CountsMatch
<1>5. TotalsMatch(EmptyBook)
  BY Zenon, <1>2, <1>3, FS_EmptySet DEF TotalsMatch
<1> QED BY Zenon, <1>1, <1>4, <1>5

-----------------------------------------------------------------------------
(* What one operation does to the orders of a book. *)
Positive == Quantity \ {0}

(* c differs from b in the order id at most, which is e in c. *)
OnlyEntry(b, c, id, e) ==
    /\ \A j \in OrderId \ {id} : c.orders[j] = b.orders[j]
    /\ c.orders[id] = e

(* What add_order leaves in the orders of a book. *)
LEMMA EntryAdded ==
    ASSUME NEW b \in Book, NEW id \in OrderId, b.orders[id] = None,
           NEW side, NEW price, NEW qty, NEW c, c = AddOrder(b, id, side, price, qty)
    PROVE  OnlyEntry(b, c, id, [side |-> side, price |-> price, qty |-> qty])
<1>1. b.orders \in [OrderId -> Order \cup {None}]
  BY Zenon DEF Book
<1>2. c.orders = [b.orders EXCEPT ![id] = [side |-> side, price |-> price, qty |-> qty]]
  BY Zenon DEF AddOrder, MakeOrder
<1> QED
  BY Zenon, <1>1, <1>2 DEF OnlyEntry

(* What cancel_order leaves in the orders of a book. *)
LEMMA EntryCancelled ==
    ASSUME NEW b \in Book, NEW id \in OrderId, NEW c, c = CancelOrder(b, id)
    PROVE  OnlyEntry(b, c, id, None)
<1>1. b.orders \in [OrderId -> Order \cup {None}]
  BY Zenon DEF Book
<1>2. c.orders = IF b.orders[id] = None THEN b.orders ELSE [b.orders EXCEPT ![id] = None]
  BY Zenon DEF CancelOrder
<1> QED
  BY Zenon, <1>1, <1>2 DEF OnlyEntry

Replaced(o, price, qty) ==
    IF o = None THEN None ELSE [side |-> o.side, price |-> price, qty |-> qty]

(* What replace_order leaves in the orders of a book. *)
LEMMA EntryReplaced ==
    ASSUME NEW b \in Book, NEW id \in OrderId, NEW price, NEW qty,
           NEW c, c = ReplaceOrder(b, id, price, qty)
    PROVE  OnlyEntry(b, c, id, Replaced(b.orders[id], price, qty))
<1>1. b.orders \in [OrderId -> Order \cup {None}]
  BY Zenon DEF Book
<1>2. c.orders = IF b.orders[id] = None THEN b.orders
                 ELSE [b.orders EXCEPT
                         ![id] = [side |-> b.orders[id].side, price |-> price, qty |-> qty]]
  BY Zenon DEF ReplaceOrder, MakeOrder
<1> QED
  BY Zenon, <1>1, <1>2 DEF OnlyEntry, Replaced

Executed(o, qty) ==
    IF o = None \/ qty > o.qty THEN o
    ELSE IF qty = o.qty THEN None
    ELSE [side |-> o.side, price |-> o.price, qty |-> o.qty - qty]

(* A filled order has a level, so that execute_order takes it out of the store. *)
LEMMA EntryExecuted ==
    ASSUME NEW b \in Book, CountsMatch(b), NEW id \in OrderId,
           NEW qty \in Positive, NEW c, c = ExecuteOrder(b, id, qty)
    PROVE  OnlyEntry(b, c, id, Executed(b.orders[id], qty))
<1> DEFINE o == b.orders[id]
<1>1. b.orders \in [OrderId -> Order \cup {None}]
  BY Zenon DEF Book
<1>2. qty \in Nat /\ qty # 0
  BY QuantityAssumption DEF Positive, Quantity
<1>3. CASE o = None \/ qty > o.qty
  BY <1>1, <1>3, Zenon DEF ExecuteOrder, Executed, OnlyEntry
<1>4. CASE o # None /\ ~(qty > o.qty)
  <2>1. b.levels[o.side][o.price].count >= 1
    BY Zenon, <1>4, RestingHasLevel
  <2>2. b.levels[o.side][o.price].count \in Nat
    <3>1. o.side \in Side /\ o.price \in Price
      BY Zenon, <1>1, <1>4 DEF Order
    <3> QED
      BY Zenon, <3>1 DEF Book, Level
  <2>3. \A n \in Nat : n >= 1 => n > 0
    OBVIOUS
  <2>4. b.levels[o.side][o.price].count > 0
    BY <2>1, <2>2, <2>3, Zenon
  <2>5. c.orders = [b.orders EXCEPT
                      ![id] = IF qty = o.qty THEN None
                              ELSE [side |-> o.side, price |-> o.price, qty |-> o.qty - qty]]
    BY <1>2, <1>4, <2>4, Zenon DEF ExecuteOrder, MakeOrder
  <2> QED
    BY Zenon, <1>1, <1>4, <2>5 DEF Executed, OnlyEntry
<1> QED
  BY Zenon, <1>3, <1>4

-----------------------------------------------------------------------------
(* An order that rests with something left, and the order together with    *)
(* the symbol of its book, as an event about it sees it.                   *)
Resting == [side : Side, price : Price, qty : Positive]

Seen(s, o) ==
    IF o = None THEN None
    ELSE [symbol |-> s, side |-> o.side, price |-> o.price, qty |-> o.qty]

(* What a Replace message and an Execute message make of an order. *)
Renewed(o, price, qty) ==
    [symbol |-> o.symbol, side |-> o.side, price |-> price, qty |-> qty]

Left(o, qty) ==
    IF qty > o.qty THEN o
    ELSE IF qty = o.qty THEN None
    ELSE [symbol |-> o.symbol, side |-> o.side, price |-> o.price, qty |-> o.qty - qty]

(* What an execution leaves of an order, in the book and as it is seen. *)
LEMMA SeenLeft ==
    ASSUME NEW s, NEW o \in Resting, NEW qty \in Positive, NEW r,
           r = Executed(o, qty)
    PROVE  /\ r \in Resting \cup {None}
           /\ Seen(s, r) = Left(Seen(s, o), qty)
<1>1. o.side \in Side /\ o.price \in Price /\ o.qty \in Positive
  BY Zenon DEF Resting
<1>2. Resting \subseteq Order
  BY Zenon, QuantityAssumption DEF Resting, Order, Quantity, Positive
<1>3. None \notin Resting
  BY Zenon, <1>2, NoneAssumption
<1>4. Seen(s, o) = [symbol |-> s, side |-> o.side, price |-> o.price, qty |-> o.qty]
  BY Zenon, <1>3 DEF Seen
<1>5. Seen(s, o).qty = o.qty /\ Seen(s, o).side = o.side /\ Seen(s, o).price = o.price
      /\ Seen(s, o).symbol = s
  BY <1>4
<1>6. CASE qty > o.qty
  BY Zenon, <1>5, <1>6 DEF Left, Executed
<1>7. CASE qty = o.qty
  <2>1. ~(qty > o.qty)
    BY <1>1, <1>7, QuantityAssumption DEF Positive, Quantity
  <2> QED
    BY <1>3, <1>5, <1>7, <2>1, Zenon DEF Left, Seen, Executed
<1>8. CASE ~(qty > o.qty) /\ qty # o.qty
  <2>1. o.qty - qty \in Positive
    BY <1>1, <1>8, QuantityAssumption DEF Positive, Quantity
  <2>2. r = [side |-> o.side, price |-> o.price, qty |-> o.qty - qty]
    BY <1>3, <1>8, Zenon DEF Executed
  <2>3. r \in Resting
    BY <1>1, <2>1, <2>2 DEF Resting
  <2>4. Seen(s, r) = [symbol |-> s, side |-> o.side, price |-> o.price, qty |-> o.qty - qty]
    BY <1>3, <2>2, <2>3 DEF Seen
  <2>5. Left(Seen(s, o), qty)
          = [symbol |-> s, side |-> o.side, price |-> o.price, qty |-> o.qty - qty]
    BY <1>5, <1>8, Zenon DEF Left
  <2> QED
    BY <2>3, <2>4, <2>5, Zenon
<1> QED
  BY Zenon, <1>6, <1>7, <1>8

(* What a replacement leaves of an order, in the book and as it is seen. *)
LEMMA SeenRenewed ==
    ASSUME NEW s, NEW o \in Resting, NEW price \in Price, NEW qty \in Positive, NEW r,
           r = [side |-> o.side, price |-> price, qty |-> qty]
    PROVE  /\ r \in Resting
           /\ Seen(s, r) = Renewed(Seen(s, o), price, qty)
<1>1. Resting \subseteq Order
  BY Zenon, QuantityAssumption DEF Resting, Order, Quantity, Positive
<1>2. None \notin Resting
  BY Zenon, <1>1, NoneAssumption
<1>3. r \in Resting
  BY Zenon DEF Resting
<1>4. Seen(s, o) = [symbol |-> s, side |-> o.side, price |-> o.price, qty |-> o.qty]
  BY <1>2, Zenon DEF Seen
<1>5. Seen(s, o).symbol = s /\ Seen(s, o).side = o.side
  BY <1>4
<1>6. r.side = o.side /\ r.price = price /\ r.qty = qty
  BY Zenon
<1>7. Seen(s, r) = [symbol |-> s, side |-> o.side, price |-> price, qty |-> qty]
  BY <1>2, <1>3, <1>6, Zenon DEF Seen
<1> QED
  BY <1>3, <1>5, <1>7, Zenon DEF Renewed

-----------------------------------------------------------------------------
(* A non-empty set of prices has a best one.  Were there a set without, a  *)
(* smallest one would exist; taking a price out of it leaves a set with a  *)
(* best price, and the better of the two is best.                          *)
LEMMA BestExists ==
    ASSUME NEW side \in Side, NEW T \in SUBSET Price, T # {}
    PROVE  \E p \in T : \A q \in T \ {p} : Better(side, p, q)
<1> DEFINE HasBest(S) == \E p \in S : \A q \in S \ {p} : Better(side, p, q)
           Bad == {S \in SUBSET Price : S # {} /\ ~ HasBest(S)}
           Sizes == {n \in Nat : \E S \in Bad : Cardinality(S) = n}
<1>1. ASSUME NEW S \in SUBSET Price
      PROVE  IsFiniteSet(S) /\ Cardinality(S) \in Nat
  BY Zenon, PriceAssumption, FS_Subset, FS_CardinalityType
<1>2. SUFFICES ASSUME T \in Bad PROVE FALSE
  BY Zenon
<1>3. Sizes # {} /\ Sizes \subseteq Nat
  BY Zenon, <1>1, <1>2
<1>4. PICK n \in Sizes : \A m \in Sizes : ~ (<<m, n>> \in OpToRel(<, Nat))
  <2> HIDE DEF Sizes
  <2> QED BY Zenon, <1>3, NatLessThanWellFounded, WFMin
<1>5. \A m \in Sizes : ~ (m < n)
  BY Zenon, <1>4 DEF OpToRel
<1>6. PICK S \in Bad : Cardinality(S) = n
  BY Zenon
<1>7. PICK x \in S : TRUE
  BY Zenon
<1> DEFINE R == S \ {x}
<1>8. Cardinality(R) = n - 1 /\ Cardinality(R) \in Nat /\ n \in Nat /\ R \in SUBSET Price
  <2>1. IsFiniteSet(S) /\ S \in SUBSET Price
    BY Zenon, <1>1
  <2>2. Cardinality(R) = Cardinality(S) - 1
    BY Zenon, <2>1, FS_RemoveElement
  <2>3. R \in SUBSET Price
    BY Zenon, <2>1
  <2>4. Cardinality(R) \in Nat
    <3> HIDE DEF R
    <3> QED BY Zenon, <2>3, <1>1
  <2> QED BY Zenon, <1>6, <2>2, <2>3, <2>4
<1>9. R \notin Bad
  <2> HIDE DEF R, Bad
  <2>1. R \in Bad => Cardinality(R) \in Sizes
    BY Zenon, <1>8
  <2> QED BY <1>5, <1>8, <2>1
<1>10. S \subseteq Nat /\ x \in Nat
  BY Zenon, PriceAssumption
<1>11. CASE R = {}
  BY Zenon, <1>11
<1>12. CASE R # {}
  <2>1. PICK y \in R : \A q \in R \ {y} : Better(side, y, q)
    BY Zenon, <1>8, <1>9, <1>12
  <2>2. y \in S /\ y # x /\ y \in Nat
    BY Zenon, <1>10
  <2>3. CASE Better(side, x, y)
    <3>1. \A q \in S \ {x} : Better(side, x, q)
      BY <1>10, <2>1, <2>2, <2>3 DEF Better
    <3> QED BY Zenon, <3>1
  <2>4. CASE ~ Better(side, x, y)
    <3>1. \A q \in S \ {y} : Better(side, y, q)
      BY <1>10, <2>1, <2>2, <2>4 DEF Better
    <3> QED BY Zenon, <2>2, <3>1
  <2> QED BY Zenon, <2>3, <2>4
<1> QED BY Zenon, <1>11, <1>12

(* The top of a book that counts its orders is the best price of an order. *)
LEMMA BestIsTop ==
    ASSUME NEW b \in Book, CountsMatch(b), NEW side \in Side
    PROVE  /\ Best(b, side) \in Top \cup {None}
           /\ BestOfOrders(b.orders, side, Best(b, side))
<1> DEFINE keys == {p \in Price : b.levels[side][p].count > 0}
           prices == {p \in Price : RestingAt(b.orders, side, p) # {}}
<1>1. ASSUME NEW p \in Price
      PROVE  b.levels[side][p].count > 0 <=> RestingAt(b.orders, side, p) # {}
  <2>1. b.orders \in Orders
    BY Zenon DEF Book, Orders
  <2>2. IsFiniteSet(RestingAt(b.orders, side, p)) /\ Cardinality(RestingAt(b.orders, side, p)) \in Nat
    BY Zenon, <2>1, FiniteAt
  <2>3. Cardinality(RestingAt(b.orders, side, p)) = 0 <=> RestingAt(b.orders, side, p) = {}
    BY Zenon, <2>2, FS_EmptySet
  <2>4. b.levels[side][p].count = Cardinality(RestingAt(b.orders, side, p))
    BY Zenon DEF CountsMatch
  <2> QED BY <2>2, <2>3, <2>4
<1>2. keys = prices
  BY Zenon, <1>1
<1>3. CASE keys = {}
  <2>1. Best(b, side) = None
    BY Zenon, <1>3 DEF Best
  <2> QED BY Zenon, <1>2, <1>3, <2>1 DEF BestOfOrders
<1>4. CASE keys # {}
  <2> DEFINE top == CHOOSE p \in keys : \A q \in keys \ {p} : Better(side, p, q)
  <2>1. \E p \in keys : \A q \in keys \ {p} : Better(side, p, q)
    <3> HIDE DEF keys
    <3>1. keys \in SUBSET Price
      BY Zenon DEF keys
    <3> QED BY Zenon, <1>4, <3>1, BestExists
  <2>2. top \in keys /\ \A q \in keys \ {top} : Better(side, top, q)
    BY <2>1, Zenon
  <2>3. Best(b, side) = [price |-> top, qty |-> b.levels[side][top].qty]
    BY Zenon, <1>4 DEF Best
  <2>4. top \in Price
    BY Zenon, <2>2
  <2>5. b.levels[side][top].qty \in 0 .. QuantityRange - 1
    <3> HIDE DEF top
    <3> QED BY Zenon, <2>4 DEF Book, Level
  <2> HIDE DEF top
  <2>6. Best(b, side) \in Top /\ Best(b, side).price = top
    BY <2>3, <2>4, <2>5 DEF Top
  <2>7. Best(b, side) # None
    BY Zenon, <2>6, NoneAssumption
  <2> QED BY Zenon, <1>2, <1>4, <2>2, <2>6, <2>7 DEF BestOfOrders
<1> QED BY Zenon, <1>3, <1>4

-----------------------------------------------------------------------------
(* Putting a book that counts its orders in its place, and reporting its   *)
(* top, keeps everything but the routes.                                   *)
LEMMA SetBookKeeps ==
    ASSUME TypeOK, LevelCounts, NEW s \in Symbol, NEW b \in Book, CountsMatch(b),
           SetBook(s, b)
    PROVE  /\ books' \in [Symbol -> Book \cup {None}]
           /\ update' \in [symbol : Symbol, bid : Top \cup {None}, ask : Top \cup {None}] \cup {None}
           /\ LevelCounts'
           /\ UpdateIsTop'
<1>1. b # None
  BY Zenon, NoneAssumption
<1>2. /\ books' \in [Symbol -> Book \cup {None}]
      /\ books'[s] = b
      /\ \A t \in Symbol \ {s} : books'[t] = books[t]
  BY Zenon DEF SetBook, TypeOK
<1>3. LevelCounts'
  BY Zenon, <1>2 DEF LevelCounts, Live
<1> DEFINE bid == Best(b, "Buy")
           ask == Best(b, "Sell")
<1>4. /\ bid \in Top \cup {None} /\ BestOfOrders(b.orders, "Buy", bid)
      /\ ask \in Top \cup {None} /\ BestOfOrders(b.orders, "Sell", ask)
  BY Zenon, BestIsTop DEF Side
<1>5. update' = [symbol |-> s, bid |-> bid, ask |-> ask]
  BY Zenon DEF SetBook, MakeUpdate
<1> HIDE DEF bid, ask
<1>6. update'.symbol = s /\ update'.bid = bid /\ update'.ask = ask
  BY Zenon, <1>5
<1>7. update' \in [symbol : Symbol, bid : Top \cup {None}, ask : Top \cup {None}]
  BY Zenon, <1>4, <1>5
<1>8. UpdateIsTop'
  BY Zenon, <1>1, <1>2, <1>4, <1>6 DEF UpdateIsTop
<1> QED BY Zenon, <1>2, <1>3, <1>7, <1>8

(* The book an event is applied to.                                        *)
LEMMA CreatedBook ==
    ASSUME TypeOK, LevelCounts, NEW s \in Symbol
    PROVE  GetOrCreate(s) \in Book /\ CountsMatch(GetOrCreate(s))
BY Zenon, EmptyBookMatches DEF GetOrCreate, TypeOK, LevelCounts, Live

(* An id that BookManager finds leads to a sound book. *)
LEMMA RoutedBook ==
    ASSUME TypeOK, LevelCounts, NEW id \in OrderId, Routed(id) # None
    PROVE  /\ Routed(id) \in Symbol /\ Routed(id) \in Live
           /\ Routed(id) = order_to_symbol[id]
           /\ books[Routed(id)] \in Book /\ CountsMatch(books[Routed(id)])
BY Zenon DEF Routed, TypeOK, LevelCounts, Live

BooksInv == TypeOK /\ LevelCounts /\ UpdateIsTop

(* BookManager starts without books. *)
LEMMA BooksInit == Init => BooksInv
BY Zenon DEF Init, BooksInv, TypeOK, LevelCounts, Live, UpdateIsTop

(* Every event that BookManager::process takes, and reset, keep the books sound. *)
LEMMA BooksNext == BooksInv /\ [Next]_vars => BooksInv'
<1> SUFFICES ASSUME TypeOK, LevelCounts, UpdateIsTop, [Next]_vars PROVE BooksInv'
  BY Zenon DEF BooksInv
<1>0. order_to_symbol \in [OrderId -> Symbol \cup {None}]
  BY Zenon DEF TypeOK
<1>1. ASSUME NEW id \in OrderId, NEW side \in Side, NEW price \in Price, NEW qty \in Quantity,
             NEW s \in SymbolsOf[id], ProcessAdd(id, s, side, price, qty)
      PROVE  BooksInv'
  <2>1. s \in Symbol
    BY Zenon, SymbolAssumption
  <2> DEFINE b == AddOrder(GetOrCreate(s), id, side, price, qty)
  <2>2. b \in Book /\ CountsMatch(b)
    BY Zenon, <2>1, CreatedBook, AddKeepsCounts
  <2>3. SetBook(s, b) /\ order_to_symbol' = [order_to_symbol EXCEPT ![id] = s]
    BY Zenon, <1>1 DEF ProcessAdd
  <2> HIDE DEF b
  <2>4. order_to_symbol' \in [OrderId -> Symbol \cup {None}]
    BY Zenon, <1>0, <2>1, <2>3
  <2> QED BY Zenon, <2>1, <2>2, <2>3, <2>4, SetBookKeeps DEF BooksInv, TypeOK
<1>2. ASSUME Ignore PROVE BooksInv'
  BY Zenon, <1>2 DEF Ignore, BooksInv, TypeOK, LevelCounts, Live, UpdateIsTop
<1>3. ASSUME NEW id \in OrderId, NEW b \in Book, CountsMatch(b), Routed(id) # None,
             SetBook(Routed(id), b), order_to_symbol' \in [OrderId -> Symbol \cup {None}]
      PROVE  BooksInv'
  BY Zenon, <1>3, RoutedBook, SetBookKeeps DEF BooksInv, TypeOK
<1>4. ASSUME NEW id \in OrderId, ProcessCancel(id) PROVE BooksInv'
  <2>1. CASE Routed(id) = None
    BY Zenon, <1>2, <1>4, <2>1 DEF ProcessCancel
  <2>2. CASE Routed(id) # None
    <3> DEFINE b == CancelOrder(books[Routed(id)], id)
    <3>1. b \in Book /\ CountsMatch(b)
      BY Zenon, <2>2, RoutedBook, CancelKeepsCounts
    <3>2. SetBook(Routed(id), b) /\ order_to_symbol' = [order_to_symbol EXCEPT ![id] = None]
      BY Zenon, <1>4, <2>2 DEF ProcessCancel
    <3> HIDE DEF b
    <3>3. order_to_symbol' \in [OrderId -> Symbol \cup {None}]
      BY Zenon, <1>0, <3>2
    <3> QED BY Zenon, <1>3, <2>2, <3>1, <3>2, <3>3
  <2> QED BY Zenon, <2>1, <2>2
<1>5. ASSUME NEW id \in OrderId, NEW qty \in Quantity, ProcessExecute(id, qty) PROVE BooksInv'
  <2>1. CASE Routed(id) = None
    BY Zenon, <1>2, <1>5, <2>1 DEF ProcessExecute
  <2>2. CASE Routed(id) # None
    <3> DEFINE b == ExecuteOrder(books[Routed(id)], id, qty)
    <3>1. b \in Book /\ CountsMatch(b)
      BY Zenon, <2>2, RoutedBook, ExecuteKeepsCounts
    <3>2. SetBook(Routed(id), b) /\ order_to_symbol' = order_to_symbol
      BY Zenon, <1>5, <2>2 DEF ProcessExecute
    <3> HIDE DEF b
    <3> QED BY Zenon, <1>0, <1>3, <2>2, <3>1, <3>2
  <2> QED BY Zenon, <2>1, <2>2
<1>6. ASSUME NEW id \in OrderId, NEW price \in Price, NEW qty \in Quantity,
             ProcessReplace(id, price, qty)
      PROVE  BooksInv'
  <2>1. CASE Routed(id) = None
    BY Zenon, <1>2, <1>6, <2>1 DEF ProcessReplace
  <2>2. CASE Routed(id) # None
    <3> DEFINE b == ReplaceOrder(books[Routed(id)], id, price, qty)
    <3>1. b \in Book /\ CountsMatch(b)
      BY Zenon, <2>2, RoutedBook, ReplaceKeepsCounts
    <3>2. SetBook(Routed(id), b) /\ order_to_symbol' = order_to_symbol
      BY Zenon, <1>6, <2>2 DEF ProcessReplace
    <3> HIDE DEF b
    <3> QED BY Zenon, <1>0, <1>3, <2>2, <3>1, <3>2
  <2> QED BY Zenon, <2>1, <2>2
<1>7. ASSUME NEW s \in Symbol, ProcessTrade(s) PROVE BooksInv'
  <2>1. SetBook(s, GetOrCreate(s)) /\ order_to_symbol' = order_to_symbol
    BY Zenon, <1>7 DEF ProcessTrade
  <2> QED BY Zenon, <1>0, <2>1, CreatedBook, SetBookKeeps DEF BooksInv, TypeOK
<1>8. ASSUME Reset PROVE BooksInv'
  BY Zenon, <1>8 DEF Reset, BooksInv, TypeOK, LevelCounts, Live, UpdateIsTop
<1>9. ASSUME UNCHANGED vars PROVE BooksInv'
  BY Zenon, <1>9 DEF vars, BooksInv, TypeOK, LevelCounts, Live, UpdateIsTop
<1> QED BY Zenon, <1>1, <1>4, <1>5, <1>6, <1>7, <1>8, <1>9 DEF Next

(* Every level of every book counts the orders that rest at its price,     *)
(* whatever events arrive (LevelCounts; order_book.cpp:11-88), and the top *)
(* that process() returns is the best price of a resting order.            *)
THEOREM BooksCorrect == Spec => [](TypeOK /\ LevelCounts /\ UpdateIsTop)
BY BooksInit, BooksNext, PTL DEF Spec, BooksInv

-----------------------------------------------------------------------------
(* The totals.  One fact about the books and one about the steps that put  *)
(* a book in its place are enough.                                         *)
LEMMA TotalsNext ==
    ASSUME NoWrap
    PROVE  BooksInv /\ LevelTotals /\ [Next]_vars => LevelTotals'
<1> SUFFICES ASSUME TypeOK, LevelCounts, LevelTotals, [Next]_vars PROVE LevelTotals'
  BY Zenon DEF BooksInv
<1>1. ASSUME NEW s \in Symbol, NEW b, TotalsMatch(b), SetBook(s, b)
      PROVE  LevelTotals'
  <2>1. books'[s] = b /\ \A t \in Symbol \ {s} : books'[t] = books[t]
    BY Zenon, <1>1 DEF SetBook, TypeOK
  <2> QED BY Zenon, <1>1, <2>1 DEF LevelTotals, Live
<1>2. ASSUME NEW s \in Symbol
      PROVE  /\ GetOrCreate(s) \in Book /\ CountsMatch(GetOrCreate(s))
             /\ TotalsMatch(GetOrCreate(s))
  BY Zenon, CreatedBook, EmptyBookMatches DEF GetOrCreate, LevelTotals, Live
<1>3. ASSUME NEW id \in OrderId, Routed(id) # None
      PROVE  /\ Routed(id) \in Symbol
             /\ books[Routed(id)] \in Book /\ CountsMatch(books[Routed(id)])
             /\ TotalsMatch(books[Routed(id)])
  BY Zenon, <1>3, RoutedBook DEF LevelTotals
<1>4. ASSUME UNCHANGED books PROVE LevelTotals'
  BY Zenon, <1>4 DEF LevelTotals, Live
<1>5. ASSUME NEW id \in OrderId, NEW side \in Side, NEW price \in Price, NEW qty \in Quantity,
             NEW s \in SymbolsOf[id], ProcessAdd(id, s, side, price, qty)
      PROVE  LevelTotals'
  <2>1. s \in Symbol
    BY Zenon, SymbolAssumption
  <2>2. TotalsMatch(AddOrder(GetOrCreate(s), id, side, price, qty))
    BY Zenon, <1>2, <2>1, AddKeepsTotals
  <2> QED BY Zenon, <1>1, <1>5, <2>1, <2>2 DEF ProcessAdd
<1>6. ASSUME NEW id \in OrderId, ProcessCancel(id) PROVE LevelTotals'
  <2>1. CASE Routed(id) = None
    BY Zenon, <1>4, <1>6, <2>1 DEF ProcessCancel, Ignore
  <2>2. CASE Routed(id) # None
    <3>1. TotalsMatch(CancelOrder(books[Routed(id)], id))
      BY Zenon, <1>3, <2>2, CancelKeepsTotals
    <3> QED BY Zenon, <1>1, <1>3, <1>6, <2>2, <3>1 DEF ProcessCancel
  <2> QED BY Zenon, <2>1, <2>2
<1>7. ASSUME NEW id \in OrderId, NEW qty \in Quantity, ProcessExecute(id, qty) PROVE LevelTotals'
  <2>1. CASE Routed(id) = None
    BY Zenon, <1>4, <1>7, <2>1 DEF ProcessExecute, Ignore
  <2>2. CASE Routed(id) # None
    <3>1. TotalsMatch(ExecuteOrder(books[Routed(id)], id, qty))
      BY Zenon, <1>3, <2>2, ExecuteKeepsTotals
    <3> QED BY Zenon, <1>1, <1>3, <1>7, <2>2, <3>1 DEF ProcessExecute
  <2> QED BY Zenon, <2>1, <2>2
<1>8. ASSUME NEW id \in OrderId, NEW price \in Price, NEW qty \in Quantity,
             ProcessReplace(id, price, qty)
      PROVE  LevelTotals'
  <2>1. CASE Routed(id) = None
    BY Zenon, <1>4, <1>8, <2>1 DEF ProcessReplace, Ignore
  <2>2. CASE Routed(id) # None
    <3>1. TotalsMatch(ReplaceOrder(books[Routed(id)], id, price, qty))
      BY Zenon, <1>3, <2>2, ReplaceKeepsTotals
    <3> QED BY Zenon, <1>1, <1>3, <1>8, <2>2, <3>1 DEF ProcessReplace
  <2> QED BY Zenon, <2>1, <2>2
<1>9. ASSUME NEW s \in Symbol, ProcessTrade(s) PROVE LevelTotals'
  BY Zenon, <1>1, <1>2, <1>9 DEF ProcessTrade
<1>10. ASSUME Reset PROVE LevelTotals'
  BY Zenon, <1>10 DEF Reset, LevelTotals, Live
<1> QED BY Zenon, <1>4, <1>5, <1>6, <1>7, <1>8, <1>9, <1>10 DEF Next, vars

(* As long as no total can reach 2^32, the total of every level is exactly *)
(* what its orders have left: neither the wrap-around of PriceLevel::add   *)
(* nor the clamp of PriceLevel::remove ever happens.                       *)
THEOREM TotalsExact == NoWrap => (Spec => []LevelTotals)
<1> SUFFICES ASSUME NoWrap PROVE Spec => []LevelTotals
  BY Zenon
<1>1. Init => LevelTotals
  BY Zenon DEF Init, LevelTotals, Live
<1>2. BooksInv /\ LevelTotals /\ [Next]_vars => LevelTotals'
  BY Zenon, TotalsNext
<1> QED BY <1>1, <1>2, BooksInit, BooksNext, PTL DEF Spec

-----------------------------------------------------------------------------
(* An operation on an order leaves the other orders of its book alone, and *)
(* only an addition makes a missing order rest.                            *)
LEMMA AddOthers ==
    ASSUME NEW b \in Book, NEW id \in OrderId, NEW side, NEW price, NEW qty
    PROVE  \A j \in OrderId \ {id} : AddOrder(b, id, side, price, qty).orders[j] = b.orders[j]
<1>1. b.orders \in [OrderId -> Order \cup {None}]
  BY Zenon DEF Book
<1> QED BY Zenon, <1>1 DEF AddOrder

(* cancel_order touches no other order. *)
LEMMA CancelOthers ==
    ASSUME NEW b \in Book, NEW id \in OrderId
    PROVE  /\ \A j \in OrderId \ {id} : CancelOrder(b, id).orders[j] = b.orders[j]
           /\ CancelOrder(b, id).orders[id] = None
  BY EntryCancelled, Zenon DEF OnlyEntry

(* execute_order touches no other order and creates none. *)
LEMMA ExecuteOthers ==
    ASSUME NEW b \in Book, NEW id \in OrderId, NEW qty
    PROVE  /\ \A j \in OrderId \ {id} : ExecuteOrder(b, id, qty).orders[j] = b.orders[j]
           /\ b.orders[id] = None => ExecuteOrder(b, id, qty).orders[id] = None
<1>1. b.orders \in [OrderId -> Order \cup {None}]
  BY Zenon DEF Book
<1> QED BY Zenon, <1>1 DEF ExecuteOrder

(* replace_order touches no other order and creates none. *)
LEMMA ReplaceOthers ==
    ASSUME NEW b \in Book, NEW id \in OrderId, NEW price, NEW qty
    PROVE  /\ \A j \in OrderId \ {id} : ReplaceOrder(b, id, price, qty).orders[j] = b.orders[j]
           /\ b.orders[id] = None => ReplaceOrder(b, id, price, qty).orders[id] = None
<1>1. b.orders \in [OrderId -> Order \cup {None}]
  BY Zenon DEF Book
<1> QED BY Zenon, <1>1 DEF ReplaceOrder

(* The routes lead to the resting orders, and an order only rests in the   *)
(* book of a symbol under which the feed adds its id.                      *)
RoutingInv ==
    \A s \in Live, id \in OrderId :
        OneSymbol(id) /\ books[s].orders[id] # None => order_to_symbol[id] = s /\ s \in SymbolsOf[id]

(* Every event keeps the resting orders of one symbol reachable. *)
LEMMA RoutingNext == BooksInv /\ RoutingInv /\ [Next]_vars => RoutingInv'
<1> SUFFICES ASSUME TypeOK, LevelCounts, RoutingInv, [Next]_vars PROVE RoutingInv'
  BY Zenon DEF BooksInv
<1>0. order_to_symbol \in [OrderId -> Symbol \cup {None}] /\ books \in [Symbol -> Book \cup {None}]
  BY Zenon DEF TypeOK
<1>1. ASSUME NEW s \in Symbol, NEW b, SetBook(s, b), order_to_symbol' = order_to_symbol,
             \A j \in OrderId : OneSymbol(j) /\ b.orders[j] # None =>
                order_to_symbol[j] = s /\ s \in SymbolsOf[j]
      PROVE  RoutingInv'
  <2>1. books'[s] = b /\ \A t \in Symbol \ {s} : books'[t] = books[t]
    BY Zenon, <1>0, <1>1 DEF SetBook
  <2> QED BY Zenon, <1>1, <2>1 DEF RoutingInv, Live
<1>2. ASSUME UNCHANGED <<books, order_to_symbol>> PROVE RoutingInv'
  BY Zenon, <1>2 DEF RoutingInv, Live
<1>3. ASSUME NEW s \in Symbol, NEW j \in OrderId, OneSymbol(j), GetOrCreate(s).orders[j] # None
      PROVE  order_to_symbol[j] = s /\ s \in SymbolsOf[j]
  <2>1. CASE books[s] = None
    BY Zenon, <1>3, <2>1 DEF GetOrCreate, EmptyBook
  <2>2. CASE books[s] # None
    BY Zenon, <1>3, <2>2 DEF GetOrCreate, RoutingInv, Live
  <2> QED BY Zenon, <2>1, <2>2
<1>4. ASSUME NEW id \in OrderId, NEW side \in Side, NEW price \in Price, NEW qty \in Quantity,
             NEW s \in SymbolsOf[id], ProcessAdd(id, s, side, price, qty)
      PROVE  RoutingInv'
  <2>1. s \in Symbol
    BY Zenon, SymbolAssumption
  <2> DEFINE b == AddOrder(GetOrCreate(s), id, side, price, qty)
  <2>2. books'[s] = b /\ \A t \in Symbol \ {s} : books'[t] = books[t]
    BY Zenon, <1>0, <1>4, <2>1 DEF ProcessAdd, SetBook
  <2>3. order_to_symbol'[id] = s /\ \A j \in OrderId \ {id} : order_to_symbol'[j] = order_to_symbol[j]
    BY Zenon, <1>0, <1>4 DEF ProcessAdd
  <2>4. \A j \in OrderId \ {id} : b.orders[j] = GetOrCreate(s).orders[j]
    BY <2>1, CreatedBook, AddOthers
  <2> HIDE DEF b
  <2>5. ASSUME NEW t \in Symbol, books'[t] # None, NEW j \in OrderId, OneSymbol(j),
               books'[t].orders[j] # None
        PROVE  order_to_symbol'[j] = t /\ t \in SymbolsOf[j]
    <3>1. CASE t = s
      BY <1>3, <2>1, <2>2, <2>3, <2>4, <2>5, <3>1
    <3>2. CASE t # s
      <4>1. order_to_symbol[j] = t /\ t \in SymbolsOf[j]
        BY Zenon, <2>2, <2>5, <3>2 DEF RoutingInv, Live
      <4>2. j # id
        BY Zenon, <2>5, <3>2, <4>1 DEF OneSymbol
      <4> QED BY Zenon, <2>3, <4>1, <4>2
    <3> QED BY Zenon, <3>1, <3>2
  <2> QED BY Zenon, <2>5 DEF RoutingInv, Live
<1>5. ASSUME NEW id \in OrderId, ProcessCancel(id) PROVE RoutingInv'
  <2>1. CASE Routed(id) = None
    BY Zenon, <1>2, <1>5, <2>1 DEF ProcessCancel, Ignore
  <2>2. CASE Routed(id) # None
    <3> DEFINE s == Routed(id)
               b == CancelOrder(books[s], id)
    <3>1. s \in Symbol /\ s \in Live /\ s = order_to_symbol[id] /\ books[s] \in Book
      BY Zenon, <2>2, RoutedBook
    <3>2. b.orders[id] = None /\ \A j \in OrderId \ {id} : b.orders[j] = books[s].orders[j]
      BY Zenon, <3>1, CancelOthers
    <3>3. SetBook(s, b) /\ order_to_symbol' = [order_to_symbol EXCEPT ![id] = None]
      BY Zenon, <1>5, <2>2 DEF ProcessCancel
    <3> HIDE DEF s, b
    <3>4. books'[s] = b /\ \A t \in Symbol \ {s} : books'[t] = books[t]
      BY Zenon, <1>0, <3>1, <3>3 DEF SetBook
    <3>5. \A j \in OrderId \ {id} : order_to_symbol'[j] = order_to_symbol[j]
      BY Zenon, <1>0, <3>3
    <3>6. ASSUME NEW t \in Symbol, books'[t] # None, NEW j \in OrderId, OneSymbol(j),
               books'[t].orders[j] # None
          PROVE  order_to_symbol'[j] = t /\ t \in SymbolsOf[j]
      <4>1. t \in Live /\ books[t].orders[j] # None /\ j # id
        <5>1. CASE t = s
          BY Zenon, <3>1, <3>2, <3>4, <3>6, <5>1
        <5>2. CASE t # s
          BY <3>1, <3>4, <3>6, <5>2 DEF RoutingInv, Live
        <5> QED BY Zenon, <5>1, <5>2
      <4> QED BY Zenon, <3>5, <3>6, <4>1 DEF RoutingInv
    <3> QED BY Zenon, <3>6 DEF RoutingInv, Live
  <2> QED BY Zenon, <2>1, <2>2
<1>6. ASSUME NEW id \in OrderId, Routed(id) # None, NEW b, SetBook(Routed(id), b),
             order_to_symbol' = order_to_symbol,
             \A j \in OrderId \ {id} : b.orders[j] = books[Routed(id)].orders[j],
             books[Routed(id)].orders[id] = None => b.orders[id] = None
      PROVE  RoutingInv'
  <2> DEFINE s == Routed(id)
  <2>1. s \in Symbol /\ s \in Live
    BY Zenon, <1>6, RoutedBook
  <2>2. \A j \in OrderId : b.orders[j] # None => books[s].orders[j] # None
    BY Zenon, <1>6
  <2>3. \A j \in OrderId : OneSymbol(j) /\ b.orders[j] # None => order_to_symbol[j] = s /\ s \in SymbolsOf[j]
    <3> HIDE DEF s
    <3> QED BY Zenon, <2>1, <2>2 DEF RoutingInv
  <2> QED BY Zenon, <1>1, <1>6, <2>1, <2>3
<1>7. ASSUME NEW id \in OrderId, NEW qty \in Quantity, ProcessExecute(id, qty) PROVE RoutingInv'
  <2>1. CASE Routed(id) = None
    BY Zenon, <1>2, <1>7, <2>1 DEF ProcessExecute, Ignore
  <2>2. CASE Routed(id) # None
    <3> DEFINE b == ExecuteOrder(books[Routed(id)], id, qty)
    <3>1. books[Routed(id)] \in Book
      BY Zenon, <2>2, RoutedBook
    <3>2. /\ \A j \in OrderId \ {id} : b.orders[j] = books[Routed(id)].orders[j]
          /\ books[Routed(id)].orders[id] = None => b.orders[id] = None
      BY <3>1, ExecuteOthers
    <3>3. SetBook(Routed(id), b) /\ order_to_symbol' = order_to_symbol
      BY Zenon, <1>7, <2>2 DEF ProcessExecute
    <3> HIDE DEF b
    <3> QED BY Zenon, <1>6, <2>2, <3>2, <3>3
  <2> QED BY Zenon, <2>1, <2>2
<1>8. ASSUME NEW id \in OrderId, NEW price \in Price, NEW qty \in Quantity,
             ProcessReplace(id, price, qty)
      PROVE  RoutingInv'
  <2>1. CASE Routed(id) = None
    BY Zenon, <1>2, <1>8, <2>1 DEF ProcessReplace, Ignore
  <2>2. CASE Routed(id) # None
    <3> DEFINE b == ReplaceOrder(books[Routed(id)], id, price, qty)
    <3>1. books[Routed(id)] \in Book
      BY Zenon, <2>2, RoutedBook
    <3>2. /\ \A j \in OrderId \ {id} : b.orders[j] = books[Routed(id)].orders[j]
          /\ books[Routed(id)].orders[id] = None => b.orders[id] = None
      BY <3>1, ReplaceOthers
    <3>3. SetBook(Routed(id), b) /\ order_to_symbol' = order_to_symbol
      BY Zenon, <1>8, <2>2 DEF ProcessReplace
    <3> HIDE DEF b
    <3> QED BY Zenon, <1>6, <2>2, <3>2, <3>3
  <2> QED BY Zenon, <2>1, <2>2
<1>9. ASSUME NEW s \in Symbol, ProcessTrade(s) PROVE RoutingInv'
  BY <1>1, <1>3, <1>9 DEF ProcessTrade
<1>10. ASSUME Reset PROVE RoutingInv'
  BY Zenon, <1>10 DEF Reset, RoutingInv, Live
<1> QED BY Zenon, <1>2, <1>4, <1>5, <1>7, <1>8, <1>9, <1>10 DEF Next, vars

(* If the exchange never uses an id for two symbols, an event about the    *)
(* order that rests under it always finds its book                         *)
(* (book_manager.cpp:12-56).                                               *)
THEOREM OrdersAreRouted == Spec => []RestingIsRouted
<1>1. Init => RoutingInv
  BY Zenon DEF Init, RoutingInv, Live
<1>2. BooksInv /\ RoutingInv /\ [Next]_vars => RoutingInv'
  BY Zenon, RoutingNext
<1>3. RoutingInv => RestingIsRouted
  BY Zenon DEF RoutingInv, RestingIsRouted
<1> QED BY <1>1, <1>2, <1>3, BooksInit, BooksNext, PTL DEF Spec

-----------------------------------------------------------------------------
(* The orders the manager knows: the ones the routes lead to. *)
Held(s, id) == IF books[s] = None THEN None ELSE books[s].orders[id]

Known(id) ==
    LET s == order_to_symbol[id] IN
    IF s = None \/ books[s] = None \/ books[s].orders[id] = None THEN None
    ELSE [symbol |-> s, side |-> books[s].orders[id].side,
          price |-> books[s].orders[id].price, qty |-> books[s].orders[id].qty]

(* An order rests in the book its route leads to, with something left. *)
HeldOK ==
    \A s \in Symbol, id \in OrderId :
        /\ Held(s, id) \in Resting \cup {None}
        /\ Held(s, id) # None => order_to_symbol[id] = s

SeenOrder == [symbol : Symbol, side : Side, price : Price, qty : Positive]

(* A resting order together with its symbol is an order as the feed sees it. *)
LEMMA SeenType ==
    ASSUME None \notin SeenOrder, NEW s \in Symbol, NEW o \in Resting \cup {None}
    PROVE  /\ Seen(s, o) \in SeenOrder \cup {None}
           /\ Seen(s, o) = None <=> o = None
<1>1. CASE o = None
  BY Zenon, <1>1 DEF Seen
<1>2. CASE o # None
  <2>1. o.side \in Side /\ o.price \in Price /\ o.qty \in Positive
    BY Zenon, <1>2 DEF Resting
  <2>2. Seen(s, o) \in SeenOrder
    BY Zenon, <1>2, <2>1 DEF Seen, SeenOrder
  <2> QED
    BY <1>2, <2>2, Zenon
<1> QED
  BY Zenon, <1>1, <1>2

(* The order that an id leads to, now ... *)
LEMMA KnownIsSeen ==
    ASSUME NEW id \in OrderId, NEW s, order_to_symbol[id] = s
    PROVE  Known(id) = IF s = None THEN None ELSE Seen(s, Held(s, id))
BY Zenon DEF Known, Seen, Held

(* ... and after a step. *)
LEMMA KnownIsSeenNext ==
    ASSUME NEW id \in OrderId, NEW s, order_to_symbol'[id] = s
    PROVE  Known(id)' = IF s = None THEN None ELSE Seen(s, Held(s, id)')
BY Zenon DEF Known, Seen, Held

(* An order the manager does not know rests in no book. *)
LEMMA UnknownRestsNowhere ==
    ASSUME None \notin SeenOrder, TypeOK, HeldOK, NEW id \in OrderId, Known(id) = None
    PROVE  \A s \in Symbol : Held(s, id) = None
<1> SUFFICES ASSUME NEW s \in Symbol, Held(s, id) # None PROVE FALSE
  BY Zenon
<1>1. order_to_symbol[id] = s /\ Held(s, id) \in Resting \cup {None}
  BY Zenon DEF HeldOK
<1>2. s # None
  BY Zenon, SymbolAssumption
<1>3. Known(id) = Seen(s, Held(s, id))
  BY <1>1, <1>2, KnownIsSeen, Zenon
<1> QED
  BY <1>1, <1>3, SeenType, Zenon

(* A step that leaves every book and route as it is. *)
LEMMA NothingHeldMoves ==
    ASSUME TypeOK, HeldOK, order_to_symbol' = order_to_symbol,
           \A t \in Symbol, j \in OrderId : Held(t, j)' = Held(t, j)
    PROVE  HeldOK' /\ \A j \in OrderId : Known(j)' = Known(j)
<1>1. HeldOK'
  <2> SUFFICES ASSUME NEW t \in Symbol, NEW j \in OrderId
               PROVE  /\ Held(t, j)' \in Resting \cup {None}
                      /\ Held(t, j)' # None => order_to_symbol'[j] = t
    BY Zenon DEF HeldOK
  <2>1. Held(t, j)' = Held(t, j)
    BY Zenon
  <2>2. Held(t, j) \in Resting \cup {None} /\ (Held(t, j) # None => order_to_symbol[j] = t)
    BY Zenon DEF HeldOK
  <2> QED
    BY <2>1, <2>2, Zenon
<1>2. ASSUME NEW j \in OrderId PROVE Known(j)' = Known(j)
  <2>1. PICK s \in Symbol \cup {None} : order_to_symbol[j] = s
    BY Zenon DEF TypeOK
  <2>2. s # None => Held(s, j)' = Held(s, j)
    BY <2>1, Zenon
  <2>3. order_to_symbol'[j] = s
    BY <2>1, Zenon
  <2>4. Known(j) = IF s = None THEN None ELSE Seen(s, Held(s, j))
    BY <2>1, KnownIsSeen, Zenon
  <2>5. Known(j)' = IF s = None THEN None ELSE Seen(s, Held(s, j)')
    BY <2>3, KnownIsSeenNext, Zenon
  <2> QED
    BY <2>2, <2>4, <2>5, Zenon
<1> QED
  BY <1>1, <1>2, Zenon

(* A step that puts another book in place, in which one order differs. *)
LEMMA OneOrderMoves ==
    ASSUME TypeOK, HeldOK, NEW s \in Symbol, NEW id \in OrderId, NEW b \in Book,
           SetBook(s, b),
           \A j \in OrderId \ {id} : b.orders[j] = Held(s, j),
           \A j \in OrderId \ {id} : order_to_symbol'[j] = order_to_symbol[j],
           b.orders[id] \in Resting \cup {None},
           b.orders[id] # None => order_to_symbol'[id] = s,
           order_to_symbol'[id] \in {s, None},
           \A t \in Symbol \ {s} : Held(t, id) = None
    PROVE  /\ HeldOK'
           /\ \A j \in OrderId \ {id} : Known(j)' = Known(j)
           /\ Known(id)' = Seen(s, b.orders[id])
<1>1. b # None
  BY Zenon, NoneAssumption
<1>2. /\ \A j \in OrderId : Held(s, j)' = b.orders[j]
      /\ \A t \in Symbol \ {s}, j \in OrderId : Held(t, j)' = Held(t, j)
  <2>1. books'[s] = b /\ \A t \in Symbol \ {s} : books'[t] = books[t]
    BY Zenon DEF SetBook, TypeOK
  <2> QED
    BY <1>1, <2>1, Zenon DEF Held
<1>3. s # None
  BY Zenon, SymbolAssumption
<1>4. \A t \in Symbol, j \in OrderId \ {id} : Held(t, j)' = Held(t, j)
  BY <1>2, Zenon
<1>5. HeldOK'
  <2> SUFFICES ASSUME NEW t \in Symbol, NEW j \in OrderId
               PROVE  /\ Held(t, j)' \in Resting \cup {None}
                      /\ Held(t, j)' # None => order_to_symbol'[j] = t
    BY Zenon DEF HeldOK
  <2>1. CASE j # id
    <3>1. Held(t, j)' = Held(t, j) /\ order_to_symbol'[j] = order_to_symbol[j]
      BY <1>4, <2>1, Zenon
    <3>2. Held(t, j) \in Resting \cup {None} /\ (Held(t, j) # None => order_to_symbol[j] = t)
      BY Zenon DEF HeldOK
    <3> QED
      BY <3>1, <3>2, Zenon
  <2>2. CASE j = id /\ t = s
    BY <1>2, <2>2, Zenon
  <2>3. CASE j = id /\ t # s
    <3>1. Held(t, j)' = None
      BY <1>2, <2>3, Zenon
    <3> QED
      BY Zenon, <3>1
  <2> QED
    BY Zenon, <2>1, <2>2, <2>3
<1>6. ASSUME NEW j \in OrderId \ {id} PROVE Known(j)' = Known(j)
  <2>1. PICK r \in Symbol \cup {None} : order_to_symbol[j] = r
    BY Zenon DEF TypeOK
  <2>2. r # None => Held(r, j)' = Held(r, j)
    BY <1>4, <2>1, Zenon
  <2>3. order_to_symbol'[j] = r
    BY <2>1, Zenon
  <2>4. Known(j) = IF r = None THEN None ELSE Seen(r, Held(r, j))
    BY <2>1, KnownIsSeen, Zenon
  <2>5. Known(j)' = IF r = None THEN None ELSE Seen(r, Held(r, j)')
    BY <2>3, KnownIsSeenNext, Zenon
  <2> QED
    BY <2>2, <2>4, <2>5, Zenon
<1>7. Known(id)' = Seen(s, b.orders[id])
  <2>1. CASE order_to_symbol'[id] = s
    <3>1. Known(id)' = Seen(s, Held(s, id)')
      BY <1>3, <2>1, KnownIsSeenNext, Zenon
    <3>2. Held(s, id)' = b.orders[id]
      BY <1>2, Zenon
    <3> QED
      BY <3>1, <3>2, Zenon
  <2>2. CASE order_to_symbol'[id] = None
    <3>1. Known(id)' = None
      BY <2>2, KnownIsSeenNext, Zenon
    <3>2. b.orders[id] = None
      BY <1>3, <2>2, Zenon
    <3> QED
      BY <3>1, <3>2, Zenon DEF Seen
  <2> QED
    BY Zenon, <2>1, <2>2
<1> QED
  BY <1>5, <1>6, <1>7, Zenon

(* What a replacement makes, and an execution leaves, of an order as it is seen. *)
(* An event about an order goes to the book that holds it, if any does. *)
LEMMA RoutedOrder ==
    ASSUME BooksInv, HeldOK, NEW id \in OrderId, NEW s, s = Routed(id), s # None
    PROVE  /\ s \in Symbol /\ books[s] \in Book /\ CountsMatch(books[s])
           /\ order_to_symbol[id] = s
           /\ \A j \in OrderId : books[s].orders[j] = Held(s, j)
           /\ books[s].orders[id] \in Resting \cup {None}
           /\ \A t \in Symbol \ {s} : Held(t, id) = None
           /\ Known(id) = Seen(s, books[s].orders[id])
<1>1. /\ s \in Symbol /\ books[s] \in Book /\ CountsMatch(books[s])
      /\ order_to_symbol[id] = s
  BY Zenon, RoutedBook DEF BooksInv
<1>2. books[s] # None
  BY Zenon, <1>1, NoneAssumption
<1>3. \A j \in OrderId : books[s].orders[j] = Held(s, j)
  BY <1>2, Zenon DEF Held
<1>4. Held(s, id) \in Resting \cup {None} /\ \A t \in Symbol \ {s} : Held(t, id) = None
  BY <1>1, Zenon DEF HeldOK
<1>5. Known(id) = Seen(s, Held(s, id))
  BY <1>1, KnownIsSeen, Zenon
<1>6. books[s].orders[id] = Held(s, id)
  BY <1>3, Zenon
<1> QED
  BY <1>1, <1>3, <1>4, <1>5, <1>6, Zenon

(* An event for an unknown id changes no order. *)
LEMMA IgnoredOrder ==
    ASSUME TypeOK, HeldOK, NEW id \in OrderId, Routed(id) = None, Ignore
    PROVE  HeldOK' /\ Known(id) = None /\ \A j \in OrderId : Known(j)' = Known(j)
<1>1. books' = books /\ order_to_symbol' = order_to_symbol
  BY Zenon DEF Ignore
<1>2. \A t \in Symbol, j \in OrderId : Held(t, j)' = Held(t, j)
  BY <1>1, Zenon DEF Held
<1>3. Known(id) = None
  BY Zenon DEF Routed, Known
<1> QED
  BY <1>1, <1>2, <1>3, NothingHeldMoves, Zenon

(* An Add message makes its order known and touches no other. *)
LEMMA AddEffect ==
    ASSUME None \notin SeenOrder, BooksInv, HeldOK, NEW id \in OrderId, Known(id) = None,
           NEW s \in Symbol, NEW side \in Side, NEW price \in Price,
           NEW qty \in Positive, ProcessAdd(id, s, side, price, qty)
    PROVE  /\ HeldOK'
           /\ \A j \in OrderId \ {id} : Known(j)' = Known(j)
           /\ Known(id)' = [symbol |-> s, side |-> side, price |-> price, qty |-> qty]
<1> DEFINE g == GetOrCreate(s)
           o == [side |-> side, price |-> price, qty |-> qty]
<1>0. TypeOK /\ LevelCounts
  BY Zenon DEF BooksInv
<1>1. g \in Book /\ CountsMatch(g)
  BY Zenon, <1>0, CreatedBook
<1>2. \A j \in OrderId : g.orders[j] = Held(s, j)
  BY Zenon DEF GetOrCreate, EmptyBook, Held
<1>3. \A t \in Symbol : Held(t, id) = None
  BY <1>0, UnknownRestsNowhere, Zenon
<1>4. g.orders[id] = None
  BY <1>2, <1>3, Zenon
<1> HIDE DEF g
<1> DEFINE b == AddOrder(g, id, side, price, qty)
<1>5. qty \in Quantity
  BY Zenon DEF Positive
<1>6. b \in Book
  BY Zenon, <1>1, <1>5, AddKeepsCounts
<1>7. SetBook(s, b) /\ order_to_symbol' = [order_to_symbol EXCEPT ![id] = s]
  BY Zenon DEF ProcessAdd, g
<1> HIDE DEF b
<1>8. (\A j \in OrderId \ {id} : b.orders[j] = g.orders[j]) /\ b.orders[id] = o
  <2>1. b = AddOrder(g, id, side, price, qty)
    BY Zenon DEF b
  <2>2. OnlyEntry(g, b, id, o)
    BY <1>1, <1>4, <2>1, EntryAdded, Zenon DEF o
  <2> QED
    BY <2>2, Zenon DEF OnlyEntry
<1>9. b.orders[id] = o
  BY Zenon, <1>8
<1>10. order_to_symbol'[id] = s /\ \A j \in OrderId \ {id} : order_to_symbol'[j] = order_to_symbol[j]
  BY Zenon, <1>0, <1>7 DEF TypeOK
<1>11. o \in Resting
  BY Zenon DEF Resting
<1>12. o # None
  BY <1>5, NoneAssumption DEF Order
<1>13. \A j \in OrderId \ {id} : b.orders[j] = Held(s, j)
  BY <1>2, <1>8, Zenon
<1>14. Seen(s, o) = [symbol |-> s, side |-> side, price |-> price, qty |-> qty]
  BY Zenon, <1>12 DEF Seen
<1> HIDE DEF o
<1>15. b.orders[id] \in Resting \cup {None} /\ order_to_symbol'[id] \in {s, None}
  BY <1>9, <1>10, <1>11, Zenon
<1>16. \A t \in Symbol \ {s} : Held(t, id) = None
  BY <1>3, Zenon
<1>17. /\ HeldOK'
       /\ \A j \in OrderId \ {id} : Known(j)' = Known(j)
       /\ Known(id)' = Seen(s, b.orders[id])
  BY <1>0, <1>6, <1>7, <1>10, <1>13, <1>15, <1>16, OneOrderMoves, ZenonT(60)
<1> QED
  BY <1>9, <1>14, <1>17, Zenon

(* The same, for an order given as one record. *)
LEMMA AddSeen ==
    ASSUME None \notin SeenOrder, BooksInv, HeldOK, NEW id \in OrderId, Known(id) = None,
           NEW x \in SeenOrder, ProcessAdd(id, x.symbol, x.side, x.price, x.qty)
    PROVE  /\ HeldOK'
           /\ \A j \in OrderId \ {id} : Known(j)' = Known(j)
           /\ Known(id)' = x
<1>1. /\ x.symbol \in Symbol /\ x.side \in Side /\ x.price \in Price /\ x.qty \in Positive
      /\ x = [symbol |-> x.symbol, side |-> x.side, price |-> x.price, qty |-> x.qty]
  BY Zenon DEF SeenOrder
<1> QED
  BY Zenon, <1>1, AddEffect

(* A Cancel message makes its order unknown and touches no other. *)
LEMMA CancelEffect ==
    ASSUME BooksInv, HeldOK, NEW id \in OrderId, ProcessCancel(id)
    PROVE  /\ HeldOK'
           /\ \A j \in OrderId \ {id} : Known(j)' = Known(j)
           /\ Known(id)' = None
<1> DEFINE s == Routed(id)
<1>0. TypeOK
  BY Zenon DEF BooksInv
<1>1. CASE s = None
  BY <1>0, <1>1, IgnoredOrder, Zenon DEF ProcessCancel
<1>2. CASE s # None
  <2> DEFINE b == CancelOrder(books[s], id)
  <2>1. SetBook(s, b) /\ order_to_symbol' = [order_to_symbol EXCEPT ![id] = None]
    BY <1>2, Zenon DEF ProcessCancel
  <2> HIDE DEF s
  <2>2. /\ s \in Symbol /\ books[s] \in Book /\ CountsMatch(books[s])
        /\ \A j \in OrderId : books[s].orders[j] = Held(s, j)
        /\ \A t \in Symbol \ {s} : Held(t, id) = None
    BY <1>2, RoutedOrder, Zenon DEF s
  <2>3. b \in Book
    BY Zenon, <2>2, CancelKeepsCounts
  <2>4. (\A j \in OrderId \ {id} : b.orders[j] = books[s].orders[j]) /\ b.orders[id] = None
    BY <2>2, EntryCancelled DEF OnlyEntry
  <2> HIDE DEF b
  <2>5. order_to_symbol'[id] = None /\ \A j \in OrderId \ {id} : order_to_symbol'[j] = order_to_symbol[j]
    BY Zenon, <1>0, <2>1 DEF TypeOK
  <2>6. \A j \in OrderId \ {id} : b.orders[j] = Held(s, j)
    BY <2>2, <2>4, Zenon
  <2>7. b.orders[id] \in Resting \cup {None} /\ order_to_symbol'[id] \in {s, None}
    BY <2>4, <2>5, Zenon
  <2>8. /\ HeldOK'
        /\ \A j \in OrderId \ {id} : Known(j)' = Known(j)
        /\ Known(id)' = Seen(s, b.orders[id])
    BY <1>0, <2>1, <2>2, <2>3, <2>4, <2>5, <2>6, <2>7, OneOrderMoves, ZenonT(60)
  <2> QED
    BY <2>4, <2>8, Zenon DEF Seen
<1> QED
  BY Zenon, <1>1, <1>2

(* An Execute message leaves the rest of its order and touches no other. *)
LEMMA ExecuteEffect ==
    ASSUME None \notin SeenOrder, BooksInv, HeldOK, NEW id \in OrderId, NEW qty \in Positive,
           ProcessExecute(id, qty)
    PROVE  /\ HeldOK'
           /\ \A j \in OrderId \ {id} : Known(j)' = Known(j)
           /\ Known(id)' = IF Known(id) = None THEN None ELSE Left(Known(id), qty)
<1> DEFINE s == Routed(id)
<1>0. TypeOK
  BY Zenon DEF BooksInv
<1>1. CASE s = None
  <2>1. HeldOK' /\ Known(id) = None /\ \A j \in OrderId : Known(j)' = Known(j)
    BY <1>0, <1>1, IgnoredOrder, Zenon DEF ProcessExecute
  <2> QED
    BY <2>1, Zenon
<1>2. CASE s # None
  <2> DEFINE b == ExecuteOrder(books[s], id, qty)
             o == books[s].orders[id]
  <2>1. SetBook(s, b) /\ order_to_symbol' = order_to_symbol
    BY <1>2, Zenon DEF ProcessExecute
  <2> HIDE DEF s
  <2>2. /\ s \in Symbol /\ books[s] \in Book /\ CountsMatch(books[s])
        /\ order_to_symbol[id] = s
        /\ \A j \in OrderId : books[s].orders[j] = Held(s, j)
        /\ o \in Resting \cup {None}
        /\ \A t \in Symbol \ {s} : Held(t, id) = None
        /\ Known(id) = Seen(s, o)
    BY <1>2, RoutedOrder, Zenon DEF s
  <2>3. qty \in Quantity
    BY Zenon DEF Positive
  <2>4. b \in Book
    BY Zenon, <2>2, <2>3, ExecuteKeepsCounts
  <2> HIDE DEF b
  <2>5. /\ \A j \in OrderId \ {id} : b.orders[j] = books[s].orders[j]
        /\ b.orders[id] = Executed(o, qty)
    <3>1. b = ExecuteOrder(books[s], id, qty)
      BY Zenon DEF b
    <3>2. OnlyEntry(books[s], b, id, Executed(books[s].orders[id], qty))
      BY Zenon, <2>2, <3>1, EntryExecuted
    <3> QED
      BY <3>2, Zenon DEF OnlyEntry
  <2> HIDE DEF o
  <2>6. /\ b.orders[id] \in Resting \cup {None}
        /\ Seen(s, b.orders[id]) = IF Seen(s, o) = None THEN None ELSE Left(Seen(s, o), qty)
    <3>1. CASE o = None
      BY <2>5, <3>1, Zenon DEF Seen, Executed
    <3>2. CASE o # None
      <4>1. o \in Resting
        BY Zenon, <2>2, <3>2
      <4>2. Seen(s, o) # None
        BY <2>2, <3>2, SeenType, ZenonT(60)
      <4>3. /\ b.orders[id] \in Resting \cup {None}
            /\ Seen(s, b.orders[id]) = Left(Seen(s, o), qty)
        BY <2>2, <2>5, <4>1, SeenLeft
      <4> QED
        BY <4>2, <4>3, Zenon
    <3> QED
      BY Zenon, <3>1, <3>2
  <2>7. \A j \in OrderId \ {id} : b.orders[j] = Held(s, j)
    BY <2>2, <2>5, Zenon
  <2>8. order_to_symbol'[id] = s /\ \A j \in OrderId \ {id} : order_to_symbol'[j] = order_to_symbol[j]
    BY <2>1, <2>2, Zenon
  <2>9. order_to_symbol'[id] \in {s, None}
    BY <2>8, Zenon
  <2>10. /\ HeldOK'
         /\ \A j \in OrderId \ {id} : Known(j)' = Known(j)
         /\ Known(id)' = Seen(s, b.orders[id])
    BY <1>0, <2>1, <2>2, <2>4, <2>6, <2>7, <2>8, <2>9, OneOrderMoves, ZenonT(60)
  <2> QED
    BY <2>2, <2>6, <2>10, Zenon
<1> QED
  BY Zenon, <1>1, <1>2

(* A Replace message renews its order and touches no other. *)
LEMMA ReplaceEffect ==
    ASSUME None \notin SeenOrder, BooksInv, HeldOK, NEW id \in OrderId, NEW price \in Price,
           NEW qty \in Positive, ProcessReplace(id, price, qty)
    PROVE  /\ HeldOK'
           /\ \A j \in OrderId \ {id} : Known(j)' = Known(j)
           /\ Known(id)' = IF Known(id) = None THEN None ELSE Renewed(Known(id), price, qty)
<1> DEFINE s == Routed(id)
<1>0. TypeOK
  BY Zenon DEF BooksInv
<1>1. CASE s = None
  <2>1. HeldOK' /\ Known(id) = None /\ \A j \in OrderId : Known(j)' = Known(j)
    BY <1>0, <1>1, IgnoredOrder, Zenon DEF ProcessReplace
  <2> QED
    BY <2>1, Zenon
<1>2. CASE s # None
  <2> DEFINE b == ReplaceOrder(books[s], id, price, qty)
             o == books[s].orders[id]
  <2>1. SetBook(s, b) /\ order_to_symbol' = order_to_symbol
    BY <1>2, Zenon DEF ProcessReplace
  <2> HIDE DEF s
  <2>2. /\ s \in Symbol /\ books[s] \in Book /\ CountsMatch(books[s])
        /\ order_to_symbol[id] = s
        /\ \A j \in OrderId : books[s].orders[j] = Held(s, j)
        /\ o \in Resting \cup {None}
        /\ \A t \in Symbol \ {s} : Held(t, id) = None
        /\ Known(id) = Seen(s, o)
    BY <1>2, RoutedOrder, Zenon DEF s
  <2>3. qty \in Quantity
    BY Zenon DEF Positive
  <2>4. b \in Book
    BY Zenon, <2>2, <2>3, ReplaceKeepsCounts
  <2> HIDE DEF b
  <2>5. /\ \A j \in OrderId \ {id} : b.orders[j] = books[s].orders[j]
        /\ b.orders[id] = Replaced(o, price, qty)
    <3>1. b = ReplaceOrder(books[s], id, price, qty)
      BY Zenon DEF b
    <3>2. OnlyEntry(books[s], b, id, Replaced(books[s].orders[id], price, qty))
      BY <2>2, <3>1, EntryReplaced
    <3> QED
      BY <3>2, Zenon DEF OnlyEntry
  <2> HIDE DEF o
  <2>6. /\ b.orders[id] \in Resting \cup {None}
        /\ Seen(s, b.orders[id]) =
             IF Seen(s, o) = None THEN None ELSE Renewed(Seen(s, o), price, qty)
    <3>1. CASE o = None
      BY <2>5, <3>1, Zenon DEF Seen, Replaced
    <3>2. CASE o # None
      <4>1. o \in Resting
        BY Zenon, <2>2, <3>2
      <4>2. Seen(s, o) # None
        BY <2>2, <3>2, SeenType, Zenon
      <4>3. b.orders[id] = [side |-> o.side, price |-> price, qty |-> qty]
        BY <2>5, <3>2, Zenon DEF Replaced
      <4>4. /\ b.orders[id] \in Resting
            /\ Seen(s, b.orders[id]) = Renewed(Seen(s, o), price, qty)
        BY <4>1, <4>3, SeenRenewed
      <4> QED
        BY <4>2, <4>4, Zenon
    <3> QED
      BY Zenon, <3>1, <3>2
  <2>7. \A j \in OrderId \ {id} : b.orders[j] = Held(s, j)
    BY <2>2, <2>5, Zenon
  <2>8. order_to_symbol'[id] = s /\ \A j \in OrderId \ {id} : order_to_symbol'[j] = order_to_symbol[j]
    BY <2>1, <2>2, Zenon
  <2>9. order_to_symbol'[id] \in {s, None}
    BY <2>8, Zenon
  <2>10. /\ HeldOK'
         /\ \A j \in OrderId \ {id} : Known(j)' = Known(j)
         /\ Known(id)' = Seen(s, b.orders[id])
    BY <1>0, <2>1, <2>2, <2>4, <2>6, <2>7, <2>8, <2>9, OneOrderMoves, Zenon
  <2> QED
    BY <2>2, <2>6, <2>10, Zenon
<1> QED
  BY Zenon, <1>1, <1>2

(* A trade report opens the book of its symbol and moves no order. *)
LEMMA TradeEffect ==
    ASSUME BooksInv, HeldOK, NEW s \in Symbol, ProcessTrade(s)
    PROVE  HeldOK' /\ \A j \in OrderId : Known(j)' = Known(j)
<1> DEFINE g == GetOrCreate(s)
<1>0. TypeOK /\ LevelCounts
  BY Zenon DEF BooksInv
<1>1. g \in Book
  BY Zenon, <1>0, CreatedBook
<1>2. \A j \in OrderId : g.orders[j] = Held(s, j)
  BY Zenon DEF GetOrCreate, EmptyBook, Held
<1>3. g # None
  BY Zenon, <1>1, NoneAssumption
<1>4. SetBook(s, g) /\ order_to_symbol' = order_to_symbol
  BY Zenon DEF ProcessTrade
<1> HIDE DEF g
<1>5. books'[s] = g /\ \A t \in Symbol \ {s} : books'[t] = books[t]
  BY Zenon, <1>0, <1>4 DEF SetBook, TypeOK
<1>6. \A t \in Symbol, j \in OrderId : Held(t, j)' = Held(t, j)
  <2> TAKE t \in Symbol, j \in OrderId
  <2>1. CASE t = s
    BY <1>2, <1>3, <1>5, <2>1, Zenon DEF Held
  <2>2. CASE t # s
    BY <1>5, <2>2, Zenon DEF Held
  <2> QED
    BY Zenon, <2>1, <2>2
<1> QED
  BY <1>0, <1>4, <1>6, NothingHeldMoves, Zenon

-----------------------------------------------------------------------------
(* One message of a feed that gives quantities that are not zero, and adds *)
(* no order the manager knows.                                             *)
Message ==
    [type : {"Add"}, id : OrderId, order : SeenOrder]
    \cup [type : {"Cancel"}, id : OrderId]
    \cup [type : {"Execute"}, id : OrderId, qty : Positive]
    \cup [type : {"Replace"}, id : OrderId, price : Price, qty : Positive]
    \cup [type : {"Trade"}, symbol : Symbol]

Process(m) ==
    \/ /\ m.type = "Add"
       /\ ProcessAdd(m.id, m.order.symbol, m.order.side, m.order.price, m.order.qty)
    \/ m.type = "Cancel" /\ ProcessCancel(m.id)
    \/ m.type = "Execute" /\ ProcessExecute(m.id, m.qty)
    \/ m.type = "Replace" /\ ProcessReplace(m.id, m.price, m.qty)
    \/ m.type = "Trade" /\ ProcessTrade(m.symbol)

After(o, m) ==
    IF m.type = "Add" THEN m.order
    ELSE IF m.type = "Cancel" \/ o = None THEN None
    ELSE IF m.type = "Replace" THEN Renewed(o, m.price, m.qty)
    ELSE Left(o, m.qty)

Effect(id, o, m) == IF m.type = "Trade" \/ m.id # id THEN o ELSE After(o, m)

(* A message that changes only the order it names has its effect on all orders. *)
LEMMA NamedOrder ==
    ASSUME NEW m, m.type # "Trade", m.id \in OrderId,
           \A j \in OrderId \ {m.id} : Known(j)' = Known(j),
           NEW o, o = After(Known(m.id), m), Known(m.id)' = o
    PROVE  \A id \in OrderId : Known(id)' = Effect(id, Known(id), m)
BY Zenon DEF Effect

(* The manager's order after the message is what the message says, for     *)
(* every order at once, and the books stay sound.                          *)
LEMMA MessageProcessed ==
    ASSUME None \notin SeenOrder, \A id \in OrderId : SymbolsOf[id] = Symbol,
           BooksInv, HeldOK, NEW m \in Message, m.type = "Add" => Known(m.id) = None, Process(m)
    PROVE  BooksInv' /\ HeldOK' /\ \A id \in OrderId : Known(id)' = Effect(id, Known(id), m)
<1>0. Positive \subseteq Quantity
  BY Zenon DEF Positive
<1>1. CASE m \in [type : {"Add"}, id : OrderId, order : SeenOrder]
  <2> DEFINE x == m.order
  <2>1. m.type = "Add" /\ m.id \in OrderId /\ x \in SeenOrder
    BY Zenon, <1>1
  <2> HIDE DEF x
  <2>2. ProcessAdd(m.id, x.symbol, x.side, x.price, x.qty)
    BY Zenon, <2>1 DEF Process, x
  <2>3. /\ HeldOK'
        /\ \A j \in OrderId \ {m.id} : Known(j)' = Known(j)
        /\ Known(m.id)' = x
    BY <2>1, <2>2, AddSeen, Zenon
  <2>4. BooksInv'
    <3>1. x.symbol \in SymbolsOf[m.id] /\ x.side \in Side /\ x.price \in Price /\ x.qty \in Quantity
      BY Zenon, <1>0, <2>1 DEF SeenOrder
    <3>2. Next
      BY <2>1, <2>2, <3>1, Zenon DEF Next
    <3> QED
      BY Zenon, <3>2, BooksNext
  <2>5. x = After(Known(m.id), m) /\ m.type # "Trade"
    BY Zenon, <2>1 DEF After, x
  <2> QED
    BY <2>1, <2>3, <2>4, <2>5, NamedOrder, Zenon
<1>2. CASE m \in [type : {"Cancel"}, id : OrderId]
  <2>1. m.type = "Cancel" /\ m.id \in OrderId
    BY Zenon, <1>2
  <2>2. ProcessCancel(m.id)
    BY Zenon, <2>1 DEF Process
  <2>3. /\ HeldOK'
        /\ \A j \in OrderId \ {m.id} : Known(j)' = Known(j)
        /\ Known(m.id)' = None
    BY <2>1, <2>2, CancelEffect, Zenon
  <2>4. BooksInv'
    <3>1. Next
      BY <2>1, <2>2, Zenon DEF Next
    <3> QED
      BY Zenon, <3>1, BooksNext
  <2>5. None = After(Known(m.id), m) /\ m.type # "Trade"
    BY Zenon, <2>1 DEF After
  <2> QED
    BY <2>1, <2>3, <2>4, <2>5, NamedOrder, Zenon
<1>3. CASE m \in [type : {"Execute"}, id : OrderId, qty : Positive]
  <2>1. m.type = "Execute" /\ m.id \in OrderId /\ m.qty \in Positive /\ m.qty \in Quantity
    BY Zenon, <1>0, <1>3
  <2>2. ProcessExecute(m.id, m.qty)
    BY Zenon, <2>1 DEF Process
  <2>3. /\ HeldOK'
        /\ \A j \in OrderId \ {m.id} : Known(j)' = Known(j)
        /\ Known(m.id)' = IF Known(m.id) = None THEN None ELSE Left(Known(m.id), m.qty)
    BY <2>1, <2>2, ExecuteEffect, Zenon
  <2>4. BooksInv'
    <3>1. Next
      BY <2>1, <2>2, Zenon DEF Next
    <3> QED
      BY Zenon, <3>1, BooksNext
  <2>5. /\ After(Known(m.id), m) = IF Known(m.id) = None THEN None ELSE Left(Known(m.id), m.qty)
        /\ m.type # "Trade"
    BY Zenon, <2>1 DEF After
  <2>6. Known(m.id)' = After(Known(m.id), m)
    BY <2>3, <2>5, Zenon
  <2> QED
    BY <2>1, <2>3, <2>4, <2>5, <2>6, NamedOrder, Zenon
<1>4. CASE m \in [type : {"Replace"}, id : OrderId, price : Price, qty : Positive]
  <2>1. /\ m.type = "Replace" /\ m.id \in OrderId /\ m.price \in Price
        /\ m.qty \in Positive /\ m.qty \in Quantity
    BY Zenon, <1>0, <1>4
  <2>2. ProcessReplace(m.id, m.price, m.qty)
    BY Zenon, <2>1 DEF Process
  <2>3. /\ HeldOK'
        /\ \A j \in OrderId \ {m.id} : Known(j)' = Known(j)
        /\ Known(m.id)' = IF Known(m.id) = None THEN None
                          ELSE Renewed(Known(m.id), m.price, m.qty)
    BY <2>1, <2>2, ReplaceEffect, Zenon
  <2>4. BooksInv'
    <3>1. Next
      BY <2>1, <2>2, Zenon DEF Next
    <3> QED
      BY Zenon, <3>1, BooksNext
  <2>5. /\ After(Known(m.id), m) = IF Known(m.id) = None THEN None
                                   ELSE Renewed(Known(m.id), m.price, m.qty)
        /\ m.type # "Trade"
    BY Zenon, <2>1 DEF After
  <2>6. Known(m.id)' = After(Known(m.id), m)
    BY <2>3, <2>5, Zenon
  <2> QED
    BY <2>1, <2>3, <2>4, <2>5, <2>6, NamedOrder, Zenon
<1>5. CASE m \in [type : {"Trade"}, symbol : Symbol]
  <2>1. m.type = "Trade" /\ m.symbol \in Symbol
    BY Zenon, <1>5
  <2>2. ProcessTrade(m.symbol)
    BY Zenon, <2>1 DEF Process
  <2>3. HeldOK' /\ \A j \in OrderId : Known(j)' = Known(j)
    BY <2>1, <2>2, TradeEffect, Zenon
  <2>4. BooksInv'
    <3>1. Next
      BY <2>1, <2>2, Zenon DEF Next
    <3> QED
      BY Zenon, <3>1, BooksNext
  <2> QED
    BY <2>1, <2>3, <2>4, Zenon DEF Effect
<1> QED
  BY <1>1, <1>2, <1>3, <1>4, <1>5, Zenon DEF Message
=============================================================================
