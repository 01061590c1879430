-------------------------- MODULE FeedMirrorProofs --------------------------
(***************************************************************************)
(* Proof of BooksMirror, for any number of orders, symbols and prices and  *)
(* any number of messages in flight.                                       *)
(*                                                                         *)
(* BooksMirror speaks of a handler that has caught up.  The invariant that *)
(* carries it through the other states foretells, for every order, what    *)
(* the handler will hold after each message on the wire: it starts at what *)
(* the handler holds now, each message has its effect on it, and what it   *)
(* ends with agrees with the simulator's book.  The generator makes the    *)
(* forecast longer, the handler takes its first entry away.  That the      *)
(* handler's books are sound is taken from BookManagerProofs.              *)
(***************************************************************************)
EXTENDS FeedMirror, FiniteSetTheorems, TLAPS

(* The messages, and what each does to the order it names as the handler   *)
(* sees it.                                                                *)
Message ==
    [type : {"Add"}, id : OrderId, order : SimOrder]
    \cup [type : {"Cancel"}, id : OrderId]
    \cup [type : {"Execute"}, id : OrderId, qty : RandomQuantity]
    \cup [type : {"Replace"}, id : OrderId, price : Price, qty : RandomQuantity]
    \cup [type : {"Trade"}, symbol : Symbol]

Left(o, qty) ==
    IF qty > o.qty THEN o
    ELSE IF qty = o.qty THEN None
    ELSE [symbol |-> o.symbol, side |-> o.side, price |-> o.price, qty |-> o.qty - qty]

Renewed(o, price, qty) ==
    [symbol |-> o.symbol, side |-> o.side, price |-> price, qty |-> qty]

Changed(o, m) ==
    IF m.type = "Add" THEN m.order
    ELSE IF m.type = "Cancel" \/ o = None THEN None
    ELSE IF m.type = "Replace" THEN Renewed(o, m.price, m.qty)
    ELSE Left(o, m.qty)

Effect(id, o, m) == IF m.type = "Trade" \/ m.id # id THEN o ELSE Changed(o, m)

(* An order o of the handler stands for an order x of the simulator: it is *)
(* the same but for trades, and never less.                                *)
Agree(o, x, isTraded) ==
    /\ ~ isTraded => o = x
    /\ x # None => /\ o # None
                   /\ o.symbol = x.symbol /\ o.side = x.side /\ o.price = x.price
                   /\ o.qty >= x.qty

Agrees(id, o) == Agree(o, sim[id], id \in traded)

Entry == SimOrder \cup {None}

Forecast(id, v) ==
    /\ v \in [0 .. Len(wire) -> Entry]
    /\ v[0] = Rebuilt(id)
    /\ \A k \in 1 .. Len(wire) :
        /\ v[k] = Effect(id, v[k - 1], wire[k])
        /\ wire[k].type = "Add" /\ wire[k].id = id => v[k - 1] = None
    /\ Agrees(id, v[Len(wire)])

Foretold == \A id \in OrderId : \E v : Forecast(id, v)

(* An id that was not given out is in no book and no trade. *)
Unused == \A id \in OrderId : id >= next_order_id => sim[id] = None /\ id \notin traded

FeedTyped ==
    /\ sim \in [OrderId -> Entry]
    /\ next_order_id \in 1 .. MaxOrders + 1
    /\ wire \in Seq(Message) /\ Len(wire) <= MaxInFlight
    /\ traded \subseteq OrderId

----------------------------------------------------------------------------
(* The wire gets longer by a message the generator sends ... *)
LEMMA ForecastGrows ==
    ASSUME FeedTyped, NEW m \in Message, wire' = Append(wire, m),
           NEW id \in OrderId, Rebuilt(id)' = Rebuilt(id), NEW v, Forecast(id, v),
           NEW w \in Entry, w = Effect(id, v[Len(wire)], m),
           m.type = "Add" /\ m.id = id => v[Len(wire)] = None,
           Agrees(id, w)'
    PROVE  \E u : Forecast(id, u)'
<1> DEFINE n == Len(wire)
<1>0. PICK u : u = [k \in 0 .. n + 1 |-> IF k <= n THEN v[k] ELSE w]
  BY Zenon
<1>1. n \in Nat /\ Len(wire') = n + 1 /\ wire'[n + 1] = m
      /\ \A k \in 1 .. n : wire'[k] = wire[k]
  BY DEF FeedTyped
<1>2. v \in [0 .. n -> Entry]
  BY Zenon DEF Forecast
<1>3. u \in [0 .. n + 1 -> Entry] /\ u[n + 1] = w /\ \A k \in 0 .. n : u[k] = v[k]
  BY <1>0, <1>1, <1>2
<1>4. u[0] = Rebuilt(id)'
  <2>1. 0 \in 0 .. n
    BY <1>1
  <2> QED
    BY <1>3, <2>1, Zenon DEF Forecast
<1>5. ASSUME NEW k \in 1 .. n + 1
      PROVE  /\ u[k] = Effect(id, u[k - 1], wire'[k])
             /\ wire'[k].type = "Add" /\ wire'[k].id = id => u[k - 1] = None
  <2>1. CASE k = n + 1
    <3>1. n \in 0 .. n /\ k - 1 = n
      BY <1>1, <2>1
    <3>2. u[k - 1] = v[n]
      BY <1>3, <3>1, Zenon
    <3> QED
      BY <1>1, <1>3, <2>1, <3>2, Zenon
  <2>2. CASE k # n + 1
    <3>1. k \in 1 .. n /\ k \in 0 .. n /\ k - 1 \in 0 .. n
      BY <1>1, <2>2
    <3>2. u[k] = v[k] /\ u[k - 1] = v[k - 1] /\ wire'[k] = wire[k]
      BY <1>1, <1>3, <3>1, Zenon
    <3>3. /\ v[k] = Effect(id, v[k - 1], wire[k])
          /\ wire[k].type = "Add" /\ wire[k].id = id => v[k - 1] = None
      BY <3>1, Zenon DEF Forecast
    <3> QED
      BY <3>2, <3>3, Zenon
  <2> QED
    BY Zenon, <2>1, <2>2
<1>6. Agrees(id, u[Len(wire)])'
  BY <1>1, <1>3, Zenon DEF Agrees
<1> HIDE DEF n
<1>7. Forecast(id, u)'
  BY <1>1, <1>3, <1>4, <1>5, <1>6, Zenon DEF Forecast
<1> QED
  BY <1>7, Zenon

(* ... and shorter by the one the handler processes. *)
LEMMA ForecastShrinks ==
    ASSUME FeedTyped, wire # <<>>, wire' = Tail(wire), UNCHANGED <<sim, traded>>,
           NEW id \in OrderId, Rebuilt(id)' = Effect(id, Rebuilt(id), wire[1]),
           NEW v, Forecast(id, v)
    PROVE  \E u : Forecast(id, u)'
<1> DEFINE n == Len(wire)
<1>0. PICK u : u = [k \in 0 .. n - 1 |-> v[k + 1]]
  BY Zenon
<1>1. n \in Nat \ {0} /\ Len(wire') = n - 1 /\ \A k \in 1 .. n - 1 : wire'[k] = wire[k + 1]
  BY DEF FeedTyped
<1>2. v \in [0 .. n -> Entry]
  BY Zenon DEF Forecast
<1>3. u \in [0 .. n - 1 -> Entry] /\ \A k \in 0 .. n - 1 : u[k] = v[k + 1]
  BY <1>0, <1>1, <1>2
<1>4. u[0] = Rebuilt(id)'
  <2>1. 0 \in 0 .. n - 1 /\ 1 \in 1 .. n /\ 0 + 1 = 1 /\ 1 - 1 = 0
    BY <1>1
  <2>2. u[0] = v[1]
    BY <1>3, <2>1, Zenon
  <2>3. v[1] = Effect(id, v[1 - 1], wire[1]) /\ v[0] = Rebuilt(id)
    BY <2>1, Zenon DEF Forecast
  <2> QED
    BY <2>1, <2>2, <2>3, Zenon
<1>5. ASSUME NEW k \in 1 .. n - 1
      PROVE  /\ u[k] = Effect(id, u[k - 1], wire'[k])
             /\ wire'[k].type = "Add" /\ wire'[k].id = id => u[k - 1] = None
  <2>1. /\ k \in 0 .. n - 1 /\ k - 1 \in 0 .. n - 1 /\ k + 1 \in 1 .. n
        /\ (k - 1) + 1 = k /\ (k + 1) - 1 = k
    BY <1>1
  <2>2. u[k] = v[k + 1] /\ u[k - 1] = v[(k - 1) + 1] /\ wire'[k] = wire[k + 1]
    BY <1>1, <1>3, <2>1, Zenon
  <2>3. /\ v[k + 1] = Effect(id, v[(k + 1) - 1], wire[k + 1])
        /\ wire[k + 1].type = "Add" /\ wire[k + 1].id = id => v[(k + 1) - 1] = None
    BY <2>1, Zenon DEF Forecast
  <2> QED
    BY <2>1, <2>2, <2>3, Zenon
<1>6. Agrees(id, u[Len(wire)])'
  <2>1. n - 1 \in 0 .. n - 1 /\ (n - 1) + 1 = n
    BY <1>1
  <2>2. u[n - 1] = v[n]
    BY <1>3, <2>1, Zenon
  <2>3. Agrees(id, v[n])
    BY Zenon DEF Forecast
  <2> QED
    BY <1>1, <2>2, <2>3, Zenon DEF Agrees
<1> HIDE DEF n
<1>7. Forecast(id, u)'
  BY <1>1, <1>3, <1>4, <1>5, <1>6, Zenon DEF Forecast
<1> QED
  BY <1>7, Zenon

----------------------------------------------------------------------------
(* What the generator does to one order, and the message it sends about    *)
(* it, keep the two in agreement.                                          *)

(* A missing order is no order. *)
LEMMA Missing == None \notin SimOrder
BY Zenon, MissingAssumption

(* The same execution on both sides keeps them in agreement. *)
LEMMA AgreeExecuted ==
    ASSUME NEW o \in Entry, NEW x \in SimOrder, NEW isTraded, Agree(o, x, isTraded),
           NEW qty \in 1 .. x.qty
    PROVE  /\ o # None /\ Left(o, qty) \in Entry /\ SimExecute(x, qty) \in Entry
           /\ Agree(Left(o, qty), SimExecute(x, qty), isTraded)
<1>1. /\ x.symbol \in Symbol /\ x.side \in Handler!Side /\ x.price \in Price
      /\ x.qty \in Nat /\ x.qty >= 1 /\ x.qty <= MaxQuantity
  BY MirrorAssumption DEF SimOrder, RandomQuantity
<1>2. /\ o \in SimOrder /\ o # None
      /\ o.symbol = x.symbol /\ o.side = x.side /\ o.price = x.price /\ o.qty >= x.qty
  BY Zenon, Missing DEF Agree, Entry
<1>3. o.qty \in Nat /\ o.qty <= MaxQuantity
  BY <1>2, MirrorAssumption DEF SimOrder, RandomQuantity
<1>4. ~(qty > o.qty) /\ qty \in Nat /\ qty >= 1
  BY <1>1, <1>2, <1>3
<1> DEFINE l == [symbol |-> o.symbol, side |-> o.side, price |-> o.price, qty |-> o.qty - qty]
           y == [symbol |-> x.symbol, side |-> x.side, price |-> x.price, qty |-> x.qty - qty]
<1>5. CASE qty = x.qty /\ qty = o.qty
  <2>1. SimExecute(x, qty) = None
    BY <1>1, <1>5 DEF SimExecute
  <2>2. Left(o, qty) = None
    BY <1>4, <1>5, Zenon DEF Left
  <2> QED
    BY Zenon, <1>2, <2>1, <2>2 DEF Agree, Entry
<1>6. CASE qty # o.qty
  <2>1. Left(o, qty) = l
    BY <1>4, <1>6, Zenon DEF Left
  <2>2. l \in SimOrder
    BY <1>1, <1>2, <1>3, <1>4, <1>6, MirrorAssumption DEF SimOrder, RandomQuantity
  <2>3. CASE qty = x.qty
    <3>1. SimExecute(x, qty) = None
      BY <1>1, <2>3 DEF SimExecute
    <3>2. o # x
      BY Zenon, <1>6, <2>3
    <3> QED
      BY Zenon, <1>2, <2>1, <2>2, <3>1, <3>2 DEF Agree, Entry
  <2>4. CASE qty # x.qty
    <3>1. SimExecute(x, qty) = [x EXCEPT !.qty = x.qty - qty]
      BY <1>1, <2>4 DEF SimExecute
    <3>2. [x EXCEPT !.qty = x.qty - qty] = y
      BY DEF SimOrder
    <3>3. y \in SimOrder
      BY <1>1, <1>4, <2>4, MirrorAssumption DEF SimOrder, RandomQuantity
    <3>4. Agree(l, y, isTraded)
      <4>1. o = x => l = y
        BY Zenon
      <4>2. l # None
        BY Zenon, <2>2, Missing
      <4>3. l.symbol = y.symbol /\ l.side = y.side /\ l.price = y.price
        BY Zenon, <1>2
      <4>4. l.qty >= y.qty
        BY <1>1, <1>2, <1>3, <1>4
      <4> HIDE DEF l, y
      <4> QED
        BY <4>1, <4>2, <4>3, <4>4, Zenon DEF Agree
    <3> HIDE DEF l, y
    <3> QED
      BY Zenon, <1>2, <2>1, <2>2, <3>1, <3>2, <3>3, <3>4 DEF Entry
  <2> QED
    BY Zenon, <2>3, <2>4
<1>7. qty = o.qty => qty = x.qty
  BY <1>1, <1>2, <1>3, <1>4
<1> QED
  BY Zenon, <1>5, <1>6, <1>7

(* A replacement ends what trades have made different. *)
LEMMA AgreeReplaced ==
    ASSUME NEW o \in Entry, NEW x \in SimOrder, Agree(o, x, TRUE),
           NEW price \in Price, NEW qty \in RandomQuantity
    PROVE  /\ o # None /\ Renewed(o, price, qty) \in Entry
           /\ Renewed(x, price, qty) = Renewed(o, price, qty)
           /\ \A isTraded : Agree(Renewed(o, price, qty), Renewed(o, price, qty), isTraded)
<1> DEFINE y == Renewed(o, price, qty)
<1>1. o # None /\ o.symbol = x.symbol /\ o.side = x.side
  BY Zenon, Missing DEF Agree
<1>2. Renewed(x, price, qty) = y
  BY <1>1, Zenon DEF Renewed
<1>3. y \in SimOrder /\ y.qty = qty
  BY Zenon, <1>1 DEF SimOrder, Renewed
<1>4. y.qty >= y.qty /\ y # None
  BY <1>3, MirrorAssumption, Missing DEF RandomQuantity
<1>5. y \in Entry
  BY Zenon, <1>3 DEF Entry
<1> HIDE DEF y
<1>6. \A isTraded : Agree(y, y, isTraded)
  BY <1>4, Zenon DEF Agree
<1> QED
  BY <1>1, <1>2, <1>5, <1>6, Zenon DEF y

(* A trade takes from the simulator's order what the handler keeps. *)
LEMMA AgreeTraded ==
    ASSUME NEW o \in Entry, NEW x \in SimOrder, NEW isTraded, Agree(o, x, isTraded),
           NEW qty \in RandomQuantity
    PROVE  SimExecute(x, qty) \in Entry /\ Agree(o, SimExecute(x, qty), TRUE)
<1>1. /\ x.symbol \in Symbol /\ x.side \in Handler!Side /\ x.price \in Price
      /\ x.qty \in Nat /\ x.qty >= 1 /\ x.qty <= MaxQuantity /\ qty \in Nat /\ qty >= 1
  BY MirrorAssumption DEF SimOrder, RandomQuantity
<1>2. /\ o \in SimOrder /\ o # None
      /\ o.symbol = x.symbol /\ o.side = x.side /\ o.price = x.price /\ o.qty >= x.qty
  BY Zenon, Missing DEF Agree, Entry
<1>3. o.qty \in Nat
  BY <1>2, MirrorAssumption DEF SimOrder, RandomQuantity
<1>4. CASE qty >= x.qty
  BY Zenon, <1>4 DEF SimExecute, Agree, Entry
<1>5. CASE ~(qty >= x.qty)
  <2> DEFINE y == [symbol |-> x.symbol, side |-> x.side, price |-> x.price, qty |-> x.qty - qty]
  <2>1. SimExecute(x, qty) = [x EXCEPT !.qty = x.qty - qty]
    BY Zenon, <1>5 DEF SimExecute
  <2>2. [x EXCEPT !.qty = x.qty - qty] = y
    BY DEF SimOrder
  <2>3. y \in SimOrder
    BY <1>1, <1>5, MirrorAssumption DEF SimOrder, RandomQuantity
  <2>4. Agree(o, y, TRUE)
    BY <1>1, <1>2, <1>3 DEF Agree
  <2> QED
    BY Zenon, <2>1, <2>2, <2>3, <2>4 DEF Entry
<1> QED
  BY Zenon, <1>4, <1>5

----------------------------------------------------------------------------
(* The steps of the generator.  Each sends one message. *)
LEMMA SentForetold ==
    ASSUME FeedTyped, Foretold, NEW m \in Message, wire' = Append(wire, m), UNCHANGED handler,
           \A id \in OrderId, o \in Entry : Agrees(id, o) =>
              /\ Effect(id, o, m) \in Entry
              /\ Agree(Effect(id, o, m), sim'[id], id \in traded')
              /\ m.type = "Add" /\ m.id = id => o = None
    PROVE  Foretold'
<1> SUFFICES ASSUME NEW id \in OrderId PROVE \E u : Forecast(id, u)'
  BY Zenon DEF Foretold
<1>1. PICK v : Forecast(id, v)
  BY Zenon DEF Foretold
<1>2. PICK o : o = v[Len(wire)]
  BY Zenon
<1>3. o \in Entry /\ Agrees(id, o)
  <2>1. v \in [0 .. Len(wire) -> Entry] /\ Agrees(id, o)
    BY <1>1, <1>2, Zenon DEF Forecast
  <2>2. Len(wire) \in 0 .. Len(wire)
    BY DEF FeedTyped
  <2> QED
    BY <1>2, <2>1, <2>2, Zenon
<1>4. PICK w : w = Effect(id, o, m)
  BY Zenon
<1>5. w \in Entry /\ Agrees(id, w)' /\ (m.type = "Add" /\ m.id = id => o = None)
  BY <1>3, <1>4, Zenon DEF Agrees
<1>6. Rebuilt(id)' = Rebuilt(id)
  BY Zenon DEF handler, Rebuilt
<1>7. w = Effect(id, v[Len(wire)], m)
  BY <1>2, <1>4, Zenon
<1>8. m.type = "Add" /\ m.id = id => v[Len(wire)] = None
  BY <1>2, <1>5, Zenon
<1> QED
  BY <1>1, <1>5, <1>6, <1>7, <1>8, ForecastGrows, Zenon

(* An order no message names. *)
LEMMA AgreeKept ==
    ASSUME NEW id, NEW o, Agrees(id, o), sim'[id] = sim[id],
           id \in traded' <=> id \in traded
    PROVE  Agree(o, sim'[id], id \in traded')
BY Zenon DEF Agrees, Agree

Feed == FeedTyped /\ Unused /\ Foretold

(* MarketSimulator sends behind what is on the wire. *)
LEMMA WireGrows ==
    ASSUME FeedTyped, NEW m \in Message, Send(m)
    PROVE  wire' = Append(wire, m) /\ wire' \in Seq(Message) /\ Len(wire') <= MaxInFlight
<1>1. wire' = Append(wire, m) /\ Len(wire) < MaxInFlight
  BY Zenon DEF Send
<1> QED
  BY <1>1, MirrorAssumption DEF FeedTyped

(* OrderGenerator::generate_add keeps the forecast true. *)
LEMMA AddKept == Feed /\ GenerateAdd => Feed'
<1> SUFFICES ASSUME FeedTyped, Unused, Foretold, GenerateAdd PROVE Feed'
  BY Zenon DEF Feed
<1> DEFINE id == next_order_id
<1>1. PICK order \in SimOrder :
        /\ sim' = [sim EXCEPT ![id] = order]
        /\ Send([type |-> "Add", id |-> id, order |-> order])
  BY Zenon DEF GenerateAdd
<1>2. id \in OrderId /\ next_order_id' = next_order_id + 1 /\ traded' = traded
      /\ UNCHANGED handler
  BY DEF GenerateAdd, FeedTyped, OrderId
<1>3. PICK m : m = [type |-> "Add", id |-> id, order |-> order]
  BY Zenon
<1>4. m \in Message /\ m.type = "Add" /\ m.id = id /\ m.order = order
  BY Zenon, <1>2, <1>3 DEF Message
<1>5. wire' = Append(wire, m) /\ wire' \in Seq(Message) /\ Len(wire') <= MaxInFlight
  BY <1>1, <1>3, <1>4, WireGrows, Zenon
<1>6. sim'[id] = order /\ \A j \in OrderId \ {id} : sim'[j] = sim[j]
  BY Zenon, <1>1, <1>2 DEF FeedTyped
<1>7. FeedTyped'
  <2>1. sim' \in [OrderId -> Entry]
    BY Zenon, <1>1, <1>2 DEF FeedTyped, Entry
  <2>2. next_order_id' \in 1 .. MaxOrders + 1
    BY <1>2, MirrorAssumption DEF OrderId
  <2> QED
    BY <1>2, <1>5, <2>1, <2>2, Zenon DEF FeedTyped
<1>8. Unused'
  <2> SUFFICES ASSUME NEW j \in OrderId, j >= next_order_id'
               PROVE  sim'[j] = None /\ j \notin traded'
    BY Zenon DEF Unused
  <2>1. j >= next_order_id /\ j # id
    BY <1>2 DEF OrderId
  <2>2. sim[j] = None /\ j \notin traded
    BY <2>1, Zenon DEF Unused
  <2> QED
    BY <1>2, <1>6, <2>1, <2>2, Zenon
<1>9. ASSUME NEW j \in OrderId, NEW o \in Entry, Agrees(j, o)
      PROVE  /\ Effect(j, o, m) \in Entry
             /\ Agree(Effect(j, o, m), sim'[j], j \in traded')
             /\ m.type = "Add" /\ m.id = j => o = None
  <2>1. CASE j # id
    <3>1. Effect(j, o, m) = o
      BY <1>4, <2>1, Zenon DEF Effect
    <3>2. sim'[j] = sim[j]
      BY <1>6, <2>1, Zenon
    <3> QED
      BY <1>2, <1>4, <1>9, <2>1, <3>1, <3>2, AgreeKept, Zenon
  <2>2. CASE j = id
    <3>1. Effect(j, o, m) = order
      BY Zenon, <1>4, <2>2 DEF Effect, Changed
    <3>2. sim[id] = None /\ id \notin traded
      <4>1. id >= next_order_id
        BY DEF FeedTyped
      <4> QED
        BY <1>2, <4>1, Zenon DEF Unused
    <3>3. o = None
      BY <1>9, <2>2, <3>2, Zenon DEF Agrees, Agree
    <3>4. order.qty >= order.qty /\ order # None
      BY MirrorAssumption, Missing DEF SimOrder, RandomQuantity
    <3>5. Agree(order, order, j \in traded')
      BY <3>4, Zenon DEF Agree
    <3> QED
      BY <1>6, <2>2, <3>1, <3>3, <3>5, Zenon DEF Entry
  <2> QED
    BY Zenon, <2>1, <2>2
<1>10. Foretold'
  BY <1>2, <1>4, <1>5, <1>9, SentForetold, Zenon
<1> QED
  BY Zenon, <1>7, <1>8, <1>10 DEF Feed

(* A message about a live order: the other orders keep their agreement. *)
LEMMA LiveOrderSent ==
    ASSUME Feed, NEW id \in OrderId, sim[id] # None,
           NEW m \in Message, m.type # "Add", m.type # "Trade", m.id = id, Send(m),
           NEW y \in Entry, sim' = [sim EXCEPT ![id] = y], traded' \in {traded, traded \ {id}},
           UNCHANGED <<next_order_id, handler>>,
           \A o \in Entry : Agrees(id, o) =>
              Effect(id, o, m) \in Entry /\ Agree(Effect(id, o, m), y, id \in traded')
    PROVE  Feed'
<1>0. FeedTyped /\ Unused /\ Foretold
  BY Zenon DEF Feed
<1>1. wire' = Append(wire, m) /\ wire' \in Seq(Message) /\ Len(wire') <= MaxInFlight
  BY <1>0, WireGrows, Zenon
<1>2. sim' \in [OrderId -> Entry] /\ sim'[id] = y /\ \A j \in OrderId \ {id} : sim'[j] = sim[j]
  BY Zenon, <1>0 DEF FeedTyped
<1>3. traded' \subseteq traded /\ \A j \in OrderId \ {id} : j \in traded' <=> j \in traded
  BY Zenon
<1>4. FeedTyped'
  BY Zenon, <1>0, <1>1, <1>2, <1>3 DEF FeedTyped
<1>5. Unused'
  <2> SUFFICES ASSUME NEW j \in OrderId, j >= next_order_id'
               PROVE  sim'[j] = None /\ j \notin traded'
    BY Zenon DEF Unused
  <2>1. sim[j] = None /\ j \notin traded
    BY <1>0, Zenon DEF Unused
  <2> QED
    BY <1>2, <1>3, <2>1, Zenon
<1>6. ASSUME NEW j \in OrderId, NEW o \in Entry, Agrees(j, o)
      PROVE  /\ Effect(j, o, m) \in Entry
             /\ Agree(Effect(j, o, m), sim'[j], j \in traded')
             /\ m.type = "Add" /\ m.id = j => o = None
  <2>1. CASE j # id
    <3>1. Effect(j, o, m) = o
      BY <2>1, Zenon DEF Effect
    <3>2. sim'[j] = sim[j] /\ (j \in traded' <=> j \in traded)
      BY <1>2, <1>3, <2>1, Zenon
    <3>3. Agree(o, sim'[j], j \in traded')
      BY <1>6, <3>2, AgreeKept, Zenon
    <3> QED
      BY <3>1, <3>3, Zenon
  <2>2. CASE j = id
    BY <1>2, <1>6, <2>2, Zenon
  <2> QED
    BY Zenon, <2>1, <2>2
<1>7. UNCHANGED handler
  BY Zenon
<1>8. Foretold'
  BY <1>0, <1>1, <1>6, <1>7, SentForetold, Zenon
<1> QED
  BY Zenon, <1>4, <1>5, <1>8 DEF Feed

(* An order that the generator picks is in the simulator's book. *)
LEMMA LiveOrder ==
    ASSUME Feed, NEW id \in AllLive
    PROVE  id \in OrderId /\ sim[id] \in SimOrder /\ sim[id] # None
BY Zenon DEF Feed, FeedTyped, AllLive, Live, Entry

(* OrderGenerator::generate_cancel keeps the forecast true. *)
LEMMA CancelKept == Feed /\ GenerateCancel => Feed'
<1> SUFFICES ASSUME Feed, GenerateCancel PROVE Feed'
  BY Zenon
<1>1. PICK id \in AllLive :
        /\ sim' = [sim EXCEPT ![id] = None]
        /\ Send([type |-> "Cancel", id |-> id])
        /\ traded' = traded \ {id}
  BY Zenon DEF GenerateCancel
<1>2. id \in OrderId /\ sim[id] # None
  BY LiveOrder, Zenon
<1>3. PICK m : m = [type |-> "Cancel", id |-> id]
  BY Zenon
<1>4. m \in Message /\ m.type = "Cancel" /\ m.id = id
  BY Zenon, <1>2, <1>3 DEF Message
<1>5. m.type # "Add" /\ m.type # "Trade" /\ Send(m) /\ traded' \in {traded, traded \ {id}}
  BY Zenon, <1>1, <1>3, <1>4
<1>6. ASSUME NEW o \in Entry
      PROVE  Effect(id, o, m) \in Entry /\ Agree(Effect(id, o, m), None, id \in traded')
  <2>1. Effect(id, o, m) = None
    BY Zenon, <1>4 DEF Effect, Changed
  <2> QED
    BY <2>1, Zenon DEF Agree, Entry
<1>7. UNCHANGED <<next_order_id, handler>> /\ None \in Entry
  BY Zenon DEF GenerateCancel, Entry
<1> QED
  BY <1>1, <1>2, <1>4, <1>5, <1>6, <1>7, LiveOrderSent, Zenon

(* OrderGenerator::generate_execute keeps the forecast true. *)
LEMMA ExecuteKept == Feed /\ GenerateExecute => Feed'
<1> SUFFICES ASSUME Feed, GenerateExecute PROVE Feed'
  BY Zenon
<1>1. PICK id \in AllLive : \E qty \in 1 .. sim[id].qty :
        /\ sim' = [sim EXCEPT ![id] = SimExecute(sim[id], qty)]
        /\ Send([type |-> "Execute", id |-> id, qty |-> qty])
  BY Zenon DEF GenerateExecute
<1>2. PICK qty \in 1 .. sim[id].qty :
        /\ sim' = [sim EXCEPT ![id] = SimExecute(sim[id], qty)]
        /\ Send([type |-> "Execute", id |-> id, qty |-> qty])
  BY <1>1, Zenon
<1>3. id \in OrderId /\ sim[id] \in SimOrder /\ sim[id] # None
  BY LiveOrder, Zenon
<1>4. qty \in RandomQuantity
  <2>1. sim[id].qty \in RandomQuantity
    BY Zenon, <1>3 DEF SimOrder
  <2> QED
    BY <2>1, MirrorAssumption DEF RandomQuantity
<1>5. PICK m : m = [type |-> "Execute", id |-> id, qty |-> qty]
  BY Zenon
<1>6. m \in Message /\ m.type = "Execute" /\ m.id = id /\ m.qty = qty
  BY Zenon, <1>3, <1>4, <1>5 DEF Message
<1>7. PICK y : y = SimExecute(sim[id], qty)
  BY Zenon
<1>8. /\ UNCHANGED <<next_order_id, handler>> /\ traded' = traded
      /\ traded' \in {traded, traded \ {id}}
  BY Zenon DEF GenerateExecute
<1>9. ASSUME NEW o \in Entry, Agrees(id, o)
      PROVE  /\ Effect(id, o, m) \in Entry /\ Agree(Effect(id, o, m), y, id \in traded')
             /\ y \in Entry
  <2>1. PICK x \in SimOrder : x = sim[id]
    BY <1>3, Zenon
  <2>2. Agree(o, x, id \in traded) /\ qty \in 1 .. x.qty
    BY <1>9, <2>1, Zenon DEF Agrees
  <2>3. /\ o # None /\ Left(o, qty) \in Entry /\ SimExecute(x, qty) \in Entry
        /\ Agree(Left(o, qty), SimExecute(x, qty), id \in traded)
    BY <2>2, AgreeExecuted, Zenon
  <2>4. Effect(id, o, m) = Left(o, qty)
    BY Zenon, <1>6, <2>3 DEF Effect, Changed
  <2> QED
    BY <1>7, <1>8, <2>1, <2>3, <2>4, Zenon
<1>10. y \in Entry
  <2>1. Agree(sim[id], sim[id], TRUE)
    BY <1>3, MirrorAssumption DEF Agree, SimOrder, RandomQuantity
  <2>2. sim[id] \in Entry
    BY Zenon, <1>3 DEF Entry
  <2> QED
    BY <1>3, <1>7, <2>1, <2>2, AgreeExecuted, Zenon
<1>11. m.type # "Add" /\ m.type # "Trade" /\ Send(m) /\ sim' = [sim EXCEPT ![id] = y]
  BY Zenon, <1>2, <1>5, <1>6, <1>7
<1> QED
  BY <1>3, <1>6, <1>8, <1>9, <1>10, <1>11, LiveOrderSent, Zenon

(* OrderGenerator::generate_replace keeps the forecast true. *)
LEMMA ReplaceKept == Feed /\ GenerateReplace => Feed'
<1> SUFFICES ASSUME Feed, GenerateReplace PROVE Feed'
  BY Zenon
<1>1. PICK id \in AllLive, price \in Price, qty \in RandomQuantity :
        /\ sim' = [sim EXCEPT ![id].price = price, ![id].qty = qty]
        /\ Send([type |-> "Replace", id |-> id, price |-> price, qty |-> qty])
        /\ traded' = traded \ {id}
  BY Zenon DEF GenerateReplace
<1>2. id \in OrderId /\ sim[id] \in SimOrder /\ sim[id] # None
  BY LiveOrder, Zenon
<1>3. PICK m : m = [type |-> "Replace", id |-> id, price |-> price, qty |-> qty]
  BY Zenon
<1>4. m \in Message /\ m.type = "Replace" /\ m.id = id /\ m.price = price /\ m.qty = qty
  BY Zenon, <1>2, <1>3 DEF Message
<1>5. PICK x \in SimOrder : x = sim[id]
  BY <1>2, Zenon
<1>6. PICK y : y = [x EXCEPT !.price = price, !.qty = qty]
  BY Zenon
<1>7. sim' = [sim EXCEPT ![id] = y]
  BY Zenon, <1>1, <1>2, <1>5, <1>6 DEF Feed, FeedTyped
<1>8. /\ UNCHANGED <<next_order_id, handler>> /\ id \notin traded'
      /\ traded' \in {traded, traded \ {id}}
  BY Zenon, <1>1 DEF GenerateReplace
<1>9. ASSUME NEW o \in Entry, Agrees(id, o)
      PROVE  Effect(id, o, m) \in Entry /\ Agree(Effect(id, o, m), y, id \in traded')
  <2>1. Agree(o, x, TRUE)
    BY <1>5, <1>9, Zenon DEF Agrees, Agree
  <2>2. /\ o # None /\ Renewed(o, price, qty) \in Entry
        /\ Renewed(x, price, qty) = Renewed(o, price, qty)
        /\ \A isTraded : Agree(Renewed(o, price, qty), Renewed(o, price, qty), isTraded)
    BY <2>1, AgreeReplaced, Zenon
  <2>3. y = Renewed(x, price, qty)
    BY <1>6, Zenon DEF SimOrder, Renewed
  <2>4. Effect(id, o, m) = Renewed(o, price, qty)
    BY Zenon, <1>4, <2>2 DEF Effect, Changed
  <2> QED
    BY <2>2, <2>3, <2>4, Zenon
<1>10. y \in Entry
  BY Zenon, <1>6 DEF SimOrder, Entry
<1>11. m.type # "Add" /\ m.type # "Trade" /\ Send(m)
  BY Zenon, <1>1, <1>3, <1>4
<1> QED
  BY <1>2, <1>4, <1>7, <1>8, <1>9, <1>10, <1>11, LiveOrderSent, Zenon

(* A trade, of which the handler learns nothing, keeps the forecast true. *)
LEMMA TradeKept == Feed /\ GenerateTrade => Feed'
<1> SUFFICES ASSUME Feed, GenerateTrade PROVE Feed'
  BY Zenon
<1>0. FeedTyped /\ Unused /\ Foretold
  BY Zenon DEF Feed
<1> DEFINE Least(b, a) == IF sim[b].qty <= sim[a].qty THEN sim[b].qty ELSE sim[a].qty
<1>1. PICK bid \in Live("Buy"), ask \in Live("Sell") :
        /\ sim' = [sim EXCEPT ![bid] = SimExecute(@, Least(bid, ask)),
                              ![ask] = SimExecute(@, Least(bid, ask))]
        /\ Send([type |-> "Trade", symbol |-> sim[bid].symbol])
        /\ traded' = traded \cup {bid, ask}
  BY Zenon DEF GenerateTrade
<1>2. /\ bid \in OrderId /\ sim[bid] \in SimOrder /\ sim[bid] # None
      /\ ask \in OrderId /\ sim[ask] \in SimOrder /\ sim[ask] # None
      /\ bid # ask
  BY Zenon, <1>0 DEF FeedTyped, Live, Entry
<1>3. PICK qty : qty = Least(bid, ask)
  BY Zenon
<1>4. qty \in RandomQuantity
  BY Zenon, <1>2, <1>3 DEF SimOrder
<1>5. PICK m : m = [type |-> "Trade", symbol |-> sim[bid].symbol]
  BY Zenon
<1>6. m \in Message /\ m.type = "Trade" /\ m.type # "Add"
  BY Zenon, <1>2, <1>5 DEF Message, SimOrder
<1>7. wire' = Append(wire, m) /\ wire' \in Seq(Message) /\ Len(wire') <= MaxInFlight
  BY <1>0, <1>1, <1>5, <1>6, WireGrows, Zenon
<1>8. /\ sim'[bid] = SimExecute(sim[bid], qty) /\ sim'[ask] = SimExecute(sim[ask], qty)
      /\ \A j \in OrderId \ {bid, ask} : sim'[j] = sim[j]
  <2>1. sim' = [sim EXCEPT ![bid] = SimExecute(sim[bid], qty), ![ask] = SimExecute(sim[ask], qty)]
    BY Zenon, <1>0, <1>1, <1>2, <1>3 DEF FeedTyped
  <2> QED
    BY Zenon, <1>0, <1>2, <2>1 DEF FeedTyped
<1>9. /\ UNCHANGED <<next_order_id, handler>>
      /\ \A j \in OrderId \ {bid, ask} : j \in traded' <=> j \in traded
      /\ bid \in traded' /\ ask \in traded' /\ traded' \subseteq traded \cup {bid, ask}
  BY Zenon, <1>1 DEF GenerateTrade
<1>10. ASSUME NEW j \in {bid, ask}, NEW o \in Entry, Agrees(j, o)
       PROVE  sim'[j] \in Entry /\ Agree(o, sim'[j], j \in traded')
  <2>1. PICK x \in SimOrder : x = sim[j]
    BY <1>2, Zenon
  <2>2. Agree(o, x, j \in traded)
    BY <1>10, <2>1, Zenon DEF Agrees
  <2>3. SimExecute(x, qty) \in Entry /\ Agree(o, SimExecute(x, qty), TRUE)
    BY <1>4, <2>2, AgreeTraded, Zenon
  <2>4. sim'[j] = SimExecute(x, qty) /\ j \in traded'
    BY <1>8, <1>9, <2>1, Zenon
  <2> QED
    BY <2>3, <2>4, Zenon DEF Agree
<1>11. FeedTyped'
  <2>1. ASSUME NEW j \in {bid, ask} PROVE sim'[j] \in Entry
    <3>1. PICK v : Forecast(j, v)
      BY <1>0, <1>2, Zenon DEF Foretold
    <3>2. Len(wire) \in 0 .. Len(wire)
      BY <1>0 DEF FeedTyped
    <3>3. v[Len(wire)] \in Entry /\ Agrees(j, v[Len(wire)])
      BY <3>1, <3>2, Zenon DEF Forecast
    <3>4. PICK o \in Entry : o = v[Len(wire)]
      BY <3>3, Zenon
    <3> QED
      BY <1>10, <3>3, <3>4, Zenon
  <2>2. sim' \in [OrderId -> Entry]
    <3>1. \A j \in OrderId : sim'[j] \in Entry
      BY Zenon, <1>0, <1>8, <2>1 DEF FeedTyped
    <3>2. sim' = [j \in OrderId |-> sim'[j]]
      BY Zenon, <1>0, <1>1 DEF FeedTyped
    <3> QED
      BY <3>1, <3>2, Zenon
  <2> QED
    BY Zenon, <1>0, <1>2, <1>7, <1>9, <2>2 DEF FeedTyped
<1>12. Unused'
  <2> SUFFICES ASSUME NEW j \in OrderId, j >= next_order_id'
               PROVE  sim'[j] = None /\ j \notin traded'
    BY Zenon DEF Unused
  <2>1. sim[j] = None /\ j \notin traded
    BY <1>0, <1>9, Zenon DEF Unused
  <2> QED
    BY <1>2, <1>8, <1>9, <2>1, Zenon
<1>13. ASSUME NEW j \in OrderId, NEW o \in Entry, Agrees(j, o)
       PROVE  /\ Effect(j, o, m) \in Entry
              /\ Agree(Effect(j, o, m), sim'[j], j \in traded')
              /\ m.type = "Add" /\ m.id = j => o = None
  <2>1. Effect(j, o, m) = o
    BY <1>6, Zenon DEF Effect
  <2>2. CASE j \in {bid, ask}
    BY <1>6, <1>10, <1>13, <2>1, <2>2, Zenon
  <2>3. CASE j \notin {bid, ask}
    <3>1. sim'[j] = sim[j] /\ (j \in traded' <=> j \in traded)
      BY <1>8, <1>9, <2>3, Zenon
    <3>2. Agree(o, sim'[j], j \in traded')
      BY <1>13, <3>1, AgreeKept, Zenon
    <3> QED
      BY <1>6, <2>1, <3>2, Zenon
  <2> QED
    BY Zenon, <2>2, <2>3
<1>14. UNCHANGED handler
  BY Zenon, <1>9
<1>15. Foretold'
  BY <1>0, <1>6, <1>7, <1>13, <1>14, SentForetold, Zenon
<1> QED
  BY Zenon, <1>11, <1>12, <1>15 DEF Feed

(* A step that delivers a message. *)
LEMMA DeliverKept ==
    ASSUME Feed, wire # <<>>, wire' = Tail(wire), UNCHANGED <<sim, next_order_id, traded>>,
           \A id \in OrderId : Rebuilt(id)' = Effect(id, Rebuilt(id), wire[1])
    PROVE  Feed'
<1>0. FeedTyped /\ Unused /\ Foretold
  BY Zenon DEF Feed
<1>1. FeedTyped'
  <2>1. Tail(wire) \in Seq(Message) /\ Len(Tail(wire)) <= MaxInFlight
    BY <1>0, MirrorAssumption DEF FeedTyped
  <2> QED
    BY Zenon, <1>0, <2>1 DEF FeedTyped
<1>2. Unused'
  BY <1>0, Zenon DEF Unused
<1>3. ASSUME NEW id \in OrderId PROVE \E u : Forecast(id, u)'
  <2>1. PICK v : Forecast(id, v)
    BY <1>0, Zenon DEF Foretold
  <2>2. UNCHANGED <<sim, traded>>
    BY Zenon
  <2> QED
    BY <1>0, <2>1, <2>2, ForecastShrinks, Zenon
<1>4. Foretold'
  BY <1>3, Zenon DEF Foretold
<1> QED
  BY Zenon, <1>1, <1>2, <1>4 DEF Feed

(* The forecast of a handler that has caught up is what it holds. *)
LEMMA CaughtUpAgrees ==
    ASSUME Feed, wire = <<>>, NEW id \in OrderId
    PROVE  Agrees(id, Rebuilt(id))
<1>1. PICK v : Forecast(id, v)
  BY Zenon DEF Feed, Foretold
<1>2. Len(wire) = 0
  BY Zenon
<1> QED
  BY <1>1, <1>2, Zenon DEF Forecast

(* An order is added only when the handler does not hold it. *)
LEMMA AddIsNew ==
    ASSUME Feed, wire # <<>>, wire[1].type = "Add", wire[1].id \in OrderId
    PROVE  Rebuilt(wire[1].id) = None
<1> DEFINE id == wire[1].id
<1>1. PICK v : Forecast(id, v)
  BY Zenon DEF Feed, Foretold
<1>2. 1 \in 1 .. Len(wire) /\ 1 - 1 = 0
  BY DEF Feed, FeedTyped
<1>3. v[1 - 1] = None /\ v[0] = Rebuilt(id)
  BY <1>1, <1>2, Zenon DEF Forecast
<1> QED
  BY <1>2, <1>3, Zenon

----------------------------------------------------------------------------
(* The handler's own proofs. *)
Manager == INSTANCE BookManagerProofs

(* The constants of the handler are as BookManager wants them. *)
LEMMA ManagerAssumptions ==
    /\ Manager!OrderIdAssumption /\ Manager!PriceAssumption /\ Manager!QuantityAssumption
    /\ Manager!NoneAssumption /\ Manager!SymbolAssumption
<1>1. Manager!OrderIdAssumption
  <2>1. IsFiniteSet(1 .. MaxOrders)
    BY MirrorAssumption, FS_Interval
  <2> QED
    BY Zenon, <2>1 DEF Manager!OrderIdAssumption, OrderId, IsFiniteSet, Manager!IsFiniteSet
<1>2. Manager!PriceAssumption /\ Manager!QuantityAssumption
  BY Zenon, MirrorAssumption DEF Manager!PriceAssumption, Manager!QuantityAssumption,
                          IsFiniteSet, Manager!IsFiniteSet
<1>3. Manager!NoneAssumption
  BY MissingAssumption
     DEF Manager!NoneAssumption, Manager!Order, Manager!Book, Manager!Top, Manager!Level,
         Manager!Side, Manager!Quantity, Handler!Order, Handler!Book, Handler!Top, Handler!Level,
         Handler!Side, Handler!Quantity
<1>4. Manager!SymbolAssumption
  BY Zenon, MirrorAssumption DEF Manager!SymbolAssumption, SymbolsOf
<1> QED
  BY Zenon, <1>1, <1>2, <1>3, <1>4

(* The invariant of the books, in a handler that takes its messages from the wire. *)
LEMMA ManagerInit == Manager!Init => Manager!BooksInv
  BY Zenon, ManagerAssumptions, Manager!BooksInit

(* Every event keeps the books sound, from BookManagerProofs. *)
LEMMA ManagerNext == Manager!BooksInv /\ [Manager!Next]_Manager!vars => Manager!BooksInv'
  BY Zenon, ManagerAssumptions, Manager!BooksNext

(* Both instances are the same handler. *)
LEMMA SameInit == Handler!Init => Manager!Init
  BY Zenon DEF Handler!Init, Manager!Init

(* The two instances of BookManager have the same types ... *)
LEMMA SameTypes == Manager!TypeOK => Handler!TypeOK
  BY Zenon DEF Manager!TypeOK, Manager!Order, Manager!Book, Manager!Top, Manager!Level,
         Manager!Side, Manager!Quantity, Handler!TypeOK, Handler!Order, Handler!Book, Handler!Top,
         Handler!Level, Handler!Side, Handler!Quantity

(* ... the same Add ... *)
LEMMA SameAdd ==
    ASSUME NEW id, NEW s, NEW side, NEW price, NEW qty
    PROVE  Handler!ProcessAdd(id, s, side, price, qty) <=> Manager!ProcessAdd(id, s, side, price, qty)
  BY Zenon
     DEF Handler!ProcessAdd, Manager!ProcessAdd, Handler!SetBook, Manager!SetBook, Handler!AddOrder,
         Manager!AddOrder, Handler!GetOrCreate, Manager!GetOrCreate, Handler!MakeUpdate,
         Manager!MakeUpdate, Handler!Best, Manager!Best, Handler!Better, Manager!Better,
         Handler!AddToSide, Manager!AddToSide, Handler!LevelAdd, Manager!LevelAdd,
         Handler!EmptyBook, Manager!EmptyBook, Handler!NoLevel, Manager!NoLevel,
         Handler!MakeOrder, Manager!MakeOrder, Handler!Side, Manager!Side

(* ... the same Cancel ... *)
LEMMA SameCancel ==
    ASSUME NEW id
    PROVE  Handler!ProcessCancel(id) <=> Manager!ProcessCancel(id)
  BY Zenon
     DEF Handler!ProcessCancel, Manager!ProcessCancel, Handler!SetBook, Manager!SetBook,
         Handler!Routed, Manager!Routed, Handler!Ignore, Manager!Ignore, Handler!CancelOrder,
         Manager!CancelOrder, Handler!MakeUpdate, Manager!MakeUpdate, Handler!Best, Manager!Best,
         Handler!Better, Manager!Better, Handler!RemoveFromSide, Manager!RemoveFromSide,
         Handler!LevelRemove, Manager!LevelRemove, Handler!NoLevel, Manager!NoLevel

(* ... the same Execute ... *)
LEMMA SameExecute ==
    ASSUME NEW id, NEW qty
    PROVE  Handler!ProcessExecute(id, qty) <=> Manager!ProcessExecute(id, qty)
  BY Zenon
     DEF Handler!ProcessExecute, Manager!ProcessExecute, Handler!SetBook, Manager!SetBook,
         Handler!Routed, Manager!Routed, Handler!Ignore, Manager!Ignore, Handler!ExecuteOrder,
         Manager!ExecuteOrder, Handler!MakeUpdate, Manager!MakeUpdate, Handler!Best, Manager!Best,
         Handler!Better, Manager!Better, Handler!LevelExecute, Manager!LevelExecute,
         Handler!NoLevel, Manager!NoLevel, Handler!MakeOrder, Manager!MakeOrder

(* ... the same Replace ... *)
LEMMA SameReplace ==
    ASSUME NEW id, NEW price, NEW qty
    PROVE  Handler!ProcessReplace(id, price, qty) <=> Manager!ProcessReplace(id, price, qty)
  BY Zenon
     DEF Handler!ProcessReplace, Manager!ProcessReplace, Handler!SetBook, Manager!SetBook,
         Handler!Routed, Manager!Routed, Handler!Ignore, Manager!Ignore, Handler!ReplaceOrder,
         Manager!ReplaceOrder, Handler!MakeUpdate, Manager!MakeUpdate, Handler!Best, Manager!Best,
         Handler!Better, Manager!Better, Handler!AddToSide, Manager!AddToSide,
         Handler!LevelAdd, Manager!LevelAdd, Handler!RemoveFromSide, Manager!RemoveFromSide,
         Handler!LevelRemove, Manager!LevelRemove, Handler!NoLevel, Manager!NoLevel,
         Handler!MakeOrder, Manager!MakeOrder

(* ... and the same Trade. *)
LEMMA SameTrade ==
    ASSUME NEW s
    PROVE  Handler!ProcessTrade(s) <=> Manager!ProcessTrade(s)
  BY Zenon
     DEF Handler!ProcessTrade, Manager!ProcessTrade, Handler!SetBook, Manager!SetBook,
         Handler!GetOrCreate, Manager!GetOrCreate, Handler!MakeUpdate, Manager!MakeUpdate,
         Handler!Best, Manager!Best, Handler!Better, Manager!Better, Handler!EmptyBook,
         Manager!EmptyBook, Handler!NoLevel, Manager!NoLevel, Handler!Side, Manager!Side

----------------------------------------------------------------------------
(* The manager's lemma on one message, for the messages of the wire. *)
LEMMA SameProcess == \A m : Process(m) <=> Manager!Process(m)
BY SameAdd, SameCancel, SameExecute, SameReplace, SameTrade, Zenon
   DEF Process, Manager!Process

(* The messages of the wire are those of BookManagerProofs ... *)
LEMMA SameMessages == Manager!Message = Message /\ None \notin Manager!SeenOrder
<1>1. Manager!Positive = RandomQuantity
  BY MirrorAssumption DEF Manager!Positive, Manager!Quantity, RandomQuantity
<1>2. Manager!SeenOrder = SimOrder
  BY <1>1 DEF Manager!SeenOrder, SimOrder, Manager!Side, Handler!Side
<1> QED
  BY Zenon, <1>1, <1>2, Missing DEF Manager!Message, Message

(* ... with the same effects ... *)
LEMMA SameEffect == \A id, o, m : Manager!Effect(id, o, m) = Effect(id, o, m)
BY Zenon DEF Manager!Effect, Effect, Manager!After, Changed, Manager!Left, Left,
             Manager!Renewed, Renewed

(* ... on the same orders, now ... *)
LEMMA SameOrders == \A id \in OrderId : Manager!Known(id) = Rebuilt(id)
BY Zenon DEF Manager!Known, Rebuilt

(* ... and after a step. *)
LEMMA SameOrdersNext == \A id \in OrderId : Manager!Known(id)' = Rebuilt(id)'
BY Zenon DEF Manager!Known, Rebuilt

HandlerInv == Manager!BooksInv /\ Manager!HeldOK

(* A message that BookManager::process takes has its foretold effect. *)
LEMMA MessageProcessed ==
    ASSUME HandlerInv, NEW m \in Message, Process(m),
           m.type = "Add" => m.id \in OrderId /\ Rebuilt(m.id) = None
    PROVE  HandlerInv' /\ \A id \in OrderId : Rebuilt(id)' = Effect(id, Rebuilt(id), m)
<1>1. /\ m \in Manager!Message /\ None \notin Manager!SeenOrder /\ Manager!Process(m)
      /\ Manager!BooksInv /\ Manager!HeldOK
      /\ m.type = "Add" => Manager!Known(m.id) = None
  BY SameMessages, SameProcess, SameOrders, Zenon DEF HandlerInv
<1>2. \A id \in OrderId : SymbolsOf[id] = Symbol
  BY Zenon DEF SymbolsOf
<1>3. /\ Manager!BooksInv' /\ Manager!HeldOK'
      /\ \A id \in OrderId : Manager!Known(id)' = Manager!Effect(id, Manager!Known(id), m)
  BY <1>1, <1>2, ManagerAssumptions, Manager!MessageProcessed, Zenon
<1> QED
  BY <1>3, SameEffect, SameOrders, SameOrdersNext, Zenon DEF HandlerInv

----------------------------------------------------------------------------
(* The feed and the handler together. *)
MirrorInv == Feed /\ HandlerInv

(* Simulator and handler start without orders. *)
LEMMA MirrorInit == Init => MirrorInv
<1> SUFFICES ASSUME Init PROVE MirrorInv
  OBVIOUS
<1>1. sim = [id \in OrderId |-> None] /\ next_order_id = 1 /\ wire = <<>> /\ traded = {}
  BY Zenon DEF Init
<1>2. Manager!Init
  BY SameInit DEF Init
<1>3. Manager!BooksInv
  BY <1>2, ManagerInit
<1>4. \A id \in OrderId : order_to_symbol[id] = None
  BY <1>2, Zenon DEF Manager!Init
<1>5. Manager!HeldOK
  <2>1. \A t \in Symbol, id \in OrderId : Manager!Held(t, id) = None
    BY <1>2, Zenon DEF Manager!Init, Manager!Held
  <2> QED
    BY <2>1, Zenon DEF Manager!HeldOK
<1>6. FeedTyped /\ Unused
  BY <1>1, MirrorAssumption DEF FeedTyped, Unused, Entry
<1>7. ASSUME NEW id \in OrderId PROVE \E v : Forecast(id, v)
  <2>1. PICK v : v = [k \in 0 .. 0 |-> None]
    BY Zenon
  <2>2. v \in [0 .. 0 -> Entry] /\ v[0] = None /\ Len(wire) = 0
    BY <1>1, <2>1 DEF Entry
  <2>3. Rebuilt(id) = None /\ sim[id] = None
    BY <1>1, <1>4, Zenon DEF Rebuilt
  <2>4. \A k \in 1 .. 0 : FALSE
    OBVIOUS
  <2>5. Forecast(id, v)
    BY <2>2, <2>3, <2>4, Zenon DEF Forecast, Agrees, Agree
  <2> QED
    BY <2>5, Zenon
<1> QED
  BY <1>3, <1>5, <1>6, <1>7, Zenon DEF MirrorInv, Feed, Foretold, HandlerInv

(* The generator's steps leave the handler's books sound. *)
LEMMA HandlerStays == HandlerInv /\ UNCHANGED handler => HandlerInv'
<1> SUFFICES ASSUME HandlerInv, UNCHANGED handler PROVE HandlerInv'
  BY Zenon
<1>1. UNCHANGED Manager!vars
  BY Zenon DEF handler, Manager!vars
<1>2. Manager!BooksInv'
  BY Zenon, <1>1, ManagerNext DEF HandlerInv
<1>3. Manager!HeldOK'
  BY Zenon DEF HandlerInv, handler, Manager!HeldOK, Manager!Held
<1> QED
  BY <1>2, <1>3 DEF HandlerInv

(* Every step of generator and handler keeps the invariant. *)
LEMMA MirrorNext == MirrorInv /\ [Next]_vars => MirrorInv'
<1> SUFFICES ASSUME Feed, HandlerInv, [Next]_vars PROVE MirrorInv'
  BY DEF MirrorInv
<1>1. CASE GenerateAdd
  BY <1>1, AddKept, HandlerStays, Zenon DEF GenerateAdd, MirrorInv
<1>2. CASE GenerateCancel
  BY <1>2, CancelKept, HandlerStays, Zenon DEF GenerateCancel, MirrorInv
<1>3. CASE GenerateExecute
  BY <1>3, ExecuteKept, HandlerStays, Zenon DEF GenerateExecute, MirrorInv
<1>4. CASE GenerateReplace
  BY <1>4, ReplaceKept, HandlerStays, Zenon DEF GenerateReplace, MirrorInv
<1>5. CASE GenerateTrade
  BY <1>5, TradeKept, HandlerStays, Zenon DEF GenerateTrade, MirrorInv
<1>6. CASE Deliver
  <2>1. /\ wire # <<>> /\ Process(Head(wire)) /\ wire' = Tail(wire)
        /\ UNCHANGED <<sim, next_order_id, traded>>
    BY <1>6 DEF Deliver
  <2>2. Head(wire) = wire[1] /\ wire[1] \in Message
    BY <2>1 DEF Feed, FeedTyped
  <2>3. wire[1].type = "Add" => wire[1].id \in OrderId
    BY <2>2 DEF Message
  <2>4. wire[1].type = "Add" => Rebuilt(wire[1].id) = None
    BY Zenon, <2>1, <2>3, AddIsNew
  <2>5. HandlerInv' /\ \A id \in OrderId : Rebuilt(id)' = Effect(id, Rebuilt(id), wire[1])
    <3>1. PICK m \in Message : m = wire[1]
      BY <2>2, Zenon
    <3>2. Process(m) /\ (m.type = "Add" => m.id \in OrderId /\ Rebuilt(m.id) = None)
      BY <2>1, <2>2, <2>3, <2>4, <3>1, Zenon
    <3> QED
      BY <3>1, <3>2, MessageProcessed, Zenon
  <2> QED
    BY <2>1, <2>5, DeliverKept, Zenon DEF MirrorInv
<1>7. CASE UNCHANGED vars
  <2>1. Feed'
    BY <1>7, Zenon DEF vars, handler, Feed, FeedTyped, Unused, Foretold, Forecast, Agrees, Rebuilt
  <2>2. UNCHANGED handler
    BY Zenon, <1>7 DEF vars
  <2> QED
    BY Zenon, <2>1, <2>2, HandlerStays DEF MirrorInv
<1> QED
  BY Zenon, <1>1, <1>2, <1>3, <1>4, <1>5, <1>6, <1>7 DEF Next

(* The invariant gives the types. *)
LEMMA MirrorTyped == MirrorInv => TypeOK
<1>1. MirrorInv => Handler!TypeOK
  BY SameTypes DEF MirrorInv, HandlerInv, Manager!BooksInv
<1> QED
  BY Zenon, <1>1 DEF MirrorInv, Feed, FeedTyped, TypeOK, Entry

(* With nothing on the wire the forecast is about the present. *)
LEMMA MirrorHolds == MirrorInv => HoldsEveryOrder /\ ExactButForTrades
<1> SUFFICES ASSUME Feed, wire = <<>> PROVE HoldsEveryOrder /\ ExactButForTrades
  BY Zenon DEF MirrorInv, HoldsEveryOrder, ExactButForTrades, CaughtUp
<1>1. \A id \in OrderId : Agrees(id, Rebuilt(id))
  BY CaughtUpAgrees, Zenon
<1>2. \A id \in AllLive : id \in OrderId /\ sim[id] # None
  BY LiveOrder, Zenon
<1> QED
  BY <1>1, <1>2, Zenon DEF HoldsEveryOrder, ExactButForTrades, Agrees, Agree

(* BooksMirror holds of every feed without losses: a handler that has      *)
(* caught up holds every order of the simulator, and only trades make it   *)
(* differ (order_generator.cpp, book_manager.cpp).                         *)
THEOREM MirrorCorrect == Spec => []BooksMirror
<1>1. MirrorInv => BooksMirror
  BY Zenon, MirrorTyped, MirrorHolds DEF BooksMirror
<1> QED
  BY <1>1, MirrorInit, MirrorNext, PTL DEF Spec
============================================================================
