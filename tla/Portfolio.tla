------------------------------ MODULE Portfolio ------------------------------
(***************************************************************************)
(* What a portfolio knows of one symbol: the net position                  *)
(* (PositionTracker), every fill (FillTracker) and the open lots with      *)
(* their realized and unrealized profit (PnLCalculator).  All three are    *)
(* keyed by symbol and a fill touches the state of its own symbol only.    *)
(* Prices are whole ticks; price_to_double only scales them.               *)
(***************************************************************************)
EXTENDS Integers, Sequences

CONSTANTS Price, Quantity   \* prices of fills, and the sizes of fills

Side == {"Buy", "Sell"}

Fill == [side : Side, price : Price, quantity : Nat]

Lot == [price : Price, quantity : Nat \ {0}]

\* The state of a symbol that never traded, and of every symbol after reset().
Flat == [position |-> 0, fills |-> <<>>, long_lots |-> <<>>,
         short_lots |-> <<>>, realized |-> 0, unrealized |-> 0]

SymbolState == [position : Int, fills : Seq(Fill), long_lots : Seq(Lot),
                short_lots : Seq(Lot), realized : Int, unrealized : Int]

Sum(f) ==
    LET sum[i \in 0 .. Len(f)] == IF i = 0 THEN 0 ELSE sum[i - 1] + f[i]
    IN  sum[Len(f)]

\* A turn of on_fill's loop on c = [lots, remaining, realized]: the fill closes
\* the front lot, or a part of it, at px; sign is 1 for long lots.
MatchFront(c, px, sign) ==
    LET front   == Head(c.lots)
        matched == IF c.remaining < front.quantity THEN c.remaining
                                                   ELSE front.quantity
    IN  IF c.remaining = 0 \/ c.lots = <<>> THEN c
        ELSE [lots      |-> IF matched = front.quantity THEN Tail(c.lots)
                            ELSE [c.lots EXCEPT ![1].quantity = @ - matched],
              remaining |-> c.remaining - matched,
              realized  |-> c.realized + sign * (px - front.price) * matched]

\* The loop ends within Len(lots) turns: each removes a lot or ends the fill.
Close(lots, realized, px, qty, sign) ==
    LET turn[i \in 0 .. Len(lots)] ==
            IF i = 0
            THEN [lots |-> lots, remaining |-> qty, realized |-> realized]
            ELSE MatchFront(turn[i - 1], px, sign)
    IN  turn[Len(lots)]

\* What no lot took opens a new one.
OpenLot(lots, px, left) ==
    IF left > 0 THEN Append(lots, [price |-> px, quantity |-> left]) ELSE lots

PnLOnFill(p, side, px, qty) ==
    IF side = "Buy"
    THEN LET c == Close(p.short_lots, p.realized, px, qty, -1)
         IN  [p EXCEPT !.realized   = c.realized,
                       !.short_lots = c.lots,
                       !.long_lots  = OpenLot(@, px, c.remaining)]
    ELSE LET c == Close(p.long_lots, p.realized, px, qty, 1)
         IN  [p EXCEPT !.realized   = c.realized,
                       !.long_lots  = c.lots,
                       !.short_lots = OpenLot(@, px, c.remaining)]

Update(position, side, qty) ==
    IF side = "Buy" THEN position + qty ELSE position - qty

OnFill(p, side, px, qty) ==
    PnLOnFill([p EXCEPT !.position = Update(@, side, qty),
                        !.fills = Append(@, [side |-> side, price |-> px,
                                             quantity |-> qty])],
              side, px, qty)

MarkToMarket(p, mark) ==
    [p EXCEPT !.unrealized =
        Sum([i \in 1 .. Len(p.long_lots) |->
               (mark - p.long_lots[i].price) * p.long_lots[i].quantity])
      + Sum([i \in 1 .. Len(p.short_lots) |->
               (p.short_lots[i].price - mark) * p.short_lots[i].quantity])]

------------------------------------------------------------------------------

Size(lots) == Sum([i \in 1 .. Len(lots) |-> lots[i].quantity])

Cost(lots) == Sum([i \in 1 .. Len(lots) |-> lots[i].price * lots[i].quantity])

\* The money that the fills moved: received for sales, paid for purchases.
Cash(p) ==
    Sum([i \in 1 .. Len(p.fills) |->
            (IF p.fills[i].side = "Sell" THEN 1 ELSE -1)
                * p.fills[i].price * p.fills[i].quantity])

==============================================================================
