----------------------------- MODULE Strategies -----------------------------
(***************************************************************************)
(* The five strategies: on_signal takes the private state of a strategy, a *)
(* signal and the position the caller's PortfolioView shows, and gives the *)
(* new state and the decisions.  A signal carries the price in its         *)
(* timestamp field, as the strategies expect.  Strengths are in tenths.    *)
(* Comparisons with a z-score are made on squares of integers, which is    *)
(* what the code's division and square root decide; thresholds of z-scores *)
(* are in halves.                                                          *)
(***************************************************************************)
EXTENDS Portfolio, SequencesExt

CONSTANTS
    MaxPosition,       \* max_position_ of the strategies that take positions
    MaxInventory,      \* max_position_ of the market maker
    Lookback,          \* lookback_, the length of a window of prices or ratios
    ZEntry, ZExit,     \* entry and exit z-scores, in halves
    TrailingStopPct,   \* trailing_stop_pct_, in percent
    SpreadTicks, QuoteSize,   \* of the market maker
    TradeSize,         \* the quantity of each leg of a pair
    RatioScale         \* a multiple of every price, so that ratios are integers

Symbol == {"A", "B"}

StrategyName == {"market_making", "momentum_follower", "mean_reversion",
                 "signal_threshold", "stat_arb"}

\* The defaults of entry_threshold_ and exit_threshold_ (momentum_follower),
\* buy_threshold_, sell_threshold_ and exit_threshold_ (signal_threshold).
EntryThreshold == 5
ExitThreshold == 3
BuyThreshold == 5
SellThreshold == -5
SignalExit == 0

NoStop == [active |-> FALSE, peak |-> 0, trough |-> 0]

\* A strategy as configure() leaves it.
Fresh(name) ==
    CASE name = "momentum_follower" -> [name |-> name, stop |-> NoStop]
      [] name = "mean_reversion"    -> [name |-> name, window |-> <<>>]
      [] name = "stat_arb" -> [name |-> name, last |-> [s \in Symbol |-> 0],
                               window |-> <<>>, spread |-> 0]
      [] OTHER -> [name |-> name]

MarketOrder(symbol, side, quantity) ==
    [symbol |-> symbol, side |-> side, quantity |-> quantity,
     order_type |-> "Market", limit_price |-> 0]

LimitOrder(symbol, side, quantity, price) ==
    [symbol |-> symbol, side |-> side, quantity |-> quantity,
     order_type |-> "Limit", limit_price |-> price]

Signed(d) == IF d.side = "Buy" THEN d.quantity ELSE -d.quantity

Abs(n) == IF n < 0 THEN -n ELSE n

Ask(s, decisions) == [s |-> s, out |-> decisions]

\* Leave a position entirely.
Exit(symbol, position) ==
    <<MarketOrder(symbol, IF position > 0 THEN "Sell" ELSE "Buy",
                  Abs(position))>>

\* The entry block that three strategies share.
Entry(symbol, up, down, position) ==
    IF up /\ position < MaxPosition
    THEN <<MarketOrder(symbol, "Buy",
                       Min({MaxPosition - position, MaxPosition}))>>
    ELSE IF down /\ position > -MaxPosition
    THEN <<MarketOrder(symbol, "Sell",
                       Min({MaxPosition + position, MaxPosition}))>>
    ELSE <<>>

------------------------------------------------------------------------------
\* Market making: a bid and an ask around the fair value, skewed by inventory.

\* The factor is a half and the conversion to int64_t drops the fraction.
compute_skew(position) ==
    IF position > 0 THEN -(position \div 2) ELSE (-position) \div 2

market_making(s, sig, position) ==
    LET skew == compute_skew(position)
        bid  == Max({sig.price - SpreadTicks + skew, 1})
        ask  == Max({sig.price + SpreadTicks + skew, 1})
    IN  IF sig.price = 0 THEN Ask(s, <<>>)
        ELSE Ask(s,
               (IF position + QuoteSize <= MaxInventory
                THEN <<LimitOrder(sig.symbol, "Buy", QuoteSize, bid)>>
                ELSE <<>>)
               \o
               (IF position - QuoteSize >= -MaxInventory
                THEN <<LimitOrder(sig.symbol, "Sell", QuoteSize, ask)>>
                ELSE <<>>))

------------------------------------------------------------------------------
\* Momentum: enter with the trend, leave at the trailing stop or against it.

trailing_stop_triggered(stop, price, position) ==
    /\ stop.active
    /\ \/ position > 0 /\ 100 * price <= stop.peak * (100 - TrailingStopPct)
       \/ position < 0 /\ 100 * price >= stop.trough * (100 + TrailingStopPct)

update_trailing_stop(stop, price, position) ==
    IF ~stop.active THEN [active |-> TRUE, peak |-> price, trough |-> price]
    ELSE IF position > 0 THEN [stop EXCEPT !.peak = Max({@, price})]
    ELSE [stop EXCEPT !.trough = IF @ <= 0 THEN price ELSE Min({@, price})]

\* A new entry arms the side of the stop it needs, unless one is armed.
Armed(stop, decisions, price) ==
    IF decisions = <<>> \/ stop.active THEN stop
    ELSE IF decisions[1].side = "Buy"
         THEN [stop EXCEPT !.peak = price, !.active = TRUE]
         ELSE [stop EXCEPT !.trough = price, !.active = TRUE]

momentum_follower(s, sig, position) ==
    LET stop == IF position # 0
                THEN update_trailing_stop(s.stop, sig.price, position)
                ELSE s.stop
        exits == \/ trailing_stop_triggered(stop, sig.price, position)
                 \/ position > 0 /\ sig.strength < -ExitThreshold
                 \/ position < 0 /\ sig.strength > ExitThreshold
        entry == Entry(sig.symbol, sig.strength > EntryThreshold,
                       sig.strength < -EntryThreshold, position)
    IN  IF ~sig.regime \/ sig.price <= 0 THEN Ask(s, <<>>)
        ELSE IF position # 0 /\ exits
        THEN Ask([s EXCEPT !.stop = NoStop], Exit(sig.symbol, position))
        ELSE Ask([s EXCEPT !.stop = Armed(stop, entry, sig.price)], entry)

------------------------------------------------------------------------------
\* Mean reversion and pairs: the z-score of a value in its window.

Windowed(window, x) ==
    LET w == Append(window, x)
    IN  SubSeq(w, Max({1, Len(w) - Lookback + 1}), Len(w))

\* n (x - mean), and the square of n times the standard deviation.
Deviation(w, x) == Len(w) * x - Sum(w)
Spread(w) ==
    Len(w) * Sum([i \in 1 .. Len(w) |-> w[i] * w[i]]) - Sum(w) * Sum(w)

\* z > t / 2, where the z-score of a constant window is 0.
Above(w, d, t) ==
    LET v == Spread(w)
    IN  IF v = 0 THEN 0 > t
        ELSE IF t >= 0 THEN d > 0 /\ 4 * d * d > t * t * v
        ELSE d >= 0 \/ 4 * d * d < t * t * v

mean_reversion(s, sig, position) ==
    LET w  == Windowed(s.window, sig.price)
        s2 == [s EXCEPT !.window = w]
        d  == Deviation(w, sig.price)
    IN  IF ~sig.regime \/ sig.price <= 0 THEN Ask(s, <<>>)
        ELSE IF Len(w) < 2 THEN Ask(s2, <<>>)
        ELSE IF \/ position > 0 /\ Above(w, d, -ZExit)
                \/ position < 0 /\ Above(w, -d, -ZExit)
        THEN Ask(s2, Exit(sig.symbol, position))
        ELSE Ask(s2, Entry(sig.symbol, Above(w, -d, ZEntry),
                           Above(w, d, ZEntry), position))

signal_threshold(s, sig, position) ==
    IF sig.type # "momentum" THEN Ask(s, <<>>)
    ELSE IF \/ position > 0 /\ sig.strength <= SignalExit
            \/ position < 0 /\ sig.strength >= -SignalExit
    THEN Ask(s, Exit(sig.symbol, position))
    ELSE Ask(s, Entry(sig.symbol, sig.strength > BuyThreshold,
                      sig.strength < SellThreshold, position))

\* Both legs of a pair: long A and short B for 1, the reverse for -1.
Legs(direction) ==
    IF direction = 1
    THEN <<MarketOrder("A", "Buy", TradeSize),
           MarketOrder("B", "Sell", TradeSize)>>
    ELSE <<MarketOrder("A", "Sell", TradeSize),
           MarketOrder("B", "Buy", TradeSize)>>

\* A bug of the exit: the spread position is not cleared.
RevertedKeeps(s) == s

\* The spread has reverted: both legs are closed.
Reverted(s) == [s EXCEPT !.spread = 0]

stat_arb(s, sig, position) ==
    LET last  == [s.last EXCEPT ![sig.symbol] = sig.price]
        ratio == (RatioScale * last["A"]) \div last["B"]
        w  == Windowed(s.window, ratio)
        s2 == [s EXCEPT !.last = last, !.window = w]
        d  == Deviation(w, ratio)
    IN  IF sig.price <= 0 THEN Ask(s, <<>>)
        ELSE IF \E x \in Symbol : last[x] = 0
        THEN Ask([s EXCEPT !.last = last], <<>>)
        ELSE IF Len(w) < 2 THEN Ask(s2, <<>>)
        ELSE IF s.spread # 0 /\ Above(w, d, -ZExit) /\ Above(w, -d, -ZExit)
        THEN Ask(Reverted(s2), Legs(-s.spread))
        ELSE IF s.spread = 0 /\ Above(w, -d, ZEntry)
        THEN Ask([s2 EXCEPT !.spread = 1], Legs(1))
        ELSE IF s.spread = 0 /\ Above(w, d, ZEntry)
        THEN Ask([s2 EXCEPT !.spread = -1], Legs(-1))
        ELSE Ask(s2, <<>>)

on_signal(s, sig, position) ==
    CASE s.name = "market_making"     -> market_making(s, sig, position)
      [] s.name = "momentum_follower" -> momentum_follower(s, sig, position)
      [] s.name = "mean_reversion"    -> mean_reversion(s, sig, position)
      [] s.name = "signal_threshold"  -> signal_threshold(s, sig, position)
      [] s.name = "stat_arb"          -> stat_arb(s, sig, position)

==============================================================================
