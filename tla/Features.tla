------------------------------ MODULE Features ------------------------------
(***************************************************************************)
(* The features of the signal engine.  A feature is a record of its        *)
(* fields, with the value that compute returned last; its operator is      *)
(* compute, from a feature to a feature.  A feature that reads trades      *)
(* remembers how many it has read, and starts there in the history that it *)
(* is given next.  A book is its levels, best first.                       *)
(***************************************************************************)
EXTENDS Rationals

CONSTANTS
    WindowSize,     \* of the features that count trades, spreads or bars
    LongWindow,     \* long_window_ of Momentum and MeanReversion
    WindowNs,       \* window_ns_
    TimeRange,      \* a timestamp is unsigned: 2^64 in the code
    Depth           \* num_levels_

Best(levels) == levels[1].price

\* The price in the middle of a book that has both sides.
Mid(book) == Frac(Best(book.bids) + Best(book.asks), 2)

TwoSided(book) == book.bids # <<>> /\ book.asks # <<>>

(***************************************************************************)
(* TradeHistory                                                            *)
(***************************************************************************)
HistoryAdd(trades, trade, max_size) ==
    Append(IF Len(trades) >= max_size THEN Tail(trades) ELSE trades, trade)

NewTradesAgain(f, trades) ==
    SubSeq(trades, IF f.last_processed = 0 THEN 1 ELSE f.last_processed, Len(trades))

\* The trades from last_processed_ on; none when the history is shorter.
NewTrades(f, trades) == SubSeq(trades, f.last_processed + 1, Len(trades))

(***************************************************************************)
(* Features of the book                                                    *)
(***************************************************************************)
Microprice(f, book) ==
    LET bid == book.bids[1]
        ask == book.asks[1]
    IN [f EXCEPT !.value =
            IF ~TwoSided(book) THEN NaN
            ELSE Frac(bid.price * ask.quantity + ask.price * bid.quantity,
                      bid.quantity + ask.quantity)]

BookDepthRatio(f, book) ==
    LET shares(levels) ==
            Count(LAMBDA l : l.quantity,
                  SubSeq(levels, 1, IF Len(levels) < Depth THEN Len(levels) ELSE Depth))
        total_bid == shares(book.bids)
        total_ask == shares(book.asks)
    IN [f EXCEPT !.value = IF total_bid = 0 /\ total_ask = 0 THEN Zero
                           ELSE Frac(total_bid, total_ask)]

update_stats(f, spread) ==
    LET full    == Len(f.samples) >= WindowSize
        old     == IF full THEN Head(f.samples) ELSE 0
        samples == Append(IF full THEN Tail(f.samples) ELSE f.samples, spread)
        sum     == f.sum - old + spread
        sum_sq  == f.sum_sq - old * old + spread * spread
        n       == Num(Len(samples))
        mean    == Over(Num(sum), n)
        var     == Minus(Over(Num(sum_sq), n), Times(mean, mean))
    IN [f EXCEPT !.samples = samples, !.sum = sum, !.sum_sq = sum_sq,
                 !.value = IF Positive(var) THEN SignedSquare(Minus(Num(spread), mean), var)
                           ELSE Zero]

SpreadTracker(f, book) ==
    IF TwoSided(book) THEN update_stats(f, Best(book.asks) - Best(book.bids))
    ELSE [f EXCEPT !.value = Zero]

(***************************************************************************)
(* Features of the trades                                                  *)
(***************************************************************************)
VWAP(f, trades) ==
    LET new == NewTrades(f, trades)
        pq  == f.cum_price_qty + Count(LAMBDA t : t.price * t.quantity, new)
        q   == f.cum_qty + Count(LAMBDA t : t.quantity, new)
    IN [f EXCEPT !.cum_price_qty = pq, !.cum_qty = q, !.last_processed = Len(trades),
                 !.value = IF q = 0 THEN Zero ELSE Frac(pq, q)]

add_sample(f, side) ==
    LET full == Len(f.samples) >= WindowSize
        less(s) == IF full /\ Head(f.samples) = s THEN 1 ELSE 0
        more(s) == IF side = s THEN 1 ELSE 0
    IN [f EXCEPT !.samples = Append(IF full THEN Tail(@) ELSE @, side),
                 !.buy_count = @ - less("buy") + more("buy"),
                 !.sell_count = @ - less("sell") + more("sell")]

\* A trade is classified by the middle of the book when compute is called.
TradeFlow(f, book, trades) ==
    LET side(t) == IF ~TwoSided(book) THEN t.side
                   ELSE IF AtMost(Mid(book), Num(t.price)) THEN "buy" ELSE "sell"
        g == FoldLeft(LAMBDA a, t : add_sample(a, side(t)), f, NewTrades(f, trades))
    IN [g EXCEPT !.last_processed = Len(trades),
                 !.value = IF g.samples = <<>> THEN Zero
                           ELSE Frac(g.buy_count - g.sell_count, Len(g.samples))]

\* Samples leave from the front, up to the first that is young enough.
evict_old(samples, now) ==
    LET cutoff == IF now > WindowNs THEN now - WindowNs ELSE 0
        young  == {i \in DOMAIN samples : samples[i].ts >= cutoff}
        first  == CHOOSE i \in young : \A j \in young : i <= j
    IN IF young = {} THEN <<>> ELSE SubSeq(samples, first, Len(samples))

OrderFlowImbalance(f, trades) ==
    LET all     == f.samples \o NewTrades(f, trades)
        samples == IF all = <<>> THEN all ELSE evict_old(all, Last(all).ts)
        volume(s) == Count(LAMBDA t : IF t.side = s THEN t.quantity ELSE 0, samples)
        total   == volume("buy") + volume("sell")
    IN [f EXCEPT !.samples = samples, !.last_processed = Len(trades),
                 !.value = IF total = 0 THEN Zero
                           ELSE Frac(volume("buy") - volume("sell"), total)]

\* Weights and their sum are unsigned: they wrap when time goes back.
TimeWeighted(samples) ==
    LET n     == Len(samples)
        dt(i) == (samples[i + 1].ts - samples[i].ts) % TimeRange
        pairs == [i \in 1 .. n - 1 |-> i]
        time  == Count(dt, pairs) % TimeRange
    IN IF n = 1 THEN samples[1].price
       ELSE IF time = 0 THEN Over(Total(LAMBDA s : s.price, samples), Num(n))
       ELSE Over(Total(LAMBDA i : Times(samples[i].price, Num(dt(i))), pairs), Num(time))

TWAP(f, book, trades) ==
    LET price   == IF TwoSided(book) THEN Mid(book)
                   ELSE Num(Best(book.bids \o book.asks))
        now     == IF trades = <<>> THEN 0 ELSE Last(trades).ts
        samples == evict_old(Append(f.samples, [price |-> price, ts |-> now]), now)
    IN IF book.bids \o book.asks = <<>> THEN [f EXCEPT !.value = NaN]
       ELSE [f EXCEPT !.samples = samples, !.value = TimeWeighted(samples)]

(***************************************************************************)
(* Features of the prices of the trades                                    *)
(***************************************************************************)
Prices(trades) == [i \in DOMAIN trades |-> trades[i].price]

\* compute_zscore of Momentum, on the last window + 1 prices.
MomentumScore(prices, window) ==
    LET p    == Latest(prices, window + 1)
        rets == [i \in 1 .. window |-> p[i + 1] - p[i]]
        mean == Frac(Count(LAMBDA r : r, rets), window)
        var  == Minus(Frac(Count(LAMBDA r : r * r, rets), window), Times(mean, mean))
    IN IF Len(prices) < window + 1 \/ ~Positive(var) THEN Zero
       ELSE SignedSquare(Num(p[window + 1] - p[1]), var)

Momentum(f, trades) ==
    LET prices == Latest(f.prices \o Prices(NewTrades(f, trades)), LongWindow + 1)
    IN [f EXCEPT !.prices = prices, !.last_processed = Len(trades),
                 !.value = MomentumScore(prices, WindowSize),
                 !.long = MomentumScore(prices, LongWindow)]

\* compute_zscore of MeanReversion, on the last window prices.
ReversionScore(prices, window) ==
    LET p    == Latest(prices, window)
        mean == Frac(Count(LAMBDA x : x, p), window)
        sq(x) == Times(Minus(Num(x), mean), Minus(Num(x), mean))
        var  == Over(Total(sq, p), Num(window))
    IN IF Len(prices) < window \/ ~Positive(var) THEN Zero
       ELSE SignedSquare(Minus(Num(p[window]), mean), var)

MeanReversion(f, trades) ==
    LET prices == Latest(f.prices \o Prices(NewTrades(f, trades)), LongWindow)
    IN [f EXCEPT !.prices = prices, !.last_processed = Len(trades),
                 !.value = ReversionScore(prices, WindowSize),
                 !.long = ReversionScore(prices, LongWindow)]

\* One bar of the trades since the last call.  The estimate, which takes
\* logarithms, is abstracted to whether it is above zero.
VolatilityEstimator(f, trades) ==
    LET p     == Prices(NewTrades(f, trades))
        bar   == [open |-> p[1], close |-> Last(p),
                  high |-> CHOOSE x \in ToSet(p) : \A y \in ToSet(p) : x >= y,
                  low  |-> CHOOSE x \in ToSet(p) : \A y \in ToSet(p) : x <= y]
        bars  == IF p = <<>> THEN f.bars ELSE Latest(Append(f.bars, bar), WindowSize)
        moves == \E i \in DOMAIN bars : bars[i].high > bars[i].low
    IN [f EXCEPT !.bars = bars, !.last_processed = Len(trades),
                 !.value = IF Len(bars) >= 2 /\ moves THEN One ELSE Zero]

(***************************************************************************)
(* TickIntensity, with alpha_ = 1/2                                        *)
(***************************************************************************)
Alpha == Frac(1, 2)

flush_window(f) ==
    LET rate == Num(f.ticks_in_window)
        diff == Minus(rate, f.baseline_rate)
    IN [f EXCEPT !.window_count = @ + 1,
                 !.ticks_in_window = 0,
                 !.window_start = @ + WindowNs,
                 !.baseline_rate = IF f.window_count = 0 THEN rate
                                   ELSE Plus(@, Times(Alpha, diff)),
                 !.baseline_variance =
                     IF f.window_count = 0 THEN Zero
                     ELSE Plus(Times(Minus(One, Alpha), @), Times(Alpha, Times(diff, diff)))]

\* A trade closes the windows that end before it.
CountTick(f, ts) ==
    LET started == IF f.window_started THEN f
                   ELSE [f EXCEPT !.window_started = TRUE, !.window_start = ts]
        ended   == IF ts < started.window_start THEN 0
                   ELSE (ts - started.window_start) \div WindowNs
        current == FoldLeft(LAMBDA a, i : flush_window(a), started, [i \in 1 .. ended |-> i])
    IN [current EXCEPT !.ticks_in_window = @ + 1]

TickIntensity(f, trades) ==
    LET g == FoldLeft(LAMBDA a, t : CountTick(a, t.ts), f, NewTrades(f, trades))
    IN [g EXCEPT !.last_processed = Len(trades),
                 !.value = IF Positive(g.baseline_rate)
                           THEN Over(Num(g.ticks_in_window), g.baseline_rate) ELSE One]

(***************************************************************************)
(* A new feature, and compute                                              *)
(***************************************************************************)
NewFeature(name) ==
    CASE name \in {"microprice", "book_depth_ratio"} -> [value |-> Zero]
      [] name = "spread_tracker" -> [samples |-> <<>>, sum |-> 0, sum_sq |-> 0, value |-> Zero]
      [] name = "twap" -> [samples |-> <<>>, value |-> Zero]
      [] name = "ofi"  -> [last_processed |-> 0, samples |-> <<>>, value |-> Zero]
      [] name = "vwap" -> [last_processed |-> 0, cum_price_qty |-> 0, cum_qty |-> 0,
                           value |-> Zero]
      [] name = "trade_flow" -> [last_processed |-> 0, samples |-> <<>>, buy_count |-> 0,
                                 sell_count |-> 0, value |-> Zero]
      [] name \in {"momentum", "mean_reversion"} ->
            [last_processed |-> 0, prices |-> <<>>, long |-> Zero, value |-> Zero]
      [] name = "volatility_estimator" -> [last_processed |-> 0, bars |-> <<>>, value |-> Zero]
      [] name = "tick_intensity" ->
            [last_processed |-> 0, window_started |-> FALSE, window_start |-> 0,
             ticks_in_window |-> 0, window_count |-> 0, baseline_rate |-> Zero,
             baseline_variance |-> Zero, value |-> Zero]

compute(name, f, book, trades) ==
    CASE name = "microprice" -> Microprice(f, book)
      [] name = "book_depth_ratio" -> BookDepthRatio(f, book)
      [] name = "spread_tracker" -> SpreadTracker(f, book)
      [] name = "twap" -> TWAP(f, book, trades)
      [] name = "vwap" -> VWAP(f, trades)
      [] name = "trade_flow" -> TradeFlow(f, book, trades)
      [] name = "ofi" -> OrderFlowImbalance(f, trades)
      [] name = "momentum" -> Momentum(f, trades)
      [] name = "mean_reversion" -> MeanReversion(f, trades)
      [] name = "volatility_estimator" -> VolatilityEstimator(f, trades)
      [] name = "tick_intensity" -> TickIntensity(f, trades)

==============================================================================
