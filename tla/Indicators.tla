----------------------------- MODULE Indicators -----------------------------
(***************************************************************************)
(* The indicators: each a record of its fields and an operator for update, *)
(* which returns the indicator with its new value.  A number may be NaN,   *)
(* which is what some features return for an empty book.                   *)
(***************************************************************************)
EXTENDS Rationals

CONSTANTS
    Period,             \* of RSI, Bollinger and ZScore
    Span, SlowSpan      \* of EMA and of the two averages of MACD

Divide(x, n) == Over(x, Num(n))

(***************************************************************************)
(* EMA and MACD                                                            *)
(***************************************************************************)
NewEMA(span) == [span |-> span, ema |-> Zero, initialized |-> FALSE, value |-> Zero]

EMA(e, value) ==
    LET alpha == Frac(2, e.span + 1)
        ema   == IF e.initialized
                 THEN Plus(Times(alpha, value), Times(Minus(One, alpha), e.ema))
                 ELSE value
    IN [e EXCEPT !.ema = ema, !.initialized = TRUE, !.value = ema]

NewMACD == [fast |-> NewEMA(Span), slow |-> NewEMA(SlowSpan), signal |-> NewEMA(Span),
            histogram |-> Zero, value |-> Zero]

MACD(m, price) ==
    LET fast   == EMA(m.fast, price)
        slow   == EMA(m.slow, price)
        line   == Minus(fast.value, slow.value)
        signal == EMA(m.signal, line)
    IN [fast |-> fast, slow |-> slow, signal |-> signal,
        histogram |-> Minus(line, signal.value), value |-> line]

(***************************************************************************)
(* RSI                                                                     *)
(***************************************************************************)
NewRSI == [count |-> 0, prev_price |-> Zero, gain_sum |-> Zero, loss_sum |-> Zero,
           avg_gain |-> Zero, avg_loss |-> Zero, value |-> Num(50)]

Strength(gain, loss) ==
    IF loss = Zero THEN Num(100)
    ELSE Minus(Num(100), Over(Num(100), Plus(One, Over(gain, loss))))

RSI(r, price) ==
    LET count == r.count + 1
        delta == Minus(price, r.prev_price)
        gain  == IF Positive(delta) THEN delta ELSE Zero
        loss  == IF Negative(delta) THEN Minus(Zero, delta) ELSE Zero
        next  == [r EXCEPT !.count = count, !.prev_price = price]
        summed == [next EXCEPT !.gain_sum = Plus(@, gain), !.loss_sum = Plus(@, loss)]
        wilder(avg, x) == Divide(Plus(Times(avg, Num(Period - 1)), x), Period)
        ready(s, g, l) == [s EXCEPT !.avg_gain = g, !.avg_loss = l, !.value = Strength(g, l)]
    IN CASE count = 1          -> [next EXCEPT !.value = Num(50)]
         [] count \in 2 .. Period -> [summed EXCEPT !.value = Num(50)]
         [] count = Period + 1 ->
                ready(summed, Divide(summed.gain_sum, Period), Divide(summed.loss_sum, Period))
         [] count > Period + 1 ->
                ready(next, wilder(r.avg_gain, gain), wilder(r.avg_loss, loss))

(***************************************************************************)
(* Bollinger bands and z-score, two ways to keep a window's statistics in  *)
(* a circular buffer.  The bands are the mean and a multiple of the root   *)
(* of the variance.                                                        *)
(***************************************************************************)
NewBollinger == [window |-> [i \in 0 .. Period - 1 |-> Zero], head |-> 0, count |-> 0,
                 sum |-> Zero, sum_sq |-> Zero, variance |-> Zero, value |-> Zero]

Square(x) == Times(x, x)

Bollinger(b, price) ==
    LET old    == IF b.count >= Period THEN b.window[b.head] ELSE Zero
        count  == IF b.count < Period THEN b.count + 1 ELSE b.count
        sum    == Plus(Minus(b.sum, old), price)
        sum_sq == Plus(Minus(b.sum_sq, Square(old)), Square(price))
        mean   == Divide(sum, count)
        var    == Minus(Divide(sum_sq, count), Square(mean))
    IN [window |-> [b.window EXCEPT ![b.head] = price],
        head |-> (b.head + 1) % Period, count |-> count, sum |-> sum, sum_sq |-> sum_sq,
        variance |-> IF Negative(var) THEN Zero ELSE var, value |-> mean]

NewZScore == [buf |-> [i \in 0 .. Period - 1 |-> Zero], head |-> 0, count |-> 0,
              mean |-> Zero, m2 |-> Zero, value |-> Zero]

\* Welford's step: a value joins.
Joins(z, value) ==
    LET count == z.count + 1
        delta == Minus(value, z.mean)
        mean  == Plus(z.mean, Divide(delta, count))
    IN [z EXCEPT !.count = count, !.mean = mean,
                 !.m2 = Plus(@, Times(delta, Minus(value, mean)))]

ReplacesTwice(z, value) ==
    LET delta == Minus(value, z.buf[z.head])
        mean  == Plus(z.mean, Divide(delta, z.count))
    IN [z EXCEPT !.mean = mean,
                 !.m2 = Plus(@, Times(delta, Times(Num(2), Minus(value, mean))))]

\* A value takes the place of the oldest.
Replaces(z, value) ==
    LET old   == z.buf[z.head]
        delta == Minus(value, old)
        mean  == Plus(z.mean, Divide(delta, z.count))
        m2    == Plus(z.m2, Times(delta, Plus(Minus(value, mean), Minus(old, z.mean))))
    IN [z EXCEPT !.mean = mean, !.m2 = IF Negative(m2) THEN Zero ELSE m2]

ZScore(z, value) ==
    LET next == [(IF z.count < Period THEN Joins(z, value) ELSE Replaces(z, value))
                     EXCEPT !.buf[z.head] = value, !.head = (z.head + 1) % Period]
        variance == Divide(next.m2, next.count)
    IN [next EXCEPT !.value = IF next.count < 2 \/ AtMost(variance, Zero) THEN Zero
                              ELSE SignedSquare(Minus(value, next.mean), variance)]

(***************************************************************************)
(* A new indicator, which is also what reset leaves, and update            *)
(***************************************************************************)
NewIndicator(kind) ==
    CASE kind = "ema" -> NewEMA(Span)
      [] kind = "macd" -> NewMACD
      [] kind = "rsi" -> NewRSI
      [] kind = "bollinger" -> NewBollinger
      [] kind = "zscore" -> NewZScore

update(kind, i, value) ==
    CASE kind = "ema" -> EMA(i, value)
      [] kind = "macd" -> MACD(i, value)
      [] kind = "rsi" -> RSI(i, value)
      [] kind = "bollinger" -> Bollinger(i, value)
      [] kind = "zscore" -> ZScore(i, value)

Kinds == {"ema", "macd", "rsi", "bollinger", "zscore"}

==============================================================================
