----------------------------- MODULE Statistics -----------------------------
(***************************************************************************)
(* Statistics of the consumer stage and of the risk monitors: latency      *)
(* histogram, throughput, value at risk.  Each is used by one thread.      *)
(***************************************************************************)
EXTENDS Rationals, TLC

CONSTANTS
    Latencies, BucketCount, BucketWidthNs,  \* of the histogram
    WindowSeconds, Counts,                  \* of the throughput tracker
    Keys,                                   \* symbol keys
    Levels,                                 \* prices and volatilities
    MaxSamples                              \* bound: calls

VARIABLES
    histogram,      \* LatencyHistogram
    samples,        \* what it recorded since reset
    tracker,        \* ThroughputTracker
    ticks,          \* what it counted since reset
    var,            \* VaRCalculator
    var_calls       \* [n, lookback]: calls on it, the largest lookback

stat_vars == <<histogram, samples, tracker, ticks, var, var_calls>>

(***************************************************************************)
(* LatencyHistogram                                                        *)
(***************************************************************************)
MaxLatency == BucketCount * BucketWidthNs

NewHistogram ==
    [buckets |-> [i \in 0 .. BucketCount - 1 |-> 0], count |-> 0, sum |-> 0, overflow |-> 0]

bucket_indexUp(latency) ==
    LET i == (latency + BucketWidthNs - 1) \div BucketWidthNs
    IN IF i < BucketCount THEN i ELSE BucketCount - 1

bucket_index(latency) ==
    LET i == latency \div BucketWidthNs IN IF i < BucketCount THEN i ELSE BucketCount - 1

record(latency) ==
    /\ Len(samples) < MaxSamples
    /\ histogram' = [histogram EXCEPT !.buckets[bucket_index(latency)] = @ + 1,
                                      !.count = @ + 1, !.sum = @ + latency,
                                      !.overflow = IF latency >= MaxLatency THEN @ + 1 ELSE @]
    /\ samples' = Append(samples, latency)

ResetHistogram ==
    /\ histogram' = NewHistogram
    /\ samples' = <<>>

\* percentile(num / den): the upper end of the bucket that reaches it.
Threshold(num, den) ==
    LET t == (num * histogram.count) \div den IN IF t = 0 THEN 1 ELSE t

percentile(num, den) ==
    LET cumulative(i) == Count(LAMBDA j : histogram.buckets[j - 1], [j \in 1 .. i + 1 |-> j])
        reached == {i \in 0 .. BucketCount - 1 : cumulative(i) >= Threshold(num, den)}
    IN CASE histogram.count = 0 -> 0
         [] histogram.count > 0 /\ reached = {} -> MaxLatency
         [] OTHER -> ((CHOOSE i \in reached : \A j \in reached : i <= j) + 1) * BucketWidthNs

(***************************************************************************)
(* ThroughputTracker: counts per second in a circular window               *)
(***************************************************************************)
NewTracker == [window |-> [i \in 0 .. WindowSeconds - 1 |-> 0], write_pos |-> 0,
               filled |-> FALSE, total |-> 0, peak_rate |-> Zero]

current_rate(t) ==
    LET slots == IF t.filled THEN WindowSeconds ELSE t.write_pos
    IN IF slots = 0 THEN Zero
       ELSE Frac(Count(LAMBDA i : t.window[i - 1], [i \in 1 .. slots |-> i]), slots)

tick(count) ==
    LET next == (tracker.write_pos + 1) % WindowSeconds
        t    == [tracker EXCEPT !.window[tracker.write_pos] = count, !.write_pos = next,
                                !.filled = @ \/ next = 0, !.total = @ + count]
        rate == current_rate(t)
    IN /\ Len(ticks) < MaxSamples
       /\ tracker' = [t EXCEPT !.peak_rate = IF Less(@, rate) THEN rate ELSE @]
       /\ ticks' = Append(ticks, count)

ResetTracker ==
    /\ tracker' = NewTracker
    /\ ticks' = <<>>

(***************************************************************************)
(* VaRCalculator, with the confidence level and the holding period folded  *)
(* into the unit.  The root of compute is left out: the result is squared. *)
(***************************************************************************)
NewVaR == [lookback |-> 2, returns |-> [k \in Keys |-> <<>>],
           volatilities |-> [k \in Keys |-> 0], prices |-> [k \in Keys |-> 0],
           correlations |-> [p \in {} |-> Zero]]

add_return(v, k, ret) ==
    LET hist == Append(v.returns[k], ret)
    IN [v EXCEPT !.returns[k] = IF Len(hist) > v.lookback THEN Tail(hist) ELSE hist]

Pair(a, b) == IF a < b THEN <<a, b>> ELSE <<b, a>>

set_correlation(v, a, b, corr) ==
    [v EXCEPT !.correlations = (Pair(a, b) :> corr) @@ @]

get_correlation(v, a, b) ==
    IF Pair(a, b) \in DOMAIN v.correlations THEN v.correlations[Pair(a, b)] ELSE Zero

\* |position_value| * volatility
SymbolVaR(v, positions, k) == Num(Magnitude(positions[k]) * v.prices[k] * v.volatilities[k])

undiversified_var(v, positions) ==
    TotalSet(LAMBDA k : SymbolVaR(v, positions, k), Keys)

\* The square of portfolio_var.
portfolio_var_sq(v, positions) ==
    LET open == {k \in Keys : positions[k] # 0}
        corr(a, b) == IF a = b THEN One
                      ELSE IF DOMAIN v.correlations = {} THEN Zero ELSE get_correlation(v, a, b)
        product(p) == Times(corr(p[1], p[2]),
                            Times(SymbolVaR(v, positions, p[1]), SymbolVaR(v, positions, p[2])))
        sum == TotalSet(product, open \X open)
        all == undiversified_var(v, positions)
    IN IF \A a, b \in open : a = b THEN Times(all, all)
       ELSE IF Negative(sum) THEN Zero ELSE sum

VaRCall(v) ==
    /\ var_calls.n < MaxSamples
    /\ var' = v
    /\ var_calls' = [n |-> var_calls.n + 1,
                     lookback |-> IF v.lookback > var_calls.lookback THEN v.lookback
                                  ELSE var_calls.lookback]

VaRSetters ==
    \/ \E k \in Keys, x \in Levels :
        \/ VaRCall([var EXCEPT !.prices[k] = x])                  \* set_price
        \/ VaRCall([var EXCEPT !.volatilities[k] = x])            \* set_volatility
    \/ \E a, b \in Keys, c \in {Num(-1), Frac(1, 2), One} :
        a # b /\ VaRCall(set_correlation(var, a, b, c))

VaRHistory ==
    \/ \E k \in Keys : VaRCall(add_return(var, k, var_calls.n))
    \/ \E n \in 1 .. 2 : VaRCall([var EXCEPT !.lookback = n])     \* set_lookback

StatInit ==
    /\ histogram = NewHistogram /\ samples = <<>>
    /\ tracker = NewTracker /\ ticks = <<>>
    /\ var = NewVaR /\ var_calls = [n |-> 0, lookback |-> 2]

\* The calls that matter to one of the classes.
StatNext(part) ==
    \/ /\ part = "latency"
       /\ (\E l \in Latencies : record(l)) \/ ResetHistogram
       /\ UNCHANGED <<tracker, ticks, var, var_calls>>
    \/ /\ part = "throughput"
       /\ (\E c \in Counts : tick(c)) \/ ResetTracker
       /\ UNCHANGED <<histogram, samples, var, var_calls>>
    \/ /\ part \in {"var", "lookback"}
       /\ IF part = "var" THEN VaRSetters ELSE VaRHistory
       /\ UNCHANGED <<histogram, samples, tracker, ticks>>

(***************************************************************************)
(* Properties                                                              *)
(***************************************************************************)
\* A reported percentile is right to one bucket: enough samples are below it,
\* and a bucket lower not enough; only latencies beyond the last bucket can be
\* above a percentile that says so.
PercentilesBracket ==
    \A num \in {1, 19, 99} :
        LET den == IF num = 1 THEN 2 ELSE IF num = 19 THEN 20 ELSE 100
            p   == percentile(num, den)
            below(x) == Len(SelectSeq(samples, LAMBDA s : s < x))
        IN samples # <<>> =>
            /\ below(p) + (IF p = MaxLatency THEN histogram.overflow ELSE 0)
                    >= Threshold(num, den)
            /\ below(p - BucketWidthNs) < Threshold(num, den)

\* current_rate is the mean of the last WindowSeconds counts while the window
\* fills, when it is full and after it wraps, and peak_rate_ is the largest it
\* has been.
RateIsWindowMean ==
    LET mean(n) == LET w == Latest(SubSeq(ticks, 1, n), WindowSeconds)
                   IN Frac(Count(LAMBDA x : x, w), Len(w))
    IN ticks # <<>> =>
        /\ current_rate(tracker) = mean(Len(ticks))
        /\ \A n \in 1 .. Len(ticks) : AtMost(mean(n), tracker.peak_rate)
        /\ \E n \in 1 .. Len(ticks) : mean(n) = tracker.peak_rate \/ tracker.peak_rate = Zero

\* Diversification never costs: whatever correlations in [-1, 1] were given,
\* in whichever order of the two symbols, the portfolio's value at risk is at
\* most the sum of the positions'.
DiversificationHelps ==
    var.prices # NewVaR.prices => \A positions \in [Keys -> {-1, 0, 2}] :
        LET all == undiversified_var(var, positions)
            sq  == portfolio_var_sq(var, positions)
        IN AtMost(Zero, sq) /\ AtMost(sq, Times(all, all))

\* A return history holds the latest returns, one after the other, and is
\* never longer than the largest lookback so far: a smaller lookback does not
\* shorten it, since each call adds one and drops one.
ReturnsAreLatest ==
    \A k \in Keys :
        LET h == var.returns[k]
        IN /\ Len(h) <= var_calls.lookback
           /\ \A i, j \in DOMAIN h : i < j => h[i] < h[j]

\* What the comment of add_return says: only the most recent lookback_periods
\* returns are kept.
LookbackKept ==
    \A k \in Keys : Len(var.returns[k]) <= var.lookback

==============================================================================
