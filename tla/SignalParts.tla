---------------------------- MODULE SignalParts ----------------------------
(***************************************************************************)
(* Classes of the signal library that the engine does not call by itself:  *)
(* indicators on a series, the prediction cache, the regime detector, the  *)
(* normalizer, the linear model and its file.  Each is used by one thread. *)
(***************************************************************************)
EXTENDS SignalEngine

CONSTANTS
    Inputs,             \* prices given to the indicators; NaN is one more
    MaxInputs,          \* bound: their number
    CacheSize,          \* max_size_ of the cache
    BucketWidth,        \* bucket_width_ns_
    Timestamps,
    MaxUses,            \* bound: calls of the cache
    MaxModelCalls       \* bound: calls on the model and its file

VARIABLES
    bank,       \* an indicator of each kind, and the normalizer's statistics
    fed,        \* what they were given since they were reset
    cache,      \* [lru, hits, misses]
    uses,       \* <<key, value>> of the puts and the hits since clear
    detector,   \* RegimeDetector
    scores,     \* the scores of the last detect
    model,      \* LinearModel
    trained,    \* <<features, target>> since the model was new
    file,       \* the fields of the model file
    complete    \* [saved, loaded, calls]: the models whose save completed, whether
                \* the model was loaded, and the number of calls

part_vars == <<bank, fed, cache, uses, detector, scores, model, trained, file, complete>>

(***************************************************************************)
(* Indicators and normalizer                                               *)
(***************************************************************************)
NewStats == [count |-> 0, mean |-> Zero, m2 |-> Zero]

NewBank == [indicators |-> [k \in Kinds |-> NewIndicator(k)], stats |-> NewStats]

\* FeatureNormalizer::update, which is Welford's step without a window.
Feed(value) ==
    /\ Len(fed) < MaxInputs
    /\ fed' = Append(fed, value)
    /\ bank' = [indicators |-> [k \in Kinds |-> update(k, bank.indicators[k], value)],
                stats |-> Joins(bank.stats, value)]

\* reset of the indicators and of the normalizer
ResetBank ==
    /\ fed # <<>>
    /\ fed' = <<>>
    /\ bank' = NewBank

BankNext ==
    /\ config.part = "bank"
    /\ \/ \E v \in {Num(i) : i \in Inputs} \cup {NaN} : Feed(v)
       \/ ResetBank
    /\ UNCHANGED <<cache, uses, detector, scores, model, trained, file, complete>>

(***************************************************************************)
(* PredictionCache: most recently used first                               *)
(***************************************************************************)
make_key(symbol, ts) == <<symbol, ts \div BucketWidth>>

Entries(key) == {i \in DOMAIN cache.lru : cache.lru[i].key = key}

\* The list with entry i moved to the front.
Spliced(lru, i) == <<lru[i]>> \o SubSeq(lru, 1, i - 1) \o SubSeq(lru, i + 1, Len(lru))

put(symbol, ts, prediction) ==
    LET key == make_key(symbol, ts)
        new == [key |-> key, value |-> prediction]
        lru == cache.lru
        kept == IF Len(lru) >= CacheSize THEN Front(lru) ELSE lru
    IN /\ cache' = [cache EXCEPT !.lru =
                        IF Entries(key) = {} THEN <<new>> \o kept
                        ELSE LET i == CHOOSE i \in Entries(key) : TRUE
                             IN Spliced([lru EXCEPT ![i] = new], i)]
       /\ uses' = Append(uses, new)

getInPlace(symbol, ts) ==
    LET hits == Entries(make_key(symbol, ts))
    IN \/ /\ hits = {}
          /\ cache' = [cache EXCEPT !.misses = @ + 1]
          /\ UNCHANGED uses
       \/ \E i \in hits :
            /\ cache' = [cache EXCEPT !.hits = @ + 1]
            /\ uses' = Append(uses, cache.lru[i])

get(symbol, ts) ==
    LET hits == Entries(make_key(symbol, ts))
    IN \/ /\ hits = {}
          /\ cache' = [cache EXCEPT !.misses = @ + 1]
          /\ UNCHANGED uses
       \/ \E i \in hits :
            /\ cache' = [cache EXCEPT !.hits = @ + 1, !.lru = Spliced(@, i)]
            /\ uses' = Append(uses, cache.lru[i])

ClearCache ==
    /\ cache' = [lru |-> <<>>, hits |-> 0, misses |-> 0]
    /\ uses' = <<>>

CacheNext ==
    /\ config.part = "cache"
    /\ Len(uses) + cache.misses < MaxUses
    /\ \/ \E s \in config.symbols, ts \in Timestamps :
            \/ put(s, ts, Len(uses))
            \/ get(s, ts)
       \/ ClearCache
    /\ UNCHANGED <<bank, fed, detector, scores, model, trained, file, complete>>

(***************************************************************************)
(* RegimeDetector                                                          *)
(***************************************************************************)
Regimes == {"trending", "ranging", "volatile"}

Larger(x, y) == IF Less(x, y) THEN y ELSE x

Smaller(x, y) == IF Less(y, x) THEN y ELSE x

Unit(x) == Clamp(x, Zero, One)

Score(f) ==
    LET autocorr == Clamp(f.autocorrelation, Num(-1), One)
        trend == Unit(Plus(Times(Frac(7, 10), Unit(f.directional_strength)),
                           Times(Frac(3, 10), Over(Plus(autocorr, One), Num(2)))))
        boost == IF Negative(autocorr) THEN Times(autocorr, Frac(-1, 5)) ELSE Zero
        vol   == Unit(Plus(Unit(f.volatility), boost))
    IN [trending |-> trend, volatile |-> vol,
        ranging |-> Unit(Minus(One, Larger(trend, vol)))]

NewDetector(hysteresis) ==
    [regime |-> "ranging", confidence |-> Zero, initialized |-> FALSE,
     hysteresis |-> hysteresis]

AdjustedForAll(d, s) == [r \in Regimes |-> Plus(s[r], d.hysteresis)]

\* The scores, with the bonus of the current regime.
Adjusted(d, s) ==
    [r \in Regimes |-> IF d.initialized /\ d.regime = r THEN Plus(s[r], d.hysteresis)
                       ELSE s[r]]

Confidence(s) ==
    LET first  == Larger(s.trending, Larger(s.ranging, s.volatile))
        second == Larger(Smaller(s.trending, s.ranging),
                         Larger(Smaller(s.ranging, s.volatile),
                                Smaller(s.volatile, s.trending)))
        margin == Unit(Over(Minus(first, second), Frac(1, 2)))
    IN IF Less(first, Frac(1, 5)) THEN Times(margin, Over(first, Frac(1, 5))) ELSE margin

detect(f) ==
    LET s    == Score(f)
        a    == Adjusted(detector, s)
        than == IF Less(a.ranging, a.trending) THEN "trending" ELSE "ranging"
        best == IF Less(a[than], a.volatile) THEN "volatile" ELSE than
    IN /\ detector' = [detector EXCEPT !.regime = best, !.confidence = Confidence(s),
                                       !.initialized = TRUE]
       /\ scores' = s

set_hysteresis(h) ==
    /\ detector' = [detector EXCEPT !.hysteresis = Clamp(h, Zero, Frac(1, 2))]
    /\ UNCHANGED scores

ResetDetector ==
    /\ detector' = NewDetector(detector.hysteresis)
    /\ UNCHANGED scores

RegimeNext ==
    /\ config.part = "regime"
    /\ \/ \E d, v \in {Frac(i, 4) : i \in 0 .. 4}, c \in {Frac(i, 2) : i \in -2 .. 2} :
            detect([directional_strength |-> d, volatility |-> v, autocorrelation |-> c])
       \/ \E h \in {Frac(i, 10) : i \in {-1, 0, 1, 9}} : set_hysteresis(h)
       \/ ResetDetector
    /\ UNCHANGED <<bank, fed, cache, uses, model, trained, file, complete>>

(***************************************************************************)
(* LinearModel with two features, and ModelLoader.  A file is its fields   *)
(* and how many of them are there: magic, version, number of features,     *)
(* bias, weights, lambda.                                                  *)
(***************************************************************************)
Dims == 1 .. 2

Sum(op(_)) == Total(op, [i \in Dims |-> i])

NewModel(lambda) ==
    [lambda |-> lambda, bias |-> Zero, num_observations |-> 0,
     weights |-> [i \in Dims |-> Zero],
     P |-> [i, j \in Dims |-> IF i = j THEN Over(One, lambda) ELSE Zero]]

predict(m, x) == Plus(m.bias, Sum(LAMBDA i : Times(m.weights[i], x[i])))

Called(is_loaded) == [complete EXCEPT !.loaded = is_loaded, !.calls = @ + 1]

\* Kalman gain
Gain(Px, x) ==
    [i \in Dims |-> Over(Px[i], Plus(One, Sum(LAMBDA j : Times(x[j], Px[j]))))]

train(x, target) ==
    LET Px    == [i \in Dims |-> Sum(LAMBDA j : Times(model.P[i, j], x[j]))]
        xTP   == [j \in Dims |-> Sum(LAMBDA i : Times(x[i], model.P[i, j]))]
        k     == Gain(Px, x)
        error == Minus(target, predict(model, x))
        n     == model.num_observations + 1
    IN /\ model' = [model EXCEPT
                        !.num_observations = n,
                        !.weights = [i \in Dims |-> Plus(@[i], Times(k[i], error))],
                        !.bias = Plus(@, Over(error, Num(n))),
                        !.P = [i, j \in Dims |-> Minus(@[i, j], Times(k[i], xTP[j]))]]
       /\ trained' = Append(trained, x)
       /\ complete' = Called(FALSE)
       /\ UNCHANGED file

ResetModel ==
    /\ model' = NewModel(model.lambda)
    /\ trained' = <<>>
    /\ complete' = Called(FALSE)
    /\ UNCHANGED file

Foreign == [magic |-> TRUE, version |-> 1, num_features |-> 2, fields |-> 6,
            bias |-> Zero, weights |-> [i \in Dims |-> One], lambda |-> One]

Saved(fields) == [Foreign EXCEPT !.fields = fields, !.bias = model.bias,
                                 !.weights = model.weights, !.lambda = model.lambda]

Weighing(m) == <<m.weights, m.lambda>>

save ==
    /\ file' = Saved(6)
    /\ complete' = [Called(complete.loaded) EXCEPT !.saved = @ \cup {Weighing(model)}]
    /\ UNCHANGED <<model, trained>>

\* The process dies in save, and another begins with a new model.
SaveDies ==
    /\ \E n \in 0 .. 5 : file' = Saved(n)
    /\ model' = NewModel(Num(2))
    /\ trained' = <<>>
    /\ complete' = Called(FALSE)

LoadableHeader(f) ==
    /\ f # None
    /\ f.fields >= 3 /\ f.magic /\ f.version = 1 /\ f.num_features # 0

\* Each read of load succeeds, and the header is one it knows.
Loadable(f) ==
    /\ f # None
    /\ f.fields >= 3 /\ f.magic /\ f.version = 1 /\ f.num_features # 0
    /\ f.fields = 6

\* The bias is read, and not used.
load ==
    /\ IF Loadable(file)
       THEN /\ model' = [NewModel(file.lambda) EXCEPT !.weights = file.weights]
            /\ trained' = <<>>
            /\ complete' = Called(TRUE)
       ELSE /\ complete' = Called(complete.loaded)
            /\ UNCHANGED <<model, trained>>
    /\ UNCHANGED file

ModelNext ==
    /\ config.part = "model"
    /\ complete.calls < MaxModelCalls
    /\ \/ \E x \in {<<1, 0>>, <<1, 1>>, <<-1, 2>>}, y \in {0, 2} :
            train([i \in Dims |-> Num(x[i])], Num(y))
       \/ ResetModel
       \/ save
       \/ SaveDies
       \/ load
    /\ UNCHANGED <<bank, fed, cache, uses, detector, scores>>

PartsInit ==
    /\ bank = NewBank /\ fed = <<>>
    /\ cache = [lru |-> <<>>, hits |-> 0, misses |-> 0] /\ uses = <<>>
    /\ detector = NewDetector(Frac(1, 10)) /\ scores = None
    /\ model = NewModel(Num(2)) /\ trained = <<>>
    /\ file \in {None} \cup IF config.part # "model" THEN {}
                            ELSE {[Foreign EXCEPT !.magic = FALSE], [Foreign EXCEPT !.version = 2],
                                  [Foreign EXCEPT !.num_features = 0]}
    /\ complete = [saved |-> {}, loaded |-> FALSE, calls |-> 0]

(***************************************************************************)
(* Properties                                                              *)
(***************************************************************************)
Healthy == \A i \in DOMAIN fed : ~IsNaN(fed[i])

Mean(s) == Divide(Total(LAMBDA x : x, s), Len(s))

Deviation(s) == Total(LAMBDA x : Square(Minus(x, Mean(s))), s)

\* The statistics that are updated value by value are those of the values:
\* Bollinger's sums and ZScore's exchange of the oldest value both give the
\* mean and the variance of the last Period values, and the normalizer those
\* of all values, also when the circular buffers wrap and after a reset.
StatisticsExact ==
    (Healthy /\ fed # <<>>) =>
        LET b == bank.indicators["bollinger"]
            z == bank.indicators["zscore"]
            w == Latest(fed, Period)
        IN /\ b.value = Mean(w) /\ z.mean = Mean(w)
           /\ b.variance = Divide(Deviation(w), Len(w)) /\ z.m2 = Deviation(w)
           /\ bank.stats.mean = Mean(fed) /\ bank.stats.m2 = Deviation(fed)

\* RSI stays in 0..100 and is 50 until it has Period differences; prices that
\* never fell give 100, prices that only fell give 0.
RsiFollowsMoves ==
    Healthy =>
        LET rsi == bank.indicators["rsi"].value
            ready == Len(fed) > Period
            moves(op(_, _)) == \A i \in 2 .. Len(fed) : op(fed[i - 1], fed[i])
        IN /\ AtMost(Zero, rsi) /\ AtMost(rsi, Num(100))
           /\ ~ready => rsi = Num(50)
           /\ (ready /\ moves(AtMost)) => rsi = Num(100)
           /\ (ready /\ moves(LAMBDA x, y : Less(y, x))) => rsi = Zero

\* An average stays between the values it has seen, and NaN comes out of an
\* indicator only after NaN went in since the last reset.
AveragesStayInside ==
    Healthy =>
        /\ \A k \in Kinds : ~IsNaN(bank.indicators[k].value)
        /\ fed # <<>> => \A e \in {bank.indicators["ema"], bank.indicators["macd"].slow} :
                /\ \E i \in DOMAIN fed : AtMost(fed[i], e.value)
                /\ \E i \in DOMAIN fed : AtMost(e.value, fed[i])

\* The cache holds the keys used most recently, most recent first, each with
\* the prediction put last for its bucket: an LRU cache, from the sequence of
\* its uses.
CacheIsLru ==
    LET keys   == {uses[i].key : i \in DOMAIN uses}
        at(k)  == CHOOSE i \in DOMAIN uses :
                    uses[i].key = k /\ \A j \in DOMAIN uses : uses[j].key = k => j <= i
        recent == SetToSortSeq(keys, LAMBDA k, l : at(k) > at(l))
        kept   == SubSeq(recent, 1, IF Len(recent) < CacheSize THEN Len(recent) ELSE CacheSize)
    IN cache.lru = [i \in DOMAIN kept |-> uses[at(kept[i])]]

\* Hysteresis: detect leaves a regime only for one whose score is above the
\* old one's by the bonus at least; the confidence is in 0..1.
SwitchNeedsMargin ==
    [][ /\ AtMost(Zero, detector'.confidence) /\ AtMost(detector'.confidence, One)
        /\ (detector.initialized /\ detector'.initialized
                /\ detector'.regime # detector.regime) =>
            AtMost(Plus(scores'[detector.regime], detector.hysteresis),
                   scores'[detector'.regime]) ]_detector

\* The matrix that train updates in place stays the inverse of
\* lambda * I + the sum of x x^T over what was trained.
InverseHolds ==
    \A i, j \in Dims :
        LET gram(l, m) == Plus(IF l = m THEN model.lambda ELSE Zero,
                               Total(LAMBDA x : Times(x[l], x[m]), trained))
        IN Sum(LAMBDA l : Times(model.P[i, l], gram(l, j))) = IF i = j THEN One ELSE Zero

\* A model that load accepted has the weights and the lambda of a save that
\* completed, though a process may have died in save and left part of a file.
LoadedWasSaved == complete.loaded => Weighing(model) \in complete.saved

\* What the comment of the constructor says of volatile_threshold: the least
\* score at which the market is called volatile, 0.6 by default.
VolatileNeedsThreshold ==
    (detector.initialized /\ detector.regime = "volatile") =>
        AtMost(Frac(6, 10), scores.volatile)

==============================================================================
