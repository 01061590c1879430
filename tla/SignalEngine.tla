---------------------------- MODULE SignalEngine ----------------------------
(***************************************************************************)
(* The signal engine and its registry.  One thread adds trades and calls   *)
(* process and reset; another may register, clear, activate and deactivate *)
(* components at any time.  The registry's mutex guards each of its calls, *)
(* not the use of the pointer that a call returned.                        *)
(***************************************************************************)
EXTENDS Features, Indicators, FiniteSets, TLC

CONSTANTS
    None,
    Configs     \* what a behaviour is about, and its bounds

VARIABLES
    config,
    histories,      \* trade_histories_
    feature,        \* features_: the features by name
    indicator,      \* indicators_: the indicators by key
    registered,     \* names that have a component
    active,         \* names whose active flag is set
    pc,             \* where the thread is in process
    call,           \* [symbol, book] of process
    fv,             \* the FeatureVector
    todo,           \* names that the loop has still to visit
    held,           \* the component whose pointer was taken last, or None
    dead,           \* that component no longer exists
    signals,        \* the strengths by composite
    past            \* history of the calls, for the properties and the bounds

registry == <<feature, indicator, registered, active>>
engine_vars == <<config, histories, registry, pc, call, fv, todo, held, dead, signals, past>>

FeatureNames == config.features
IndicatorKeys == DOMAIN config.indicators
CompositeNames == DOMAIN config.weights
Names == FeatureNames \cup IndicatorKeys \cup CompositeNames

\* A key is "feature_name:indicator_name": its two parts.
Source(k) == config.indicators[k][1]
Kind(k) == config.indicators[k][2]

all_feature_names == registered \cap FeatureNames

active_feature_names == active \cap FeatureNames
active_indicator_keys == active \cap IndicatorKeys
active_composite_names == active \cap CompositeNames

Empty == [n \in {} |-> Zero]

EngineInit ==
    /\ config \in Configs
    /\ histories = [s \in config.symbols |-> <<>>]
    /\ feature = [n \in FeatureNames |-> NewFeature(n)]
    /\ indicator = [k \in IndicatorKeys |-> NewIndicator(Kind(k))]
    /\ registered = Names /\ active = Names
    /\ pc = "idle" /\ call = None
    /\ fv = Empty /\ todo = {} /\ held = None /\ dead = FALSE
    /\ signals = Empty
    /\ past = [trades |-> [s \in config.symbols |-> <<>>],  \* every trade added
               symbols |-> {},                              \* of the calls of process
               calls |-> 0, resets |-> 0, changes |-> 0,
               live |-> {},      \* names active at some time in this call
               still |-> TRUE,   \* the registry has not changed in this call
               sick |-> {}]      \* indicators given NaN since they were new

(***************************************************************************)
(* The calling thread                                                      *)
(***************************************************************************)
Idle == pc = "idle"

Now == FoldSet(LAMBDA s, a : IF past.trades[s] # <<>> /\ Last(past.trades[s]).ts > a
                             THEN Last(past.trades[s]).ts ELSE a,
               1, config.symbols)

\* trade_history(symbol).add
AddTrade(s, shape) ==
    LET trade == [price |-> shape.price, quantity |-> shape.quantity, side |-> shape.side,
                  ts |-> Now + shape.after]
    IN /\ Idle
       /\ Len(past.trades[s]) < config.max_trades
       /\ histories' = [histories EXCEPT ![s] = HistoryAdd(@, trade, config.max_size)]
       /\ past' = [past EXCEPT !.trades[s] = Append(@, trade)]
       /\ UNCHANGED <<config, registry, pc, call, fv, todo, held, dead, signals>>

reset ==
    /\ Idle
    /\ past.resets < config.max_resets
    /\ histories' = [s \in config.symbols |-> <<>>]
    /\ fv' = Empty
    /\ indicator' = [k \in IndicatorKeys |->
                        IF k \in active_indicator_keys THEN NewIndicator(Kind(k))
                        ELSE indicator[k]]
    /\ past' = [past EXCEPT !.resets = @ + 1, !.sick = @ \ active_indicator_keys]
    /\ UNCHANGED <<config, feature, registered, active, pc, call, todo, held, dead, signals>>

process(s, book) ==
    /\ Idle
    /\ past.calls < config.max_calls
    /\ pc' = "features"
    /\ call' = [symbol |-> s, book |-> book]
    /\ fv' = Empty
    /\ todo' = active_feature_names
    /\ signals' = Empty
    /\ past' = [past EXCEPT !.calls = @ + 1, !.symbols = @ \cup {s},
                            !.live = active, !.still = TRUE]
    /\ UNCHANGED <<config, histories, registry, held, dead>>

\* get_feature, get_indicator, get_composite: a pointer, or null.  An
\* indicator whose feature is not in the vector is passed over.
Get(n) ==
    /\ held = None
    /\ n \in todo
    /\ todo' = todo \ {n}
    /\ held' = IF n \notin registered \/ (pc = "indicators" /\ Source(n) \notin DOMAIN fv)
               THEN None ELSE n
    /\ dead' = FALSE
    /\ UNCHANGED <<config, histories, registry, pc, call, fv, signals, past>>

\* The component is used through a pointer to what is no longer there.
UseDead ==
    /\ held # None /\ dead
    /\ pc' = "undefined"
    /\ UNCHANGED <<config, histories, registry, call, fv, todo, held, dead, signals, past>>

\* One feature of compute_features.
ComputeFeature ==
    LET f == compute(held, feature[held], call.book, histories[call.symbol])
    IN /\ pc = "features" /\ held # None /\ ~dead
       /\ feature' = [feature EXCEPT ![held] = f]
       /\ fv' = (held :> f.value) @@ fv
       /\ held' = None
       /\ UNCHANGED <<config, histories, indicator, registered, active, pc, call, todo,
                      dead, signals, past>>

\* One indicator of apply_indicators.
UpdateIndicator ==
    LET input == fv[Source(held)]
        i == update(Kind(held), indicator[held], input)
    IN /\ pc = "indicators" /\ held # None /\ ~dead
       /\ indicator' = [indicator EXCEPT ![held] = i]
       /\ fv' = (held :> i.value) @@ fv
       /\ held' = None
       /\ past' = IF IsNaN(input) THEN [past EXCEPT !.sick = @ \cup {held}] ELSE past
       /\ UNCHANGED <<config, histories, feature, registered, active, pc, call, todo,
                      dead, signals>>

\* AlphaCombiner: features that are not in the vector count as 0.
combine(weights, values) ==
    LET term(n) == Times(weights[n], IF n \in DOMAIN values THEN values[n] ELSE Zero)
    IN Clamp(TotalSet(term, DOMAIN weights), Num(-1), One)

\* One composite of evaluate_composites.
CombineFeatures ==
    /\ pc = "composites" /\ held # None /\ ~dead
    /\ signals' = (held :> combine(config.weights[held], fv)) @@ signals
    /\ held' = None
    /\ UNCHANGED <<config, histories, registry, pc, call, fv, todo, dead, past>>

\* The end of a loop: the next one begins, or process returns.
EndLoop ==
    /\ ~Idle /\ todo = {} /\ held = None
    /\ pc' = CASE pc = "features"   -> "indicators"
               [] pc = "indicators" -> "composites"
               [] pc = "composites" -> "idle"
    /\ todo' = CASE pc = "features"   -> active_indicator_keys
                 [] pc = "indicators" -> active_composite_names
                 [] pc = "composites" -> {}
    /\ UNCHANGED <<config, histories, registry, call, fv, held, dead, signals, past>>

Caller ==
    \/ \E s \in config.symbols, shape \in config.shapes : AddTrade(s, shape)
    \/ reset
    \/ \E s \in config.symbols, book \in config.books : process(s, book)
    \/ \E n \in Names : Get(n)
    \/ UseDead
    \/ ComputeFeature
    \/ UpdateIndicator
    \/ CombineFeatures
    \/ EndLoop

(***************************************************************************)
(* The thread that configures the registry                                 *)
(***************************************************************************)
\* A change of the registry; gone are the components it destroys.
Changes(gone) ==
    /\ past.changes < config.max_changes
    /\ dead' = (dead \/ held \in gone)
    /\ past' = [past EXCEPT !.changes = @ + 1, !.still = FALSE,
                            !.live = @ \cup active', !.sick = @ \ gone]
    /\ UNCHANGED <<config, histories, pc, call, fv, todo, held, signals>>

\* An unknown name is left alone.
SetActive(n, on) ==
    /\ n \in registered
    /\ active' = IF on THEN active \cup {n} ELSE active \ {n}
    /\ Changes({})
    /\ UNCHANGED <<feature, indicator, registered>>

set_feature_active(n, on) == n \in FeatureNames /\ SetActive(n, on)

set_indicator_active(k, on) == k \in IndicatorKeys /\ SetActive(k, on)

set_composite_active(c, on) == c \in CompositeNames /\ SetActive(c, on)

\* A new component takes the place of one of the same name.
Register(n) ==
    /\ registered' = registered \cup {n}
    /\ active' = active \cup {n}
    /\ Changes({n})

register_feature(n) ==
    /\ feature' = [feature EXCEPT ![n] = NewFeature(n)]
    /\ Register(n)
    /\ UNCHANGED indicator

register_indicator(k) ==
    /\ indicator' = [indicator EXCEPT ![k] = NewIndicator(Kind(k))]
    /\ Register(k)
    /\ UNCHANGED feature

register_composite(c) == Register(c) /\ UNCHANGED <<feature, indicator>>

clear ==
    /\ registered' = {} /\ active' = {}
    /\ Changes(Names)
    /\ UNCHANGED <<feature, indicator>>

Configurer ==
    /\ pc # "undefined"
    /\ \/ \E n \in Names, on \in BOOLEAN :
            \/ set_feature_active(n, on)
            \/ set_indicator_active(n, on)
            \/ set_composite_active(n, on)
       \/ \E n \in FeatureNames : register_feature(n)
       \/ \E k \in IndicatorKeys : register_indicator(k)
       \/ \E c \in CompositeNames : register_composite(c)
       \/ clear

EngineNext == Caller \/ Configurer

(***************************************************************************)
(* Properties                                                              *)
(***************************************************************************)
\* One symbol, a history that lost nothing, and no reset: last_processed_
\* then counts the trades of that symbol.
Calm(s) ==
    /\ past.symbols \subseteq {s}
    /\ Len(past.trades[s]) <= config.max_size
    /\ past.resets = 0

Read(s, n) == SubSeq(past.trades[s], 1, feature[n].last_processed)

\* What a feature keeps incrementally is what the trades that it has read say:
\* the sums of VWAP, the prices of Momentum and MeanReversion, the samples of
\* OrderFlowImbalance in its window, the last bar of VolatilityEstimator,
\* whatever the calls and the (de)activations in between.  It holds only for a calm engine: the features
\* count trades, but each symbol has its own history, which also forgets.
FeaturesFollowTrades ==
    \A s \in config.symbols, n \in FeatureNames :
        (Calm(s) /\ "last_processed" \in DOMAIN feature[n]) =>
            LET read == Read(s, n)
                f    == feature[n]
                near == SelectSeq(read, LAMBDA t : t.ts + WindowNs >= Last(read).ts)
            IN CASE n = "vwap" ->
                        /\ f.cum_qty = Count(LAMBDA t : t.quantity, read)
                        /\ f.cum_price_qty = Count(LAMBDA t : t.price * t.quantity, read)
                 [] n = "momentum" -> f.prices = Latest(Prices(read), LongWindow + 1)
                 [] n = "mean_reversion" -> f.prices = Latest(Prices(read), LongWindow)
                 [] n = "ofi" -> f.samples = near
                 [] n = "volatility_estimator" ->
                        read # <<>> => Last(f.bars).close = Last(read).price
                 [] OTHER -> TRUE

\* The window of TickIntensity that is open is the one of the last trade, and
\* ticks_in_window_ counts its trades, however many windows passed without
\* one.
TickWindowIsCurrent ==
    \A s \in config.symbols :
        (Calm(s) /\ "tick_intensity" \in FeatureNames) =>
            LET f    == feature["tick_intensity"]
                read == Read(s, "tick_intensity")
                open == f.window_start
            IN read # <<>> =>
                /\ Last(read).ts \in open .. open + WindowNs - 1
                /\ f.ticks_in_window = Len(SelectSeq(read, LAMBDA t : t.ts >= open))

\* A time-weighted average lies between the prices it averages, as long as
\* time does not go back: with two symbols, or after a reset, it does, and
\* the unsigned weights wrap.
AverageIsBetween ==
    \A s \in config.symbols :
        (Calm(s) /\ "twap" \in FeatureNames) =>
            LET f  == feature["twap"]
                in == {f.samples[i].price : i \in DOMAIN f.samples}
            IN (f.samples # <<>> /\ ~IsNaN(f.value)) =>
                /\ \E p \in in : AtMost(p, f.value)
                /\ \E p \in in : AtMost(f.value, p)

\* The running counts of TradeFlow and the running sums of SpreadTracker are
\* those of the samples in the window, for every symbol and after every reset.
RunningSumsMatch ==
    /\ "trade_flow" \in FeatureNames =>
        LET f == feature["trade_flow"]
        IN /\ Len(f.samples) <= WindowSize
           /\ f.buy_count = Len(SelectSeq(f.samples, LAMBDA x : x = "buy"))
           /\ f.sell_count = Len(SelectSeq(f.samples, LAMBDA x : x = "sell"))
    /\ "spread_tracker" \in FeatureNames =>
        LET f == feature["spread_tracker"]
        IN /\ Len(f.samples) <= WindowSize
           /\ f.sum = Count(LAMBDA x : x, f.samples)
           /\ f.sum_sq = Count(LAMBDA x : x * x, f.samples)

\* A call's vector and its signals come only from components that were active
\* at some time during the call, though the other thread switches them while
\* the loops run; and when it leaves the registry alone, process returns one
\* signal per active composite.
OnlyActiveContribute ==
    /\ DOMAIN fv \cup DOMAIN signals \subseteq past.live
    /\ (Idle /\ past.calls > 0 /\ past.still) => DOMAIN signals = active \cap CompositeNames

\* A strength is in [-1, 1], or it is NaN and there is a reason: a feature of
\* the composite was NaN in this call, or one of its indicators was given NaN
\* since it was new or reset.
StrengthsExplained ==
    (pc = "composites" /\ past.still) => \A c \in DOMAIN signals :
        IF IsNaN(signals[c])
        THEN \E n \in DOMAIN config.weights[c] \cap DOMAIN fv :
                n \in past.sick \/ (n \in FeatureNames /\ IsNaN(fv[n]))
        ELSE AtMost(Num(-1), signals[c]) /\ AtMost(signals[c], One)

\* What the comment of FeatureBase demands: the same book and the same trades
\* give the same value, so a feature that has read a history gives the value
\* of a new one.
Stateless ==
    \A n \in FeatureNames :
        (Idle /\ call # None /\ n \in DOMAIN fv) =>
            feature[n].value =
                compute(n, NewFeature(n), call.book, histories[call.symbol]).value

==============================================================================
