----------------------------- MODULE MCAnalytics -----------------------------
(***************************************************************************)
(* An instance of Analytics.  Each configuration registers a few components*)
(* and chooses trades and books that matter to them.                       *)
(***************************************************************************)
EXTENDS Analytics

Shape(price, quantity, side, after) ==
    [price |-> price, quantity |-> quantity, side |-> side, after |-> after]

Level(price, quantity) == [price |-> price, quantity |-> quantity]

Void == [bids |-> <<>>, asks |-> <<>>]
OnlyBid == [bids |-> <<Level(10, 1)>>, asks |-> <<>>]
Tight == [bids |-> <<Level(10, 1)>>, asks |-> <<Level(12, 2)>>]
Wide == [bids |-> <<Level(9, 2), Level(8, 1)>>, asks |-> <<Level(14, 1)>>]

NoIndicators == [k \in {} |-> <<>>]

Quiet == [part |-> "engine", symbols |-> {"A"}, features |-> {},
          indicators |-> NoIndicators, weights |-> [c \in {} |-> <<>>],
          shapes |-> {}, books |-> {Tight}, max_size |-> 3, max_trades |-> 4,
          max_calls |-> 3, max_resets |-> 0, max_changes |-> 0]

Volumes == {Shape(10, 1, "buy", 0), Shape(12, 2, "sell", 1)}
Gaps == {Shape(10, 1, "buy", 0), Shape(12, 2, "sell", 1), Shape(12, 1, "sell", 5)}

MCConfigs ==
    {[Quiet EXCEPT !.part = p, !.symbols = {"A", "B"}] :
        p \in {"bank", "cache", "regime", "model", "latency", "throughput", "var", "lookback"}}
    \cup
    {[Quiet EXCEPT !.features = {"vwap", "trade_flow"}, !.shapes = Volumes,
                   !.books = {OnlyBid, Tight}, !.max_resets = 1],
     [Quiet EXCEPT !.features = {"vwap", "twap"}, !.shapes = Volumes,
                   !.symbols = {"A", "B"}, !.max_trades = 2],
     [Quiet EXCEPT !.features = {"ofi", "tick_intensity"}, !.shapes = Gaps],
     [Quiet EXCEPT !.features = {"twap", "spread_tracker"}, !.shapes = Gaps,
                   !.books = {Void, OnlyBid, Tight, Wide}, !.max_trades = 2],
     [Quiet EXCEPT !.features = {"momentum", "mean_reversion", "volatility_estimator"},
                   !.shapes = {Shape(p, 1, "buy", 0) : p \in {10, 14}},
                   !.max_size = 4, !.max_changes = 1],
     [Quiet EXCEPT !.features = {"microprice", "book_depth_ratio"},
                   !.indicators = [key \in {"microprice:ema"} |-> <<"microprice", "ema">>],
                   !.weights = [c \in {"alpha", "depth"} |->
                       IF c = "alpha" THEN [n \in {"microprice:ema"} |-> Frac(1, 20)]
                       ELSE [n \in {"book_depth_ratio", "vwap"} |-> Frac(-3, 4)]],
                   !.books = {OnlyBid, Tight, Wide}, !.max_resets = 1,
                   !.max_calls = 2, !.max_changes = 2]}

==============================================================================
