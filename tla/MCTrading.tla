------------------------------ MODULE MCTrading ------------------------------
(***************************************************************************)
(* An instance of Trading.  The market maker may hold more than the        *)
(* position limit allows, so that the limit is what stops it.  Algorithms  *)
(* are tried with partial fills, strategies that need a long history with  *)
(* whole ones, and the breaker beside the strategy with the least state.   *)
(***************************************************************************)
EXTENDS Trading

MCProfile == <<1, 2>>

Ticks(px, strengths, types, regimes) ==
    [price : px, strength : strengths, type : types, regime : regimes,
     later : 0 .. 1]

MCInputs ==
    [name \in StrategyName |->
        CASE name = "market_making" ->
                Ticks(Price, {0}, {"momentum"}, {TRUE})
          [] name = "momentum_follower" ->
                Ticks(Price, {-6, 4, 6}, {"momentum"}, {TRUE})
                \cup Ticks({2}, {6}, {"momentum"}, {FALSE})
          [] name = "mean_reversion" ->
                Ticks(Price, {0}, {"momentum"}, BOOLEAN)
          [] name = "signal_threshold" ->
                Ticks({1, 3}, {-6, 6}, {"momentum"}, {TRUE})
                \cup Ticks({2}, {0}, {"momentum", "volatility"}, {TRUE})
          [] name = "stat_arb" ->
                Ticks({1, 2}, {0}, {"momentum"}, {TRUE})]

Case(strategy, algo, partial, bounds) ==
    [strategy |-> strategy, algo |-> algo, partial |-> partial,
     signals |-> bounds[1], orders |-> bounds[2], trips |-> bounds[3]]

MCConfigs ==
    {Case("market_making", "Twap", TRUE, <<1, 2, 0>>),
     Case("market_making", "Whole", FALSE, <<3, 4, 0>>),
     Case("signal_threshold", "Vwap", TRUE, <<2, 2, 0>>),
     Case("market_making", "Iceberg", TRUE, <<1, 2, 0>>),
     Case("momentum_follower", "Whole", FALSE, <<4, 2, 0>>),
     Case("mean_reversion", "Whole", FALSE, <<5, 3, 0>>),
     Case("stat_arb", "Whole", FALSE, <<6, 4, 0>>),
     Case("signal_threshold", "Whole", FALSE, <<2, 2, 2>>)}

==============================================================================
