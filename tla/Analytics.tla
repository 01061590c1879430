----------------------------- MODULE Analytics -----------------------------
(***************************************************************************)
(* What the system computes from its numbers: the signal library, and the  *)
(* statistics of the consumer and of risk.  A behaviour looks at one of    *)
(* them, config.part.                                                      *)
(***************************************************************************)
EXTENDS SignalParts, Statistics

vars == <<engine_vars, part_vars, stat_vars>>

Init == EngineInit /\ PartsInit /\ StatInit

Next ==
    \/ /\ config.part = "engine"
       /\ EngineNext
       /\ UNCHANGED <<part_vars, stat_vars>>
    \/ /\ BankNext \/ CacheNext \/ RegimeNext \/ ModelNext
       /\ UNCHANGED <<engine_vars, stat_vars>>
    \/ /\ StatNext(config.part)
       /\ UNCHANGED <<engine_vars, part_vars>>

Spec == Init /\ [][Next]_vars

\* Types, for the fields of the classes.
TypeOK ==
    /\ active \subseteq registered /\ registered \subseteq Names
    /\ pc \in {"idle", "features", "indicators", "composites", "undefined"}
    /\ held \in Names \cup {None} /\ todo \subseteq Names
    /\ Len(cache.lru) <= CacheSize
    /\ detector.regime \in Regimes
    /\ tracker.write_pos \in 0 .. WindowSeconds - 1

\* The state of every feature is what the trades and books it was given say
\* (compute of the features).
FeaturesFollowHistory ==
    /\ TypeOK
    /\ FeaturesFollowTrades /\ TickWindowIsCurrent /\ AverageIsBetween
    /\ RunningSumsMatch

\* What process returns comes from active components and is in range, or NaN
\* for a reason, though another thread changes the registry meanwhile.
SignalsExplained == OnlyActiveContribute /\ StrengthsExplained

\* What an indicator reports is what the values since its reset say (update).
IndicatorsMatchHistory ==
    StatisticsExact /\ RsiFollowsMoves /\ AveragesStayInside

\* The online model is the one that its training and its file define (train
\* of LinearModel, save and load of ModelLoader).
ModelIsRight == InverseHolds /\ LoadedWasSaved

\* The statistics report what was recorded (LatencyHistogram,
\* ThroughputTracker and VaRCalculator).
StatisticsMatchSamples ==
    /\ PercentilesBracket /\ RateIsWindowMean
    /\ ReturnsAreLatest /\ DiversificationHelps

==============================================================================
