----------------------------- MODULE RiskLimits -----------------------------
(***************************************************************************)
(* The five limits that PreTradeRisk runs before an order and the two      *)
(* monitors that PostTradeRisk runs after a fill, as operators on the      *)
(* portfolio (one record of module Portfolio for each symbol), the         *)
(* reference prices and the state of the limits.                           *)
(***************************************************************************)
EXTENDS Strategies, FiniteSetsExt

CONSTANTS
    MaxShares,            \* max_position_shares
    MaxNotional,          \* max_notional_dollars
    MaxDailyLoss,         \* max_daily_loss, of both risk classes
    MaxOrdersPerSecond,
    MaxConcentrationPct,  \* in percent
    WarningPct,           \* pnl_warning_threshold, in percent
    MaxNet, MaxGross,     \* exposure limits of the monitor
    Second,               \* the width of the rate window
    FailFast              \* fail_fast

\* The state of PreTradeRisk and PostTradeRisk.
NoRisk == [running_pnl |-> 0, timestamps |-> <<>>, breaches |-> {}]

total_pnl(folio) ==
    MapThenSumSet(LAMBDA x : folio[x].realized + folio[x].unrealized, Symbol)

Proposed(d, folio) == folio[d.symbol].position + Signed(d)

\* A bug of the position check: the order itself is not counted.
PositionLimitCurrent(d, folio) == Abs(folio[d.symbol].position) <= MaxShares

PositionLimit(d, folio) == Abs(Proposed(d, folio)) <= MaxShares

NotionalLimit(d, folio, ref) == Abs(Proposed(d, folio)) * ref <= MaxNotional

\* The portfolio's profit is added to a running profit that
\* check_post_trade has set to the portfolio's profit of the last fill.
LossLimit(r, folio) == r.running_pnl + total_pnl(folio) > -MaxDailyLoss

prune(r, now) ==
    [r EXCEPT !.timestamps = SelectSeq(@, LAMBDA t : t + Second > now)]

OrderRateLimit(r, now) == Len(prune(r, now).timestamps) < MaxOrdersPerSecond

\* A total of 0 passes: then the order leaves nothing of its symbol.
ConcentrationLimit(d, folio, prices, ref) ==
    LET mine  == Abs(Proposed(d, folio)) * ref
        total == mine + MapThenSumSet(
                          LAMBDA x : Abs(folio[x].position) * prices[x],
                          Symbol \ {d.symbol})
    IN  100 * mine <= MaxConcentrationPct * total

reference_price(d, prices) ==
    IF d.order_type = "Limit" /\ d.limit_price > 0
    THEN d.limit_price ELSE prices[d.symbol]

\* The results in the order of the checks, up to the first failure if
\* fail_fast is set.
check_pre_trade(r, d, folio, prices, now) ==
    LET ref == reference_price(d, prices)
        all == <<PositionLimit(d, folio), NotionalLimit(d, folio, ref),
                 LossLimit(r, folio), OrderRateLimit(r, now),
                 ConcentrationLimit(d, folio, prices, ref)>>
        failed == {i \in 1 .. 5 : ~all[i]}
    IN  IF FailFast /\ failed # {} THEN SubSeq(all, 1, Min(failed)) ELSE all

Approved(results) == \A i \in DOMAIN results : results[i]

\* The portfolio's profit, and one more entry in the window of the rate
\* limit: fills are counted there, not orders.
check_post_trade(r, folio, now) ==
    [r EXCEPT !.running_pnl = total_pnl(folio),
              !.timestamps = Append(@, now)]

------------------------------------------------------------------------------

PnLMonitor(folio) ==
    LET pnl == total_pnl(folio)
    IN  IF pnl <= -MaxDailyLoss THEN {"LossLimit"}
        ELSE IF 100 * pnl <= -(MaxDailyLoss * WarningPct) THEN {"PnLWarning"}
        ELSE {}

ExposureMonitor(folio, prices) ==
    LET notional(x) == folio[x].position * prices[x]
        gross == MapThenSumSet(LAMBDA x : Abs(notional(x)), Symbol)
        net   == MapThenSumSet(notional, Symbol)
    IN  IF gross > MaxGross \/ Abs(net) > MaxNet THEN {"ExposureLimit"} ELSE {}

PostTradeOnFill(r, folio, prices) ==
    [r EXCEPT !.breaches = PnLMonitor(folio) \cup ExposureMonitor(folio, prices)]

==============================================================================
