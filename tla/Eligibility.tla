----------------------------- MODULE Eligibility -----------------------------
(***************************************************************************)
(* The gates between this system and a live order (governance/eligibility.py): *)
(* an evidence record, thirty-one gates over it, the report they make and the  *)
(* check that a report must pass before an order may increase risk.           *)
(*                                                                          *)
(* A field holds nothing, a number (in hundredths), a NaN or an infinity, a    *)
(* boolean, a text, a date or an instant: whoever writes the record may put    *)
(* any of them anywhere.  Times are ticks, dates are days of Day ticks.        *)
(***************************************************************************)
EXTENDS Integers, FiniteSets

CONSTANTS
    Day,                    \* ticks of a day
    EvidenceAge, HeartbeatAge, ReconciliationAge, ReportAge,   \* limits in ticks
    DataAge, ApprovalAge,   \* limits in days
    Skew,                   \* ticks a stamp may lie in the future
    HistoryDays,            \* days of price history required
    EpochDay                \* the first day market data can have

ASSUME EligibilityAssumption ==
    /\ Day \in Nat \ {0}
    /\ {EvidenceAge, HeartbeatAge, ReconciliationAge, ReportAge, DataAge, ApprovalAge,
        Skew, HistoryDays, EpochDay} \subseteq Nat

-----------------------------------------------------------------------------
(* What a field may hold                                                     *)

Nothing == [is |-> "nothing"]
Number(n) == [is |-> "number", number |-> n]
NaN == [is |-> "nan"]
Infinity == [is |-> "infinity"]
Boolean(b) == [is |-> "boolean", truth |-> b]
Text(s) == [is |-> "text", text |-> s]
Date(d) == [is |-> "date", day |-> d]
Instant(t) == [is |-> "instant", at |-> t]
Naive(t) == [is |-> "naive", at |-> t]          \* an instant without its zone

Flags ==
    {"price_history_is_real_market_data", "point_in_time_index_constituents_available",
     "point_in_time_fundamentals_available", "data_quality_audit_passed",
     "real_ohlc_available", "corporate_actions_adjusted", "market_data_feed_healthy",
     "purged_walk_forward_completed", "label_embargo_applied", "broker_auth_verified",
     "order_lifecycle_verified", "reconciliation_verified",
     "duplicate_order_protection_verified", "kill_switch_verified",
     "timezone_squareoff_verified", "broker_session_valid", "broker_api_degraded",
     "last_reconciliation_succeeded", "risk_limits_loaded", "kill_switch_engaged",
     "eligibility_enforced_at_order_path"}

Sharpes == {"deflated_sharpe_ratio", "oos_sharpe", "oos_sharpe_at_stressed_costs",
            "paper_sharpe", "backtest_expected_sharpe"}
Shares == {"max_single_name_pnl_share", "max_sector_pnl_share",
           "max_single_year_pnl_share", "top_5_trades_pnl_share"}
Fractions == {"probability_of_backtest_overfitting", "max_drawdown", "current_drawdown"}
Counts == {"price_history_symbols", "intraday_history_days", "n_trials_recorded",
           "n_trials_used_in_dsr", "open_reconciliation_breaks",
           "active_risk_limit_breaches", "paper_trading_days", "slippage_multiple_survived"}
Numbers == Sharpes \cup Shares \cup Fractions \cup Counts
               \cup {"net_annual_excess_return_vs_benchmark"}
Texts == {"benchmark_name", "trading_mode", "live_enable_approved_by"}
Dates == {"price_history_start", "price_history_end", "live_enable_approved_at"}
Instants == {"evidence_gathered_at", "broker_reachable_at", "last_reconciliation_at"}
Fields == Flags \cup Numbers \cup Texts \cup Dates \cup Instants

(* _NUMERIC_DOMAINS: outside of it a number is a bug, not a measurement.      *)
Possible(f, n) ==
    CASE f \in Sharpes -> -2000 <= n /\ n <= 2000
      [] f \in Shares -> 0 <= n /\ n <= 10000
      [] f \in Fractions -> 0 <= n /\ n <= 100
      [] f \in Counts -> 0 <= n
      [] f = "net_annual_excess_return_vs_benchmark" -> -100 <= n /\ n <= 1000

-----------------------------------------------------------------------------
(* The check helpers: nothing, NaN and infinity fail every one of them.        *)

Flag(v) == v.is = "boolean" /\ v.truth
NotFlag(v) == v.is = "boolean" /\ ~v.truth
Finite(v) == v.is = "number"

MinValue(v, floor) == Finite(v) /\ v.number >= floor

(* Slip: a cap is only there to stop a number above it.                      *)
MaxValueUnlessAbove(v, cap) == v.is # "nan" /\ ~(Finite(v) /\ v.number > cap)

MaxValue(v, cap) == Finite(v) /\ v.number <= cap
Above(v, floor) == Finite(v) /\ v.number > floor
Below(v, cap) == Finite(v) /\ v.number < cap
Named(v) == v.is = "text" /\ v.text # ""
Fresh(v, age, now) == v.is = "instant" /\ now - v.at \in -Skew..age
Today(now) == now \div Day
FreshDate(v, days, now) == v.is = "date" /\ Today(now) - v.day \in -1..days

(* evidence_well_formed: every value that is there is a possible measurement. *)
WellFormed(e, now) ==
    /\ \E f \in Fields : e[f] # Nothing
    /\ \A f \in Fields : e[f] # Nothing =>
         \/ f \in Numbers  /\ Finite(e[f]) /\ Possible(f, e[f].number)
         \/ f \in Flags    /\ e[f].is = "boolean"
         \/ f \in Texts    /\ e[f].is = "text"
         \/ f \in Dates    /\ e[f].is = "date" /\ e[f].day \in EpochDay..(Today(now) + 1)
         \/ f \in Instants /\ e[f].is = "instant" /\ e[f].at - now <= Skew
    /\ LET from == e["price_history_start"]  to == e["price_history_end"]
       IN from.is = "date" /\ to.is = "date" => from.day <= to.day

LongHistory(from, to) == from.is = "date" /\ to.is = "date" /\ to.day - from.day >= HistoryDays

(* used # recorded fails: the trials are recorded, and all deflated for.       *)
HonestTrials(e) ==
    /\ MinValue(e["n_trials_recorded"], 1)
    /\ Finite(e["n_trials_used_in_dsr"])
    /\ e["n_trials_used_in_dsr"].number = e["n_trials_recorded"].number

PaperMatches(e) ==
    /\ Finite(e["paper_sharpe"])
    /\ Above(e["backtest_expected_sharpe"], 0)
    /\ 2 * e["paper_sharpe"].number >= e["backtest_expected_sharpe"].number

HumanEnabled(e) ==
    /\ e["trading_mode"] = Text("live")
    /\ Named(e["live_enable_approved_by"])
    /\ e["live_enable_approved_at"].is = "date"

-----------------------------------------------------------------------------
(* ALL_GATES: the verdict of every gate on a record, read at now.             *)

DataGates(e, now) ==
    [evidence_freshness |-> Fresh(e["evidence_gathered_at"], EvidenceAge, now),
     evidence_well_formed |-> WellFormed(e, now),
     real_price_history |->
         /\ Flag(e["price_history_is_real_market_data"])
         /\ MinValue(e["price_history_symbols"], 50)
         /\ LongHistory(e["price_history_start"], e["price_history_end"]),
     market_data_current |->
         /\ FreshDate(e["price_history_end"], DataAge, now)
         /\ Flag(e["market_data_feed_healthy"]),
     point_in_time_index_constituents |-> Flag(e["point_in_time_index_constituents_available"]),
     point_in_time_fundamentals |-> Flag(e["point_in_time_fundamentals_available"]),
     intraday_history_span |-> MinValue(e["intraday_history_days"], 504),
     data_quality_audit |->
         \A f \in {"data_quality_audit_passed", "real_ohlc_available",
                   "corporate_actions_adjusted"} : Flag(e[f])]

StatisticalGates(e) ==
    [purged_walk_forward |->
         Flag(e["purged_walk_forward_completed"]) /\ Flag(e["label_embargo_applied"]),
     deflated_sharpe_ratio |-> Above(e["deflated_sharpe_ratio"], 95),
     probability_of_backtest_overfitting |->
         Below(e["probability_of_backtest_overfitting"], 50),
     beats_passive_benchmark |->
         /\ Named(e["benchmark_name"])
         /\ Above(e["net_annual_excess_return_vs_benchmark"], 0),
     honest_trial_count |-> HonestTrials(e)]

PerformanceGates(e) ==
    [oos_sharpe_floor |-> MinValue(e["oos_sharpe"], 50),
     max_drawdown_limit |-> MaxValue(e["max_drawdown"], 15),
     cost_and_slippage_stress |->
         /\ MinValue(e["slippage_multiple_survived"], 150)
         /\ MinValue(e["oos_sharpe_at_stressed_costs"], 50),
     return_concentration |->
         /\ MaxValue(e["max_single_name_pnl_share"], 25)
         /\ MaxValue(e["max_sector_pnl_share"], 40)
         /\ MaxValue(e["max_single_year_pnl_share"], 50)
         /\ MaxValue(e["top_5_trades_pnl_share"], 50)]

ExecutionGates(e, now) ==
    [broker_auth |-> Flag(e["broker_auth_verified"]),
     broker_connectivity |->
         /\ Fresh(e["broker_reachable_at"], HeartbeatAge, now)
         /\ Flag(e["broker_session_valid"])
         /\ NotFlag(e["broker_api_degraded"]),
     order_lifecycle |-> Flag(e["order_lifecycle_verified"]),
     reconciliation |-> Flag(e["reconciliation_verified"]),
     reconciliation_current |->
         /\ Fresh(e["last_reconciliation_at"], ReconciliationAge, now)
         /\ Flag(e["last_reconciliation_succeeded"])
         /\ MaxValue(e["open_reconciliation_breaks"], 0),
     duplicate_order_protection |-> Flag(e["duplicate_order_protection_verified"]),
     kill_switch |-> Flag(e["kill_switch_verified"]),
     timezone_and_squareoff |-> Flag(e["timezone_squareoff_verified"]),
     enforcement_wired_into_order_path |-> Flag(e["eligibility_enforced_at_order_path"])]

RiskGates(e) ==
    [risk_limits_enforced |->
         /\ Flag(e["risk_limits_loaded"])
         /\ MaxValue(e["active_risk_limit_breaches"], 0)
         /\ MaxValue(e["current_drawdown"], 15)
         /\ NotFlag(e["kill_switch_engaged"])]

PaperGates(e, now) ==
    [paper_trading_duration |-> MinValue(e["paper_trading_days"], 90),
     paper_matches_backtest |-> PaperMatches(e),
     human_enabled_live_mode |-> HumanEnabled(e),
     approval_is_current |-> FreshDate(e["live_enable_approved_at"], ApprovalAge, now)]

GatesPassed(e, now) ==
    LET Passed(results) == {g \in DOMAIN results : results[g]}
    IN Passed(DataGates(e, now)) \cup Passed(StatisticalGates(e))
           \cup Passed(PerformanceGates(e)) \cup Passed(ExecutionGates(e, now))
           \cup Passed(RiskGates(e)) \cup Passed(PaperGates(e, now))

Canonical ==
    {"evidence_freshness", "evidence_well_formed", "real_price_history",
     "market_data_current", "point_in_time_index_constituents",
     "point_in_time_fundamentals", "intraday_history_span", "data_quality_audit",
     "purged_walk_forward", "deflated_sharpe_ratio", "probability_of_backtest_overfitting",
     "beats_passive_benchmark", "honest_trial_count", "oos_sharpe_floor",
     "max_drawdown_limit", "cost_and_slippage_stress", "return_concentration",
     "broker_auth", "broker_connectivity", "order_lifecycle", "reconciliation",
     "reconciliation_current", "duplicate_order_protection", "kill_switch",
     "timezone_and_squareoff", "enforcement_wired_into_order_path",
     "risk_limits_enforced", "paper_trading_duration", "paper_matches_backtest",
     "human_enabled_live_mode", "approval_is_current"}

-----------------------------------------------------------------------------
(* The report and its use                                                    *)

(* assess_live_trading_eligibility with the gates chosen: a gate of the        *)
(* registry that is not among them is injected as failed, and one that only    *)
(* bears the name of one cannot pass.                                        *)
Assess(e, chosen, substituted, now) ==
    [passed |-> (GatesPassed(e, now) \cap chosen) \ substituted, at |-> now, computed |-> TRUE]

(* from_json: what was written down, and no permission.                      *)
Reloaded(report) == [report EXCEPT !.computed = FALSE]

(* EligibilityReport.state and permits_live_trading.                          *)
Permits(report) == Canonical \subseteq report.passed /\ report.computed

(* Slip: a report is good for as long as its evidence.                        *)
RequireAged(report, intent, now) ==
    intent = "reduce" \/ (report.computed /\ now - report.at <= EvidenceAge
                          /\ Canonical \subseteq report.passed)

(* require_live_eligible: a reduction of risk always passes; the rest on a     *)
(* computed, recent report in which every gate of the registry passed.        *)
Require(report, intent, now) ==
    \/ intent = "reduce"
    \/ /\ report.computed
       /\ now - report.at <= ReportAge
       /\ Canonical \subseteq report.passed
=============================================================================
