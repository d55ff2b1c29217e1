------------------------------ MODULE Governance ------------------------------
(***************************************************************************)
(* From the world to a permission: facts that come and go, a gatherer that     *)
(* writes them down, the report made of the record and the question whether    *)
(* an order may increase risk (governance/eligibility.py, asked by             *)
(* OrderManager._require_eligible_for_live and ExecutionService).              *)
(*                                                                          *)
(* Two builders of evidence are modelled.  The repository's own               *)
(* (gather_repo_evidence) reads the result file of the research.  A complete   *)
(* one, which the repository leaves to a deployment, records every field, one  *)
(* of them possibly wrong, with a clock that may run ahead.                   *)
(***************************************************************************)
EXTENDS Research, Eligibility

CONSTANTS
    MaxClock,               \* bound on the ticks, which begin on the second day
    Failures,               \* bound on the times a fact changes
    Measured,               \* a number for every field in Numbers
    Oddities                \* <<field, value>> the complete builder may get wrong

(* A report is read while it is younger than a day (MAX_REPORT_AGE_MINUTES is 15). *)
ASSUME GovernanceAssumption ==
    /\ MaxClock \in Nat /\ Failures \in Nat /\ ReportAge <= Day
    /\ \A o \in Oddities : o[1] \in Fields

VARIABLES
    builder,    \* "repository" or "complete"
    odd,        \* what the complete builder gets wrong
    ahead,      \* how far its clock is ahead
    clock,
    holds,      \* the facts that are true
    since,      \* when a fact was last true
    changes,    \* changes left
    reconciled, \* the last reconciliation: its instant and its verdict
    approved,   \* the instant of the last human approval
    evidence,   \* the last record of the complete builder
    report,     \* the last report
    granted     \* the last answer to an order that would increase risk

world == <<clock, holds, since, changes, reconciled, approved>>
desk == <<evidence, report, granted>>
setting == <<builder, odd, ahead>>
vars == <<setting, world, desk, research>>

Facts == {"broker", "books", "kill_switch"}    \* reachable, agreeing, clear
AsItIs == <<"nothing", Nothing>>
NoEvidence == [is |-> "missing"]

LastTrue(fact) == IF fact \in holds THEN clock ELSE since[fact]

-----------------------------------------------------------------------------
(* The world                                                                 *)

Tick ==
    /\ builder = "complete" /\ clock < MaxClock
    /\ clock' = clock + 1
    /\ UNCHANGED <<setting, desk, research, holds, since, changes, reconciled, approved>>

Fail(fact) ==
    /\ changes > 0 /\ fact \in holds
    /\ holds' = holds \ {fact} /\ since' = [since EXCEPT ![fact] = clock]
    /\ changes' = changes - 1
    /\ UNCHANGED <<setting, desk, research, clock, reconciled, approved>>

Heal(fact) ==
    /\ fact \notin holds
    /\ holds' = holds \cup {fact}
    /\ UNCHANGED <<setting, desk, research, clock, since, changes, reconciled, approved>>

Reconcile ==
    /\ builder = "complete"
    /\ reconciled' = [at |-> clock, agreed |-> "books" \in holds]
    /\ UNCHANGED <<setting, desk, research, clock, holds, since, changes, approved>>

Approve ==
    /\ builder = "complete" /\ changes > 0
    /\ approved' = clock /\ changes' = changes - 1
    /\ UNCHANGED <<setting, desk, research, clock, holds, since, reconciled>>

-----------------------------------------------------------------------------
(* The records                                                               *)

Snapshot ==
    [is |-> "snapshot", at |-> clock + ahead, broker |-> LastTrue("broker") + ahead,
     clear |-> "kill_switch" \in holds, reconciled |-> reconciled.at + ahead,
     agreed |-> reconciled.agreed, approved |-> approved \div Day, bar |-> clock \div Day]

(* A complete record of a snapshot, with the field the builder gets wrong.      *)
Recorded(e) ==
    LET Field(f) ==
          CASE f = "evidence_gathered_at" -> Instant(e.at)
            [] f = "broker_reachable_at" -> Instant(e.broker)
            [] f = "last_reconciliation_at" -> Instant(e.reconciled)
            [] f = "last_reconciliation_succeeded" -> Boolean(e.agreed)
            [] f = "kill_switch_engaged" -> Boolean(~e.clear)
            [] f = "broker_api_degraded" -> Boolean(FALSE)
            [] f = "price_history_start" -> Date(EpochDay)
            [] f = "price_history_end" -> Date(e.bar)
            [] f = "live_enable_approved_at" -> Date(e.approved)
            [] f = "trading_mode" -> Text("live")
            [] f \in {"benchmark_name", "live_enable_approved_by"} -> Text("someone")
            [] f \in Numbers -> Number(Measured[f])
            [] OTHER -> Boolean(TRUE)
    IN [f \in Fields |-> IF f = odd[1] THEN odd[2] ELSE Field(f)]

Unknown == [f \in Fields |-> Nothing]

(* The result file, or nothing if it does not name its experiment and the       *)
(* universe it applied; the trials deflated for are never recorded.          *)
RepoStatistics ==
    IF study.is = "missing" \/ study.provenance = "" \/ ~study.pit THEN Unknown
    ELSE LET o == study.outcome IN
         [Unknown EXCEPT
           !["oos_sharpe"] = Number(o.sharpe),
           !["oos_sharpe_at_stressed_costs"] = Number(o.stressed),
           !["deflated_sharpe_ratio"] = Number(o.dsr),
           !["probability_of_backtest_overfitting"] =
               IF o.pbo = "nan" THEN Nothing ELSE Number(o.overfit),
           !["n_trials_recorded"] = Number(Measured["n_trials_recorded"]),
           !["purged_walk_forward_completed"] = Boolean(study.folds # {}),
           !["label_embargo_applied"] = Boolean(study.folds # {}),
           !["net_annual_excess_return_vs_benchmark"] =
               IF o.excess = "none" THEN Nothing ELSE Number(o.gain),
           !["benchmark_name"] = Text("^NSEI")]

(* gather_repo_evidence: what the repository can show of itself.              *)
RepoRecord(mode) ==
    [RepoStatistics EXCEPT
       !["evidence_gathered_at"] = Instant(clock),
       !["price_history_symbols"] = Number(Cardinality(Symbols)),
       !["price_history_start"] = Date(0), !["price_history_end"] = Date(Len(panel)),
       !["price_history_is_real_market_data"] = Boolean(TRUE),
       !["point_in_time_index_constituents_available"] = Boolean(FALSE),
       !["point_in_time_fundamentals_available"] = Boolean(FALSE),
       !["intraday_history_days"] = Number(0),
       !["eligibility_enforced_at_order_path"] = Boolean(TRUE),
       !["trading_mode"] = Text(mode)]

-----------------------------------------------------------------------------
(* The report and the question                                               *)

Gather ==
    /\ builder = "complete"
    /\ evidence' = Snapshot
    /\ UNCHANGED <<setting, world, research, report, granted>>

(* A report on the last record: of all gates, without some, or with one that    *)
(* only bears the name.                                                     *)
AssessReport ==
    /\ evidence.is = "snapshot"
    /\ \E left \in {{}, {"max_drawdown_limit"}}, substituted \in {{}, {"max_drawdown_limit"}} :
         /\ odd = AsItIs => left = {} /\ substituted = {}
         /\ report' = Assess(Recorded(evidence), Canonical \ left, substituted, clock)
    /\ UNCHANGED <<setting, world, research, evidence, granted>>

(* A report is written to a file and read again.                             *)
Reload ==
    /\ report' = Reloaded(report)
    /\ UNCHANGED <<setting, world, research, evidence, granted>>

(* require_live_eligible with a report at hand.                              *)
Ask ==
    /\ granted' = Require(report, "increase", clock)
    /\ UNCHANGED <<setting, world, research, evidence, report>>

(* _require_eligible_for_live: no report at hand, so the repository's own.      *)
AskDefault ==
    /\ builder = "repository"
    /\ \E mode \in {"paper", "live"} :
         LET own == Assess(RepoRecord(mode), Canonical, {}, clock)
         IN report' = own /\ granted' = Require(own, "increase", clock)
    /\ UNCHANGED <<setting, world, research, evidence>>

Study ==
    /\ builder = "repository" /\ ResearchNext
    /\ UNCHANGED <<setting, world, desk>>

Init ==
    /\ \/ builder = "repository" /\ odd = AsItIs /\ ahead = 0 /\ clock = Day /\ changes = 0
          /\ ResearchInit
       \/ /\ builder = "complete" /\ odd \in Oddities \cup {AsItIs}
          /\ ahead \in (IF odd = AsItIs THEN 0..Skew ELSE {0})
          /\ clock = IF odd = AsItIs THEN Day ELSE MaxClock
          /\ changes = IF odd = AsItIs THEN Failures ELSE 0
          /\ panel = (CHOOSE p \in Panels : TRUE) /\ revised = 0 /\ study = NoStudy
    /\ holds = Facts /\ since = [fact \in Facts |-> clock]
    /\ reconciled = [at |-> clock, agreed |-> TRUE] /\ approved = clock
    /\ evidence = NoEvidence
    /\ report = [passed |-> {}, at |-> 0, computed |-> FALSE]
    /\ granted = FALSE

Next ==
    \/ Tick \/ Reconcile \/ Approve \/ Gather \/ AssessReport \/ Reload
    \/ Ask \/ AskDefault \/ Study
    \/ \E fact \in Facts : Fail(fact) \/ Heal(fact)

Spec == Init /\ [][Next]_vars

-----------------------------------------------------------------------------
(* Properties                                                               *)

(* Whatever happens between the world, the record, the report and the order:   *)
(* an order that may increase risk was asked for when the broker was reached,   *)
(* the books agreed and the kill switch was clear no longer ago than the limit *)
(* on that fact and the limit on a report together allow, and so for the        *)
(* approval, in days.                                                       *)
AuthorisedOnFacts ==
    [][Ask /\ granted' =>
         /\ clock - LastTrue("broker") <= HeartbeatAge + ReportAge + Skew
         /\ clock - LastTrue("books") <= ReconciliationAge + ReportAge + Skew
         /\ clock - LastTrue("kill_switch") <= EvidenceAge + ReportAge + Skew
         /\ (clock - approved) \div Day <= ApprovalAge + 1]_vars

(* A record with a field that is missing, of the wrong kind, not finite or not  *)
(* possible lets no report permit live trading, whichever field it is and       *)
(* whichever gates were asked.                                              *)
SilenceBlocks ==
    Permits(report) =>
      LET v == odd[2]  f == odd[1] IN
      \/ odd = AsItIs
      \/ f \in Numbers /\ Finite(v) /\ Possible(f, v.number)
      \/ f \in Flags /\ v.is = "boolean"
      \/ f \in Texts /\ Named(v)
      \/ f \in Dates /\ v.is = "date"
      \/ f \in Instants /\ v.is = "instant"

(* What the repository shows of a strategy's performance comes from a study     *)
(* that applied the point-in-time universe, and one that measured it on folds:   *)
(* an older result or one on survivors passes no gate that judges a strategy.    *)
StatisticsArePointInTime ==
    GatesPassed(RepoRecord("live"), clock) \cap
        {"oos_sharpe_floor", "deflated_sharpe_ratio", "cost_and_slippage_stress",
         "probability_of_backtest_overfitting", "beats_passive_benchmark",
         "purged_walk_forward"} # {}
      => study.is = "study" /\ study.pit

(* What is not known, or was not measured point in time, never permits.          *)
NothingPermitsUnproven == SilenceBlocks /\ StatisticsArePointInTime

=============================================================================
