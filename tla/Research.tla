------------------------------- MODULE Research -------------------------------
(***************************************************************************)
(* The research that a verdict on a strategy rests on: a panel of daily bars   *)
(* that grows and is revised, the point-in-time universe computed from it      *)
(* (research/universe.py), the study with its criteria and its provenance      *)
(* (research/study.py, scripts/run_research.py), and the result file.          *)
(*                                                                          *)
(* A bar is the volume traded, 0 where the name has no bar.  The price and     *)
(* turnover floors work like the volume floor and are left out; the           *)
(* statistics of a study are chosen among given outcomes.                     *)
(***************************************************************************)
EXTENDS WalkForward, FiniteSets, Sequences

CONSTANTS
    Symbols,
    Panels,                 \* the panels a history may begin with
    MaxSessions,            \* bound on the sessions
    Revisions,              \* bound on later corrections of past bars
    ListedOn,               \* NSE's listing dates, 0 where unknown
    LiquidityWindow, MinObservations, MinVolume, DelistingGap,
    MinTrain, NFolds, Embargo, MinTest,
    Outcomes                \* statistics a study may find

ASSUME ResearchAssumption ==
    /\ Panels # {} /\ \A p \in Panels : p \in Seq([Symbols -> Int]) /\ Len(p) > 0
    /\ {MinTrain, Embargo, MinTest} \subseteq Nat /\ NFolds \in Nat \ {0}

VARIABLES
    panel,      \* the bars on disk: per session, a volume for every symbol
    revised,    \* corrections made so far
    study       \* study_result.json

research == <<panel, revised, study>>

NoStudy == [is |-> "missing"]
Bars(p, s) == {d \in DOMAIN p : p[d][s] > 0}
Latest(S) == CHOOSE x \in S : \A y \in S : y <= x
Earliest(S) == CHOOSE x \in S : \A y \in S : x <= y

-----------------------------------------------------------------------------
(* The point-in-time universe                                                *)

EntryDate(p, s) ==
    LET first == Earliest(Bars(p, s)) IN IF ListedOn[s] > first THEN ListedOn[s] ELSE first

(* _build_listings: a name has stopped if its last bar is long before the end. *)
Stopped(p, s) == Latest(Bars(p, s)) < Len(p) - DelistingGap

(* The trailing average: of the bars the window has, if it has enough.        *)
Total(p, s, days) ==
    LET Sum[D \in SUBSET days] ==
          IF D = {} THEN 0 ELSE LET d == Latest(D) IN p[d][s] + Sum[D \ {d}]
    IN Sum[days]
Liquid(p, s, d) ==
    LET held == {x \in Bars(p, s) : x > d - LiquidityWindow /\ x <= d}
    IN /\ Cardinality(held) >= MinObservations
       /\ Total(p, s, held) >= MinVolume * Cardinality(held)

(* get_members: listed by then, not stopped before, and liquid over the        *)
(* trailing window.  In the warm-up it refuses (UnavailableOn).               *)
Members(p, d) ==
    {s \in Symbols :
       /\ Bars(p, s) # {}
       /\ EntryDate(p, s) <= d
       /\ Stopped(p, s) => Latest(Bars(p, s)) >= d
       /\ p[d][s] > 0 /\ Liquid(p, s, d)}

UnavailableOn(p, d) == d \notin (MinObservations + 1)..Len(p)

(* fingerprint: the entries, the exits and the period; not the bars between.   *)
Fingerprint(p) ==
    [entries |-> [s \in {s \in Symbols : Bars(p, s) # {}} |->
                    <<EntryDate(p, s), IF Stopped(p, s) THEN Latest(Bars(p, s)) ELSE 0>>],
     days |-> Len(p)]

-----------------------------------------------------------------------------
(* The study                                                                *)

(* run_study: the criteria, and the universe that was applied or was not.     *)
Validated(o, pit) ==
    /\ o.sharpe >= 50 /\ o.lower > 0 /\ o.dsr >= 95
    /\ o.pbo # "nan" /\ o.overfit <= 50
    /\ o.excess # "none" /\ o.gain > 0
    /\ o.stressed >= 50 /\ o.years >= 55
    /\ pit

(* The experiment id: a hash of the two fingerprints and fixed settings; the   *)
(* dataset's is of the pool's size and the period.                          *)
Experiment(p, pit) ==
    [universe |-> IF pit THEN Fingerprint(p) ELSE [is |-> "none"],
     dataset |-> <<Cardinality(Symbols), Len(p)>>]

FoldsOf(p) == Folds(Len(p), MinTrain, NFolds, Embargo, MinTest)

(* scripts/run_research.py: a study of the panel on disk, with the universe or *)
(* without; a history too short raises and leaves the old file.              *)
RunStudy(pit) ==
    /\ Len(panel) >= MinTrain + 2 * NFolds
    /\ \E o \in Outcomes :
         study' = [is |-> "study", provenance |-> "experiment", experiment |-> Experiment(panel, pit),
                   pit |-> pit, validated |-> Validated(o, pit), outcome |-> o,
                   folds |-> FoldsOf(panel)]
    /\ UNCHANGED <<panel, revised>>

(* The next session's bars arrive.                                          *)
Acquire ==
    /\ Len(panel) < MaxSessions
    /\ \E volumes \in {panel[Len(panel)], [s \in Symbols |-> 0]} :
         panel' = Append(panel, volumes)
    /\ UNCHANGED <<revised, study>>

(* A past bar is corrected by the source.                                   *)
Revise ==
    /\ revised < Revisions
    /\ \E s \in Symbols, d \in DOMAIN panel :
         panel[d][s] > 0 /\ panel' = [panel EXCEPT ![d][s] = 3 - @]
    /\ revised' = revised + 1
    /\ UNCHANGED study

ResearchInit ==
    /\ panel \in Panels /\ revised = 0
    /\ study \in {NoStudy, [is |-> "study", provenance |-> "", validated |-> TRUE, pit |-> FALSE,
                            outcome |-> CHOOSE o \in Outcomes : TRUE, folds |-> {}]}

ResearchNext == (\E pit \in BOOLEAN : RunStudy(pit)) \/ Acquire \/ Revise

-----------------------------------------------------------------------------
(* Properties                                                               *)

(* Who is in the universe of a day depends on nothing that came after it: the  *)
(* answer for a past day stays what it would have been on that day, whichever  *)
(* names stop trading or are corrected later.                               *)
MembersUseThePast ==
    \A d \in DOMAIN panel :
       ~UnavailableOn(panel, d) => Members(panel, d) = Members(SubSeq(panel, 1, d), d)

(* A study's folds are honest: no session serves the selection of a fold and   *)
(* its measurement, or lies within the embargo after the selection, and no     *)
(* session is measured twice.                                               *)
StudyFoldsHonest ==
    study.is = "study" =>
      \A f \in study.folds :
        /\ \A t \in f.train, x \in f.test : x > t + Embargo
        /\ \A g \in study.folds : f # g => f.test \cap g.test = {}

(* A model trained on a split of the history knows no label that reaches into  *)
(* its test, whatever the horizon of the label and the number of splits.       *)
SplitsArePurged ==
    \A horizon \in 1..3, parts \in 2..4 :
      \A s \in Splits(Len(panel), parts, horizon) :
        \A t \in s.train, x \in s.test : t + horizon < x

(* The optimiser's windows run forward: it trains, then selects, then measures, *)
(* and a session measured in one window is measured in no other as long as the *)
(* windows advance by no less than a test.                                  *)
WindowsAdvance ==
    \A train \in 1..2, val \in 1..2, test \in 1..2 :
      LET all == Windows(Len(panel), train, val, test, test) IN
      /\ \A w \in all : /\ \A t \in w.train, v \in w.val : t < v
                        /\ \A v \in w.val, x \in w.test : v < x
      /\ \A w, u \in all : w # u => w.test \cap u.test = {}

(* No session that serves a choice serves its measurement, in the study, in     *)
(* model research and in the optimiser.                                      *)
FoldsAreHonest == StudyFoldsHonest /\ SplitsArePurged /\ WindowsAdvance

(* Research neither chooses its names nor measures its choices by the future.    *)
ResearchIsHonest == MembersUseThePast /\ FoldsAreHonest

=============================================================================
