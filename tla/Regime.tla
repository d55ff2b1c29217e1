-------------------------------- MODULE Regime --------------------------------
(***************************************************************************)
(* The market regime (risk/regime.py): what the indicators of the index say,    *)
(* the scores they add up to and the regime those stand for, and the share of   *)
(* its score that each sleeve keeps in it.  An indicator is what its comparison *)
(* comes out as, not the prices behind it.                                    *)
(***************************************************************************)
EXTENDS Integers, FiniteSets

CONSTANTS LongTerm, Swing, Intraday      \* the sleeves

Regimes == {"STRONG_BULL", "WEAK_BULL", "RECOVERY", "SIDEWAYS", "HIGH_VOL", "WEAK_BEAR",
            "STRONG_BEAR", "PANIC"}
Book == {LongTerm, Swing, Intraday}

Signs == {"up", "none", "down"}
(* few: less than ten bars; trend: the price against its long mean; cross: the     *)
(* short mean against the long one; spike: recent volatility half as high again  *)
(* as the long run's; fall: what _is_price_panic sees; bounce: the price came     *)
(* back over its short mean.                                                 *)
Evidence ==
    [few : BOOLEAN, trend : Signs, cross : Signs, momentum : Signs, breadth : Signs,
     vix : {"none", "calm", "high", "panic"}, spike : BOOLEAN,
     fall : {"none", "recovering", "falling", "crash"}, bounce : BOOLEAN]

(* What the lengths of the windows leave possible: with no trend there is too       *)
(* little history for the rest, and a price that bounced has not just fallen.    *)
Coherent(e) ==
    /\ e.trend = "none" => e.cross = "none" /\ ~e.bounce /\ ~e.spike
    /\ e.few => e.trend = "none" /\ e.momentum = "none" /\ e.fall = "none"
    /\ e.bounce => e.fall \in {"none", "recovering"}

Weight(sign, w) == CASE sign = "up" -> w [] sign = "down" -> -w [] OTHER -> 0
Net(e) == Weight(e.trend, 2) + Weight(e.cross, 2) + Weight(e.momentum, 1) + Weight(e.breadth, 1)
Volatile(e) ==
    LET fear == CASE e.vix = "panic" -> 5 [] e.vix = "high" -> 2 [] OTHER -> 0
    IN (IF e.spike THEN 3 ELSE 0) + fear >= 3
IsPricePanic(e) == e.fall \in {"falling", "crash"}

(* _scores_to_regime: the first that applies.                                 *)
ScoresToRegime(e) ==
    IF e.vix = "panic" \/ IsPricePanic(e) THEN "PANIC"
    ELSE IF Volatile(e) THEN "HIGH_VOL"
    ELSE IF e.bounce /\ Net(e) >= 0 THEN "RECOVERY"
    ELSE IF Net(e) >= 4 THEN "STRONG_BULL"
    ELSE IF Net(e) >= 2 THEN "WEAK_BULL"
    ELSE IF Net(e) >= -1 THEN "SIDEWAYS"
    ELSE IF Net(e) >= -3 THEN "WEAK_BEAR"
    ELSE "STRONG_BEAR"

DetectRegime(e) == IF e.few THEN "SIDEWAYS" ELSE ScoresToRegime(e)

(* REGIME_SLEEVE_MULTIPLIERS, in twentieths.                                  *)
Row(l, s, i) == [sleeve \in Book |-> CASE sleeve = LongTerm -> l [] sleeve = Swing -> s [] OTHER -> i]
SleeveMultipliers(regime) ==
    CASE regime = "STRONG_BULL" -> Row(20, 20, 20)
      [] regime = "WEAK_BULL"   -> Row(17, 15, 13)
      [] regime = "RECOVERY"    -> Row(15, 11, 9)
      [] regime = "SIDEWAYS"    -> Row(12, 11, 10)
      [] regime = "HIGH_VOL"    -> Row(9, 6, 4)
      [] regime = "WEAK_BEAR"   -> Row(7, 4, 3)
      [] regime = "STRONG_BEAR" -> Row(4, 2, 1)
      [] regime = "PANIC"       -> Row(3, 0, 0)

(* CombinedRegimeModel.detect: the volatility against its own past, MEDIUM while it is  *)
(* unknown, and the share of equity recommended for the pair, in twentieths.      *)
Volatilities == {"LOW", "MEDIUM", "HIGH"}
Classified(v) == IF v = "unknown" THEN "MEDIUM" ELSE v
Caps(low, medium, high) ==
    [v \in Volatilities |-> CASE v = "LOW" -> low [] v = "MEDIUM" -> medium [] v = "HIGH" -> high]
EquityCap(regime) ==
    CASE regime = "STRONG_BULL" -> Caps(20, 18, 15)
      [] regime = "WEAK_BULL"   -> Caps(17, 15, 12)
      [] regime = "RECOVERY"    -> Caps(16, 13, 10)
      [] regime = "SIDEWAYS"    -> Caps(15, 12, 9)
      [] regime \in {"HIGH_VOL", "WEAK_BEAR"} -> Caps(11, 8, 5)
      [] regime = "STRONG_BEAR" -> Caps(10, 7, 4)
      [] regime = "PANIC"       -> Caps(6, 3, 1)
DetectCombined(e, v) ==
    [price |-> DetectRegime(e), vol |-> Classified(v), cap |-> EquityCap(DetectRegime(e))[Classified(v)]]

Changed(e) ==
    {[e EXCEPT !.few = b] : b \in BOOLEAN} \cup {[e EXCEPT !.trend = w] : w \in Signs}
      \cup {[e EXCEPT !.cross = w] : w \in Signs} \cup {[e EXCEPT !.momentum = w] : w \in Signs}
      \cup {[e EXCEPT !.breadth = w] : w \in Signs} \cup {[e EXCEPT !.spike = b] : b \in BOOLEAN}
      \cup {[e EXCEPT !.vix = v] : v \in {"none", "calm", "high", "panic"}}
      \cup {[e EXCEPT !.fall = v] : v \in {"none", "recovering", "falling", "crash"}}
      \cup {[e EXCEPT !.bounce = b] : b \in BOOLEAN}

(* The evidence with one thing worse.  Volatility is not among these: it is judged   *)
(* before direction is, and a storm in a falling market counts as HIGH_VOL, which *)
(* the table rates above both bear markets.                                  *)
Below(sign) == CASE sign = "up" -> {"none", "down"} [] sign = "none" -> {"down"} [] OTHER -> {}
Worse(e) ==
    {x \in {[e EXCEPT !.trend = w] : w \in Below(e.trend) \ {"none"}}
           \cup {[e EXCEPT !.cross = w] : w \in Below(e.cross) \ {"none"}}
           \cup {[e EXCEPT !.momentum = w] : w \in Below(e.momentum)}
           \cup {[e EXCEPT !.breadth = w] : w \in Below(e.breadth)}
           \cup {[e EXCEPT !.vix = "panic"]}
           \cup {[e EXCEPT !.fall = w] : w \in {"falling", "crash"}}
        : Coherent(x)}
=============================================================================
