----------------------------- MODULE WalkForward -----------------------------
(***************************************************************************)
(* How a history of n sessions is cut into training and test windows: the     *)
(* walk-forward folds of the study (research/study.py), the windows of the     *)
(* strategy optimiser (backtesting/walkforward.py) and the purged splits of    *)
(* model research (research/validation.py).  Sessions are numbered from 0.     *)
(***************************************************************************)
EXTENDS Integers

(* walk_forward_selection: fold k trains on all before its cut, leaves the     *)
(* embargo out, and is measured on the next window.                          *)
Fold(n, k, minTrain, folds, embargo) ==
    LET size == (n - minTrain) \div folds
        end == minTrain + k * size
        start == end + embargo
        stop == IF start + size < n THEN start + size ELSE n
    IN [train |-> 0..(end - 1), test |-> start..(stop - 1)]

(* The loop breaks at the first fold whose test window is too short.          *)
FoldIsUsable(n, k, minTrain, folds, embargo, minTest) ==
    LET size == (n - minTrain) \div folds
        start == minTrain + k * size + embargo
    IN start < n /\ size >= minTest /\ n - start >= minTest

Folds(n, minTrain, folds, embargo, minTest) ==
    {Fold(n, k, minTrain, folds, embargo) : k \in
        {k \in 0..(folds - 1) :
           \A j \in 0..k : FoldIsUsable(n, j, minTrain, folds, embargo, minTest)}}

(* WalkForwardEngine.run: train, validation and test of the window that begins *)
(* at a; the optimiser selects on the validation, never on the test.          *)
Window(a, train, val, test) ==
    [train |-> a..(a + train), val |-> (a + train + 1)..(a + train + val),
     test |-> (a + train + val + 1)..(a + train + val + test)]

Windows(n, train, val, test, step) ==
    {Window(k * step, train, val, test) :
        k \in {k \in 0..n : k * step + train + val + test < n}}

(* PurgedWalkForward.split: fold_bounds are n samples cut into equal parts.    *)
Bound(n, splits, k) == (k * n) \div splits

(* Slip: purged are the rows whose label ends after the test has begun.        *)
SplitPurgedLate(n, splits, k, horizon) ==
    LET start == Bound(n, splits, k)
        keep == IF start - horizon > 0 THEN start - horizon + 1 ELSE 0
    IN [train |-> 0..(keep - 1), test |-> start..(Bound(n, splits, k + 1) - 1)]

(* The k-th split: the training rows whose label reaches the test are purged;  *)
(* what lies after the test is embargoed and then not used at all.           *)
Split(n, splits, k, horizon) ==
    LET start == Bound(n, splits, k)
        keep == IF start - horizon > 0 THEN start - horizon ELSE 0
    IN [train |-> 0..(keep - 1), test |-> start..(Bound(n, splits, k + 1) - 1)]

(* The first fold has no history; one left without training rows is skipped.   *)
Splits(n, splits, horizon) ==
    {s \in {Split(n, splits, k, horizon) : k \in 0..(splits - 1)} : s.train # {}}
=============================================================================
