---------------------------- MODULE MCAutoTrader ----------------------------
(* Instances of the auto-trader for TLC.                                    *)
EXTENDS AutoTrader, TLC

Symm == Permutations(Symbols)
=============================================================================
