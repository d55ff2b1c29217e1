------------------------- MODULE MCExecutionService -------------------------
(* Instances of the execution service for TLC.                              *)
EXTENDS ExecutionService, TLC

Deployment(mode, redis) == [mode |-> mode, authorized |-> TRUE, redis |-> redis]

(* Paper with and without redis, and live, authorized or not.               *)
AllModes == {Deployment("paper", TRUE), Deployment("paper", FALSE), Deployment("live", TRUE),
             [mode |-> "live", authorized |-> FALSE, redis |-> TRUE]}

Symm == Permutations(Callers)
=============================================================================
