-------------------------- MODULE MCStartupRecovery --------------------------
(* Instances of startup recovery, composed with the service, for TLC.       *)
EXTENDS StartupRecovery

Deployment(mode, redis) == [mode |-> mode, authorized |-> TRUE, redis |-> redis]

(* Paper without redis, and live with it.                                   *)
TwoModes == {Deployment("paper", FALSE), Deployment("live", TRUE)}
=============================================================================
