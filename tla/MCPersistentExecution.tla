------------------------ MODULE MCPersistentExecution ------------------------
(* Two goroutines and two generations of this instance, through a gate whose  *)
(* policy changes between the serial ones, and one execution of another       *)
(* instance; a job with or without timeout, in either mode.                   *)
EXTENDS PersistentExecution, TLC

SerialPolicies == {"SkipIfRunning", "QueueOne"}
=============================================================================
