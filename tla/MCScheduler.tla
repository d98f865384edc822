----------------------------- MODULE MCScheduler -----------------------------
(* As many generations as MaxRec, of one or two jobs.  SkipIfRunning is left  *)
(* out: its gate never holds a trigger, so it meets AllowOverlap and QueueOne *)
(* in nothing that they do not do to each other.                              *)
EXTENDS Scheduler, TLC

OverlapAndQueue == {"AllowOverlap", "QueueOne"}

MCToken == 1..MaxRec
=============================================================================
