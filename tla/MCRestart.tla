------------------------------- MODULE MCRestart -------------------------------
(* Three processes: an attempt that fails and one that hands over, or a      *)
(* restart of the replacement.                                               *)
EXTENDS Restart, TLC
=============================================================================
