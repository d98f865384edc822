----------------------------- MODULE MCLifecycle -----------------------------
(* Three callers: one in a phase, one that meets it, one that interferes.     *)
EXTENDS Lifecycle, TLC

Symmetry == Permutations(Caller)
=============================================================================
