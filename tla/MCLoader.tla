------------------------------- MODULE MCLoader -------------------------------
(* Three definitions that may swap names, and two versions of each.           *)
EXTENDS Loader, TLC

Symmetry == Permutations(ID) \cup Permutations(Name) \cup Permutations(Caller)
=============================================================================
