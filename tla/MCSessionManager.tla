---------------------------- MODULE MCSessionManager ----------------------------
(* Two requests over either storage.  Cookies: two families, tokens that live    *)
(* two seconds, three tokens, a clock up to five.  Memory: identifiers that live  *)
(* one second, three of them, a clock up to three, a sweep every second.          *)
EXTENDS SessionManager, TLC

Symmetric == Permutations(Request) \cup Permutations(Family)
=============================================================================
