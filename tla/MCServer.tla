------------------------------- MODULE MCServer -------------------------------
(* A run, and a goroutine that shuts the server down whenever it likes, by    *)
(* itself or as a hook; one request and one task to wait for.                 *)
EXTENDS Server, TLC
=============================================================================
