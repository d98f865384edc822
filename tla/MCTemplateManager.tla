-------------------------- MODULE MCTemplateManager --------------------------
(* Two goroutines and the watch loop; two functions and two roots, so that two *)
(* AddFunc or two SetRoot calls, or one of each, may race.                     *)
EXTENDS TemplateManager, TLC
=============================================================================
