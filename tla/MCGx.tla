-------------------------------- MODULE MCGx --------------------------------
(* Three paths to publish; two modules, one of them with two versions; two     *)
(* Logic modules; a project directory with two files; three schemas, of which the *)
(* name of one is no directory name.                                          *)
EXTENDS Gx, TLC

CONSTANTS r1, r2, r3

MCModuleOf == r1 :> "m" @@ r2 :> "m" @@ r3 :> "n"
MCVersionOf == r1 :> "v1" @@ r2 :> "v2" @@ r3 :> "v1"

=============================================================================
