-------------------------- MODULE MCActivityEngine --------------------------
(* Model-checking instances of ActivityEngine. *)
EXTENDS ActivityEngine

CONSTANTS t1, t2, e1, e2

MCEntityOf == (t1 :> e1) @@ (t2 :> e1)
MCTypeOf == (e1 :> "workflow") @@ (e2 :> "workflow")
=============================================================================
