------------------------- MODULE MCAggregateEngine -------------------------
(* Model-checking instance of AggregateEngine. *)
EXTENDS AggregateEngine, TLC

CallerSymmetry == Permutations(Callers)
=============================================================================
