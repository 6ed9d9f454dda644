--------------------------- MODULE MCEventJournal ---------------------------
(* Model-checking instance of EventJournal. *)
EXTENDS EventJournal, TLC

ClientSymmetry == Permutations(Clients)
=============================================================================
