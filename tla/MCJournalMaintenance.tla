------------------------ MODULE MCJournalMaintenance ------------------------
(* Model-checking instances of JournalMaintenance. *)
EXTENDS JournalMaintenance
=============================================================================
