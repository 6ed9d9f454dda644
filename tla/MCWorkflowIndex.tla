-------------------------- MODULE MCWorkflowIndex --------------------------
(* Model-checking instances of WorkflowIndex. *)
EXTENDS WorkflowIndex

CONSTANTS Dus, Unarchivings

MCWorkflows == Dus \cup Unarchivings
MCOpOf == [w \in MCWorkflows |-> IF w \in Dus THEN "du" ELSE "unarchive"]
=============================================================================
