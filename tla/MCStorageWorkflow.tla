------------------------- MODULE MCStorageWorkflow -------------------------
(* Model-checking instances of StorageWorkflow. *)
EXTENDS StorageWorkflow

CONSTANTS Freezes, Unfreezes, Archivings, Unarchivings

MCWorkflows == Freezes \cup Unfreezes \cup Archivings \cup Unarchivings
MCOpOf ==
    [w \in MCWorkflows |-> CASE w \in Freezes -> "freeze"
                             [] w \in Unfreezes -> "unfreeze"
                             [] w \in Archivings -> "archive"
                             [] w \in Unarchivings -> "unarchive"]
Symmetry == Permutations(Freezes) \cup Permutations(Archivings)
=============================================================================
