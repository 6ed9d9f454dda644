------------------------ MODULE MCEphemeralWorkflow ------------------------
(* Model-checking instances of EphemeralWorkflow. *)
EXTENDS EphemeralWorkflow

CONSTANTS Splits, Others

MCWorkflows == Splits \cup Others
MCTypesOf == [w \in MCWorkflows |-> IF w \in Splits THEN {"split"} ELSE Types]
=============================================================================
