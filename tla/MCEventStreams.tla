--------------------------- MODULE MCEventStreams ---------------------------
(***************************************************************************)
(* Instances of EventStreams for TLC.                                      *)
(***************************************************************************)
EXTENDS EventStreams, FiniteSets, TLC

\* Every stream and every job is about the same history.
OneTopic == [s \in Calls |-> CHOOSE h \in Histories : TRUE]

\* The history that the calls are about gets a commit more than the others, so
\* that one whose reply is lost may be followed by one that is posted.
CommitBounds ==
    [h \in Histories |-> IF h = CHOOSE k \in Histories : TRUE THEN 2 ELSE 1]

=============================================================================
