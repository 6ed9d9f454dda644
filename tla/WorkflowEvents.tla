--------------------------- MODULE WorkflowEvents ---------------------------
(***************************************************************************)
(* The events of ephemeral workflows, by type of workflow.  An event is    *)
(* <<type, ok>>: `ok' is whether its status code is 0; it is TRUE for an   *)
(* event without a status.  The other fields are data that the workflows   *)
(* themselves model where they use them.                                   *)
(*                                                                         *)
(* A workflow has two histories: its own, and its entry in the workflow    *)
(* index, which consists of <<"started">>, <<"completed">>, <<"deleted">>. *)
(***************************************************************************)
EXTENDS Naturals, TLC

Plain(types) == {<<type, TRUE>> : type \in types}
WithStatus(types) == types \X BOOLEAN

FreezeRepoStarted == Plain({"Started2"})
FreezeRepoFilesEvents == Plain({"FilesStarted"}) \cup WithStatus({"FilesCompleted"})
FreezeRepoEndEvents == WithStatus({"Completed2"}) \cup Plain({"Committed"})

UnfreezeRepoStarted == Plain({"Started2"})
UnfreezeRepoFilesEvents ==
    Plain({"FilesStarted"}) \cup WithStatus({"FilesCompleted"})
UnfreezeRepoEndEvents == WithStatus({"Completed2"}) \cup Plain({"Committed"})

ArchiveRepoStarted == Plain({"Started"})
ArchiveRepoFilesEvents ==
    Plain({"FilesStarted", "TarttCompleted", "SwapStarted", "FilesCommitted"})
        \cup WithStatus({"FilesCompleted"})
ArchiveRepoEndEvents ==
    WithStatus({"Completed"}) \cup Plain({"GcCompleted", "Committed"})

UnarchiveRepoStarted == Plain({"Started"})
UnarchiveRepoFilesEvents ==
    Plain({"FilesStarted", "TarttStarted", "FilesCommitted"})
        \cup WithStatus({"TarttCompleted", "FilesCompleted"})
UnarchiveRepoEndEvents ==
    WithStatus({"Completed"}) \cup Plain({"GcCompleted", "Committed"})

SplitRootStarted == Plain({"Started"})
SplitRootDuEvents == Plain({"DuAppended"}) \cup WithStatus({"DuCompleted"})
SplitRootAnalysisEvents ==
    Plain({"SuggestionAppended", "DecisionAppended"})
        \cup WithStatus({"AnalysisCompleted"})
SplitRootEndEvents == WithStatus({"Completed"}) \cup Plain({"Committed"})

DuRootStarted == Plain({"Started"})
DuRootDuEvents == Plain({"DuUpdated"})
DuRootEndEvents == WithStatus({"Completed"}) \cup Plain({"Committed"})

PingRegistryStarted == Plain({"Started"})
PingRegistryPingEvents == WithStatus({"ServerPinged", "ServerPingsGathered"})
PingRegistryEndEvents == Plain({"Completed", "Committed"})

\* ParsePbWorkflowEvent(): the events that can be parsed.
ParsePbWorkflowEvent ==
    [freeze |-> FreezeRepoStarted \cup FreezeRepoFilesEvents
                    \cup FreezeRepoEndEvents,
     unfreeze |-> UnfreezeRepoStarted \cup UnfreezeRepoFilesEvents
                    \cup UnfreezeRepoEndEvents,
     archive |-> ArchiveRepoStarted \cup ArchiveRepoFilesEvents
                    \cup ArchiveRepoEndEvents,
     unarchive |-> UnarchiveRepoStarted \cup UnarchiveRepoFilesEvents
                    \cup UnarchiveRepoEndEvents,
     split |-> SplitRootStarted \cup SplitRootDuEvents
                    \cup SplitRootAnalysisEvents \cup SplitRootEndEvents,
     du |-> DuRootStarted \cup DuRootDuEvents \cup DuRootEndEvents,
     ping |-> PingRegistryStarted \cup PingRegistryPingEvents
                    \cup PingRegistryEndEvents]
=============================================================================
