------------------------- MODULE WorkflowAggregates -------------------------
(***************************************************************************)
(* The aggregates behind the ephemeral workflows: for every type of        *)
(* workflow how an event advances the state, and which command is accepted *)
(* in which state.  The state of a workflow is <<scode, ok>>: the state    *)
(* code, and whether the stored status code is 0.                          *)
(***************************************************************************)
EXTENDS WorkflowEvents

New == <<"Uninitialized", TRUE>>

Scode(s) == s[1]
StatusOk(s) == s[2]

\* A code that depends on the status of event `ev'.
Split(ev, code, failed) == IF ev[2] THEN code ELSE failed

\* The state after event `ev': the code that table `codes' gives for its type;
\* the types `storing' store their status.
Advanced(s, ev, codes, storing) ==
    <<codes[ev[1]], IF ev[1] \in storing THEN ev[2] ELSE s[2]>>

\* `XNoVC' are the commands of X that are told without a version: the others
\* are refused unless the caller knows the latest event.

\* A command: the states in which it posts an event, the state codes in which
\* it is idempotent, and the event.
CmdIn(from, again, type, ok) ==
    [from |-> from, again |-> again, ev |-> <<type, ok>>]
Cmd(from, again, type, ok) == CmdIn(from \X BOOLEAN, {again}, type, ok)
CmdIf(from, again, type, ok) == CmdIn(from, {again}, type, ok)
CmdMany(from, again, type, ok) == CmdIn(from \X BOOLEAN, again, type, ok)

-----------------------------------------------------------------------------
(***************************************************************************)
(* freeze-repo and unfreeze-repo.  Only Completed2 stores its status.      *)
(***************************************************************************)

FreezeRepoAdvance(s, ev) ==
    Advanced(s, ev,
        [Started2 |-> "Initialized", FilesStarted |-> "Files",
         FilesCompleted |-> Split(ev, "FilesCompleted", "FilesFailed"),
         Completed2 |-> Split(ev, "Completed", "Failed"),
         Committed |-> "Terminated"],
        {"Completed2"})

FreezeRepoTell ==
    [Init |-> Cmd({"Uninitialized"}, "Initialized", "Started2", TRUE),
     BeginFiles |-> Cmd({"Initialized"}, "Files", "FilesStarted", TRUE),
     CommitFiles |-> Cmd({"Files"}, "FilesCompleted", "FilesCompleted", TRUE),
     AbortFiles |-> Cmd({"Files"}, "FilesFailed", "FilesCompleted", FALSE),
     Commit |-> Cmd({"FilesCompleted"}, "Completed", "Completed2", TRUE),
     Abort |-> Cmd({"Initialized", "FilesFailed", "FilesCompleted"}, "Failed",
                   "Completed2", FALSE),
     End |-> Cmd({"Completed", "Failed"}, "Terminated", "Committed", TRUE)]

FreezeRepoNoVC == {"Init"}

UnfreezeRepoAdvance(s, ev) ==
    Advanced(s, ev,
        [Started2 |-> "Initialized", FilesStarted |-> "Files",
         FilesCompleted |-> Split(ev, "FilesCompleted", "FilesFailed"),
         Completed2 |-> Split(ev, "Completed", "Failed"),
         Committed |-> "Terminated"],
        {"Completed2"})

UnfreezeRepoTell ==
    [Init |-> Cmd({"Uninitialized"}, "Initialized", "Started2", TRUE),
     BeginFiles |-> Cmd({"Initialized"}, "Files", "FilesStarted", TRUE),
     CommitFiles |-> Cmd({"Files"}, "FilesCompleted", "FilesCompleted", TRUE),
     AbortFiles |-> Cmd({"Files"}, "FilesFailed", "FilesCompleted", FALSE),
     Commit |-> Cmd({"FilesCompleted"}, "Completed", "Completed2", TRUE),
     Abort |-> Cmd({"Initialized", "FilesFailed", "FilesCompleted"}, "Failed",
                   "Completed2", FALSE),
     End |-> Cmd({"Completed", "Failed"}, "Terminated", "Committed", TRUE)]

UnfreezeRepoNoVC == {"Init"}

-----------------------------------------------------------------------------
(***************************************************************************)
(* archive-repo.  FilesCompleted and Completed store their status.  What   *)
(* the repo has become is decided with FilesCompleted; GC follows later,   *)
(* and the workflow ends with the same status.                             *)
(***************************************************************************)

ArchiveRepoAdvance(s, ev) ==
    Advanced(s, ev,
        [Started |-> "Initialized", FilesStarted |-> "Files",
         TarttCompleted |-> "TarttCompleted", SwapStarted |-> "SwapStarted",
         FilesCompleted |-> Split(ev, "FilesCompleted", "FilesFailed"),
         FilesCommitted |-> "FilesEnded", GcCompleted |-> "GcCompleted",
         Completed |-> Split(ev, "Completed", "Failed"),
         Committed |-> "Terminated"],
        {"FilesCompleted", "Completed"})

ArchiveRepoTellFiles ==
    [Init |-> Cmd({"Uninitialized"}, "Initialized", "Started", TRUE),
     BeginFiles |-> Cmd({"Initialized"}, "Files", "FilesStarted", TRUE),
     CommitTartt |-> Cmd({"Files"}, "TarttCompleted", "TarttCompleted", TRUE),
     BeginSwap |-> Cmd({"TarttCompleted"}, "SwapStarted", "SwapStarted", TRUE),
     CommitFiles |-> Cmd({"SwapStarted"}, "FilesCompleted", "FilesCompleted",
                         TRUE),
     AbortFiles |-> Cmd({"Files", "TarttCompleted", "SwapStarted"},
                        "FilesFailed", "FilesCompleted", FALSE),
     EndFiles |-> Cmd({"FilesCompleted", "FilesFailed"}, "FilesEnded",
                      "FilesCommitted", TRUE)]

ArchiveRepoTellEnd ==
    [CommitGc |-> Cmd({"FilesEnded"}, "GcCompleted", "GcCompleted", TRUE),
     Commit |-> CmdIf({<<"GcCompleted", TRUE>>}, "Completed", "Completed",
                      TRUE),
     Abort |-> CmdIf({"Initialized"} \X BOOLEAN
                         \cup {<<"GcCompleted", FALSE>>},
                     "Failed", "Completed", FALSE),
     End |-> Cmd({"Completed", "Failed"}, "Terminated", "Committed", TRUE)]

ArchiveRepoNoVC == {"Init"}

-----------------------------------------------------------------------------
(***************************************************************************)
(* unarchive-repo.  TarttCompleted, FilesCompleted and Completed store     *)
(* their status.                                                           *)
(***************************************************************************)

UnarchiveRepoAdvance(s, ev) ==
    Advanced(s, ev,
        [Started |-> "Initialized", FilesStarted |-> "Files",
         TarttStarted |-> "Tartt",
         TarttCompleted |-> Split(ev, "TarttCompleted", "TarttFailed"),
         FilesCompleted |-> Split(ev, "FilesCompleted", "FilesFailed"),
         FilesCommitted |-> "FilesEnded", GcCompleted |-> "GcCompleted",
         Completed |-> Split(ev, "Completed", "Failed"),
         Committed |-> "Terminated"],
        {"TarttCompleted", "FilesCompleted", "Completed"})

UnarchiveRepoTellFiles ==
    [Init |-> Cmd({"Uninitialized"}, "Initialized", "Started", TRUE),
     BeginFiles |-> Cmd({"Initialized"}, "Files", "FilesStarted", TRUE),
     BeginTartt |-> Cmd({"Files"}, "Tartt", "TarttStarted", TRUE),
     CommitTartt |-> Cmd({"Tartt"}, "TarttCompleted", "TarttCompleted", TRUE),
     AbortTartt |-> Cmd({"Tartt"}, "TarttFailed", "TarttCompleted", FALSE),
     CommitFiles |-> Cmd({"TarttCompleted"}, "FilesCompleted",
                         "FilesCompleted", TRUE),
     AbortFiles |-> Cmd({"Files", "TarttCompleted"}, "FilesFailed",
                        "FilesCompleted", FALSE)]

UnarchiveRepoTellEnd ==
    [EndFiles |-> Cmd({"TarttFailed", "FilesCompleted", "FilesFailed"},
                      "FilesEnded", "FilesCommitted", TRUE),
     CommitGc |-> Cmd({"FilesEnded"}, "GcCompleted", "GcCompleted", TRUE),
     Commit |-> CmdIf({<<"GcCompleted", TRUE>>}, "Completed", "Completed",
                      TRUE),
     Abort |-> CmdIf({"Initialized"} \X BOOLEAN
                         \cup {<<"GcCompleted", FALSE>>},
                     "Failed", "Completed", FALSE),
     End |-> Cmd({"Completed", "Failed"}, "Terminated", "Committed", TRUE)]

UnarchiveRepoNoVC == {"Init"}

-----------------------------------------------------------------------------
(***************************************************************************)
(* split-root.  Only Completed stores its status.  Commands that append    *)
(* are never idempotent.  AppendDecision and Commit also look at the       *)
(* candidates that are undecided, which EphemeralWorkflow adds.            *)
(***************************************************************************)

SplitRootAdvance(s, ev) ==
    Advanced(s, ev,
        [Started |-> "Initialized", DuAppended |-> "DuAppending",
         DuCompleted |-> Split(ev, "DuCompleted", "DuFailed"),
         SuggestionAppended |-> "SuggestionsAppending",
         AnalysisCompleted |-> Split(ev, "AnalysisCompleted", "AnalysisFailed"),
         DecisionAppended |-> "DecisionsAppending",
         Completed |-> Split(ev, "Completed", "Failed"),
         Committed |-> "Terminated"],
        {"Completed"})

SplitRootTellDu ==
    [Init |-> Cmd({"Uninitialized"}, "Initialized", "Started", TRUE),
     AppendDus |-> CmdMany({"Initialized", "DuAppending"}, {}, "DuAppended",
                           TRUE),
     CommitDu |-> Cmd({"DuAppending"}, "DuCompleted", "DuCompleted", TRUE),
     AbortDu |-> Cmd({"Initialized", "DuAppending"}, "DuFailed", "DuCompleted",
                     FALSE)]

SplitRootTellAnalysis ==
    [AppendSuggestions |-> CmdMany({"DuCompleted", "SuggestionsAppending"}, {},
                                   "SuggestionAppended", TRUE),
     CommitAnalysis |-> Cmd({"SuggestionsAppending"}, "AnalysisCompleted",
                            "AnalysisCompleted", TRUE),
     AbortAnalysis |-> Cmd({"DuCompleted", "SuggestionsAppending"},
                           "AnalysisFailed", "AnalysisCompleted", FALSE),
     AppendDecision |-> CmdMany({"AnalysisCompleted", "DecisionsAppending"}, {},
                                "DecisionAppended", TRUE)]

\* Faulty variant of SplitRootTellEnd: an expired workflow is aborted whatever
\* its state.
SplitRootTellEndExpiresAll ==
    [Commit |-> Cmd({"AnalysisCompleted", "DecisionsAppending"}, "Completed",
                    "Completed", TRUE),
     Abort |-> Cmd({"DuFailed", "AnalysisFailed", "AnalysisCompleted"},
                   "Failed", "Completed", FALSE),
     AbortExpired |->
        CmdMany({"Initialized", "DuAppending", "DuCompleted", "DuFailed",
                 "SuggestionsAppending", "AnalysisCompleted", "AnalysisFailed",
                 "DecisionsAppending", "Completed", "Failed"},
                {"Terminated"}, "Completed", FALSE),
     End |-> Cmd({"Completed", "Failed"}, "Terminated", "Committed", TRUE)]

SplitRootTellEnd ==
    [Commit |-> Cmd({"AnalysisCompleted", "DecisionsAppending"}, "Completed",
                    "Completed", TRUE),
     Abort |-> Cmd({"DuFailed", "AnalysisFailed", "AnalysisCompleted"},
                   "Failed", "Completed", FALSE),
     AbortExpired |->
        CmdMany({"Initialized", "DuAppending", "DuCompleted", "DuFailed",
                 "SuggestionsAppending", "AnalysisCompleted", "AnalysisFailed",
                 "DecisionsAppending"},
                {"Completed", "Failed", "Terminated"}, "Completed", FALSE),
     End |-> Cmd({"Completed", "Failed"}, "Terminated", "Committed", TRUE)]

\* tellDelete(): the state codes in which the history may be deleted.
SplitRootDelete == {"Uninitialized", "Completed", "Failed", "Terminated"}

\* AppendDus(), ... ignore the version that they are given.
SplitRootNoVC ==
    {"Init", "AppendDus", "CommitDu", "AppendSuggestions", "CommitAnalysis",
     "AppendDecision", "AbortExpired"}

-----------------------------------------------------------------------------
(***************************************************************************)
(* du-root and ping-registry.  No status is stored: the result of a du is  *)
(* read from the event Completed.                                          *)
(***************************************************************************)

DuRootAdvance(s, ev) ==
    Advanced(s, ev,
        [Started |-> "Initialized", DuUpdated |-> "Appending",
         Completed |-> "Completed", Committed |-> "Terminated"],
        {})

DuRootTell ==
    [Init |-> Cmd({"Uninitialized"}, "Initialized", "Started", TRUE),
     Append |-> CmdMany({"Initialized", "Appending"}, {}, "DuUpdated", TRUE),
     Commit |-> Cmd({"Initialized", "Appending"}, "Completed", "Completed",
                    TRUE),
     Fail |-> Cmd({"Initialized", "Appending"}, "Completed", "Completed",
                  FALSE),
     AbortExpired |-> CmdMany({"Initialized", "Appending"},
                              {"Completed", "Terminated"}, "Completed", FALSE),
     End |-> Cmd({"Completed"}, "Terminated", "Committed", TRUE)]

\* Faulty variant of DuRootDelete: only a workflow with a final event is
\* deleted.
DuRootDeleteTerminated == {"Terminated"}

DuRootDelete == {"Uninitialized", "Completed", "Terminated"}

DuRootNoVC == {"Init", "AbortExpired"}

PingRegistryAdvance(s, ev) ==
    Advanced(s, ev,
        [Started |-> "Initialized", ServerPinged |-> "Appending",
         ServerPingsGathered |-> "Summarized",
         Completed |-> "Completed", Committed |-> "Terminated"],
        {})

PingRegistryTell ==
    [Init |-> Cmd({"Uninitialized"}, "Initialized", "Started", TRUE),
     AppendPing |-> CmdMany({"Initialized", "Appending"}, {}, "ServerPinged",
                            TRUE),
     PostSummary |-> CmdMany({"Initialized", "Appending"}, {},
                             "ServerPingsGathered", TRUE),
     Commit |-> Cmd({"Summarized"}, "Completed", "Completed", TRUE),
     AbortExpired |-> CmdMany({"Initialized", "Appending", "Summarized"},
                              {"Completed", "Terminated"}, "Completed", TRUE),
     End |-> Cmd({"Completed"}, "Terminated", "Committed", TRUE)]

PingRegistryDelete == {"Uninitialized", "Completed", "Terminated"}

\* Faulty variant of PingRegistryNoVC: the summary is posted without version.
PingRegistryNoVCSummary == {"Init", "AppendPing", "PostSummary", "AbortExpired"}

\* ServerPing() is told with retries.
PingRegistryNoVC == {"Init", "AppendPing", "AbortExpired"}
=============================================================================
