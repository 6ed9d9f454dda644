------------------------- MODULE StorageActivities -------------------------
(***************************************************************************)
(* What the parties of the freeze-repo, unfreeze-repo, archive-repo and    *)
(* unarchive-repo workflows do, as tables, one for each part of the code:  *)
(*                                                                         *)
(*   X Registry, X Repo   the commands of the two aggregates;              *)
(*   X Server             the gRPC methods of nogfsoregd: the steps that   *)
(*                        a call takes, each a command to an aggregate;    *)
(*   X Regd, X Stad       the activities of nogfsoregd, nogfsostad and     *)
(*     and X Rstd         nogfsorstd: the steps for each state code that   *)
(*                        an activity observes.                            *)
(*                                                                         *)
(* StorageWorkflow takes the steps.                                        *)
(***************************************************************************)
EXTENDS WorkflowAggregates, Sequences

(***************************************************************************)
(* The storage tier, in the registry and in the repo.  An operation begins *)
(* in tier `from' or `failed', is in progress in `doing', and commits to   *)
(* `done' or aborts to `failed'.  In `again', commit is idempotent.        *)
(***************************************************************************)

TierOp(from, doing, done, failed, again) ==
    [from |-> from, doing |-> doing, done |-> done, failed |-> failed,
     again |-> again]

RegistryFreeze ==
    TierOp("online", "freezing", "frozen", "freezeFailed", "frozen")

RegistryUnfreeze ==
    TierOp("frozen", "unfreezing", "online", "unfreezeFailed", "unfreezeFailed")

RegistryArchive ==
    TierOp("frozen", "archiving", "archived", "archiveFailed", "frozen")

RegistryUnarchive ==
    TierOp("archived", "unarchiving", "frozen", "unarchiveFailed", "frozen")

RepoFreeze ==
    TierOp("online", "freezing", "frozen", "freezeFailed", "frozen")

\* Faulty variant of RepoUnfreeze: an unfreeze that failed leaves the repo
\* online.
RepoUnfreezeFailsOnline ==
    TierOp("frozen", "unfreezing", "online", "online", "online")

RepoUnfreeze ==
    TierOp("frozen", "unfreezing", "online", "unfreezeFailed", "online")

RepoArchive ==
    TierOp("frozen", "archiving", "archived", "archiveFailed", "archived")

RepoUnarchive ==
    TierOp("archived", "unarchiving", "frozen", "unarchiveFailed", "frozen")

-----------------------------------------------------------------------------
(***************************************************************************)
(* The gRPC methods.                                                       *)
(***************************************************************************)

\* The commands to the workflow of BeginFreezeRepoFiles(), ....  The methods
\* that end a workflow are not atomic.
FreezeRepoServer ==
    [BeginFiles |-> <<"BeginFiles">>,
     CommitFiles |-> <<"CommitFiles">>,
     AbortFiles |-> <<"AbortFiles">>,
     Commit |-> <<"Commit", "IndexCommit", "End">>]

FreezeRepoServerAbort == <<"Abort", "IndexCommit", "End">>

UnfreezeRepoServer ==
    [BeginFiles |-> <<"BeginFiles">>,
     CommitFiles |-> <<"CommitFiles">>,
     AbortFiles |-> <<"AbortFiles">>,
     Commit |-> <<"Commit", "IndexCommit", "End">>]

UnfreezeRepoServerAbort == <<"Abort", "IndexCommit", "End">>

ArchiveRepoServerFiles ==
    [BeginFiles |-> <<"BeginFiles">>,
     CommitTartt |-> <<"CommitTartt">>,
     BeginSwap |-> <<"BeginSwap">>,
     CommitFiles |-> <<"CommitFiles">>,
     AbortFiles |-> <<"AbortFiles">>]

ArchiveRepoServerEnd ==
    [EndFiles |-> <<"EndFiles">>,
     CommitGc |-> <<"CommitGc">>,
     Commit |-> <<"Commit", "IndexCommit", "End">>]

ArchiveRepoServerAbort == <<"Abort", "IndexCommit", "End">>

UnarchiveRepoServerFiles ==
    [BeginFiles |-> <<"BeginFiles">>,
     BeginTartt |-> <<"BeginTartt">>,
     CommitTartt |-> <<"CommitTartt">>,
     AbortTartt |-> <<"AbortTartt">>,
     CommitFiles |-> <<"CommitFiles">>]

UnarchiveRepoServerEnd ==
    [AbortFiles |-> <<"AbortFiles">>,
     EndFiles |-> <<"EndFiles">>,
     CommitGc |-> <<"CommitGc">>,
     Commit |-> <<"Commit", "IndexCommit", "End">>]

UnarchiveRepoServerAbort == <<"Abort", "IndexCommit", "End">>

\* RegistryBeginFreezeRepo(), ...: the commands to the registry, and
\* ReposBeginFreezeRepo(), ...: the commands to the repo.
FreezeRepoRegistry ==
    [Begin |-> <<"RegistryBegin">>, Commit |-> <<"RegistryCommit">>,
     Abort |-> <<"RegistryAbort">>]

FreezeRepoRepos ==
    [Begin |-> <<"ReposBegin">>, Commit |-> <<"ReposCommit">>,
     Abort |-> <<"ReposAbort">>]

UnfreezeRepoRegistry ==
    [Begin |-> <<"RegistryBegin">>, Commit |-> <<"RegistryCommit">>,
     Abort |-> <<"RegistryAbort">>]

UnfreezeRepoRepos ==
    [Begin |-> <<"ReposBegin">>, Commit |-> <<"ReposCommit">>,
     Abort |-> <<"ReposAbort">>]

ArchiveRepoRegistry ==
    [Begin |-> <<"RegistryBegin">>, Commit |-> <<"RegistryCommit">>,
     Abort |-> <<"RegistryAbort">>]

ArchiveRepoRepos ==
    [Begin |-> <<"ReposBegin">>, Commit |-> <<"ReposCommit">>,
     Abort |-> <<"ReposAbort">>]

UnarchiveRepoRegistry ==
    [Begin |-> <<"RegistryBegin">>, Commit |-> <<"RegistryCommit">>,
     Abort |-> <<"RegistryAbort">>]

UnarchiveRepoRepos ==
    [Begin |-> <<"ReposBegin">>, Commit |-> <<"ReposCommit">>,
     Abort |-> <<"ReposAbort">>]

-----------------------------------------------------------------------------
(***************************************************************************)
(* GetFreezeRepo(), ... with JC_WAIT: the state codes in which the call    *)
(* waits for an update, and what it reports otherwise.                     *)
(***************************************************************************)

Report(s) == IF StatusOk(s) THEN "ok" ELSE "failed"

GetFreezeRepo(s) ==
    IF Scode(s) \in {"Uninitialized", "Initialized", "Files",
                     "FilesCompleted", "FilesFailed"}
    THEN "wait"
    ELSE Report(s)

GetUnfreezeRepo(s) ==
    IF Scode(s) \in {"Uninitialized", "Initialized", "Files",
                     "FilesCompleted", "FilesFailed"}
    THEN "wait"
    ELSE Report(s)

\* Faulty variant of GetArchiveRepo: the result is reported as soon as the
\* files have been archived.
GetArchiveRepoEarly(s) ==
    IF Scode(s) \in {"Uninitialized", "Initialized", "Files", "TarttCompleted",
                     "SwapStarted"}
    THEN "wait"
    ELSE Report(s)

GetArchiveRepo(s) ==
    IF Scode(s) \in {"Uninitialized", "Initialized", "Files", "TarttCompleted",
                     "SwapStarted", "FilesCompleted", "FilesFailed"}
    THEN "wait"
    ELSE Report(s)

\* The loop does not wait in StateTarttFailed, and the report is "running".
GetUnarchiveRepo(s) ==
    CASE Scode(s) \in {"Uninitialized", "Initialized", "Files", "Tartt",
                       "TarttCompleted", "FilesCompleted", "FilesFailed"}
            -> "wait"
      [] Scode(s) = "TarttFailed" -> "running"
      [] OTHER -> Report(s)

-----------------------------------------------------------------------------
(***************************************************************************)
(* The activities of nogfsoregd.  An activity observes the events of a     *)
(* workflow and processes the state they lead to: it takes some steps, and *)
(* then waits for more events or quits.  Errors of ReposBegin that are not *)
(* fatal are retried; every refusal of RegistryBegin is fatal.             *)
(***************************************************************************)

Quit == <<"quit">>

\* LoadWorkflowEvent(): the view of an activity is <<scode, ok>>, as in the
\* aggregate, but kept by code of its own.  The events of the types `failing'
\* make it not ok if they have a status other than 0.
Loaded(v, ev, codes, failing) ==
    <<codes[ev[1]], v[2] /\ (ev[1] \in failing => ev[2])>>

FreezeRepoRegdBegin ==
    [steps |-> FreezeRepoRegistry.Begin \o FreezeRepoRepos.Begin
        \o FreezeRepoServer.BeginFiles,
     fatal |-> {"version conflict"}]

FreezeRepoRegdCommit == FreezeRepoRepos.Commit \o FreezeRepoRegistry.Commit
        \o FreezeRepoServer.Commit \o Quit

FreezeRepoRegdAbort == FreezeRepoRepos.Abort \o FreezeRepoRegistry.Abort
        \o FreezeRepoServerAbort \o Quit

FreezeRepoRegdLoad(v, ev) ==
    Loaded(v, ev,
        [Started2 |-> "Initialized", FilesStarted |-> "Files",
         FilesCompleted |-> Split(ev, "FilesCompleted", "FilesFailed"),
         Completed2 |-> Split(ev, "Completed", "Failed"),
         Committed |-> "Terminated"],
        {"FilesCompleted"})

FreezeRepoRegd(s) ==
    CASE Scode(s) = "Initialized" -> FreezeRepoRegdBegin.steps
      [] Scode(s) = "Files" -> <<>>
      [] Scode(s) = "FilesCompleted" -> FreezeRepoRegdCommit
      [] Scode(s) = "FilesFailed" -> FreezeRepoRegdAbort
      [] OTHER -> Quit

UnfreezeRepoRegdBegin ==
    [steps |-> UnfreezeRepoRegistry.Begin \o UnfreezeRepoRepos.Begin
        \o UnfreezeRepoServer.BeginFiles,
     fatal |-> {"version conflict"}]

UnfreezeRepoRegdCommit ==
    UnfreezeRepoRepos.Commit \o UnfreezeRepoRegistry.Commit
        \o UnfreezeRepoServer.Commit \o Quit

UnfreezeRepoRegdAbort == UnfreezeRepoRepos.Abort \o UnfreezeRepoRegistry.Abort
        \o UnfreezeRepoServerAbort \o Quit

UnfreezeRepoRegdLoad(v, ev) ==
    Loaded(v, ev,
        [Started2 |-> "Initialized", FilesStarted |-> "Files",
         FilesCompleted |-> Split(ev, "FilesCompleted", "FilesFailed"),
         Completed2 |-> Split(ev, "Completed", "Failed"),
         Committed |-> "Terminated"],
        {"FilesCompleted"})

UnfreezeRepoRegd(s) ==
    CASE Scode(s) = "Initialized" -> UnfreezeRepoRegdBegin.steps
      [] Scode(s) = "Files" -> <<>>
      [] Scode(s) = "FilesCompleted" -> UnfreezeRepoRegdCommit
      [] Scode(s) = "FilesFailed" -> UnfreezeRepoRegdAbort
      [] OTHER -> Quit

ArchiveRepoRegdBegin ==
    [steps |-> ArchiveRepoRegistry.Begin \o ArchiveRepoRepos.Begin
        \o ArchiveRepoServerFiles.BeginFiles,
     fatal |-> {"storage workflow conflict", "repo error"}]

\* doCommitFilesThenContinue() and doCommitThenQuit().
ArchiveRepoRegdCommit ==
    [files |-> ArchiveRepoRepos.Commit \o ArchiveRepoRegistry.Commit
        \o ArchiveRepoServerEnd.EndFiles,
     workflow |-> ArchiveRepoServerEnd.Commit \o Quit]

ArchiveRepoRegdAbortFiles ==
    ArchiveRepoRepos.Abort \o ArchiveRepoRegistry.Abort
        \o ArchiveRepoServerEnd.EndFiles

ArchiveRepoRegdAbort == ArchiveRepoRepos.Abort \o ArchiveRepoRegistry.Abort
        \o ArchiveRepoServerAbort \o Quit

ArchiveRepoRegdLoad(v, ev) ==
    Loaded(v, ev,
        [Started |-> "Initialized", FilesStarted |-> "Files",
         TarttCompleted |-> "TarttCompleted", SwapStarted |-> "SwapStarted",
         FilesCompleted |-> Split(ev, "FilesCompleted", "FilesFailed"),
         FilesCommitted |-> "FilesEnded", GcCompleted |-> "GcCompleted",
         Completed |-> Split(ev, "Completed", "Failed"),
         Committed |-> "Terminated"],
        {"FilesCompleted"})

ArchiveRepoRegd(s) ==
    CASE Scode(s) = "Initialized" -> ArchiveRepoRegdBegin.steps
      [] Scode(s) = "FilesCompleted" -> ArchiveRepoRegdCommit.files
      [] Scode(s) = "FilesFailed" -> ArchiveRepoRegdAbortFiles
      [] Scode(s) \in {"Files", "TarttCompleted", "SwapStarted", "FilesEnded"}
            -> <<>>
      [] Scode(s) = "GcCompleted" ->
            IF StatusOk(s) THEN ArchiveRepoRegdCommit.workflow
                           ELSE ArchiveRepoRegdAbort
      [] OTHER -> Quit

UnarchiveRepoRegdBegin ==
    [steps |-> UnarchiveRepoRegistry.Begin \o UnarchiveRepoRepos.Begin
        \o UnarchiveRepoServerFiles.BeginFiles,
     fatal |-> {"version conflict"}]

UnarchiveRepoRegdCommit ==
    [files |-> UnarchiveRepoRepos.Commit \o UnarchiveRepoRegistry.Commit
        \o UnarchiveRepoServerEnd.EndFiles,
     workflow |-> UnarchiveRepoServerEnd.Commit \o Quit]

UnarchiveRepoRegdAbortFiles ==
    UnarchiveRepoRepos.Abort \o UnarchiveRepoRegistry.Abort
        \o UnarchiveRepoServerEnd.EndFiles

UnarchiveRepoRegdAbort ==
    UnarchiveRepoRepos.Abort \o UnarchiveRepoRegistry.Abort
        \o UnarchiveRepoServerAbort \o Quit

UnarchiveRepoRegdLoad(v, ev) ==
    Loaded(v, ev,
        [Started |-> "Initialized", FilesStarted |-> "Files",
         TarttStarted |-> "Tartt",
         TarttCompleted |-> Split(ev, "TarttCompleted", "TarttFailed"),
         FilesCompleted |-> Split(ev, "FilesCompleted", "FilesFailed"),
         FilesCommitted |-> "FilesEnded", GcCompleted |-> "GcCompleted",
         Completed |-> Split(ev, "Completed", "Failed"),
         Committed |-> "Terminated"],
        {"TarttCompleted", "FilesCompleted"})

UnarchiveRepoRegd(s) ==
    CASE Scode(s) = "Initialized" -> UnarchiveRepoRegdBegin.steps
      [] Scode(s) = "FilesCompleted" -> UnarchiveRepoRegdCommit.files
      [] Scode(s) \in {"TarttFailed", "FilesFailed"} ->
            UnarchiveRepoRegdAbortFiles
      [] Scode(s) \in {"Files", "Tartt", "TarttCompleted", "FilesEnded"} -> <<>>
      [] Scode(s) = "GcCompleted" ->
            IF StatusOk(s) THEN UnarchiveRepoRegdCommit.workflow
                           ELSE UnarchiveRepoRegdAbort
      [] OTHER -> Quit

-----------------------------------------------------------------------------
(***************************************************************************)
(* The activities of nogfsostad and nogfsorstd.  `abort' are the steps     *)
(* that follow if the files could not be changed after several attempts.   *)
(***************************************************************************)

FreezeRepoStadFiles ==
    [steps |-> <<"ChattrBegin", "ChattrEnd", "CommitFiles">> \o Quit,
     abort |-> <<"AbortFiles">> \o Quit]

FreezeRepoStadLoad(v, ev) ==
    Loaded(v, ev,
        [Started2 |-> "Initialized", FilesStarted |-> "Files",
         FilesCompleted |-> Split(ev, "FilesCompleted", "FilesFailed"),
         Completed2 |-> Split(ev, "Completed", "Failed"),
         Committed |-> "Terminated"],
        {})

FreezeRepoStad(s) ==
    CASE Scode(s) = "Initialized" -> <<>>
      [] Scode(s) = "Files" -> FreezeRepoStadFiles.steps
      [] OTHER -> Quit

UnfreezeRepoStadFiles ==
    [steps |-> <<"ChattrBegin", "ChattrEnd", "CommitFiles">> \o Quit,
     abort |-> <<"AbortFiles">> \o Quit]

UnfreezeRepoStadLoad(v, ev) ==
    Loaded(v, ev,
        [Started2 |-> "Initialized", FilesStarted |-> "Files",
         FilesCompleted |-> Split(ev, "FilesCompleted", "FilesFailed"),
         Completed2 |-> Split(ev, "Completed", "Failed"),
         Committed |-> "Terminated"],
        {})

UnfreezeRepoStad(s) ==
    CASE Scode(s) = "Initialized" -> <<>>
      [] Scode(s) = "Files" -> UnfreezeRepoStadFiles.steps
      [] OTHER -> Quit

\* doPrepareArchiveThenContinue()
ArchiveRepoStadPrepare == <<"MakePlaceholder", "BeginSwap">>

\* doPollTarttThenContinue()
ArchiveRepoStadPoll == <<"PollTartt", "CommitTartt">> \o ArchiveRepoStadPrepare

\* doArchiveRepoThenContinue()
ArchiveRepoStadFiles ==
    [steps |-> <<"SwapOut", "SwapIn", "ShadowArchive", "CommitFiles">>,
     abort |-> <<"AbortFiles">>]

\* doGcThenQuit()
ArchiveRepoStadGc == <<"RemoveWorkingDir", "CommitGc">> \o Quit

ArchiveRepoStadLoad(v, ev) ==
    Loaded(v, ev,
        [Started |-> "Initialized", FilesStarted |-> "Files",
         TarttCompleted |-> "TarttCompleted", SwapStarted |-> "SwapStarted",
         FilesCompleted |-> Split(ev, "FilesCompleted", "FilesFailed"),
         FilesCommitted |-> "FilesEnded", GcCompleted |-> "GcCompleted",
         Completed |-> Split(ev, "Completed", "Failed"),
         Committed |-> "Terminated"],
        {})

\* Faulty variant of ArchiveRepoStad: the working directory is removed as soon
\* as the files have been swapped.
ArchiveRepoStadEarlyGc(s) ==
    CASE Scode(s) = "Files" -> ArchiveRepoStadPoll
      [] Scode(s) = "TarttCompleted" -> ArchiveRepoStadPrepare
      [] Scode(s) = "SwapStarted" -> ArchiveRepoStadFiles.steps
      [] Scode(s) = "Initialized" -> <<>>
      [] Scode(s) \in {"FilesCompleted", "FilesFailed", "FilesEnded"} ->
            ArchiveRepoStadGc
      [] OTHER -> Quit

ArchiveRepoStad(s) ==
    CASE Scode(s) = "Files" -> ArchiveRepoStadPoll
      [] Scode(s) = "TarttCompleted" -> ArchiveRepoStadPrepare
      [] Scode(s) = "SwapStarted" -> ArchiveRepoStadFiles.steps
      [] Scode(s) \in {"Initialized", "FilesCompleted", "FilesFailed"} -> <<>>
      [] Scode(s) = "FilesEnded" -> ArchiveRepoStadGc
      [] OTHER -> Quit

\* doPrepareUnarchiveThenContinue()
UnarchiveRepoStadPrepare == <<"MakeRestore", "BeginTartt">>

\* doUnarchiveRepoThenContinue()
UnarchiveRepoStadFiles ==
    [steps |-> <<"SetfaclChattr", "SwapOut", "SwapIn", "CommitFiles">>,
     abort |-> <<"AbortFiles">>]

\* doGcThenQuit()
UnarchiveRepoStadGc == <<"RemoveWorkingDir", "CommitGc">> \o Quit

UnarchiveRepoStadLoad(v, ev) ==
    Loaded(v, ev,
        [Started |-> "Initialized", FilesStarted |-> "Files",
         TarttStarted |-> "Tartt",
         TarttCompleted |-> Split(ev, "TarttCompleted", "TarttFailed"),
         FilesCompleted |-> Split(ev, "FilesCompleted", "FilesFailed"),
         FilesCommitted |-> "FilesEnded", GcCompleted |-> "GcCompleted",
         Completed |-> Split(ev, "Completed", "Failed"),
         Committed |-> "Terminated"],
        {})

UnarchiveRepoStad(s) ==
    CASE Scode(s) = "Files" -> UnarchiveRepoStadPrepare
      [] Scode(s) = "TarttCompleted" -> UnarchiveRepoStadFiles.steps
      [] Scode(s) \in {"Initialized", "Tartt", "TarttFailed", "FilesCompleted",
                       "FilesFailed"} -> <<>>
      [] Scode(s) = "FilesEnded" -> UnarchiveRepoStadGc
      [] OTHER -> Quit

\* doTarttRestoreThenQuit()
UnarchiveRepoRstdRestore ==
    [steps |-> <<"TarttRestore", "CommitTartt">> \o Quit,
     abort |-> <<"AbortTartt">> \o Quit]

UnarchiveRepoRstdLoad(v, ev) ==
    Loaded(v, ev,
        [Started |-> "Initialized", FilesStarted |-> "Files",
         TarttStarted |-> "Tartt", TarttCompleted |-> "Terminated",
         FilesCompleted |-> "Terminated", FilesCommitted |-> "Terminated",
         GcCompleted |-> "Terminated", Completed |-> "Terminated",
         Committed |-> "Terminated"],
        {})

UnarchiveRepoRstd(s) ==
    CASE Scode(s) \in {"Initialized", "Files"} -> <<>>
      [] Scode(s) = "Tartt" -> UnarchiveRepoRstdRestore.steps
      [] OTHER -> Quit
=============================================================================
