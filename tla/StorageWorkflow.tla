-------------------------- MODULE StorageWorkflow --------------------------
(***************************************************************************)
(* The workflows that move a repo between storage tiers: freeze-repo,      *)
(* unfreeze-repo, archive-repo and unarchive-repo.  A workflow changes the *)
(* repo in two aggregates, the registry and the repo itself, and the files *)
(* of the repo on a storage host.  No transaction spans them.              *)
(*                                                                         *)
(*   nogfsoregd, server   checks the preconditions, starts the history of  *)
(*                        the workflow and adds it to the workflow index.  *)
(*   nogfsoregd, activity begins the operation in the registry and the     *)
(*                        repo, hands over to nogfsostad, and commits or   *)
(*                        aborts when nogfsostad is done.                  *)
(*   nogfsostad, activity changes the files.                               *)
(*   nogfsorstd, activity restores the files from a tartt archive.         *)
(*                                                                         *)
(* An activity observes the history and takes the steps that the tables of *)
(* StorageActivities list for the state it has observed.  A command to an  *)
(* aggregate is one atomic step (see AggregateEngine).  An activity that   *)
(* fails at a step, before or after the step had its effect, starts over   *)
(* from the state of the workflow; MaxLost bounds how often that happens   *)
(* without a reason in the modelled state.                                 *)
(***************************************************************************)
EXTENDS StorageActivities, FiniteSets

CONSTANTS
    Workflows,       \* workflow ids
    NoWorkflow,      \* uuid.Nil
    OpOf,            \* the operation of each workflow
    WithVid,         \* the workflows that are started with a repo version
    MaxRetries,      \* ConfigMaxFreezeRepoRetries, and the like
    MaxLost          \* bound: failures and restarts

Ops == {"freeze", "unfreeze", "archive", "unarchive"}

ASSUME StorageAssumption ==
    /\ NoWorkflow \notin Workflows
    /\ OpOf \in [Workflows -> Ops]
    /\ WithVid \subseteq Workflows
    /\ MaxRetries \in Nat
    /\ MaxLost \in Nat

\* Only the unarchive workflow has an activity in nogfsorstd.
Roles == {"regd", "stad", "rstd"}
RolesOf(w) == IF OpOf[w] = "unarchive" THEN Roles ELSE {"regd", "stad"}

VARIABLES
    registry,   \* tier and workflow id of the repo in the registry aggregate
    repo,       \* tier, workflow id, stored error and tartt archive of the repo
    host,       \* the files at the path of the repo
    dir,        \* the working directory of each workflow
    tar,        \* the latest full tartt archive, if newer than master-stat
    hist,       \* the history of each workflow: the events, and the state of
                \* the aggregate and the views of activities that they lead to
    wtar,       \* the tartt archive that each workflow has recorded
    vid,        \* the repo version that each workflow was started with
    index,      \* the entry of each workflow in the workflow index
    act,        \* the activities: by role and workflow
    lost        \* number of failures so far

vars == <<registry, repo, host, dir, tar, hist, wtar, vid, index, act, lost>>
aggregates == <<registry, repo, vid>>
disk == <<host, dir, tar>>
flow == <<hist, wtar, index>>

\* What a path can hold: data that can be written, that cannot be written, or
\* partly; an empty directory or part of a restore; a placeholder; nothing.
Data == {"writable", "mixed", "immutable"}
Trees == Data \cup {"none", "empty", "partial", "placeholder"}

NoDir == [in |-> "none", trash |-> "none"]

\* An activity: the position in the history up to which it has processed the
\* states, the version it gives with the next command, the steps it has yet to
\* take, and nRetries.
Idle == [pos |-> 0, at |-> 0, todo |-> <<>>, n |-> 0]

State(w) == IF hist[w] = <<>> THEN New ELSE hist[w][Len(hist[w])].st
Code(w) == Scode(State(w))

\* The parts of the tables for workflow `w'.
Tell(w, cmd) ==
    CASE OpOf[w] = "freeze" -> FreezeRepoTell[cmd]
      [] OpOf[w] = "unfreeze" -> UnfreezeRepoTell[cmd]
      [] OpOf[w] = "archive" ->
            IF cmd \in DOMAIN ArchiveRepoTellFiles
            THEN ArchiveRepoTellFiles[cmd] ELSE ArchiveRepoTellEnd[cmd]
      [] OpOf[w] = "unarchive" ->
            IF cmd \in DOMAIN UnarchiveRepoTellFiles
            THEN UnarchiveRepoTellFiles[cmd] ELSE UnarchiveRepoTellEnd[cmd]

\* doAbortAndQuit() also gives no version.
NoVC(w) ==
    {"Abort"} \cup
    [freeze |-> FreezeRepoNoVC, unfreeze |-> UnfreezeRepoNoVC,
     archive |-> ArchiveRepoNoVC, unarchive |-> UnarchiveRepoNoVC][OpOf[w]]

Advance(w, s, ev) ==
    CASE OpOf[w] = "freeze" -> FreezeRepoAdvance(s, ev)
      [] OpOf[w] = "unfreeze" -> UnfreezeRepoAdvance(s, ev)
      [] OpOf[w] = "archive" -> ArchiveRepoAdvance(s, ev)
      [] OpOf[w] = "unarchive" -> UnarchiveRepoAdvance(s, ev)

RegOp(w) ==
    [freeze |-> RegistryFreeze, unfreeze |-> RegistryUnfreeze,
     archive |-> RegistryArchive, unarchive |-> RegistryUnarchive][OpOf[w]]

RepoOp(w) ==
    [freeze |-> RepoFreeze, unfreeze |-> RepoUnfreeze,
     archive |-> RepoArchive, unarchive |-> RepoUnarchive][OpOf[w]]

\* LoadWorkflowEvent()
Load(r, w, v, ev) ==
    CASE OpOf[w] = "freeze" /\ r = "regd" -> FreezeRepoRegdLoad(v, ev)
      [] OpOf[w] = "freeze" /\ r = "stad" -> FreezeRepoStadLoad(v, ev)
      [] OpOf[w] = "unfreeze" /\ r = "regd" -> UnfreezeRepoRegdLoad(v, ev)
      [] OpOf[w] = "unfreeze" /\ r = "stad" -> UnfreezeRepoStadLoad(v, ev)
      [] OpOf[w] = "archive" /\ r = "regd" -> ArchiveRepoRegdLoad(v, ev)
      [] OpOf[w] = "archive" /\ r = "stad" -> ArchiveRepoStadLoad(v, ev)
      [] OpOf[w] = "unarchive" /\ r = "regd" -> UnarchiveRepoRegdLoad(v, ev)
      [] OpOf[w] = "unarchive" /\ r = "stad" -> UnarchiveRepoStadLoad(v, ev)
      [] OpOf[w] = "unarchive" /\ r = "rstd" -> UnarchiveRepoRstdLoad(v, ev)

\* The view of an activity after the first `p' events.
View(r, w, p) == IF p = 0 THEN New ELSE hist[w][p].view[r]

\* processView()
Steps(r, w, s) ==
    CASE OpOf[w] = "freeze" /\ r = "regd" -> FreezeRepoRegd(s)
      [] OpOf[w] = "freeze" /\ r = "stad" -> FreezeRepoStad(s)
      [] OpOf[w] = "unfreeze" /\ r = "regd" -> UnfreezeRepoRegd(s)
      [] OpOf[w] = "unfreeze" /\ r = "stad" -> UnfreezeRepoStad(s)
      [] OpOf[w] = "archive" /\ r = "regd" -> ArchiveRepoRegd(s)
      [] OpOf[w] = "archive" /\ r = "stad" -> ArchiveRepoStad(s)
      [] OpOf[w] = "unarchive" /\ r = "regd" -> UnarchiveRepoRegd(s)
      [] OpOf[w] = "unarchive" /\ r = "stad" -> UnarchiveRepoStad(s)
      [] OpOf[w] = "unarchive" /\ r = "rstd" -> UnarchiveRepoRstd(s)

\* TellIdVid(): the aggregate accepts a command.
Post(w, ev) ==
    hist' = [hist EXCEPT ![w] =
               Append(@, [ev |-> ev, st |-> Advance(w, State(w), ev),
                          view |-> [r \in RolesOf(w) |->
                                      Load(r, w, View(r, w, Len(@)), ev)]])]

RegdBegin(w) ==
    [freeze |-> FreezeRepoRegdBegin, unfreeze |-> UnfreezeRepoRegdBegin,
     archive |-> ArchiveRepoRegdBegin, unarchive |-> UnarchiveRepoRegdBegin]
    [OpOf[w]]

RegdAbort(w) ==
    [freeze |-> FreezeRepoRegdAbort, unfreeze |-> UnfreezeRepoRegdAbort,
     archive |-> ArchiveRepoRegdAbort, unarchive |-> UnarchiveRepoRegdAbort]
    [OpOf[w]]

StadAbort(w) ==
    [freeze |-> FreezeRepoStadFiles.abort,
     unfreeze |-> UnfreezeRepoStadFiles.abort,
     archive |-> ArchiveRepoStadFiles.abort,
     unarchive |-> UnarchiveRepoStadFiles.abort][OpOf[w]]

\* The answer of GetFreezeRepo(), ... to a client that waits.
Get(w) ==
    CASE OpOf[w] = "freeze" -> GetFreezeRepo(State(w))
      [] OpOf[w] = "unfreeze" -> GetUnfreezeRepo(State(w))
      [] OpOf[w] = "archive" -> GetArchiveRepo(State(w))
      [] OpOf[w] = "unarchive" -> GetUnarchiveRepo(State(w))

HostOf(tier) ==
    [online |-> "writable", frozen |-> "immutable", archived |-> "placeholder"]
    [tier]

\* The repo is in a tier that no workflow is working on.
Init ==
    /\ \E t \in {"online", "frozen", "archived"} :
          /\ registry = [tier |-> t, wf |-> NoWorkflow]
          /\ repo = [tier |-> t, wf |-> NoWorkflow, error |-> FALSE,
                     tar |-> IF t = "archived" THEN "data" ELSE "none"]
          /\ host = HostOf(t)
          /\ tar = IF t = "archived" THEN "data" ELSE "none"
    /\ dir = [w \in Workflows |-> NoDir]
    /\ hist = [w \in Workflows |-> <<>>]
    /\ wtar = [w \in Workflows |-> "none"]
    /\ vid = [w \in Workflows |-> "none"]
    /\ index = [w \in Workflows |-> "none"]
    /\ act = [r \in Roles |-> [w \in Workflows |-> Idle]]
    /\ lost = 0

-----------------------------------------------------------------------------
(***************************************************************************)
(* The server: BeginFreezeRepo() and the others.                           *)
(***************************************************************************)

BeginFreezeRepoOk == registry.tier \in {"online", "freezeFailed"} /\ ~repo.error

BeginUnfreezeRepoOk ==
    registry.tier \in {"frozen", "unfreezeFailed"} /\ ~repo.error

BeginArchiveRepoOk ==
    /\ registry.tier \in {"frozen", "archiveFailed"}
    /\ repo.tier \in {"frozen", "archiveFailed"}
    /\ ~repo.error

BeginUnarchiveRepoOk ==
    registry.tier \in {"archived", "unarchiveFailed"} /\ ~repo.error

\* The preconditions are only an optimization: they are checked before the
\* workflow is started, and the state may change afterwards.  The call may give
\* the versions of the registry and the repo, which are then the current ones.
\* An unarchive records the archive of the repo.
BeginRepo(w) ==
    /\ hist[w] = <<>>
    /\ [freeze |-> BeginFreezeRepoOk, unfreeze |-> BeginUnfreezeRepoOk,
        archive |-> BeginArchiveRepoOk, unarchive |-> BeginUnarchiveRepoOk]
       [OpOf[w]]
    /\ Post(w, Tell(w, "Init").ev)
    /\ vid' = [vid EXCEPT ![w] = IF w \in WithVid THEN "fresh" ELSE "none"]
    /\ wtar' = [wtar EXCEPT ![w] =
                  IF OpOf[w] = "unarchive" THEN repo.tar ELSE @]
    /\ UNCHANGED <<registry, repo, disk, index, act, lost>>

\* The second step of the call adds the workflow to the index.
BeginIndex(w) ==
    /\ hist[w] # <<>>
    /\ index[w] = "none"
    /\ index' = [index EXCEPT ![w] = "active"]
    /\ UNCHANGED <<aggregates, disk, hist, wtar, act, lost>>

\* The server stops between the two steps.  The workflow id is used, so the
\* call cannot be repeated: the workflow never runs.
BeginLost(w) ==
    /\ hist[w] # <<>>
    /\ index[w] = "none"
    /\ lost < MaxLost
    /\ lost' = lost + 1
    /\ index' = [index EXCEPT ![w] = "orphan"]
    /\ UNCHANGED <<aggregates, disk, hist, wtar, act>>

-----------------------------------------------------------------------------
(***************************************************************************)
(* Activities.                                                             *)
(***************************************************************************)

At(r, w, step) == act[r][w].todo # <<>> /\ Head(act[r][w].todo) = step

\* The activity has the steps `todo' ahead.  One that has quit forgets all
\* else, and one that waits for events has no version.
Then(a, todo) ==
    CASE todo = Quit -> [Idle EXCEPT !.todo = Quit]
      [] todo = <<>> -> [a EXCEPT !.todo = <<>>, !.at = 0]
      [] OTHER -> [a EXCEPT !.todo = todo]

Todo(r, w, todo) == act' = [act EXCEPT ![r][w] = Then(@, todo)]

\* doRetry(): the activity starts from the state that it then finds.
Retry(r, w) == act' = [act EXCEPT ![r][w].todo = <<>>, ![r][w].pos = 0,
                               ![r][w].at = 0]

\* The step is done; the activity goes on, unless the answer is lost.
Done(r, w) ==
    \/ act' = [act EXCEPT ![r][w] = Then(@, Tail(@.todo))] /\ UNCHANGED lost
    \/ lost < MaxLost /\ lost' = lost + 1 /\ Retry(r, w)

\* ProcessRegistryWorkflowEvents() first loads the whole history.  It then
\* watches the history; the state that it has loaded when it processes the view
\* in WillBlock() may lag behind.  Views in which it continues without a step
\* are passed over.
ProcessView(r, w) ==
    LET a == act[r][w]
        last == Len(hist[w])
    IN  /\ index[w] = "active"
        /\ a.todo = <<>>
        /\ a.pos < last
        /\ \E p \in IF a.pos = 0 THEN {last}
                     ELSE {q \in a.pos + 1 .. last :
                             Steps(r, w, View(r, w, q)) # <<>>} :
              act' = [act EXCEPT ![r][w] =
                        Then([pos |-> p, at |-> p, n |-> a.n, todo |-> <<>>],
                             Steps(r, w, View(r, w, p)))]
        /\ UNCHANGED <<aggregates, disk, flow, lost>>

\* A command to the workflow, mostly with the version that the activity has seen
\* last.  A command is idempotent in the state that it
\* leads to.  A command that is refused is retried.
WfCommand(r, w, cmds) ==
    LET cmd == Head(act[r][w].todo)
        c == Tell(w, cmd)
        s == State(w)
        ok == /\ act[r][w].at = Len(hist[w]) \/ cmd \in NoVC(w)
              /\ s \in c.from \/ Scode(s) \in c.again
    IN  /\ act[r][w].todo # <<>> /\ cmd \in cmds
        /\ \/ /\ ok
              /\ IF s \in c.from THEN Post(w, c.ev) ELSE UNCHANGED hist
              /\ wtar' = IF cmd = "CommitTartt" /\ OpOf[w] = "archive"
                         THEN [wtar EXCEPT ![w] = tar] ELSE wtar
              /\ \/ /\ act' = [act EXCEPT ![r][w] =
                                  Then([@ EXCEPT !.at = Len(hist'[w])],
                                       Tail(@.todo))]
                    /\ UNCHANGED lost
                 \/ lost < MaxLost /\ lost' = lost + 1 /\ Retry(r, w)
           \/ /\ ~ok
              /\ Retry(r, w)
              /\ UNCHANGED <<hist, wtar, lost>>
        /\ UNCHANGED <<aggregates, disk, index>>

\* CommitFreezeRepo() and AbortFreezeRepo(), ...: the second step.
IndexCommit(w) ==
    /\ At("regd", w, "IndexCommit")
    /\ index' = [index EXCEPT ![w] = "completed"]
    /\ Done("regd", w)
    /\ UNCHANGED <<aggregates, disk, hist, wtar>>

\* A step fails without an effect, for example because a call cannot be sent.
Fails(r, w) ==
    /\ act[r][w].todo \notin {<<>>, Quit}
    /\ lost < MaxLost
    /\ lost' = lost + 1
    /\ Retry(r, w)
    /\ UNCHANGED <<aggregates, disk, flow>>

\* A daemon restarts: all its activities start over, also those that have quit.
Restarts(r) ==
    /\ lost < MaxLost
    /\ lost' = lost + 1
    /\ act' = [act EXCEPT ![r] = [w \in Workflows |-> Idle]]
    /\ UNCHANGED <<aggregates, disk, flow>>

-----------------------------------------------------------------------------
(***************************************************************************)
(* Commands to the registry and the repo, by nogfsoregd.                   *)
(***************************************************************************)

\* Every change of the repo makes a version stale that was given at begin.
Stale == [w \in Workflows |-> IF vid[w] = "fresh" THEN "stale" ELSE vid[w]]

SetRepo(new) ==
    /\ repo' = new
    /\ vid' = IF new = repo THEN vid ELSE Stale

\* Faulty variant of RegistryBegin: the workflow id is not compared.
RegistryBeginAnyWorkflow(w) ==
    LET op == RegOp(w)
    IN  /\ At("regd", w, "RegistryBegin")
        /\ \/ /\ registry.tier \in {op.from, op.failed, op.doing}
              /\ registry' = [tier |-> op.doing, wf |-> w]
              /\ Done("regd", w)
           \/ /\ Todo("regd", w, RegdAbort(w))
              /\ UNCHANGED <<registry, lost>>
        /\ UNCHANGED <<repo, vid, disk, flow>>

\* RegistryBeginFreezeRepo(), ....  It is refused in a wrong tier; with a
\* version that other changes of the registry have made stale; and if the repo
\* is not a leaf anymore, unless the operation has begun.
RegistryBegin(w) ==
    LET op == RegOp(w)
        mine == registry = [tier |-> op.doing, wf |-> w]
    IN  /\ At("regd", w, "RegistryBegin")
        /\ \/ /\ registry.tier \in {op.from, op.failed} \/ mine
              /\ registry' = [tier |-> op.doing, wf |-> w]
              /\ Done("regd", w)
           \/ /\ ~mine \/ vid[w] # "none"
              /\ Todo("regd", w, RegdAbort(w))
              /\ UNCHANGED <<registry, lost>>
        /\ UNCHANGED <<repo, vid, disk, flow>>

\* The answer of the repo to a begin.
ReposBeginError(w) ==
    LET op == RepoOp(w)
    IN  CASE vid[w] = "stale" -> "version conflict"
          [] repo.tier = op.from /\ repo.error -> "repo error"
          [] repo.tier \in {op.from, op.failed} /\ ~repo.error -> "none"
          [] repo.tier = op.doing /\ repo.wf = w -> "none"
          [] OTHER -> "storage workflow conflict"

\* ReposBeginFreezeRepo(), ....  Some errors are fatal, all others are retried.
ReposBegin(w) ==
    LET err == ReposBeginError(w)
    IN  /\ At("regd", w, "ReposBegin")
        /\ \/ /\ err = "none"
              /\ SetRepo([repo EXCEPT !.tier = RepoOp(w).doing, !.wf = w])
              /\ Done("regd", w)
           \/ /\ err # "none"
              /\ IF err \in RegdBegin(w).fatal
                 THEN Todo("regd", w, RegdAbort(w))
                 ELSE Retry("regd", w)
              /\ UNCHANGED <<repo, vid, lost>>
        /\ UNCHANGED <<registry, disk, flow>>

\* The answer of an aggregate `a' to a commit and to an abort.
MayCommit(a, op, w) == a.wf = w /\ a.tier \in {op.doing, op.again}
MayAbort(a, op, w) == a.wf = w /\ a.tier \in {op.doing, op.failed}

\* ReposCommitFreezeRepo(), ....  Every error is retried.  The repo stores the
\* path of the archive.
ReposCommit(w) ==
    LET op == RepoOp(w)
    IN  /\ At("regd", w, "ReposCommit")
        /\ \/ /\ MayCommit(repo, op, w)
              /\ SetRepo(IF repo.tier # op.doing THEN repo
                         ELSE [repo EXCEPT
                                 !.tier = op.done,
                                 !.tar = IF OpOf[w] = "archive" THEN wtar[w]
                                         ELSE @])
              /\ Done("regd", w)
           \/ /\ ~MayCommit(repo, op, w)
              /\ Retry("regd", w)
              /\ UNCHANGED <<repo, vid, lost>>
        /\ UNCHANGED <<registry, disk, flow>>

RegistryCommit(w) ==
    LET op == RegOp(w)
    IN  /\ At("regd", w, "RegistryCommit")
        /\ \/ /\ MayCommit(registry, op, w)
              /\ registry' = [registry EXCEPT
                                !.tier = IF @ = op.doing THEN op.done ELSE @]
              /\ Done("regd", w)
           \/ /\ ~MayCommit(registry, op, w)
              /\ Retry("regd", w)
              /\ UNCHANGED <<registry, lost>>
        /\ UNCHANGED <<repo, vid, disk, flow>>

\* Faulty variants of ReposAbort: a workflow conflict is an error; or nothing
\* is done unless the files have been started.
ReposAbortStrict(w) ==
    LET op == RepoOp(w)
    IN  /\ At("regd", w, "ReposAbort")
        /\ \/ /\ MayAbort(repo, op, w)
              /\ SetRepo([repo EXCEPT !.tier = op.failed, !.error = TRUE])
              /\ Done("regd", w)
           \/ /\ ~MayAbort(repo, op, w)
              /\ Retry("regd", w)
              /\ UNCHANGED <<repo, vid, lost>>
        /\ UNCHANGED <<registry, disk, flow>>

ReposAbortFilesOnly(w) ==
    LET op == RepoOp(w)
    IN  /\ At("regd", w, "ReposAbort")
        /\ IF MayAbort(repo, op, w) /\ Code(w) # "Initialized"
           THEN /\ SetRepo([repo EXCEPT !.tier = op.failed, !.error = TRUE])
                /\ Done("regd", w)
           ELSE /\ Todo("regd", w, Tail(act["regd"][w].todo))
                /\ UNCHANGED <<repo, vid, lost>>
        /\ UNCHANGED <<registry, disk, flow>>

\* A workflow conflict is ignored: there is nothing to abort.  The repo also
\* stores an error message.
ReposAbort(w) ==
    LET op == RepoOp(w)
    IN  /\ At("regd", w, "ReposAbort")
        /\ \/ /\ MayAbort(repo, op, w)
              /\ SetRepo(IF repo.tier = op.failed THEN repo
                         ELSE [repo EXCEPT !.tier = op.failed, !.error = TRUE])
              /\ Done("regd", w)
           \/ /\ ~MayAbort(repo, op, w)
              /\ Todo("regd", w, Tail(act["regd"][w].todo))
              /\ UNCHANGED <<repo, vid, lost>>
        /\ UNCHANGED <<registry, disk, flow>>

RegistryAbort(w) ==
    LET op == RegOp(w)
    IN  /\ At("regd", w, "RegistryAbort")
        /\ \/ /\ MayAbort(registry, op, w)
              /\ registry' = [registry EXCEPT !.tier = op.failed]
              /\ Done("regd", w)
           \/ /\ ~MayAbort(registry, op, w)
              /\ Todo("regd", w, Tail(act["regd"][w].todo))
              /\ UNCHANGED <<registry, lost>>
        /\ UNCHANGED <<repo, vid, disk, flow>>

-----------------------------------------------------------------------------
(***************************************************************************)
(* The files, by nogfsostad.                                               *)
(***************************************************************************)

\* The operation on the files fails.  It is retried a few times, and then the
\* workflow is aborted.
StadFailed(w) ==
    LET a == act["stad"][w]
    IN  act' = [act EXCEPT !["stad"][w] =
                  IF a.n < MaxRetries THEN [Idle EXCEPT !.n = a.n + 1]
                  ELSE [a EXCEPT !.todo = StadAbort(w)]]

Next1(r, w) == Todo(r, w, Tail(act[r][w].todo))
Succeeded(r, w) ==
    act' = [act EXCEPT ![r][w] = Then([@ EXCEPT !.n = 0], Tail(@.todo))]

\* chattrSetImmutable(), chattrUnsetImmutable().
FilesOf(w) == IF OpOf[w] = "freeze" THEN "immutable" ELSE "writable"

\* FreezeRepo() and UnfreezeRepo().  While they run, the files are in between.
ChattrBegin(w) ==
    /\ At("stad", w, "ChattrBegin")
    /\ host' \in {host, "mixed"}
    /\ Next1("stad", w)
    /\ UNCHANGED <<aggregates, dir, tar, flow, lost>>

\* Then StatRepo() commits to master-stat, which makes the latest archive old.
\* They fail when no, some or all files have been changed.
ChattrEnd(w) ==
    /\ At("stad", w, "ChattrEnd")
    /\ \/ host' = FilesOf(w) /\ tar' = "none" /\ Succeeded("stad", w)
       \/ /\ host' \in {host, "mixed", FilesOf(w)}
          /\ StadFailed(w)
          /\ UNCHANGED tar
    /\ UNCHANGED <<aggregates, dir, flow, lost>>

\* TarttIsFrozenArchive(): the latest archive is a full archive that is newer
\* than master-stat.  Otherwise, nogfsostad polls.
PollTartt(w) ==
    /\ At("stad", w, "PollTartt")
    /\ IF tar # "none" THEN Next1("stad", w) ELSE Retry("stad", w)
    /\ UNCHANGED <<aggregates, disk, flow, lost>>

\* ensureArchiveRepoWorkingDir(); the spool directory may not be configured.
\* The placeholder describes the archive, which is looked up again.
MakePlaceholder(w) ==
    /\ At("stad", w, "MakePlaceholder")
    /\ \/ IF tar = "none"
          THEN Retry("stad", w) /\ UNCHANGED dir
          ELSE /\ dir' = [dir EXCEPT ![w] =
                            [in |-> "placeholder", trash |-> "none"]]
               /\ Next1("stad", w)
       \/ Todo("stad", w, ArchiveRepoStadFiles.abort) /\ UNCHANGED dir
    /\ UNCHANGED <<aggregates, host, tar, flow, lost>>

\* ensureUnarchiveRepoWorkingDir()
MakeRestore(w) ==
    /\ At("stad", w, "MakeRestore")
    /\ \/ /\ dir' = [dir EXCEPT ![w] = [in |-> "empty", trash |-> "none"]]
          /\ Next1("stad", w)
       \/ Todo("stad", w, UnarchiveRepoStadFiles.abort) /\ UNCHANGED dir
    /\ UNCHANGED <<aggregates, host, tar, flow, lost>>

\* Faulty variant of SetfaclChattr: only ACLs are applied.
SetfaclOnly(w) ==
    /\ At("stad", w, "SetfaclChattr")
    /\ dir[w].in # "none"
    /\ Next1("stad", w)
    /\ UNCHANGED <<aggregates, disk, flow, lost>>

\* setfaclChattrRestore().  It fails without the directory; every error is
\* retried.
SetfaclChattr(w) ==
    /\ At("stad", w, "SetfaclChattr")
    /\ IF dir[w].in = "none"
       THEN Retry("stad", w) /\ UNCHANGED dir
       ELSE /\ dir' = [dir EXCEPT ![w].in =
                         IF @ \in Data THEN "immutable" ELSE @]
            /\ Next1("stad", w)
    /\ UNCHANGED <<aggregates, host, tar, flow, lost>>

\* ArchiveRepo() and UnarchiveRepo(): the files are moved to trash, unless
\* trash exists, which is how they handle a restart.  Without files at the path
\* of the repo, the rename fails (SwapFails).
SwapOut(w) ==
    /\ At("stad", w, "SwapOut")
    /\ IF dir[w].trash = "none"
       THEN /\ host # "none"
            /\ dir' = [dir EXCEPT ![w].trash = host]
            /\ host' = "none"
       ELSE UNCHANGED <<dir, host>>
    /\ Next1("stad", w)
    /\ UNCHANGED <<aggregates, tar, flow, lost>>

\* And the placeholder or the restored files are moved in, unless the path of
\* the repo exists.  What follows the rename may fail, too.
SwapIn(w) ==
    /\ At("stad", w, "SwapIn")
    /\ IF host = "none"
       THEN /\ dir[w].in # "none"
            /\ host' = dir[w].in
            /\ dir' = [dir EXCEPT ![w].in = "none"]
       ELSE UNCHANGED <<dir, host>>
    /\ \/ OpOf[w] = "archive" /\ Next1("stad", w)
       \/ OpOf[w] = "unarchive" /\ Succeeded("stad", w)
       \/ StadFailed(w)
    /\ UNCHANGED <<aggregates, tar, flow, lost>>

\* git-fso archive: a commit to master-archive.
ShadowArchive(w) ==
    /\ At("stad", w, "ShadowArchive")
    /\ Succeeded("stad", w)
    /\ UNCHANGED <<aggregates, disk, flow, lost>>

SwapFails(w) ==
    /\ \E step \in {"SwapOut", "SwapIn", "ShadowArchive"} : At("stad", w, step)
    /\ StadFailed(w)
    /\ UNCHANGED <<aggregates, disk, flow, lost>>

\* doGcThenQuit(), after the delay: the directory that BeginSwap or BeginTartt
\* has recorded is removed.
RemoveWorkingDir(w) ==
    /\ At("stad", w, "RemoveWorkingDir")
    /\ dir' = IF \E i \in DOMAIN hist[w] :
                     hist[w][i].ev[1] \in {"SwapStarted", "TarttStarted"}
              THEN [dir EXCEPT ![w] = NoDir] ELSE dir
    /\ Next1("stad", w)
    /\ UNCHANGED <<aggregates, host, tar, flow, lost>>

\* tarttRestore(), by nogfsorstd.  The tool refuses a directory that is not
\* empty.
TarttRestore(w) ==
    LET a == act["rstd"][w]
    IN  /\ At("rstd", w, "TarttRestore")
        /\ \/ /\ dir[w].in = "empty"
              /\ dir' = [dir EXCEPT ![w].in =
                           IF wtar[w] = "data" THEN "writable" ELSE wtar[w]]
              /\ Succeeded("rstd", w)
           \/ /\ \E d \in {dir[w].in} \cup
                          {"partial" : x \in {dir[w].in} \cap {"empty"}} :
                    dir' = [dir EXCEPT ![w].in = d]
              /\ act' = [act EXCEPT !["rstd"][w] =
                           IF a.n < MaxRetries THEN [Idle EXCEPT !.n = a.n + 1]
                           ELSE [a EXCEPT !.todo =
                                   UnarchiveRepoRstdRestore.abort]]
        /\ UNCHANGED <<aggregates, host, tar, flow, lost>>

-----------------------------------------------------------------------------
(***************************************************************************)
(* The environment: nogfsotard archives the files, an error is stored on   *)
(* the repo by nogfsostad, and it is cleared by an administrator.          *)
(***************************************************************************)

\* A full archive of frozen data when master-stat has changed; and of whatever
\* is there when another branch, for example master-archive, has changed and
\* master-stat is old enough.
Nogfsotard ==
    /\ host \in {"immutable", "placeholder"}
    /\ IF host = "immutable" THEN tar = "none" ELSE tar # "placeholder"
    /\ tar' = IF host = "immutable" THEN "data" ELSE "placeholder"
    /\ UNCHANGED <<aggregates, host, dir, flow, act, lost>>

SetRepoError ==
    /\ ~repo.error
    /\ lost < MaxLost
    /\ lost' = lost + 1
    /\ SetRepo([repo EXCEPT !.error = TRUE])
    /\ UNCHANGED <<registry, disk, flow, act>>

ClearRepoError ==
    /\ repo.error
    /\ SetRepo([repo EXCEPT !.error = FALSE])
    /\ UNCHANGED <<registry, disk, flow, act, lost>>

RegdCommands == {"BeginFiles", "EndFiles", "Commit", "Abort", "End"}
StadCommands ==
    {"CommitTartt", "BeginSwap", "BeginTartt", "CommitFiles", "AbortFiles",
     "CommitGc"}
RstdCommands == {"CommitTartt", "AbortTartt"}

RegdStep(w) ==
    \/ ProcessView("regd", w)
    \/ RegistryBegin(w) \/ ReposBegin(w)
    \/ ReposCommit(w) \/ RegistryCommit(w)
    \/ ReposAbort(w) \/ RegistryAbort(w)
    \/ IndexCommit(w)
    \/ WfCommand("regd", w, RegdCommands)

StadStep(w) ==
    \/ ProcessView("stad", w)
    \/ ChattrBegin(w) \/ ChattrEnd(w)
    \/ PollTartt(w) \/ MakePlaceholder(w) \/ MakeRestore(w)
    \/ SetfaclChattr(w)
    \/ SwapOut(w) \/ SwapIn(w) \/ ShadowArchive(w) \/ SwapFails(w)
    \/ RemoveWorkingDir(w)
    \/ WfCommand("stad", w, StadCommands)

RstdStep(w) ==
    \/ OpOf[w] = "unarchive" /\ ProcessView("rstd", w)
    \/ TarttRestore(w)
    \/ WfCommand("rstd", w, RstdCommands)

Next ==
    \/ \E w \in Workflows :
          \/ BeginRepo(w) \/ BeginIndex(w) \/ BeginLost(w)
          \/ RegdStep(w) \/ StadStep(w) \/ RstdStep(w)
          \/ \E r \in RolesOf(w) : Fails(r, w)
    \/ \E r \in Roles : Restarts(r)
    \/ Nogfsotard \/ SetRepoError \/ ClearRepoError

Spec == Init /\ [][Next]_vars

\* Activities are retried for ever, so they take their steps eventually; the
\* server call that starts a workflow ends, before its activity starts; and
\* nogfsotard runs regularly.
Fairness ==
    /\ \A w \in Workflows :
          /\ WF_vars(BeginIndex(w) \/ RegdStep(w))
          /\ WF_vars(StadStep(w))
    /\ \A w \in {x \in Workflows : OpOf[x] = "unarchive"} :
          WF_vars(RstdStep(w))
    /\ WF_vars(Nogfsotard)

FairSpec == Spec /\ Fairness

-----------------------------------------------------------------------------
(***************************************************************************)
(* Properties.                                                             *)
(***************************************************************************)

Tiers ==
    {"online", "freezing", "freezeFailed", "frozen", "unfreezing",
     "unfreezeFailed", "archiving", "archiveFailed", "archived", "unarchiving",
     "unarchiveFailed"}

Codes ==
    {"Initialized", "Files", "Tartt", "TarttCompleted", "TarttFailed",
     "SwapStarted", "FilesCompleted", "FilesFailed", "FilesEnded",
     "GcCompleted", "Completed", "Failed", "Terminated"}

AllSteps ==
    RegdCommands \cup StadCommands \cup RstdCommands \cup
    {"quit", "RegistryBegin", "ReposBegin", "ReposCommit", "RegistryCommit",
     "ReposAbort", "RegistryAbort", "IndexCommit", "ChattrBegin", "ChattrEnd",
     "PollTartt", "MakePlaceholder", "MakeRestore", "SetfaclChattr", "SwapOut",
     "SwapIn", "ShadowArchive", "RemoveWorkingDir", "TarttRestore"}

Archives == {"none", "data", "placeholder"}

\* Every variable has its type.
TypeOK ==
    /\ registry \in [tier: Tiers, wf: Workflows \cup {NoWorkflow}]
    /\ repo \in [tier: Tiers, wf: Workflows \cup {NoWorkflow}, error: BOOLEAN,
                 tar: Archives]
    /\ host \in Trees
    /\ dir \in [Workflows -> [in: Trees, trash: Trees]]
    /\ tar \in Archives
    /\ \A w \in Workflows :
          /\ Len(hist[w]) <= 9
          /\ \A i \in DOMAIN hist[w] :
                /\ hist[w][i].ev \in ParsePbWorkflowEvent[OpOf[w]]
                /\ hist[w][i].st \in Codes \X BOOLEAN
                /\ hist[w][i].view \in [RolesOf(w) -> Codes \X BOOLEAN]
    /\ wtar \in [Workflows -> Archives]
    /\ vid \in [Workflows -> {"none", "fresh", "stale"}]
    /\ index \in [Workflows -> {"none", "active", "completed", "orphan"}]
    /\ \A r \in Roles, w \in Workflows :
          /\ act[r][w].pos \in 0..Len(hist[w])
          /\ act[r][w].at \in 0..Len(hist[w])
          /\ act[r][w].n \in 0..MaxRetries
          /\ \A i \in DOMAIN act[r][w].todo : act[r][w].todo[i] \in AllSteps
    /\ lost \in 0..MaxLost

\* The states in which nogfsostad and nogfsorstd work on the files.
WorksOnFiles(w) == Code(w) \in {"Files", "Tartt", "TarttCompleted", "SwapStarted"}

\* The files of a repo are changed for one workflow at a time, however many
\* have been started, and only while registry and repo say so.
FilesHaveOneOwner ==
    /\ Cardinality({w \in Workflows : WorksOnFiles(w)}) <= 1
    /\ \A w \in Workflows :
          WorksOnFiles(w) => /\ registry = [tier |-> RegOp(w).doing, wf |-> w]
                             /\ repo.tier = RepoOp(w).doing
                             /\ repo.wf = w

\* nogfsotard also archives a placeholder, and an archive workflow takes the
\* latest archive for one of the data.
PlaceholderAccepted == \E w \in Workflows : wtar[w] = "placeholder"

\* The tier in the registry is a promise about the storage host: an online
\* repo can be written, a frozen one cannot, and an archived one has been
\* replaced by a placeholder, also if the swap was interrupted and repeated.
\* It is kept until a placeholder is restored for the data.
FilesMatchTier ==
    registry.tier \in {"online", "frozen", "archived"} =>
        host = HostOf(registry.tier) \/ PlaceholderAccepted

\* A client that waits for a workflow and is told that it succeeded finds the
\* target tier in both aggregates, unless another workflow has begun.  The
\* success of an archive is reported before the workflow has completed.
ReportedMeansApplied ==
    \A w \in Workflows :
        Get(w) = "ok" =>
            /\ registry.wf = w => registry.tier = RegOp(w).done
            /\ repo.wf = w => repo.tier = RepoOp(w).done

\* The comment of doAbortThenQuit(): it cleans up all aggregates that may have
\* pending operations.  Nothing is pending for a workflow that is reported to
\* have failed, also if the answer to a begin was lost and whatever was retried.
FailedMeansNothingPending ==
    \A w \in Workflows :
        Get(w) = "failed" =>
            /\ registry.wf = w => registry.tier # RegOp(w).doing
            /\ repo.wf = w => repo.tier # RepoOp(w).doing

\* The tier from which an operation that failed may be tried again.
Settled(t) ==
    CASE t = "freezeFailed" -> "online"
      [] t \in {"unfreezeFailed", "archiveFailed"} -> "frozen"
      [] t = "unarchiveFailed" -> "archived"
      [] OTHER -> t

Finished(w) == Code(w) \in {"Completed", "Failed", "Terminated"}

\* When no workflow is running, registry and repo agree on the tier, although
\* they are changed one after the other and either may be left behind.
AggregatesAgree ==
    (\A w \in Workflows : index[w] = "active" => Finished(w)) =>
        Settled(registry.tier) = Settled(repo.tier)

\* The data are at the path of the repo, in a working directory, in the latest
\* archive, or in the one that an archived repo or the archive workflow that
\* has worked on the repo last refers to.
DataExists ==
    \/ host \in Data
    \/ \E w \in Workflows : {dir[w].in, dir[w].trash} \cap Data # {}
    \/ tar = "data"
    \/ repo.tar = "data" /\ repo.tier \in {"archived", "unarchiving", "unarchiveFailed"}
    \/ \E w \in Workflows : OpOf[w] = "archive" /\ repo.wf = w /\ wtar[w] = "data"

\* An archive that failed has left a placeholder, nogfsotard has archived it,
\* and the next archive workflow is about to take that for the data.
PlaceholderPending ==
    /\ tar = "placeholder"
    /\ repo.tier \in {"archiving", "archiveFailed"}
    /\ wtar[repo.wf] = "none"

\* The data of the repo are not lost, at whatever step an archive or an
\* unarchive fails, is repeated or is aborted, unless the archive that replaces
\* them is one of the placeholder; and what a workflow has moved out of the way
\* is kept until registry and repo have recorded how it ended.
DataIsKept ==
    [][/\ DataExists' \/ PlaceholderAccepted' \/ PlaceholderPending'
       /\ \A w \in Workflows :
             dir[w].trash # "none" /\ dir'[w].trash = "none" =>
                 /\ registry # [tier |-> RegOp(w).doing, wf |-> w]
                 /\ ~(repo.tier = RepoOp(w).doing /\ repo.wf = w)
      ]_vars

\* Nobody will take the next step of workflow `w': a commit is refused for
\* ever; the directory of restored files has been moved before the commit was
\* stored; or a begin gives a version that is stale.
Stuck(w) ==
    \/ /\ Code(w) = "FilesCompleted"
       /\ ~(MayCommit(repo, RepoOp(w), w) /\ MayCommit(registry, RegOp(w), w))
    \/ /\ OpOf[w] = "unarchive"
       /\ Code(w) = "TarttCompleted"
       /\ dir[w].in = "none"
    \/ /\ OpOf[w] = "archive"
       /\ Code(w) = "Initialized"
       /\ vid[w] = "stale"

\* Every workflow that has been started finishes, whatever is lost or restarted
\* on the way, unless it waits for a stored error of the repo to be cleared or
\* is stuck in one of the ways above: it is never active for ever in any other
\* state, and its entry in the index becomes inactive only after it finished.
FinishOrStuck ==
    \A w \in Workflows :
        []<>(index[w] = "active" => Finished(w) \/ repo.error \/ Stuck(w))

=============================================================================
