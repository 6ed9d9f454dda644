--------------------------- MODULE RepoAggregates ---------------------------
(***************************************************************************)
(* The aggregates that take part when a repo is created or moved: the      *)
(* registry, the repos, and the move-repo and move-shadow workflows.  For  *)
(* each of them the events, how an event advances the state, and which     *)
(* command is accepted in which state.  An event that is replicated to     *)
(* another history carries, in `at', its position in the history that it   *)
(* comes from.                                                             *)
(***************************************************************************)
EXTENDS Integers, Sequences, FiniteSets, SequencesExt

CONSTANTS Repos, MoveIds, ShadowIds, \* the ids of repos and workflows
          Paths, RootOf,             \* global paths, and the root of each
          NewShadow,                 \* where a move-shadow workflow moves to
          None

Registry == "registry"
Roots == {RootOf[p] : p \in Paths}
Workflows == MoveIds \cup ShadowIds
Entities == {Registry} \cup Repos \cup Workflows

\* The result of a command: an error, or the events to commit.
Refused(err) == [err |-> err, evs |-> <<>>]
Idempotent == [err |-> "nil", evs |-> <<>>]
Post(ev) == [err |-> "nil", evs |-> <<ev>>]
Accepts(t) == t.err = "nil"

-----------------------------------------------------------------------------
(***************************************************************************)
(* The registry.                                                           *)
(***************************************************************************)

EvRootRemoved(root) == [ev |-> "RootRemoved", root |-> root]
EvRepoAccepted(r, p) == [ev |-> "RepoAccepted", repo |-> r, path |-> p]
EvRepoAdded(r, p, at) ==
    [ev |-> "RepoAdded", repo |-> r, path |-> p, at |-> at]
EvShadowPosted(r, w, at) ==
    [ev |-> "ShadowRepoMoveStarted", repo |-> r, wf |-> w, at |-> at]
EvRepoMoveAccepted(r, w, p) ==
    [ev |-> "RepoMoveAccepted", repo |-> r, wf |-> w, path |-> p]
EvRepoMovedTo(r, w, p, at) ==
    [ev |-> "RepoMoved", repo |-> r, wf |-> w, path |-> p, at |-> at]
EvRepoEnableGitlabAccepted(r) ==
    [ev |-> "RepoEnableGitlabAccepted", repo |-> r]

\* What the registry knows of a repo; `posted' is lastRepoEventId.
UnknownRepo ==
    [path |-> None, confirmed |-> FALSE, wf |-> None, newPath |-> None,
     posted |-> 0, gitlab |-> FALSE]

NewRegistry ==
    [roots |-> Roots, byName |-> [p \in Paths |-> None],
     repos |-> [r \in Repos |-> UnknownRepo]]

HasActiveMove(inf) == inf.wf # None /\ inf.newPath # None

\* Both maps of repos get the changed info.
SetRepoInfo(s, r, inf) ==
    [s EXCEPT !.repos[r] = inf, !.byName[inf.path] = r]

AdvanceRegistry(s, e) ==
    LET set(inf) == SetRepoInfo(s, e.repo, inf)
    IN CASE e.ev = "RootRemoved" -> [s EXCEPT !.roots = @ \ {e.root}]
         [] e.ev = "RepoAccepted" -> set([UnknownRepo EXCEPT !.path = e.path])
         [] e.ev = "RepoAdded" ->
              set([s.repos[e.repo] EXCEPT !.confirmed = TRUE])
         [] e.ev = "RepoMoveAccepted" ->
              set([s.repos[e.repo] EXCEPT !.wf = e.wf, !.newPath = e.path])
         [] e.ev = "RepoMoved" ->
              SetRepoInfo([s EXCEPT !.byName[s.repos[e.repo].path] = None],
                          e.repo,
                          [s.repos[e.repo] EXCEPT !.path = e.path,
                                                  !.newPath = None])
         [] e.ev = "ShadowRepoMoveStarted" ->
              set([s.repos[e.repo] EXCEPT !.posted = e.at])
         [] e.ev = "RepoEnableGitlabAccepted" ->
              set([s.repos[e.repo] EXCEPT !.gitlab = TRUE])

\* No check for repos below the root.
TellRemoveRoot(s, root) ==
    IF root \in s.roots THEN Post(EvRootRemoved(root))
                        ELSE Refused("ErrUnknownRoot")

TellInitRepo(s, r, p) ==
    IF s.byName[p] # None THEN Refused("ErrConflictRepoInit")
    ELSE IF RootOf[p] \notin s.roots THEN Refused("ErrUnknownRoot")
    ELSE Post(EvRepoAccepted(r, p))

TellEnableGitlabRepo(s, r) ==
    IF s.repos[r].path = None THEN Refused("ErrUnknownRepo")
    ELSE IF s.repos[r].gitlab THEN Idempotent
    ELSE Post(EvRepoEnableGitlabAccepted(r))

TellConfirmRepo(s, r, at) ==
    IF s.repos[r].path = None THEN Refused("ErrUnknownRepo")
    ELSE IF s.repos[r].confirmed THEN Idempotent
    ELSE Post(EvRepoAdded(r, s.repos[r].path, at))

\* The new path is not reserved while the move is active.  A move of the shadow
\* repo alone is to the path that the repo has, which `unchanged' confirms.
TellBeginMoveRepo(s, r, w, p, unchanged) ==
    LET inf == s.repos[r]
    IN IF ~inf.confirmed THEN Refused("ErrCannotMoveUnconfirmed")
       ELSE IF HasActiveMove(inf) THEN Refused("ErrConflictWorkflow")
       ELSE IF w = inf.wf THEN Refused("ErrWorkflowReuse")
       ELSE IF unchanged /\ p # inf.path THEN Refused("ErrPathChanged")
       ELSE IF ~unchanged /\ p = inf.path THEN Refused("ErrPathUnchanged")
       ELSE IF ~unchanged /\ s.byName[p] # None
            THEN Refused("ErrConflictRepoInit")
       ELSE IF RootOf[p] \notin s.roots THEN Refused("ErrUnknownRoot")
       ELSE Post(EvRepoMoveAccepted(r, w, p))

\* Not idempotent: a second commit is an error.
TellCommitMoveRepo(s, r, w, p, at) ==
    LET inf == s.repos[r]
    IN IF w # inf.wf THEN Refused("ErrConflictWorkflow")
       ELSE IF ~HasActiveMove(inf) THEN Refused("ErrWorkflowTerminated")
       ELSE IF p # inf.newPath THEN Refused("ErrMismatchGlobalPath")
       ELSE Post(EvRepoMovedTo(r, w, p, at))

TellPostShadowRepoMoveStarted(s, r, w, at) ==
    IF s.repos[r].path = None THEN Refused("ErrUnknownRepo")
    ELSE IF at = s.repos[r].posted THEN Refused("ErrRepeatedPost")
    ELSE Post(EvShadowPosted(r, w, at))

-----------------------------------------------------------------------------
(***************************************************************************)
(* A repo.  `gitlab' is set with the location, `git' with the project.     *)
(***************************************************************************)

EvRepoInitStarted(p) == [ev |-> "RepoInitStarted", path |-> p]
EvShadowRepoCreated(p) == [ev |-> "ShadowRepoCreated", shadow |-> p]
EvShadowRepoMoveStarted(w) == [ev |-> "ShadowRepoMoveStarted", wf |-> w]
EvShadowRepoMoved(w) == [ev |-> "ShadowRepoMoved", wf |-> w]
EvRepoMoveStarted(w, p) ==
    [ev |-> "RepoMoveStarted", wf |-> w, path |-> p]
EvRepoMoved(w, p, shadow) ==
    [ev |-> "RepoMoved", wf |-> w, path |-> p, shadow |-> shadow]
EvGitRepoCreated == [ev |-> "GitRepoCreated"]
EvEnableGitlabAccepted == [ev |-> "EnableGitlabAccepted"]
EvRepoErrorSet == [ev |-> "RepoErrorSet"]
EvRepoErrorCleared == [ev |-> "RepoErrorCleared"]

NewRepo ==
    [path |-> None, shadow |-> None, wf |-> None, newPath |-> None,
     swf |-> None, newShadow |-> None, gitlab |-> FALSE, git |-> FALSE,
     error |-> FALSE]

HasActiveMoveRepo(s) == s.wf # None /\ s.newPath # None
HasActiveMoveShadow(s) == s.swf # None /\ s.newShadow # None

AdvanceRepo(s, e) ==
    CASE e.ev = "RepoInitStarted" -> [s EXCEPT !.path = e.path]
      [] e.ev = "ShadowRepoCreated" -> [s EXCEPT !.shadow = e.shadow]
      [] e.ev = "RepoMoveStarted" ->
           [s EXCEPT !.wf = e.wf, !.newPath = e.path]
      [] e.ev = "RepoMoved" ->
           [s EXCEPT !.path = e.path, !.shadow = e.shadow, !.newPath = None]
      [] e.ev = "ShadowRepoMoveStarted" ->
           [s EXCEPT !.swf = e.wf, !.newShadow = NewShadow]
      [] e.ev = "ShadowRepoMoved" ->
           [s EXCEPT !.shadow = s.newShadow, !.newShadow = None]
      [] e.ev = "EnableGitlabAccepted" -> [s EXCEPT !.gitlab = TRUE]
      [] e.ev = "GitRepoCreated" -> [s EXCEPT !.git = TRUE]
      [] e.ev = "RepoErrorSet" -> [s EXCEPT !.error = TRUE]
      [] e.ev = "RepoErrorCleared" -> [s EXCEPT !.error = FALSE]

TellInit(s, p) ==
    IF s.path = None THEN Post(EvRepoInitStarted(p))
    ELSE IF s.path = p THEN Idempotent
    ELSE Refused("ErrInitConflict")

TellConfirmShadow(s, shadow) ==
    IF s.path = None THEN Refused("ErrUninitialized")
    ELSE IF s.shadow = None THEN Post(EvShadowRepoCreated(shadow))
    ELSE IF s.shadow = shadow THEN Idempotent
    ELSE Refused("ErrInitConflict")

TellBeginMove(s, w, p) ==
    IF s.shadow = None THEN Refused("ErrMissingShadow")
    ELSE IF HasActiveMoveRepo(s)
         THEN Refused(IF w = s.wf THEN "ErrWorkflowActive"
                                  ELSE "ErrConflictWorkflow")
    ELSE IF w = s.wf THEN Refused("ErrWorkflowReuse")
    ELSE Post(EvRepoMoveStarted(w, p))

TellCommitMove(s, w, p, shadow) ==
    IF w # s.wf THEN Refused("ErrConflictWorkflow")
    ELSE IF ~HasActiveMoveRepo(s) THEN Idempotent
    ELSE Post(EvRepoMoved(w, p, shadow))

TellBeginMoveShadow(s, w) ==
    IF s.shadow = None THEN Refused("ErrMissingShadow")
    ELSE IF HasActiveMoveShadow(s)
         THEN IF w = s.swf THEN Idempotent ELSE Refused("ErrConflictWorkflow")
    ELSE IF w = s.swf THEN Refused("ErrWorkflowReuse")
    ELSE IF NewShadow = s.shadow THEN Refused("ErrShadowPathUnchanged")
    ELSE Post(EvShadowRepoMoveStarted(w))

TellCommitMoveShadow(s, w) ==
    IF w # s.swf THEN Refused("ErrConflictWorkflow")
    ELSE IF ~HasActiveMoveShadow(s) THEN Idempotent
    ELSE Post(EvShadowRepoMoved(w))

TellConfirmGit(s) ==
    IF s.path = None THEN Refused("ErrUninitialized")
    ELSE IF s.git THEN Idempotent
    ELSE Post(EvGitRepoCreated)

TellEnableGitlab(s) ==
    IF s.path = None THEN Refused("ErrUninitialized")
    ELSE IF s.gitlab THEN Idempotent
    ELSE Post(EvEnableGitlabAccepted)

\* Messages carry the time: a second error never equals the stored one.
TellSetRepoError(s) ==
    IF s.path = None THEN Refused("ErrUninitialized")
    ELSE IF s.error THEN Refused("ErrCommandConflict")
    ELSE Post(EvRepoErrorSet)

TellClearRepoError(s) ==
    IF s.error THEN Post(EvRepoErrorCleared)
               ELSE Refused("ErrClearMessageMismatch")

-----------------------------------------------------------------------------
(***************************************************************************)
(* The move-repo workflow: the events it has seen, and its repo.           *)
(***************************************************************************)

EvWfMoveStarted(r, p, at) ==
    [ev |-> "MoveStarted", repo |-> r, path |-> p, at |-> at]
EvWfStaReleased == [ev |-> "StaReleased"]
EvWfAppAccepted == [ev |-> "AppAccepted"]
EvWfMoved(r, p) == [ev |-> "Moved", repo |-> r, path |-> p]
EvWfCommitted == [ev |-> "Committed"]

NewWorkflow == [repo |-> None, path |-> None, at |-> 0, seen |-> {}]

Seen(s, type) == type \in s.seen

AdvanceMoveRepo(s, e) ==
    [(IF e.ev = "MoveStarted"
      THEN [s EXCEPT !.repo = e.repo, !.path = e.path, !.at = e.at] ELSE s)
     EXCEPT !.seen = @ \cup {e.ev}]

TellMoveInit(s, r, p, at) ==
    IF Seen(s, "StaReleased") \/ Seen(s, "AppAccepted")
    THEN Refused("ErrConflictStateAdvanced")
    ELSE IF s.repo = None THEN Post(EvWfMoveStarted(r, p, at))
    ELSE IF s.repo = r /\ s.at = at THEN Idempotent
    ELSE Refused("ErrConflictInit")

\* PostStadReleased and PostAppAccepted.
TellMovePost(s, ev) ==
    IF Seen(s, "Moved") THEN Refused("ErrMoved")
    ELSE IF Seen(s, ev.ev) THEN Idempotent
    ELSE IF s.repo = None THEN Refused("ErrUninitialized")
    ELSE Post(ev)

TellMoveCommit(s) ==
    IF Seen(s, "Committed") THEN Refused("ErrTerminated")
    ELSE IF Seen(s, "Moved") THEN Idempotent
    ELSE IF s.repo = None THEN Refused("ErrUninitialized")
    ELSE IF ~Seen(s, "StaReleased") \/ ~Seen(s, "AppAccepted")
         THEN Refused("ErrStaActive")
    ELSE Post(EvWfMoved(s.repo, s.path))

TellMoveExit(s) ==
    IF Seen(s, "Committed") THEN Idempotent
    ELSE IF s.repo = None THEN Refused("ErrUninitialized")
    ELSE IF ~Seen(s, "Moved") THEN Refused("ErrNotMoved")
    ELSE Post(EvWfCommitted)

(***************************************************************************)
(* The move-shadow workflow.                                               *)
(***************************************************************************)

EvWfShadowMoveStarted(r, at) ==
    [ev |-> "ShadowMoveStarted", repo |-> r, at |-> at]
EvWfShadowMoved(r) == [ev |-> "ShadowMoved", repo |-> r]
EvWfStaDisabled == [ev |-> "StaDisabled"]
EvWfShadowCommitted == [ev |-> "ShadowCommitted"]

AdvanceMoveShadow(s, e) ==
    [(IF e.ev = "ShadowMoveStarted"
      THEN [s EXCEPT !.repo = e.repo, !.at = e.at] ELSE s)
     EXCEPT !.seen = @ \cup {e.ev}]

\* Unlike for a move-repo workflow, the caller does not ignore this conflict.
TellShadowInit(s, r, at) ==
    IF Seen(s, "StaDisabled") THEN Refused("ErrConflict")
    ELSE IF s.repo = None THEN Post(EvWfShadowMoveStarted(r, at))
    ELSE IF s.repo = r /\ s.at = at THEN Idempotent
    ELSE Refused("ErrConflictInit")

TellShadowPostStadDisabled(s) ==
    IF Seen(s, "ShadowMoved") THEN Refused("ErrMoved")
    ELSE IF Seen(s, "StaDisabled") THEN Idempotent
    ELSE IF s.repo = None THEN Refused("ErrUninitialized")
    ELSE Post(EvWfStaDisabled)

TellShadowCommit(s) ==
    IF Seen(s, "ShadowCommitted") THEN Refused("ErrTerminated")
    ELSE IF Seen(s, "ShadowMoved") THEN Idempotent
    ELSE IF s.repo = None THEN Refused("ErrUninitialized")
    ELSE IF ~Seen(s, "StaDisabled") THEN Refused("ErrStaActive")
    ELSE Post(EvWfShadowMoved(s.repo))

TellShadowExit(s) ==
    IF Seen(s, "ShadowCommitted") THEN Idempotent
    ELSE IF s.repo = None THEN Refused("ErrUninitialized")
    ELSE IF ~Seen(s, "ShadowMoved") THEN Refused("ErrNotMoved")
    ELSE Post(EvWfShadowCommitted)

-----------------------------------------------------------------------------
\* The state of entity `x' after event `e'.
Advance(x, s, e) ==
    CASE x = Registry -> AdvanceRegistry(s, e)
      [] x \in Repos -> AdvanceRepo(s, e)
      [] x \in MoveIds -> AdvanceMoveRepo(s, e)
      [] x \in ShadowIds -> AdvanceMoveShadow(s, e)

NewState(x) ==
    CASE x = Registry -> NewRegistry
      [] x \in Repos -> NewRepo
      [] x \in Workflows -> NewWorkflow
=============================================================================
