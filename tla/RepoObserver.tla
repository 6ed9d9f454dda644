---------------------------- MODULE RepoObserver ----------------------------
(***************************************************************************)
(* The observers of the storage daemons, nogfsostad, composed with the     *)
(* histories and processors of nogfsoregd.                                 *)
(*                                                                         *)
(* An observer reads the registry and starts an activity for each repo     *)
(* below its prefixes, and one more that acquires a repo that moves there. *)
(* The activities for a repo form a chain: one has no side effects before  *)
(* the one ahead of it has quit.  An activity reads the repo's history,    *)
(* inits the shadow and the GitLab project, enables the repo, and runs the *)
(* part of the storage daemon in the move workflows.                       *)
(***************************************************************************)
EXTENDS RepoPipeline

CONSTANTS Stads, Prefix   \* the storage daemons, and the paths of each

VARIABLES ob,        \* the observer of each storage daemon
          enabled    \* the path at which it serves a repo, or None

regd == <<log, st, ri, rp, requests, faults>>
vars == <<regd, ob, enabled>>

NewObserver == [tail |-> -1, acts |-> <<>>]
NothingEnabled == [r \in Repos |-> None]

\* What an activity is about to do, and for which workflow.
Do(what, w) == [do |-> what, wf |-> w, initShadow |-> FALSE, gitlab |-> FALSE]
Watch == Do("watch", None)
Load == Do("load", None)
DoInit(initShadow, gitlab) ==
    [do |-> "init", wf |-> None, initShadow |-> initShadow, gitlab |-> gitlab]

NewActivity(r, w) ==
    [repo |-> r, acquire |-> w, pos |-> 0, op |-> Load, done |-> FALSE,
     hasError |-> FALSE, pendingInitShadow |-> FALSE, pendingGitlab |-> FALSE,
     skipped |-> FALSE]

-----------------------------------------------------------------------------
(***************************************************************************)
(* The registry observer.                                                  *)
(***************************************************************************)

\* Loading the registry gives the repos that are below a prefix, and the
\* moves that end below a prefix.  A repo that is only known from a move has
\* no id in the view, so that neither of its activities ever works.
LoadedActivities(s, r) ==
    LET acquires == HasActiveMove(Reg(r)) /\ Reg(r).newPath \in Prefix[s]
    IN IF Reg(r).confirmed /\ Reg(r).path \in Prefix[s]
       THEN <<NewActivity(r, None)>>
            \o (IF acquires THEN <<NewActivity(r, Reg(r).wf)>> ELSE <<>>)
       ELSE <<>>

LoadedObserver(s) ==
    [tail |-> Len(log[Registry]),
     acts |-> FlattenSeq([i \in 1..Cardinality(Repos) |->
                LoadedActivities(s, SetToSeq(Repos)[i])])]

ObLoad(s) ==
    /\ ob[s].tail = -1
    /\ ob' = [ob EXCEPT ![s] = LoadedObserver(s)]
    /\ UNCHANGED <<regd, enabled>>

ObWatch(s) ==
    LET k == NextOf(Registry, ob[s].tail, LAMBDA i :
                /\ log[Registry][i].ev \in {"RepoAdded", "RepoMoveAccepted"}
                /\ log[Registry][i].path \in Prefix[s])
    IN /\ ob[s].tail >= 0 /\ k # None
       /\ LET e == log[Registry][k]
              w == IF e.ev = "RepoAdded" THEN None ELSE e.wf
          IN ob' = [ob EXCEPT ![s] =
                      [tail |-> k, acts |-> Append(@.acts, NewActivity(e.repo, w))]]
       /\ UNCHANGED <<regd, enabled>>

-----------------------------------------------------------------------------
(***************************************************************************)
(* Which operation an activity derives from the events of its repo.        *)
(***************************************************************************)

\* processView(): what to do after the load of the whole history.
ViewOp(a, v) ==
    LET initShadow == v.path # None /\ v.shadow = None
        gitlab == v.gitlab /\ ~v.git
    IN CASE a.acquire # None ->
              IF HasActiveMoveRepo(v) /\ v.wf = a.acquire
              THEN Do("acquire", a.acquire) ELSE Watch
         [] a.acquire = None /\ HasActiveMoveRepo(v) -> Do("release", v.wf)
         [] OTHER ->
              IF HasActiveMoveShadow(v) THEN Do("disable", v.swf)
              ELSE IF v.error
                   THEN IF v.shadow # None THEN Do("enable", None) ELSE Watch
              ELSE IF initShadow \/ gitlab THEN DoInit(initShadow, gitlab)
              ELSE IF v.shadow = None THEN Watch
              ELSE Do("enable", None)

\* Pending inits are kept for later if they are tried or there is an error.
\* An activity that runs a move first does not come back to what else it has
\* loaded, and one that acquires does not serve the repo if it has loaded the
\* end of the move: `skipped', which has no counterpart in the code, says so.
ActLoaded(a) ==
    LET v == st[a.repo]
        op == ViewOp(a, v)
        keeps == a.acquire = None /\ ~HasActiveMoveRepo(v)
                 /\ ~HasActiveMoveShadow(v)
        gitlab == v.gitlab /\ ~v.git
    IN [a EXCEPT !.pos = Len(log[a.repo]), !.op = op, !.hasError = v.error,
                 !.pendingInitShadow = keeps /\ v.shadow = None,
                 !.pendingGitlab = keeps /\ gitlab,
                 !.skipped = \/ ~keeps /\ gitlab
                             \/ HasActiveMoveShadow(v) /\ op.do # "disable"
                             \/ v.wf # None /\ v.wf = a.acquire
                                /\ ~HasActiveMoveRepo(v)]

\* watchRepoEvent(): the activity after an event.
ActWatched(a, e) ==
    LET op(o) == [a EXCEPT !.pos = @ + 1, !.op = o]
    IN CASE e.ev = "RepoInitStarted" ->
              IF a.hasError THEN op(Watch)
              ELSE [op(DoInit(TRUE, FALSE)) EXCEPT !.pendingInitShadow = TRUE]
         [] e.ev = "EnableGitlabAccepted" ->
              [op(DoInit(FALSE, TRUE)) EXCEPT !.pendingGitlab = TRUE]
         [] e.ev \in {"ShadowRepoCreated", "GitRepoCreated", "RepoMoved",
                      "ShadowRepoMoved"} -> op(Do("enable", None))
         [] e.ev = "RepoErrorSet" -> [op(Watch) EXCEPT !.hasError = TRUE]
         [] e.ev = "RepoErrorCleared" ->
              [op(DoInit(a.pendingInitShadow, a.pendingGitlab))
               EXCEPT !.hasError = FALSE]
         [] e.ev = "RepoMoveStarted" ->
              op(Do(IF e.wf = a.acquire THEN "acquire" ELSE "release", e.wf))
         [] e.ev = "ShadowRepoMoveStarted" -> op(Do("disable", e.wf))

SetAct(s, i, a) == ob' = [ob EXCEPT ![s].acts[i] = a]

ActLoad(s, i) ==
    LET a == ob[s].acts[i]
    IN /\ a.op = Load
       /\ SetAct(s, i, ActLoaded(a))
       /\ UNCHANGED <<regd, enabled>>

ActWatch(s, i) ==
    LET a == ob[s].acts[i]
    IN /\ a.op = Watch /\ a.pos < Len(log[a.repo])
       /\ SetAct(s, i, ActWatched(a, log[a.repo][a.pos + 1]))
       /\ UNCHANGED <<regd, enabled>>

-----------------------------------------------------------------------------
(***************************************************************************)
(* The operations with side effects, each after depWait().                 *)
(***************************************************************************)

DepDone(s, i) ==
    \A j \in 1..(i - 1) :
        ob[s].acts[j].repo = ob[s].acts[i].repo => ob[s].acts[j].done

Doing(s, i, what) ==
    ~ob[s].acts[i].done /\ ob[s].acts[i].op.do = what /\ DepDone(s, i)

\* A command sent over the network to nogfsoregd.
Tell(x, t) ==
    Accepts(t) /\ Commit(x, t) /\ UNCHANGED <<ri, rp, requests, faults>>

\* After InitRepo() the flags of what it was called for are cleared.
Inited(a) ==
    [a EXCEPT !.op = Watch,
              !.pendingInitShadow = @ /\ ~a.op.initShadow,
              !.pendingGitlab = @ /\ ~a.op.gitlab]

\* InitRepo() begins: the shadow, unless a stored error is found first.
\* EnableGitlab() is the same call.
ActInitRepo(s, i) ==
    LET a == ob[s].acts[i]
        v == st[a.repo]
    IN /\ Doing(s, i, "init")
       /\ IF (~a.op.initShadow /\ ~a.op.gitlab) \/ v.error
          THEN SetAct(s, i, [a EXCEPT !.op = Watch]) /\ UNCHANGED regd
          ELSE /\ IF v.shadow = None
                  THEN Tell(a.repo, TellConfirmShadow(v, v.path))
                  ELSE UNCHANGED regd
               /\ SetAct(s, i, IF v.gitlab /\ ~v.git
                               THEN [a EXCEPT !.op.do = "git"] ELSE Inited(a))
       /\ UNCHANGED enabled

\* The shadow path that InitRepo() knows: of the init, not of a later move.
CreatedShadow(r) ==
    LET e == SelectSeq(log[r], LAMBDA x : x.ev = "ShadowRepoCreated")
    IN e[1].shadow

\* InitRepo() continues: the GitLab project and the first push.
ActInitGit(s, i) ==
    LET a == ob[s].acts[i]
    IN /\ Doing(s, i, "git")
       /\ CreatedShadow(a.repo) = st[a.repo].shadow
       /\ Tell(a.repo, TellConfirmGit(st[a.repo]))
       /\ SetAct(s, i, Inited(a))
       /\ UNCHANGED enabled

\* An init that fails leaves an error on the repo, and its flags pending.
StoreRepoError(s, i) ==
    LET a == ob[s].acts[i]
        t == TellSetRepoError(st[a.repo])
    IN /\ Accepts(t) /\ Commit(a.repo, t)
       /\ SetAct(s, i, [a EXCEPT !.op = Watch])
       /\ UNCHANGED <<ri, rp, requests, enabled>>

\* The push fails for good if the shadow is no longer there.
ActPushFails(s, i) ==
    /\ Doing(s, i, "git")
    /\ CreatedShadow(ob[s].acts[i].repo) # st[ob[s].acts[i].repo].shadow
    /\ StoreRepoError(s, i)
    /\ UNCHANGED faults

ActEnable(s, i) ==
    LET a == ob[s].acts[i]
    IN /\ Doing(s, i, "enable")
       /\ enabled' = [enabled EXCEPT ![s][a.repo] = st[a.repo].path]
       /\ SetAct(s, i, [a EXCEPT !.op = Watch])
       /\ UNCHANGED regd

\* Faulty variant: the repo stays enabled.
ActDisableNothing(s, i) ==
    LET a == ob[s].acts[i]
    IN \E what \in {<<"release", "releasing">>, <<"disable", "disabled">>} :
         /\ Doing(s, i, what[1])
         /\ SetAct(s, i, [a EXCEPT !.op.do = what[2]])
         /\ UNCHANGED <<regd, enabled>>

\* To release a repo or to move its shadow, it is disabled first; then the
\* workflow activity runs.
ActDisable(s, i) ==
    LET a == ob[s].acts[i]
    IN \E what \in {<<"release", "releasing">>, <<"disable", "disabled">>} :
         /\ Doing(s, i, what[1])
         /\ enabled' = [enabled EXCEPT ![s][a.repo] = None]
         /\ SetAct(s, i, [a EXCEPT !.op.do = what[2]])
         /\ UNCHANGED regd

\* The release is posted after the application has accepted; then the
\* activity quits, and the next one in the chain proceeds.
ActRelease(s, i) ==
    LET a == ob[s].acts[i]
        w == a.op.wf
    IN /\ Doing(s, i, "releasing")
       /\ Seen(st[w], "AppAccepted")
       /\ IF Seen(st[w], "StaReleased") THEN UNCHANGED regd
          ELSE Tell(w, TellMovePost(st[w], EvWfStaReleased))
       /\ SetAct(s, i, [a EXCEPT !.done = TRUE])
       /\ UNCHANGED enabled

\* The admin has moved the files; the new location is committed.
ActAcquire(s, i) ==
    LET w == ob[s].acts[i].op.wf
    IN /\ Doing(s, i, "acquire")
       /\ Seen(st[w], "StaReleased") /\ Seen(st[w], "AppAccepted")
       /\ ~Seen(st[w], "Moved")
       /\ Tell(w, TellMoveCommit(st[w]))
       /\ UNCHANGED <<ob, enabled>>

ActPostDisabled(s, i) ==
    LET w == ob[s].acts[i].op.wf
    IN /\ Doing(s, i, "disabled")
       /\ Seen(st[w], "ShadowMoveStarted") /\ ~Seen(st[w], "StaDisabled")
       /\ Tell(w, TellShadowPostStadDisabled(st[w]))
       /\ UNCHANGED <<ob, enabled>>

\* The workflow has terminated: back to the events of the repo.
ActResume(s, i) ==
    LET a == ob[s].acts[i]
    IN /\ \/ Doing(s, i, "acquire") /\ Seen(st[a.op.wf], "Committed")
          \/ Doing(s, i, "disabled") /\ Seen(st[a.op.wf], "ShadowCommitted")
       /\ SetAct(s, i, [a EXCEPT !.op = Watch])
       /\ UNCHANGED <<regd, enabled>>

-----------------------------------------------------------------------------
(***************************************************************************)
(* Faults of a storage daemon.                                             *)
(***************************************************************************)

ActInitFails(s, i) ==
    /\ \E what \in {"init", "git"} : Doing(s, i, what)
    /\ Fault
    /\ StoreRepoError(s, i)

StadRestart(s) ==
    /\ Fault
    /\ ob' = [ob EXCEPT ![s] = NewObserver]
    /\ enabled' = [enabled EXCEPT ![s] = NothingEnabled]
    /\ UNCHANGED <<log, st, ri, rp, requests>>

-----------------------------------------------------------------------------
Activity(s, i) ==
    \/ ActLoad(s, i) \/ ActWatch(s, i)
    \/ ActInitRepo(s, i) \/ ActInitGit(s, i)
    \/ ActPushFails(s, i)
    \/ ActEnable(s, i) \/ ActDisable(s, i)
    \/ ActRelease(s, i) \/ ActAcquire(s, i)
    \/ ActPostDisabled(s, i) \/ ActResume(s, i)

Stad(s) ==
    \/ ObLoad(s) \/ ObWatch(s)
    \/ \E i \in DOMAIN ob[s].acts : Activity(s, i)

Regd == (Repoinit \/ Replicate) /\ UNCHANGED <<ob, enabled>>

Outside == (UserRequests \/ Answers) /\ UNCHANGED <<ob, enabled>>

Faults ==
    \/ RegdFaults /\ UNCHANGED <<ob, enabled>>
    \/ \E s \in Stads : StadRestart(s)
    \/ \E s \in Stads : \E i \in DOMAIN ob[s].acts : ActInitFails(s, i)

\* Repos in `old' exist with their shadow, and their storage daemon has
\* enabled them.  That the daemons start is a case of a restart.
Init ==
    \E old \in SUBSET Repos, p \in HomePaths :
        /\ RegdInit(old, p)
        /\ ob = [s \in Stads |->
                   LET o == LoadedObserver(s)
                   IN [o EXCEPT !.acts = [i \in DOMAIN o.acts |->
                         [o.acts[i] EXCEPT !.pos = Len(log[o.acts[i].repo]), !.op = Watch]]]]
        /\ enabled = [s \in Stads |-> [r \in Repos |->
                        IF r \in old /\ p \in Prefix[s] THEN p ELSE None]]

Next == Outside \/ Regd \/ Faults \/ \E s \in Stads : Stad(s)

\* Processors and activities are scheduled again and again by their engines;
\* the application and the admin answer in the end.
Progress ==
    \/ \E s \in Stads : Stad(s)
    \/ (Repoinit \/ Replicate \/ Answers) /\ UNCHANGED <<ob, enabled>>

Spec == Init /\ [][Next]_vars /\ WF_vars(Progress)

-----------------------------------------------------------------------------
(***************************************************************************)
(* Properties.                                                             *)
(***************************************************************************)

\* What replicate owes for event `k' of history `x'.
Replicated(x, k) ==
    LET e == log[x][k]
        posted(type) == \E i \in DOMAIN log[Registry] :
                          /\ log[Registry][i].ev = type
                          /\ log[Registry][i].repo = x
                          /\ log[Registry][i].at = k
    IN CASE e.ev = "RepoInitStarted" -> posted("RepoAdded")
         [] x \in Repos /\ e.ev = "RepoMoveStarted" ->
              st[e.wf].repo = x \/ e.wf \in rp.missed
         [] x \in Repos /\ e.ev = "RepoMoved" -> posted("RepoMoved")
         [] x \in Repos /\ e.ev = "ShadowRepoMoveStarted" ->
              st[e.wf].repo = x /\ posted("ShadowRepoMoveStarted")
         [] e.ev = "Moved" -> st[e.repo].wf # x \/ ~HasActiveMoveRepo(st[e.repo])
         [] e.ev = "ShadowMoved" ->
              /\ st[e.repo].swf # x \/ ~HasActiveMoveShadow(st[e.repo])
              /\ Seen(st[x], "ShadowCommitted")
         [] x = Registry /\ e.ev = "RepoMoved" -> Seen(st[e.wf], "Committed")
         [] OTHER -> TRUE

(***************************************************************************)
(* Nothing is forgotten: replicate passes an event only after the commands *)
(* it stands for have taken effect.  The tails are kept in memory only,    *)
(* and a restart derives them from the registry: an event that the         *)
(* registry says is replicated must be, also if the processor stopped      *)
(* between two commands.                                                   *)
(***************************************************************************)
ReplicatedBeforeTail ==
    rp.phase = "update" =>
        \A x \in Entities : \A k \in 1..rp.tail[x] : Replicated(x, k)

\* Storage daemon `s' runs the activity of a move that will give it the repo.
Acquires(s, r) ==
    \E i \in DOMAIN ob[s].acts :
        LET a == ob[s].acts[i]
        IN a.repo = r /\ a.acquire # None /\ ~Seen(st[a.acquire], "Committed")

\* Two daemons may have an activity for a repo that has been moved: while the
\* repo is being moved, and afterwards if one was restarted in the move.
TwoActivities(r) ==
    /\ Reg(r).wf # None
    /\ \/ faults > 0
       \/ \E k \in DOMAIN log[r] :
             /\ log[r][k].ev = "ShadowRepoMoveStarted"
             /\ log[r][k].wf = st[r].swf
             /\ \A j \in 1..k :
                   log[r][j].ev = "RepoMoved" => log[r][j].wf # Reg(r).wf

(***************************************************************************)
(* Files do not move under a storage daemon that serves them: after a      *)
(* daemon has released a repo, it does not serve it, until the move has    *)
(* been committed; and nobody serves a repo whose shadow is being moved.   *)
(* An activity that waits to acquire the repo handles all events, though:  *)
(* it may serve the repo early.  And each of two activities may answer for *)
(* the other when the shadow moves.                                        *)
(***************************************************************************)
MovedWhileDisabled ==
    \A r \in Repos, s \in Stads :
        enabled[s][r] # None =>
            /\ HasActiveMoveRepo(st[r]) /\ Seen(st[st[r].wf], "StaReleased")
               => Acquires(s, r)
            /\ HasActiveMoveShadow(st[r]) /\ Seen(st[st[r].swf], "StaDisabled")
               => TwoActivities(r)

\* All that was asked for is done, and the storage daemon of the path serves
\* the repo there.  No other one does, unless it was restarted in a move.
Settled(r) ==
    /\ Reg(r).confirmed /\ ~HasActiveMove(Reg(r))
    /\ ~HasActiveMoveRepo(st[r]) /\ ~HasActiveMoveShadow(st[r])
    /\ \A w \in MoveIds : st[w].repo = r => Seen(st[w], "Committed")
    /\ \A w \in ShadowIds : st[w].repo = r => Seen(st[w], "ShadowCommitted")
    /\ Reg(r).gitlab => st[r].git
    /\ \A s \in Stads :
         IF st[r].path \in Prefix[s] THEN enabled[s][r] = st[r].path
         ELSE faults = 0 => enabled[s][r] = None

\* repoinit waits for good: a repo with GitLab is not initialized when it
\* loads, a root has been removed, or there is no shadow to move.
RepoinitBlocked ==
    \/ \E r \in Repos : Reg(r).gitlab /\ st[r].path = None /\ ri.phase = "load"
    \/ \E k \in RiPending :
         LET e == log[Registry][k]
         IN \/ e.ev # "RepoEnableGitlabAccepted"
               /\ RootOf[e.path] \notin st[Registry].roots
            \/ e.ev = "RepoMoveAccepted" /\ st[e.repo].shadow = None

\* replicate retries a command that is always refused.
ReplicateBlocked ==
    \E x \in Entities :
        LET k == RpNext(x)
        IN k # None /\ Calls(x, k) # <<>> /\ ~Accepts(Calls(x, k)[1].tell)

MoveMissed(r) ==
    HasActiveMoveRepo(st[r]) /\ st[r].wf \in rp.missed /\ st[st[r].wf].repo = None

\* The daemon that gets the repo read of the move when it loaded the registry.
\* This remains so: nobody serves the repo until the daemon restarts again.
AcquireLost(r) ==
    \E s \in Stads : \E k \in 1..ob[s].tail :
        /\ log[Registry][k].ev = "RepoMoveAccepted"
        /\ log[Registry][k].repo = r /\ log[Registry][k].path \in Prefix[s]
        /\ \A i \in DOMAIN ob[s].acts : ob[s].acts[i].acquire = None

\* An activity has loaded more than it has processed; it may never serve the
\* repo.  This remains so until the daemon restarts.
LoadSkipped(r) ==
    \E s \in Stads : \E i \in DOMAIN ob[s].acts :
        ob[s].acts[i].repo = r /\ ob[s].acts[i].skipped

Stuck(r) ==
    \/ RepoinitBlocked \/ ReplicateBlocked \/ MoveMissed(r) \/ AcquireLost(r)
    \/ LoadSkipped(r) \/ st[r].error

(***************************************************************************)
(* When nothing is left to do, all that users asked for has been done.     *)
(***************************************************************************)
QuietMeansSettled ==
    ~ENABLED Progress =>
        \A r \in Repos : Reg(r).path # None => Settled(r) \/ Stuck(r)
=============================================================================
