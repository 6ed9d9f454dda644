---------------------------- MODULE RepoPipeline ----------------------------
(***************************************************************************)
(* The histories of the registry, the repos and the move workflows, and    *)
(* the two processors of nogfsoregd that carry events between them.        *)
(*                                                                         *)
(* repoinit reads registry events and sends commands to repos.  replicate  *)
(* reads the events of every history and sends commands to the others.     *)
(* Neither processor stores how far it got: on start, repoinit loads the   *)
(* registry, and replicate finds out from the events of the registry which *)
(* events of the repos have been replicated.                               *)
(***************************************************************************)
EXTENDS RepoAggregates

CONSTANTS MaxRequests,  \* bound on the requests of users and admins
          MaxFaults,    \* bound on restarts, lost replies and failed inits
          HomePaths     \* bound: the paths at which repos are created

ASSUME BoundsAssumption ==
    MaxRequests \in Nat /\ MaxFaults \in Nat /\ HomePaths \subseteq Paths

VARIABLES log,       \* the history of each entity
          st,        \* its state, the fold of its history
          ri,        \* the repoinit processor
          rp,        \* the replicate processor
          requests, faults

histories == <<log, st>>

\* An entity commits the events of an accepted command.
Commit(x, t) ==
    /\ log' = [log EXCEPT ![x] = @ \o t.evs]
    /\ st' = [st EXCEPT ![x] =
                FoldLeft(LAMBDA s, e : Advance(x, s, e), @, t.evs)]

Reg(r) == st[Registry].repos[r]

\* The position of the next event of `x' that a reader at `tail' acts on; the
\* events that it ignores are read on the way.
NextOf(x, tail, Handles(_)) ==
    LET ks == {k \in (tail + 1)..Len(log[x]) : Handles(k)}
    IN IF ks = {} THEN None ELSE Min(ks)

Fault == faults < MaxFaults /\ faults' = faults + 1

-----------------------------------------------------------------------------
(***************************************************************************)
(* Requests to the registry server and the repos server.                   *)
(***************************************************************************)

\* A refused or a repeated request changes nothing.
Request(x, t) ==
    /\ Accepts(t) /\ t.evs # <<>>
    /\ requests < MaxRequests
    /\ requests' = requests + 1
    /\ Commit(x, t)
    /\ UNCHANGED <<ri, rp, faults>>

\* The server makes up the id of the repo, and of a move below.
InitRepo(r, p) ==
    Reg(r).path = None /\ Request(Registry, TellInitRepo(st[Registry], r, p))

BeginMoveRepo(r, w, p, unchanged) ==
    /\ \A q \in Repos : Reg(q).wf # w
    /\ Request(Registry, TellBeginMoveRepo(st[Registry], r, w, p, unchanged))

EnableGitlabRepo(r) ==
    Request(Registry, TellEnableGitlabRepo(st[Registry], r))

RemoveRoot(root) == Request(Registry, TellRemoveRoot(st[Registry], root))

BeginMoveShadow(r, w) ==
    /\ \A q \in Repos \ {r} : st[q].swf # w
    /\ Request(r, TellBeginMoveShadow(st[r], w))

ClearRepoError(r) == Request(r, TellClearRepoError(st[r]))

UserRequests ==
    \/ \E r \in Repos, p \in HomePaths : InitRepo(r, p)
    \/ \E r \in Repos, w \in MoveIds, p \in Paths, unchanged \in BOOLEAN :
          BeginMoveRepo(r, w, p, unchanged)
    \/ \E r \in Repos : EnableGitlabRepo(r) \/ ClearRepoError(r)
    \/ \E root \in Roots : RemoveRoot(root)
    \/ \E r \in Repos, w \in ShadowIds : BeginMoveShadow(r, w)

\* The application, and the admin who moved the shadow, answer in the end.
PostMoveRepoAppAccepted(w) ==
    LET t == TellMovePost(st[w], EvWfAppAccepted)
    IN Accepts(t) /\ t.evs # <<>> /\ Commit(w, t)

CommitMoveShadow(w) ==
    LET t == TellShadowCommit(st[w])
    IN Accepts(t) /\ t.evs # <<>> /\ Commit(w, t)

Answers ==
    /\ \/ \E w \in MoveIds : PostMoveRepoAppAccepted(w)
       \/ \E w \in ShadowIds : CommitMoveShadow(w)
    /\ UNCHANGED <<ri, rp, requests, faults>>

-----------------------------------------------------------------------------
(***************************************************************************)
(* repoinit.                                                               *)
(***************************************************************************)

NewRepoinit == [phase |-> "load", tail |-> 0, roots |-> {}, todo |-> {}]

\* The command for an event; its root must be known to the processor.
RootKnown(p, t) ==
    IF RootOf[p] \in ri.roots THEN t ELSE Refused("unknown root")

\* A move that has been started, or has ended, is not started again.
IgnoreStarted(t) ==
    IF t.err \in {"ErrWorkflowActive", "ErrWorkflowReuse"}
    THEN Idempotent ELSE t

RiInitRepo(e) == RootKnown(e.path, TellInit(st[e.repo], e.path))
RiBeginMove(e) ==
    RootKnown(e.path, IgnoreStarted(TellBeginMove(st[e.repo], e.wf, e.path)))
RiEnableGitlab(e) == TellEnableGitlab(st[e.repo])

RiCommand(e) ==
    CASE e.ev = "RepoAccepted" -> RiInitRepo(e)
      [] e.ev = "RepoMoveAccepted" -> RiBeginMove(e)
      [] e.ev = "RepoEnableGitlabAccepted" -> RiEnableGitlab(e)

RiTypes == <<"RepoAccepted", "RepoMoveAccepted", "RepoEnableGitlabAccepted">>

\* The events of the registry that ask for something that is not done.
RiPending ==
    {k \in DOMAIN log[Registry] :
        LET e == log[Registry][k]
        IN \/ e.ev = "RepoAccepted" /\ ~Reg(e.repo).confirmed
           \/ e.ev = "RepoMoveAccepted" /\ e.wf = Reg(e.repo).wf
              /\ HasActiveMove(Reg(e.repo))
           \/ e.ev = "RepoEnableGitlabAccepted" /\ ~st[e.repo].gitlab}

\* The roots are merged with the ones `known' from an earlier attempt.
RiLoaded(known) ==
    [phase |-> "watch", tail |-> Len(log[Registry]),
     roots |-> known \cup st[Registry].roots, todo |-> RiPending]

\* Loading looks up every repo with GitLab, which must be initialized.
RiLoad ==
    /\ ri.phase = "load"
    /\ \A r \in Repos : Reg(r).gitlab => st[r].path # None
    /\ ri' = RiLoaded(ri.roots)
    /\ UNCHANGED <<log, st, rp, requests, faults>>

\* Repos to initialize come first, then moves, then GitLab.
RiOrder(k) == CHOOSE i \in DOMAIN RiTypes : RiTypes[i] = log[Registry][k].ev

\* An error starts the load again.
RiTodo ==
    /\ \E k \in ri.todo :
         /\ \A i \in ri.todo : RiOrder(k) <= RiOrder(i)
         /\ LET e == log[Registry][k]
                t == RiCommand(e)
            IN IF Accepts(t)
               THEN Commit(e.repo, t) /\ ri' = [ri EXCEPT !.todo = @ \ {k}]
               ELSE /\ ri' = [NewRepoinit EXCEPT !.roots = ri.roots]
                    /\ UNCHANGED histories
    /\ UNCHANGED <<rp, requests, faults>>

\* A refused command is retried, and nothing behind it is processed.
RiWatch ==
    LET k == NextOf(Registry, ri.tail, LAMBDA i :
                log[Registry][i].ev \in ToSet(RiTypes) \cup {"RootRemoved"})
    IN /\ ri.phase = "watch" /\ ri.todo = {} /\ k # None
       /\ LET e == log[Registry][k]
          IN IF e.ev = "RootRemoved"
             THEN /\ ri' = [ri EXCEPT !.tail = k, !.roots = @ \ {e.root}]
                  /\ UNCHANGED histories
             ELSE /\ Accepts(RiCommand(e))
                  /\ Commit(e.repo, RiCommand(e))
                  /\ ri' = [ri EXCEPT !.tail = k]
       /\ UNCHANGED <<rp, requests, faults>>

Repoinit == RiLoad \/ RiTodo \/ RiWatch

-----------------------------------------------------------------------------
(***************************************************************************)
(* replicate.  A tail is -1 as long as the processor ignores the entity.   *)
(* `cur' is the entity whose event is being processed, preceded by the     *)
(* registry if its event started the poll; `step' counts the commands that *)
(* have been sent for the event.  `loaded' is how much of the history of a *)
(* repo was there when init looked for a move, and `missed', which has no  *)
(* counterpart in the code, the moves that started before the poll that    *)
(* followed.                                                               *)
(***************************************************************************)

NewReplicate ==
    [phase |-> "registry", todo |-> {}, cur |-> <<>>, step |-> 0,
     loaded |-> 0, missed |-> {},
     tail |-> [x \in Entities |-> IF x = Registry THEN 0 ELSE -1]]

Op == IF rp.phase = "update" THEN "update" ELSE "init"

Call(x, t) == [to |-> x, tell |-> t]

RegistryCalls(e) ==
    IF /\ e.ev = "RepoMoved"
       /\ Op = "init" => ~Seen(st[e.wf], "Committed")
    THEN <<Call(e.wf, TellMoveExit(st[e.wf]))>>
    ELSE <<>>

\* A workflow that has advanced beyond init is left as it is.
InitMoveRepoWorkflow(r, w, p, k) ==
    LET t == TellMoveInit(st[w], r, p, k)
    IN Call(w, IF t.err = "ErrConflictStateAdvanced" THEN Idempotent ELSE t)

\* Faulty variant: the post comes first.
ShadowStartedCallsSwapped(r, w, k) ==
    <<Call(Registry, TellPostShadowRepoMoveStarted(st[Registry], r, w, k)),
      Call(w, TellShadowInit(st[w], r, k))>>

\* First init the workflow, then post to the registry: the registry event
\* says that the repo event has been fully replicated.
ShadowStartedCalls(r, w, k) ==
    <<Call(w, TellShadowInit(st[w], r, k)),
      Call(Registry, TellPostShadowRepoMoveStarted(st[Registry], r, w, k))>>

RepoCalls(r, k, e) ==
    CASE e.ev = "RepoInitStarted" /\ (Op = "init" => ~Reg(r).confirmed) ->
           <<Call(Registry, TellConfirmRepo(st[Registry], r, k))>>
      [] e.ev = "RepoMoveStarted" /\ Op = "update" ->
           <<InitMoveRepoWorkflow(r, e.wf, e.path, k)>>
      [] e.ev = "RepoMoved" ->
           <<Call(Registry,
                  TellCommitMoveRepo(st[Registry], r, e.wf, e.path, k))>>
      [] e.ev = "ShadowRepoMoveStarted" -> ShadowStartedCalls(r, e.wf, k)
      [] OTHER -> <<>>

\* On init, a command whose effect is already there is not sent.
Unless(done, t) == IF Op = "init" /\ done THEN Idempotent ELSE t

WorkflowCalls(w, e) ==
    CASE e.ev = "Moved" ->
           LET s == st[e.repo]
           IN <<Call(e.repo, Unless(~HasActiveMoveRepo(s) \/ s.wf # w,
                                    TellCommitMove(s, w, e.path, e.path)))>>
      [] e.ev = "ShadowMoved" ->
           LET s == st[e.repo]
           IN <<Call(e.repo, Unless(~HasActiveMoveShadow(s) \/ s.swf # w,
                                    TellCommitMoveShadow(s, w))),
                Call(w, Unless(Seen(st[w], "ShadowCommitted"),
                               TellShadowExit(st[w])))>>
      [] OTHER -> <<>>

Calls(x, k) ==
    LET e == log[x][k]
    IN CASE x = Registry -> RegistryCalls(e)
         [] x \in Repos -> RepoCalls(x, k, e)
         [] x \in Workflows -> WorkflowCalls(x, e)

\* Faulty variant: a workflow that starts on update is not watched.
TailsForgetWorkflow(x, k) ==
    LET e == log[x][k]
        t == [rp.tail EXCEPT ![x] = k]
    IN CASE x = Registry /\ e.ev = "RepoAccepted" -> [t EXCEPT ![e.repo] = 0]
         [] x = Registry /\ e.ev = "RepoMoved" -> [t EXCEPT ![e.repo] = e.at]
         [] x = Registry /\ e.ev = "RepoAdded" /\ Op = "init" ->
              [t EXCEPT ![e.repo] = e.at]
         [] x = Registry /\ e.ev = "ShadowRepoMoveStarted" /\ Op = "init" ->
              [t EXCEPT ![e.repo] = e.at, ![e.wf] = 0]
         [] OTHER -> t

\* The tails that event `k' of `x' sets.  A move that has been replicated to
\* the registry sets the tail of the repo, on update too.
Tails(x, k) ==
    LET e == log[x][k]
        t == [rp.tail EXCEPT ![x] = k]
    IN CASE x = Registry /\ e.ev = "RepoAccepted" -> [t EXCEPT ![e.repo] = 0]
         [] x = Registry /\ e.ev = "RepoMoved" -> [t EXCEPT ![e.repo] = e.at]
         [] x = Registry /\ e.ev = "RepoAdded" /\ Op = "init" ->
              [t EXCEPT ![e.repo] = e.at]
         [] x = Registry /\ e.ev = "ShadowRepoMoveStarted" /\ Op = "init" ->
              [t EXCEPT ![e.repo] = e.at, ![e.wf] = 0]
         [] x \in Repos /\ \/ e.ev = "ShadowRepoMoveStarted"
                           \/ e.ev = "RepoMoveStarted" /\ Op = "update" ->
              [t EXCEPT ![e.wf] = 0]
         [] OTHER -> t

\* After event `k' of `x'.  On update, an accepted repo is polled before the
\* tail of the registry moves.
Processed(x, k) ==
    IF x = Registry /\ log[x][k].ev = "RepoAccepted" /\ Op = "update"
    THEN LET r == log[x][k].repo
         IN [rp EXCEPT !.cur = <<Registry, r>>, !.step = 0, !.tail[r] = 0]
    ELSE [rp EXCEPT !.tail = Tails(x, k), !.step = 0,
                    !.cur = IF rp.phase = "repos" \/ Len(@) = 2
                            THEN @ ELSE <<>>]

\* After an error: init starts again, an update repeats the event, or the
\* registry event that started the poll.
Unwound(x) ==
    CASE Op = "init" -> [rp EXCEPT !.phase = "registry", !.todo = {},
                                   !.cur = <<>>, !.step = 0, !.loaded = 0]
      [] Op = "update" /\ Len(rp.cur) = 2 ->
           [rp EXCEPT !.step = 0, !.tail[x] = 0]
      [] OTHER -> [rp EXCEPT !.cur = <<x>>, !.step = 0]

\* The next event of `x' that has commands or sets tails.
RpNext(x) ==
    IF rp.tail[x] = -1 THEN None
    ELSE NextOf(x, rp.tail[x], LAMBDA k :
            \/ log[x][k].ev = "RepoAccepted"
            \/ Calls(x, k) # <<>>
            \/ Tails(x, k) # [rp.tail EXCEPT ![x] = k])

\* The histories that may be polled now.
Polled ==
    IF rp.cur # <<>> THEN {Last(rp.cur)}
    ELSE CASE rp.phase = "registry" -> {Registry}
           [] rp.phase = "repos" -> {}
           [] rp.phase = "workflows" -> Workflows
           [] rp.phase = "update" -> Entities

\* One command of the next event of `x', or the whole event if it has none.
RpApply(x, k) ==
    /\ LET calls == Calls(x, k)
       IN IF calls = <<>>
          THEN rp' = Processed(x, k) /\ UNCHANGED histories
          ELSE LET c == calls[rp.step + 1]
               IN /\ Accepts(c.tell)
                  /\ Commit(c.to, c.tell)
                  /\ rp' = IF rp.step + 1 = Len(calls) THEN Processed(x, k)
                           ELSE [rp EXCEPT !.step = @ + 1,
                                           !.cur = IF @ = <<>> THEN <<x>> ELSE @]
    /\ UNCHANGED <<ri, requests, faults>>

\* The command is refused, and will be retried.
RpRefused(x, k) ==
    /\ LET calls == Calls(x, k)
       IN calls # <<>> /\ ~Accepts(calls[rp.step + 1].tell)
    /\ rp' = Unwound(x) /\ rp' # rp
    /\ UNCHANGED <<log, st, ri, requests, faults>>

\* initRepo() looks at the whole history for a move before it polls.
RpInitRepo(r) ==
    /\ rp.phase = "repos" /\ rp.cur = <<>> /\ r \in rp.todo
    /\ IF HasActiveMoveRepo(st[r])
       THEN LET k == CHOOSE i \in DOMAIN log[r] :
                        log[r][i].ev = "RepoMoveStarted"
                        /\ log[r][i].wf = st[r].wf
                w == st[r].wf
                c == InitMoveRepoWorkflow(r, w, st[r].newPath, k)
            IN IF Accepts(c.tell)
               THEN Commit(w, c.tell)
                    /\ rp' = [rp EXCEPT !.cur = <<r>>, !.tail[w] = 0,
                                        !.loaded = Len(log[r]),
                                        !.missed = @ \ {w}]
               ELSE rp' = Unwound(r) /\ UNCHANGED histories
       ELSE /\ rp' = [rp EXCEPT !.cur = <<r>>, !.loaded = Len(log[r])]
            /\ UNCHANGED histories
    /\ UNCHANGED <<ri, requests, faults>>

\* The init poll of a repo ignores moves: loadRepo() should have seen them.
RepoInited(r) ==
    LET new == {k \in (rp.loaded + 1)..Len(log[r]) :
                    log[r][k].ev = "RepoMoveStarted"}
    IN [rp EXCEPT !.cur = <<>>, !.todo = @ \ {r}, !.loaded = 0,
                  !.tail[r] = Len(log[r]),
                  !.missed = @ \cup {log[r][k].wf : k \in new}]

\* The registry event that started the poll of a repo.
RpAccepted ==
    CHOOSE k \in DOMAIN log[Registry] :
        log[Registry][k].ev = "RepoAccepted"
        /\ log[Registry][k].repo = Last(rp.cur)

\* A poll has reached the end of its histories.
RpPolled ==
    /\ \A x \in Polled : RpNext(x) = None
    /\ \/ rp.phase = "registry"
          /\ rp' = [rp EXCEPT !.phase = "repos",
                              !.todo = {r \in Repos : rp.tail[r] >= 0}]
       \/ rp.phase = "repos" /\ rp.cur # <<>> /\ rp' = RepoInited(rp.cur[1])
       \/ rp.phase = "repos" /\ rp.cur = <<>> /\ rp.todo = {}
          /\ rp' = [rp EXCEPT !.phase = "workflows"]
       \/ rp.phase = "workflows" /\ rp' = [rp EXCEPT !.phase = "update"]
       \/ rp.phase = "update" /\ Len(rp.cur) = 2
          /\ rp' = [rp EXCEPT !.cur = <<>>, !.tail[Registry] = RpAccepted]
    /\ UNCHANGED <<log, st, ri, requests, faults>>

Replicate ==
    \/ \E x \in Polled :
         LET k == RpNext(x)
         IN k # None /\ (RpApply(x, k) \/ RpRefused(x, k))
    \/ \E r \in Repos : RpInitRepo(r)
    \/ RpPolled

-----------------------------------------------------------------------------
(***************************************************************************)
(* Faults of nogfsoregd.                                                   *)
(***************************************************************************)

\* A command takes effect, and the processor sees an error.
RpLostReply(x, k) ==
    /\ Fault
    /\ LET calls == Calls(x, k)
           c == calls[rp.step + 1]
       IN /\ calls # <<>>
          /\ Accepts(c.tell) /\ c.tell.evs # <<>>
          /\ Commit(c.to, c.tell)
    /\ rp' = Unwound(x)
    /\ UNCHANGED <<ri, requests>>

RegdRestart ==
    /\ Fault
    /\ ri' = NewRepoinit /\ rp' = NewReplicate
    /\ UNCHANGED <<log, st, requests>>

RegdFaults ==
    \/ RegdRestart
    \/ \E x \in Polled : RpNext(x) # None /\ RpLostReply(x, RpNext(x))

\* The history of a repo at `p' that has been initialized, and the history of
\* the registry with the repos in `old'.
OldRepoLog(p) == <<EvRepoInitStarted(p), EvShadowRepoCreated(p)>>
OldRegistryLog(old, p) ==
    FoldSet(LAMBDA r, h : h \o <<EvRepoAccepted(r, p), EvRepoAdded(r, p, 1)>>,
            <<>>, old)

StateOf(x, h) == FoldLeft(LAMBDA s, e : Advance(x, s, e), NewState(x), h)

RegdInit(old, p) ==
    /\ log = [x \in Entities |->
                CASE x = Registry -> OldRegistryLog(old, p)
                  [] x \in old -> OldRepoLog(p)
                  [] OTHER -> <<>>]
    /\ st = [x \in Entities |-> StateOf(x, log[x])]
    /\ ri = RiLoaded({})
    /\ rp = [NewReplicate EXCEPT !.phase = "update",
               !.tail = [x \in Entities |->
                           IF x = Registry \/ x \in old THEN Len(log[x]) ELSE -1]]
    /\ requests = 0
    /\ faults = 0
=============================================================================
