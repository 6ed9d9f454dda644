------------------------- MODULE EphemeralWorkflow -------------------------
(***************************************************************************)
(* The workflows split-root, du-root and ping-registry, and their garbage  *)
(* collection.                                                             *)
(*                                                                         *)
(*   split-root     nogfsostad runs du below a root, nogfsoregd suggests   *)
(*                  which directories should become repos, and an          *)
(*                  administrator decides for each of them and commits.    *)
(*   du-root        nogfsostad runs du and reports the result.             *)
(*   ping-registry  every server pings; nogfsoregd sums up the pings, and  *)
(*                  an administrator commits.                              *)
(*                                                                         *)
(* A workflow is a history of events and an entry in the workflow index,   *)
(* which are changed one after the other.  The garbage collector aborts a  *)
(* workflow that has been active for too long and deletes a workflow that  *)
(* has been completed for long; it races with the activities and with the  *)
(* administrator.  Times are not modelled: the collector may always run.   *)
(*                                                                         *)
(* The parties take the steps that the tables of EphemeralActivities list. *)
(* A command to an aggregate is one atomic step (see AggregateEngine).     *)
(***************************************************************************)
EXTENDS EphemeralActivities, FiniteSets

CONSTANTS
    Workflows,     \* workflow ids
    NoWorkflow,    \* uuid.Nil
    TypesOf,       \* the types that each workflow may have
    NumPaths,      \* directories below a root
    MaxLost        \* bound: failures and restarts

Types == {"split", "du", "ping"}

ASSUME WorkflowsAssumption ==
    /\ NoWorkflow \notin Workflows
    /\ TypesOf \in [Workflows -> (SUBSET Types) \ {{}}]
    /\ NumPaths \in Nat \ {0}
    /\ MaxLost \in Nat

\* The directories below the root of a split-root; the first is the root.
Paths == 1..NumPaths
Decisions == {"create", "never", "ignore"}

Daemons == {"regd", "stad"}
Roles == Daemons \cup {"admin", "gc"}

VARIABLES
    repos,      \* the directories that are repos in the registry
    dontSplit,  \* the directories with flag PF_DONT_SPLIT in the registry
    typ,        \* the type of each workflow
    hist,       \* the history of each workflow: the events with the data that
                \* matter, and the state and the views that they lead to
    index,      \* the entry of each workflow in the workflow index
    last,       \* lastCommitted of the workflow index
    act,        \* the activities and calls: by role and workflow
    lost        \* number of failures so far

vars == <<repos, dontSplit, typ, hist, index, last, act, lost>>
registry == <<repos, dontSplit>>
indexes == <<index, last>>

\* An activity: whether it has been started, the position in the history up to
\* which it has processed the views, the version that it gives with the next
\* command, where 0 is NoVC, the steps it has yet to take, whether it quits when
\* a step fails, and data that it holds in local variables.
Idle == [on |-> FALSE, pos |-> 0, at |-> 0, todo |-> <<>>, quits |-> FALSE,
         data |-> {}]

State(w) == IF hist[w] = <<>> THEN New ELSE hist[w][Len(hist[w])].st

\* The commands of type `t', and what command `cmd' does.
Commands(t) ==
    CASE t = "split" -> DOMAIN SplitRootTellDu \cup DOMAIN SplitRootTellAnalysis
                           \cup DOMAIN SplitRootTellEnd
      [] t = "du" -> DOMAIN DuRootTell
      [] t = "ping" -> DOMAIN PingRegistryTell

Tell(t, cmd) ==
    CASE t = "split" /\ cmd \in DOMAIN SplitRootTellDu -> SplitRootTellDu[cmd]
      [] t = "split" /\ cmd \in DOMAIN SplitRootTellAnalysis ->
            SplitRootTellAnalysis[cmd]
      [] t = "split" /\ cmd \in DOMAIN SplitRootTellEnd -> SplitRootTellEnd[cmd]
      [] t = "du" -> DuRootTell[cmd]
      [] t = "ping" -> PingRegistryTell[cmd]

NoVC(t) ==
    CASE t = "split" -> SplitRootNoVC
      [] t = "du" -> DuRootNoVC
      [] t = "ping" -> PingRegistryNoVC

Deletable(w) ==
    [split |-> SplitRootDelete, du |-> DuRootDelete,
     ping |-> PingRegistryDelete][typ[w]]

Advance(t, s, ev) ==
    CASE t = "split" -> SplitRootAdvance(s, ev)
      [] t = "du" -> DuRootAdvance(s, ev)
      [] t = "ping" -> PingRegistryAdvance(s, ev)

\* LoadWorkflowEvent()
Load(r, w, v, ev) ==
    CASE typ[w] = "split" /\ r = "regd" -> SplitRootRegdLoad(v, ev)
      [] typ[w] = "split" /\ r = "stad" -> SplitRootStadLoad(v, ev)
      [] typ[w] = "du" -> DuRootStadLoad(v, ev)
      [] typ[w] = "ping" -> PingRegistryLoad(v, ev)

View(r, w, p) == IF p = 0 THEN <<"Uninitialized", FALSE>> ELSE hist[w][p].view[r]

\* Data are sets: of paths, or of a single value.
The(data) == CHOOSE d \in data : TRUE

\* The data of the events of type `type' in the first `p' events.
DataOf(w, type, p) ==
    [i \in {j \in 1..p : hist[w][j].ev[1] = type} |-> hist[w][i].data]

\* st.candidates: what has been suggested and has not been decided.
Candidates(w) ==
    LET suggested == DataOf(w, "SuggestionAppended", Len(hist[w]))
        decided == DataOf(w, "DecisionAppended", Len(hist[w]))
    IN  {p \in Paths :
            /\ \E i \in DOMAIN suggested : p \in suggested[i]
            /\ \A i \in DOMAIN decided : The(decided[i])[1] # p}

\* processView().  nogfsoregd does not repeat the pings that it has sent.
Steps(r, w, p) ==
    LET v == View(r, w, p)
        pings == DataOf(w, "ServerPinged", p)
        sent == Cardinality({i \in DOMAIN pings : pings[i] = {"regd"}})
    IN  CASE typ[w] = "split" /\ r = "regd" -> SplitRootRegd(v)
          [] typ[w] = "split" /\ r = "stad" -> SplitRootStad(v)
          [] typ[w] = "du" /\ r = "regd" -> DoQuit
          [] typ[w] = "du" /\ r = "stad" -> DuRootStad(v)
          [] typ[w] = "ping" /\ r = "regd" ->
                PingRegistryRegd(v, IF sent < NumPings THEN NumPings - sent
                                                       ELSE 0)
          [] typ[w] = "ping" /\ r = "stad" -> PingRegistryStad(v)

\* The aggregate accepts a command.
Post(w, ev, data) ==
    hist' = [hist EXCEPT ![w] =
               Append(@, [ev |-> ev, data |-> data,
                          st |-> Advance(typ[w], State(w), ev),
                          view |-> [r \in Daemons |->
                                      Load(r, w, View(r, w, Len(@)), ev)]])]

Init ==
    /\ repos \in SUBSET {1}
    /\ dontSplit = {}
    /\ typ \in [Workflows -> Types]
    /\ \A w \in Workflows : typ[w] \in TypesOf[w]
    /\ hist = [w \in Workflows |-> <<>>]
    /\ index = [w \in Workflows |-> "none"]
    /\ last = NoWorkflow
    /\ act = [r \in Roles |-> [w \in Workflows |-> Idle]]
    /\ lost = 0

-----------------------------------------------------------------------------
(***************************************************************************)
(* The server: BeginSplitRoot() and the others.                            *)
(***************************************************************************)

Begin(w) ==
    /\ hist[w] = <<>>
    /\ index[w] = "none"
    /\ Post(w, Tell(typ[w], "Init").ev, {})
    /\ UNCHANGED <<registry, typ, indexes, act, lost>>

\* The second step of the call adds the workflow to the index.
BeginIndex(w) ==
    /\ hist[w] # <<>>
    /\ index[w] = "none"
    /\ index' = [index EXCEPT ![w] = "active"]
    /\ last' = NoWorkflow
    /\ UNCHANGED <<registry, typ, hist, act, lost>>

\* The server stops between the two steps, or the index of a du-root or
\* ping-registry is changed concurrently.  The workflow id is used, so the call
\* cannot be repeated: the workflow never runs.
BeginLost(w) ==
    /\ hist[w] # <<>>
    /\ index[w] = "none"
    /\ lost < MaxLost
    /\ lost' = lost + 1
    /\ index' = [index EXCEPT ![w] = "orphan"]
    /\ UNCHANGED <<registry, typ, hist, last, act>>

-----------------------------------------------------------------------------
(***************************************************************************)
(* Activities and calls.                                                   *)
(***************************************************************************)

At(r, w, step) == act[r][w].todo # <<>> /\ Head(act[r][w].todo) = step

\* The activity has the steps `todo' ahead.
Then(a, todo) ==
    CASE todo = Quit -> [Idle EXCEPT !.on = TRUE, !.todo = Quit]
      [] todo = <<>> ->
            [a EXCEPT !.todo = <<>>, !.at = 0, !.quits = FALSE, !.data = {}]
      [] OTHER -> [a EXCEPT !.todo = todo]

\* A step of role `r' fails: an activity starts over or quits; a call and a run
\* of the garbage collector end.
Failed(r, a) ==
    IF r \notin Daemons THEN Idle
    ELSE IF a.quits THEN [Idle EXCEPT !.on = TRUE, !.todo = Quit]
    ELSE [Idle EXCEPT !.on = TRUE]

Fail(r, w) == act' = [act EXCEPT ![r][w] = Failed(r, @)]

\* The workflow refuses command `cmd'.  A deleted workflow is another error.
Refused(r, w, cmd) ==
    IF r = "stad" /\ cmd \in PingRegistryStadQuits /\ hist[w] # <<>>
    THEN act' = [act EXCEPT ![r][w] = Then(@, Quit)]
    ELSE Fail(r, w)

\* The step is done, and the activity goes on as `a', unless the answer is lost.
Done(r, w, a) ==
    \/ /\ act' = [act EXCEPT ![r][w] = Then(a, Tail(a.todo))]
       /\ UNCHANGED lost
    \/ /\ lost < MaxLost
       /\ lost' = lost + 1
       /\ Fail(r, w)

\* The daemons start an activity for every active workflow of the index.  It
\* first loads the whole history.  It then watches the history; the view that
\* it processes may lag behind.  Views without a step are passed over.
ProcessView(r, w) ==
    LET a == act[r][w]
        end == Len(hist[w])
    IN  /\ index[w] = "active" \/ a.on
        /\ a.todo = <<>>
        /\ a.pos < end
        /\ \E p \in IF a.pos = 0 THEN {end}
                     ELSE {q \in a.pos + 1 .. end : Steps(r, w, q) # DoContinue} :
           \E alt \in Steps(r, w, p) :
              act' = [act EXCEPT ![r][w] =
                        Then([a EXCEPT !.on = TRUE, !.pos = p, !.at = p,
                                       !.quits = alt.quits], alt.steps)]
        /\ UNCHANGED <<registry, typ, hist, indexes, lost>>

\* What a command needs besides the state code.
TellOk(w, cmd, data) ==
    CASE cmd = "AppendDecision" -> The(data)[1] \in Candidates(w)
      [] cmd = "Commit" /\ typ[w] = "split" ->
            Scode(State(w)) # "Completed" => Candidates(w) = {}
      [] OTHER -> TRUE

\* What the event of a command records.
EventData(r, cmd, data) ==
    IF cmd \in {"AppendSuggestions", "AppendDecision", "PostSummary"} THEN data
    ELSE IF cmd = "AppendPing" THEN {r}
    ELSE {}

WfCommand(r, w) ==
    LET a == act[r][w]
        cmd == Head(a.todo)
        c == Tell(typ[w], cmd)
        s == State(w)
        ok == /\ a.at \in {0, Len(hist[w])} \/ a.quits \/ cmd \in NoVC(typ[w])
              /\ s \in c.from \/ Scode(s) \in c.again
              /\ TellOk(w, cmd, a.data)
    IN  /\ a.todo # <<>> /\ cmd \in Commands(typ[w])
        /\ IF ok
           THEN /\ IF s \in c.from THEN Post(w, c.ev, EventData(r, cmd, a.data))
                                   ELSE UNCHANGED hist
                /\ Done(r, w, [a EXCEPT !.at = Len(hist'[w])])
           ELSE Refused(r, w, cmd) /\ UNCHANGED <<hist, lost>>
        /\ UNCHANGED <<registry, typ, indexes>>

\* tellCommitDuRoot(), ... of the index: idempotent for the workflow that has
\* been committed last, and refused unless the workflow is active.
IndexCommit(r, w) ==
    /\ At(r, w, "IndexCommit")
    /\ IF index[w] = "active" \/ last = w
       THEN /\ index' = [index EXCEPT ![w] =
                           IF last = w THEN @ ELSE "completed"]
            /\ last' = w
            /\ Done(r, w, act[r][w])
       ELSE Fail(r, w) /\ UNCHANGED <<indexes, lost>>
    /\ UNCHANGED <<registry, typ, hist>>

\* A step fails without an effect.
Fails(r, w) ==
    /\ act[r][w].todo \notin {<<>>, Quit}
    /\ lost < MaxLost
    /\ lost' = lost + 1
    /\ Fail(r, w)
    /\ UNCHANGED <<registry, typ, hist, indexes>>

\* A daemon restarts.  Calls and the garbage collector run in nogfsoregd.
Restarts(d) ==
    /\ lost < MaxLost
    /\ lost' = lost + 1
    /\ act' = [r \in Roles |->
                 IF r = d \/ (d = "regd" /\ r \in {"admin", "gc"})
                 THEN [w \in Workflows |-> Idle] ELSE act[r]]
    /\ UNCHANGED <<registry, typ, hist, indexes>>

-----------------------------------------------------------------------------
(***************************************************************************)
(* The steps that are not commands to the workflow or the index.           *)
(***************************************************************************)

\* doAnalyzeAndContinue(): listRepos(), listDontSplit() and Analyze().  A
\* directory is a candidate depending on its size, the root in any case; there
\* is none below a directory that must not be split, here the root.
ListRepos(w) ==
    LET free == Paths \ (repos \cup dontSplit)
    IN  /\ At("regd", w, "ListRepos")
        /\ \E s \in SUBSET free :
              /\ 1 \in free => 1 \in s
              /\ 1 \in dontSplit => s = {}
              /\ Done("regd", w, [act["regd"][w] EXCEPT !.data = s])
        /\ UNCHANGED <<registry, typ, hist, indexes>>

\* pingSummary(): it reads the pings so far and the version.
PingSummary(w) ==
    /\ At("regd", w, "PingSummary")
    /\ LET pings == DataOf(w, "ServerPinged", Len(hist[w]))
       IN  Done("regd", w, [act["regd"][w] EXCEPT
                              !.at = Len(hist[w]),
                              !.data = {Cardinality(DOMAIN pings)}])
    /\ UNCHANGED <<registry, typ, hist, indexes>>

\* AppendSplitRootDecisions(): checks, for one path.  The repos that it looks
\* at are those of the beginning of the call.
Decide(w) ==
    /\ typ[w] = "split"
    /\ act["admin"][w] = Idle
    /\ \E p \in Candidates(w), d \in Decisions :
          LET effect == IF d = "create" /\ p \in repos THEN "ignore" ELSE d
          IN  act' = [act EXCEPT !["admin"][w] =
                        [Idle EXCEPT !.todo = AppendSplitRootDecisions[effect],
                                     !.data = {<<p, d>>}]]
    /\ UNCHANGED <<registry, typ, hist, indexes, lost>>

\* InitRepo() of the registry refuses a path that is a repo.
InitRepo(w) ==
    LET p == The(act["admin"][w].data)[1]
    IN  /\ At("admin", w, "InitRepo")
        /\ IF p \notin repos
           THEN repos' = repos \cup {p} /\ Done("admin", w, act["admin"][w])
           ELSE Fail("admin", w) /\ UNCHANGED <<repos, lost>>
        /\ UNCHANGED <<dontSplit, typ, hist, indexes>>

SetPathFlags(w) ==
    /\ At("admin", w, "SetPathFlags")
    /\ dontSplit' = dontSplit \cup {The(act["admin"][w].data)[1]}
    /\ Done("admin", w, act["admin"][w])
    /\ UNCHANGED <<repos, typ, hist, indexes>>

\* CommitSplitRoot(), AbortSplitRoot() and CommitPingRegistry(), without a
\* version.  The calls can be repeated.
EndCalls(w) ==
    [split |-> {CommitSplitRoot, AbortSplitRoot}, du |-> {},
     ping |-> {PingRegistryServer.Commit}][typ[w]]

AdminEnds(w) ==
    /\ hist[w] # <<>>
    /\ act["admin"][w] = Idle
    /\ \E steps \in EndCalls(w) :
          /\ State(w) \in Tell(typ[w], steps[1]).from
                \/ Scode(State(w)) \in Tell(typ[w], steps[1]).again
          /\ act' = [act EXCEPT !["admin"][w] = [Idle EXCEPT !.todo = steps]]
    /\ UNCHANGED <<registry, typ, hist, indexes, lost>>

-----------------------------------------------------------------------------
(***************************************************************************)
(* The garbage collector.  It works on one workflow after the other.       *)
(***************************************************************************)

GcActive(w) ==
    [split |-> GcSplitRootActive, du |-> GcDuRootActive,
     ping |-> GcPingRegistryActive][typ[w]]

GcCompleted(w) ==
    [split |-> GcSplitRootCompleted, du |-> GcDuRootCompleted,
     ping |-> GcPingRegistryCompleted][typ[w]]

GcDo(w, steps) ==
    /\ \A x \in Workflows : act["gc"][x] = Idle
    /\ act' = [act EXCEPT !["gc"][w] = [Idle EXCEPT !.todo = steps]]
    /\ UNCHANGED <<registry, typ, hist, indexes, lost>>

GcBegin(w) ==
    /\ index[w] \in {"active", "completed"}
    /\ GcDo(w, IF index[w] = "active" THEN GcActive(w) ELSE GcCompleted(w))

\* The view of the index is loaded once for a run: a workflow that has been
\* active may have been completed since.
GcBeginStale(w) == index[w] = "completed" /\ GcDo(w, GcActive(w))

GcDelete(w) ==
    /\ At("gc", w, "Delete")
    /\ IF Scode(State(w)) \in Deletable(w)
       THEN hist' = [hist EXCEPT ![w] = <<>>] /\ Done("gc", w, act["gc"][w])
       ELSE Fail("gc", w) /\ UNCHANGED <<hist, lost>>
    /\ UNCHANGED <<registry, typ, indexes>>

GcIndexDelete(w) ==
    /\ At("gc", w, "IndexDelete")
    /\ IF index[w] = "completed"
       THEN /\ index' = [index EXCEPT ![w] = "deleted"]
            /\ Done("gc", w, act["gc"][w])
       ELSE Fail("gc", w) /\ UNCHANGED <<index, lost>>
    /\ UNCHANGED <<registry, typ, hist, last>>

-----------------------------------------------------------------------------
(***************************************************************************)
(* Other workflows of the same index and other calls to the registry.      *)
(***************************************************************************)

OthersCommit ==
    /\ last # NoWorkflow
    /\ last' = NoWorkflow
    /\ UNCHANGED <<registry, typ, hist, index, act, lost>>

OthersInitRepo ==
    /\ \E p \in Paths \ repos : repos' = repos \cup {p}
    /\ UNCHANGED <<dontSplit, typ, hist, indexes, act, lost>>

-----------------------------------------------------------------------------

DaemonStep(r, w) ==
    \/ ProcessView(r, w)
    \/ WfCommand(r, w)
    \/ IndexCommit(r, w)
    \/ r = "regd" /\ (ListRepos(w) \/ PingSummary(w))

AdminStep(w) ==
    \/ WfCommand("admin", w) \/ IndexCommit("admin", w)
    \/ InitRepo(w) \/ SetPathFlags(w)

GcStep(w) ==
    \/ WfCommand("gc", w) \/ IndexCommit("gc", w)
    \/ GcDelete(w) \/ GcIndexDelete(w)

Next ==
    \/ \E w \in Workflows :
          \/ Begin(w) \/ BeginIndex(w) \/ BeginLost(w)
          \/ \E r \in Daemons : DaemonStep(r, w)
          \/ Decide(w) \/ AdminEnds(w) \/ AdminStep(w)
          \/ GcBegin(w) \/ GcBeginStale(w) \/ GcStep(w)
          \/ \E r \in Roles : Fails(r, w)
    \/ \E d \in Daemons : Restarts(d)
    \/ OthersCommit \/ OthersInitRepo

Spec == Init /\ [][Next]_vars

\* The call that starts a workflow ends; a run of the garbage collector ends,
\* and it comes to every workflow again and again.  Nothing is assumed of the
\* activities and the administrator.
Fairness ==
    \A w \in Workflows :
        WF_vars(BeginIndex(w)) /\ WF_vars(GcStep(w)) /\ SF_vars(GcBegin(w))

FairSpec == Spec /\ Fairness

-----------------------------------------------------------------------------
(***************************************************************************)
(* Properties.                                                             *)
(***************************************************************************)

\* What a client is told about a workflow.
Report(w) ==
    LET evs == [i \in DOMAIN hist[w] |-> hist[w][i].ev]
    IN  CASE typ[w] = "split" -> GetSplitRoot(State(w))
          [] typ[w] = "du" -> GetDuRoot(evs)
          [] typ[w] = "ping" -> GetRegistryPings(evs)

\* A client that has been told how a workflow ended is never told otherwise,
\* however the garbage collector, the activities and the administrator race to
\* end it and repeat their calls.
ReportIsFinal ==
    [][\A w \in Workflows :
          Report(w) \in {"ok", "failed", "expired"} /\ hist'[w] # <<>> =>
              Report(w)' = Report(w)]_vars

\* A decision in the history of a split-root has had its effect on the registry,
\* wherever the call has been interrupted.
DecisionsApplied ==
    \A w \in Workflows :
        LET decided == DataOf(w, "DecisionAppended", Len(hist[w]))
        IN  \A i \in DOMAIN decided :
                LET d == The(decided[i])
                IN  /\ d[2] = "create" => d[1] \in repos
                    /\ d[2] = "never" => d[1] \in dontSplit

\* The summary of a ping-registry counts all pings in the history: a ping that
\* arrives while nogfsoregd sums up makes it start over.
SummaryIsComplete ==
    \A w \in Workflows :
        LET sums == DataOf(w, "ServerPingsGathered", Len(hist[w]))
            pings == DataOf(w, "ServerPinged", Len(hist[w]))
        IN  \A i \in DOMAIN sums : sums[i] = {Cardinality(DOMAIN pings)}

\* Every workflow that has been added to the index is deleted in the end,
\* whichever call has been interrupted between the history and the index.
WorkflowsAreCollected ==
    \A w \in Workflows : index[w] = "active" ~> index[w] = "deleted"

=============================================================================
