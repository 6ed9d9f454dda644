--------------------------- MODULE WorkflowIndex ---------------------------
(***************************************************************************)
(* The index of the ephemeral workflows of a registry, and how the daemons *)
(* use it.  The index is a history of events: a workflow has been started, *)
(* completed or deleted.  The garbage collector adds snapshots, so that    *)
(* the trimmer can move the epoch, from which readers start.               *)
(*                                                                         *)
(* nogfsoregd, nogfsostad and nogfsorstd read the index to start an        *)
(* activity for every active workflow: they load the index from the epoch  *)
(* and then watch it.  A stream that breaks is opened again after the last *)
(* event; a daemon that restarts loads the index again.  nogfsostad runs   *)
(* the activities of some workflows one after the other.                   *)
(***************************************************************************)
EXTENDS Naturals, Sequences, SequencesExt

CONSTANTS
    Workflows,             \* workflow ids
    NoWorkflow,            \* no workflow
    OpOf,                  \* the type of each workflow
    Hosted,                \* workflows below the prefixes of the storage host
    MinEventsBetweenSnapshots,
    MaxSnapshotWorkflows,
    MaxEvents,             \* bound: events
    MaxLost                \* bound: broken streams and restarts

\* The types, in the order in which a loaded index is processed.
TypeOrder ==
    <<"du", "ping", "split", "freeze", "unfreeze", "archive", "unarchive">>
Types == {TypeOrder[i] : i \in DOMAIN TypeOrder}

ASSUME IndexAssumption ==
    /\ NoWorkflow \notin Workflows
    /\ OpOf \in [Workflows -> Types]
    /\ Hosted \subseteq Workflows
    /\ MinEventsBetweenSnapshots \in Nat /\ MaxSnapshotWorkflows \in Nat
    /\ MaxEvents \in Nat /\ MaxLost \in Nat

Daemons == {"regd", "stad", "rstd"}

VARIABLES
    log,      \* the events of the index
    epoch,    \* the number of events before the epoch
    wf,       \* the history of each workflow: none, running, completed, deleted
    snap,     \* a snapshot in progress: the version and the events
    daemon,   \* the activity of a daemon that watches the index
    lost      \* number of broken streams and restarts so far

vars == <<log, epoch, wf, snap, daemon, lost>>

\* The activity: the daemon, whether it has loaded the index, the position that
\* it has processed, the workflows to start, the one it waits for, and how often
\* it has started each workflow since the daemon started.
Idle(d) == [name |-> d, loaded |-> FALSE, pos |-> 0, todo |-> <<>>, wait |-> NoWorkflow,
         started |-> [w \in Workflows |-> 0]]

NoSnapshot == [at |-> 0, evs |-> <<>>]

Init ==
    /\ log = <<>>
    /\ epoch = 0
    /\ wf = [w \in Workflows |-> "none"]
    /\ snap = NoSnapshot
    /\ \E d \in Daemons : daemon = Idle(d)
    /\ lost = 0

\* Find(): what a reader without a version gets.
FromEpoch == SubSeq(log, epoch + 1, Len(log))

-----------------------------------------------------------------------------
(***************************************************************************)
(* Events and the aggregate.  An entry of a snapshot is a workflow and     *)
(* whether it is completed.                                                *)
(***************************************************************************)

SnapshotBegin == <<"SnapshotBegin">>
SnapshotState(entries) == <<"SnapshotState", entries>>
SnapshotEnd == <<"SnapshotEnd">>

EmptyIndex == [active |-> {}, completed |-> {}, nEvents |-> 0]

\* Advance(), for snapshots.
AdvanceSnapshot(st, ev) ==
    CASE ev[1] = "SnapshotBegin" ->
            [active |-> {}, completed |-> {}, nEvents |-> st.nEvents + 1]
      [] ev[1] = "SnapshotState" ->
            [active |-> st.active \cup {e[1] : e \in {x \in Range(ev[2]) : ~x[2]}},
             completed |-> st.completed
                              \cup {e[1] : e \in {x \in Range(ev[2]) : x[2]}},
             nEvents |-> st.nEvents + 1]
      [] ev[1] = "SnapshotEnd" -> [st EXCEPT !.nEvents = 0]

\* Advance(), for a workflow.
AdvanceWorkflow(st, ev) ==
    CASE ev[1] = "Started" ->
            [st EXCEPT !.active = @ \cup {ev[2]}, !.nEvents = @ + 1]
      [] ev[1] = "Completed" ->
            [active |-> st.active \ {ev[2]},
             completed |-> st.completed \cup {ev[2]}, nEvents |-> st.nEvents + 1]
      [] ev[1] = "Deleted" ->
            [st EXCEPT !.completed = @ \ {ev[2]}, !.nEvents = @ + 1]

Advance(st, ev) ==
    IF ev[1] \in {"SnapshotBegin", "SnapshotState", "SnapshotEnd"}
    THEN AdvanceSnapshot(st, ev) ELSE AdvanceWorkflow(st, ev)

Index == FoldLeft(Advance, EmptyIndex, FromEpoch)

Post(evs) == Len(log) + Len(evs) <= MaxEvents /\ log' = log \o evs

\* tellBeginDuRoot(), tellCommitDuRoot(), tellDeleteDuRoot() and the others: the
\* events.  A command that is idempotent posts none; one that is refused has no
\* effect either.
TellEphemeral(w) ==
    [Begin |-> IF w \in Index.active THEN <<>> ELSE <<<<"Started", w>>>>,
     Commit |-> IF w \in Index.active THEN <<<<"Completed", w>>>> ELSE <<>>,
     Delete |-> IF w \in Index.completed THEN <<<<"Deleted", w>>>> ELSE <<>>]

\* tellBeginFreezeRepo(), ...  Nobody deletes these workflows.
TellRepo(w) ==
    [Begin |-> IF w \in Index.active THEN <<>> ELSE <<<<"Started", w>>>>,
     Commit |-> IF w \in Index.active THEN <<<<"Completed", w>>>> ELSE <<>>]

Tell(w) ==
    IF OpOf[w] \in {"du", "ping", "split"} THEN TellEphemeral(w) ELSE TellRepo(w)

-----------------------------------------------------------------------------
(***************************************************************************)
(* The life of a workflow: its history and its entry in the index are      *)
(* changed one after the other.                                            *)
(***************************************************************************)

BeginWorkflow(w) ==
    /\ wf[w] = "none"
    /\ wf' = [wf EXCEPT ![w] = "running"]
    /\ UNCHANGED <<log, epoch, snap, daemon, lost>>

BeginIndex(w) ==
    /\ wf[w] = "running"
    /\ w \notin Index.active
    /\ Post(Tell(w).Begin)
    /\ UNCHANGED <<epoch, wf, snap, daemon, lost>>

\* The workflow is committed, aborted or expired.
EndWorkflow(w) ==
    /\ wf[w] = "running"
    /\ w \in Index.active
    /\ wf' = [wf EXCEPT ![w] = "completed"]
    /\ UNCHANGED <<log, epoch, snap, daemon, lost>>

CommitIndex(w) ==
    /\ wf[w] = "completed"
    /\ w \in Index.active
    /\ Post(Tell(w).Commit)
    /\ UNCHANGED <<epoch, wf, snap, daemon, lost>>

\* The garbage collector deletes first the history and then the entry.
DeleteWorkflow(w) ==
    /\ "Delete" \in DOMAIN Tell(w)
    /\ wf[w] = "completed"
    /\ w \in Index.completed
    /\ wf' = [wf EXCEPT ![w] = "deleted"]
    /\ UNCHANGED <<log, epoch, snap, daemon, lost>>

DeleteIndex(w) ==
    /\ wf[w] = "deleted"
    /\ w \in Index.completed
    /\ Post(Tell(w).Delete)
    /\ UNCHANGED <<epoch, wf, snap, daemon, lost>>

-----------------------------------------------------------------------------
(***************************************************************************)
(* Snapshots.                                                              *)
(***************************************************************************)

\* loadEvent(): the entries by order of start.
LoadEntry(entries, ev) ==
    CASE ev[1] = "SnapshotBegin" -> <<>>
      [] ev[1] = "SnapshotState" -> entries \o ev[2]
      [] ev[1] = "Started" -> Append(entries, <<ev[2], FALSE>>)
      [] ev[1] = "Completed" ->
            [i \in DOMAIN entries |->
               IF entries[i][1] = ev[2] THEN <<ev[2], TRUE>> ELSE entries[i]]
      [] ev[1] = "Deleted" -> SelectSeq(entries, LAMBDA e : e[1] # ev[2])
      [] OTHER -> entries

LoadIndexView == FoldLeft(LoadEntry, <<>>, FromEpoch)

\* duRootSorted(), ...: the entries of one type.
OfType(entries, type) == SelectSeq(entries, LAMBDA e : OpOf[e[1]] = type)

\* snapshot(): one event for each type that has entries.
SnapshotEvents ==
    LET states == [i \in DOMAIN TypeOrder |->
                     SnapshotState(OfType(LoadIndexView, TypeOrder[i]))]
    IN  <<SnapshotBegin>> \o SelectSeq(states, LAMBDA s : s[2] # <<>>)
            \o <<SnapshotEnd>>

\* tellSnapshot(): not if the latest event is a snapshot, not if the snapshot
\* would be large, and not if it would save little.
SnapshotLoad ==
    /\ snap = NoSnapshot
    /\ Index.nEvents > 0
    /\ Index.nEvents >= MinEventsBetweenSnapshots
    /\ Cardinality(Index.active \cup Index.completed) <= MaxSnapshotWorkflows
    /\ snap' = [at |-> Len(log), evs |-> SnapshotEvents]
    /\ UNCHANGED <<log, epoch, wf, daemon, lost>>

\* Faulty variant of SnapshotCommit: without version control.
SnapshotCommitNoVC ==
    /\ snap # NoSnapshot
    /\ Post(snap.evs)
    /\ snap' = NoSnapshot
    /\ UNCHANGED <<epoch, wf, daemon, lost>>

\* The snapshot is committed with the version that gc.snapshot() has read, and
\* is refused if the index has changed since.
SnapshotCommit ==
    /\ snap # NoSnapshot
    /\ IF snap.at = Len(log) THEN Post(snap.evs) ELSE UNCHANGED log
    /\ snap' = NoSnapshot
    /\ UNCHANGED <<epoch, wf, daemon, lost>>

\* IsNewEpoch(): every snapshot may become the epoch.
TrimEpoch ==
    /\ \E i \in epoch + 1 .. Len(log) :
          /\ i > epoch + 1
          /\ log[i] = SnapshotBegin
          /\ epoch' = i - 1
    /\ UNCHANGED <<log, wf, snap, daemon, lost>>

-----------------------------------------------------------------------------
(***************************************************************************)
(* The daemons.                                                            *)
(***************************************************************************)

\* pathIsEqualOrBelowPrefixAny(): pings are for every storage host.
Relevant(w) == OpOf[w] = "ping" \/ w \in Hosted

\* LoadWorkflowEvent() of an index view: `known' are the workflows whose events
\* it looks at.  Entries that are completed are skipped.
LoadActive(ids, ev, known) ==
    CASE ev[1] = "SnapshotBegin" -> <<>>
      [] ev[1] = "SnapshotState" ->
            LET open == SelectSeq(ev[2], LAMBDA e : ~e[2] /\ e[1] \in known)
            IN  ids \o [i \in DOMAIN open |-> open[i][1]]
      [] ev[1] = "Started" /\ ev[2] \in known -> Append(ids, ev[2])
      [] ev[1] = "Completed" -> SelectSeq(ids, LAMBDA w : w # ev[2])
      [] OTHER -> ids

\* Faulty variant of RegdLoad: snapshots are ignored.
RegdLoadNoState(ids, ev) ==
    IF ev[1] = "SnapshotState" THEN ids
    ELSE LoadActive(ids, ev, {w \in Workflows : OpOf[w] # "du"})

RegdLoad(ids, ev) == LoadActive(ids, ev, {w \in Workflows : OpOf[w] # "du"})
StadLoad(ids, ev) == LoadActive(ids, ev, {w \in Workflows : Relevant(w)})
RstdLoad(ids, ev) ==
    LoadActive(ids, ev, {w \in Hosted : OpOf[w] = "unarchive"})

\* WatchWorkflowEvent(): the workflow to start.
RegdWatch(ev) == ev[1] = "Started" /\ OpOf[ev[2]] # "du"
StadWatch(ev) == ev[1] = "Started" /\ Relevant(ev[2])
RstdWatch(ev) ==
    ev[1] = "Started" /\ OpOf[ev[2]] = "unarchive" /\ ev[2] \in Hosted

\* runDuRootWorkflow(), ...: whether the daemon waits for the end of the
\* activity.
RegdWaits(w) == FALSE
StadWaits(w) == OpOf[w] \in {"du", "ping", "split"}
RstdWaits(w) == FALSE

Load(d) ==
    CASE d = "regd" -> FoldLeft(RegdLoad, <<>>, FromEpoch)
      [] d = "stad" -> FoldLeft(StadLoad, <<>>, FromEpoch)
      [] d = "rstd" -> FoldLeft(RstdLoad, <<>>, FromEpoch)

Watches(d, ev) ==
    CASE d = "regd" -> RegdWatch(ev)
      [] d = "stad" -> StadWatch(ev)
      [] d = "rstd" -> RstdWatch(ev)

Waits(d, w) ==
    CASE d = "regd" -> RegdWaits(w)
      [] d = "stad" -> StadWaits(w)
      [] d = "rstd" -> RstdWaits(w)

\* processView(): one type after the other.
ProcessView(ids) ==
    FlattenSeq([i \in DOMAIN TypeOrder |->
                  SelectSeq(ids, LAMBDA w : OpOf[w] = TypeOrder[i])])

Ready == daemon.todo = <<>> /\ daemon.wait = NoWorkflow

\* ProcessRegistryWorkflowIndexEvents(), without a position.
LoadIndex ==
    /\ ~daemon.loaded
    /\ daemon' = [daemon EXCEPT !.loaded = TRUE, !.pos = Len(log),
                                !.todo = ProcessView(Load(daemon.name))]
    /\ UNCHANGED <<log, epoch, wf, snap, lost>>

StartActivity ==
    LET w == Head(daemon.todo)
    IN  /\ daemon.todo # <<>>
        /\ daemon.wait = NoWorkflow
        /\ daemon' = [daemon EXCEPT !.todo = Tail(@),
                        !.wait = IF Waits(daemon.name, w) THEN w ELSE NoWorkflow,
                        !.started[w] = @ + 1]
        /\ UNCHANGED <<log, epoch, wf, snap, lost>>

\* The activity quits.  It never does when the history has been deleted: it
\* gets an error and retries.
ActivityDone ==
    /\ daemon.wait # NoWorkflow
    /\ wf[daemon.wait] # "deleted"
    /\ daemon' = [daemon EXCEPT !.wait = NoWorkflow]
    /\ UNCHANGED <<log, epoch, wf, snap, lost>>

WatchIndex ==
    LET ev == log[daemon.pos + 1]
    IN  /\ daemon.loaded
        /\ Ready
        /\ daemon.pos < Len(log)
        /\ daemon' = [daemon EXCEPT !.pos = @ + 1,
                        !.todo = IF Watches(daemon.name, ev) THEN <<ev[2]>> ELSE <<>>]
        /\ UNCHANGED <<log, epoch, wf, snap, lost>>

\* Faulty variant of StreamBreaks: the activity starts from the epoch.
StreamBreaksToEpoch ==
    /\ daemon.loaded
    /\ Ready
    /\ lost < MaxLost
    /\ lost' = lost + 1
    /\ daemon' = [daemon EXCEPT !.loaded = FALSE, !.pos = 0]
    /\ UNCHANGED <<log, epoch, wf, snap>>

\* runRegistryWorkflowIndexActivity(): it starts after the last event that
\* has been processed, and loads the index if there is none.
StreamBreaks ==
    /\ daemon.loaded
    /\ Ready
    /\ lost < MaxLost
    /\ lost' = lost + 1
    /\ daemon' = [daemon EXCEPT !.loaded = daemon.pos > 0]
    /\ UNCHANGED <<log, epoch, wf, snap>>

Restarts ==
    /\ lost < MaxLost
    /\ lost' = lost + 1
    /\ daemon' = Idle(daemon.name)
    /\ UNCHANGED <<log, epoch, wf, snap>>

DaemonStep ==
    LoadIndex \/ StartActivity \/ ActivityDone \/ WatchIndex

Next ==
    \/ \E w \in Workflows :
          \/ BeginWorkflow(w) \/ BeginIndex(w)
          \/ EndWorkflow(w) \/ CommitIndex(w)
          \/ DeleteWorkflow(w) \/ DeleteIndex(w)
    \/ SnapshotLoad \/ SnapshotCommit \/ TrimEpoch
    \/ DaemonStep \/ StreamBreaks \/ Restarts

Spec == Init /\ [][Next]_vars

\* The engine of a daemon retries for ever, and an activity ends.  Nothing is
\* assumed of the workflows and the garbage collector.
FairSpec == Spec /\ WF_vars(DaemonStep)

-----------------------------------------------------------------------------
(***************************************************************************)
(* Properties.                                                             *)
(***************************************************************************)

\* What the events of workflow `w' say without any snapshot.
Latest(w) ==
    LET is == {i \in DOMAIN log : Len(log[i]) = 2 /\ log[i][2] = w}
    IN  IF is = {} THEN "none" ELSE log[Max(is)][1]

\* A snapshot never changes the index: whoever starts from the epoch finds the
\* same active and completed workflows as if it had read all events, although
\* workflows are started and completed while the snapshot is taken.
SnapshotKeepsIndex ==
    /\ Index.active = {w \in Workflows : Latest(w) = "Started"}
    /\ Index.completed = {w \in Workflows : Latest(w) = "Completed"}
    /\ LET entries == LoadIndexView
       IN  /\ {e[1] : e \in Range(entries)} = Index.active \cup Index.completed
           /\ Len(entries) = Cardinality(Range(entries))

\* A daemon starts at most one activity for a workflow: also if its stream
\* breaks, or if it has loaded a snapshot and then watches the events.
StartedOnce ==
    \A w \in Workflows : daemon.started[w] <= 1

IsFor(w) == Watches(daemon.name, <<"Started", w>>)

\* The daemon waits for an activity whose workflow has been deleted.
Blocked ==
    /\ daemon.wait # NoWorkflow
    /\ wf[daemon.wait] = "deleted"

\* Every daemon starts its activity for every workflow that stays active,
\* whatever is snapshotted and trimmed, unless it waits for a deleted workflow.
ActiveIsStarted ==
    \A w \in Workflows :
        IsFor(w) /\ w \in Index.active ~>
            daemon.started[w] > 0 \/ w \notin Index.active \/ Blocked

=============================================================================
