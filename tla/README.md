# A TLA+ model of the nog FSO backend

This directory specifies the core of the nog file system observer backend
(`src/backend`): the event-sourced storage that all its servers share, and the
protocols that are built on it.  Paths below are relative to
`src/backend/internal` unless they start with `cmd/`, `bin/` or `pkg/`, which
are below `src/backend`.

The modules are checked with TLC; the properties of the event storage, its
maintenance, the notifications, the lock map, the storage workflows, the
ephemeral workflows and the activity engines are also proved with TLAPS for every
value of the constants.
`PROJECT.json` maps every definition to the lines it models, and lists the
components, runs, hazards and theorems.

## 1. Inventory

The backend is a set of gRPC servers.  `nogfsoregd` keeps the state of
registries, repos and workflows; `nogfsostad` runs on storage hosts and changes
files; `nogfsorstd` restores archives; other daemons schedule scans, replicate
to Git, or serve users.  All persistent state of `nogfsoregd` consists of
histories of events in MongoDB.

| Component | State | Operations | Interacts with |
| --- | --- | --- | --- |
| Event journal (`events/journal.go`) | events, refs and journal collections | `Commit`, `Find` and its iterator, `Delete`, `Head`, `ensureJournal` | MongoDB; notifier |
| Trimmer, garbage collector (`events/trim.go`, `gc.go`) | epoch, tail and epoch log in refs; deletion phase | `Trim`; `GcEvents`, `GcJournalTail`, `GcDeletedRefs`, `GcDeletingJournals` | same collections, concurrently |
| Aggregate engine (`events/engine.go`) | cache of states per server | `FindId`, `TellIdVid`, `DeleteIdVid`, retry loop | journal |
| Notifier (`events/notifier.go`) | subscribed channels | `subscribe`, `unsubscribe`, `post`, `serve` | journal commits, streams |
| Event streams, waiting jobs, processors (`nogfsoregd/registryd`, `repoinit`) | what each has seen; its channel | subscribe, find, wait; tick; quit | notifier, shutdown of `cmd/nogfsoregd` |
| Registry and repo aggregates (`fsoregistry`, `fsorepos`) | paths, tiers, active workflows of a repo, stored error | create, init, move, storage operations, GitLab | engine |
| Freeze, unfreeze, archive, unarchive workflows (`workflows/*repowf`, `*/workflowproc`) | state code; an activity in each server; working directory, trash, placeholder | begin, files, tartt, swap, commit, abort, gc | registry, repo, index, storage host |
| Split-root, du-root, ping-registry workflows (`workflows/splitrootwf`, `durootwf`, `pingregistrywf`) | state code; suggestions and decisions; pings | append, commit, abort | activities, administrator, `wfgc` |
| Workflow index and garbage collection (`workflows/wfindexes`, `wfgc`) | active and completed workflows | begin, commit, delete, snapshot; expire | all workflows; the daemons |
| Activity engines (`process/*`) | task queues, retry times | signal, run, retry, stop | live broadcast |
| Live broadcast (`nogfsoregd/livebroadcastd`) | channels, pending signals | subscribe, merge, send | notifier, activity engines |
| Repo init, replication (`nogfsoregd/repoinit`, `replicate`) | how far each history has been read, in memory | commands to other aggregates per event | registry, repos, move workflows |
| Observers of the storage daemon (`nogfsostad/observer6`) | an activity per repo, chained; enabled repos | init, enable, disable, move | registry, repos, move workflows |
| Lock map (`pkg/lockmap`) | queue of waiters per key | `Lock` with a context, `Unlock` | `nogfsostad` |
| Storage daemon I/O, schedulers, authorization, command line tools, web applications, Python tools | | | |

What is hard here, and what the properties are about:

- MongoDB makes only operations on one document atomic, and a commit, a
  find, a deletion, a trim and a garbage collection are each several of them,
  done concurrently by several servers, any of which may stop in between.
- Engines cache states that other servers make stale.
- Notifications and live signals are dropped if a channel is full; whoever
  waits must not miss the last one.  Daemons stop in stages.
- A workflow changes four histories and the files of a host, one after the
  other, with retries after lost replies, so every step may be repeated, and
  several workflows may be started on the same repo.
- Nobody stores how far it has read: after a restart, processors and observers
  derive from the histories what they have done.
- The garbage collector ends and deletes workflows while others use them.
- A repo moves between two storage hosts, neither of which may serve it then.
- A waiter of a lock may be cancelled at the moment it gets the lock.

What makes each component correct, in short: the journal is a log to which
whole batches are appended, and finds return whole batches; maintenance removes
nothing that can still be read; an engine decides every command on the newest
state; nobody sleeps through a commit; a workflow has the effect it reports,
keeps the data, and finishes; the index says which workflows are active, and
every daemon works on each of them once; what is asked of the registry reaches
the repos and the storage hosts; a lock has one owner, and waiters get it.

## 2. Modules

| Module | Models | Extends |
| --- | --- | --- |
| `EventLog` | abstract specification: histories to which batches are appended, and which can be deleted | |
| `EventJournal` | `events/journal.go`, one action per database call | |
| `JournalMaintenance` | `events/trim.go`, `gc.go` | `EventJournal` |
| `AggregateEngine` | `events/engine.go` on an atomic log | |
| `EventStreams` | `events/notifier.go`, its subscribers, and the shutdown of `nogfsoregd` | |
| `LockMap` | `pkg/lockmap/lockmap.go` | |
| `WorkflowEvents`, `WorkflowAggregates` | `workflows/events`, and the aggregates of the seven ephemeral workflows as tables | |
| `StorageActivities` | tiers, gRPC methods and activities of freeze, unfreeze, archive, unarchive, as tables | `WorkflowAggregates` |
| `StorageWorkflow` | these workflows across registry, repo, index and storage host | `StorageActivities` |
| `EphemeralActivities` | gRPC methods, activities and garbage collection of split-root, du-root, ping-registry, as tables | `WorkflowAggregates` |
| `EphemeralWorkflow` | these workflows with administrator and collector | `EphemeralActivities` |
| `WorkflowIndex` | `wfindexes` with snapshots, and the daemons that watch the index | |
| `ActivityEngine` | `process/grpclazy`, `grpceager`, `grpccron` with `livebroadcastd` | |
| `RepoAggregates` | registry, repos, move-repo and move-shadow as state machines | |
| `RepoPipeline` | `repoinit` and `replicate` | `RepoAggregates` |
| `RepoObserver` | the observers of storage daemons | `RepoPipeline` |
| `MC*` | instances for TLC | |
| `*Proofs` | inductive invariants and proofs | |

Definitions with a comment *Faulty variant of X* are not part of a
specification.  They show that the properties are sensitive: with one of them
in the place of X, TLC finds the property violated (`mutants` in
`PROJECT.json`).

### EventJournal and EventLog

`stored` and `parent` are the events collection, `refs` the refs documents
(head, epoch, tail, serial of the head, phase of the deletion), `journal` the
serialized entries.  `cl[c]` is the call that goroutine `c` executes with its
local variables; `log` and `heads` are history variables.  Events are numbers,
because ULIDs are unique and grow; their content is left out.

- `Commit()`: `CommitBegin`, `StoreEvent` once per event, then `InsertHead` for
  the first commit or `UpdateHead`, the compare-and-set, and after a mismatch
  `CommitConflict`, which reads the head again.
- `Delete()`: `DeleteRefs`, `DeleteConflict`.
- `Find()`: `FindBegin`, then `ensureJournal()` as `WalkSerial`, `WalkEvent`
  (from the head down to a serialized event), `InsertEntry` (up again),
  `SetSerial`; `FindStart` resolves the start; `IterNext`, `IterEnd`.
- `Stop`: a call ends anywhere, because of an error or a crash of the server.

`HeadReachesLog`: the parents from the head are exactly the committed events.
`JournalIsPrefix`: serial numbers agree with positions, without gaps.
`NoJournalError`: the errors by which the code would report an inconsistent
journal do not happen.  `FindReturnsWholeCommits`: a find returns the events
after its start up to something that has been a head.  `ImplementsEventLog`:
the documents, mapped by `Chain` and `Status` to the events along the parents
from the head and the phase of the refs, implement `EventLog`.

### JournalMaintenance

Adds ages instead of clock times: `Tick` lets all ages grow, up to the
longest period anybody compares with.  The trimmer (`TrimBegin` to `TrimStop`)
advances tails to epochs that are old enough, then chooses new epochs; the
collector runs its four passes with each database call as an action, and may
stop anywhere.

`TailToHeadStored`: no event from the tail to the head is removed.
`UncommittedSurvive`: nor is one of a commit in flight.
`FindFailsOnlyBeforeTail`: removal of the journal's tail disturbs only finds
from before the tail.  `RemovedLeavesNoEntries`: after a deletion nothing is
left in the journal.

Assumptions, which the code makes too:

- A call lasts at most `CallTicks`, and that is at most the collector's
  `RecentDuration` and `DeletingDuration` and the trimmer's `SinceEpochUpdate`
  (`CallsAreShort`): the code's retention periods, of weeks, are much longer than
  a call.
- The trimmer writes right after it has read (guard of `Tick`).
- A scan of the events collection yields documents in insertion order, so it
  does not see an event without its parent (`GcScanned`).

### AggregateEngine

`log` is the history, one element per command: that commits are atomic and
finds return whole commits is what `EventJournal` shows.  `cache[e]` is the
cached state of engine `e` (one per server); a state is the sequence of commands
folded into it.  `call[c]` goes through lookup in the cache, find, cache write,
decision, commit, cache write, and for `RetryNoVC` back to the lookup.  A
commit may succeed while its reply is lost (`CommitLost`), any database call may
fail (`DBFails`), an engine may restart with an empty cache (`Restart`).  A
history id is not used again after the deletion; trimmed histories are left
out.

`StatesArePrefixes`: caches and results are states that the history has had.
`DecidedOnHead`: every commit and delete was decided on the state it replaces.
`SeesEarlierCommits`: a call sees every commit from before it began.
`RetriesLostToCommits`: every retry is due to a commit of somebody else.

### EventStreams

`head[h]` is the number of commits of history `h`.  A committer posts to the
notifier after its commit (`Commit`), unless the reply of the head update is
lost: then `Commit()` returns an error before the post
(`events/journal.go:335-343`, `CommitLost`).  The history variable `posted[h]` is
the number of the last commit of `h` that was followed by a post.  The notifier
sends to one subscriber after another.
A subscriber is a stream (`Events()` of `registryd`, with a ticker), a job
(`GetFreezeRepo()` with `JC_WAIT`, without a ticker, which waits for the last
commit of its history), or a processor (`Process()` of `repoinit`, subscribed to
all histories, with a queue of `QueueSize` and a ticker).  `level` is the
progress of the staged shutdown in `cmd/nogfsoregd`: cancel the servers and
stop them gracefully, then cancel the notifiers; a timeout cuts it short.
Receiving and running a subscribe or an unsubscribe is one step, because only
`serve()` touches the table.

`NoLostWakeup`: a stream or job that waits knows all posted commits of its
history, or has a signal in its channel, or one is on its way.  What it may miss
are commits that were not posted, see section 4.  `NobodyWaitsForStopped`: the
notifier stops after its users.  `ProcessorsCatchUp`, `ShutdownIsGraceful`:
liveness.

Not included: calls of `Events()` that do not watch, registries that the main
history has not confirmed, the third level of the shutdown (the listener of the
main process), and what processors do with the events.

### WorkflowEvents, WorkflowAggregates

Seven workflows have the same structure: an aggregate whose commands are
accepted in some states and idempotent in others, and whose events advance a
state code.  `X...Advance` and `X...Tell` are these functions for workflow `X`,
as tables, and `XNoVC` names the commands that are told without a version.  An
event is its type and whether its status code is 0.  The modules that run the
workflows interpret the tables.

### StorageActivities, StorageWorkflow

One repo.  `registry` and `repo` are its tier and workflow in the two
aggregates, `host` what is at its path, `dir[w]` the working directory of a
workflow with what is to be swapped in and the trash, `tar` the latest full
archive, `hist[w]` the events of the workflow with the states they lead to,
`index[w]` its entry in the index, `act[r][w]` the activity of a daemon: the
position up to which it has processed the history, the version it will give,
the steps it has yet to take, and its retries.  The tables say which steps
follow from which state; one action per step takes them.  Every command may
succeed with its reply lost (`Done`, `WfCommand`), fail without effect
(`Fails`), and daemons may restart (`Restarts`); `lost` counts all of these, up
to `MaxLost`.  The file operations fail and are repeated up to `MaxRetries`
times, in any state of the files in between.  The stored error of a repo, which
blocks the repo aggregate, comes and goes.  `Nogfsotard` is the external
archiver `bin/nogfsotard`: it archives the data of a frozen repo, and also a
placeholder.

`FilesHaveOneOwner`: the storage host works for one workflow at a time, and only
while registry and repo agree.  `FilesMatchTier`: online means writable, frozen
immutable, and archived a placeholder.  `ReportedMeansApplied`,
`FailedMeansNothingPending`: what a client is told has had its effect, or left
nothing behind.  `AggregatesAgree`: when nothing runs, registry and repo agree.
`DataIsKept` (action property): no step loses the data, and the trash is kept
until both aggregates have recorded the end.  `FilesMatchTier` and `DataIsKept` exempt histories in which a workflow has
accepted an archive of the placeholder, or is about to (`PlaceholderAccepted`,
`PlaceholderPending`), see section 4.
`FinishOrStuck` (liveness): a workflow finishes, or waits for a stored error to
be cleared, or is in one of three states that `Stuck` names.

### EphemeralActivities, EphemeralWorkflow

Here the activities, the administrator and the collector may all end the same
workflow.  `typ[w]` is one of the three types.  A call is a sequence of
commands to the workflow, the registry and the index; each is a step, and the
call may stop after each.  The result of `du` and the analysis are
nondeterministic.  The collector's periods are not modelled: it may always come
(`GcBegin`), which is when races are worst.  A storage daemon gives up its ping
only if the workflow refuses it (`Refused`), and retries after other errors.

`ReportIsFinal` (action property): what clients are told does not change.
`DecisionsApplied`: a recorded decision of a split-root has had its effect.
`SummaryIsComplete`: the summary counts all pings.  `WorkflowsAreCollected`
(liveness): every workflow is deleted in the end, including its index entry.

### WorkflowIndex

`log` is the history of the index with its snapshots, `epoch` where readers
start, `wf` the workflows, `snap` a snapshot in progress, `daemon` the activity
of one daemon: what it has loaded, its queue, the activity it waits for, and
how often it has started each workflow.  `SnapshotKeepsIndex`: reading from the
epoch gives the same as reading everything.  `StartedOnce`, `ActiveIsStarted`:
a daemon starts an activity for every active workflow, once.

### ActivityEngine

`kind` chooses the engine.  For the lazy engine, `task[t]` is the state of a
task with its mark and its goroutine, `ready` and `retry` the queues, `runner`
the goroutine that takes tasks, `watcher` the one that receives signals from
`srv`, the server side of the live broadcast with its channels, merged signals
and what is on the wire.  `missed` records updates that the server has dropped, or that were never posted
because the reply of the commit was lost.  An activity that returns an error
also returns a tail, which the engine stores (`FailedTails`).
`NoLostSignal`: a task that is behind will be woken, unless the update has been
dropped.  `TaskIsInOnePlace`: a task is in one queue or has one goroutine.
`TasksCatchUp`, `EngineStops`: liveness, with the exceptions of section 4.

### RepoAggregates, RepoPipeline, RepoObserver

`log[x]` is the history of the registry, a repo, a move-repo or a move-shadow
workflow, `st[x]` its state.  `ri` and `rp` are the processors of `nogfsoregd`,
with how far they have got in each history, which a restart forgets.  A handler
calls several aggregates, one step each.  A move may keep the global path, and
then changes only where the files are (`unchanged`).  `ob[s]` are the activities of storage
daemon `s`; those for a repo form a chain, in which the next one starts when the
one before has quit.  `enabled[s][r]` is where `s` serves the repo.  Requests,
lost replies, failed inits and restarts happen at any time within `MaxRequests`
and `MaxFaults`.

`ReplicatedBeforeTail`: `replicate` passes an event only after its effects,
also if a restart derives the position.  `MovedWhileDisabled`: files do not move
while a daemon serves them.  `QuietMeansSettled`: when no processor and no
observer has a step left, all requests have been carried out and the right
daemon serves the repo, unless one of the ways to get stuck applies that `Stuck`
names.  This is the quiescence form of progress: a state in which nothing
happens any more is a good one.

### LockMap

One key; sections under the mutex are steps.  `waiters` is the buffered channel,
in which cancelled waiters remain as dead entries and count toward
`MaxWaiters`.  `LockHasOneOwner`, and under fairness `WaitersAreServed`.

## 3. Runs

Distinct states on the given instance in parentheses.

| Run | Instance | Shows |
| --- | --- | --- |
| `journal` (265,521) | 1 history, 2 clients, 3 events, batches of 2 | the properties of `EventJournal` and the refinement of `EventLog` |
| `maintenance` (1,630,628) | 1 client, 2 events, 2 epochs, all periods 1 | trimmer, collector, commits, finds and deletions together |
| `deletion` (1,057,510) | 2 clients, 1 event | finds racing with the removal of a deleted history |
| `engine` (1,923,149) | 2 engines, 2 callers, 1 retry, 3 commits | the properties of `AggregateEngine` |
| `lockmap` (57,379) | 4 goroutines | owner and progress, under fairness |
| `streams` (250,268) | 2 histories, 2 commits of the one that the job reads and 1 of the other, 1 committer, a job, a processor, queue of 1 | safety and progress of `EventStreams`, under fairness |
| `storage` (556,268) | 2 freezes, 1 unfreeze with versions, 1 retry, 1 loss | competing workflows: one owner, nothing pending after a failure, agreement |
| `archive` (150,217) | 1 archive with versions, 1 unarchive, 1 retry, 1 loss | files, reports, data, and progress, under fairness |
| `ephemeral` (187,980) | 1 workflow of any of the three types, 1 directory, 1 ping per server, 1 loss | the properties of `EphemeralWorkflow`, under fairness |
| `index` (102,428) | 1 du-root, 1 unarchive, 1 event between snapshots, 2 workflows per snapshot, 8 events, 1 loss | the properties of `WorkflowIndex`, under fairness |
| `activities` (160,510) | 2 tasks on one entity, and another entity, queues, pending signals and tokens limited to 1, 1 event, 1 loss | the properties of `ActivityEngine` for all three engines, under fairness |
| `pipeline` (217,372) | 1 repo, 2 storage daemons with a root each, 1 move, 1 move of the shadow, 2 requests, 1 fault | the properties of `RepoObserver` |

Why the bounds are enough.  The journal: two clients give every race between
two calls, including two serializations of different heads; three events with
batches of two give a commit of several events on top of another commit.
Maintenance: with all periods 1, everything happens just before and just after
its time; two epochs make the tail move twice.  `deletion` needs a second
client, since the one that deletes is not the one whose find is late.
Engine: three commits make a command lose twice, more than the retries allow.
Streams: of two histories, the signal of one is dropped while that of the other
is queued; of the two commits that the job may see, one may be posted and the
reply of the other lost, in either order.  The run has no stream of kind `Events()`, whose ticker only adds
wakeups; the theorems of `EventStreamsProofs` include it.  Storage: two of a kind
compete for the repo and a third of the other kind may follow; one loss at any
step makes every command the one that is repeated.  Archive: the unarchive may
follow the archive, precede it or overlap with it, and every initial tier is a
start.  Ephemeral: the races are between the parties of one workflow; a second
workflow only adds commits to the shared registry and index, which
`OthersCommit` and `OthersInitRepo` stand for.  Index: the two types are of the
two ways in which daemons run activities, one after the other and in parallel;
eight events are two full lives of the workflows with snapshots in between.
Activities: all queues overflow with the second signal.  Pipeline: the second
request comes at any point of the first, for example a move of the shadow during
a move of the repo, and the fault is a restart or a lost reply at any point.

Symmetry is used in safety runs only, over sets that no property tells apart.
Deadlock is checked in the first six runs.  In the other six the system may
rest: all workflows are finished or deleted, the engine has stopped, or the
requests are carried out.

Fairness.  `LockMap`: goroutines that can run do, and holders release the lock;
contexts need not be cancelled.  `EventStreams`: weak fairness of the goroutines'
steps and tickers, strong fairness of noticing the shutdown, since Go's `select`
picks among ready cases at random and so does not ignore one forever; nobody has
to commit, call or cancel.  `ShutdownIsGraceful` exempts jobs that keep waiting:
they do not watch the server's context (`nogfsoregd/registryd/freeze-repo.go:355`),
so the shutdown takes until its timeout if their event does not come.
`StorageWorkflow`: weak fairness of each activity, since activities are
retried without a limit, of entering a created workflow into the index, and of
`nogfsotard`, which runs regularly.  Losses are bounded, so they do not go on
forever; stored errors need not be cleared.  `EphemeralWorkflow`: the call that
starts a workflow ends, a run of the collector ends, and it comes to every
workflow again and again, although others get in between (strong fairness of
`GcBegin`); nothing is assumed of activities and administrator.
`WorkflowIndex`: the daemon takes its steps.  `ActivityEngine`: the goroutines
run; strong fairness of the retry timer, whose `select` competes with other
cases.

## 4. Where code and documentation disagree, and other observations

No listed run is expected to fail: where the code leaves a state in which nobody
makes progress, the properties name that state, so that there is no other.  For
these states the properties are documentation: `FinishOrStuck`, `TasksCatchUp`,
`EngineStops`, `ActiveIsStarted`, `NoLostSignal`, `MovedWhileDisabled` and
`QuietMeansSettled` would not notice if one of them became more frequent, or went
away; they show that the rest of the behaviour is as it should be.

Named by `Stuck` in `StorageWorkflow`:

- A repeated commit is refused after a lost reply, because the idempotent case
  names the wrong tier: `CommitArchiveRepo` (`fsoregistry/fsoregistry.go:2178`,
  `Frozen` instead of `Archived`) and `CommitUnfreezeRepo` (`:2047`,
  `UnfreezeFailed` instead of `Online`).  `doCommitAndQuit()`
  (`nogfsoregd/workflowproc/freeze-repo.go:316`) also retries a refused commit
  forever if another workflow has begun meanwhile, although
  `workflows/freezerepowf/freeze-repo.go:312` says "Ok to abort if some CommitX
  fails."
- The restored files are in place but the commit was lost: the repetition looks
  for them in the working directory
  (`nogfsostad/workflowproc/unarchive-repo.go:344`).
- An archive that gives a stale repo version is retried forever.

Named by `PlaceholderAccepted`: `bin/nogfsotard` (449-512) archives whatever is
at the path, also a placeholder, when a branch other than `master-stat` has
changed.  If the repo is unarchived and archived again before its next full
archive, the latest archive counts as "single full archive that is suitable for
long-term data preservation" (`bin/nogfsotard:28`), and the data are removed
with the trash.  Without the exemption, TLC finds this loss as a violation of
`DataIsKept`.  A second way to it takes two archives, more than the run has; the
proof of `DataKept` brought it up, and `PlaceholderPending` names it.  The first
archive fails after the swap and leaves its placeholder, the trash is collected
after its delay, `nogfsotard` archives the placeholder, and the second archive
begins.  Likewise, two unarchives are needed to see that a restored placeholder
makes a repo that is online differ from its tier (`FilesMatchTier`).

Named by `posted` in `EventStreams`: "Subscribe first, then find to ensure that
no event is lost" (`nogfsoregd/registryd/freeze-repo.go:332`), but a commit whose
reply was lost is in the history and not posted (`events/journal.go:335-343`).
A stream or a processor finds it with its next tick.  A job with `JC_WAIT` has no
ticker: if the commit is the one that it waits for, it waits until the next
commit to its history is posted, or until its caller gives up.

Named in `ActivityEngine`:

- `missed`: "After the stream has been established, signal all tasks to run.
  This ensures that tasks run at least once for new events"
  (`process/grpclazy/grpclazy.go:330`), but `AggregateSignals()` returns before
  the server has subscribed, so an update in between is not signaled; nor is one
  that is dropped at a full channel (`nogfsoregd/livebroadcastd/livebroadcastd.go:96`),
  nor one whose commit was not posted.
- `Deadlocked`: `wgWait()` (`grpclazy.go:422`) holds the mutex that the
  goroutines it waits for need.  So a lazy engine stops only if all of them have
  returned before; `EngineStops` says so, and otherwise is about the order of the
  shutdown and the other two engines.
- `WaitsForToken`: a stream of the eager engine keeps its token, so tasks beyond
  the limit never run.  No daemon uses this engine.
- `Len()` of the live broadcast (`livebroadcastd.go:222`) does not count
  ephemeral workflows, so their pending signals are not limited.

Named by `Blocked` in `WorkflowIndex`: the storage daemon waits for a workflow
that has been deleted before its activity loaded it, with others queued behind.

Named by `Stuck` in `RepoObserver`:

- `RepoinitBlocked`: a root is removed while a repo is pending, then a restart;
  GitLab is enabled before the repo is initialized, then a restart
  (`nogfsoregd/repoinit/repoinit.go:360`).  All later repos wait too.
- `ReplicateBlocked`: the move-shadow workflow is initialized and a crash
  precedes the post to the registry, while the storage daemon goes on
  (`nogfsoregd/replicate/replicate.go:1013-1032`): the repeated init is a
  conflict.  A `RepoMoved` event rewinds the position in the repo (`:588`), and
  the repeated post is refused until a restart.  The registry's `CommitMoveRepo`
  with a lost reply is refused likewise.
- `MoveMissed`: a move that starts between `loadRepo()` and the poll in init
  mode is ignored, although "First subscribe, then init, so that no events are
  lost".
- `AcquireLost`: a daemon that loads the registry during a move of a foreign repo
  starts the acquire activity without a repo id
  (`nogfsostad/observer6/registry.go:154`).
- `LoadSkipped`: an activity that loads a pending workflow does "nothing else.
  Assume that the repo was fully initialized"
  (`observer6/watch-repo.go:149`), so a GitLab init or a second workflow loaded at
  the same time waits for a restart.  So does a repo that moves between two
  places of the same daemon, for example to the same path, if the daemon restarts
  at the end of the move: the activity that loaded the repo in the move releases
  it and quits, and the one that is to acquire it loads the repo after
  `RepoMoved`, when it does not enable it but waits for that event
  (`observer6/watch-repo.go:162-179`).

`AcquireLost` and `LoadSkipped` are wide: they last until the daemon restarts, so
`QuietMeansSettled` says nothing of the repo until then, also not about what is
asked for later.

`MovedWhileDisabled` states what remains true: an activity that waits to acquire
a repo handles all its events, so it may serve the repo early, and may answer
for the other daemon when the shadow moves.  The latter is exempt
(`TwoActivities`) only where a repo that has been moved can have two activities:
if the shadow began to move before the move of the repo had ended, or after a
fault.  After a restart in a move, the releasing daemon may enable the repo
again; `Settled` exempts it.

Further observations, which the models contain but no property asks for:

- `RetryNoVC` does not retry the loser of two first commands, which gets a
  `DBError` (`events/journal.go:281`), although "retry the command a few times if
  committing events fails due to a concurrent update" (`events/engine.go:105`).
- `GcEvents()` reads the refs after the events and ends with a
  `CorruptedDataError` if a commit came in between (`events/gc.go:264`), although
  the event is stored; it removes nothing then (`GcMark`).
- A delete with a version succeeds on a history that another server has
  deleted, if the cache still has it (`events/engine.go:307`), although "the
  history must exist" (`events/engine.go:244`) (`DeleteConflict`).
- A restart between completing a workflow and updating its index entry leaves
  the entry active; a server that stops between creating a workflow and entering
  it into the index leaves it orphaned, without an effect on the repo.  So does a
  concurrent commit to the index for du-root and ping-registry.
- `AppendDus` and other commands of split-root ignore the version that the caller
  gives.  A split-root whose abort is repeated after another commit is stuck on
  an unknown workflow.
- `GetUnarchiveRepo()` with `JC_WAIT` does not take `StateTarttFailed` for an end.
- `workflows/archiverepowf/doc.go` says that the start of the swap is saved before
  the placeholder is prepared; the code prepares it first.
- An archive that is aborted after the swap leaves the placeholder in place; after
  the delay, the data are only in the archive that the failed workflow recorded.
- The destination of a move is not reserved (`tellBeginMoveRepo`).
- `conflictsWith()` (`fsoregistry/fsoregistry.go:1674`) compares `MinDiskUsage` in
  the clause for `MaxDiskUsage` (not modelled).

## 5. Proofs

All theorems have the form `Spec => []P`, except the action properties `DataKept`
and `ReportsAreFinal` and the refinement `JournalImplementsLog`, and hold for every number of clients,
histories, engines, workflows, goroutines and so on.  They assume only what the
modules' `ASSUME`s say: bounds are natural numbers, some sets are not empty,
capacities are positive, the set of tasks is finite, and calls are shorter than the periods of the collector and the trimmer.
Each inductive invariant was checked by TLC on the instances of section 3 before
it was proved.

- `EventJournalProofs`: `TypeCorrect`, `CommitsAreChained`,
  `JournalAgreesWithLog`, `JournalErrorsImpossible`, `FindIsExact`.  The
  inductive invariant has three layers, each proved on top of the one before.
  `TypeInv` adds to the types where each local variable is meaningful.
  `StoreInv` says that parents are older than their events, that events of a
  commit in flight are stored in order and belong to one client, that the head
  is the last of `log`, and that the events of `log` are chained.  It is needed
  since a commit stores its events long before it moves the head.
  `JournalInv` says of every find how far its walk has come, what the entries
  below it are, and that what it has read so far is a segment of the log: the
  entries of concurrent serializations agree only because they number the same
  chain.  `JournalImplementsLog` is the refinement `ImplementsEventLog`:
  `ChainIsLog` shows that the recursive function behind `Chain`, which follows
  the parents, exists and yields `log` (by the least event at which it would
  not), `FreshInv` adds that events that are not committed yet belong to one
  call, and then each step appends a batch, deletes a history, or stutters.
- `JournalMaintenanceProofs`: `TailToHeadIsKept`, `UncommittedIsKept`,
  `RemovedJournalIsEmpty`, `FindsFailOnlyBeforeTail`, and `MaintenanceIsSafe` for
  the inductive invariant of the first three.
  `TimeInv` relates the ages of calls, epochs and deletions: a find that the
  trimmer or a client still executes is younger than any period the collector
  waits for.  `LogInv` is `StoreInv` without the events that have been removed,
  since it speaks only of parents.  `EpochInv` says that epochs and tails are events
  of the history, in order, and what the trimmer's local variables know of them.
  `GcInv` says what the collector has seen: whatever is between a tail and its
  head, or recent, is painted black once the pass that paints it is over, because
  a stroke that reaches an event reaches its parents (by the least event that
  it would leave out); so what is swept is neither.  `UncommittedSurvive` needs
  that a commit in flight is younger than `RecentDuration`, and
  `RemovedLeavesNoEntries` that no find that began before a deletion is left
  after `DeletingDuration`.  `FindsFailOnlyBeforeTail` rests on four more layers
  (`ReadsAreSafe`).  `AgeInv`: tails are epochs of more than `SinceEpochUpdate`, and
  the epoch that a find starts at was the last one when it began; calls being
  shorter, no tail passes a running find (`TailBeforeEpoch`).  `EntryInv`:
  entries may be missing, but from the tail on there is none without those
  before it, and the collector has positions before the tail in hand (`GcSerial`).
  `ReadInv` is `JournalInv` for such journals: where the walk and the iterator
  of each find are.  So a lookup or a parent that does not fit is before the tail
  (`StartFails`, `NextFails`), and `FailInv` keeps for a failed call that its
  version is before an epoch that old, which stays in the epoch log.
- `AggregateEngineProofs`: `EngineTypeCorrect`, `CachesHoldPastStates`,
  `NoLostUpdates`, `FindIdIsFresh`, `RetriesMakeProgress`.  The invariant says
  that each cache and each local state is a prefix of the log, and per program
  counter how long that prefix is at least: what the call had to see, plus one
  commit per retry.
- `StorageWorkflowProofs`: `OneOwner`, `ReportIsApplied`, `NothingPending`,
  `TiersAgree`, from two layers.  `FlowInv` (`FlowInvariant`) speaks of one
  workflow: which histories its tables allow, how its index entry follows, and
  for each daemon, which steps it may still have to take, given how far it has
  read the history.  `LockInv` (`LockInvariant`) speaks of all of them together:
  the workflow of the repo is that of the registry or there is none, and from
  what is still to do for a workflow it follows whether it must, may or cannot
  be named in either.  Commands may be applied with their reply lost, so the
  invariant cannot tie the steps left to what the aggregates have recorded; it
  says which of the two are possible together.
  `TierIsTrue` and the action property `DataKept` follow from a third layer
  `FilesInv` (`FilesInvariant`).  It says of each workflow what its working
  directory and trash hold, and of the workflow that owns the repo what is at the
  path, per position of the storage daemon in the history, with each step possibly
  done and repeated; and where the data are as long as no placeholder has been
  accepted as an archive.
- `EphemeralProofs`: `DecisionsAreApplied`, `SummariesAreComplete` and the action
  property `ReportsAreFinal`, from `EphInv` (`EphInvariant`), which has one part
  per history and one per activity.  `GoodHist` says what the events of a history
  carry, that every decision in it has had its effect, that its summaries
  count its pings and that no ping follows a summary, and that the state of a
  split-root that has ended agrees with its status.  `GoodAct` says which steps a
  role may have ahead: a decision comes after the step that applies it
  (`Deciding`), and who is about to post a summary holds the number of pings of
  the version that it has read (`Summing`), so that the post fails if there has
  been another event.  The lemmas on the tables show that every alternative of
  every view, every call and every run of the collector yields such steps, and
  that losing, failing and restarting keep it.  `ReportsAreFinal` needs in addition
  which commands each state accepts (`StepMoves`): an expiry only before the end.
- `LockMapProofs`: `LockTypeCorrect`, `MutualExclusion`, `NoWaiterIsForgotten`.
  The invariant relates queue entries and goroutines: an entry that is alive
  belongs to a goroutine that waits and does not own the lock, at most one per
  goroutine, and every waiter that does not own the lock has one.
- `ActivityEngineProofs`: `OnePlace`, `SignalsWake`, from `EngineInv`
  (`EngineInvariant`).  `PlaceInv` says which queue, or which goroutine, has a
  task in each of its states, and that the queues hold a task once; `WakeInv`
  says of a task that is behind its entity who is going to wake it: the notifier
  with an update, the server with a token, the watcher with a signal, or the
  goroutine that still has to look at `wantRun`.  The lemmas on `Those` say that
  splitting the retry queue keeps both.
- `EventStreamsProofs`: `StreamsTypeCorrect`, `WakeupsAreNotLost`,
  `UnsubscribeIsFinal` (no signal after `unsubscribe()`), `NotifierStopsLast`.
  The invariant says who is subscribed at which program counter, that at most
  one committer's post is being sent and to whom it is still to be sent, that
  nobody is left when the notifier is cancelled, and extends `NoLostWakeup` to
  the time between find and wait: from the subscription on, what has been posted
  and not been seen is in the channel or on its way.

Only model-checked, and why:

- All liveness: `WaitersAreServed`, `ProcessorsCatchUp`, `ShutdownIsGraceful`,
  `FinishOrStuck`, `WorkflowsAreCollected`, `ActiveIsStarted`, `TasksCatchUp`,
  `EngineStops`.  The provers have no rule for fairness and `ENABLED`.
- `SnapshotKeepsIndex` and `StartedOnce` of `WorkflowIndex`.  The states of the
  index are folds over histories of any length; an invariant would have to relate
  the folds of a history and of its snapshots, which is an induction over data.
- `ReplicatedBeforeTail`, `MovedWhileDisabled` and `QuietMeansSettled` of
  `RepoObserver`.  No prover is in the way of these; their invariant, over four
  histories and the positions of four processes in them, has not been written.
- The type invariants of these modules.

## 6. Not modelled

`PROJECT.json` lists every component with the reason.

- MongoDB, gRPC, Git, tartt and the file system appear only as far as the code
  depends on them.
- Registry init, the main registry, unix domains and `statdsd`: further
  aggregates and relays of the same shape, on one history each.
- Of the registry and repo aggregates: naming rules, ACL policies, split
  configurations, tartt settings, archive recipients.
- Shadow repos, discovery, sessions, tartt and stat servers of the storage
  daemon, schedulers, Git-to-nog, domain and sudo daemons: I/O with little state
  of their own.
- Authorization, formatting, configuration; command line tools and web
  applications, which are clients; the older Meteor system, which is another
  program.

## 7. Plan

The order follows how much of the system depends on a part: storage, what is
built directly on it, then the protocols; all of these have modules now.  Left:

1. Proofs: the properties of `RepoObserver`.
2. Unix domains and registry init as further instances of the pattern of
   `RepoPipeline`; the broadcast history as another subscriber in
   `EventStreams`.
