--------------------------- MODULE ActivityEngine ---------------------------
(***************************************************************************)
(* The engines that run the activities of a daemon: tasks that process the *)
(* events of an entity of nogfsoregd.                                      *)
(*                                                                         *)
(*   lazy   A task runs if there are new events and then sleeps.  The      *)
(*          engine watches the live broadcast, which signals entities that *)
(*          have been updated.                                             *)
(*   eager  A task has a goroutine with a stream that remains open.        *)
(*   cron   All tasks run in regular intervals.                            *)
(*                                                                         *)
(* The server of the live broadcast subscribes to the journals with        *)
(* channels that drop what does not fit, merges the signals, and sends     *)
(* them when the stream accepts them.                                      *)
(***************************************************************************)
EXTENDS Naturals, Sequences, SequencesExt, FiniteSets

CONSTANTS
    Tasks, Entities,
    EntityOf,         \* the entity of each task
    TypeOf,           \* the journal of each entity
    QueueSize,        \* ConfigUpdatesQueueSize
    MaxPending,       \* ConfigMaxPendingSignalsLen
    StreamLimit,      \* tokens of the stream limiter
    MaxEvents,        \* bound: events of an entity
    MaxLost           \* bound: errors of streams

Types == {"registry", "repo", "workflow", "ephemeral"}
Kinds == {"lazy", "eager", "cron"}

ASSUME EngineAssumption ==
    /\ IsFiniteSet(Tasks)
    /\ EntityOf \in [Tasks -> Entities]
    /\ TypeOf \in [Entities -> Types]
    /\ QueueSize \in Nat \ {0} /\ MaxPending \in Nat
    /\ StreamLimit \in Nat \ {0} /\ MaxEvents \in Nat /\ MaxLost \in Nat

VARIABLES
    kind,      \* the kind of the engine
    events,    \* the number of events of each entity
    srv,       \* the server of the stream of signals
    watcher,   \* the goroutine of the engine that watches signals
    task,      \* the tasks
    runner,    \* the goroutine that starts tasks: pc and the tasks that it took
    ready,     \* readyTasks
    retry,     \* retryTasks
    notifyRun, \* the channel has a message
    ctx,       \* running, canceled, waiting for goroutines, stopped
    missed,    \* entities whose latest update has not been signaled
    lost       \* number of errors so far

vars == <<kind, events, srv, watcher, task, runner, ready, retry, notifyRun,
          ctx, missed, lost>>
server == <<srv, missed>>
queues == <<ready, retry, notifyRun>>

NewTask == [state |-> "none", signal |-> FALSE, go |-> "no", seen |-> 0, tail |-> 0]
NoStream == [state |-> "none", chan |-> [y \in Types |-> <<>>], sigs |-> {}, wire |-> {}]

Init ==
    /\ kind \in Kinds
    /\ events = [e \in Entities |-> 0]
    /\ srv = NoStream
    /\ watcher = "connect"
    /\ task = [t \in Tasks |-> NewTask]
    /\ runner = [pc |-> "run", ts |-> <<>>]
    /\ ready = <<>> /\ retry = <<>> /\ notifyRun = FALSE
    /\ ctx = "running"
    /\ missed = {}
    /\ lost = 0

Fails == lost < MaxLost /\ lost' = lost + 1

-----------------------------------------------------------------------------
(***************************************************************************)
(* Journals and the live broadcast.                                        *)
(***************************************************************************)

\* notify(): the id is dropped if the channel is full.
Send(ch, e) == IF Len(ch) < QueueSize THEN Append(ch, e) ELSE ch

\* The signal of `e' is in a channel, merged or on its way.
InFlight(s, e) ==
    \/ e \in Range(s.chan[TypeOf[e]])
    \/ e \in s.sigs
    \/ e \in s.wire

\* post(): the server of the stream is notified.
Notified(e) ==
    IF srv.state = "subscribed"
    THEN [srv EXCEPT !.chan[TypeOf[e]] = Send(@, e)] ELSE srv

\* Commits, until the daemon shuts down.  Commit() does not post if the reply of
\* the database is lost.  `missed' records an update that reaches nobody although
\* the watcher has already signaled all tasks.
Commit(e) ==
    /\ events[e] < MaxEvents /\ ctx = "running"
    /\ events' = [events EXCEPT ![e] = @ + 1]
    /\ srv' \in {srv, Notified(e)}
    /\ missed' = IF watcher = "recv" /\ ~InFlight(srv', e)
                 THEN missed \cup {e} ELSE missed \ {e}
    /\ UNCHANGED <<kind, watcher, task, runner, queues, ctx, lost>>

\* AggregateSignals(): it subscribes when the call has reached the server.
Subscribe ==
    /\ srv.state = "called"
    /\ srv' = [srv EXCEPT !.state = "subscribed"]
    /\ UNCHANGED <<kind, events, watcher, task, runner, queues, ctx, missed, lost>>

\* Len(): without the ephemeral workflows.
PendingLen(sigs) == Cardinality({e \in sigs : TypeOf[e] # "ephemeral"})

\* SetRepoUpdate(), ...
SetUpdate(y) ==
    /\ srv.state = "subscribed"
    /\ srv.chan[y] # <<>>
    /\ PendingLen(srv.sigs) <= MaxPending
    /\ srv' = [srv EXCEPT !.chan[y] = Tail(@), !.sigs = @ \cup {Head(srv.chan[y])}]
    /\ UNCHANGED <<kind, events, watcher, task, runner, queues, ctx, missed, lost>>

\* AsPb(): the pending signals are sent in one message.
SendSignals ==
    /\ srv.state = "subscribed"
    /\ srv.sigs # {} /\ srv.wire = {}
    /\ PendingLen(srv.sigs) <= MaxPending
    /\ srv' = [srv EXCEPT !.wire = srv.sigs, !.sigs = {}]
    /\ UNCHANGED <<kind, events, watcher, task, runner, queues, ctx, missed, lost>>

\* ResourceExhausted: the stream ends; the client receives the error.
TooManyPending ==
    /\ srv.state = "subscribed"
    /\ PendingLen(srv.sigs) > MaxPending
    /\ srv' = NoStream
    /\ watcher' = "wait"
    /\ UNCHANGED <<kind, events, task, runner, queues, ctx, missed, lost>>

-----------------------------------------------------------------------------
(***************************************************************************)
(* The lazy engine.  A section that holds the mutex is one step; none is   *)
(* taken while the engine waits for its goroutines with the mutex locked.  *)
(***************************************************************************)

Unlocked == ctx # "waiting"

\* Faulty variant of SignalTasks: a running task is put in the queue.
SignalTasksRunning(ts) ==
    LET wake == {t \in ts : task[t].state \in {"Sleeping", "Running"}}
    IN  /\ task' = [t \in Tasks |->
                      IF t \in wake THEN [task[t] EXCEPT !.state = "Ready"] ELSE task[t]]
        /\ ready' = ready \o SetToSeq(wake)
        /\ notifyRun' = (notifyRun \/ wake # {})

\* signalTasksLocked(): a task that is ready or will be retried runs anyway.
SignalTasks(ts) ==
    LET wake == {t \in ts : task[t].state = "Sleeping"}
        mark == {t \in ts : task[t].state = "Running"}
    IN  /\ task' = [t \in Tasks |->
                      CASE t \in wake -> [task[t] EXCEPT !.state = "Ready"]
                        [] t \in mark -> [task[t] EXCEPT !.signal = TRUE]
                        [] OTHER -> task[t]]
        /\ ready' = ready \o SetToSeq(wake)
        /\ notifyRun' = (notifyRun \/ wake # {})

\* watchSignals(): the call returns when the request has been sent.
WatchSignals ==
    /\ kind = "lazy" /\ ctx = "running"
    /\ watcher = "connect"
    /\ \/ /\ watcher' = "opened"
          /\ srv' = [NoStream EXCEPT !.state = "called"]
          /\ UNCHANGED lost
       \/ /\ watcher' = "wait"
          /\ Fails
          /\ UNCHANGED srv
    /\ UNCHANGED <<kind, events, task, runner, queues, ctx, missed>>

SignalAllTasks ==
    /\ watcher = "opened" /\ Unlocked
    /\ SignalTasks({t \in Tasks : task[t].state \notin {"none", "Gone"}})
    /\ watcher' = "recv"
    /\ missed' = {}
    /\ UNCHANGED <<kind, events, srv, runner, retry, ctx, lost>>

SignalTasksOfEntity ==
    /\ watcher = "recv" /\ ctx = "running"
    /\ srv.wire # {}
    /\ SignalTasks({t \in Tasks : EntityOf[t] \in srv.wire})
    /\ srv' = [srv EXCEPT !.wire = {}]
    /\ UNCHANGED <<kind, events, watcher, runner, retry, ctx, missed, lost>>

\* The stream of signals ends with an error.
StreamFails ==
    /\ watcher = "recv" /\ ctx = "running"
    /\ Fails
    /\ srv' = NoStream
    /\ watcher' = "wait"
    /\ UNCHANGED <<kind, events, task, runner, queues, ctx, missed>>

\* watchSignalsRetry(): after ConfigRetryWatchSignalsWaitSeconds.
WatchSignalsRetry ==
    /\ watcher = "wait" /\ ctx = "running"
    /\ watcher' = "connect"
    /\ UNCHANGED <<kind, events, server, task, runner, queues, ctx, lost>>

\* addNewTask() and appendReadyLocked().
AddNewTask(t) ==
    /\ kind = "lazy" /\ ctx = "running"
    /\ task[t].state = "none"
    /\ task' = [task EXCEPT ![t].state = "Ready"]
    /\ ready' = Append(ready, t)
    /\ notifyRun' = TRUE
    /\ UNCHANGED <<kind, events, server, watcher, runner, retry, ctx, lost>>

\* takeReadyTasks().
TakeReadyTasks ==
    /\ kind = "lazy" /\ Unlocked
    /\ runner.pc = "run"
    /\ runner' = [pc |-> "start", ts |-> ready]
    /\ ready' = <<>>
    /\ UNCHANGED <<kind, events, server, watcher, task, retry, notifyRun, ctx, lost>>

\* runTasks(): the select of the loop.
RunnerWakes ==
    /\ kind = "lazy"
    /\ runner.pc = "start" /\ runner.ts = <<>>
    /\ notifyRun
    /\ notifyRun' = FALSE
    /\ runner' = [runner EXCEPT !.pc = "run"]
    /\ UNCHANGED <<kind, events, server, watcher, task, ready, retry, ctx, lost>>

\* The tasks of a queue that are among `ts', in the order of the queue.
Those(queue, ts) ==
    LET picked[i \in 0..Len(queue)] ==
            IF i = 0 THEN <<>>
            ELSE IF queue[i] \in ts THEN Append(picked[i - 1], queue[i])
            ELSE picked[i - 1]
    IN  picked[Len(queue)]

\* moveRetryToReady(), at each tick: the tasks `now' whose time has come.
MoveRetryToReady(now) ==
    /\ kind = "lazy" /\ Unlocked
    /\ runner.pc = "start" /\ runner.ts = <<>>
    /\ task' = [t \in Tasks |->
                  IF t \in now THEN [task[t] EXCEPT !.state = "Ready"] ELSE task[t]]
    /\ ready' = ready \o Those(retry, now)
    /\ retry' = Those(retry, Tasks \ now)
    /\ runner' = [runner EXCEPT !.pc = "run"]
    /\ UNCHANGED <<kind, events, server, watcher, notifyRun, ctx, lost>>

Goroutines == {t \in Tasks : task[t].go # "no"}

\* startTask(): a token of whichLimiter(), then a goroutine, which is refused
\* when the context has been canceled.
StartTask ==
    LET t == Head(runner.ts)
    IN  /\ kind = "lazy" /\ Unlocked
        /\ runner.pc = "start" /\ runner.ts # <<>>
        /\ IF ctx = "running"
           THEN /\ Cardinality(Goroutines) < StreamLimit
                /\ task' = [task EXCEPT ![t].go = "starting"]
                /\ runner' = [runner EXCEPT !.ts = Tail(@)]
           ELSE /\ runner' = [runner EXCEPT !.pc = "done"]
                /\ UNCHANGED task
        /\ UNCHANGED <<kind, events, server, watcher, queues, ctx, lost>>

\* runTask(): up to the call of the activity.
RunTask(t) ==
    /\ kind = "lazy" /\ Unlocked
    /\ task[t].go = "starting"
    /\ task' = [task EXCEPT ![t].go = "running", ![t].state = "Running"]
    /\ UNCHANGED <<kind, events, server, watcher, runner, queues, ctx, lost>>

\* run(): the activity reads the events that there are, without blocking.
Process(t) ==
    /\ kind # "eager"
    /\ task[t].go = "running"
    /\ task' = [task EXCEPT ![t].go = "read", ![t].seen = events[EntityOf[t]]]
    /\ UNCHANGED <<kind, events, server, watcher, runner, queues, ctx, lost>>

\* runTask(): the activity has completed.
TaskQuits(t) ==
    /\ kind = "lazy" /\ Unlocked
    /\ task[t].go = "read"
    /\ task[t].seen = MaxEvents
    /\ task' = [task EXCEPT ![t].go = "no", ![t].state = "Gone", ![t].tail = task[t].seen]
    /\ UNCHANGED <<kind, events, server, watcher, runner, queues, ctx, lost>>

\* Faulty variant of TaskEof: the signal is ignored.
TaskEofNoSignal(t) ==
    /\ kind = "lazy" /\ Unlocked
    /\ task[t].go = "read"
    /\ task' = [task EXCEPT ![t].go = "no", ![t].tail = task[t].seen,
                            ![t].signal = FALSE, ![t].state = "Sleeping"]
    /\ UNCHANGED <<kind, events, server, watcher, runner, queues, ctx, lost>>

\* runTask(): the activity waits for events.
TaskEof(t) ==
    /\ kind = "lazy" /\ Unlocked
    /\ task[t].go = "read"
    /\ LET again == task[t].signal
       IN  /\ task' = [task EXCEPT ![t].go = "no", ![t].tail = task[t].seen,
                           ![t].signal = FALSE,
                           ![t].state = IF again THEN "Ready" ELSE "Sleeping"]
           /\ ready' = IF again THEN Append(ready, t) ELSE ready
           /\ notifyRun' = (notifyRun \/ again)
    /\ UNCHANGED <<kind, events, server, watcher, runner, retry, ctx, lost>>

\* The tail that an activity returns with an error: an event that it has
\* handled, or none, if it must load again.
FailedTails(t) ==
    {0, task[t].tail} \cup
        IF task[t].go = "read" THEN task[t].tail .. task[t].seen ELSE {}

\* runTask(): an error, also that of a canceled context.
TaskRetry(t) ==
    /\ kind = "lazy" /\ Unlocked
    /\ task[t].go \in {"running", "read"}
    /\ IF ctx = "running" THEN Fails ELSE UNCHANGED lost
    /\ \E tail \in FailedTails(t) :
          task' = [task EXCEPT ![t].go = "no", ![t].signal = FALSE,
                               ![t].state = "Retry", ![t].tail = tail]
    /\ retry' = Append(retry, t)
    /\ UNCHANGED <<kind, events, server, watcher, runner, ready, notifyRun, ctx>>

-----------------------------------------------------------------------------
(***************************************************************************)
(* The eager engine.                                                       *)
(***************************************************************************)

\* StartRepoActivity(): wgAdd() and a goroutine.
EagerStart(t) ==
    /\ kind = "eager" /\ ctx = "running"
    /\ task[t].state = "none"
    /\ task' = [task EXCEPT ![t].state = "Waiting", ![t].go = "retry"]
    /\ UNCHANGED <<kind, events, server, watcher, runner, queues, ctx, lost>>

\* Tasks that hold a token of the stream limiter.
Streams == {t \in Tasks : task[t].go = "running"}

\* runRepoActivity(): a stream with Watch, below the limit.
EagerRun(t) ==
    /\ kind = "eager" /\ ctx = "running"
    /\ task[t].go = "retry"
    /\ Cardinality(Streams) < StreamLimit
    /\ task' = [task EXCEPT ![t].state = "Running", ![t].go = "running"]
    /\ UNCHANGED <<kind, events, server, watcher, runner, queues, ctx, lost>>

\* The stream delivers events.
EagerProcess(t) ==
    /\ kind = "eager" /\ ctx = "running"
    /\ task[t].go = "running"
    /\ task[t].tail < events[EntityOf[t]]
    /\ task' = [task EXCEPT ![t].tail = @ + 1]
    /\ UNCHANGED <<kind, events, server, watcher, runner, queues, ctx, lost>>

\* runRepoActivityRetry(): the activity has completed.
EagerQuits(t) ==
    /\ kind = "eager"
    /\ task[t].go = "running" /\ task[t].tail = MaxEvents
    /\ task' = [task EXCEPT ![t].go = "no", ![t].state = "Gone"]
    /\ UNCHANGED <<kind, events, server, watcher, runner, queues, ctx, lost>>

\* runRepoActivityRetry(): after an error it continues after the tail that the
\* activity has returned.
EagerRetry(t) ==
    /\ kind = "eager" /\ ctx = "running"
    /\ task[t].go = "running"
    /\ Fails
    /\ \E tail \in FailedTails(t) :
          task' = [task EXCEPT ![t].go = "retry", ![t].state = "Waiting", ![t].tail = tail]
    /\ UNCHANGED <<kind, events, server, watcher, runner, queues, ctx>>

\* Faulty variant of EagerCanceled: the wait for a retry ignores the context.
EagerCanceledRunning(t) ==
    /\ kind = "eager" /\ ctx # "running"
    /\ task[t].go = "running"
    /\ task' = [task EXCEPT ![t].go = "no"]
    /\ UNCHANGED <<kind, events, server, watcher, runner, queues, ctx, lost>>

\* The goroutine returns when the context is canceled.
EagerCanceled(t) ==
    /\ kind = "eager" /\ ctx # "running"
    /\ task[t].go # "no"
    /\ task' = [task EXCEPT ![t].go = "no"]
    /\ UNCHANGED <<kind, events, server, watcher, runner, queues, ctx, lost>>

-----------------------------------------------------------------------------
(***************************************************************************)
(* The cron engine.  `state' is Idle without a goroutine, and the message  *)
(* of the channel `done' is the state Done or Quit.                        *)
(***************************************************************************)

\* addRepo().
CronAdd(t) ==
    /\ kind = "cron" /\ ctx = "running"
    /\ task[t].state = "none"
    /\ task' = [task EXCEPT ![t].state = "Idle"]
    /\ UNCHANGED <<kind, events, server, watcher, runner, queues, ctx, lost>>

\* getRepos(), at each tick.
CronTick ==
    /\ kind = "cron" /\ ctx = "running"
    /\ runner.ts = <<>>
    /\ runner' = [pc |-> "start",
                  ts |-> SetToSeq({t \in Tasks : task[t].state \notin {"none", "Gone"}})]
    /\ UNCHANGED <<kind, events, server, watcher, task, queues, ctx, lost>>

\* Faulty variant of ScheduleRepo: it does not look at the goroutine's end.
ScheduleRepoOnce ==
    LET t == Head(runner.ts)
    IN  /\ kind = "cron" /\ ctx = "running"
        /\ runner.ts # <<>>
        /\ runner' = [runner EXCEPT !.ts = Tail(@)]
        /\ IF task[t].state = "Idle"
           THEN /\ Cardinality(Goroutines) < StreamLimit
                /\ task' = [task EXCEPT ![t].state = "Running", ![t].go = "running"]
           ELSE UNCHANGED task
        /\ UNCHANGED <<kind, events, server, watcher, queues, ctx, lost>>

\* scheduleRepo(): a repo whose goroutine has not ended is skipped.
ScheduleRepo ==
    LET t == Head(runner.ts)
    IN  /\ kind = "cron" /\ ctx = "running"
        /\ runner.ts # <<>>
        /\ runner' = [runner EXCEPT !.ts = Tail(@)]
        /\ CASE task[t].state = "Quit" ->
                  task' = [task EXCEPT ![t].state = "Gone"]
             [] task[t].state \in {"Idle", "Done"} ->
                  /\ Cardinality(Goroutines) < StreamLimit
                  /\ task' = [task EXCEPT ![t].state = "Running", ![t].go = "running"]
             [] OTHER -> UNCHANGED task
        /\ UNCHANGED <<kind, events, server, watcher, queues, ctx, lost>>

\* runRepo(): quits, waits for events, or fails.
CronRunRepo(t) ==
    /\ kind = "cron"
    /\ \/ /\ task[t].go = "read" /\ task[t].seen = MaxEvents
          /\ task' = [task EXCEPT ![t].go = "no", ![t].state = "Quit", ![t].tail = task[t].seen]
          /\ UNCHANGED lost
       \/ /\ task[t].go = "read"
          /\ task' = [task EXCEPT ![t].go = "no", ![t].state = "Done", ![t].tail = task[t].seen]
          /\ UNCHANGED lost
       \/ /\ task[t].go \in {"running", "read"}
          /\ IF ctx = "running" THEN Fails ELSE UNCHANGED lost
          /\ \E tail \in FailedTails(t) :
                task' = [task EXCEPT ![t].go = "no", ![t].state = "Done", ![t].tail = tail]
    /\ UNCHANGED <<kind, events, server, watcher, runner, queues, ctx>>

-----------------------------------------------------------------------------
(***************************************************************************)
(* Shutdown.                                                               *)
(***************************************************************************)

\* The context is canceled, which also ends the stream of signals.  What has been
\* recorded about it does not matter any more.
Shutdown ==
    /\ ctx = "running"
    /\ ctx' = "canceled"
    /\ srv' = NoStream /\ missed' = {} /\ lost' = 0
    /\ UNCHANGED <<kind, events, watcher, task, runner, queues>>

\* runTasks(), Run() of the cron engine and watchSignalsRetry() return.
RunnerReturns ==
    /\ ctx # "running"
    /\ kind # "eager"
    /\ \/ runner.pc = "start" /\ (runner.ts = <<>> \/ Cardinality(Goroutines) >= StreamLimit)
       \/ kind = "cron"
    /\ runner.pc # "done"
    /\ runner' = [runner EXCEPT !.pc = "done"]
    /\ UNCHANGED <<kind, events, server, watcher, task, queues, ctx, lost>>

WatcherReturns ==
    /\ kind = "lazy" /\ ctx = "canceled"
    /\ watcher \notin {"opened", "done"}
    /\ watcher' = "done"
    /\ UNCHANGED <<kind, events, server, task, runner, queues, ctx, lost>>

\* Run() calls wgWait(), which locks the mutex and then waits.
WgWait ==
    /\ ctx = "canceled"
    /\ kind = "lazy" => watcher = "done"
    /\ kind = "cron" => runner.pc = "done"
    /\ ctx' = "waiting"
    /\ UNCHANGED <<kind, events, server, watcher, task, runner, queues, lost>>

Stop ==
    /\ ctx = "waiting"
    /\ Goroutines = {}
    /\ kind = "lazy" => runner.pc = "done"
    /\ ctx' = "stopped"
    /\ UNCHANGED <<kind, events, server, watcher, task, runner, queues, lost>>

-----------------------------------------------------------------------------
Broadcast == Subscribe \/ SendSignals \/ TooManyPending \/ \E y \in Types : SetUpdate(y)

Watcher ==
    \/ WatchSignals \/ SignalAllTasks \/ SignalTasksOfEntity
    \/ WatchSignalsRetry \/ WatcherReturns

Runner ==
    \/ TakeReadyTasks \/ StartTask \/ RunnerWakes
    \/ CronTick \/ ScheduleRepo \/ RunnerReturns

Tick == \E now \in SUBSET Range(retry) : MoveRetryToReady(now)

Goroutine(t) ==
    \/ RunTask(t) \/ Process(t) \/ TaskQuits(t) \/ TaskEof(t) \/ TaskRetry(t)
    \/ EagerRun(t) \/ EagerProcess(t) \/ EagerQuits(t) \/ EagerCanceled(t)
    \/ CronRunRepo(t)

Next ==
    \/ \E e \in Entities : Commit(e)
    \/ Broadcast \/ Watcher \/ StreamFails
    \/ \E t \in Tasks : AddNewTask(t) \/ EagerStart(t) \/ CronAdd(t)
    \/ Runner \/ Tick
    \/ \E t \in Tasks : Goroutine(t) \/ EagerRetry(t)
    \/ Shutdown \/ WgWait \/ Stop

Spec == Init /\ [][Next]_vars

\* The goroutines run.  The timers of the retries and of cron fire, and the
\* select of the runner does not ignore its ticker for ever.
FairSpec ==
    /\ Spec
    /\ WF_vars(Broadcast) /\ WF_vars(Watcher) /\ WF_vars(Runner)
    /\ \A t \in Tasks : SF_vars(\E now \in SUBSET Range(retry) :
                                     t \in now /\ MoveRetryToReady(now))
    /\ \A t \in Tasks : WF_vars(Goroutine(t))
    /\ WF_vars(WgWait) /\ WF_vars(Stop)

-----------------------------------------------------------------------------
(***************************************************************************)
(* Properties.                                                             *)
(***************************************************************************)

\* A task of the lazy engine that is behind and neither queued nor about to read
\* will be woken: it is marked, the signal of its entity is on its way, or the
\* watcher will signal all tasks.  The only exception is an update that the
\* server has dropped, because a channel was full, or because the client has
\* signaled all tasks before the server has subscribed.
NoLostSignal ==
    \A t \in Tasks :
        LET e == EntityOf[t]
            behind == task[t].seen < events[e]
        IN  /\ kind = "lazy" /\ ctx = "running"
            /\ behind
            /\ task[t].go = "read" \/ task[t].state = "Sleeping"
            => \/ task[t].signal
               \/ InFlight(srv, e)
               \/ watcher # "recv"
               \/ e \in missed

\* The state of a task says where it is: a task is in exactly one queue or has
\* exactly one goroutine, although signals, retries and the end of a run are
\* concurrent.
TaskIsInOnePlace ==
    kind = "lazy" =>
        \A t \in Tasks :
            LET In(s) == Cardinality({i \in DOMAIN s : s[i] = t})
                go == IF task[t].go = "no" THEN 0 ELSE 1
            IN  In(ready) + In(retry) + In(runner.ts) + go =
                    IF task[t].state \in {"none", "Gone", "Sleeping"} THEN 0 ELSE 1

\* A stream of the eager engine keeps its token until it fails.
WaitsForToken(t) ==
    kind = "eager" /\ task[t].go = "retry" /\ Cardinality(Streams) = StreamLimit

\* Every engine processes every event of the entity of a task, unless the task
\* is over, the engine is shut down, the update has not been signaled, or all
\* tokens of the eager engine are taken by other streams.
TasksCatchUp ==
    \A t \in Tasks :
        task[t].state # "none" /\ task[t].tail < events[EntityOf[t]] ~>
            \/ task[t].tail = events[EntityOf[t]]
            \/ task[t].state = "Gone"
            \/ ctx # "running"
            \/ EntityOf[t] \in missed
            \/ WaitsForToken(t)

\* wgWait() holds the mutex that a goroutine of the lazy engine needs.
Deadlocked ==
    /\ kind = "lazy" /\ ctx = "waiting"
    /\ Goroutines # {} \/ runner.pc # "done"

\* A shutdown returns after all goroutines, unless a goroutine of the lazy engine
\* has not returned before Run() waits with the mutex locked: that hazard is named
\* here, not caught.
EngineStops == ctx = "canceled" ~> ctx = "stopped" \/ Deadlocked

=============================================================================
