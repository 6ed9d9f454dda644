---------------------------- MODULE EventStreams ----------------------------
(***************************************************************************)
(* Notifications about new events: the notifier of a journal               *)
(* (backend/internal/events/notifier.go), the goroutines of nogfsoregd     *)
(* that wait for it, and the shutdown of the server                        *)
(* (backend/cmd/nogfsoregd/nogfsoregd.go).                                 *)
(*                                                                         *)
(*  - a stream is a gRPC call that sends the events of a history and goes  *)
(*    on watching (registryd.go, Events());                                *)
(*  - a job is a gRPC call that waits until a workflow is done             *)
(*    (freeze-repo.go, GetFreezeRepo() with JC_WAIT);                      *)
(*  - a processor watches all histories of the journal, for example        *)
(*    repoinit.go;                                                         *)
(*  - a committer is a gRPC call that commits.                             *)
(*                                                                         *)
(* A history is represented by the number of its commits.  Only serve()    *)
(* uses the map of the subscribed channels, so receiving a function that   *)
(* subscribes or unsubscribes and running it are one step.                 *)
(***************************************************************************)
EXTENDS Naturals, Sequences

CONSTANTS
    Histories, Committers, Streams, Jobs, Processors,
    TopicOf,        \* the history that a stream or a job is about
    QueueSize,      \* capacity of the channel of a processor
    MaxCommits      \* how many commits a history gets: a bound; a job waits for
                    \* the last one

Calls == Streams \cup Jobs
Subscribers == Calls \cup Processors

ASSUME StreamsAssumption ==
    /\ Histories # {}
    /\ QueueSize \in Nat \ {0}
    /\ MaxCommits \in [Histories -> Nat \ {0}]
    /\ TopicOf \in [Calls -> Histories]
    /\ Streams \cap Jobs = {} /\ Calls \cap Processors = {}
    /\ Committers \cap Subscribers = {}

VARIABLES
    head,       \* number of commits of a history
    posted,     \* the last commit of a history that has been posted, or is
                \* going to be, or is from before the start (history variable)
    seen,       \* number of commits that a subscriber knows
    ch,         \* channel of a subscriber: sequence of histories
    pc,         \* where a subscriber is
    upd,        \* histories that a subscriber is going to find
    post,       \* histories whose commit has not been posted, by committer
    outputs,    \* subscribers whose channels are in the notifier
    sending,    \* the post that serve() is working on: [topic, todo]
    level       \* progress of the shutdown

vars == <<head, posted, seen, ch, pc, upd, post, outputs, sending, level>>

Cap(s) == IF s \in Processors THEN QueueSize ELSE 1
Topics(s) == IF s \in Processors THEN Histories ELSE {TopicOf[s]}

\* The server runs; ctx2 is done; GracefulStop() refuses new calls; ctx is
\* done; the process has exited, with serve() first or by force.
Levels == {"running", "cancel2", "graceful", "cancel", "stopped", "forced"}
Exited == {"stopped", "forced"}

\* A step of the goroutines of the server.
Alive == level \notin Exited

Idle == [topic |-> CHOOSE h \in Histories : TRUE, todo |-> {}]

\* A process starts with nothing but what the database holds.
Fresh ==
    [seen |-> [s \in Subscribers |-> [h \in Histories |-> 0]],
     ch   |-> [s \in Subscribers |-> << >>],
     pc   |-> [s \in Subscribers |->
                 IF s \in Processors THEN "subscribe" ELSE "closed"],
     upd  |-> [s \in Subscribers |-> Topics(s)],
     post |-> [c \in Committers |-> {}]]

Init ==
    /\ head = [h \in Histories |-> 0] /\ posted = head
    /\ seen = Fresh.seen /\ ch = Fresh.ch /\ pc = Fresh.pc /\ upd = Fresh.upd
    /\ post = Fresh.post /\ outputs = {} /\ sending = Idle
    /\ level = "running"

Goto(s, l) == pc' = [pc EXCEPT ![s] = l]

-----------------------------------------------------------------------------
(***************************************************************************)
(* The notifier.  `n.do` is not buffered: a caller waits until serve() has *)
(* finished what it is doing.                                              *)
(***************************************************************************)

Serving == level \notin Exited /\ sending.todo = {}

\* Commit() moves the head and then posts.
Commit(c, h) ==
    /\ level \in {"running", "cancel2"}
    /\ post[c] = {}
    /\ head[h] < MaxCommits[h]
    /\ head' = [head EXCEPT ![h] = @ + 1]
    /\ posted' = [posted EXCEPT ![h] = head'[h]]
    /\ post' = [post EXCEPT ![c] = {h}]
    /\ UNCHANGED <<seen, ch, pc, upd, outputs, sending, level>>

\* The database has moved the head, but its reply is lost: Commit() returns the
\* error and does not post.
CommitLost(c, h) ==
    /\ level \in {"running", "cancel2"}
    /\ post[c] = {}
    /\ head[h] < MaxCommits[h]
    /\ head' = [head EXCEPT ![h] = @ + 1]
    /\ UNCHANGED <<posted, seen, ch, pc, upd, post, outputs, sending, level>>

Post(c) ==
    /\ Serving
    /\ \E h \in post[c] :
          sending' = [topic |-> h,
                      todo |-> {s \in outputs : h \in Topics(s)}]
    /\ post' = [post EXCEPT ![c] = {}]
    /\ UNCHANGED <<head, posted, seen, ch, pc, upd, outputs, level>>

\* Faulty variant of Send: the channels are not buffered.
SendUnbuffered(s) ==
    /\ Alive
    /\ s \in sending.todo
    /\ sending' = [sending EXCEPT !.todo = @ \ {s}]
    /\ IF pc[s] = "select" /\ ch[s] = << >>
       THEN ch' = [ch EXCEPT ![s] = Append(@, sending.topic)]
       ELSE UNCHANGED ch
    /\ UNCHANGED <<head, posted, seen, pc, upd, post, outputs, level>>

\* A notification is dropped if the channel is full.
Send(s) ==
    /\ Alive
    /\ s \in sending.todo
    /\ sending' = [sending EXCEPT !.todo = @ \ {s}]
    /\ ch' = [ch EXCEPT ![s] = IF Len(@) < Cap(s)
                               THEN Append(@, sending.topic) ELSE @]
    /\ UNCHANGED <<head, posted, seen, pc, upd, post, outputs, level>>

\* A stream goes to its select with a notification in its channel; a job and a
\* processor find first.
Subscribe(s) ==
    /\ pc[s] = "subscribe"
    /\ Serving
    /\ outputs' = outputs \cup {s}
    /\ Goto(s, IF s \in Streams THEN "select" ELSE "find")
    /\ UNCHANGED <<head, posted, seen, ch, upd, post, sending, level>>

\* The channel and the other local variables are gone.
Closed(s) ==
    /\ seen' = [seen EXCEPT ![s] = Fresh.seen[s]]
    /\ ch' = [ch EXCEPT ![s] = << >>]
    /\ upd' = [upd EXCEPT ![s] = Topics(s)]
    /\ Goto(s, "closed")

Unsubscribe(s) ==
    /\ pc[s] = "unsubscribe"
    /\ Serving
    /\ outputs' = outputs \ {s}
    /\ Closed(s)
    /\ UNCHANGED <<head, posted, post, sending, level>>

-----------------------------------------------------------------------------
(***************************************************************************)
(* The subscribers.                                                        *)
(***************************************************************************)

\* A gRPC call begins with a new channel.
Open(s) ==
    /\ level \in {"running", "cancel2"}
    /\ pc[s] = "closed"
    /\ s \in Calls
    /\ ch' = [ch EXCEPT ![s] =
                IF s \in Streams THEN <<TopicOf[s]>> ELSE << >>]
    /\ Goto(s, "subscribe")
    /\ UNCHANGED <<head, posted, seen, upd, post, outputs, sending, level>>

\* Find the events of one of the histories that have been updated.
Find(s) ==
    /\ Alive
    /\ pc[s] = "find"
    /\ \E h \in upd[s] :
          /\ seen' = [seen EXCEPT ![s][h] = head[h]]
          /\ upd' = [upd EXCEPT ![s] = @ \ {h}]
    /\ Goto(s, IF upd'[s] = {} THEN "found" ELSE "find")
    /\ UNCHANGED <<head, posted, ch, post, outputs, sending, level>>

\* A stream has sent what it has found and waits again; a job returns if the
\* workflow is done.
Found(s) ==
    /\ Alive
    /\ pc[s] = "found"
    /\ Goto(s, IF s \in Jobs /\ seen[s][TopicOf[s]] = MaxCommits[TopicOf[s]]
               THEN "unsubscribe" ELSE "select")
    /\ UNCHANGED <<head, posted, seen, ch, upd, post, outputs, sending, level>>

\* The cases of the select.
Updated(s) ==
    /\ Alive
    /\ pc[s] = "select"
    /\ ch[s] # << >>
    /\ ch' = [ch EXCEPT ![s] = Tail(@)]
    /\ upd' = [upd EXCEPT ![s] = {Head(ch[s])}]
    /\ Goto(s, "find")
    /\ UNCHANGED <<head, posted, seen, post, outputs, sending, level>>

\* Faulty variant of Tick: the ticker of the processors has been forgotten.
TickStreamsOnly(s) ==
    /\ Alive
    /\ pc[s] = "select"
    /\ s \in Streams
    /\ upd' = [upd EXCEPT ![s] = Topics(s)]
    /\ Goto(s, "find")
    /\ UNCHANGED <<head, posted, seen, ch, post, outputs, sending, level>>

\* Streams and processors have a ticker, jobs have none.
Tick(s) ==
    /\ Alive
    /\ pc[s] = "select"
    /\ s \notin Jobs
    /\ upd' = [upd EXCEPT ![s] = Topics(s)]
    /\ Goto(s, "find")
    /\ UNCHANGED <<head, posted, seen, ch, post, outputs, sending, level>>

\* The context of the call is done, Find() fails, or Send() fails.
Cancelled(s) ==
    /\ Alive
    /\ s \in Calls
    /\ pc[s] \in {"find", "select"} \/ (s \in Streams /\ pc[s] = "found")
    /\ Goto(s, "unsubscribe")
    /\ UNCHANGED <<head, posted, seen, ch, upd, post, outputs, sending, level>>

\* Faulty variant of Shutdown: processors do not watch the context of the
\* server.
ShutdownStreamsOnly(s) ==
    /\ level \in {"cancel2", "graceful"}
    /\ s \in Streams /\ pc[s] = "select"
    /\ Goto(s, "unsubscribe")
    /\ UNCHANGED <<head, posted, seen, ch, upd, post, outputs, sending, level>>

\* ctx2 is done.  Jobs do not watch it.  A processor notices it also while it
\* retries a find that fails.
Shutdown(s) ==
    /\ level \in {"cancel2", "graceful"}
    /\ \/ s \in Streams /\ pc[s] = "select"
       \/ s \in Processors /\ pc[s] \in {"find", "select"}
    /\ Goto(s, "unsubscribe")
    /\ UNCHANGED <<head, posted, seen, ch, upd, post, outputs, sending, level>>

-----------------------------------------------------------------------------
(***************************************************************************)
(* The shutdown, and the next start.                                       *)
(***************************************************************************)

ToLevel(from, to) ==
    /\ level \in from
    /\ level' = to
    /\ UNCHANGED <<head, posted, seen, ch, pc, upd, post, outputs, sending>>

Cancel2 == ToLevel({"running"}, "cancel2")
GracefulStop == ToLevel({"cancel2"}, "graceful")

\* No call and no processor is left.
AllReturned ==
    /\ \A s \in Subscribers : pc[s] = "closed"
    /\ \A c \in Committers : post[c] = {}

\* Faulty variant of Cancel: it does not wait for the processors (wg2).
CancelNoWait ==
    /\ \A s \in Calls : pc[s] = "closed"
    /\ \A c \in Committers : post[c] = {}
    /\ ToLevel({"graceful"}, "cancel")

\* GracefulStop() and wg2.Wait() have returned.
Cancel == AllReturned /\ ToLevel({"graceful"}, "cancel")

\* serve() returns, between two functions.
Stop == sending.todo = {} /\ ToLevel({"cancel"}, "stopped")

\* The goroutines are gone; the database remains.
Exit(l) ==
    /\ seen' = Fresh.seen /\ ch' = Fresh.ch /\ pc' = Fresh.pc
    /\ upd' = Fresh.upd /\ post' = Fresh.post /\ outputs' = {}
    /\ sending' = Idle
    /\ level' = l
    /\ posted' = head
    /\ UNCHANGED head

\* main() returns without waiting any longer.
Timeout == level \in {"cancel2", "graceful", "cancel"} /\ Exit("forced")

Restart == level \in Exited /\ Exit("running")

SubscriberStep(s) ==
    \/ Subscribe(s) \/ Find(s) \/ Found(s) \/ Updated(s) \/ Tick(s)
    \/ Unsubscribe(s) \/ Shutdown(s)

ServerStep ==
    \/ \E c \in Committers : Post(c)
    \/ \E s \in Subscribers : Send(s)

Next ==
    \/ \E c \in Committers, h \in Histories : Commit(c, h) \/ CommitLost(c, h)
    \/ ServerStep
    \/ \E s \in Subscribers : SubscriberStep(s) \/ Open(s) \/ Cancelled(s)
    \/ Cancel2 \/ GracefulStop \/ Cancel \/ Stop \/ Timeout \/ Restart

Spec == Init /\ [][Next]_vars

\* Goroutines that can run do, tickers tick, and select takes every case that
\* stays ready.  Nobody has to call, to cancel or to stop the server.
Fairness ==
    /\ \A c \in Committers : WF_vars(Post(c))
    /\ \A s \in Subscribers :
          /\ WF_vars(Send(s)) /\ WF_vars(Subscribe(s)) /\ WF_vars(Find(s))
          /\ WF_vars(Found(s)) /\ WF_vars(Updated(s)) /\ WF_vars(Tick(s))
          /\ WF_vars(Unsubscribe(s)) /\ SF_vars(Shutdown(s))
    /\ WF_vars(GracefulStop) /\ WF_vars(Cancel) /\ WF_vars(Stop)

FairSpec == Spec /\ Fairness

-----------------------------------------------------------------------------
(***************************************************************************)
(* Properties.                                                             *)
(***************************************************************************)

\* Every variable has its type.
TypeOK ==
    /\ head \in [Histories -> Nat]
    /\ posted \in [Histories -> Nat]
    /\ seen \in [Subscribers -> [Histories -> Nat]]
    /\ ch \in [Subscribers -> Seq(Histories)]
    /\ \A s \in Subscribers : Len(ch[s]) <= Cap(s)
    /\ pc \in [Subscribers -> {"closed", "subscribe", "find", "found",
                               "select", "unsubscribe"}]
    /\ upd \in [Subscribers -> SUBSET Histories]
    /\ post \in [Committers -> SUBSET Histories]
    /\ outputs \in SUBSET Subscribers
    /\ sending \in [topic: Histories, todo: SUBSET Subscribers]
    /\ level \in Levels

\* A notification about h is on its way to s.
OnItsWay(s, h) ==
    \/ \E c \in Committers : h \in post[c]
    \/ sending.topic = h /\ s \in sending.todo

\* No lost wakeup ("Subscribe first, then find to ensure that no event is
\* lost"): a stream or a job that is waiting, or about to, without a
\* notification in its channel or on its way to it knows every commit that has
\* been posted, although notifications are dropped when the channel is full.
\* So all that it can miss are commits after the last one that was posted: those
\* whose reply was lost.
NoLostWakeup ==
    \A s \in Calls :
        pc[s] \in {"found", "select"} /\ Alive =>
            \/ seen[s][TopicOf[s]] >= posted[TopicOf[s]]
            \/ ch[s] # << >>
            \/ OnItsWay(s, TopicOf[s])

\* unsubscribe() "blocks until `ch` has been removed, so that `ch` will not be
\* spuriously signaled after `unsubscribe()` has returned".
ClosedIsNotSignaled ==
    \A s \in Subscribers :
        pc[s] = "closed" => s \notin outputs \cup sending.todo

\* The notifier is the last to stop: no goroutine waits for a notifier that has
\* stopped, so nobody is blocked in Commit(), Subscribe() or Unsubscribe().
NobodyWaitsForStopped ==
    level = "stopped" =>
        /\ \A c \in Committers : post[c] = {}
        /\ \A s \in Subscribers : pc[s] \notin {"subscribe", "unsubscribe"}

\* A processor gets to know every commit, also the ones whose notifications
\* have been dropped, unless the server goes down.
ProcessorsCatchUp ==
    \A p \in Processors, h \in Histories :
        seen[p][h] < head[h] ~> (seen[p][h] = head[h] \/ level # "running")

\* The staged shutdown completes without force, if the time suffices, unless it
\* is held up by a job that keeps waiting: jobs do not watch ctx2.
ShutdownIsGraceful ==
    level = "cancel2" ~>
        (level \in Exited \/ [](\E s \in Jobs : pc[s] = "select"))
=============================================================================
