------------------------------ MODULE LockMap ------------------------------
(***************************************************************************)
(* The lock map (backend/pkg/lockmap/lockmap.go): a mutex per key, with    *)
(* waiters that may be cancelled.  nogfsostad uses it to serialize the     *)
(* operations on a repo.  The keys do not share any state except the mutex *)
(* `mu`: there is one key here, and a section under `mu` is one step.      *)
(*                                                                         *)
(* A waiter that is cancelled stays in the queue until it is skipped, so   *)
(* one goroutine may have several entries, of which at most one is alive.  *)
(* A missing queue and an empty one behave the same way.                   *)
(***************************************************************************)
EXTENDS Naturals, Sequences, FiniteSets

CONSTANTS
    Goroutines,     \* goroutines that use the key
    MaxWaiters      \* capacity of the queue

ASSUME LockAssumption == MaxWaiters \in Nat \ {0}

VARIABLES
    locked,     \* the key is in `locks`
    waiters,    \* the queue: sequence of [g, alive]
    ready,      \* the channel `ready` of the goroutine is closed
    pc          \* where the goroutine is

vars == <<locked, waiters, ready, pc>>

Waiter == [g: Goroutines, alive: BOOLEAN]

Init ==
    /\ locked = FALSE
    /\ waiters = << >>
    /\ ready = [g \in Goroutines |-> FALSE]
    /\ pc = [g \in Goroutines |-> "idle"]

\* Lock() takes a free lock; otherwise the goroutine becomes a waiter.
LockFree(g) ==
    /\ pc[g] = "idle"
    /\ ~locked
    /\ locked' = TRUE
    /\ pc' = [pc EXCEPT ![g] = "holding"]
    /\ UNCHANGED <<waiters, ready>>

LockWait(g) ==
    /\ pc[g] = "idle"
    /\ locked
    /\ Len(waiters) < MaxWaiters
    /\ waiters' = Append(waiters, [g |-> g, alive |-> TRUE])
    /\ pc' = [pc EXCEPT ![g] = "waiting"]
    /\ UNCHANGED <<locked, ready>>

\* ErrTooManyWaiters.  The entries of cancelled waiters count, too.
LockRefused(g) ==
    /\ pc[g] = "idle"
    /\ locked
    /\ Len(waiters) >= MaxWaiters
    /\ pc' = [pc EXCEPT ![g] = "refused"]
    /\ UNCHANGED <<locked, waiters, ready>>

\* The outer select: the context is done, also if the lock has been handed
\* over at the same time, or the lock has been handed over.
ContextDone(g) ==
    /\ pc[g] = "waiting"
    /\ pc' = [pc EXCEPT ![g] = "cancelling"]
    /\ UNCHANGED <<locked, waiters, ready>>

Ready(g) ==
    /\ pc[g] = "waiting"
    /\ ready[g]
    /\ ready' = [ready EXCEPT ![g] = FALSE]
    /\ pc' = [pc EXCEPT ![g] = "holding"]
    /\ UNCHANGED <<locked, waiters>>

Kill(g) ==
    [i \in DOMAIN waiters |->
        IF waiters[i].g = g THEN [waiters[i] EXCEPT !.alive = FALSE]
        ELSE waiters[i]]

\* Faulty variant of Cancel: the lock may have been handed over already.
CancelAlways(g) ==
    /\ pc[g] = "cancelling"
    /\ waiters' = Kill(g)
    /\ ready' = [ready EXCEPT ![g] = FALSE]
    /\ pc' = [pc EXCEPT ![g] = "idle"]
    /\ UNCHANGED locked

\* The inner select, under `mu`: the cancellation is ignored if the lock has
\* been handed over.
Cancel(g) ==
    /\ pc[g] = "cancelling"
    /\ \/ /\ ready[g]
          /\ ready' = [ready EXCEPT ![g] = FALSE]
          /\ pc' = [pc EXCEPT ![g] = "holding"]
          /\ UNCHANGED waiters
       \/ /\ ~ready[g]
          /\ waiters' = Kill(g)
          /\ pc' = [pc EXCEPT ![g] = "idle"]
          /\ UNCHANGED ready
    /\ UNCHANGED locked

\* The caller of a call that was refused goes on.
Refused(g) ==
    /\ pc[g] = "refused"
    /\ pc' = [pc EXCEPT ![g] = "idle"]
    /\ UNCHANGED <<locked, waiters, ready>>

FirstAlive(i) ==
    /\ waiters[i].alive
    /\ \A j \in 1..(i - 1) : ~waiters[j].alive

\* Faulty variant of UnlockHandOver: the last waiter gets the lock.
UnlockHandOverLast(g) ==
    /\ pc[g] = "holding"
    /\ \E i \in 1..Len(waiters) :
          /\ waiters[i].alive
          /\ \A j \in (i + 1)..Len(waiters) : ~waiters[j].alive
          /\ waiters' = SubSeq(waiters, 1, i - 1)
          /\ ready' = [ready EXCEPT ![waiters[i].g] = TRUE]
    /\ pc' = [pc EXCEPT ![g] = "idle"]
    /\ UNCHANGED locked

\* Unlock() hands the lock over to the first waiter that is alive.
UnlockHandOver(g) ==
    /\ pc[g] = "holding"
    /\ \E i \in 1..Len(waiters) :
          /\ FirstAlive(i)
          /\ waiters' = SubSeq(waiters, i + 1, Len(waiters))
          /\ ready' = [ready EXCEPT ![waiters[i].g] = TRUE]
    /\ pc' = [pc EXCEPT ![g] = "idle"]
    /\ UNCHANGED locked

\* Unlock() removes the key if there is none.
UnlockFree(g) ==
    /\ pc[g] = "holding"
    /\ \A i \in 1..Len(waiters) : ~waiters[i].alive
    /\ waiters' = << >>
    /\ locked' = FALSE
    /\ pc' = [pc EXCEPT ![g] = "idle"]
    /\ UNCHANGED ready

Step(g) ==
    \/ LockFree(g) \/ LockWait(g) \/ LockRefused(g) \/ Refused(g)
    \/ ContextDone(g) \/ Ready(g) \/ Cancel(g)
    \/ UnlockHandOver(g) \/ UnlockFree(g)

Next == \E g \in Goroutines : Step(g)

Spec == Init /\ [][Next]_vars

\* The holder of a lock releases it, and goroutines that can run do; nobody
\* has to call Lock(), and contexts need not be done.
Fairness ==
    \A g \in Goroutines :
        /\ WF_vars(Ready(g))
        /\ WF_vars(Cancel(g))
        /\ WF_vars(UnlockHandOver(g) \/ UnlockFree(g))

FairSpec == Spec /\ Fairness

-----------------------------------------------------------------------------
(***************************************************************************)
(* Properties.                                                             *)
(***************************************************************************)

\* Every variable has its type.
TypeOK ==
    /\ locked \in BOOLEAN
    /\ waiters \in Seq(Waiter)
    /\ Len(waiters) <= MaxWaiters
    /\ ready \in [Goroutines -> BOOLEAN]
    /\ pc \in [Goroutines ->
                 {"idle", "waiting", "cancelling", "holding", "refused"}]

\* A goroutine owns the lock from the time at which it takes it or Unlock()
\* hands it over, even before it has noticed.
Owns(g) == pc[g] = "holding" \/ ready[g]

\* Mutual exclusion without a leak: a lock that is taken has exactly one owner,
\* and a free one has none, whatever is cancelled while it is handed over.
LockHasOneOwner ==
    /\ locked <=> \E g \in Goroutines : Owns(g)
    /\ \A g, h \in Goroutines : Owns(g) /\ Owns(h) => g = h

\* Nobody starves: a goroutine that waits gets the lock or gives up, however
\* often the others come back before it.
WaitersAreServed ==
    \A g \in Goroutines : pc[g] = "waiting" ~> pc[g] \in {"holding", "idle"}
=============================================================================
