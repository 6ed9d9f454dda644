--------------------------- MODULE LockMapProofs ---------------------------
(***************************************************************************)
(* Proofs about LockMap, for any goroutines and any capacity.              *)
(***************************************************************************)
EXTENDS LockMap, SequenceTheorems, TLAPS

-----------------------------------------------------------------------------
(***************************************************************************)
(* The inductive invariant.  Mutual exclusion alone is not inductive: the  *)
(* lock must be handed over to a goroutine that still waits for it, so     *)
(* each entry alive must belong to one, and to a different one each.       *)
(***************************************************************************)

AliveWaits ==
    \A i \in 1..Len(waiters) :
        waiters[i].alive =>
            pc[waiters[i].g] \in {"waiting", "cancelling"}
            /\ ~ready[waiters[i].g]

AliveOnce ==
    \A i, j \in 1..Len(waiters) :
        waiters[i].alive /\ waiters[j].alive /\ waiters[i].g = waiters[j].g
            => i = j

ReadyWaits ==
    \A g \in Goroutines : ready[g] => pc[g] \in {"waiting", "cancelling"}

\* A waiter that does not own the lock has an entry.
WaiterQueued ==
    \A g \in Goroutines :
        pc[g] \in {"waiting", "cancelling"} /\ ~ready[g] =>
            \E i \in 1..Len(waiters) : waiters[i].g = g /\ waiters[i].alive

IInv ==
    /\ TypeOK
    /\ LockHasOneOwner
    /\ AliveWaits
    /\ AliveOnce
    /\ ReadyWaits
    /\ WaiterQueued

-----------------------------------------------------------------------------
LEMMA QueueLen == ASSUME TypeOK PROVE Len(waiters) \in Nat
BY LenProperties DEF TypeOK

LEMMA QueueElem ==
    ASSUME TypeOK, NEW i \in 1..Len(waiters)
    PROVE  waiters[i] \in Waiter
BY ElementOfSeq DEF TypeOK

LEMMA InitInv == Init => IInv
<1> SUFFICES ASSUME Init PROVE IInv
  OBVIOUS
<1>1. waiters = << >> /\ << >> \in Seq(Waiter) /\ Len(<< >>) = 0
  BY EmptySeq DEF Init
<1>2. TypeOK
  <2>1. Len(waiters) <= MaxWaiters
    BY <1>1, LockAssumption
  <2>2. waiters \in Seq(Waiter) /\ locked \in BOOLEAN
    BY <1>1 DEF Init
  <2>3. ready \in [Goroutines -> BOOLEAN]
    BY DEF Init
  <2>4. pc \in [Goroutines ->
                 {"idle", "waiting", "cancelling", "holding", "refused"}]
    BY DEF Init
  <2> QED
    BY <2>1, <2>2, <2>3, <2>4 DEF TypeOK
<1>3. LockHasOneOwner /\ ReadyWaits
  BY DEF Init, LockHasOneOwner, Owns, ReadyWaits
<1>4. AliveWaits /\ AliveOnce /\ WaiterQueued
  BY <1>1 DEF Init, AliveWaits, AliveOnce, WaiterQueued
<1> QED
  BY <1>2, <1>3, <1>4 DEF IInv

\* A step of one goroutine that leaves the queue alone.
LEMMA LockFreeInv ==
    ASSUME IInv, NEW g \in Goroutines, LockFree(g)
    PROVE  IInv'
<1> USE DEF IInv, LockFree
<1>1. TypeOK'
  BY DEF TypeOK
<1>2. LockHasOneOwner'
  BY DEF TypeOK, LockHasOneOwner, Owns
<1>3. AliveWaits' /\ AliveOnce'
  BY QueueElem DEF TypeOK, AliveWaits, AliveOnce, Waiter
<1>4. ReadyWaits' /\ WaiterQueued'
  BY DEF TypeOK, ReadyWaits, WaiterQueued
<1> QED
  BY <1>1, <1>2, <1>3, <1>4

LEMMA RefusedInv ==
    ASSUME IInv, NEW g \in Goroutines, LockRefused(g) \/ Refused(g)
    PROVE  IInv'
<1> USE DEF IInv, LockRefused, Refused
<1>1. TypeOK'
  BY DEF TypeOK
<1>2. LockHasOneOwner'
  BY DEF TypeOK, LockHasOneOwner, Owns
<1>3. AliveWaits' /\ AliveOnce'
  BY QueueElem DEF TypeOK, AliveWaits, AliveOnce, Waiter
<1>4. ReadyWaits' /\ WaiterQueued'
  BY DEF TypeOK, ReadyWaits, WaiterQueued
<1> QED
  BY <1>1, <1>2, <1>3, <1>4

LEMMA ContextDoneInv ==
    ASSUME IInv, NEW g \in Goroutines, ContextDone(g)
    PROVE  IInv'
<1> USE DEF IInv, ContextDone
<1>1. TypeOK'
  BY DEF TypeOK
<1>2. LockHasOneOwner'
  BY DEF TypeOK, LockHasOneOwner, Owns
<1>3. AliveWaits' /\ AliveOnce'
  BY QueueElem DEF TypeOK, AliveWaits, AliveOnce, Waiter
<1>4. ReadyWaits' /\ WaiterQueued'
  BY DEF TypeOK, ReadyWaits, WaiterQueued
<1> QED
  BY <1>1, <1>2, <1>3, <1>4

\* A goroutine notices that it has got the lock: Ready(), and Cancel() if the
\* cancellation came too late.
LEMMA TakesInv ==
    ASSUME IInv, NEW g \in Goroutines, ready[g],
           ready' = [ready EXCEPT ![g] = FALSE],
           pc' = [pc EXCEPT ![g] = "holding"], UNCHANGED <<locked, waiters>>
    PROVE  IInv'
<1> USE DEF IInv
<1>1. TypeOK'
  BY DEF TypeOK
<1>2. LockHasOneOwner'
  BY DEF TypeOK, LockHasOneOwner, Owns
<1>3. AliveWaits' /\ AliveOnce'
  BY QueueElem DEF TypeOK, AliveWaits, AliveOnce, Waiter
<1>4. ReadyWaits' /\ WaiterQueued'
  BY DEF TypeOK, ReadyWaits, WaiterQueued
<1> QED
  BY <1>1, <1>2, <1>3, <1>4

LEMMA LockWaitInv ==
    ASSUME IInv, NEW g \in Goroutines, LockWait(g)
    PROVE  IInv'
<1> DEFINE n == Len(waiters)
           w == [g |-> g, alive |-> TRUE]
<1>1. n \in Nat /\ waiters \in Seq(Waiter) /\ w \in Waiter
  BY QueueLen DEF IInv, TypeOK, Waiter
<1>2. waiters' = Append(waiters, w) /\ n < MaxWaiters /\ pc[g] = "idle"
      /\ locked /\ pc' = [pc EXCEPT ![g] = "waiting"]
      /\ UNCHANGED <<locked, ready>>
  BY DEF LockWait
<1>3. /\ waiters' \in Seq(Waiter) /\ Len(waiters') = n + 1
      /\ waiters'[n + 1] = w
      /\ \A i \in 1..n : waiters'[i] = waiters[i]
  BY <1>1, <1>2, AppendProperties
<1> HIDE DEF w
<1>4. w.g = g /\ w.alive
  BY DEF w
<1>5. \A i \in 1..n : waiters[i].g \in Goroutines
  BY QueueElem DEF IInv, Waiter
<1>6. \A i \in 1..n : waiters[i].alive => waiters[i].g # g
  BY <1>2 DEF IInv, AliveWaits
<1>7. ~ready[g]
  BY <1>2 DEF IInv, ReadyWaits
<1>8. TypeOK'
  BY <1>1, <1>2, <1>3, LockAssumption DEF IInv, TypeOK
<1>9. LockHasOneOwner'
  BY <1>2 DEF IInv, TypeOK, LockHasOneOwner, Owns
<1>10. \A i \in 1..(n + 1) : i = n + 1 \/ i \in 1..n
  BY <1>1
<1>11. AliveWaits'
  <2> SUFFICES ASSUME NEW i \in 1..(n + 1), waiters'[i].alive
               PROVE  pc'[waiters'[i].g] \in {"waiting", "cancelling"}
                      /\ ~ready'[waiters'[i].g]
    BY <1>3 DEF AliveWaits
  <2>1. CASE i = n + 1
    BY <2>1, <1>2, <1>3, <1>4, <1>7 DEF IInv, TypeOK
  <2>2. CASE i \in 1..n
    BY <2>2, <1>2, <1>3, <1>5, <1>6 DEF IInv, TypeOK, AliveWaits
  <2> QED
    BY <1>10, <2>1, <2>2
<1>12. AliveOnce'
  <2> SUFFICES ASSUME NEW i \in 1..(n + 1), NEW j \in 1..(n + 1),
                      waiters'[i].alive, waiters'[j].alive,
                      waiters'[i].g = waiters'[j].g
               PROVE  i = j
    BY <1>3 DEF AliveOnce
  <2> QED
    BY <1>3, <1>4, <1>6, <1>10 DEF IInv, AliveOnce
<1>13. ReadyWaits'
  BY <1>2 DEF IInv, TypeOK, ReadyWaits
<1>14. WaiterQueued'
  <2> SUFFICES ASSUME NEW h \in Goroutines,
                      pc'[h] \in {"waiting", "cancelling"}, ~ready'[h]
               PROVE  \E i \in 1..(n + 1) :
                          waiters'[i].g = h /\ waiters'[i].alive
    BY <1>3 DEF WaiterQueued
  <2>1. CASE h = g
    BY <2>1, <1>1, <1>3, <1>4
  <2>2. CASE h # g
    <3>1. pc[h] \in {"waiting", "cancelling"} /\ ~ready[h]
      BY <2>2, <1>2 DEF IInv, TypeOK
    <3>2. PICK i \in 1..n : waiters[i].g = h /\ waiters[i].alive
      BY <3>1 DEF IInv, WaiterQueued
    <3> QED
      BY <3>2, <1>1, <1>3
  <2> QED
    BY <2>1, <2>2
<1> QED
  BY <1>8, <1>9, <1>11, <1>12, <1>13, <1>14 DEF IInv

LEMMA CancelledInv ==
    ASSUME IInv, NEW g \in Goroutines, ~ready[g], pc[g] = "cancelling",
           waiters' = Kill(g), pc' = [pc EXCEPT ![g] = "idle"],
           UNCHANGED <<ready, locked>>
    PROVE  IInv'
<1> DEFINE n == Len(waiters)
<1>1. n \in Nat /\ waiters \in Seq(Waiter) /\ DOMAIN waiters = 1..n
  BY QueueLen, LenProperties DEF IInv, TypeOK
<1>2. \A i \in 1..n : waiters[i] \in Waiter
  BY QueueElem DEF IInv
<1>3. waiters' = [i \in 1..n |->
                    IF waiters[i].g = g
                    THEN [waiters[i] EXCEPT !.alive = FALSE]
                    ELSE waiters[i]]
  BY <1>1 DEF Kill
<1>4. \A i \in 1..n :
          (IF waiters[i].g = g THEN [waiters[i] EXCEPT !.alive = FALSE]
           ELSE waiters[i]) \in Waiter
  BY <1>2 DEF Waiter
<1>5. waiters' \in Seq(Waiter) /\ Len(waiters') = n
  <2>1. waiters' \in Seq(Waiter)
    BY <1>1, <1>3, <1>4, IsASeq
  <2>2. DOMAIN waiters' = 1..n
    BY <1>3
  <2> QED
    BY <1>1, <2>1, <2>2, LenProperties
<1>6. \A i \in 1..n : waiters'[i].g = waiters[i].g
                      /\ (waiters'[i].alive <=>
                            waiters[i].alive /\ waiters[i].g # g)
  BY <1>2, <1>3 DEF Waiter
<1>7. \A i \in 1..n : waiters[i].g \in Goroutines
  BY <1>2 DEF Waiter
<1>8. TypeOK'
  BY <1>1, <1>5 DEF IInv, TypeOK
<1>9. LockHasOneOwner'
  BY DEF IInv, TypeOK, LockHasOneOwner, Owns
<1>10. AliveWaits'
  BY <1>5, <1>6, <1>7 DEF IInv, TypeOK, AliveWaits
<1>11. AliveOnce'
  BY <1>5, <1>6 DEF IInv, AliveOnce
<1>12. ReadyWaits'
  BY DEF IInv, TypeOK, ReadyWaits
<1>13. WaiterQueued'
  <2> SUFFICES ASSUME NEW h \in Goroutines,
                      pc'[h] \in {"waiting", "cancelling"}, ~ready'[h]
               PROVE  \E i \in 1..n : waiters'[i].g = h /\ waiters'[i].alive
    BY <1>5 DEF WaiterQueued
  <2>1. h # g /\ pc[h] \in {"waiting", "cancelling"} /\ ~ready[h]
    BY DEF IInv, TypeOK
  <2>2. PICK i \in 1..n : waiters[i].g = h /\ waiters[i].alive
    BY <2>1 DEF IInv, WaiterQueued
  <2> QED
    BY <2>1, <2>2, <1>6
<1> QED
  BY <1>8, <1>9, <1>10, <1>11, <1>12, <1>13 DEF IInv

LEMMA HandOverInv ==
    ASSUME IInv, NEW g \in Goroutines, UnlockHandOver(g)
    PROVE  IInv'
<1> DEFINE n == Len(waiters)
<1>1. PICK k \in 1..n :
          /\ FirstAlive(k)
          /\ waiters' = SubSeq(waiters, k + 1, n)
          /\ ready' = [ready EXCEPT ![waiters[k].g] = TRUE]
  BY DEF UnlockHandOver
<1>2. pc[g] = "holding" /\ pc' = [pc EXCEPT ![g] = "idle"]
      /\ locked' = locked
  BY DEF UnlockHandOver
<1>3. n \in Nat /\ waiters \in Seq(Waiter) /\ n <= MaxWaiters
  BY QueueLen DEF IInv, TypeOK
<1> DEFINE x == waiters[k].g
<1>4. waiters[k].alive /\ \A j \in 1..(k - 1) : ~waiters[j].alive
  BY <1>1 DEF FirstAlive
<1>5. /\ waiters' \in Seq(Waiter) /\ Len(waiters') = n - k
      /\ \A i \in 1..(n - k) : waiters'[i] = waiters[k + i]
  BY <1>1, <1>3, SubSeqProperties
<1>6. \A i \in 1..n : waiters[i].g \in Goroutines
  BY QueueElem DEF IInv, Waiter
<1>7. x \in Goroutines /\ pc[x] \in {"waiting", "cancelling"} /\ ~ready[x]
  BY <1>1, <1>4, <1>6 DEF IInv, AliveWaits
<1>8. x # g
  BY <1>2, <1>7
<1>9. \A i \in 1..(n - k) : k + i \in 1..n /\ k + i # k
  BY <1>1, <1>3
<1> HIDE DEF n, x
<1>10. ready' = [ready EXCEPT ![x] = TRUE]
  BY <1>1 DEF x
<1>11. TypeOK'
  BY <1>1, <1>2, <1>3, <1>5, <1>7, <1>10, LockAssumption DEF IInv, TypeOK
<1>12. \A h \in Goroutines : Owns(h) <=> h = g
  BY <1>2 DEF IInv, LockHasOneOwner, Owns
<1>13. \A h \in Goroutines : Owns(h)' <=> h = x
  <2> SUFFICES ASSUME NEW h \in Goroutines PROVE Owns(h)' <=> h = x
    OBVIOUS
  <2>1. /\ pc'[h] = IF h = g THEN "idle" ELSE pc[h]
        /\ ready'[h] = IF h = x THEN TRUE ELSE ready[h]
    BY <1>2, <1>7, <1>10 DEF IInv, TypeOK
  <2>2. Owns(h) <=> h = g
    BY <1>12
  <2>3. g = h => ~ready[h]
    BY <1>2 DEF IInv, ReadyWaits
  <2>4. CASE h = x
    BY <2>1, <2>4 DEF Owns
  <2>5. CASE h # x /\ h = g
    BY <2>1, <2>3, <2>5 DEF Owns
  <2>6. CASE h # x /\ h # g
    BY <2>1, <2>2, <2>6 DEF Owns
  <2> QED
    BY <2>4, <2>5, <2>6
<1>14. LockHasOneOwner'
  BY <1>2, <1>7, <1>12, <1>13 DEF IInv, LockHasOneOwner
<1>15. \A i \in 1..(n - k) : waiters[k + i].alive => waiters[k + i].g # x
  BY <1>1, <1>4, <1>9 DEF IInv, AliveOnce, n, x
<1>16. AliveWaits'
  <2> SUFFICES ASSUME NEW i \in 1..(n - k), waiters'[i].alive
               PROVE  pc'[waiters'[i].g] \in {"waiting", "cancelling"}
                      /\ ~ready'[waiters'[i].g]
    BY <1>5 DEF AliveWaits
  <2>1. /\ waiters'[i] = waiters[k + i] /\ k + i \in 1..n
        /\ waiters[k + i].g # x
    BY <1>5, <1>9, <1>15
  <2>2. pc[waiters[k + i].g] \in {"waiting", "cancelling"}
        /\ ~ready[waiters[k + i].g] /\ waiters[k + i].g \in Goroutines
    BY <2>1, <1>6 DEF IInv, AliveWaits, n
  <2>3. waiters[k + i].g # g
    BY <2>2, <1>2
  <2> QED
    BY <2>1, <2>2, <2>3, <1>2, <1>7, <1>10 DEF IInv, TypeOK
<1>17. AliveOnce'
  <2> SUFFICES ASSUME NEW i \in 1..(n - k), NEW j \in 1..(n - k),
                      waiters'[i].alive, waiters'[j].alive,
                      waiters'[i].g = waiters'[j].g
               PROVE  i = j
    BY <1>5 DEF AliveOnce
  <2>1. k + i \in 1..n /\ k + j \in 1..n
    BY <1>9
  <2>2. waiters[k + i].alive /\ waiters[k + j].alive
        /\ waiters[k + i].g = waiters[k + j].g
    BY <1>5
  <2>3. k + i = k + j
    BY <2>1, <2>2 DEF IInv, AliveOnce, n
  <2> QED
    BY <2>3, <1>1, <1>3
<1>18. ReadyWaits'
  BY <1>2, <1>7, <1>8, <1>10 DEF IInv, TypeOK, ReadyWaits
<1>19. WaiterQueued'
  <2> SUFFICES ASSUME NEW h \in Goroutines,
                      pc'[h] \in {"waiting", "cancelling"}, ~ready'[h]
               PROVE  \E i \in 1..(n - k) :
                          waiters'[i].g = h /\ waiters'[i].alive
    BY <1>5 DEF WaiterQueued
  <2>1. /\ h # g /\ h # x /\ pc[h] \in {"waiting", "cancelling"}
        /\ ~ready[h]
    BY <1>2, <1>7, <1>10 DEF IInv, TypeOK
  <2>2. PICK j \in 1..n : waiters[j].g = h /\ waiters[j].alive
    BY <2>1 DEF IInv, WaiterQueued, n
  <2>3. ~(j \in 1..(k - 1)) /\ j # k
    BY <2>1, <2>2, <1>4 DEF x
  <2>4. j - k \in 1..(n - k) /\ k + (j - k) = j
    BY <2>3, <1>1, <1>3 DEF n
  <2>5. waiters'[j - k] = waiters[j]
    BY <2>4, <1>5
  <2> QED
    BY <2>2, <2>4, <2>5
<1> QED
  BY <1>11, <1>14, <1>16, <1>17, <1>18, <1>19 DEF IInv

LEMMA UnlockFreeInv ==
    ASSUME IInv, NEW g \in Goroutines, UnlockFree(g)
    PROVE  IInv'
<1>1. /\ pc[g] = "holding" /\ waiters' = << >> /\ locked' = FALSE
      /\ \A i \in 1..Len(waiters) : ~waiters[i].alive
      /\ pc' = [pc EXCEPT ![g] = "idle"] /\ ready' = ready
  BY DEF UnlockFree
<1>2. waiters' \in Seq(Waiter) /\ Len(waiters') = 0
  BY <1>1, EmptySeq
<1>3. TypeOK'
  <2>1. Len(waiters') <= MaxWaiters
    BY <1>2, LockAssumption
  <2>2. locked' \in BOOLEAN /\ ready' \in [Goroutines -> BOOLEAN]
    BY <1>1 DEF IInv, TypeOK
  <2>3. pc' \in [Goroutines ->
                  {"idle", "waiting", "cancelling", "holding", "refused"}]
    BY <1>1 DEF IInv, TypeOK
  <2> QED
    BY <1>2, <2>1, <2>2, <2>3 DEF TypeOK
<1>4. \A h \in Goroutines : Owns(h) <=> h = g
  BY <1>1 DEF IInv, LockHasOneOwner, Owns
<1>5. \A h \in Goroutines : ~Owns(h)'
  BY <1>1, <1>4 DEF IInv, TypeOK, Owns, ReadyWaits
<1>6. LockHasOneOwner'
  BY <1>1, <1>5 DEF LockHasOneOwner
<1>7. AliveWaits' /\ AliveOnce'
  BY <1>2 DEF AliveWaits, AliveOnce
<1>8. ReadyWaits' /\ WaiterQueued'
  BY <1>1 DEF IInv, TypeOK, ReadyWaits, WaiterQueued
<1> QED
  BY <1>3, <1>6, <1>7, <1>8 DEF IInv

LEMMA NextInv == IInv /\ [Next]_vars => IInv'
<1> SUFFICES ASSUME IInv, [Next]_vars PROVE IInv'
  OBVIOUS
<1>1. ASSUME NEW g \in Goroutines, Step(g) PROVE IInv'
  <2>1. CASE Ready(g)
    BY <2>1, TakesInv DEF Ready
  <2>2. CASE Cancel(g)
    BY <2>2, TakesInv, CancelledInv DEF Cancel
  <2> QED
    BY <1>1, <2>1, <2>2, LockFreeInv, LockWaitInv, RefusedInv,
       ContextDoneInv, HandOverInv, UnlockFreeInv DEF Step
<1>2. CASE UNCHANGED vars
  BY <1>2 DEF vars, IInv, TypeOK, LockHasOneOwner, Owns, AliveWaits,
     AliveOnce, ReadyWaits, WaiterQueued
<1> QED
  BY <1>1, <1>2 DEF Next

LEMMA Invariance == Spec => []IInv
BY InitInv, NextInv, PTL DEF Spec

\* The state of the lock map keeps its type; the queue never exceeds the
\* capacity of the channel `waiters`.
THEOREM LockTypeCorrect == Spec => []TypeOK
<1>1. IInv => TypeOK
  BY DEF IInv
<1> QED
  BY <1>1, Invariance, PTL

\* Lock() and Unlock() provide mutual exclusion and never leak the lock, for
\* any number of goroutines and cancellations at any time.
THEOREM MutualExclusion == Spec => []LockHasOneOwner
<1>1. IInv => LockHasOneOwner
  BY DEF IInv
<1> QED
  BY <1>1, Invariance, PTL

\* A goroutine that waits is in the queue of Unlock() or already owns the lock.
THEOREM NoWaiterIsForgotten == Spec => []WaiterQueued
<1>1. IInv => WaiterQueued
  BY DEF IInv
<1> QED
  BY <1>1, Invariance, PTL
=============================================================================
