----------------------- MODULE AggregateEngineProofs -----------------------
(***************************************************************************)
(* Proofs about AggregateEngine, for any engines, callers and bounds.      *)
(***************************************************************************)
EXTENDS AggregateEngine, SequenceTheorems, TLAPS

-----------------------------------------------------------------------------
(***************************************************************************)
(* Commits are numbered in order, so a state that the history has been in  *)
(* is the sequence of the first n numbers.                                 *)
(***************************************************************************)

Num(n) == [i \in 1..n |-> i]

LEMMA NumTyped ==
    ASSUME NEW n \in Nat, n <= MaxCommits
    PROVE  Num(n) \in State /\ Len(Num(n)) = n
<1>1. \A i \in 1..n : i \in Commits
  BY EngineAssumption DEF Commits
<1>2. Num(n) \in Seq(Commits)
  BY <1>1, IsASeq DEF Num
<1> QED
  BY <1>2, LenProperties DEF Num, State

LEMMA NumVid ==
    ASSUME NEW n \in Nat, n <= MaxCommits
    PROVE  VidOf(Num(n)) = n
<1>1. Num(n) \in State /\ Len(Num(n)) = n
  BY NumTyped
<1>2. CASE n = 0
  <2>1. Num(n) = << >>
    BY <1>1, <1>2, EmptySeq DEF State
  <2> QED
    BY <2>1, <1>2 DEF VidOf, NewState, EventEpoch
<1>3. CASE n # 0
  <2>1. Num(n) # << >>
    BY <1>1, <1>3, EmptySeq DEF State
  <2>2. Num(n)[n] = n
    BY <1>3 DEF Num
  <2> QED
    BY <2>1, <2>2, <1>1 DEF VidOf, NewState
<1> QED
  BY <1>2, <1>3

LEMMA NumEmpty == NewState = Num(0)
<1>1. Num(0) \in State /\ Len(Num(0)) = 0
  BY NumTyped, EngineAssumption
<1> QED
  BY <1>1, EmptySeq DEF State, NewState

LEMMA NumAppend ==
    ASSUME NEW n \in Nat, n + 1 <= MaxCommits
    PROVE  Append(Num(n), n + 1) = Num(n + 1)
<1>1. Num(n) \in State /\ Len(Num(n)) = n
  BY NumTyped, EngineAssumption
<1>2. n + 1 \in Commits
  BY EngineAssumption DEF Commits
<1>3. /\ Append(Num(n), n + 1) \in Seq(Commits)
      /\ Len(Append(Num(n), n + 1)) = n + 1
      /\ \A i \in 1..n + 1 : Append(Num(n), n + 1)[i] =
             IF i <= n THEN Num(n)[i] ELSE n + 1
  BY <1>1, <1>2, AppendProperties DEF State
<1>4. Num(n + 1) \in Seq(Commits) /\ Len(Num(n + 1)) = n + 1
  BY NumTyped, EngineAssumption DEF State
<1>5. \A i \in 1..n + 1 : Append(Num(n), n + 1)[i] = Num(n + 1)[i]
  BY <1>3 DEF Num
<1> QED
  BY <1>3, <1>4, <1>5, SeqEqual

LEMMA NumSubSeq ==
    ASSUME NEW n \in Nat, n <= MaxCommits, NEW m \in 0..n
    PROVE  SubSeq(Num(n), 1, m) = Num(m)
<1>1. Num(n) \in State /\ Len(Num(n)) = n /\ Num(m) \in State
      /\ Len(Num(m)) = m
  BY NumTyped, EngineAssumption
<1>2. /\ SubSeq(Num(n), 1, m) \in Seq(Commits)
      /\ Len(SubSeq(Num(n), 1, m)) = m
      /\ \A i \in 1..m : SubSeq(Num(n), 1, m)[i] = Num(n)[i]
  BY <1>1, SubSeqProperties DEF State
<1>3. \A i \in 1..m : SubSeq(Num(n), 1, m)[i] = Num(m)[i]
  BY <1>2 DEF Num
<1> QED
  BY <1>1, <1>2, <1>3, SeqEqual DEF State

LEMMA NumConcat ==
    ASSUME NEW n \in Nat, n <= MaxCommits, NEW m \in 0..n
    PROVE  /\ Num(m) \o SubSeq(Num(n), m + 1, n) = Num(n)
           /\ SubSeq(Num(n), m + 1, n) = << >> => m = n
<1>1. Num(n) \in Seq(Commits) /\ Len(Num(n)) = n /\ Num(m) \in Seq(Commits)
      /\ Len(Num(m)) = m
  BY NumTyped, EngineAssumption DEF State
<1> DEFINE r == SubSeq(Num(n), m + 1, n)
<1>2. /\ r \in Seq(Commits)
      /\ Len(r) = n - m
      /\ \A i \in 1..(n - m) : r[i] = Num(n)[m + i]
  BY <1>1, SubSeqProperties
<1> HIDE DEF r
<1>3. /\ Num(m) \o r \in Seq(Commits)
      /\ Len(Num(m) \o r) = n
      /\ \A i \in 1..n : (Num(m) \o r)[i] =
             IF i <= m THEN Num(m)[i] ELSE r[i - m]
  BY <1>1, <1>2, ConcatProperties
<1>4. ASSUME NEW i \in 1..n PROVE (Num(m) \o r)[i] = Num(n)[i]
  <2>1. CASE i <= m
    <3>1. (Num(m) \o r)[i] = Num(m)[i]
      BY <1>3, <2>1
    <3> QED
      BY <3>1, <2>1 DEF Num
  <2>2. CASE i > m
    <3>1. i - m \in 1..(n - m)
      BY <2>2
    <3>2. (Num(m) \o r)[i] = r[i - m]
      BY <1>3, <2>2
    <3>3. r[i - m] = Num(n)[m + (i - m)]
      BY <3>1, <1>2
    <3>4. m + (i - m) = i
      OBVIOUS
    <3> QED
      BY <3>2, <3>3, <3>4
  <2>3. i <= m \/ i > m
    OBVIOUS
  <2> QED
    BY <2>1, <2>2, <2>3
<1>5. Num(m) \o r = Num(n)
  BY <1>1, <1>3, <1>4, SeqEqual
<1>6. r = << >> => m = n
  BY <1>2, EmptySeq
<1> QED
  BY <1>5, <1>6 DEF r

-----------------------------------------------------------------------------
(***************************************************************************)
(* The inductive invariant.                                                *)
(***************************************************************************)

\* A state that the history is or has been in.
Past(s) == s = Num(Len(s)) /\ Len(s) <= Len(log)

\* What a call knows.  The commits that it has seen, and one for each retry,
\* are in the history; once it has found the state of an active history they
\* are in that state, and after a conflict there is one more.
CallInv(s) ==
    /\ Past(s.s)
    /\ s.seen + s.retries <= Len(log)
    /\ s.pc \in {"cache", "found", "committed"} /\ phase # "deleted" =>
          s.seen + s.retries <= Len(s.s)
    /\ s.pc = "conflict" /\ phase # "deleted" =>
          s.seen + s.retries + 1 <= Len(log)

LogInv ==
    /\ log = Num(Len(log))
    /\ Len(log) <= MaxCommits
    /\ phase = "none" <=> Len(log) = 0
    /\ \A i \in 1..Len(log) : base[i] = Num(i - 1)
    /\ phase = "deleted" => deletedOn = log

IInv ==
    /\ TypeOK
    /\ LogInv
    /\ \A e \in Engines : Past(cache[e])
    /\ \A c \in Callers : CallInv(call[c])

LEMMA PastFacts ==
    ASSUME TypeOK, LogInv, NEW s \in State, Past(s)
    PROVE  /\ Len(s) \in 0..Len(log)
           /\ VidOf(s) = Len(s)
           /\ VidOf(log) = Len(log)
           /\ s = NewState <=> Len(s) = 0
           /\ s = log <=> Len(s) = Len(log)
<1>1. Len(s) \in Nat /\ Len(log) \in Nat
  BY LenProperties DEF TypeOK, State
<1>2. VidOf(Num(Len(s))) = Len(s) /\ VidOf(Num(Len(log))) = Len(log)
  BY <1>1, NumVid, EngineAssumption DEF LogInv, Past
<1>3. s = << >> <=> Len(s) = 0
  BY EmptySeq DEF State
<1> QED
  BY <1>1, <1>2, <1>3 DEF LogInv, Past, NewState

LEMMA EmptyIsPast ==
    ASSUME TypeOK
    PROVE  NewState \in State /\ Len(NewState) = 0 /\ Past(NewState)
<1>1. NewState = Num(0) /\ Num(0) \in State /\ Len(Num(0)) = 0
  BY NumEmpty, NumTyped, EngineAssumption
<1>2. Len(log) \in Nat
  BY LenProperties DEF TypeOK, State
<1> QED
  BY <1>1, <1>2 DEF Past

LEMMA IdleOK ==
    ASSUME TypeOK
    PROVE  Idle \in CallType /\ CallInv(Idle)
<1>1. (CHOOSE e \in Engines : TRUE) \in Engines
  BY EngineAssumption
<1>2. NewState \in State /\ Past(NewState)
  BY EmptyIsPast
<1>3. Len(log) \in Nat
  BY LenProperties DEF TypeOK, State
<1> QED
  BY <1>1, <1>2, <1>3, EngineAssumption
  DEF Idle, CallType, CallInv, EventEpoch, Kinds, Errors

\* What holds for a call and a cached state holds on if the history grows.
Grows ==
    /\ TypeOK
    /\ log' \in State
    /\ Len(log) <= Len(log')
    /\ phase = "deleted" => phase' = "deleted"

LEMMA PastStays ==
    ASSUME Grows, NEW s \in State, Past(s)
    PROVE  Past(s)'
<1>1. Len(s) \in Nat /\ Len(log) \in Nat /\ Len(log') \in Nat
  BY LenProperties DEF Grows, TypeOK, State
<1> QED
  BY <1>1 DEF Past, Grows, Num

LEMMA CallInvStays ==
    ASSUME Grows, NEW s \in CallType, CallInv(s)
    PROVE  CallInv(s)'
<1>1. s.s \in State /\ s.seen \in Nat /\ s.retries \in Nat
  BY EngineAssumption DEF CallType
<1>2. Len(s.s) \in Nat /\ Len(log) \in Nat /\ Len(log') \in Nat
  BY <1>1, LenProperties DEF Grows, TypeOK, State
<1>3. Past(s.s)'
  BY <1>1, PastStays DEF CallInv
<1> QED
  BY <1>1, <1>2, <1>3 DEF CallInv, Grows

\* A step of one call.
LEMMA CallStep ==
    ASSUME IInv, Grows, NEW c \in Callers, NEW t \in CallType, CallInv(t)',
           Goto(c, t)
    PROVE  call' \in [Callers -> CallType]
           /\ \A d \in Callers : CallInv(call[d])'
<1>1. call \in [Callers -> CallType]
  BY DEF IInv, TypeOK
<1>2. call' = [call EXCEPT ![c] = t]
  BY DEF Goto
<1>3. \A d \in Callers : call'[d] = IF d = c THEN t ELSE call[d]
  BY <1>1, <1>2
<1>4. call' \in [Callers -> CallType]
  BY <1>1, <1>2
<1>5. ASSUME NEW d \in Callers PROVE CallInv(call[d])'
  <2>1. CASE d = c
    <3>1. call'[d] = t
      BY <1>3, <2>1
    <3> QED
      BY <3>1 DEF CallInv, Past
  <2>2. CASE d # c
    <3>1. call'[d] = call[d] /\ call[d] \in CallType /\ CallInv(call[d])
      BY <1>1, <1>3, <2>2 DEF IInv
    <3>2. ASSUME NEW x, x = call[d] PROVE x \in CallType /\ CallInv(x)
      BY <3>1, <3>2
    <3>3. ASSUME NEW x, x = call[d] PROVE CallInv(x)'
      BY <3>2, <3>3, CallInvStays
    <3> QED
      BY <3>1, <3>3 DEF CallInv, Past
  <2> QED
    BY <2>1, <2>2
<1> QED
  BY <1>4, <1>5

LEMMA Stutters ==
    ASSUME IInv, UNCHANGED <<phase, log>>
    PROVE  Grows
<1>1. Len(log) \in Nat
  BY LenProperties DEF IInv, TypeOK, State
<1> QED
  BY <1>1 DEF IInv, TypeOK, Grows

\* A step of one call that leaves the journal and the cache alone.
LEMMA LocalStep ==
    ASSUME IInv, UNCHANGED <<journalVars, cache>>, NEW c \in Callers,
           NEW t \in CallType, CallInv(t), Goto(c, t)
    PROVE  IInv'
<1>1. Grows
  BY Stutters DEF journalVars
<1>2. CallInv(t)'
  BY DEF CallInv, Past, journalVars
<1>3. call' \in [Callers -> CallType] /\ \A d \in Callers : CallInv(call[d])'
  BY <1>1, <1>2, CallStep
<1>4. LogInv' /\ \A e \in Engines : Past(cache[e])'
  BY DEF IInv, LogInv, Past, journalVars
<1>5. TypeOK'
  BY <1>3 DEF IInv, TypeOK, journalVars
<1> QED
  BY <1>3, <1>4, <1>5 DEF IInv

\* A step of one call that writes the cache.
LEMMA CacheStep ==
    ASSUME IInv, UNCHANGED journalVars, NEW c \in Callers,
           NEW t \in CallType, CallInv(t), Goto(c, t), NEW e \in Engines,
           NEW s \in State, Past(s), cache' = [cache EXCEPT ![e] = s]
    PROVE  IInv'
<1>1. Grows
  BY Stutters DEF journalVars
<1>2. CallInv(t)'
  BY DEF CallInv, Past, journalVars
<1>3. call' \in [Callers -> CallType] /\ \A d \in Callers : CallInv(call[d])'
  BY <1>1, <1>2, CallStep
<1>4. cache' \in [Engines -> State]
  BY DEF IInv, TypeOK
<1>5. \A d \in Engines : Past(cache'[d])
  BY DEF IInv, TypeOK
<1>6. LogInv' /\ \A d \in Engines : Past(cache[d])'
  BY <1>5 DEF IInv, LogInv, Past, journalVars
<1>7. TypeOK'
  BY <1>3, <1>4 DEF IInv, TypeOK, journalVars
<1> QED
  BY <1>3, <1>6, <1>7 DEF IInv

LEMMA CallFacts ==
    ASSUME IInv, NEW c \in Callers
    PROVE  /\ call[c] \in CallType
           /\ CallInv(call[c])
           /\ call[c].s \in State
           /\ Past(call[c].s)
           /\ call[c].eng \in Engines
           /\ call[c].seen \in Nat
           /\ call[c].retries \in Nat
           /\ Len(log) \in Nat
           /\ Len(call[c].s) \in Nat
<1>1. call[c] \in CallType /\ CallInv(call[c])
  BY DEF IInv, TypeOK
<1>2. call[c].s \in State
  BY <1>1 DEF CallType
<1>3. Len(log) \in Nat /\ Len(call[c].s) \in Nat
  BY <1>2, LenProperties DEF IInv, TypeOK, State
<1> QED
  BY <1>1, <1>2, <1>3, EngineAssumption DEF CallType, CallInv

\* The state of a call that only goes to another step.
LEMMA GotoOK ==
    ASSUME IInv, NEW c \in Callers,
           NEW pc \in {"lookup", "find", "deleteConflict", "uncache"}
    PROVE  LET t == [call[c] EXCEPT !.pc = pc]
           IN  t \in CallType /\ CallInv(t)
<1>1. call[c] \in CallType /\ CallInv(call[c])
  BY CallFacts
<1> QED
  BY <1>1 DEF CallType, CallInv

\* The state of a call that returns.
LEMMA ReturnOK ==
    ASSUME IInv, NEW s \in CallType, CallInv(s), NEW err \in Errors
    PROVE  Returned(s, err) \in CallType /\ CallInv(Returned(s, err))
<1>1. Idle \in CallType /\ CallInv(Idle)
  BY IdleOK DEF IInv
<1>2. Returned(s, err) \in CallType
  BY <1>1 DEF CallType, Returned
<1> QED
  BY <1>1, <1>2 DEF CallInv, CallType, Returned, Idle

LEMMA ReturnStep ==
    ASSUME IInv, UNCHANGED <<journalVars, cache>>, NEW c \in Callers,
           NEW s \in CallType, CallInv(s), NEW err \in Errors,
           Return(c, s, err)
    PROVE  IInv'
<1> DEFINE t == Returned(s, err)
<1>1. t \in CallType /\ CallInv(t)
  BY ReturnOK
<1>2. Goto(c, t)
  BY DEF Return
<1> HIDE DEF t
<1> QED
  BY <1>1, <1>2, LocalStep

\* The state of a call that is retried.
LEMMA RetryOK ==
    ASSUME IInv, NEW c \in Callers, call[c].retries < RetryN,
           call[c].seen + call[c].retries + 1 <= Len(log)
    PROVE  LET t == [call[c] EXCEPT !.pc = "lookup", !.s = NewState,
                                    !.retries = @ + 1]
           IN  t \in CallType /\ CallInv(t)
<1>1. NewState \in State /\ Past(NewState)
  BY EmptyIsPast DEF IInv
<1>2. /\ call[c] \in CallType
      /\ call[c].seen \in Nat
      /\ call[c].retries \in Nat
      /\ Len(log) \in Nat
  BY CallFacts
<1>3. call[c].retries + 1 \in 0..RetryN
  BY <1>2, EngineAssumption
<1>4. [call[c] EXCEPT !.pc = "lookup", !.s = NewState, !.retries = @ + 1]
        \in CallType
  BY <1>1, <1>2, <1>3 DEF CallType
<1>5. call[c].seen + (call[c].retries + 1) <= Len(log)
  BY <1>2
<1> QED
  BY <1>1, <1>2, <1>4, <1>5 DEF CallInv, CallType

\* The state of a call after TellFailed().  A version conflict is reported
\* only if there has been another commit.
LEMMA TellFailedOK ==
    ASSUME IInv, NEW c \in Callers, NEW err \in Errors, TellFailed(c, err),
           err = "VersionConflict" =>
               call[c].seen + call[c].retries + 1 <= Len(log)
    PROVE  \E t \in CallType : CallInv(t) /\ Goto(c, t)
<1>1. call[c] \in CallType /\ CallInv(call[c])
  BY CallFacts
<1>2. ASSUME NEW e \in Errors, Return(c, call[c], e)
      PROVE  \E t \in CallType : CallInv(t) /\ Goto(c, t)
  BY <1>1, <1>2, ReturnOK DEF Return
<1>3. CASE /\ call[c].retries < RetryN
           /\ err = "VersionConflict"
           /\ Goto(c, [call[c] EXCEPT !.pc = "lookup", !.s = NewState,
                                      !.retries = @ + 1])
  BY <1>3, RetryOK
<1>4. "RetryNoVC" \in Errors
  BY DEF Errors
<1> QED
  BY <1>2, <1>3, <1>4 DEF TellFailed

LEMMA BeginInv ==
    ASSUME IInv, NEW c \in Callers, NEW e \in Engines, NEW kind \in Kinds,
           NEW vid \in 0..MaxCommits, Begin(c, e, kind, vid)
    PROVE  IInv'
<1> DEFINE t == [Idle EXCEPT !.pc = "find", !.eng = e, !.kind = kind,
                             !.vid = vid, !.s = cache[e], !.seen = Len(log)]
<1>1. Idle \in CallType
  BY IdleOK DEF IInv
<1>2. cache[e] \in State /\ Past(cache[e]) /\ Len(log) \in Nat
  BY LenProperties DEF IInv, TypeOK, State
<1>a. Len(log) \in 0..MaxCommits /\ phase \in {"none", "active", "deleted"}
  BY <1>2, EngineAssumption DEF IInv, TypeOK, LogInv
<1>3. t \in CallType
  BY <1>1, <1>2, <1>a DEF CallType
<1>4. CallInv(t)
  BY <1>1, <1>2 DEF CallInv, Idle
<1>5. Goto(c, t) /\ UNCHANGED <<journalVars, cache>>
  BY DEF Begin
<1> HIDE DEF t
<1> QED
  BY <1>3, <1>4, <1>5, LocalStep

LEMMA BeginDeleteInv ==
    ASSUME IInv, NEW c \in Callers, NEW e \in Engines, BeginDeleteNoVC(c, e)
    PROVE  IInv'
<1> DEFINE t == [Idle EXCEPT !.eng = e, !.kind = "DeleteNoVC",
                             !.seen = Len(log)]
           u == [t EXCEPT !.pc = "lookup"]
<1>1. Idle \in CallType /\ CallInv(Idle)
  BY IdleOK DEF IInv
<1>2. Len(log) \in Nat
  BY LenProperties DEF IInv, TypeOK, State
<1>a. Len(log) \in 0..MaxCommits /\ phase \in {"none", "active", "deleted"}
  BY <1>2, EngineAssumption DEF IInv, TypeOK, LogInv
<1>b. "DeleteNoVC" \in Kinds
  BY DEF Kinds
<1>3. t \in CallType /\ u \in CallType
  BY <1>1, <1>a, <1>b DEF CallType
<1>4. CallInv(t) /\ CallInv(u)
  BY <1>1, <1>2 DEF CallInv, Idle
<1>5. (Return(c, t, "nil") \/ Goto(c, u)) /\ UNCHANGED <<journalVars, cache>>
  BY DEF BeginDeleteNoVC
<1>6. "nil" \in Errors
  BY DEF Errors
<1> HIDE DEF t, u
<1> QED
  BY <1>3, <1>4, <1>5, <1>6, LocalStep, ReturnStep

LEMMA LookupInv ==
    ASSUME IInv, NEW c \in Callers, Lookup(c)
    PROVE  IInv'
<1> DEFINE t == [call[c] EXCEPT !.pc = "find", !.s = cache[call[c].eng]]
<1>1. call[c] \in CallType /\ CallInv(call[c]) /\ call[c].eng \in Engines
  BY CallFacts
<1>2. cache[call[c].eng] \in State /\ Past(cache[call[c].eng])
  BY <1>1 DEF IInv, TypeOK
<1>3. t \in CallType
  BY <1>1, <1>2 DEF CallType
<1>4. CallInv(t)
  BY <1>1, <1>2 DEF CallInv, CallType
<1>5. Goto(c, t) /\ UNCHANGED <<journalVars, cache>>
  BY DEF Lookup
<1> HIDE DEF t
<1> QED
  BY <1>3, <1>4, <1>5, LocalStep

LEMMA FindInv ==
    ASSUME IInv, NEW c \in Callers, FindFromState(c)
    PROVE  IInv'
<1> DEFINE s == call[c].s
           new == Newer(s)
<1>1. /\ call[c] \in CallType /\ CallInv(call[c])
      /\ s \in State /\ Past(s)
      /\ Len(log) \in Nat /\ Len(s) \in Nat
      /\ call[c].seen \in Nat /\ call[c].retries \in Nat
  BY CallFacts
<1>2. log \in State /\ log = Num(Len(log)) /\ Len(log) <= MaxCommits
  BY DEF IInv, TypeOK, LogInv
<1>3. ASSUME NEW u \in State, Past(u), NEW pc \in {"cache", "found"},
             phase # "deleted" => Len(u) = Len(log),
             Goto(c, [call[c] EXCEPT !.s = u, !.pc = pc])
      PROVE  IInv'
  <2> DEFINE t == [call[c] EXCEPT !.s = u, !.pc = pc]
  <2>1. t \in CallType
    BY <1>1, <1>3 DEF CallType
  <2>2. CallInv(t)
    BY <1>1, <1>3, <2>1 DEF CallInv, CallType
  <2>3. Goto(c, t) /\ UNCHANGED <<journalVars, cache>>
    BY <1>3 DEF FindFromState
  <2> HIDE DEF t
  <2> QED
    BY <2>1, <2>2, <2>3, LocalStep
<1>4. CASE phase = "active"
  <2>1. new = SubSeq(log, Len(s) + 1, Len(log))
    BY <1>4 DEF Newer
  <2>2. Len(s) \in 0..Len(log)
    BY <1>1 DEF Past
  <2>3. Num(Len(s)) \o SubSeq(Num(Len(log)), Len(s) + 1, Len(log))
          = Num(Len(log))
    BY <1>1, <1>2, <2>2, NumConcat
  <2>4. s = Num(Len(s))
    BY <1>1 DEF Past
  <2>5. s \o new = log
    BY <1>2, <2>1, <2>3, <2>4
  <2>6. Past(log)
    BY <1>1, <1>2 DEF Past
  <2>7. \E pc \in {"cache", "found"} :
            Goto(c, [call[c] EXCEPT !.s = log, !.pc = pc])
    BY <2>5 DEF FindFromState
  <2> QED
    BY <1>2, <1>3, <2>6, <2>7
<1>5. CASE phase # "active"
  <2>1. new = << >>
    BY <1>5 DEF Newer
  <2>2. s \o new = s
    BY <1>1, <2>1, ConcatEmptySeq DEF State
  <2>3. Goto(c, [call[c] EXCEPT !.s = s, !.pc = "found"])
    BY <2>1, <2>2 DEF FindFromState
  <2>4. phase # "deleted" => Len(s) = Len(log)
    BY <1>1, <1>5 DEF IInv, TypeOK, LogInv, Past
  <2> HIDE DEF s
  <2> QED
    BY <1>1, <1>3, <2>3, <2>4
<1> QED
  BY <1>4, <1>5

LEMMA CacheFoundInv ==
    ASSUME IInv, NEW c \in Callers, CacheFound(c)
    PROVE  IInv'
<1> DEFINE t == [call[c] EXCEPT !.pc = "found"]
<1>1. /\ call[c] \in CallType /\ CallInv(call[c]) /\ call[c].eng \in Engines
      /\ call[c].s \in State /\ Past(call[c].s)
  BY CallFacts
<1>2. t \in CallType
  BY <1>1 DEF CallType
<1>3. CallInv(t)
  BY <1>1 DEF CallInv, CallType, CacheFound
<1>4. /\ Goto(c, t) /\ UNCHANGED journalVars
      /\ cache' = [cache EXCEPT ![call[c].eng] = call[c].s]
  BY DEF CacheFound
<1> HIDE DEF t
<1> QED
  BY <1>1, <1>2, <1>3, <1>4, CacheStep

LEMMA FoundInv ==
    ASSUME IInv, NEW c \in Callers, Found(c)
    PROVE  IInv'
<1>1. call[c] \in CallType /\ CallInv(call[c])
  BY CallFacts
<1>2. /\ \E err \in Errors : Return(c, call[c], err)
      /\ UNCHANGED <<journalVars, cache>>
  BY DEF Found, Errors
<1> QED
  BY <1>1, <1>2, ReturnStep

\* A step that fails the command and leaves the rest alone.
LEMMA FailedStep ==
    ASSUME IInv, UNCHANGED <<journalVars, cache>>, NEW c \in Callers,
           NEW err \in Errors, TellFailed(c, err),
           err = "VersionConflict" =>
               call[c].seen + call[c].retries + 1 <= Len(log)
    PROVE  IInv'
<1>1. PICK t \in CallType : CallInv(t) /\ Goto(c, t)
  BY TellFailedOK
<1> QED
  BY <1>1, LocalStep

LEMMA TellRefusedInv ==
    ASSUME IInv, NEW c \in Callers, TellRefused(c)
    PROVE  IInv'
<1>1. "Behavior" \in Errors
  BY DEF Errors
<1>2. TellFailed(c, "Behavior") /\ UNCHANGED <<journalVars, cache>>
  BY DEF TellRefused
<1> QED
  BY <1>1, <1>2, FailedStep

LEMMA TellNothingInv ==
    ASSUME IInv, NEW c \in Callers, TellNothing(c)
    PROVE  IInv'
<1>1. call[c] \in CallType /\ CallInv(call[c])
  BY CallFacts
<1>2. "nil" \in Errors
  BY DEF Errors
<1>3. Return(c, call[c], "nil") /\ UNCHANGED <<journalVars, cache>>
  BY DEF TellNothing
<1> QED
  BY <1>1, <1>2, <1>3, ReturnStep

\* The history after a commit.  The command was decided on its last state.
LEMMA AppendOK ==
    ASSUME IInv, NEW c \in Callers, Append1(c), Told(c)
    PROVE  /\ Grows
           /\ LogInv'
           /\ log' \in State
           /\ base' \in [Commits -> State]
           /\ Len(log') = Len(log) + 1
           /\ log' = Num(Len(log'))
           /\ phase' = "active"
           /\ phase # "deleted"
           /\ deletedOn' = deletedOn
           /\ call[c].s = log
<1> DEFINE s == call[c].s
           k == Len(log) + 1
<1>1. /\ s \in State /\ Past(s) /\ Len(log) \in Nat /\ Len(s) \in Nat
  BY CallFacts
<1>2. /\ log \in State /\ log = Num(Len(log)) /\ base \in [Commits -> State]
      /\ phase = "none" <=> Len(log) = 0
      /\ \A i \in 1..Len(log) : base[i] = Num(i - 1)
  BY DEF IInv, TypeOK, LogInv
<1>3. /\ IF VidOf(s) = EventEpoch THEN phase = "none"
         ELSE phase = "active" /\ VidOf(log) = VidOf(s)
      /\ k <= MaxCommits
      /\ phase' = "active"
      /\ log' = Append(log, k)
      /\ base' = [base EXCEPT ![k] = s]
      /\ deletedOn' = deletedOn
  BY DEF Append1
<1>4. VidOf(s) = Len(s) /\ VidOf(log) = Len(log) /\ (s = log <=> Len(s) = Len(log))
  BY <1>1, PastFacts DEF IInv
<1>5. s = log /\ phase # "deleted"
  BY <1>1, <1>2, <1>3, <1>4 DEF EventEpoch
<1> HIDE DEF s
<1>6. log' = Num(k)
  BY <1>1, <1>2, <1>3, NumAppend
<1>7. log' \in State /\ Len(log') = k
  <2>1. k \in Nat /\ k <= MaxCommits
    BY <1>1, <1>3
  <2> HIDE DEF k
  <2> QED
    BY <2>1, <1>6, NumTyped
<1>8. k \in Commits
  BY <1>1, <1>3 DEF Commits
<1>9. base' \in [Commits -> State] /\ base'[k] = s
      /\ \A i \in Commits : i # k => base'[i] = base[i]
  BY <1>1, <1>2, <1>3, <1>8
<1>10. \A i \in 1..k : base'[i] = Num(i - 1)
  <2> SUFFICES ASSUME NEW i \in 1..k PROVE base'[i] = Num(i - 1)
    OBVIOUS
  <2>1. CASE i = k
    <3>1. i - 1 = Len(log)
      BY <2>1, <1>1
    <3> QED
      BY <2>1, <3>1, <1>2, <1>5, <1>9
  <2>2. CASE i # k
    <3>1. i \in 1..Len(log) /\ i \in Commits
      BY <2>2, <1>1, <1>3, EngineAssumption DEF Commits
    <3> QED
      BY <3>1, <2>2, <1>2, <1>9
  <2> QED
    BY <2>1, <2>2
<1>11. LogInv'
  BY <1>1, <1>3, <1>6, <1>7, <1>10 DEF LogInv
<1>12. Grows
  BY <1>1, <1>5, <1>7 DEF Grows, IInv
<1> QED
  BY <1>3, <1>5, <1>6, <1>7, <1>9, <1>11, <1>12 DEF s

\* A step of one call that commits.
LEMMA AppendStep ==
    ASSUME IInv, NEW c \in Callers, Append1(c), Told(c), UNCHANGED cache,
           NEW t \in CallType, CallInv(t)', Goto(c, t)
    PROVE  IInv'
<1>1. /\ Grows /\ LogInv' /\ log' \in State
      /\ base' \in [Commits -> State]
      /\ phase' = "active" /\ deletedOn' = deletedOn
  BY AppendOK
<1>2. call' \in [Callers -> CallType] /\ \A d \in Callers : CallInv(call[d])'
  BY <1>1, CallStep
<1>3. TypeOK'
  BY <1>1, <1>2 DEF IInv, TypeOK
<1>4. ASSUME NEW e \in Engines PROVE Past(cache[e])'
  <2>1. cache[e] \in State /\ Past(cache[e]) /\ cache'[e] = cache[e]
    BY DEF IInv, TypeOK
  <2>2. ASSUME NEW x \in State, Past(x) PROVE Past(x)'
    BY <1>1, <2>2, PastStays
  <2>3. \A x \in State : Past(x) => x = Num(Len(x)) /\ Len(x) <= Len(log')
    BY <2>2 DEF Past
  <2> QED
    BY <2>1, <2>3 DEF Past
<1> QED
  BY <1>1, <1>2, <1>3, <1>4 DEF IInv

LEMMA CommitInv ==
    ASSUME IInv, NEW c \in Callers, Commit(c)
    PROVE  IInv'
<1> DEFINE t == [call[c] EXCEPT !.pc = "committed", !.s = log']
<1>1. Told(c) /\ Append1(c) /\ Goto(c, t) /\ UNCHANGED cache
  BY DEF Commit
<1>2. /\ Len(log') = Len(log) + 1 /\ log' \in State /\ log' = Num(Len(log'))
      /\ call[c].s = log
  BY <1>1, AppendOK
<1>3. /\ call[c] \in CallType /\ CallInv(call[c]) /\ Len(log) \in Nat
      /\ call[c].seen \in Nat /\ call[c].retries \in Nat
  BY CallFacts
<1>4. t \in CallType
  BY <1>2, <1>3 DEF CallType
<1>5. t.s = log' /\ t.pc = "committed" /\ t.seen = call[c].seen
      /\ t.retries = call[c].retries
  BY <1>3 DEF CallType
<1> HIDE DEF t
<1>6. call[c].seen + call[c].retries <= Len(log')
  BY <1>2, <1>3 DEF CallInv
<1>7. ASSUME NEW x, x = t PROVE CallInv(x)'
  BY <1>2, <1>3, <1>5, <1>6, <1>7 DEF CallInv, Past
<1>8. PICK x : x = t
  OBVIOUS
<1>9. x \in CallType /\ CallInv(x)' /\ Goto(c, x)
  BY <1>1, <1>4, <1>7, <1>8
<1> QED
  BY <1>1, <1>9, AppendStep

LEMMA CommitLostInv ==
    ASSUME IInv, NEW c \in Callers, CommitLost(c)
    PROVE  IInv'
<1>1. Told(c) /\ Append1(c) /\ TellFailed(c, "DB") /\ UNCHANGED cache
  BY DEF CommitLost
<1>2. "DB" \in Errors
  BY DEF Errors
<1>3. PICK t \in CallType : CallInv(t) /\ Goto(c, t)
  BY <1>1, <1>2, TellFailedOK
<1>4. Grows
  BY <1>1, AppendOK
<1>5. CallInv(t)'
  BY <1>3, <1>4, CallInvStays
<1> QED
  BY <1>1, <1>3, <1>5, AppendStep

LEMMA CommitRefusedInv ==
    ASSUME IInv, NEW c \in Callers, CommitRefused(c)
    PROVE  IInv'
<1>1. /\ call[c] \in CallType /\ CallInv(call[c])
      /\ call[c].s \in State /\ Past(call[c].s)
      /\ call[c].seen \in Nat /\ call[c].retries \in Nat
      /\ Len(log) \in Nat /\ Len(call[c].s) \in Nat
  BY CallFacts
<1>2. call[c].pc = "found" /\ UNCHANGED <<journalVars, cache>>
  BY DEF CommitRefused, Told
<1>3. CASE TellFailed(c, "InsertHead")
  <2>1. "InsertHead" \in Errors
    BY DEF Errors
  <2> QED
    BY <1>2, <1>3, <2>1, FailedStep
<1>4. CASE /\ VidOf(call[c].s) # EventEpoch
           /\ ~(phase = "active" /\ VidOf(log) = VidOf(call[c].s))
           /\ Goto(c, [call[c] EXCEPT !.pc = "conflict"])
  <2> DEFINE t == [call[c] EXCEPT !.pc = "conflict"]
  <2>1. t \in CallType
    BY <1>1 DEF CallType
  <2>2. /\ VidOf(call[c].s) = Len(call[c].s) /\ VidOf(log) = Len(log)
        /\ Len(call[c].s) \in 0..Len(log)
    BY <1>1, PastFacts DEF IInv
  <2>3. phase \in {"none", "active", "deleted"}
        /\ (phase = "none" => Len(log) = 0)
    BY DEF IInv, TypeOK, LogInv
  <2>4. phase # "deleted" => Len(call[c].s) + 1 <= Len(log)
    BY <1>1, <1>4, <2>2, <2>3 DEF EventEpoch
  <2>5. phase # "deleted" =>
            call[c].seen + call[c].retries + 1 <= Len(log)
    BY <1>1, <1>2, <2>4 DEF CallInv
  <2>6. CallInv(t)
    BY <1>1, <2>5 DEF CallInv, CallType
  <2> HIDE DEF t
  <2>7. Goto(c, t)
    BY <1>4 DEF t
  <2> QED
    BY <1>2, <2>1, <2>6, <2>7, LocalStep
<1> QED
  BY <1>3, <1>4 DEF CommitRefused

LEMMA CommitConflictInv ==
    ASSUME IInv, NEW c \in Callers, CommitConflict(c)
    PROVE  IInv'
<1>1. CallInv(call[c])
  BY CallFacts
<1>2. call[c].pc = "conflict" /\ UNCHANGED <<journalVars, cache>>
  BY DEF CommitConflict
<1>3. CASE HeadVid = EventEpoch
  <2>1. TellFailed(c, "UnknownHistory") /\ "UnknownHistory" \in Errors
    BY <1>3 DEF CommitConflict, Errors
  <2> QED
    BY <1>2, <2>1, FailedStep
<1>4. CASE HeadVid # EventEpoch
  <2>1. TellFailed(c, "VersionConflict") /\ "VersionConflict" \in Errors
    BY <1>4 DEF CommitConflict, Errors
  <2>2. phase # "deleted"
    BY <1>4 DEF HeadVid
  <2>3. call[c].seen + call[c].retries + 1 <= Len(log)
    BY <1>1, <1>2, <2>2 DEF CallInv
  <2> QED
    BY <1>2, <2>1, <2>3, FailedStep
<1> QED
  BY <1>3, <1>4

\* A step that writes the cache and returns.
LEMMA CacheReturnStep ==
    ASSUME IInv, UNCHANGED journalVars, NEW c \in Callers,
           Return(c, call[c], "nil"), NEW s \in State, Past(s),
           cache' = [cache EXCEPT ![call[c].eng] = s]
    PROVE  IInv'
<1> DEFINE t == Returned(call[c], "nil")
<1>1. call[c] \in CallType /\ CallInv(call[c]) /\ call[c].eng \in Engines
  BY CallFacts
<1>2. "nil" \in Errors
  BY DEF Errors
<1>3. t \in CallType /\ CallInv(t)
  BY <1>1, <1>2, ReturnOK
<1>4. Goto(c, t)
  BY DEF Return
<1> HIDE DEF t
<1> QED
  BY <1>1, <1>3, <1>4, CacheStep

LEMMA CacheCommittedInv ==
    ASSUME IInv, NEW c \in Callers, CacheCommitted(c)
    PROVE  IInv'
<1>1. call[c].s \in State /\ Past(call[c].s)
  BY CallFacts
<1>2. /\ Return(c, call[c], "nil") /\ UNCHANGED journalVars
      /\ cache' = [cache EXCEPT ![call[c].eng] = call[c].s]
  BY DEF CacheCommitted
<1> QED
  BY <1>1, <1>2, CacheReturnStep

LEMMA UncacheInv ==
    ASSUME IInv, NEW c \in Callers, Uncache(c)
    PROVE  IInv'
<1>1. NewState \in State /\ Past(NewState)
  BY EmptyIsPast DEF IInv
<1>2. /\ Return(c, call[c], "nil") /\ UNCHANGED journalVars
      /\ cache' = [cache EXCEPT ![call[c].eng] = NewState]
  BY DEF Uncache
<1> QED
  BY <1>1, <1>2, CacheReturnStep

LEMMA DeleteInv ==
    ASSUME IInv, NEW c \in Callers, Delete(c)
    PROVE  IInv'
<1>1. UNCHANGED <<log, base, cache>>
  BY DEF Delete
<1>2. CASE /\ UNCHANGED <<phase, deletedOn>>
           /\ Goto(c, [call[c] EXCEPT !.pc = "deleteConflict"])
  <2> DEFINE t == [call[c] EXCEPT !.pc = "deleteConflict"]
  <2>1. t \in CallType /\ CallInv(t)
    BY GotoOK
  <2>2. Goto(c, t) /\ UNCHANGED <<journalVars, cache>>
    BY <1>1, <1>2 DEF journalVars
  <2> HIDE DEF t
  <2> QED
    BY <2>1, <2>2, LocalStep
<1>3. CASE /\ phase = "active" /\ VidOf(log) = VidOf(call[c].s)
           /\ phase' = "deleted" /\ deletedOn' = call[c].s
           /\ Goto(c, [call[c] EXCEPT !.pc = "uncache"])
  <2> DEFINE t == [call[c] EXCEPT !.pc = "uncache"]
  <2>1. t \in CallType /\ CallInv(t)
    BY GotoOK
  <2>2. Goto(c, t)
    BY <1>3
  <2> HIDE DEF t
  <2>3. call[c].s \in State /\ Past(call[c].s) /\ Len(log) \in Nat
    BY CallFacts
  <2>4. call[c].s = log
    BY <1>3, <2>3, PastFacts DEF IInv
  <2>5. Grows
    BY <1>1, <1>3, <2>3 DEF Grows, IInv, TypeOK
  <2>a. PICK x : x = t
    OBVIOUS
  <2>b. x \in CallType /\ CallInv(x) /\ Goto(c, x)
    BY <2>1, <2>2, <2>a
  <2>6. CallInv(x)'
    BY <2>b, <2>5, CallInvStays
  <2>7. call' \in [Callers -> CallType]
        /\ \A d \in Callers : CallInv(call[d])'
    BY <2>b, <2>5, <2>6, CallStep
  <2>8. LogInv'
    BY <1>1, <1>3, <2>4 DEF IInv, LogInv
  <2>9. TypeOK'
    BY <1>1, <1>3, <2>3, <2>7 DEF IInv, TypeOK
  <2>10. \A e \in Engines : Past(cache[e])'
    BY <1>1 DEF IInv, Past
  <2> QED
    BY <2>7, <2>8, <2>9, <2>10 DEF IInv
<1> QED
  BY <1>2, <1>3 DEF Delete

LEMMA DeleteConflictInv ==
    ASSUME IInv, NEW c \in Callers, DeleteConflict(c)
    PROVE  IInv'
<1> DEFINE t == [call[c] EXCEPT !.pc = "uncache"]
<1>1. call[c] \in CallType /\ CallInv(call[c])
  BY CallFacts
<1>2. t \in CallType /\ CallInv(t)
  BY GotoOK
<1>3. /\ Goto(c, t) \/ Return(c, call[c], "VersionConflict")
      /\ UNCHANGED <<journalVars, cache>>
  BY DEF DeleteConflict
<1>4. "VersionConflict" \in Errors
  BY DEF Errors
<1> HIDE DEF t
<1> QED
  BY <1>1, <1>2, <1>3, <1>4, LocalStep, ReturnStep

LEMMA DBFailsInv ==
    ASSUME IInv, NEW c \in Callers, DBFails(c)
    PROVE  IInv'
<1>1. call[c] \in CallType /\ CallInv(call[c])
  BY CallFacts
<1>2. /\ Return(c, call[c], "DB") \/ TellFailed(c, "DB")
      /\ UNCHANGED <<journalVars, cache>>
  BY DEF DBFails
<1>3. "DB" \in Errors
  BY DEF Errors
<1> QED
  BY <1>1, <1>2, <1>3, ReturnStep, FailedStep

LEMMA DoneInv ==
    ASSUME IInv, NEW c \in Callers, Done(c)
    PROVE  IInv'
<1>1. Idle \in CallType /\ CallInv(Idle)
  BY IdleOK DEF IInv
<1>2. Goto(c, Idle) /\ UNCHANGED <<journalVars, cache>>
  BY DEF Done
<1> QED
  BY <1>1, <1>2, LocalStep

LEMMA RestartInv ==
    ASSUME IInv, NEW e \in Engines, Restart(e)
    PROVE  IInv'
<1>1. /\ cache' = [cache EXCEPT ![e] = NewState]
      /\ call' = [c \in Callers |-> IF call[c].eng = e THEN Idle ELSE call[c]]
      /\ UNCHANGED journalVars
  BY DEF Restart
<1>2. Idle \in CallType /\ CallInv(Idle)
  BY IdleOK DEF IInv
<1>3. NewState \in State /\ Past(NewState)
  BY EmptyIsPast DEF IInv
<1>4. \A c \in Callers : call'[c] \in CallType /\ CallInv(call'[c])
  BY <1>1, <1>2 DEF IInv, TypeOK
<1>5. \A d \in Engines : cache'[d] \in State /\ Past(cache'[d])
  BY <1>1, <1>3 DEF IInv, TypeOK
<1>6. TypeOK'
  BY <1>1, <1>4, <1>5 DEF IInv, TypeOK, journalVars
<1>7. LogInv'
  BY <1>1 DEF IInv, LogInv, journalVars
<1>8. \A d \in Engines : Past(cache[d])'
  BY <1>1, <1>5 DEF Past, journalVars
<1>9. \A c \in Callers : CallInv(call[c])'
  BY <1>1, <1>4 DEF CallInv, Past, journalVars
<1> QED
  BY <1>6, <1>7, <1>8, <1>9 DEF IInv

LEMMA InitInv == Init => IInv
<1> SUFFICES ASSUME Init PROVE IInv
  OBVIOUS
<1>1. NewState \in State /\ NewState = Num(0) /\ Len(NewState) = 0
  BY NumEmpty, NumTyped, EngineAssumption
<1>2. Idle \in CallType
  <2>1. (CHOOSE e \in Engines : TRUE) \in Engines
    BY EngineAssumption
  <2> QED
    BY <1>1, <2>1, EngineAssumption
    DEF Idle, CallType, EventEpoch, Kinds, Errors
<1>3. TypeOK
  BY <1>1, <1>2 DEF Init, TypeOK
<1>4. LogInv
  BY <1>1, EngineAssumption DEF Init, LogInv
<1>5. \A e \in Engines : Past(cache[e])
  BY <1>3, EmptyIsPast DEF Init
<1>6. \A c \in Callers : CallInv(call[c])
  BY <1>3, IdleOK DEF Init
<1> QED
  BY <1>3, <1>4, <1>5, <1>6 DEF IInv

LEMMA BeginAnyInv ==
    ASSUME IInv, NEW c \in Callers, NEW e \in Engines, BeginAny(c, e)
    PROVE  IInv'
<1>1. KnownVids \subseteq 0..MaxCommits
  <2>1. log = Num(Len(log)) /\ Len(log) <= MaxCommits
    BY DEF IInv, LogInv
  <2>2. Len(log) \in Nat
    BY LenProperties DEF IInv, TypeOK, State
  <2>3. \A i \in 1..Len(log) : Num(Len(log))[i] = i
    BY DEF Num
  <2>4. \A i \in 1..Len(log) : log[i] \in 0..MaxCommits
    BY <2>1, <2>2, <2>3, EngineAssumption
  <2> QED
    BY <2>4, EngineAssumption DEF KnownVids, EventEpoch
<1>2. EventEpoch \in 0..MaxCommits
  BY EngineAssumption DEF EventEpoch
<1>3. ASSUME NEW kind \in {"Find", "NoVC", "RetryNoVC"},
             Begin(c, e, kind, EventEpoch)
      PROVE  IInv'
  <2>1. kind \in Kinds
    BY DEF Kinds
  <2> QED
    BY <1>2, <1>3, <2>1, BeginInv
<1>4. ASSUME NEW kind \in {"VC", "DeleteVC"}, NEW vid \in KnownVids,
             Begin(c, e, kind, vid)
      PROVE  IInv'
  <2>1. kind \in Kinds /\ vid \in 0..MaxCommits
    BY <1>1 DEF Kinds
  <2> QED
    BY <1>4, <2>1, BeginInv
<1> QED
  BY <1>3, <1>4, BeginDeleteInv DEF BeginAny

LEMMA StepInv ==
    ASSUME IInv, NEW c \in Callers, Step(c)
    PROVE  IInv'
BY LookupInv, FindInv, CacheFoundInv, FoundInv, TellRefusedInv,
   TellNothingInv, CommitInv, CommitLostInv, CommitRefusedInv,
   CommitConflictInv, CacheCommittedInv, DeleteInv, DeleteConflictInv,
   UncacheInv, DBFailsInv, DoneInv DEF Step

LEMMA NextInv == IInv /\ [Next]_vars => IInv'
<1> SUFFICES ASSUME IInv, [Next]_vars PROVE IInv'
  OBVIOUS
<1>1. CASE Next
  BY <1>1, StepInv, BeginAnyInv, RestartInv DEF Next
<1>2. CASE UNCHANGED vars
  BY <1>2 DEF vars, IInv, TypeOK, LogInv, Past, CallInv
<1> QED
  BY <1>1, <1>2

-----------------------------------------------------------------------------
(***************************************************************************)
(* What the invariant implies.                                             *)
(***************************************************************************)

LEMMA InvImplies ==
    ASSUME IInv
    PROVE  /\ TypeOK
           /\ StatesArePrefixes
           /\ DecidedOnHead
           /\ SeesEarlierCommits
           /\ RetriesLostToCommits
<1>1. /\ log = Num(Len(log)) /\ Len(log) <= MaxCommits /\ log \in State
      /\ \A i \in 1..Len(log) : base[i] = Num(i - 1)
      /\ phase = "deleted" => deletedOn = log
  BY DEF IInv, LogInv, TypeOK
<1>2. Len(log) \in Nat
  BY <1>1, LenProperties DEF State
<1>3. ASSUME NEW m \in 0..Len(log) PROVE SubSeq(log, 1, m) = Num(m)
  <2>1. SubSeq(Num(Len(log)), 1, m) = Num(m)
    BY <1>1, <1>2, NumSubSeq
  <2> QED
    BY <1>1, <2>1
<1>4. ASSUME NEW s \in State, Past(s) PROVE Prefix(s, log)
  <2>1. Len(s) \in 0..Len(log)
    BY <1>2, <1>4, LenProperties DEF Past, State
  <2> QED
    BY <1>3, <1>4, <2>1 DEF Past, Prefix
<1>5. StatesArePrefixes
  BY <1>4, CallFacts DEF StatesArePrefixes, IInv, TypeOK
<1>6. DecidedOnHead
  <2>1. ASSUME NEW i \in 1..Len(log)
        PROVE  base[log[i]] = SubSeq(log, 1, i - 1)
    <3>1. Num(Len(log))[i] = i
      BY DEF Num
    <3>2. log[i] = i
      BY <1>1, <3>1
    <3>3. i - 1 \in 0..Len(log)
      BY <1>2
    <3> QED
      BY <1>1, <1>3, <3>2, <3>3
  <2> QED
    BY <1>1, <2>1 DEF DecidedOnHead
<1>7. SeesEarlierCommits
  <2> SUFFICES ASSUME NEW c \in Callers,
                      call[c].pc \in {"found", "committed"}, phase = "active"
               PROVE  call[c].seen <= Len(call[c].s)
    BY DEF SeesEarlierCommits
  <2> QED
    BY CallFacts DEF CallInv
<1>8. RetriesLostToCommits
  BY CallFacts DEF RetriesLostToCommits, CallInv
<1> QED
  BY <1>5, <1>6, <1>7, <1>8 DEF IInv

LEMMA Invariance == Spec => []IInv
BY InitInv, NextInv, PTL DEF Spec

\* Every variable of the engines keeps its type, for any number of engines,
\* goroutines, retries and commits.
THEOREM EngineTypeCorrect == Spec => []TypeOK
BY Invariance, InvImplies, PTL

\* The caches of FindFromState() and TellState() hold only states that the
\* history has been in, whoever writes them and in whatever order.
THEOREM CachesHoldPastStates == Spec => []StatesArePrefixes
BY Invariance, InvImplies, PTL

\* Every commit and every deletion was decided on the state that it replaces:
\* there are no lost updates between commands, goroutines and processes.
THEOREM NoLostUpdates == Spec => []DecidedOnHead
BY Invariance, InvImplies, PTL

\* FindId() returns a state that contains all commits from before the call,
\* although it starts from a cache that other processes do not maintain.
THEOREM FindIdIsFresh == Spec => []SeesEarlierCommits
BY Invariance, InvImplies, PTL

\* Each retry of tellIdVidRetryNoVC() is paid for by a commit of another call.
THEOREM RetriesMakeProgress == Spec => []RetriesLostToCommits
BY Invariance, InvImplies, PTL
=============================================================================
