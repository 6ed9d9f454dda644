------------------------- MODULE EventJournalProofs -------------------------
(***************************************************************************)
(* Proofs about EventJournal, for any sets of histories and clients and    *)
(* any bounds.  The trimmer is not part of that specification, so epochs   *)
(* and tails are unset.                                                    *)
(***************************************************************************)
EXTENDS EventJournal, SequenceTheorems, WellFoundedInduction, TLAPS

-----------------------------------------------------------------------------
(***************************************************************************)
(* Type correctness.                                                       *)
(***************************************************************************)

\* The indexes into `evs` are in range where the code uses them.
Bounds(s) ==
    /\ s.pc = "store" => s.n < Len(s.evs)
    /\ s.pc = "updateHead" => Len(s.evs) > 0
    /\ s.pc = "insert" => s.n <= Len(s.evs)

TypeInv == TypeOK /\ \A c \in Clients : Bounds(cl[c])


LEMMA NewCallTyped == \A h \in Histories : NewCall(h) \in ClientState
<1>1. NoRefs \in RefsDoc
  BY JournalAssumption DEF NoRefs, RefsDoc, Vid, EventEpoch, Phase,
     HeadSerialUnspecified
<1> QED
  BY <1>1, JournalAssumption DEF NewCall, ClientState, Vid, EventEpoch, NoErr

LEMMA IdleTyped == Idle \in ClientState /\ Idle.pc = "idle"
<1>1. PICK h \in Histories : h = CHOOSE g \in Histories : TRUE
  BY JournalAssumption
<1>2. Idle = NewCall(h)
  BY <1>1 DEF Idle
<1> QED
  BY <1>2, NewCallTyped DEF NewCall

\* A client's state stays well formed when it goes to a well formed state.
LEMMA GotoTyped ==
    ASSUME cl \in [Clients -> ClientState], \A d \in Clients : Bounds(cl[d]),
           NEW c \in Clients, NEW s \in ClientState, Bounds(s), Goto(c, s)
    PROVE  /\ cl' \in [Clients -> ClientState]
           /\ \A d \in Clients : Bounds(cl'[d])
BY DEF Goto

Err == {NoErr} \cup JournalErrors \cup CommitErrors

LEMMA FinishedTyped ==
    ASSUME NEW s \in ClientState, NEW e \in Err, NEW evs \in Seq(EvId),
           NEW k \in Nat, NEW v \in Vid
    PROVE  LET t == [s EXCEPT !.pc = "done", !.err = e, !.evs = evs,
                              !.n = k, !.cur = v, !.serial = k]
           IN  t \in ClientState /\ Bounds(t)
BY DEF ClientState, Err, Bounds

LEMMA FinishTyped ==
    ASSUME cl \in [Clients -> ClientState], \A d \in Clients : Bounds(cl[d]),
           NEW c \in Clients, NEW e \in Err, Finish(c, e)
    PROVE  /\ cl' \in [Clients -> ClientState]
           /\ \A d \in Clients : Bounds(cl'[d])
<1> DEFINE t == [cl[c] EXCEPT !.pc = "done", !.err = e, !.evs = << >>,
                              !.n = 0, !.cur = EventEpoch, !.serial = 0]
<1>1. EventEpoch \in Vid /\ 0 \in Nat
  BY JournalAssumption DEF Vid, EventEpoch
<1>2. << >> \in Seq(EvId)
  OBVIOUS
<1>3. cl[c] \in ClientState
  OBVIOUS
<1>4. t \in ClientState /\ Bounds(t)
  BY <1>1, <1>2, <1>3, FinishedTyped, Zenon
<1>5. Goto(c, t)
  BY DEF Finish
<1> HIDE DEF t
<1> QED
  BY <1>4, <1>5, GotoTyped

\* A version that is not the epoch is an event.
LEMMA VidIsEvent == \A v \in Vid : v # EventEpoch => v \in EvId
BY JournalAssumption DEF Vid, EventEpoch, EvId

LEMMA BatchTyped ==
    ASSUME NEW k \in Nat, NEW n \in Nat, k >= 1, k + n <= MaxEvents + 1
    PROVE  [i \in 1..n |-> k + i - 1] \in Seq(EvId)
BY JournalAssumption DEF EvId

LEMMA TypeStep == TypeInv /\ [Next]_vars => TypeInv'
<1> SUFFICES ASSUME TypeInv, [Next]_vars PROVE TypeInv'
  OBVIOUS
<1> USE JournalAssumption
<1>0. CASE UNCHANGED vars
  BY <1>0 DEF vars, TypeInv, TypeOK, Bounds
<1>1. ASSUME NEW c \in Clients, ClientNext(c) PROVE TypeInv'
  <2> DEFINE s == cl[c]
  <2>0. s \in ClientState /\ Bounds(s)
    BY DEF TypeInv, TypeOK
  <2>1. ASSUME NEW h \in Histories, NEW vid \in KnownVids(h),
               NEW n \in 1..MaxBatch, CommitBegin(c, h, vid, n)
        PROVE  TypeInv'
    <3> DEFINE t == [NewCall(h) EXCEPT !.pc = "store", !.vid = vid,
                        !.evs = [i \in 1..n |-> nextId + i - 1]]
    <3>1. vid \in Vid
      BY DEF KnownVids, TypeInv, TypeOK, Vid, EvId, EventEpoch
    <3>2. [i \in 1..n |-> nextId + i - 1] \in Seq(EvId)
      <4>1. /\ nextId \in Nat /\ nextId >= 1 /\ n \in Nat
            /\ nextId + n <= MaxEvents + 1
        BY <2>1 DEF CommitBegin, TypeInv, TypeOK
      <4> QED
        BY <4>1, BatchTyped
    <3>3. t \in ClientState /\ Bounds(t)
      <4>1. ASSUME NEW evs \in Seq(EvId), Len(evs) > 0
            PROVE  LET u == [NewCall(h) EXCEPT !.pc = "store", !.vid = vid,
                                               !.evs = evs]
                   IN  u \in ClientState /\ Bounds(u)
        <5>1. NewCall(h) \in ClientState /\ NewCall(h).n = 0
          BY NewCallTyped DEF NewCall
        <5> QED
          BY <3>1, <4>1, <5>1 DEF ClientState, Bounds
      <4>2. Len([i \in 1..n |-> nextId + i - 1]) > 0
        OBVIOUS
      <4> QED
        BY <3>2, <4>1, <4>2
    <3>4. Goto(c, t)
      BY <2>1 DEF CommitBegin
    <3>5. cl' \in [Clients -> ClientState] /\ \A d \in Clients : Bounds(cl'[d])
      <4> HIDE DEF t
      <4> QED BY <3>3, <3>4, GotoTyped DEF TypeInv, TypeOK
    <3>6. parent' \in [EvId -> Vid]
      BY SMTT(30), <2>1, <3>1 DEF CommitBegin, TypeInv, TypeOK, EvId, Vid
    <3>7. nextId' \in 1..(MaxEvents + 1)
      BY <2>1 DEF CommitBegin, TypeInv, TypeOK
    <3> QED
      BY <2>1, <3>5, <3>6, <3>7 DEF CommitBegin, TypeInv, TypeOK, Bounds
  <2>2. ASSUME NEW h \in Histories, NEW vid \in KnownVids(h),
               DeleteRefs(c, h, vid)
        PROVE  TypeInv'
    <3>1. vid \in Vid
      BY DEF KnownVids, TypeInv, TypeOK, Vid, EvId, EventEpoch
    <3>2. cl' \in [Clients -> ClientState] /\ \A d \in Clients : Bounds(cl'[d])
      <4> DEFINE t == [NewCall(h) EXCEPT !.pc = "deleteConflict", !.vid = vid]
      <4>0. NewCall(h) \in ClientState
        BY NewCallTyped
      <4>1. t \in ClientState /\ Bounds(t)
        BY <3>1, <4>0 DEF ClientState, Bounds
      <4>2. cl' = cl \/ Goto(c, t)
        BY <2>2 DEF DeleteRefs
      <4> HIDE DEF t
      <4> QED BY <4>1, <4>2, GotoTyped DEF TypeInv, TypeOK
    <3>3. refs' \in [Histories -> RefsDoc]
      <4>1. \A p \in Phase : [refs EXCEPT ![h].phase = p] \in [Histories -> RefsDoc]
        BY DEF TypeInv, TypeOK, RefsDoc
      <4>2. "deleting" \in Phase
        BY DEF Phase
      <4> QED
        BY <2>2, <4>1, <4>2 DEF DeleteRefs, TypeInv, TypeOK
    <3> QED
      BY <2>2, <3>2, <3>3 DEF DeleteRefs, TypeInv, TypeOK, Bounds
  <2>3. ASSUME NEW h \in Histories, NEW vid \in KnownVids(h),
               FindBegin(c, h, vid)
        PROVE  TypeInv'
    <3>1. vid \in Vid /\ refs[h] \in RefsDoc
      BY DEF KnownVids, TypeInv, TypeOK, Vid, EvId, EventEpoch
    <3> DEFINE t == [NewCall(h) EXCEPT !.vid = vid, !.snap = refs[h]]
    <3>2. t \in ClientState
      <4>1. NewCall(h) \in ClientState
        BY NewCallTyped
      <4> QED
        BY <3>1, <4>1 DEF ClientState
    <3>3. PICK u \in ClientState : Bounds(u) /\ Goto(c, u)
      <4>1. /\ [t EXCEPT !.pc = "done"] \in ClientState
            /\ Bounds([t EXCEPT !.pc = "done"])
        BY <3>2 DEF ClientState, Bounds
      <4>2. /\ [t EXCEPT !.pc = "start", !.serial = refs[h].serial] \in ClientState
            /\ Bounds([t EXCEPT !.pc = "start", !.serial = refs[h].serial])
        BY <3>1, <3>2 DEF ClientState, Bounds, RefsDoc
      <4>3. /\ [t EXCEPT !.pc = "walkSerial", !.cur = refs[h].head] \in ClientState
            /\ Bounds([t EXCEPT !.pc = "walkSerial", !.cur = refs[h].head])
        BY <3>1, <3>2 DEF ClientState, Bounds, RefsDoc
      <4> QED BY <2>3, <4>1, <4>2, <4>3 DEF FindBegin
    <3> QED
      BY <2>3, <3>3, GotoTyped DEF FindBegin, storeVars, TypeInv, TypeOK, Bounds
  <2>4. CASE StoreEvent(c)
    <3> DEFINE t == [s EXCEPT !.n = s.n + 1,
                              !.pc = IF s.n + 1 = Len(s.evs)
                                     THEN "updateHead" ELSE "store"]
    <3>1. t \in ClientState /\ Bounds(t)
      <4>1. PICK k \in Nat : k = s.n + 1 /\ k <= Len(s.evs)
        <5>1. s.n + 1 \in Nat /\ s.n + 1 <= Len(s.evs)
          BY <2>0, <2>4 DEF StoreEvent, ClientState, Bounds
        <5> QED BY <5>1
      <4>2. PICK pc \in {"store", "updateHead"} :
               pc = IF s.n + 1 = Len(s.evs) THEN "updateHead" ELSE "store"
        OBVIOUS
      <4>3. [s EXCEPT !.n = k, !.pc = pc] \in ClientState
        BY <2>0 DEF ClientState
      <4>4. /\ pc = "store" => k < Len(s.evs)
            /\ pc = "updateHead" => Len(s.evs) > 0
        BY <2>0, <4>1, <4>2 DEF ClientState
      <4>5. Bounds([s EXCEPT !.n = k, !.pc = pc])
        <5>1. Len(s.evs) \in Nat
          BY <2>0 DEF ClientState
        <5> QED
          BY <2>0, <4>4, <5>1 DEF ClientState, Bounds
      <4> QED
        BY <4>1, <4>2, <4>3, <4>5
    <3>2. s.evs[s.n + 1] \in EvId
      BY <2>0, <2>4 DEF StoreEvent, ClientState, Bounds
    <3>3. Goto(c, t)
      BY <2>4 DEF StoreEvent
    <3>4. cl' \in [Clients -> ClientState] /\ \A d \in Clients : Bounds(cl'[d])
      <4> HIDE DEF t
      <4> QED BY <3>1, <3>3, GotoTyped DEF TypeInv, TypeOK
    <3> QED
      BY <2>4, <3>2, <3>4 DEF StoreEvent, TypeInv, TypeOK, Bounds
  <2>5. ASSUME NEW doc \in RefsDoc, s.pc = "updateHead", doc.head \in EvId,
               MoveHead(c, s.h, doc)
        PROVE  TypeInv'
    <3>1. cl' \in [Clients -> ClientState] /\ \A d \in Clients : Bounds(cl'[d])
      BY <2>5, FinishTyped DEF Err, MoveHead, TypeInv, TypeOK
    <3>2. s.h \in Histories /\ s.evs \in Seq(EvId)
      BY <2>0 DEF ClientState
    <3>3. refs' \in [Histories -> RefsDoc]
      BY <2>5, <3>2 DEF MoveHead, TypeInv, TypeOK
    <3>4. log' \in [Histories -> Seq(EvId)]
      BY <2>5, <3>2 DEF MoveHead, TypeInv, TypeOK
    <3>5. heads' \in [Histories -> SUBSET EvId]
      BY <2>5, <3>2 DEF MoveHead, TypeInv, TypeOK
    <3> QED
      BY <2>5, <3>1, <3>3, <3>4, <3>5 DEF MoveHead, TypeInv, TypeOK, Bounds
  <2>6. s.pc = "updateHead" => s.evs[Len(s.evs)] \in EvId
    BY <2>0 DEF ClientState, Bounds
  <2>7. ASSUME cl' \in [Clients -> ClientState],
               \A d \in Clients : Bounds(cl'[d]), UNCHANGED storeVars
        PROVE  TypeInv'
    BY <2>7 DEF storeVars, TypeInv, TypeOK, Bounds
  <2>8. ASSUME NEW e \in Err, Finish(c, e), UNCHANGED storeVars
        PROVE  TypeInv'
    BY <2>8, <2>7, FinishTyped DEF TypeInv, TypeOK
  <2>9. ASSUME NEW t \in ClientState, Bounds(t), Goto(c, t), UNCHANGED storeVars
        PROVE  TypeInv'
    BY <2>9, <2>7, GotoTyped DEF TypeInv, TypeOK
  <2>10. CASE InsertHead(c)
    <3> DEFINE doc == [NoRefs EXCEPT !.head = s.evs[Len(s.evs)],
                                     !.phase = "active"]
    <3>1. s.pc = "updateHead"
      BY <2>10 DEF InsertHead
    <3>2. doc \in RefsDoc /\ doc.head \in EvId
      <4>1. NoRefs \in RefsDoc
        BY DEF NoRefs, RefsDoc, Vid, EventEpoch, Phase, HeadSerialUnspecified
      <4>2. PICK e \in EvId : e = s.evs[Len(s.evs)]
        BY <2>6, <3>1
      <4>3. e \in Vid
        BY DEF EvId, Vid
      <4> QED
        BY <4>1, <4>2, <4>3 DEF RefsDoc, Phase
    <3>3. CASE MoveHead(c, s.h, doc)
      BY <2>5, <3>1, <3>2, <3>3
    <3>4. CASE Finish(c, "InsertHeadError") /\ UNCHANGED storeVars
      BY <2>8, <3>4 DEF Err, CommitErrors
    <3> QED
      BY <2>10, <3>3, <3>4 DEF InsertHead
  <2>11. CASE UpdateHead(c)
    <3> DEFINE doc == [refs[s.h] EXCEPT !.head = s.evs[Len(s.evs)],
                                        !.serial = HeadSerialUnspecified]
    <3>1. s.pc = "updateHead"
      BY <2>11 DEF UpdateHead
    <3>2. doc \in RefsDoc /\ doc.head \in EvId
      <4>1. refs[s.h] \in RefsDoc
        BY <2>0 DEF TypeInv, TypeOK, ClientState
      <4>2. PICK e \in EvId : e = s.evs[Len(s.evs)]
        BY <2>6, <3>1
      <4>3. e \in Vid
        BY DEF EvId, Vid
      <4> QED
        BY <4>1, <4>2, <4>3 DEF RefsDoc, HeadSerialUnspecified
    <3>3. CASE MoveHead(c, s.h, doc)
      BY <2>5, <3>1, <3>2, <3>3
    <3>4. CASE Goto(c, [s EXCEPT !.pc = "commitConflict"]) /\ UNCHANGED storeVars
      <4>1. /\ [s EXCEPT !.pc = "commitConflict"] \in ClientState
            /\ Bounds([s EXCEPT !.pc = "commitConflict"])
        BY <2>0 DEF ClientState, Bounds
      <4> QED
        BY <2>9, <3>4, <4>1
    <3> QED
      BY <2>11, <3>3, <3>4 DEF UpdateHead
  <2>12. CASE CommitConflict(c)
    BY <2>8, <2>12 DEF CommitConflict, Err, CommitErrors
  <2>13. CASE DeleteConflict(c)
    BY <2>8, <2>13 DEF DeleteConflict, Err, CommitErrors
  <2>14. CASE WalkSerial(c)
    <3>1. ASSUME NEW k \in Nat
          PROVE  /\ [s EXCEPT !.pc = "insert", !.serial = k,
                              !.n = Len(s.evs)] \in ClientState
                 /\ Bounds([s EXCEPT !.pc = "insert", !.serial = k,
                                     !.n = Len(s.evs)])
      <4>1. PICK m \in Nat : m = Len(s.evs)
        BY <2>0 DEF ClientState
      <4>2. [s EXCEPT !.pc = "insert", !.serial = k, !.n = m] \in ClientState
        BY <2>0 DEF ClientState
      <4>3. Bounds([s EXCEPT !.pc = "insert", !.serial = k, !.n = m])
        BY <2>0, <4>1 DEF ClientState, Bounds
      <4> QED
        BY <4>1, <4>2, <4>3
    <3>2. /\ [s EXCEPT !.pc = "walkEvent"] \in ClientState
          /\ Bounds([s EXCEPT !.pc = "walkEvent"])
      BY <2>0 DEF ClientState, Bounds
    <3>3. s.cur # EventEpoch => journal[s.h][s.cur] \in Nat
      BY <2>0 DEF ClientState, TypeInv, TypeOK, Vid, EvId, EventEpoch
    <3>4. \E t \in ClientState : Bounds(t) /\ Goto(c, t)
      BY <2>14, <3>1, <3>2, <3>3 DEF WalkSerial
    <3> QED
      BY <2>9, <2>14, <3>4 DEF WalkSerial
  <2>15. CASE WalkEvent(c)
    <3>1. CASE Finish(c, "FindEventError")
      BY <2>8, <2>15, <3>1 DEF WalkEvent, Err, JournalErrors
    <3>2. CASE s.cur \in stored
      <4> DEFINE evs == Append(s.evs, s.cur)
                 t1 == [s EXCEPT !.pc = "insert", !.evs = evs, !.serial = 0,
                                 !.n = Len(evs)]
                 t2 == [s EXCEPT !.pc = "walkSerial", !.evs = evs,
                                 !.cur = parent[s.cur]]
      <4>1. evs \in Seq(EvId) /\ parent[s.cur] \in Vid
        BY <2>0, <3>2 DEF ClientState, TypeInv, TypeOK
      <4>2. t1 \in ClientState /\ Bounds(t1)
        <5>1. ASSUME NEW q \in Seq(EvId), NEW m \in Nat
              PROVE  [s EXCEPT !.pc = "insert", !.evs = q, !.serial = 0,
                               !.n = m] \in ClientState
          BY <2>0 DEF ClientState
        <5>2. t1.n = Len(evs) /\ t1.evs = evs /\ t1.pc = "insert"
          <6> HIDE DEF evs
          <6> QED BY <2>0 DEF ClientState
        <5>3. Len(evs) \in Nat
          BY <4>1
        <5>4. t1 \in ClientState
          BY <4>1, <5>1, <5>3, Zenon
        <5> QED
          BY <5>2, <5>3, <5>4 DEF Bounds
      <4>3. t2 \in ClientState /\ Bounds(t2)
        BY <2>0, <4>1 DEF ClientState, Bounds
      <4>4. Goto(c, t1) \/ Goto(c, t2)
        BY <2>15, <3>2 DEF WalkEvent
      <4>5. UNCHANGED storeVars
        BY <2>15 DEF WalkEvent
      <4> HIDE DEF t1, t2
      <4> QED
        BY <2>9, <4>2, <4>3, <4>4, <4>5
    <3> QED
      BY <2>15, <3>1, <3>2 DEF WalkEvent
  <2>16. CASE InsertEntry(c)
    <3> DEFINE t == [s EXCEPT !.serial = s.serial + 1, !.n = s.n - 1]
    <3>1. s.evs[s.n] \in EvId /\ s.h \in Histories /\ s.serial + 1 \in Nat
      BY SMTT(30), <2>0, <2>16 DEF InsertEntry, ClientState, Bounds
    <3>2. t \in ClientState /\ Bounds(t)
      <4>1. PICK k, m \in Nat : k = s.serial + 1 /\ m = s.n - 1 /\ m <= Len(s.evs)
        <5>1. /\ s.serial + 1 \in Nat /\ s.n - 1 \in Nat
              /\ s.n - 1 <= Len(s.evs)
          BY SMTT(30), <2>0, <2>16 DEF InsertEntry, ClientState, Bounds
        <5> QED BY <5>1
      <4>2. [s EXCEPT !.serial = k, !.n = m] \in ClientState
        BY <2>0 DEF ClientState
      <4>3. Bounds([s EXCEPT !.serial = k, !.n = m])
        BY <2>0, <2>16, <4>1 DEF InsertEntry, ClientState, Bounds
      <4> QED
        BY <4>1, <4>2, <4>3
    <3>3. journal' \in [Histories -> [EvId -> Nat]]
      <4>1. [journal EXCEPT ![s.h][s.evs[s.n]] = s.serial + 1]
              \in [Histories -> [EvId -> Nat]]
        BY <3>1 DEF TypeInv, TypeOK
      <4>2. \/ journal' = [journal EXCEPT ![s.h][s.evs[s.n]] = s.serial + 1]
            \/ journal' = journal
        BY <2>16 DEF InsertEntry
      <4> QED
        BY <4>1, <4>2 DEF TypeInv, TypeOK
    <3>4. Goto(c, t) \/ Finish(c, "SerialMismatch")
      BY <2>16 DEF InsertEntry
    <3>5. cl' \in [Clients -> ClientState] /\ \A d \in Clients : Bounds(cl'[d])
      <4> HIDE DEF t
      <4> QED
        BY <3>2, <3>4, GotoTyped, FinishTyped DEF TypeInv, TypeOK, Err, JournalErrors
    <3> QED
      BY <2>16, <3>3, <3>5 DEF InsertEntry, TypeInv, TypeOK, Bounds
  <2>17. CASE SetSerial(c)
    <3> DEFINE t == [s EXCEPT !.pc = "start"]
    <3>1. t \in ClientState /\ Bounds(t)
      BY <2>0 DEF ClientState, Bounds
    <3>2. refs' \in [Histories -> RefsDoc]
      BY <2>0, <2>17 DEF SetSerial, ClientState, TypeInv, TypeOK, RefsDoc
    <3>3. Goto(c, t)
      BY <2>17 DEF SetSerial
    <3>4. cl' \in [Clients -> ClientState] /\ \A d \in Clients : Bounds(cl'[d])
      <4> HIDE DEF t
      <4> QED BY <3>1, <3>3, GotoTyped DEF TypeInv, TypeOK
    <3> QED
      BY <2>17, <3>2, <3>4 DEF SetSerial, TypeInv, TypeOK, Bounds
  <2>18. CASE FindStart(c)
    <3> DEFINE after == IF s.vid = EventEpoch THEN s.snap.epoch ELSE s.vid
    <3>1. after \in Vid
      BY <2>0 DEF ClientState, RefsDoc
    <3>2. ASSUME NEW k \in Nat
          PROVE  /\ [s EXCEPT !.pc = "iter", !.n = k, !.cur = after] \in ClientState
                 /\ Bounds([s EXCEPT !.pc = "iter", !.n = k, !.cur = after])
      BY <2>0, <3>1 DEF ClientState, Bounds
    <3>3. after # EventEpoch => journal[s.h][after] \in Nat
      <4>1. after # EventEpoch => after \in EvId
        BY <3>1, VidIsEvent
      <4> HIDE DEF after
      <4> QED
        BY <2>0, <4>1 DEF ClientState, TypeInv, TypeOK
    <3>4. \/ \E k \in Nat : Goto(c, [s EXCEPT !.pc = "iter", !.n = k, !.cur = after])
          \/ Finish(c, "FindStartError")
      BY <2>18, <3>3 DEF FindStart
    <3>5. UNCHANGED storeVars
      BY <2>18 DEF FindStart
    <3> QED
      BY <2>8, <2>9, <3>2, <3>4, <3>5 DEF Err, JournalErrors
  <2>19. CASE IterNext(c)
    <3>1. PICK e \in EvId : \/ Finish(c, "ParentMismatch")
                            \/ Goto(c, [s EXCEPT !.n = journal[s.h][e], !.cur = e,
                                                 !.out = Append(s.out, e)])
      BY <2>19 DEF IterNext, Remaining
    <3> DEFINE t == [s EXCEPT !.n = journal[s.h][e], !.cur = e,
                              !.out = Append(s.out, e)]
    <3>2. t \in ClientState /\ Bounds(t)
      <4>1. e \in Vid
        BY DEF EvId, Vid
      <4>2. journal[s.h][e] \in Nat /\ Append(s.out, e) \in Seq(EvId)
        BY <2>0 DEF ClientState, TypeInv, TypeOK
      <4>3. ASSUME NEW k \in Nat, NEW q \in Seq(EvId)
            PROVE  LET u == [s EXCEPT !.n = k, !.cur = e, !.out = q]
                   IN  u \in ClientState /\ Bounds(u)
        BY <2>0, <2>19, <4>1 DEF IterNext, ClientState, Bounds
      <4> QED
        BY <4>2, <4>3
    <3>3. UNCHANGED storeVars
      BY <2>19 DEF IterNext
    <3> QED
      BY <2>8, <2>9, <3>1, <3>2, <3>3 DEF Err, JournalErrors
  <2>20. CASE IterEnd(c)
    BY <2>8, <2>20 DEF IterEnd, Err
  <2>21. CASE Return(c) \/ Stop(c)
    <3>1. Bounds(Idle)
      BY IdleTyped DEF Bounds
    <3> QED
      BY <2>9, <2>21, <3>1, IdleTyped DEF Return, Stop
  <2> QED
    BY <1>1, <2>1, <2>2, <2>3, <2>4, <2>10, <2>11, <2>12, <2>13, <2>14, <2>15,
       <2>16, <2>17, <2>18, <2>19, <2>20, <2>21
    DEF ClientNext, BeginCall, CallStep, CommitStep, FindStep
<1> QED
  BY <1>0, <1>1 DEF Next

LEMMA TypeInitial == Init => TypeInv
<1> SUFFICES ASSUME Init PROVE TypeInv
  OBVIOUS
<1>1. NoRefs \in RefsDoc
  BY JournalAssumption DEF NoRefs, RefsDoc, Vid, EventEpoch, Phase,
     HeadSerialUnspecified
<1>2. cl \in [Clients -> ClientState] /\ \A c \in Clients : Bounds(cl[c])
  BY IdleTyped DEF Init, Bounds
<1> QED
  BY <1>1, <1>2, JournalAssumption
  DEF Init, TypeInv, TypeOK, EvId, Vid, EventEpoch

\* Every variable keeps its type, and so no step of a commit or of a walk
\* indexes its list of events out of range.
THEOREM TypeCorrect == Spec => []TypeOK
<1>1. TypeInv => TypeOK
  BY DEF TypeInv
<1> QED
  BY <1>1, TypeInitial, TypeStep, PTL DEF Spec

-----------------------------------------------------------------------------
(***************************************************************************)
(* Chains of events.                                                       *)
(***************************************************************************)

\* The event before position i in a chain.
Before(L, i) == IF i = 1 THEN EventEpoch ELSE L[i - 1]

\* L is a chain of stored events, in the order of their ids.
IsChain(L, P, S, nid) ==
    /\ \A i \in 1..Len(L) :
          L[i] \in S /\ P[L[i]] = Before(L, i) /\ L[i] < nid
    /\ \A i, j \in 1..Len(L) : i < j => L[i] < L[j]

LEMMA ChainExtended ==
    ASSUME NEW L \in Seq(EvId), NEW E \in Seq(EvId), Len(E) > 0,
           NEW P, NEW S, NEW nid, IsChain(L, P, S, nid),
           P[E[1]] = Before(L, Len(L) + 1), Before(L, Len(L) + 1) < E[1],
           \A i \in 1..Len(E) :
              /\ E[i] \in S
              /\ E[i] < nid
              /\ E[i] = E[1] + i - 1
              /\ i > 1 => P[E[i]] = E[i - 1]
    PROVE  /\ IsChain(L \o E, P, S, nid)
           /\ Len(L \o E) = Len(L) + Len(E)
           /\ (L \o E)[Len(L \o E)] = E[Len(E)]
           /\ \A i \in 1..Len(L) : (L \o E)[i] = L[i]
<1>0. PICK M : M = L \o E
  OBVIOUS
<1>1a. PICK a \in Nat, b \in Nat : a = Len(L) /\ b = Len(E)
  OBVIOUS
<1>1b. /\ M \in Seq(EvId)
       /\ Len(M) = a + b
       /\ \A i \in 1..(a + b) : M[i] = IF i <= a THEN L[i] ELSE E[i - a]
  BY <1>0, <1>1a, ConcatProperties
<1>1c. /\ \A i \in 1..a : L[i] \in Nat
       /\ \A i \in 1..b : E[i] \in Nat
  <2>1. /\ \A i \in 1..a : L[i] \in EvId
        /\ \A i \in 1..b : E[i] \in EvId
    BY <1>1a, ElementOfSeq
  <2>2. EvId \subseteq Nat
    BY DEF EvId
  <2> QED BY <2>1, <2>2
<1>1d. \A i \in 1..a : M[i] = L[i]
  BY <1>1b
<1>1e. ASSUME NEW k \in 1..b PROVE a + k \in 1..(a + b) /\ M[a + k] = E[k]
  <2>1. a + k \in 1..(a + b) /\ ~(a + k <= a) /\ (a + k) - a = k
    OBVIOUS
  <2> QED BY <1>1b, <2>1
<1>1. /\ Len(M) = a + b
      /\ \A i \in 1..a : M[i] = L[i] /\ L[i] \in Nat
      /\ \A k \in 1..b : M[a + k] = E[k] /\ E[k] \in Nat
  BY <1>1b, <1>1c, <1>1d, <1>1e
<1>1f. /\ b > 0 /\ P[E[1]] = Before(L, a + 1) /\ Before(L, a + 1) < E[1]
       /\ \A i \in 1..a : L[i] \in S /\ P[L[i]] = Before(L, i) /\ L[i] < nid
       /\ \A i, j \in 1..a : i < j => L[i] < L[j]
       /\ \A i \in 1..b :
              /\ E[i] \in S
              /\ E[i] < nid
              /\ E[i] = E[1] + i - 1
              /\ i > 1 => P[E[i]] = E[i - 1]
  BY <1>1a DEF IsChain
<1>2. ASSUME NEW i \in 1..(a + b)
      PROVE  \/ i \in 1..a
             \/ \E k \in 1..b : i = a + k
  <2>1. i > a => i - a \in 1..b /\ i = a + (i - a)
    BY <1>1
  <2> QED BY <1>1, <2>1
<1>3. ASSUME NEW i \in 1..(a + b)
      PROVE  M[i] \in S /\ P[M[i]] = Before(M, i) /\ M[i] < nid
  <2>1. CASE i \in 1..a
    <3>1. M[i] = L[i]
      BY <1>1, <2>1
    <3>2. Before(M, i) = Before(L, i)
      <4>1. i = 1 \/ i - 1 \in 1..a
        BY <2>1
      <4> QED BY <1>1, <4>1 DEF Before
    <3> QED BY <1>1f, <2>1, <3>1, <3>2
  <2>2. ASSUME NEW k \in 1..b, i = a + k
        PROVE  M[i] \in S /\ P[M[i]] = Before(M, i) /\ M[i] < nid
    <3>1. M[i] = E[k]
      BY <1>1, <2>2
    <3>2. CASE k = 1
      <4>1. Before(M, i) = Before(L, a + 1)
        BY <1>1, <2>2, <3>2 DEF Before
      <4> QED BY <1>1f, <3>1, <3>2, <4>1
    <3>3. CASE k > 1
      <4>1. Before(M, i) = E[k - 1]
        <5>1. k - 1 \in 1..b /\ i - 1 = a + (k - 1) /\ i # 1
          BY <1>1, <2>2, <3>3
        <5> QED BY <1>1, <5>1 DEF Before
      <4> QED BY <1>1f, <3>1, <3>3, <4>1
    <3> QED BY <1>1, <3>2, <3>3
  <2> QED BY <1>2, <2>1, <2>2
<1>4. ASSUME NEW i \in 1..(a + b), NEW j \in 1..(a + b), i < j
      PROVE  M[i] < M[j]
  <2>1. CASE j \in 1..a
    BY <1>1, <1>1f, <1>4, <2>1
  <2>2. ASSUME NEW k \in 1..b, j = a + k PROVE M[i] < M[j]
    <3>1. M[j] = E[1] + k - 1 /\ E[1] \in Nat
      <4>1. 1 \in 1..b /\ M[j] = E[k]
        BY <1>1, <2>2
      <4> QED BY <1>1, <1>1f, <4>1
    <3>2. CASE i \in 1..a
      <4>1. M[i] <= L[a]
        <5>1. a \in 1..a /\ M[i] = L[i] /\ L[i] \in Nat
          BY <1>1, <3>2
        <5>2. i = a \/ i < a
          BY <3>2
        <5>3. L[a] \in Nat
          BY <1>1, <5>1
        <5>4. i < a => L[i] < L[a]
          BY <1>1f, <3>2, <5>1
        <5> QED BY <5>1, <5>2, <5>3, <5>4
      <4>2. L[a] < E[1] /\ L[a] \in Nat
        <5>1. a \in 1..a /\ a + 1 # 1 /\ (a + 1) - 1 = a
          BY <3>2
        <5> QED BY <1>1, <1>1f, <5>1 DEF Before
      <4>3. M[i] \in Nat
        BY <1>1, <3>2
      <4> QED BY <3>1, <4>1, <4>2, <4>3
    <3>3. ASSUME NEW m \in 1..b, i = a + m PROVE M[i] < M[j]
      <4>1. M[i] = E[1] + m - 1
        BY <1>1, <1>1f, <3>3
      <4> QED BY <1>1, <1>4, <2>2, <3>1, <3>3, <4>1
    <3> QED BY <1>2, <3>2, <3>3
  <2> QED BY <1>2, <2>1, <2>2
<1>5. IsChain(M, P, S, nid)
  BY <1>1, <1>3, <1>4 DEF IsChain
<1>6. M[a + b] = E[b]
  BY <1>1, <1>1f
<1> QED
  BY <1>0, <1>1a, <1>1, <1>5, <1>6

\* Storing more events and creating new ones leaves a chain a chain.
LEMMA ChainKept ==
    ASSUME NEW L \in Seq(EvId), NEW P, NEW S, NEW nid \in Nat,
           IsChain(L, P, S, nid),
           NEW Q, NEW T, S \subseteq T, NEW mid \in Nat, nid <= mid,
           \A e \in EvId : e < nid => Q[e] = P[e]
    PROVE  IsChain(L, Q, T, mid)
<1>1. \A i \in 1..Len(L) : L[i] \in EvId /\ L[i] \in Nat
  <2>1. \A i \in 1..Len(L) : L[i] \in EvId
    BY ElementOfSeq
  <2> QED BY <2>1 DEF EvId
<1>2. ASSUME NEW i \in 1..Len(L)
      PROVE  L[i] \in T /\ Q[L[i]] = Before(L, i) /\ L[i] < mid
  <2>1. L[i] \in S /\ P[L[i]] = Before(L, i) /\ L[i] < nid
    BY DEF IsChain
  <2> QED BY <1>1, <2>1
<1> QED
  BY <1>2 DEF IsChain

-----------------------------------------------------------------------------
(***************************************************************************)
(* Commits.  The events that a client holds form a chain of new events on  *)
(* the version that it expects, so that the compare and swap of the head   *)
(* extends the history by that chain.                                      *)
(***************************************************************************)

\* The refs document of a history agrees with its log; nothing is trimmed.
RefsInv(h) ==
    /\ refs[h].phase = "none" => log[h] = << >>
    /\ refs[h].phase # "none" =>
          log[h] # << >> /\ refs[h].head = log[h][Len(log[h])]
    /\ \A v \in heads[h] : \E i \in 1..Len(log[h]) : log[h][i] = v
    /\ refs[h].tail = EventEpoch
    /\ refs[h].epoch = EventEpoch

\* A batch of new events on version v, of which the first n are stored.
IsBatch(E, v, n) ==
    /\ Len(E) > 0
    /\ parent[E[1]] = v
    /\ v < E[1]
    /\ \A i \in 1..Len(E) :
          /\ E[i] < nextId
          /\ E[i] = E[1] + i - 1
          /\ i > 1 => parent[E[i]] = E[i - 1]
          /\ i <= n => E[i] \in stored

CommitInv(s) ==
    s.pc \in {"store", "updateHead"} =>
        /\ IsBatch(s.evs, s.vid, s.n)
        /\ s.pc = "updateHead" => s.n = Len(s.evs)

StoreInv ==
    /\ \A h \in Histories : IsChain(log[h], parent, stored, nextId)
    /\ \A h \in Histories : RefsInv(h)
    /\ \A c \in Clients : CommitInv(cl[c])

\* What a step must leave alone to preserve StoreInv.
StoreFrame ==
    /\ UNCHANGED <<nextId, parent, stored, log, heads>>
    /\ \A h \in Histories :
          /\ refs'[h].head = refs[h].head
          /\ refs'[h].tail = refs[h].tail
          /\ refs'[h].epoch = refs[h].epoch
          /\ (refs'[h].phase = "none") = (refs[h].phase = "none")
    /\ \A c \in Clients :
          cl'[c] = cl[c] \/ cl'[c].pc \notin {"store", "updateHead"}

LEMMA StoreFramed == StoreInv /\ StoreFrame => StoreInv'
<1> SUFFICES ASSUME StoreInv, StoreFrame PROVE StoreInv'
  OBVIOUS
<1>1. ASSUME NEW h \in Histories PROVE IsChain(log[h], parent, stored, nextId)'
  BY DEF StoreInv, StoreFrame, IsChain, Before
<1>2. ASSUME NEW h \in Histories PROVE RefsInv(h)'
  BY DEF StoreInv, StoreFrame, RefsInv
<1>3. ASSUME NEW c \in Clients PROVE CommitInv(cl[c])'
  <2>1. CASE cl'[c] = cl[c]
    BY <2>1 DEF StoreInv, StoreFrame, CommitInv, IsBatch
  <2>2. CASE cl'[c].pc \notin {"store", "updateHead"}
    BY <2>2 DEF CommitInv
  <2> QED
    BY <2>1, <2>2 DEF StoreFrame
<1> QED
  BY <1>1, <1>2, <1>3 DEF StoreInv

\* The local state of a client and the lists it holds are typed.
LEMMA ClientTyped ==
    ASSUME TypeInv, NEW c \in Clients
    PROVE  /\ cl[c] \in ClientState /\ Bounds(cl[c])
           /\ cl[c].h \in Histories
           /\ cl[c].evs \in Seq(EvId) /\ Len(cl[c].evs) \in Nat
           /\ cl[c].out \in Seq(EvId) /\ Len(cl[c].out) \in Nat
           /\ cl[c].n \in Nat /\ cl[c].serial \in Nat
           /\ cl[c].vid \in Vid /\ cl[c].cur \in Vid
           /\ cl[c].snap \in RefsDoc
           /\ log[cl[c].h] \in Seq(EvId) /\ Len(log[cl[c].h]) \in Nat
           /\ refs[cl[c].h] \in RefsDoc
BY DEF TypeInv, TypeOK, ClientState

\* The state of the other clients after one client moves.
LEMMA OthersKept ==
    ASSUME TypeInv, NEW c \in Clients, NEW t, Goto(c, t)
    PROVE  cl'[c] = t /\ \A d \in Clients : d # c => cl'[d] = cl[d]
BY DEF TypeInv, TypeOK, Goto

LEMMA FinishKept ==
    ASSUME TypeInv, NEW c \in Clients, NEW e, Finish(c, e)
    PROVE  /\ cl'[c] = [cl[c] EXCEPT !.pc = "done", !.err = e, !.evs = << >>,
                            !.n = 0, !.cur = EventEpoch, !.serial = 0]
           /\ cl'[c].pc = "done"
           /\ cl'[c].err = e
           /\ cl'[c].snap = cl[c].snap
           /\ cl'[c].vid = cl[c].vid
           /\ cl'[c].out = cl[c].out
           /\ cl'[c].h = cl[c].h
           /\ \A d \in Clients : d # c => cl'[d] = cl[d]
<1>1. /\ cl'[c] = [cl[c] EXCEPT !.pc = "done", !.err = e, !.evs = << >>,
                            !.n = 0, !.cur = EventEpoch, !.serial = 0]
      /\ \A d \in Clients : d # c => cl'[d] = cl[d]
  BY OthersKept DEF Finish
<1>2. cl[c] \in ClientState
  BY ClientTyped
<1> QED
  BY <1>1, <1>2 DEF ClientState

\* What a step of Find() keeps of the client that takes it.
KeepsCall(s, t) ==
    t.h = s.h /\ t.snap = s.snap /\ t.vid = s.vid /\ t.err = s.err

OthersSame(c) == \A d \in Clients : d # c => cl'[d] = cl[d]

(***************************************************************************)
(* The effect of each step of Find(), field by field.                      *)
(***************************************************************************)

LEMMA FindBeginEffect ==
    ASSUME TypeInv, NEW c \in Clients, NEW h \in Histories, NEW vid,
           FindBegin(c, h, vid)
    PROVE  LET t == cl'[c]
           IN  /\ UNCHANGED storeVars /\ OthersSame(c)
               /\ t.h = h /\ t.snap = refs[h] /\ t.vid = vid /\ t.err = NoErr
               /\ t.evs = << >> /\ t.out = << >> /\ t.n = 0
               /\ \/ t.pc = "done" /\ refs[h].phase # "active"
                  \/ /\ t.pc = "start" /\ refs[h].phase = "active"
                     /\ refs[h].serial # HeadSerialUnspecified
                     /\ t.serial = refs[h].serial
                  \/ /\ t.pc = "walkSerial" /\ refs[h].phase = "active"
                     /\ t.cur = refs[h].head
<1> DEFINE s == [NewCall(h) EXCEPT !.vid = vid, !.snap = refs[h]]
<1>1. CASE refs[h].phase # "active" /\ Goto(c, [s EXCEPT !.pc = "done"])
  <2>1. cl'[c] = [s EXCEPT !.pc = "done"] /\ OthersSame(c)
    BY <1>1, OthersKept, Zenon DEF OthersSame
  <2> QED
    BY <1>1, <2>1 DEF FindBegin, NewCall
<1>2. CASE /\ refs[h].phase = "active"
           /\ refs[h].serial # HeadSerialUnspecified
           /\ Goto(c, [s EXCEPT !.pc = "start", !.serial = refs[h].serial])
  <2>1. /\ cl'[c] = [s EXCEPT !.pc = "start", !.serial = refs[h].serial]
        /\ OthersSame(c)
    BY <1>2, OthersKept, Zenon DEF OthersSame
  <2> QED
    BY <1>2, <2>1 DEF FindBegin, NewCall
<1>3. CASE /\ refs[h].phase = "active"
           /\ Goto(c, [s EXCEPT !.pc = "walkSerial", !.cur = refs[h].head])
  <2>1. /\ cl'[c] = [s EXCEPT !.pc = "walkSerial", !.cur = refs[h].head]
        /\ OthersSame(c)
    BY <1>3, OthersKept, Zenon DEF OthersSame
  <2> QED
    BY <1>3, <2>1 DEF FindBegin, NewCall
<1> QED
  BY <1>1, <1>2, <1>3 DEF FindBegin

LEMMA WalkSerialEffect ==
    ASSUME TypeInv, NEW c \in Clients, WalkSerial(c)
    PROVE  LET s == cl[c]
               t == cl'[c]
           IN  /\ s.pc = "walkSerial" /\ UNCHANGED storeVars /\ OthersSame(c)
               /\ KeepsCall(s, t) /\ t.evs = s.evs /\ t.out = s.out
               /\ \/ /\ t.pc = "insert" /\ t.n = Len(s.evs)
                     /\ \/ s.cur = EventEpoch /\ t.serial = 0
                        \/ /\ s.cur # EventEpoch
                           /\ journal[s.h][s.cur] # 0
                           /\ t.serial = journal[s.h][s.cur]
                  \/ t.pc = "walkEvent" /\ t.cur = s.cur /\ s.cur # EventEpoch
<1> DEFINE s == cl[c]
           ins(k) == [s EXCEPT !.pc = "insert", !.serial = k, !.n = Len(s.evs)]
<1>0. s \in ClientState
  BY ClientTyped
<1>1. ASSUME NEW k, Goto(c, ins(k))
      PROVE  /\ OthersSame(c) /\ KeepsCall(s, cl'[c])
             /\ cl'[c].evs = s.evs /\ cl'[c].out = s.out
             /\ cl'[c].pc = "insert" /\ cl'[c].n = Len(s.evs) /\ cl'[c].serial = k
  <2>1. cl'[c] = ins(k) /\ OthersSame(c)
    BY <1>1, OthersKept, Zenon DEF OthersSame
  <2>2. PICK m : m = Len(s.evs)
    OBVIOUS
  <2> QED
    BY <1>0, <2>1, <2>2 DEF ClientState, KeepsCall
<1>2. ASSUME Goto(c, [s EXCEPT !.pc = "walkEvent"])
      PROVE  /\ OthersSame(c) /\ KeepsCall(s, cl'[c])
             /\ cl'[c].evs = s.evs /\ cl'[c].out = s.out
             /\ cl'[c].pc = "walkEvent" /\ cl'[c].cur = s.cur
  <2>1. cl'[c] = [s EXCEPT !.pc = "walkEvent"] /\ OthersSame(c)
    BY <1>2, OthersKept, Zenon DEF OthersSame
  <2> QED
    BY <1>0, <2>1 DEF ClientState, KeepsCall
<1> HIDE DEF ins
<1>3. /\ s.pc = "walkSerial" /\ UNCHANGED storeVars
      /\ \/ s.cur = EventEpoch /\ Goto(c, ins(0))
         \/ /\ s.cur # EventEpoch /\ journal[s.h][s.cur] # 0
            /\ Goto(c, ins(journal[s.h][s.cur]))
         \/ s.cur # EventEpoch /\ Goto(c, [s EXCEPT !.pc = "walkEvent"])
  BY Zenon DEF WalkSerial, ins
<1> QED
  BY <1>1, <1>2, <1>3, Zenon

LEMMA WalkEventEffect ==
    ASSUME TypeInv, NEW c \in Clients, WalkEvent(c)
    PROVE  LET s == cl[c]
               t == cl'[c]
           IN  /\ s.pc = "walkEvent" /\ UNCHANGED storeVars /\ OthersSame(c)
               /\ \/ s.cur \notin stored /\ t.pc = "done"
                  \/ /\ s.cur \in stored /\ KeepsCall(s, t) /\ t.out = s.out
                     /\ t.evs = Append(s.evs, s.cur)
                     /\ \/ /\ s.snap.tail # EventEpoch /\ t.pc = "insert"
                        \/ /\ t.pc = "walkSerial" /\ t.cur = parent[s.cur]
<1> DEFINE s == cl[c]
           evs == Append(s.evs, s.cur)
           t1 == [s EXCEPT !.pc = "insert", !.evs = evs, !.serial = 0,
                           !.n = Len(evs)]
           t2 == [s EXCEPT !.pc = "walkSerial", !.evs = evs,
                           !.cur = parent[s.cur]]
<1>0. s \in ClientState
  BY ClientTyped
<1>1. CASE Finish(c, "FindEventError") /\ s.cur \notin stored
  BY <1>1, FinishKept DEF WalkEvent, OthersSame
<1>2. CASE s.cur \in stored /\ s.snap.tail # EventEpoch /\ Goto(c, t1)
  <2>1. cl'[c] = t1 /\ OthersSame(c)
    BY <1>2, OthersKept, Zenon DEF OthersSame
  <2>2. PICK e, m : e = evs /\ m = Len(evs)
    OBVIOUS
  <2>3. cl'[c] = [s EXCEPT !.pc = "insert", !.evs = e, !.serial = 0, !.n = m]
    BY <2>1, <2>2, Zenon
  <2>4. /\ KeepsCall(s, cl'[c]) /\ cl'[c].out = s.out /\ cl'[c].evs = e
        /\ cl'[c].pc = "insert"
    <3> HIDE DEF evs, t1, t2
    <3> QED BY <1>0, <2>3 DEF ClientState, KeepsCall
  <2> QED
    BY <1>2, <2>1, <2>2, <2>4, Zenon DEF WalkEvent
<1>3. CASE s.cur \in stored /\ Goto(c, t2)
  <2>1. cl'[c] = t2 /\ OthersSame(c)
    BY <1>3, OthersKept, Zenon DEF OthersSame
  <2>2. PICK e : e = evs
    OBVIOUS
  <2>3. cl'[c] = [s EXCEPT !.pc = "walkSerial", !.evs = e, !.cur = parent[s.cur]]
    BY <2>1, <2>2, Zenon
  <2>4. /\ KeepsCall(s, cl'[c]) /\ cl'[c].out = s.out /\ cl'[c].evs = e
        /\ cl'[c].pc = "walkSerial" /\ cl'[c].cur = parent[s.cur]
    <3> HIDE DEF evs, t1, t2
    <3> QED BY <1>0, <2>3 DEF ClientState, KeepsCall
  <2> QED
    BY <1>3, <2>1, <2>2, <2>4, Zenon DEF WalkEvent
<1> QED
  BY <1>1, <1>2, <1>3, Zenon DEF WalkEvent

LEMMA InsertEntryEffect ==
    ASSUME TypeInv, NEW c \in Clients, InsertEntry(c)
    PROVE  LET s == cl[c]
               t == cl'[c]
               e == s.evs[s.n]
           IN  /\ s.pc = "insert" /\ s.n > 0 /\ OthersSame(c)
               /\ UNCHANGED <<nextId, parent, stored, refs, log, heads>>
               /\ \/ /\ journal[s.h][e] \notin {0, s.serial + 1}
                     /\ journal' = journal /\ t.pc = "done"
                  \/ /\ KeepsCall(s, t) /\ t.out = s.out /\ t.evs = s.evs
                     /\ t.pc = "insert" /\ t.n = s.n - 1
                     /\ t.serial = s.serial + 1
                     /\ \/ /\ journal[s.h][e] = 0
                           /\ journal' = [journal EXCEPT ![s.h][e] = s.serial + 1]
                        \/ /\ journal[s.h][e] = s.serial + 1
                           /\ journal' = journal
<1> DEFINE s == cl[c]
           t == [s EXCEPT !.serial = s.serial + 1, !.n = s.n - 1]
<1>0. s \in ClientState
  BY ClientTyped
<1>1. ASSUME Finish(c, "SerialMismatch")
      PROVE  cl'[c].pc = "done" /\ OthersSame(c)
  BY <1>1, FinishKept DEF OthersSame
<1>2. ASSUME Goto(c, t), s.pc = "insert"
      PROVE  /\ KeepsCall(s, cl'[c]) /\ cl'[c].out = s.out
             /\ cl'[c].evs = s.evs /\ cl'[c].pc = "insert"
             /\ cl'[c].n = s.n - 1 /\ cl'[c].serial = s.serial + 1
             /\ OthersSame(c)
  <2>1. cl'[c] = t /\ OthersSame(c)
    BY <1>2, OthersKept, Zenon DEF OthersSame
  <2>2. PICK k, m : k = s.serial + 1 /\ m = s.n - 1
    OBVIOUS
  <2>3. cl'[c] = [s EXCEPT !.serial = k, !.n = m]
    BY <2>1, <2>2, Zenon
  <2> HIDE DEF t
  <2>4. /\ KeepsCall(s, cl'[c]) /\ cl'[c].out = s.out /\ cl'[c].evs = s.evs
        /\ cl'[c].pc = s.pc /\ cl'[c].n = m /\ cl'[c].serial = k
    BY <1>0, <2>3 DEF ClientState, KeepsCall
  <2> QED
    BY <1>2, <2>1, <2>2, <2>4
<1> HIDE DEF t
<1>3. /\ s.pc = "insert" /\ s.n > 0
      /\ UNCHANGED <<nextId, parent, stored, refs, log, heads>>
      /\ \/ /\ journal[s.h][s.evs[s.n]] = 0
            /\ journal' = [journal EXCEPT ![s.h][s.evs[s.n]] = s.serial + 1]
            /\ Goto(c, t)
         \/ /\ journal[s.h][s.evs[s.n]] # 0
            /\ journal' = journal
            /\ \/ journal[s.h][s.evs[s.n]] = s.serial + 1 /\ Goto(c, t)
               \/ /\ journal[s.h][s.evs[s.n]] # s.serial + 1
                  /\ Finish(c, "SerialMismatch")
  BY Zenon DEF InsertEntry, t
<1> QED
  BY <1>1, <1>2, <1>3, Zenon

LEMMA SetSerialEffect ==
    ASSUME TypeInv, NEW c \in Clients, SetSerial(c)
    PROVE  LET s == cl[c]
               t == cl'[c]
           IN  /\ s.pc = "insert" /\ s.n = 0 /\ OthersSame(c)
               /\ UNCHANGED <<nextId, parent, stored, journal, log, heads>>
               /\ KeepsCall(s, t) /\ t.out = s.out /\ t.evs = s.evs
               /\ t.pc = "start" /\ t.serial = s.serial /\ t.n = s.n
               /\ \A g \in Histories : g # s.h => refs'[g] = refs[g]
               /\ refs'[s.h].head = refs[s.h].head
               /\ refs'[s.h].tail = refs[s.h].tail
               /\ refs'[s.h].epoch = refs[s.h].epoch
               /\ refs'[s.h].phase = refs[s.h].phase
               /\ \/ refs'[s.h].serial = refs[s.h].serial
                  \/ /\ IsActive(s.h) /\ refs[s.h].head = s.snap.head
                     /\ refs'[s.h].serial = s.serial
<1> DEFINE s == cl[c]
<1>0. s \in ClientState /\ s.h \in Histories /\ refs[s.h] \in RefsDoc
  BY ClientTyped
<1>1. cl'[c] = [s EXCEPT !.pc = "start"] /\ OthersSame(c)
  BY OthersKept, Zenon DEF SetSerial, OthersSame
<1>2. /\ KeepsCall(s, cl'[c]) /\ cl'[c].out = s.out /\ cl'[c].evs = s.evs
      /\ cl'[c].pc = "start" /\ cl'[c].serial = s.serial /\ cl'[c].n = s.n
  BY <1>0, <1>1 DEF ClientState, KeepsCall
<1>3. CASE /\ refs' = [refs EXCEPT ![s.h].serial = s.serial]
           /\ IsActive(s.h) /\ refs[s.h].head = s.snap.head
  <2>1. refs'[s.h] = [refs[s.h] EXCEPT !.serial = s.serial]
    BY <1>0, <1>3 DEF TypeInv, TypeOK
  <2>2. \A g \in Histories : g # s.h => refs'[g] = refs[g]
    BY <1>3 DEF TypeInv, TypeOK
  <2>3. /\ refs'[s.h].head = refs[s.h].head
        /\ refs'[s.h].tail = refs[s.h].tail
        /\ refs'[s.h].epoch = refs[s.h].epoch
        /\ refs'[s.h].phase = refs[s.h].phase
        /\ refs'[s.h].serial = s.serial
    BY <1>0, <2>1 DEF RefsDoc
  <2> QED
    BY <1>1, <1>2, <1>3, <2>2, <2>3, Zenon DEF SetSerial
<1>4. CASE refs' = refs
  BY <1>1, <1>2, <1>4, Zenon DEF SetSerial
<1> QED
  BY <1>3, <1>4, Zenon DEF SetSerial

LEMMA FindStartEffect ==
    ASSUME TypeInv, NEW c \in Clients, FindStart(c)
    PROVE  LET s == cl[c]
               t == cl'[c]
               after == IF s.vid = EventEpoch THEN s.snap.epoch ELSE s.vid
           IN  /\ s.pc = "start" /\ UNCHANGED storeVars /\ OthersSame(c)
               /\ \/ /\ after # EventEpoch /\ journal[s.h][after] = 0
                     /\ t.pc = "done"
                  \/ /\ KeepsCall(s, t) /\ t.out = s.out
                     /\ t.serial = s.serial
                     /\ t.pc = "iter" /\ t.cur = after
                     /\ \/ after = EventEpoch /\ t.n = 0
                        \/ /\ after # EventEpoch /\ journal[s.h][after] # 0
                           /\ t.n = journal[s.h][after]
<1> DEFINE s == cl[c]
<1>0. s \in ClientState
  BY ClientTyped
<1>a. PICK after : after = IF s.vid = EventEpoch THEN s.snap.epoch ELSE s.vid
  OBVIOUS
<1>1. ASSUME Finish(c, "FindStartError")
      PROVE  cl'[c].pc = "done" /\ OthersSame(c)
  BY <1>1, FinishKept DEF OthersSame
<1>2. ASSUME NEW k, Goto(c, [s EXCEPT !.pc = "iter", !.n = k, !.cur = after])
      PROVE  /\ KeepsCall(s, cl'[c]) /\ cl'[c].out = s.out
             /\ cl'[c].serial = s.serial /\ cl'[c].pc = "iter"
             /\ cl'[c].cur = after /\ cl'[c].n = k /\ OthersSame(c)
  <2>1. /\ cl'[c] = [s EXCEPT !.pc = "iter", !.n = k, !.cur = after]
        /\ OthersSame(c)
    BY <1>2, OthersKept, Zenon DEF OthersSame
  <2> QED
    BY <1>0, <2>1 DEF ClientState, KeepsCall
<1>3. /\ s.pc = "start" /\ UNCHANGED storeVars
      /\ \/ /\ after = EventEpoch
            /\ Goto(c, [s EXCEPT !.pc = "iter", !.n = 0, !.cur = after])
         \/ /\ after # EventEpoch /\ journal[s.h][after] # 0
            /\ Goto(c, [s EXCEPT !.pc = "iter", !.n = journal[s.h][after],
                                 !.cur = after])
         \/ /\ after # EventEpoch /\ journal[s.h][after] = 0
            /\ Finish(c, "FindStartError")
  BY <1>a DEF FindStart
<1> QED
  BY <1>a, <1>1, <1>2, <1>3, Zenon

LEMMA IterNextEffect ==
    ASSUME TypeInv, NEW c \in Clients, IterNext(c)
    PROVE  LET s == cl[c]
               t == cl'[c]
           IN  /\ s.pc = "iter" /\ UNCHANGED storeVars /\ OthersSame(c)
               /\ \E e \in Remaining(s) :
                     /\ \A f \in Remaining(s) : journal[s.h][e] <= journal[s.h][f]
                     /\ \/ parent[e] # s.cur /\ t.pc = "done"
                        \/ /\ parent[e] = s.cur
                           /\ KeepsCall(s, t) /\ t.pc = "iter"
                           /\ t.serial = s.serial /\ t.n = journal[s.h][e]
                           /\ t.cur = e /\ t.out = Append(s.out, e)
<1> DEFINE s == cl[c]
<1>0. s \in ClientState
  BY ClientTyped
<1>1. PICK e \in Remaining(s) :
        /\ \A f \in Remaining(s) : journal[s.h][e] <= journal[s.h][f]
        /\ \/ parent[e] # s.cur /\ Finish(c, "ParentMismatch")
           \/ /\ parent[e] = s.cur
              /\ Goto(c, [s EXCEPT !.n = journal[s.h][e], !.cur = e,
                                   !.out = Append(s.out, e)])
  BY Zenon DEF IterNext
<1>2. s.pc = "iter" /\ UNCHANGED storeVars
  BY DEF IterNext
<1>3. ASSUME Finish(c, "ParentMismatch")
      PROVE  cl'[c].pc = "done" /\ OthersSame(c)
  BY <1>3, FinishKept DEF OthersSame
<1>4. ASSUME NEW k, NEW q, Goto(c, [s EXCEPT !.n = k, !.cur = e, !.out = q])
      PROVE  /\ KeepsCall(s, cl'[c]) /\ cl'[c].pc = s.pc
             /\ cl'[c].serial = s.serial /\ cl'[c].n = k
             /\ cl'[c].cur = e /\ cl'[c].out = q /\ OthersSame(c)
  <2>1. cl'[c] = [s EXCEPT !.n = k, !.cur = e, !.out = q] /\ OthersSame(c)
    BY <1>4, OthersKept, Zenon DEF OthersSame
  <2> QED
    BY <1>0, <2>1 DEF ClientState, KeepsCall
<1> QED
  BY <1>1, <1>2, <1>3, <1>4, ZenonT(40)

\* A batch of old events stays one when more events are made and stored.
LEMMA BatchKept ==
    ASSUME NEW E \in Seq(EvId), NEW v, NEW n, IsBatch(E, v, n),
           nextId \in Nat, nextId' \in Nat, nextId <= nextId',
           stored \subseteq stored',
           \A e \in EvId : e < nextId => parent'[e] = parent[e]
    PROVE  IsBatch(E, v, n)'
<1>1. /\ \A i \in 1..Len(E) : E[i] \in EvId /\ E[i] \in Nat
      /\ Len(E) \in Nat
  <2>1. Len(E) \in Nat /\ \A i \in 1..Len(E) : E[i] \in EvId
    BY ElementOfSeq
  <2> QED
    BY <2>1 DEF EvId
<1>2. \A i \in 1..Len(E) : E[i] < nextId /\ parent'[E[i]] = parent[E[i]]
  BY <1>1 DEF IsBatch
<1>3. \A i \in 1..Len(E) : E[i] < nextId'
  BY <1>1, <1>2
<1>4. 1 \in 1..Len(E)
  BY <1>1 DEF IsBatch
<1> QED
  BY <1>1, <1>2, <1>3, <1>4 DEF IsBatch

\* A new commit makes a batch on the version that the caller knows.
LEMMA NewBatch ==
    ASSUME TypeInv, NEW c \in Clients, NEW h \in Histories, NEW vid,
           NEW n \in 1..MaxBatch, vid < nextId, CommitBegin(c, h, vid, n)
    PROVE  /\ cl'[c].pc = "store" /\ cl'[c].vid = vid /\ cl'[c].n = 0
           /\ IsBatch(cl[c].evs, cl[c].vid, cl[c].n)'
<1> DEFINE E == [i \in 1..n |-> nextId + i - 1]
<1>0. /\ nextId \in Nat /\ nextId' \in Nat /\ n \in Nat /\ n >= 1
      /\ nextId' = nextId + n
      /\ nextId >= 1 /\ nextId + n <= MaxEvents + 1
      /\ UNCHANGED <<stored, refs, journal, log, heads>>
  BY JournalAssumption DEF CommitBegin, TypeInv, TypeOK
<1>2. cl'[c] = [NewCall(h) EXCEPT !.pc = "store", !.vid = vid, !.evs = E]
  BY OthersKept DEF CommitBegin
<1>3. /\ cl'[c].evs = E /\ cl'[c].pc = "store" /\ cl'[c].vid = vid
      /\ cl'[c].n = 0
  <2> HIDE DEF E
  <2> QED BY <1>2 DEF NewCall
<1>4. Len(E) = n /\ \A i \in 1..n : E[i] = nextId + i - 1
  BY <1>0
<1>5. parent'[nextId] = vid
  <2>1. nextId \in EvId /\ nextId \in nextId..(nextId + n - 1)
    BY <1>0, JournalAssumption DEF EvId
  <2> QED
    BY <2>1 DEF CommitBegin
<1>6. ASSUME NEW i \in 1..n, i > 1
      PROVE  parent'[nextId + i - 1] = nextId + (i - 1) - 1
  <2>1. PICK e \in EvId : e = nextId + i - 1
    BY <1>0, JournalAssumption DEF EvId
  <2>2. e \in nextId..(nextId + n - 1) /\ e # nextId
    BY <1>0, <1>6, <2>1
  <2>3. parent'[e] = e - 1
    BY <2>2 DEF CommitBegin
  <2>4. e - 1 = nextId + (i - 1) - 1
    BY <1>0, <2>1
  <2> QED
    BY <2>1, <2>3, <2>4
<1>7. ASSUME NEW F, F = E PROVE IsBatch(F, vid, 0)'
  <2>1. Len(F) = n /\ \A i \in 1..n : F[i] = nextId + i - 1
    BY <1>4, <1>7
  <2>2. F[1] = nextId
    BY <1>0, <2>1
  <2>3. ASSUME NEW i \in 1..n
        PROVE  /\ F[i] < nextId'
               /\ F[i] = F[1] + i - 1
               /\ i > 1 => parent'[F[i]] = F[i - 1]
               /\ i <= 0 => F[i] \in stored'
    <3>1. i > 1 => F[i - 1] = nextId + (i - 1) - 1
      BY <1>0, <2>1
    <3>2. F[i] = nextId + i - 1
      BY <2>1
    <3> QED
      BY <1>0, <1>6, <2>2, <3>1, <3>2
  <2> QED
    BY <1>0, <1>5, <2>1, <2>2, <2>3 DEF IsBatch
<1> QED
  BY ZenonT(40), <1>3, <1>7 DEF IsBatch

LEMMA StoreCommitBegin ==
    ASSUME TypeInv, TypeInv', StoreInv, NEW c \in Clients, NEW h \in Histories,
           NEW vid \in KnownVids(h), NEW n \in 1..MaxBatch,
           CommitBegin(c, h, vid, n)
    PROVE  StoreInv'
<1>1. /\ nextId \in Nat /\ nextId' \in Nat /\ n \in Nat /\ n >= 1
      /\ nextId' = nextId + n
      /\ nextId >= 1 /\ nextId + n <= MaxEvents + 1
      /\ UNCHANGED <<stored, refs, journal, log, heads>>
  BY JournalAssumption DEF CommitBegin, TypeInv, TypeOK
<1>2. \A e \in EvId : e < nextId => parent'[e] = parent[e]
  BY <1>1 DEF CommitBegin, EvId
<1>3. ASSUME NEW g \in Histories PROVE IsChain(log[g], parent, stored, nextId)'
  <2>1. log[g] \in Seq(EvId) /\ IsChain(log[g], parent, stored, nextId)
    BY DEF TypeInv, TypeOK, StoreInv
  <2> QED
    BY <1>1, <1>2, <2>1, ChainKept
<1>4. ASSUME NEW g \in Histories PROVE RefsInv(g)'
  BY <1>1 DEF StoreInv, RefsInv
<1>5. ASSUME NEW d \in Clients, d # c PROVE CommitInv(cl[d])'
  <2>1. cl'[d] = cl[d]
    BY <1>5, OthersKept DEF CommitBegin
  <2>2. ASSUME cl[d].pc \in {"store", "updateHead"}
        PROVE  IsBatch(cl[d].evs, cl[d].vid, cl[d].n)'
    <3>1. PICK E : E = cl[d].evs /\ E \in Seq(EvId)
      BY ClientTyped
    <3>2. PICK v, n1 : v = cl[d].vid /\ n1 = cl[d].n
      OBVIOUS
    <3>3. IsBatch(E, v, n1)
      BY <2>2, <3>1, <3>2 DEF StoreInv, CommitInv
    <3>4. nextId <= nextId' /\ stored \subseteq stored'
      BY <1>1
    <3>5. IsBatch(E, v, n1)'
      BY <1>1, <1>2, <3>1, <3>3, <3>4, BatchKept
    <3> QED
      BY <2>1, <3>1, <3>2, <3>5 DEF IsBatch
  <2> QED
    BY <2>1, <2>2 DEF CommitInv, StoreInv
<1>6. CommitInv(cl[c])'
  <2>1. vid < nextId
    <3>1. CASE vid = EventEpoch
      BY <1>1, <3>1 DEF EventEpoch
    <3>2. CASE vid \in heads[h]
      <4>1. PICK i \in 1..Len(log[h]) : log[h][i] = vid
        BY <3>2 DEF StoreInv, RefsInv
      <4> QED
        BY <4>1 DEF StoreInv, IsChain
    <3> QED
      BY <3>1, <3>2 DEF KnownVids
  <2> QED
    BY <2>1, NewBatch DEF CommitInv
<1> QED
  BY <1>3, <1>4, <1>5, <1>6 DEF StoreInv

LEMMA StoreStoreEvent ==
    ASSUME TypeInv, TypeInv', StoreInv, NEW c \in Clients, StoreEvent(c)
    PROVE  StoreInv'
<1> DEFINE s == cl[c]
<1>0. /\ s \in ClientState /\ s.evs \in Seq(EvId) /\ Len(s.evs) \in Nat
      /\ s.n \in Nat /\ s.pc = "store" /\ s.n < Len(s.evs)
  BY ClientTyped DEF StoreEvent, Bounds
<1>1. /\ UNCHANGED <<nextId, parent, refs, journal, log, heads>>
      /\ stored' = stored \cup {s.evs[s.n + 1]}
      /\ \A d \in Clients : d # c => cl'[d] = cl[d]
  BY OthersKept DEF StoreEvent
<1>2. ASSUME NEW g \in Histories
      PROVE  IsChain(log[g], parent, stored, nextId)' /\ RefsInv(g)'
  BY <1>1 DEF StoreInv, RefsInv, IsChain, Before
<1>3. ASSUME NEW d \in Clients, d # c PROVE CommitInv(cl[d])'
  <2>1. cl'[d] = cl[d] /\ stored \subseteq stored'
    BY <1>1, <1>3
  <2>3. IsBatch(cl[d].evs, cl[d].vid, cl[d].n)
          => IsBatch(cl[d].evs, cl[d].vid, cl[d].n)'
    BY <1>1, <2>1 DEF IsBatch
  <2> QED
    BY <2>1, <2>3 DEF StoreInv, CommitInv
<1>4. CommitInv(cl[c])'
  <2>1. /\ cl'[c].evs = s.evs /\ cl'[c].n = s.n + 1 /\ cl'[c].vid = s.vid
        /\ cl'[c].pc = "updateHead" => s.n + 1 = Len(s.evs)
    <3>1. PICK pc, k : /\ pc = IF s.n + 1 = Len(s.evs) THEN "updateHead"
                               ELSE "store"
                       /\ k = s.n + 1
      OBVIOUS
    <3>2. cl'[c] = [s EXCEPT !.n = k, !.pc = pc]
      BY <3>1, OthersKept, Zenon DEF StoreEvent
    <3>3. /\ cl'[c].evs = s.evs /\ cl'[c].n = k /\ cl'[c].vid = s.vid
          /\ cl'[c].pc = pc
      BY <1>0, <3>2 DEF ClientState
    <3> QED
      BY <3>1, <3>3
  <2>2. IsBatch(s.evs, s.vid, s.n)
    BY <1>0 DEF StoreInv, CommitInv
  <2>3. \A i \in 1..Len(s.evs) : i <= s.n + 1 => i <= s.n \/ i = s.n + 1
    BY <1>0
  <2>4. ASSUME NEW E, E = s.evs, NEW v, v = s.vid, NEW k, k = s.n + 1
        PROVE  IsBatch(E, v, k)'
    BY <1>1, <2>2, <2>3, <2>4 DEF IsBatch
  <2>5. IsBatch(cl[c].evs, cl[c].vid, cl[c].n)'
    BY <2>1, <2>4 DEF IsBatch
  <2> QED
    BY <2>1, <2>5 DEF CommitInv
<1> QED
  BY <1>2, <1>3, <1>4 DEF StoreInv

LEMMA StoreMoveHead ==
    ASSUME TypeInv, TypeInv', StoreInv, NEW c \in Clients,
           NEW h \in Histories, h = cl[c].h, cl[c].pc = "updateHead",
           NEW doc \in RefsDoc, MoveHead(c, h, doc),
           doc.head = cl[c].evs[Len(cl[c].evs)], doc.phase = "active",
           doc.tail = EventEpoch, doc.epoch = EventEpoch,
           Before(log[h], Len(log[h]) + 1) = cl[c].vid
    PROVE  StoreInv'
<1>1. PICK L, E : /\ L = log[h] /\ L \in Seq(EvId)
                  /\ E = cl[c].evs /\ E \in Seq(EvId)
  BY ClientTyped
<1>2. /\ IsBatch(E, cl[c].vid, Len(E)) /\ Len(E) \in Nat /\ Len(L) \in Nat
      /\ IsChain(L, parent, stored, nextId)
  BY <1>1 DEF StoreInv, CommitInv
<1>3. /\ UNCHANGED <<nextId, parent, stored>>
      /\ log' = [log EXCEPT ![h] = L \o E]
      /\ refs' = [refs EXCEPT ![h] = doc]
      /\ heads' = [heads EXCEPT ![h] = heads[h] \cup {doc.head}]
  BY <1>1 DEF MoveHead
<1>4. cl'[c].pc = "done" /\ \A d \in Clients : d # c => cl'[d] = cl[d]
  BY FinishKept DEF MoveHead
<1>5. /\ IsChain(L \o E, parent, stored, nextId)
      /\ Len(L \o E) = Len(L) + Len(E)
      /\ (L \o E)[Len(L \o E)] = E[Len(E)]
      /\ \A i \in 1..Len(L) : (L \o E)[i] = L[i]
  <2>1. /\ Len(E) > 0 /\ parent[E[1]] = Before(L, Len(L) + 1)
        /\ Before(L, Len(L) + 1) < E[1]
        /\ \A i \in 1..Len(E) : /\ E[i] \in stored
                                /\ E[i] < nextId
                                /\ E[i] = E[1] + i - 1
                                /\ i > 1 => parent[E[i]] = E[i - 1]
    BY <1>1, <1>2 DEF IsBatch
  <2> QED
    BY <1>1, <1>2, <2>1, ChainExtended
<1>6. PICK M : M = L \o E
  OBVIOUS
<1>7. /\ log'[h] = M /\ refs'[h] = doc /\ heads'[h] = heads[h] \cup {doc.head}
      /\ \A g \in Histories : g # h => /\ log'[g] = log[g]
                                       /\ refs'[g] = refs[g]
                                       /\ heads'[g] = heads[g]
  BY <1>3, <1>6 DEF TypeInv, TypeOK
<1>8. ASSUME NEW g \in Histories PROVE IsChain(log[g], parent, stored, nextId)'
  <2>1. CASE g = h
    <3>1. IsChain(M, parent, stored, nextId)'
      BY <1>3, <1>5, <1>6 DEF IsChain
    <3> QED
      BY <1>7, <2>1, <3>1
  <2>2. CASE g # h
    BY <1>3, <1>7, <2>2 DEF StoreInv, IsChain
  <2> QED
    BY <2>1, <2>2
<1>9. ASSUME NEW g \in Histories PROVE RefsInv(g)'
  <2>1. CASE g = h
    <3>1. /\ Len(M) = Len(L) + Len(E) /\ Len(E) > 0
          /\ M[Len(M)] = E[Len(E)]
          /\ \A i \in 1..Len(L) : M[i] = L[i]
      BY <1>2, <1>5, <1>6 DEF IsBatch
    <3>2. M # << >> /\ doc.head = M[Len(M)] /\ Len(M) \in 1..Len(M)
      <4>1. Len(M) \in 1..Len(M)
        BY <1>2, <3>1
      <4>2. M # << >>
        BY <4>1
      <4> QED
        BY <1>1, <3>1, <4>1, <4>2
    <3>3. \A v \in heads[h] : \E i \in 1..Len(M) : M[i] = v
      <4>1. \A i \in 1..Len(L) : i \in 1..Len(M)
        BY <1>2, <3>1
      <4>2. \A v \in heads[h] : \E i \in 1..Len(L) : L[i] = v
        BY <1>1 DEF StoreInv, RefsInv
      <4> QED
        BY <3>1, <4>1, <4>2
    <3> QED
      BY <1>7, <2>1, <3>2, <3>3 DEF RefsInv
  <2>2. CASE g # h
    BY <1>7, <2>2 DEF StoreInv, RefsInv
  <2> QED
    BY <2>1, <2>2
<1>10. ASSUME NEW d \in Clients PROVE CommitInv(cl[d])'
  <2>1. CASE d = c
    BY <1>4, <2>1 DEF CommitInv
  <2>2. CASE d # c
    BY SMTT(30), <1>3, <1>4, <2>2 DEF StoreInv, CommitInv, IsBatch
  <2> QED
    BY <2>1, <2>2
<1> QED
  BY <1>8, <1>9, <1>10 DEF StoreInv

LEMMA StoreStep == TypeInv /\ TypeInv' /\ StoreInv /\ [Next]_vars => StoreInv'
<1> SUFFICES ASSUME TypeInv, TypeInv', StoreInv, [Next]_vars PROVE StoreInv'
  OBVIOUS
<1>0. CASE UNCHANGED vars
  BY <1>0, StoreFramed DEF vars, StoreFrame
<1>1. ASSUME NEW c \in Clients, ClientNext(c) PROVE StoreInv'
  <2> DEFINE s == cl[c]
  <2>0. s \in ClientState /\ s.h \in Histories /\ refs[s.h] \in RefsDoc
    BY ClientTyped
  <2>1. ASSUME NEW h \in Histories, NEW vid \in KnownVids(h),
               DeleteRefs(c, h, vid)
        PROVE  StoreInv'
    <3>1. \A g \in Histories :
            /\ refs'[g].head = refs[g].head
            /\ refs'[g].tail = refs[g].tail
            /\ refs'[g].epoch = refs[g].epoch
            /\ (refs'[g].phase = "none") = (refs[g].phase = "none")
      <4>1. CASE refs' = refs
        BY <4>1
      <4>2. CASE IsActive(h) /\ refs' = [refs EXCEPT ![h].phase = "deleting"]
        <5>1. refs[h] \in RefsDoc /\ refs[h].phase = "active"
          BY <4>2 DEF TypeInv, TypeOK, IsActive
        <5>2. refs'[h] = [refs[h] EXCEPT !.phase = "deleting"]
          BY <4>2 DEF TypeInv, TypeOK
        <5>3. \A g \in Histories : g # h => refs'[g] = refs[g]
          BY <4>2 DEF TypeInv, TypeOK
        <5> QED
          BY <5>1, <5>2, <5>3 DEF RefsDoc
      <4> QED
        BY <2>1, <4>1, <4>2 DEF DeleteRefs
    <3>2. \A d \in Clients :
             cl'[d] = cl[d] \/ cl'[d].pc \notin {"store", "updateHead"}
      <4>1. CASE Goto(c, [NewCall(h) EXCEPT !.pc = "deleteConflict", !.vid = vid])
        <5>1. [NewCall(h) EXCEPT !.pc = "deleteConflict", !.vid = vid].pc
                = "deleteConflict"
          BY DEF NewCall
        <5> QED BY <4>1, <5>1, OthersKept
      <4> QED
        BY <2>1, <4>1 DEF DeleteRefs
    <3> QED
      BY <2>1, <3>1, <3>2, StoreFramed DEF DeleteRefs, StoreFrame
  <2>2. ASSUME UNCHANGED storeVars,
               \A d \in Clients : d # c => cl'[d] = cl[d],
               cl'[c].pc \notin {"store", "updateHead"}
        PROVE  StoreInv'
    BY <2>2, StoreFramed DEF storeVars, StoreFrame
  <2>3. ASSUME NEW e, Finish(c, e), UNCHANGED storeVars PROVE StoreInv'
    BY <2>2, <2>3, FinishKept
  <2>4. ASSUME NEW t, Goto(c, t), t.pc \notin {"store", "updateHead"},
               UNCHANGED storeVars
        PROVE  StoreInv'
    BY <2>2, <2>4, OthersKept
  <2>5. CASE InsertHead(c)
    <3> DEFINE doc == [NoRefs EXCEPT !.head = s.evs[Len(s.evs)],
                                     !.phase = "active"]
    <3>1. CASE refs[s.h].phase = "none" /\ MoveHead(c, s.h, doc)
      <4>1. s.pc = "updateHead" /\ s.vid = EventEpoch
        BY <2>5 DEF InsertHead
      <4>2. /\ doc.head = s.evs[Len(s.evs)] /\ doc.phase = "active"
            /\ doc.tail = EventEpoch /\ doc.epoch = EventEpoch
        BY DEF NoRefs
      <4>3. Before(log[s.h], Len(log[s.h]) + 1) = s.vid
        BY <2>0, <3>1, <4>1 DEF StoreInv, RefsInv, Before
      <4>4. doc \in RefsDoc
        BY <2>0, <3>1 DEF MoveHead, TypeInv, TypeOK
      <4> HIDE DEF doc
      <4> QED
        BY <2>0, <3>1, <4>1, <4>2, <4>3, <4>4, StoreMoveHead
    <3> QED
      BY <2>3, <2>5, <3>1 DEF InsertHead
  <2>6. CASE UpdateHead(c)
    <3> DEFINE doc == [refs[s.h] EXCEPT !.head = s.evs[Len(s.evs)],
                                        !.serial = HeadSerialUnspecified]
    <3>1. CASE IsActive(s.h) /\ refs[s.h].head = s.vid /\ MoveHead(c, s.h, doc)
      <4>1. s.pc = "updateHead" /\ refs[s.h].phase = "active"
        BY <2>6, <3>1 DEF UpdateHead, IsActive
      <4>2. /\ doc.head = s.evs[Len(s.evs)] /\ doc.phase = "active"
            /\ doc.tail = EventEpoch /\ doc.epoch = EventEpoch
        BY <2>0, <4>1 DEF RefsDoc, StoreInv, RefsInv
      <4>3. Before(log[s.h], Len(log[s.h]) + 1) = s.vid
        <5>1. log[s.h] # << >> /\ log[s.h][Len(log[s.h])] = s.vid
          BY <2>0, <3>1, <4>1 DEF StoreInv, RefsInv
        <5>2. Len(log[s.h]) \in Nat /\ Len(log[s.h]) # 0
          BY <2>0, <5>1, EmptySeq DEF TypeInv, TypeOK
        <5> QED
          BY <5>1, <5>2 DEF Before
      <4>4. doc \in RefsDoc
        BY <2>0, <3>1 DEF MoveHead, TypeInv, TypeOK
      <4> HIDE DEF doc
      <4> QED
        BY <2>0, <3>1, <4>1, <4>2, <4>3, <4>4, StoreMoveHead
    <3>2. CASE Goto(c, [s EXCEPT !.pc = "commitConflict"]) /\ UNCHANGED storeVars
      <4>1. [s EXCEPT !.pc = "commitConflict"].pc = "commitConflict"
        BY <2>0 DEF ClientState
      <4> QED
        BY <2>4, <3>2, <4>1
    <3> QED
      BY <2>6, <3>1, <3>2 DEF UpdateHead
  <2>7. CASE CommitConflict(c) \/ DeleteConflict(c) \/ IterEnd(c)
    BY <2>3, <2>7 DEF CommitConflict, DeleteConflict, IterEnd
  <2>8. ASSUME NEW h \in Histories, NEW vid \in KnownVids(h), FindBegin(c, h, vid)
        PROVE  StoreInv'
    <3>1. /\ cl'[c].pc \in {"done", "start", "walkSerial"}
          /\ OthersSame(c) /\ UNCHANGED storeVars
      BY <2>8, FindBeginEffect
    <3> QED
      BY <2>2, <3>1 DEF OthersSame
  <2>9. CASE WalkSerial(c)
    <3>1. /\ cl'[c].pc \in {"insert", "walkEvent"}
          /\ OthersSame(c) /\ UNCHANGED storeVars
      BY <2>9, WalkSerialEffect
    <3> QED
      BY <2>2, <3>1 DEF OthersSame
  <2>10. CASE WalkEvent(c)
    <3>1. /\ cl'[c].pc \in {"insert", "walkSerial", "done"}
          /\ OthersSame(c) /\ UNCHANGED storeVars
      BY <2>10, WalkEventEffect
    <3> QED
      BY <2>2, <3>1 DEF OthersSame
  <2>11. CASE InsertEntry(c)
    <3>1. /\ cl'[c].pc \in {"insert", "done"} /\ OthersSame(c)
          /\ UNCHANGED <<nextId, parent, stored, refs, log, heads>>
      BY <2>11, InsertEntryEffect
    <3> QED
      BY <3>1, StoreFramed DEF StoreFrame, OthersSame
  <2>12. CASE SetSerial(c)
    <3>1. /\ cl'[c].pc = "start" /\ OthersSame(c)
          /\ UNCHANGED <<nextId, parent, stored, log, heads>>
      BY <2>12, SetSerialEffect
    <3>2. \A g \in Histories :
            /\ refs'[g].head = refs[g].head
            /\ refs'[g].tail = refs[g].tail
            /\ refs'[g].epoch = refs[g].epoch
            /\ refs'[g].phase = refs[g].phase
      BY <2>12, SetSerialEffect
    <3> QED
      BY <3>1, <3>2, StoreFramed DEF StoreFrame, OthersSame
  <2>13. CASE FindStart(c)
    <3>1. /\ cl'[c].pc \in {"iter", "done"} /\ OthersSame(c)
          /\ UNCHANGED storeVars
      BY <2>13, FindStartEffect
    <3> QED
      BY <2>2, <3>1 DEF OthersSame
  <2>14. CASE IterNext(c)
    <3>1. /\ cl'[c].pc \in {"iter", "done"} /\ OthersSame(c)
          /\ UNCHANGED storeVars
      BY <2>14, IterNextEffect
    <3> QED
      BY <2>2, <3>1 DEF OthersSame
  <2>15. CASE Return(c) \/ Stop(c)
    BY <2>4, <2>15, IdleTyped DEF Return, Stop
  <2> QED
    BY <1>1, <2>1, <2>5, <2>6, <2>7, <2>8, <2>9, <2>10, <2>11, <2>12, <2>13,
       <2>14, <2>15, StoreCommitBegin, StoreStoreEvent
    DEF ClientNext, BeginCall, CallStep, CommitStep, FindStep
<1> QED
  BY <1>0, <1>1 DEF Next

LEMMA StoreInitial == Init => StoreInv
<1> SUFFICES ASSUME Init PROVE StoreInv
  OBVIOUS
<1>1. ASSUME NEW h \in Histories
      PROVE  IsChain(log[h], parent, stored, nextId) /\ RefsInv(h)
  <2>1. log[h] = << >> /\ Len(log[h]) = 0 /\ refs[h] = NoRefs /\ heads[h] = {}
    BY DEF Init
  <2> QED
    BY <2>1 DEF IsChain, RefsInv, NoRefs
<1>2. ASSUME NEW c \in Clients PROVE CommitInv(cl[c])
  BY IdleTyped DEF Init, CommitInv
<1> QED
  BY <1>1, <1>2 DEF StoreInv

LEMMA StoreImplies == TypeInv /\ StoreInv => HeadReachesLog
<1> SUFFICES ASSUME TypeInv, StoreInv, NEW h \in Histories
             PROVE  /\ \A i \in 1..Len(log[h]) :
                          /\ log[h][i] \in stored
                          /\ parent[log[h][i]] = At(h, i - 1)
                    /\ refs[h].phase = "none" => log[h] = << >>
                    /\ refs[h].phase # "none" =>
                          log[h] # << >> /\ refs[h].head = log[h][Len(log[h])]
  BY Zenon DEF HeadReachesLog
<1>1. ASSUME NEW i \in 1..Len(log[h])
      PROVE  log[h][i] \in stored /\ parent[log[h][i]] = At(h, i - 1)
  <2>1. log[h][i] \in stored /\ parent[log[h][i]] = Before(log[h], i)
    BY DEF StoreInv, IsChain
  <2>2. Len(log[h]) \in Nat
    BY DEF TypeInv, TypeOK
  <2>3. At(h, i - 1) = Before(log[h], i)
    BY <2>2 DEF At, Before
  <2> QED BY <2>1, <2>3
<1> QED
  BY <1>1 DEF StoreInv, RefsInv

\* No commit is lost or forks a history, whatever the interleaving of any
\* number of clients that commit, delete, find and stop anywhere.
THEOREM CommitsAreChained == Spec => []HeadReachesLog
<1>1. Init => TypeInv /\ StoreInv
  BY TypeInitial, StoreInitial
<1>2. TypeInv /\ StoreInv /\ [Next]_vars => (TypeInv /\ StoreInv)'
  BY TypeStep, StoreStep
<1>3. TypeInv /\ StoreInv => HeadReachesLog
  BY StoreImplies
<1> QED
  BY <1>1, <1>2, <1>3, PTL DEF Spec

-----------------------------------------------------------------------------
(***************************************************************************)
(* Finds.  The serial of an event is its position in the log.  A call of   *)
(* Find() is tied to the log by two positions: m, the position of the head *)
(* that it has read, and a, the position of the version to find after.     *)
(***************************************************************************)

FindAt(s, a, m) ==
    LET L == log[s.h]
        J == journal[s.h]
    IN  /\ L[m] = s.snap.head
        /\ At(s.h, a) = s.vid
        /\ s.snap.phase = "active"
        /\ s.snap.tail = EventEpoch
        /\ s.snap.epoch = EventEpoch
        /\ s.err = NoErr
        /\ s.pc # "iter" => s.out = << >>
        /\ s.pc \in {"walkSerial", "walkEvent"} =>
              /\ Len(s.evs) <= m
              /\ \A i \in 1..Len(s.evs) : s.evs[i] = L[m + 1 - i]
              /\ s.cur = At(s.h, m - Len(s.evs))
              /\ s.pc = "walkEvent" => s.cur # EventEpoch
        /\ s.pc = "insert" =>
              /\ \A i \in 1..s.n : s.evs[i] = L[m + 1 - i]
              /\ s.serial + s.n = m
              /\ s.serial # 0 => J[L[s.serial]] = s.serial
        /\ s.pc \in {"start", "iter"} => s.serial = m /\ J[L[m]] = m
        /\ s.pc = "iter" =>
              /\ s.n \in a..m
              /\ s.cur = At(s.h, s.n)
              /\ Len(s.out) = s.n - a
              /\ \A i \in 1..(s.n - a) : s.out[i] = L[a + i]

InFind == {"walkSerial", "walkEvent", "insert", "start", "iter"}
InCommit == {"idle", "store", "updateHead", "commitConflict", "deleteConflict"}

FindInv(s) ==
    /\ s.pc \in InFind =>
          \E m \in 1..Len(log[s.h]) : \E a \in 0..m : FindAt(s, a, m)
    /\ s.pc \in InCommit => s.snap.phase = "none" /\ s.err = NoErr
    /\ s.err \notin JournalErrors

\* What FindReturnsWholeCommits says of one client.
WholeCommits(s) ==
    s.pc = "done" /\ s.snap.phase = "active" /\ s.err = NoErr =>
        \E a, b \in 0..Len(log[s.h]) :
            /\ a <= b
            /\ At(s.h, a) = s.vid
            /\ At(s.h, b) = s.snap.head
            /\ Len(s.out) = b - a
            /\ \A i \in 1..(b - a) : s.out[i] = log[s.h][a + i]

JournalInv ==
    /\ JournalIsPrefix
    /\ SerialIsOfHead
    /\ \A c \in Clients : FindInv(cl[c]) /\ WholeCommits(cl[c])

\* The log as the proofs about serials use it.
LEMMA LogFacts ==
    ASSUME TypeInv, StoreInv, NEW h \in Histories
    PROVE  /\ Len(log[h]) \in Nat
           /\ \A i \in 1..Len(log[h]) :
                 /\ log[h][i] \in EvId /\ log[h][i] \in Nat
                 /\ log[h][i] # EventEpoch
                 /\ log[h][i] \in stored
                 /\ parent[log[h][i]] = At(h, i - 1)
           /\ \A i, j \in 1..Len(log[h]) : log[h][i] = log[h][j] => i = j
           /\ \A e \in EvId : journal[h][e] \in Nat
<1>1. /\ Len(log[h]) \in Nat
      /\ \A i \in 1..Len(log[h]) : log[h][i] \in EvId
      /\ \A e \in EvId : journal[h][e] \in Nat
  <2>1. log[h] \in Seq(EvId) /\ journal[h] \in [EvId -> Nat]
    BY DEF TypeInv, TypeOK
  <2> QED BY <2>1, ElementOfSeq
<1>2. \A i \in 1..Len(log[h]) : log[h][i] \in Nat /\ log[h][i] # EventEpoch
  BY <1>1 DEF EvId, EventEpoch
<1>3. \A i \in 1..Len(log[h]) :
         log[h][i] \in stored /\ parent[log[h][i]] = At(h, i - 1)
  BY StoreImplies DEF HeadReachesLog
<1>4. ASSUME NEW i \in 1..Len(log[h]), NEW j \in 1..Len(log[h]),
             log[h][i] = log[h][j]
      PROVE  i = j
  <2>1. /\ i < j => log[h][i] < log[h][j]
        /\ j < i => log[h][j] < log[h][i]
    BY DEF StoreInv, IsChain
  <2> QED BY <1>1, <1>2, <1>4, <2>1
<1> QED
  BY <1>1, <1>2, <1>3, <1>4

\* The entry of a committed event, if it is there, is its position.
LEMMA SerialIsPosition ==
    ASSUME TypeInv, StoreInv, JournalIsPrefix, NEW h \in Histories,
           NEW k \in 1..Len(log[h]), journal[h][log[h][k]] # 0
    PROVE  /\ journal[h][log[h][k]] = k
           /\ \A i \in 1..k : journal[h][log[h][i]] = i
<1>1. PICK e \in EvId : e = log[h][k]
  BY LogFacts
<1>2. journal[h][e] \in Nat /\ journal[h][e] # 0
  BY <1>1, LogFacts
<1>3. /\ journal[h][e] <= Len(log[h]) /\ log[h][journal[h][e]] = e
      /\ \A i \in 1..journal[h][e] : journal[h][log[h][i]] = i
  BY <1>2 DEF JournalIsPrefix
<1>4. journal[h][e] \in 1..Len(log[h])
  BY <1>2, <1>3, LogFacts
<1>5. journal[h][e] = k
  BY <1>1, <1>3, <1>4, LogFacts
<1> QED
  BY <1>1, <1>3, <1>5

\* Histories grow and entries stay.
Grows ==
    \A h \in Histories :
        /\ Len(log[h]) <= Len(log'[h])
        /\ \A i \in 1..Len(log[h]) : log'[h][i] = log[h][i]
        /\ \A e \in EvId : journal[h][e] # 0 => journal'[h][e] = journal[h][e]

LEMMA ClientKept ==
    ASSUME TypeInv, TypeInv', StoreInv, Grows, NEW d \in Clients,
           cl'[d] = cl[d], FindInv(cl[d]), WholeCommits(cl[d])
    PROVE  FindInv(cl[d])' /\ WholeCommits(cl[d])'
<1>1. PICK s, h : s = cl[d] /\ h = s.h /\ h \in Histories
  BY ClientTyped
<1>2. /\ Len(log[h]) \in Nat /\ Len(log'[h]) \in Nat
      /\ Len(log[h]) <= Len(log'[h])
      /\ \A i \in 1..Len(log[h]) : log'[h][i] = log[h][i] /\ log[h][i] \in EvId
      /\ \A e \in EvId : journal[h][e] # 0 => journal'[h][e] = journal[h][e]
  <2>1. Len(log'[h]) \in Nat
    BY <1>1 DEF TypeInv, TypeOK
  <2> QED BY <1>1, <2>1, LogFacts DEF Grows
<1>3. \A i \in 0..Len(log[h]) : At(h, i)' = At(h, i)
  BY <1>2 DEF At
<1>4. s.pc \in InFind =>
         \E m \in 1..Len(log'[h]) : \E a \in 0..m : FindAt(s, a, m)'
  <2> SUFFICES ASSUME s.pc \in InFind
               PROVE  \E m \in 1..Len(log'[h]) : \E a \in 0..m : FindAt(s, a, m)'
    OBVIOUS
  <2>1. PICK m \in 1..Len(log[h]) : \E a \in 0..m : FindAt(s, a, m)
    BY <1>1 DEF FindInv
  <2>2. PICK a \in 0..m : FindAt(s, a, m)
    BY <2>1
  <2>3. m \in 1..Len(log'[h]) /\ m \in Nat /\ a \in Nat /\ a <= m
    BY <1>2
  <2>4. /\ s.n \in Nat /\ s.serial \in Nat /\ s.evs \in Seq(EvId)
        /\ Len(s.evs) \in Nat
    BY <1>1, ClientTyped
  <2>5. FindAt(s, a, m)'
    <3>1. /\ log'[h][m] = log[h][m] /\ At(h, a)' = At(h, a)
          /\ log[h][m] \in EvId
      BY <1>2, <1>3, <2>3
    <3>2. s.pc \in {"walkSerial", "walkEvent"} =>
            /\ \A i \in 1..Len(s.evs) : s.evs[i] = log'[h][m + 1 - i]
            /\ s.cur = At(h, m - Len(s.evs))'
      <4> SUFFICES ASSUME s.pc \in {"walkSerial", "walkEvent"}
                   PROVE  /\ \A i \in 1..Len(s.evs) : s.evs[i] = log'[h][m + 1 - i]
                          /\ s.cur = At(h, m - Len(s.evs))'
        OBVIOUS
      <4>1. /\ Len(s.evs) <= m
            /\ \A i \in 1..Len(s.evs) : s.evs[i] = log[h][m + 1 - i]
            /\ s.cur = At(h, m - Len(s.evs))
        BY <1>1, <2>2 DEF FindAt
      <4>2. \A i \in 1..Len(s.evs) : m + 1 - i \in 1..Len(log[h])
        BY <1>2, <2>3, <2>4, <4>1
      <4>3. m - Len(s.evs) \in 0..Len(log[h])
        BY <1>2, <2>3, <2>4, <4>1
      <4> QED
        BY <1>2, <1>3, <4>1, <4>2, <4>3
    <3>3. s.pc = "insert" =>
            /\ \A i \in 1..s.n : s.evs[i] = log'[h][m + 1 - i]
            /\ s.serial # 0 => journal'[h][log'[h][s.serial]] = s.serial
      <4> SUFFICES ASSUME s.pc = "insert"
                   PROVE  /\ \A i \in 1..s.n : s.evs[i] = log'[h][m + 1 - i]
                          /\ s.serial # 0 =>
                                journal'[h][log'[h][s.serial]] = s.serial
        OBVIOUS
      <4>1. /\ \A i \in 1..s.n : s.evs[i] = log[h][m + 1 - i]
            /\ s.serial + s.n = m
            /\ s.serial # 0 => journal[h][log[h][s.serial]] = s.serial
        BY <1>1, <2>2 DEF FindAt
      <4>2. \A i \in 1..s.n : m + 1 - i \in 1..Len(log[h])
        BY <1>2, <2>3, <2>4, <4>1
      <4>3. s.serial # 0 => s.serial \in 1..Len(log[h])
        BY <1>2, <2>3, <2>4, <4>1
      <4> QED
        BY <1>2, <4>1, <4>2, <4>3
    <3>4. s.pc \in {"start", "iter"} => journal'[h][log'[h][m]] = m
      BY SMTT(30), <1>1, <1>2, <2>2, <2>3, <3>1 DEF FindAt
    <3>5. s.pc = "iter" =>
            /\ s.cur = At(h, s.n)'
            /\ \A i \in 1..(s.n - a) : s.out[i] = log'[h][a + i]
      <4> SUFFICES ASSUME s.pc = "iter"
                   PROVE  /\ s.cur = At(h, s.n)'
                          /\ \A i \in 1..(s.n - a) : s.out[i] = log'[h][a + i]
        OBVIOUS
      <4>1. /\ s.n \in a..m /\ s.cur = At(h, s.n)
            /\ \A i \in 1..(s.n - a) : s.out[i] = log[h][a + i]
        BY <1>1, <2>2 DEF FindAt
      <4>2. /\ s.n \in 0..Len(log[h])
            /\ \A i \in 1..(s.n - a) : a + i \in 1..Len(log[h])
        BY <1>2, <2>3, <2>4, <4>1
      <4> QED
        BY <1>2, <1>3, <4>1, <4>2
    <3> QED
      BY <1>1, <2>2, <3>1, <3>2, <3>3, <3>4, <3>5 DEF FindAt
  <2> QED
    BY <2>3, <2>5
<1>5. WholeCommits(s)'
  <2> SUFFICES ASSUME s.pc = "done", s.snap.phase = "active", s.err = NoErr
               PROVE  \E a, b \in 0..Len(log'[h]) :
                         /\ a <= b
                         /\ At(h, a)' = s.vid
                         /\ At(h, b)' = s.snap.head
                         /\ Len(s.out) = b - a
                         /\ \A i \in 1..(b - a) : s.out[i] = log'[h][a + i]
    BY <1>1 DEF WholeCommits, At
  <2>1. PICK a \in 0..Len(log[h]), b \in 0..Len(log[h]) :
                         /\ a <= b
                         /\ At(h, a) = s.vid
                         /\ At(h, b) = s.snap.head
                         /\ Len(s.out) = b - a
                         /\ \A i \in 1..(b - a) : s.out[i] = log[h][a + i]
    BY <1>1 DEF WholeCommits
  <2>2. \A i \in 1..(b - a) : a + i \in 1..Len(log[h])
    BY <1>2, <2>1
  <2>3. a \in 0..Len(log'[h]) /\ b \in 0..Len(log'[h])
    BY <1>2
  <2>4. \A i \in 1..(b - a) : s.out[i] = log'[h][a + i]
    BY <1>2, <2>1, <2>2
  <2> QED
    BY <1>3, <2>1, <2>3, <2>4
<1>6. FindInv(s)'
  BY <1>1, <1>4 DEF FindInv
<1>7. cl'[d] = s
  BY <1>1
<1> QED
  BY <1>5, <1>6, <1>7 DEF FindInv, WholeCommits, FindAt, At

\* A step that leaves journal, log, heads and serials alone.
JournalFrame ==
    /\ UNCHANGED <<journal, log>>
    /\ \A h \in Histories : /\ refs'[h].head = refs[h].head
                            /\ refs'[h].serial = refs[h].serial

LEMMA JournalFramed ==
    ASSUME TypeInv, JournalFrame, JournalIsPrefix, SerialIsOfHead
    PROVE  JournalIsPrefix' /\ SerialIsOfHead' /\ Grows
<1>1. JournalIsPrefix'
  BY DEF JournalFrame, JournalIsPrefix
<1>2. SerialIsOfHead'
  BY DEF JournalFrame, SerialIsOfHead
<1>3. Grows
  BY DEF JournalFrame, Grows, TypeInv, TypeOK
<1> QED
  BY <1>1, <1>2, <1>3

LEMMA JournalParts ==
    ASSUME TypeInv, TypeInv', StoreInv, JournalInv, NEW c \in Clients,
           Grows, OthersSame(c), JournalIsPrefix', SerialIsOfHead',
           FindInv(cl[c])', WholeCommits(cl[c])'
    PROVE  JournalInv'
<1>1. ASSUME NEW d \in Clients PROVE FindInv(cl[d])' /\ WholeCommits(cl[d])'
  <2>1. CASE d = c
    BY <2>1
  <2>2. CASE d # c
    BY <2>2, ClientKept DEF OthersSame, JournalInv
  <2> QED
    BY <2>1, <2>2
<1> QED
  BY <1>1 DEF JournalInv

\* A client that commits, deletes or waits has no obligations.
LEMMA CommitClient ==
    ASSUME NEW c \in Clients, cl'[c].pc \in InCommit,
           cl'[c].snap.phase = "none", cl'[c].err = NoErr
    PROVE  FindInv(cl[c])' /\ WholeCommits(cl[c])'
<1>1. cl'[c].pc \notin InFind /\ cl'[c].pc # "done"
  BY DEF InFind, InCommit
<1>2. cl'[c].err \notin JournalErrors
  BY DEF JournalErrors, NoErr
<1> QED
  BY <1>1, <1>2 DEF FindInv, WholeCommits

\* Neither has one whose call has ended with nothing to return.
LEMMA DoneClient ==
    ASSUME NEW c \in Clients, cl'[c].pc = "done",
           cl'[c].snap.phase # "active" \/ cl'[c].err # NoErr,
           cl'[c].err \notin JournalErrors
    PROVE  FindInv(cl[c])' /\ WholeCommits(cl[c])'
<1>1. cl'[c].pc \notin InFind /\ cl'[c].pc \notin InCommit
  BY DEF InFind, InCommit
<1> QED
  BY <1>1 DEF FindInv, WholeCommits

\* A step of Find() that only reads.
LEMMA QuietFind ==
    ASSUME TypeInv, TypeInv', StoreInv, JournalInv, NEW c \in Clients,
           UNCHANGED storeVars, OthersSame(c),
           FindInv(cl[c])', WholeCommits(cl[c])'
    PROVE  JournalInv'
<1>1. JournalFrame
  BY DEF JournalFrame, storeVars
<1> QED
  BY <1>1, JournalFramed, JournalParts DEF JournalInv

\* What a client that goes on with Find() has to show.
LEMMA FindGoesOn ==
    ASSUME NEW c \in Clients, cl'[c].pc \in InFind,
           NEW m \in 1..Len(log'[cl'[c].h]), NEW a \in 0..m, FindAt(cl[c], a, m)'
    PROVE  FindInv(cl[c])' /\ WholeCommits(cl[c])'
<1>1. cl'[c].pc \notin InCommit /\ cl'[c].pc # "done"
  BY DEF InFind, InCommit
<1>2. cl'[c].err \notin JournalErrors
  BY DEF FindAt, JournalErrors, NoErr
<1> QED
  BY <1>1, <1>2 DEF FindInv, WholeCommits

LEMMA JournalFindBegin ==
    ASSUME TypeInv, TypeInv', StoreInv, JournalInv, NEW c \in Clients,
           NEW h \in Histories, NEW vid \in KnownVids(h), FindBegin(c, h, vid)
    PROVE  JournalInv'
<1> DEFINE t == cl'[c]
<1>1. /\ UNCHANGED storeVars /\ OthersSame(c)
      /\ t.h = h /\ t.snap = refs[h] /\ t.vid = vid /\ t.err = NoErr
      /\ t.evs = << >> /\ t.out = << >> /\ t.n = 0
      /\ \/ t.pc = "done" /\ refs[h].phase # "active"
         \/ /\ t.pc = "start" /\ refs[h].phase = "active"
            /\ refs[h].serial # HeadSerialUnspecified
            /\ t.serial = refs[h].serial
         \/ /\ t.pc = "walkSerial" /\ refs[h].phase = "active"
            /\ t.cur = refs[h].head
  BY FindBeginEffect
<1>2. CASE t.pc = "done"
  <2>1. FindInv(cl[c])' /\ WholeCommits(cl[c])'
    BY <1>1, <1>2, DoneClient DEF NoErr, JournalErrors
  <2> QED
    BY <1>1, <2>1, QuietFind
<1>3. CASE t.pc \in {"start", "walkSerial"}
  <2>1. PICK m : m = Len(log[h])
    OBVIOUS
  <2>2. /\ refs[h].phase = "active" /\ log[h] # << >>
        /\ refs[h].head = log[h][m]
        /\ refs[h].tail = EventEpoch /\ refs[h].epoch = EventEpoch
    BY <1>1, <1>3, <2>1 DEF StoreInv, RefsInv
  <2>3. m \in Nat /\ m > 0
    <3>1. log[h] \in Seq(EvId)
      BY DEF TypeInv, TypeOK
    <3> QED BY <2>1, <2>2, <3>1, EmptySeq
  <2>4. PICK a \in 0..m : At(h, a) = vid
    <3>1. CASE vid = EventEpoch
      BY <2>3, <3>1 DEF At
    <3>2. CASE vid \in heads[h]
      <4>1. PICK i \in 1..m : log[h][i] = vid
        BY <2>1, <3>2 DEF StoreInv, RefsInv
      <4>2. i \in 0..m /\ i # 0
        BY <2>3
      <4> QED
        BY <4>1, <4>2 DEF At
    <3> QED
      BY <3>1, <3>2 DEF KnownVids
  <2>5. log' = log /\ journal' = journal
    BY <1>1 DEF storeVars
  <2>6. t.pc = "start" => t.serial = m /\ journal[h][log[h][m]] = m
    <3> SUFFICES ASSUME t.pc = "start"
                 PROVE  t.serial = m /\ journal[h][log[h][m]] = m
      OBVIOUS
    <3>1. /\ refs[h].serial # HeadSerialUnspecified
          /\ t.serial = refs[h].serial
      BY <1>1
    <3>2. journal[h][log[h][m]] = refs[h].serial
      BY <2>2, <3>1 DEF JournalInv, SerialIsOfHead
    <3>3. journal[h][log[h][m]] # 0 /\ m \in 1..Len(log[h])
      BY <2>1, <2>3, <3>1, <3>2 DEF HeadSerialUnspecified
    <3> QED
      BY <3>1, <3>2, <3>3, SerialIsPosition DEF JournalInv
  <2>7. Len(t.evs) = 0
    BY <1>1
  <2>8. At(h, a)' = At(h, a)
    BY <2>5 DEF At
  <2>9. t.cur = At(h, m - 0)' \/ t.pc # "walkSerial"
    BY <1>1, <2>2, <2>3, <2>5 DEF At
  <2>10. FindAt(cl[c], a, m)'
    BY <1>1, <1>3, <2>2, <2>3, <2>4, <2>5, <2>6, <2>7, <2>8, <2>9 DEF FindAt
  <2>11. m \in 1..Len(log'[t.h]) /\ t.pc \in InFind
    BY <1>1, <1>3, <2>1, <2>3, <2>5 DEF InFind
  <2>12. FindInv(cl[c])' /\ WholeCommits(cl[c])'
    BY <2>10, <2>11, FindGoesOn
  <2> QED
    BY <1>1, <2>12, QuietFind
<1> QED
  BY <1>1, <1>2, <1>3

\* The positions of a client in the middle of Find().
LEMMA FindPositions ==
    ASSUME TypeInv, StoreInv, JournalInv, NEW c \in Clients, cl[c].pc \in InFind
    PROVE  \E m \in 1..Len(log[cl[c].h]) : \E a \in 0..m :
              /\ FindAt(cl[c], a, m)
              /\ m \in Nat /\ a \in Nat /\ a <= m
BY LogFacts, ClientTyped DEF JournalInv, FindInv

LEMMA JournalWalkSerial ==
    ASSUME TypeInv, TypeInv', StoreInv, JournalInv, NEW c \in Clients,
           WalkSerial(c)
    PROVE  JournalInv'
<1> DEFINE s == cl[c]
           t == cl'[c]
<1>1. /\ s.pc = "walkSerial" /\ UNCHANGED storeVars /\ OthersSame(c)
      /\ KeepsCall(s, t) /\ t.evs = s.evs /\ t.out = s.out
      /\ \/ /\ t.pc = "insert" /\ t.n = Len(s.evs)
            /\ \/ s.cur = EventEpoch /\ t.serial = 0
               \/ /\ s.cur # EventEpoch
                  /\ journal[s.h][s.cur] # 0
                  /\ t.serial = journal[s.h][s.cur]
         \/ t.pc = "walkEvent" /\ t.cur = s.cur /\ s.cur # EventEpoch
  BY WalkSerialEffect
<1>2. PICK h \in Histories : h = s.h /\ Len(s.evs) \in Nat
  BY ClientTyped
<1>3. PICK m \in 1..Len(log[h]) : \E a \in 0..m :
         FindAt(s, a, m) /\ m \in Nat /\ a \in Nat /\ a <= m
  BY <1>1, <1>2, FindPositions DEF InFind
<1>4. PICK a \in 0..m : FindAt(s, a, m) /\ m \in Nat /\ a \in Nat /\ a <= m
  BY <1>3
<1>5. /\ Len(s.evs) <= m
      /\ \A i \in 1..Len(s.evs) : s.evs[i] = log[h][m + 1 - i]
      /\ s.cur = At(h, m - Len(s.evs))
  BY <1>1, <1>2, <1>4 DEF FindAt
<1>5a. PICK k \in 0..m : k = m - Len(s.evs)
  <2>1. m - Len(s.evs) \in 0..m
    BY <1>2, <1>4, <1>5
  <2> QED BY <2>1
<1>6. log' = log /\ journal' = journal
  BY <1>1 DEF storeVars
<1>7. t.pc = "insert" =>
         /\ t.serial + t.n = m
         /\ t.serial # 0 => journal[h][log[h][t.serial]] = t.serial
  <2> SUFFICES ASSUME t.pc = "insert"
               PROVE  /\ t.serial + t.n = m
                      /\ t.serial # 0 => journal[h][log[h][t.serial]] = t.serial
    OBVIOUS
  <2>2. /\ Len(log[h]) \in Nat
        /\ \A i \in 1..Len(log[h]) : log[h][i] # EventEpoch
    BY LogFacts
  <2>3. k # 0 => k \in 1..Len(log[h])
    BY <1>5a, <2>2
  <2>4. CASE s.cur = EventEpoch /\ t.serial = 0
    <3>1. k = 0
      BY <1>5, <1>5a, <2>2, <2>3, <2>4 DEF At
    <3> QED
      BY <1>1, <1>2, <1>4, <1>5a, <2>4, <3>1
  <2>5. CASE /\ s.cur # EventEpoch /\ journal[h][s.cur] # 0
             /\ t.serial = journal[h][s.cur]
    <3>1. k # 0 /\ s.cur = log[h][k]
      BY <1>5, <1>5a, <2>5 DEF At
    <3>2. journal[h][log[h][k]] = k
      BY <2>3, <2>5, <3>1, SerialIsPosition DEF JournalInv
    <3> QED
      BY <1>1, <1>2, <1>4, <1>5a, <2>5, <3>1, <3>2
  <2> QED
    BY <1>1, <1>2, <2>4, <2>5
<1>8. At(h, a)' = At(h, a) /\ At(h, k)' = At(h, k)
  BY <1>6 DEF At
<1>9. FindAt(cl[c], a, m)'
  BY SMTT(30), <1>1, <1>2, <1>4, <1>5, <1>5a, <1>6, <1>7, <1>8 DEF FindAt, KeepsCall
<1>10. m \in 1..Len(log'[t.h]) /\ t.pc \in InFind
  BY <1>1, <1>2, <1>6 DEF InFind, KeepsCall
<1>11. FindInv(cl[c])' /\ WholeCommits(cl[c])'
  BY <1>9, <1>10, FindGoesOn
<1> QED
  BY <1>1, <1>11, QuietFind

LEMMA JournalWalkEvent ==
    ASSUME TypeInv, TypeInv', StoreInv, JournalInv, NEW c \in Clients,
           WalkEvent(c)
    PROVE  JournalInv'
<1> DEFINE s == cl[c]
           t == cl'[c]
<1>1. /\ s.pc = "walkEvent" /\ UNCHANGED storeVars /\ OthersSame(c)
      /\ \/ s.cur \notin stored /\ t.pc = "done"
         \/ /\ s.cur \in stored /\ KeepsCall(s, t) /\ t.out = s.out
            /\ t.evs = Append(s.evs, s.cur)
            /\ \/ s.snap.tail # EventEpoch /\ t.pc = "insert"
               \/ t.pc = "walkSerial" /\ t.cur = parent[s.cur]
  BY WalkEventEffect
<1>2. PICK h \in Histories, n \in Nat : h = s.h /\ n = Len(s.evs)
  BY ClientTyped
<1>3. PICK m \in 1..Len(log[h]) : \E a \in 0..m :
         FindAt(s, a, m) /\ m \in Nat /\ a \in Nat /\ a <= m
  BY <1>1, <1>2, FindPositions DEF InFind
<1>4. PICK a \in 0..m : FindAt(s, a, m) /\ m \in Nat /\ a \in Nat /\ a <= m
  BY <1>3
<1>5. /\ n <= m
      /\ \A i \in 1..n : s.evs[i] = log[h][m + 1 - i]
      /\ s.cur = At(h, m - n) /\ s.cur # EventEpoch
      /\ s.snap.tail = EventEpoch
  BY <1>1, <1>2, <1>4 DEF FindAt
<1>6. log' = log /\ journal' = journal
  BY <1>1 DEF storeVars
<1>7. PICK k \in 1..Len(log[h]) : k = m - n /\ s.cur = log[h][k]
  <2>1. m - n # 0 /\ s.cur = log[h][m - n]
    BY <1>5 DEF At
  <2>2. m - n \in 1..Len(log[h])
    BY <1>4, <1>5, <2>1, LogFacts
  <2> QED BY <2>1, <2>2
<1>8. s.cur \in stored /\ parent[s.cur] = At(h, k - 1) /\ s.cur \in EvId
  BY <1>7, LogFacts
<1>9. /\ Len(t.evs) = n + 1
      /\ \A i \in 1..n : t.evs[i] = s.evs[i]
      /\ t.evs[n + 1] = s.cur
  <2>1. s.evs \in Seq(EvId) /\ t.evs = Append(s.evs, s.cur)
    BY <1>1, <1>8, ClientTyped
  <2> QED BY <1>2, <1>8, <2>1, AppendProperties
<1>10. ASSUME NEW i \in 1..(n + 1) PROVE t.evs[i] = log[h][m + 1 - i]
  <2>1. CASE i = n + 1
    <3>1. m + 1 - i = k
      BY <1>4, <1>7, <2>1
    <3> QED BY <1>7, <1>9, <2>1, <3>1
  <2>2. CASE i \in 1..n
    BY <1>5, <1>9, <2>2
  <2> QED BY <2>1, <2>2
<1>11. /\ n + 1 <= m /\ k - 1 = m - (n + 1)
       /\ t.cur = At(h, m - (n + 1))
  BY <1>1, <1>4, <1>5, <1>7, <1>8
<1>12. At(h, a)' = At(h, a) /\ At(h, m - (n + 1))' = At(h, m - (n + 1))
  BY <1>6 DEF At
<1>13. FindAt(cl[c], a, m)'
  <2>1. /\ t.pc = "walkSerial" /\ t.out = s.out /\ t.h = h /\ t.snap = s.snap
        /\ t.vid = s.vid /\ t.err = s.err
    BY <1>1, <1>2, <1>5, <1>8 DEF KeepsCall
  <2>2. /\ log[h][m] = s.snap.head /\ At(h, a) = s.vid
        /\ s.snap.phase = "active" /\ s.snap.tail = EventEpoch
        /\ s.snap.epoch = EventEpoch /\ s.err = NoErr /\ s.out = << >>
    BY <1>1, <1>2, <1>4 DEF FindAt
  <2>3. /\ Len(t.evs) <= m
        /\ \A i \in 1..Len(t.evs) : t.evs[i] = log'[h][m + 1 - i]
        /\ t.cur = At(h, m - Len(cl[c].evs))'
    <3>1. At(h, m - Len(cl[c].evs))' = At(h, m - (n + 1))'
      BY <1>9 DEF At
    <3> QED BY <1>6, <1>9, <1>10, <1>11, <1>12, <3>1
  <2> QED
    BY <1>6, <1>12, <2>1, <2>2, <2>3 DEF FindAt
<1>14. m \in 1..Len(log'[t.h]) /\ t.pc \in InFind
  BY <1>1, <1>2, <1>5, <1>6, <1>8 DEF InFind, KeepsCall
<1>15. FindInv(cl[c])' /\ WholeCommits(cl[c])'
  BY <1>13, <1>14, FindGoesOn
<1> QED
  BY <1>1, <1>15, QuietFind

LEMMA JournalInsertEntry ==
    ASSUME TypeInv, TypeInv', StoreInv, JournalInv, NEW c \in Clients,
           InsertEntry(c)
    PROVE  JournalInv'
<1> DEFINE s == cl[c]
           t == cl'[c]
<1>1. /\ s.pc = "insert" /\ s.n > 0 /\ OthersSame(c)
      /\ UNCHANGED <<nextId, parent, stored, refs, log, heads>>
      /\ \/ /\ journal[s.h][s.evs[s.n]] \notin {0, s.serial + 1}
            /\ journal' = journal /\ t.pc = "done"
         \/ /\ KeepsCall(s, t) /\ t.out = s.out /\ t.evs = s.evs
            /\ t.pc = "insert" /\ t.n = s.n - 1
            /\ t.serial = s.serial + 1
            /\ \/ /\ journal[s.h][s.evs[s.n]] = 0
                  /\ journal' = [journal EXCEPT ![s.h][s.evs[s.n]] = s.serial + 1]
               \/ /\ journal[s.h][s.evs[s.n]] = s.serial + 1
                  /\ journal' = journal
  BY InsertEntryEffect
<1>2. PICK h \in Histories, n \in Nat, k \in Nat :
         h = s.h /\ n = s.n /\ k = s.serial
  BY ClientTyped
<1>3. PICK m \in 1..Len(log[h]) : \E a \in 0..m :
         FindAt(s, a, m) /\ m \in Nat /\ a \in Nat /\ a <= m
  BY <1>1, <1>2, FindPositions DEF InFind
<1>4. PICK a \in 0..m : FindAt(s, a, m) /\ m \in Nat /\ a \in Nat /\ a <= m
  BY <1>3
<1>5. /\ \A i \in 1..n : s.evs[i] = log[h][m + 1 - i]
      /\ k + n = m
      /\ k # 0 => journal[h][log[h][k]] = k
  BY <1>1, <1>2, <1>4 DEF FindAt
<1>6. /\ k + 1 \in 1..Len(log[h])
      /\ k # 0 => k \in 1..Len(log[h])
  <2>1. n > 0 /\ k + n = m
    BY <1>1, <1>2, <1>5
  <2>2. Len(log[h]) \in Nat
    BY LogFacts
  <2> QED BY <1>4, <2>1, <2>2
<1>7. PICK e \in EvId : e = s.evs[n] /\ e = log[h][k + 1]
  <2>1. s.evs[n] = log[h][m + 1 - n] /\ m + 1 - n = k + 1
    <3>0. n > 0
      BY <1>1, <1>2
    <3>1. n \in 1..n /\ k + n = m
      BY <1>5, <3>0
    <3>2. m + 1 - n = k + 1
      BY <1>4, <3>1
    <3> QED BY <1>5, <3>1, <3>2
  <2> QED BY <1>6, <2>1, LogFacts
<1>8. journal[h][e] # 0 => journal[h][e] = k + 1
  BY <1>6, <1>7, SerialIsPosition DEF JournalInv
<1>9. \A i \in 1..k : journal[h][log[h][i]] = i
  <2>1. CASE k = 0
    BY <2>1
  <2>2. CASE k # 0
    BY <1>5, <1>6, <2>2, SerialIsPosition DEF JournalInv
  <2> QED BY <2>1, <2>2
<1>10. /\ journal'[h][e] = k + 1
       /\ \A f \in EvId : f # e => journal'[h][f] = journal[h][f]
       /\ \A g \in Histories : g # h => journal'[g] = journal[g]
       /\ \A g \in Histories : \A f \in EvId :
             journal[g][f] # 0 => journal'[g][f] = journal[g][f]
  <2>1. CASE journal' = journal /\ journal[h][e] = k + 1
    BY <2>1
  <2>2. CASE /\ journal' = [journal EXCEPT ![h][e] = k + 1]
             /\ journal[h][e] = 0
    BY <2>2 DEF TypeInv, TypeOK
  <2>3. s.h = h /\ s.evs[s.n] = e /\ s.serial = k
    BY <1>2, <1>7
  <2>4. \/ journal' = journal /\ journal[h][e] \notin {0, k + 1}
        \/ journal' = [journal EXCEPT ![h][e] = k + 1] /\ journal[h][e] = 0
        \/ journal' = journal /\ journal[h][e] = k + 1
    BY <1>1, <2>3
  <2>5. ~(journal[h][e] \notin {0, k + 1})
    BY <1>8
  <2> QED
    BY <2>1, <2>2, <2>4, <2>5
<1>11. Grows
  <2>1. \A g \in Histories : Len(log[g]) \in Nat
    BY LogFacts
  <2>2. log' = log
    BY <1>1
  <2>3. ASSUME NEW g \in Histories, NEW f \in EvId, journal[g][f] # 0
        PROVE  journal'[g][f] = journal[g][f]
    BY <1>10, <2>3
  <2>4. /\ \A g \in Histories : Len(log[g]) <= Len(log'[g])
        /\ \A g \in Histories : \A i \in 1..Len(log[g]) : log'[g][i] = log[g][i]
    BY <2>1, <2>2
  <2> QED
    BY <2>3, <2>4 DEF Grows
<1>12. JournalIsPrefix'
  <2> SUFFICES ASSUME NEW g \in Histories, NEW f \in EvId, journal'[g][f] # 0
               PROVE  /\ journal'[g][f] <= Len(log[g])
                      /\ log[g][journal'[g][f]] = f
                      /\ \A i \in 1..journal'[g][f] : journal'[g][log[g][i]] = i
    BY <1>1, Zenon DEF JournalIsPrefix
  <2>1. CASE journal[g][f] # 0
    <3>1. /\ journal'[g][f] = journal[g][f]
          /\ journal[g][f] <= Len(log[g])
          /\ log[g][journal[g][f]] = f
          /\ \A i \in 1..journal[g][f] : journal[g][log[g][i]] = i
          /\ journal[g][f] \in Nat
      BY <1>10, <2>1, LogFacts DEF JournalInv, JournalIsPrefix
    <3>2. ASSUME NEW i \in 1..journal[g][f] PROVE journal'[g][log[g][i]] = i
      <4>1. log[g][i] \in EvId /\ journal[g][log[g][i]] # 0
        BY <3>1, LogFacts
      <4> QED BY <1>10, <3>1, <4>1
    <3> QED BY <3>1, <3>2
  <2>2. CASE journal[g][f] = 0
    <3>1. g = h /\ f = e
      BY <1>10, <2>2
    <3>2. journal'[g][f] = k + 1 /\ log[g][k + 1] = f /\ k + 1 <= Len(log[g])
      BY <1>6, <1>7, <1>10, <3>1, LogFacts
    <3>3. ASSUME NEW i \in 1..(k + 1) PROVE journal'[g][log[g][i]] = i
      <4>1. CASE i = k + 1
        BY <1>7, <1>10, <3>1, <4>1
      <4>2. CASE i \in 1..k
        <5>1. i \in 1..Len(log[h]) /\ i # 0
          BY <1>2, <1>6, <4>2, LogFacts
        <5>2. log[h][i] \in EvId /\ journal[h][log[h][i]] # 0
          BY <1>9, <4>2, <5>1, LogFacts
        <5> QED BY <1>9, <1>10, <3>1, <4>2, <5>2
      <4> QED BY <1>2, <4>1, <4>2
    <3> QED BY <3>2, <3>3
  <2> QED BY <2>1, <2>2
<1>13. SerialIsOfHead'
  <2> SUFFICES ASSUME NEW g \in Histories, refs[g].serial # HeadSerialUnspecified
               PROVE  refs[g].head \in EvId /\ journal'[g][refs[g].head] = refs[g].serial
    BY <1>1, Zenon DEF SerialIsOfHead
  <2>1. refs[g].head \in EvId /\ journal[g][refs[g].head] = refs[g].serial
    BY DEF JournalInv, SerialIsOfHead
  <2> QED
    BY <1>10, <2>1 DEF HeadSerialUnspecified
<1>14. FindAt(cl[c], a, m)'
  <2>1. /\ KeepsCall(s, t) /\ t.out = s.out /\ t.evs = s.evs
        /\ t.pc = "insert" /\ t.n = n - 1 /\ t.serial = k + 1
    BY <1>1, <1>2, <1>7, <1>8
  <2>2. At(h, a)' = At(h, a)
    BY <1>1 DEF At
  <2>3. /\ \A i \in 1..(n - 1) : s.evs[i] = log[h][m + 1 - i]
        /\ (k + 1) + (n - 1) = m
    <3>1. \A i \in 1..(n - 1) : i \in 1..n
      OBVIOUS
    <3>2. k + n = m
      BY <1>5
    <3> QED BY <1>5, <3>1, <3>2
  <2>4. journal'[h][log'[h][k + 1]] = k + 1
    BY <1>1, <1>7, <1>10
  <2> QED
    <3>1. /\ log[h][m] = s.snap.head /\ At(h, a) = s.vid
          /\ s.snap.phase = "active" /\ s.snap.tail = EventEpoch
          /\ s.snap.epoch = EventEpoch /\ s.err = NoErr /\ s.out = << >>
      BY <1>1, <1>2, <1>4 DEF FindAt
    <3>2. /\ t.h = h /\ t.snap = s.snap /\ t.vid = s.vid /\ t.err = s.err
      BY <1>2, <2>1 DEF KeepsCall
    <3>3. log' = log
      BY <1>1
    <3> QED
      BY <2>1, <2>2, <2>3, <2>4, <3>1, <3>2, <3>3 DEF FindAt
<1>15. m \in 1..Len(log'[t.h]) /\ t.pc \in InFind
  BY <1>1, <1>2, <1>7, <1>8 DEF InFind, KeepsCall
<1>16. FindInv(cl[c])' /\ WholeCommits(cl[c])'
  BY <1>14, <1>15, FindGoesOn
<1> QED
  BY <1>1, <1>11, <1>12, <1>13, <1>16, JournalParts

LEMMA JournalSetSerial ==
    ASSUME TypeInv, TypeInv', StoreInv, JournalInv, NEW c \in Clients,
           SetSerial(c)
    PROVE  JournalInv'
<1> DEFINE s == cl[c]
           t == cl'[c]
<1>1. /\ s.pc = "insert" /\ s.n = 0 /\ OthersSame(c)
      /\ UNCHANGED <<nextId, parent, stored, journal, log, heads>>
      /\ KeepsCall(s, t) /\ t.out = s.out /\ t.evs = s.evs
      /\ t.pc = "start" /\ t.serial = s.serial /\ t.n = s.n
      /\ \A g \in Histories : g # s.h => refs'[g] = refs[g]
      /\ refs'[s.h].head = refs[s.h].head
      /\ \/ refs'[s.h].serial = refs[s.h].serial
         \/ /\ refs[s.h].head = s.snap.head
            /\ refs'[s.h].serial = s.serial
  BY SetSerialEffect
<1>2. PICK h \in Histories : h = s.h /\ s.serial \in Nat
  BY ClientTyped
<1>3. PICK m \in 1..Len(log[h]) : \E a \in 0..m :
         FindAt(s, a, m) /\ m \in Nat /\ a \in Nat /\ a <= m
  BY <1>1, <1>2, FindPositions DEF InFind
<1>4. PICK a \in 0..m : FindAt(s, a, m) /\ m \in Nat /\ a \in Nat /\ a <= m
  BY <1>3
<1>5. s.serial = m /\ journal[h][log[h][m]] = m /\ log[h][m] = s.snap.head
  BY <1>1, <1>2, <1>4 DEF FindAt
<1>6. Grows
  BY <1>1, LogFacts DEF Grows
<1>7. JournalIsPrefix'
  BY <1>1 DEF JournalInv, JournalIsPrefix
<1>8. SerialIsOfHead'
  <2> SUFFICES ASSUME NEW g \in Histories, refs'[g].serial # HeadSerialUnspecified
               PROVE  /\ refs'[g].head \in EvId
                      /\ journal[g][refs'[g].head] = refs'[g].serial
    BY <1>1, Zenon DEF SerialIsOfHead
  <2>1. CASE refs'[g].head = refs[g].head /\ refs'[g].serial = refs[g].serial
    BY <2>1 DEF JournalInv, SerialIsOfHead
  <2>2. CASE g = h /\ refs'[h].head = log[h][m] /\ refs'[h].serial = m
    BY <1>5, <2>2, LogFacts
  <2> QED
    BY <1>1, <1>2, <1>5, <2>1, <2>2
<1>9. At(h, a)' = At(h, a)
  BY <1>1 DEF At
<1>10. FindAt(cl[c], a, m)'
  BY <1>1, <1>2, <1>4, <1>5, <1>9 DEF FindAt, KeepsCall
<1>11. m \in 1..Len(log'[t.h]) /\ t.pc \in InFind
  BY <1>1, <1>2 DEF InFind, KeepsCall
<1>12. FindInv(cl[c])' /\ WholeCommits(cl[c])'
  BY <1>10, <1>11, FindGoesOn
<1> QED
  BY <1>1, <1>6, <1>7, <1>8, <1>12, JournalParts

LEMMA JournalFindStart ==
    ASSUME TypeInv, TypeInv', StoreInv, JournalInv, NEW c \in Clients,
           FindStart(c)
    PROVE  JournalInv'
<1> DEFINE s == cl[c]
           t == cl'[c]
<1>1. PICK v : v = IF s.vid = EventEpoch THEN s.snap.epoch ELSE s.vid
  OBVIOUS
<1>2. /\ s.pc = "start" /\ UNCHANGED storeVars /\ OthersSame(c)
      /\ \/ v # EventEpoch /\ journal[s.h][v] = 0 /\ t.pc = "done"
         \/ /\ KeepsCall(s, t) /\ t.out = s.out
            /\ t.serial = s.serial
            /\ t.pc = "iter" /\ t.cur = v
            /\ \/ v = EventEpoch /\ t.n = 0
               \/ /\ v # EventEpoch /\ journal[s.h][v] # 0
                  /\ t.n = journal[s.h][v]
  BY <1>1, FindStartEffect
<1>3. PICK h \in Histories : h = s.h
  BY ClientTyped
<1>4. PICK m \in 1..Len(log[h]) : \E a \in 0..m :
         FindAt(s, a, m) /\ m \in Nat /\ a \in Nat /\ a <= m
  BY <1>2, <1>3, FindPositions DEF InFind
<1>5. PICK a \in 0..m : FindAt(s, a, m) /\ m \in Nat /\ a \in Nat /\ a <= m
  BY <1>4
<1>6. /\ s.serial = m /\ journal[h][log[h][m]] = m /\ s.out = << >>
      /\ At(h, a) = s.vid /\ s.snap.epoch = EventEpoch
  BY <1>2, <1>3, <1>5 DEF FindAt
<1>7. v = At(h, a)
  BY <1>1, <1>6
<1>8. a # 0 => v = log[h][a] /\ v # EventEpoch /\ journal[h][v] = a
  <2> SUFFICES ASSUME a # 0
               PROVE  v = log[h][a] /\ v # EventEpoch /\ journal[h][v] = a
    OBVIOUS
  <2>1. a \in 1..m /\ a \in 1..Len(log[h]) /\ m # 0
    BY <1>5, LogFacts
  <2>2. v = log[h][a] /\ v # EventEpoch
    BY <1>7, <2>1, LogFacts DEF At
  <2>3. \A i \in 1..m : journal[h][log[h][i]] = i
    BY <1>6, <2>1, SerialIsPosition DEF JournalInv
  <2> QED BY <2>1, <2>2, <2>3
<1>9. a = 0 => v = EventEpoch
  BY <1>7 DEF At
<1>10. /\ KeepsCall(s, t) /\ t.out = << >> /\ t.serial = m
       /\ t.pc = "iter" /\ t.cur = At(h, a) /\ t.n = a
  BY <1>2, <1>3, <1>5, <1>6, <1>7, <1>8, <1>9
<1>11. log' = log /\ journal' = journal
  BY <1>2 DEF storeVars
<1>12. At(h, a)' = At(h, a)
  BY <1>11 DEF At
<1>13. FindAt(cl[c], a, m)'
  <2>1. Len(t.out) = a - a /\ a \in a..m
    BY <1>5, <1>10
  <2>2. \A i \in 1..(a - a) : t.out[i] = log'[h][a + i]
    BY <1>5
  <2> QED
    BY <1>3, <1>5, <1>6, <1>10, <1>11, <1>12, <2>1, <2>2 DEF FindAt, KeepsCall
<1>14. m \in 1..Len(log'[t.h]) /\ t.pc \in InFind
  BY <1>3, <1>10, <1>11 DEF InFind, KeepsCall
<1>15. FindInv(cl[c])' /\ WholeCommits(cl[c])'
  BY <1>13, <1>14, FindGoesOn
<1> QED
  BY <1>2, <1>15, QuietFind

LEMMA JournalIterNext ==
    ASSUME TypeInv, TypeInv', StoreInv, JournalInv, NEW c \in Clients,
           IterNext(c)
    PROVE  JournalInv'
<1> DEFINE s == cl[c]
           t == cl'[c]
<1>1. /\ s.pc = "iter" /\ UNCHANGED storeVars /\ OthersSame(c)
      /\ \E e \in Remaining(s) :
            /\ \A f \in Remaining(s) : journal[s.h][e] <= journal[s.h][f]
            /\ \/ parent[e] # s.cur /\ t.pc = "done"
               \/ /\ parent[e] = s.cur
                  /\ KeepsCall(s, t) /\ t.pc = "iter"
                  /\ t.serial = s.serial /\ t.n = journal[s.h][e]
                  /\ t.cur = e /\ t.out = Append(s.out, e)
  BY IterNextEffect
<1>2. PICK h \in Histories, n \in Nat :
         h = s.h /\ n = s.n /\ s.out \in Seq(EvId)
  BY ClientTyped
<1>3. PICK m \in 1..Len(log[h]) : \E a \in 0..m :
         FindAt(s, a, m) /\ m \in Nat /\ a \in Nat /\ a <= m
  BY <1>1, <1>2, FindPositions DEF InFind
<1>4. PICK a \in 0..m : FindAt(s, a, m) /\ m \in Nat /\ a \in Nat /\ a <= m
  BY <1>3
<1>5. /\ s.serial = m /\ journal[h][log[h][m]] = m
      /\ n \in a..m /\ s.cur = At(h, n)
      /\ Len(s.out) = n - a
      /\ \A i \in 1..(n - a) : s.out[i] = log[h][a + i]
  BY <1>1, <1>2, <1>4 DEF FindAt
<1>6. PICK e \in EvId :
        /\ journal[h][e] > n /\ journal[h][e] <= m
        /\ \A f \in EvId : journal[h][f] > n /\ journal[h][f] <= m =>
              journal[h][e] <= journal[h][f]
        /\ \/ parent[e] # s.cur /\ t.pc = "done"
           \/ /\ parent[e] = s.cur
              /\ KeepsCall(s, t) /\ t.pc = "iter"
              /\ t.serial = s.serial /\ t.n = journal[h][e]
              /\ t.cur = e /\ t.out = Append(s.out, e)
  BY <1>1, <1>2, <1>5 DEF Remaining
<1>7. /\ journal[h][e] \in Nat /\ n + 1 <= m
      /\ n + 1 \in 1..m /\ n + 1 \in 1..Len(log[h]) /\ m # 0
  BY <1>4, <1>6, LogFacts
<1>8. journal[h][log[h][n + 1]] = n + 1 /\ log[h][n + 1] \in EvId
  BY <1>5, <1>7, SerialIsPosition, LogFacts DEF JournalInv
<1>9. journal[h][e] = n + 1
  <2>1. journal[h][e] <= n + 1
    BY <1>6, <1>7, <1>8
  <2> QED BY <1>6, <1>7, <2>1
<1>10. e = log[h][n + 1]
  BY <1>7, <1>9 DEF JournalInv, JournalIsPrefix
<1>11. parent[e] = s.cur
  <2>1. parent[e] = At(h, (n + 1) - 1) /\ (n + 1) - 1 = n
    BY <1>7, <1>10, LogFacts
  <2> QED BY <1>5, <2>1
<1>12. /\ KeepsCall(s, t) /\ t.pc = "iter" /\ t.serial = m /\ t.n = n + 1
       /\ t.cur = e /\ t.out = Append(s.out, e)
  BY <1>5, <1>6, <1>9, <1>11
<1>13. log' = log /\ journal' = journal
  BY <1>1 DEF storeVars
<1>14. At(h, a)' = At(h, a) /\ At(h, n + 1)' = e
  BY <1>10, <1>13 DEF At
<1>15. /\ Len(t.out) = (n + 1) - a
       /\ \A i \in 1..((n + 1) - a) : t.out[i] = log[h][a + i]
  <2>1. /\ Len(t.out) = (n - a) + 1
        /\ \A i \in 1..(n - a) : t.out[i] = s.out[i]
        /\ t.out[(n - a) + 1] = e
    BY SMTT(30), <1>2, <1>5, <1>12, AppendProperties
  <2>2. ASSUME NEW i \in 1..((n + 1) - a) PROVE t.out[i] = log[h][a + i]
    <3>1. CASE i = (n - a) + 1
      <4>1. a + i = n + 1
        BY <1>4, <1>5, <3>1
      <4> QED BY <1>10, <2>1, <3>1, <4>1
    <3>2. CASE i \in 1..(n - a)
      BY <1>5, <2>1, <3>2
    <3> QED BY <1>4, <1>5, <3>1, <3>2
  <2> QED BY <1>4, <1>5, <2>1, <2>2
<1>16. n + 1 \in a..m
  BY <1>4, <1>5, <1>7
<1>17. FindAt(cl[c], a, m)'
  BY <1>2, <1>4, <1>5, <1>12, <1>13, <1>14, <1>15, <1>16 DEF FindAt, KeepsCall
<1>18. m \in 1..Len(log'[t.h]) /\ t.pc \in InFind
  BY <1>2, <1>12, <1>13 DEF InFind, KeepsCall
<1>19. FindInv(cl[c])' /\ WholeCommits(cl[c])'
  BY <1>17, <1>18, FindGoesOn
<1> QED
  BY <1>1, <1>19, QuietFind

\* The iteration ends at the position of the head that was read.
LEMMA JournalIterEnd ==
    ASSUME TypeInv, TypeInv', StoreInv, JournalInv, NEW c \in Clients,
           IterEnd(c)
    PROVE  JournalInv'
<1> DEFINE s == cl[c]
           t == cl'[c]
<1>1. /\ s.pc = "iter" /\ UNCHANGED storeVars /\ OthersSame(c)
      /\ Remaining(s) = {}
      /\ t.pc = "done" /\ t.err = NoErr /\ t.snap = s.snap /\ t.vid = s.vid
      /\ t.out = s.out /\ t.h = s.h
  BY FinishKept DEF IterEnd, OthersSame
<1>2. PICK h \in Histories, n \in Nat : h = s.h /\ n = s.n
  BY ClientTyped
<1>3. PICK m \in 1..Len(log[h]) : \E a \in 0..m :
         FindAt(s, a, m) /\ m \in Nat /\ a \in Nat /\ a <= m
  BY <1>1, <1>2, FindPositions DEF InFind
<1>4. PICK a \in 0..m : FindAt(s, a, m) /\ m \in Nat /\ a \in Nat /\ a <= m
  BY <1>3
<1>5. /\ s.serial = m /\ journal[h][log[h][m]] = m /\ log[h][m] = s.snap.head
      /\ n \in a..m /\ At(h, a) = s.vid
      /\ Len(s.out) = n - a
      /\ \A i \in 1..(n - a) : s.out[i] = log[h][a + i]
  BY <1>1, <1>2, <1>4 DEF FindAt
<1>6. n = m
  <2>1. log[h][m] \in EvId
    BY LogFacts
  <2>2. m > n => log[h][m] \in Remaining(s)
    <3>1. journal[s.h][log[h][m]] = m /\ s.n = n /\ s.serial = m
      BY <1>2, <1>5
    <3> QED BY <1>4, <2>1, <3>1 DEF Remaining
  <2>3. ~(m > n)
    BY <1>1, <2>2
  <2> QED BY <1>4, <1>5, <2>3
<1>7. log' = log
  BY <1>1 DEF storeVars
<1>8. /\ a \in 0..Len(log'[h]) /\ m \in 0..Len(log'[h]) /\ a <= m
      /\ At(h, a)' = s.vid /\ At(h, m)' = s.snap.head
  <2>1. Len(log[h]) \in Nat /\ m # 0
    BY LogFacts
  <2> QED BY <1>4, <1>5, <1>7, <2>1 DEF At
<1>9. WholeCommits(cl[c])'
  BY <1>1, <1>2, <1>5, <1>6, <1>7, <1>8 DEF WholeCommits
<1>10. FindInv(cl[c])'
  BY <1>1 DEF FindInv, InFind, InCommit, JournalErrors, NoErr
<1> QED
  BY <1>1, <1>9, <1>10, QuietFind

LEMMA ConcatGrows ==
    ASSUME NEW L \in Seq(EvId), NEW E \in Seq(EvId)
    PROVE  Len(L) <= Len(L \o E) /\ \A i \in 1..Len(L) : (L \o E)[i] = L[i]
<1>1. PICK M : M = L \o E
  OBVIOUS
<1>2. PICK a \in Nat, b \in Nat : a = Len(L) /\ b = Len(E)
  OBVIOUS
<1>3. /\ Len(M) = a + b
      /\ \A i \in 1..(a + b) : M[i] = IF i <= a THEN L[i] ELSE E[i - a]
  BY <1>1, <1>2, ConcatProperties
<1>4. a <= Len(M) /\ \A i \in 1..a : M[i] = L[i]
  BY <1>3
<1> QED
  BY <1>1, <1>2, <1>4

LEMMA JournalMoveHead ==
    ASSUME TypeInv, TypeInv', StoreInv, JournalInv, NEW c \in Clients,
           NEW h \in Histories, cl[c].h = h, cl[c].pc = "updateHead",
           NEW doc, doc.serial = HeadSerialUnspecified, MoveHead(c, h, doc)
    PROVE  JournalInv'
<1>1. /\ cl'[c].pc = "done" /\ cl'[c].err = NoErr /\ cl'[c].snap = cl[c].snap
      /\ OthersSame(c)
  BY FinishKept DEF MoveHead, OthersSame
<1>2. cl[c].snap.phase = "none"
  BY DEF JournalInv, FindInv, InCommit
<1>3. FindInv(cl[c])' /\ WholeCommits(cl[c])'
  BY <1>1, <1>2, DoneClient DEF NoErr, JournalErrors
<1>4. PICK L, E : /\ L = log[h] /\ L \in Seq(EvId)
                  /\ E = cl[c].evs /\ E \in Seq(EvId)
  BY ClientTyped
<1>5. /\ journal' = journal
      /\ log' = [log EXCEPT ![h] = L \o E]
      /\ refs' = [refs EXCEPT ![h] = doc]
  BY <1>4 DEF MoveHead
<1>6. PICK M : M = L \o E
  OBVIOUS
<1>7. Len(L) <= Len(M) /\ \A i \in 1..Len(L) : M[i] = L[i]
  BY <1>4, <1>6, ConcatGrows
<1>9. /\ log'[h] = M /\ refs'[h] = doc
      /\ \A g \in Histories : g # h => log'[g] = log[g] /\ refs'[g] = refs[g]
  BY <1>5, <1>6 DEF TypeInv, TypeOK
<1>10. Grows
  <2>1. ASSUME NEW g \in Histories
        PROVE  /\ Len(log[g]) <= Len(log'[g])
               /\ \A i \in 1..Len(log[g]) : log'[g][i] = log[g][i]
    <3>1. CASE g = h
      <4>1. log[g] = L /\ log'[g] = M
        BY <1>4, <1>9, <3>1
      <4> QED BY <1>7, <4>1
    <3>2. CASE g # h
      BY <1>9, <3>2, LogFacts
    <3> QED BY <3>1, <3>2
  <2> QED
    BY <1>5, <2>1 DEF Grows
<1>11. JournalIsPrefix'
  <2> SUFFICES ASSUME NEW g \in Histories, NEW e \in EvId, journal[g][e] # 0
               PROVE  /\ journal[g][e] <= Len(log'[g])
                      /\ log'[g][journal[g][e]] = e
                      /\ \A i \in 1..journal[g][e] : journal[g][log'[g][i]] = i
    <3>1. journal' = journal
      BY <1>5
    <3> QED BY <3>1 DEF JournalIsPrefix
  <2>1. /\ journal[g][e] <= Len(log[g])
        /\ log[g][journal[g][e]] = e
        /\ \A i \in 1..journal[g][e] : journal[g][log[g][i]] = i
    BY DEF JournalInv, JournalIsPrefix
  <2>2. /\ journal[g][e] \in Nat /\ Len(log[g]) \in Nat /\ Len(log'[g]) \in Nat
        /\ Len(log[g]) <= Len(log'[g])
        /\ \A i \in 1..Len(log[g]) : log'[g][i] = log[g][i]
    <3>1. Len(log'[g]) \in Nat
      BY DEF TypeInv, TypeOK
    <3> QED BY <1>10, <3>1, LogFacts DEF Grows
  <2>3. /\ \A i \in 1..journal[g][e] : i \in 1..Len(log[g])
        /\ journal[g][e] \in 1..journal[g][e]
        /\ journal[g][e] <= Len(log'[g])
    BY <2>1, <2>2
  <2> QED BY <2>1, <2>2, <2>3
<1>12. SerialIsOfHead'
  <2> SUFFICES ASSUME NEW g \in Histories, refs'[g].serial # HeadSerialUnspecified
               PROVE  /\ refs'[g].head \in EvId
                      /\ journal[g][refs'[g].head] = refs'[g].serial
    BY <1>5, Zenon DEF SerialIsOfHead
  <2>1. g # h
    BY <1>9
  <2> QED
    BY <1>9, <2>1 DEF JournalInv, SerialIsOfHead
<1> QED
  BY <1>1, <1>3, <1>10, <1>11, <1>12, JournalParts

LEMMA JournalStep ==
    TypeInv /\ TypeInv' /\ StoreInv /\ JournalInv /\ [Next]_vars => JournalInv'
<1> SUFFICES ASSUME TypeInv, TypeInv', StoreInv, JournalInv, [Next]_vars
             PROVE  JournalInv'
  OBVIOUS
<1>0. CASE UNCHANGED vars
  <2>1. JournalFrame
    BY <1>0 DEF JournalFrame, vars
  <2>2. JournalIsPrefix' /\ SerialIsOfHead' /\ Grows
    BY <2>1, JournalFramed DEF JournalInv
  <2>3. ASSUME NEW d \in Clients PROVE FindInv(cl[d])' /\ WholeCommits(cl[d])'
    BY <1>0, <2>2, ClientKept DEF vars, JournalInv
  <2> QED
    BY <2>2, <2>3 DEF JournalInv
<1>1. ASSUME NEW c \in Clients, ClientNext(c) PROVE JournalInv'
  <2> DEFINE s == cl[c]
  <2>0. s \in ClientState /\ s.h \in Histories /\ FindInv(s)
    BY ClientTyped DEF JournalInv
  <2>1. ASSUME JournalFrame, OthersSame(c), cl'[c].pc \in InCommit,
               cl'[c].snap.phase = "none", cl'[c].err = NoErr
        PROVE  JournalInv'
    BY <2>1, JournalFramed, CommitClient, JournalParts DEF JournalInv
  <2>2. ASSUME NEW e, Finish(c, e), UNCHANGED storeVars,
               s.pc \in InCommit, e \notin JournalErrors
        PROVE  JournalInv'
    <3>1. /\ cl'[c].pc = "done" /\ cl'[c].err = e /\ cl'[c].snap = s.snap
          /\ OthersSame(c)
      BY <2>2, FinishKept DEF OthersSame
    <3>2. FindInv(cl[c])' /\ WholeCommits(cl[c])'
      BY <2>0, <2>2, <3>1, DoneClient DEF FindInv
    <3> QED
      BY <2>2, <3>1, <3>2, QuietFind
  <2>3. ASSUME NEW h \in Histories, NEW vid \in KnownVids(h),
               NEW n \in 1..MaxBatch, CommitBegin(c, h, vid, n)
        PROVE  JournalInv'
    <3>1. PICK E : /\ cl'[c] = [NewCall(h) EXCEPT !.pc = "store", !.vid = vid,
                                                  !.evs = E]
                   /\ OthersSame(c)
      BY <2>3, OthersKept DEF CommitBegin, OthersSame
    <3>2. /\ cl'[c].pc = "store" /\ cl'[c].snap.phase = "none"
          /\ cl'[c].err = NoErr
      BY <3>1 DEF NewCall, NoRefs
    <3>3. JournalFrame
      BY <2>3 DEF CommitBegin, JournalFrame
    <3> QED
      BY <2>1, <3>1, <3>2, <3>3 DEF InCommit
  <2>4. ASSUME NEW h \in Histories, NEW vid \in KnownVids(h),
               DeleteRefs(c, h, vid)
        PROVE  JournalInv'
    <3>1. JournalFrame
      <4>1. CASE refs' = refs
        BY <2>4, <4>1 DEF DeleteRefs, JournalFrame
      <4>2. CASE refs' = [refs EXCEPT ![h].phase = "deleting"]
        <5>1. refs[h] \in RefsDoc
          BY DEF TypeInv, TypeOK
        <5>2. refs'[h] = [refs[h] EXCEPT !.phase = "deleting"]
          BY <4>2 DEF TypeInv, TypeOK
        <5>3. \A g \in Histories : g # h => refs'[g] = refs[g]
          BY <4>2 DEF TypeInv, TypeOK
        <5>4. refs'[h].head = refs[h].head /\ refs'[h].serial = refs[h].serial
          BY <5>1, <5>2 DEF RefsDoc
        <5> QED
          BY <2>4, <5>3, <5>4 DEF DeleteRefs, JournalFrame
      <4> QED
        BY <2>4, <4>1, <4>2 DEF DeleteRefs
    <3>2. CASE cl' = cl
      <4>1. s.pc = "idle"
        BY <2>4 DEF DeleteRefs
      <4>2. cl'[c].pc \in InCommit /\ OthersSame(c)
        BY <3>2, <4>1 DEF InCommit, OthersSame
      <4>3. cl'[c].snap.phase = "none" /\ cl'[c].err = NoErr
        BY <2>0, <3>2, <4>1 DEF FindInv, InCommit
      <4> QED
        BY <2>1, <3>1, <4>2, <4>3
    <3>3. CASE Goto(c, [NewCall(h) EXCEPT !.pc = "deleteConflict", !.vid = vid])
      <4>1. /\ cl'[c] = [NewCall(h) EXCEPT !.pc = "deleteConflict", !.vid = vid]
            /\ OthersSame(c)
        BY <3>3, OthersKept DEF OthersSame
      <4>2. /\ cl'[c].pc = "deleteConflict" /\ cl'[c].snap.phase = "none"
            /\ cl'[c].err = NoErr
        BY <4>1 DEF NewCall, NoRefs
      <4> QED
        BY <2>1, <3>1, <4>1, <4>2 DEF InCommit
    <3> QED
      BY <2>4, <3>2, <3>3 DEF DeleteRefs
  <2>5. CASE StoreEvent(c)
    <3>1. PICK k, pc : /\ pc \in {"store", "updateHead"}
                       /\ cl'[c] = [s EXCEPT !.n = k, !.pc = pc]
                       /\ OthersSame(c)
      BY <2>5, OthersKept DEF StoreEvent, OthersSame
    <3>2. cl'[c].pc = pc /\ cl'[c].snap = s.snap /\ cl'[c].err = s.err
      BY <2>0, <3>1 DEF ClientState
    <3>3. s.snap.phase = "none" /\ s.err = NoErr
      BY <2>0, <2>5 DEF StoreEvent, FindInv, InCommit
    <3>4. JournalFrame
      BY <2>5 DEF StoreEvent, JournalFrame
    <3> QED
      BY <2>1, <3>1, <3>2, <3>3, <3>4 DEF InCommit
  <2>6. CASE InsertHead(c)
    <3> DEFINE doc == [NoRefs EXCEPT !.head = s.evs[Len(s.evs)],
                                     !.phase = "active"]
    <3>0. s.pc = "updateHead" /\ doc.serial = HeadSerialUnspecified
      BY <2>6 DEF InsertHead, NoRefs
    <3>1. CASE MoveHead(c, s.h, doc)
      <4> HIDE DEF doc
      <4> QED BY <2>0, <3>0, <3>1, JournalMoveHead
    <3>2. CASE Finish(c, "InsertHeadError") /\ UNCHANGED storeVars
      BY <2>2, <3>0, <3>2 DEF InCommit, JournalErrors
    <3> QED
      BY <2>6, <3>1, <3>2 DEF InsertHead
  <2>7. CASE UpdateHead(c)
    <3> DEFINE doc == [refs[s.h] EXCEPT !.head = s.evs[Len(s.evs)],
                                        !.serial = HeadSerialUnspecified]
    <3>0. s.pc = "updateHead"
      BY <2>7 DEF UpdateHead
    <3>1. CASE MoveHead(c, s.h, doc)
      <4>1. doc.serial = HeadSerialUnspecified
        BY ClientTyped DEF RefsDoc
      <4> HIDE DEF doc
      <4> QED BY <2>0, <3>0, <3>1, <4>1, JournalMoveHead
    <3>2. CASE Goto(c, [s EXCEPT !.pc = "commitConflict"]) /\ UNCHANGED storeVars
      <4>1. cl'[c] = [s EXCEPT !.pc = "commitConflict"] /\ OthersSame(c)
        BY <3>2, OthersKept DEF OthersSame
      <4>2. /\ cl'[c].pc = "commitConflict" /\ cl'[c].snap = s.snap
            /\ cl'[c].err = s.err
        BY <2>0, <4>1 DEF ClientState
      <4>3. s.snap.phase = "none" /\ s.err = NoErr
        BY <2>0, <3>0 DEF FindInv, InCommit
      <4>4. JournalFrame
        BY <3>2 DEF storeVars, JournalFrame
      <4> QED
        BY <2>1, <4>1, <4>2, <4>3, <4>4 DEF InCommit
    <3> QED
      BY <2>7, <3>1, <3>2 DEF UpdateHead
  <2>8. CASE CommitConflict(c)
    BY <2>2, <2>8 DEF CommitConflict, InCommit, JournalErrors
  <2>9. CASE DeleteConflict(c)
    BY <2>2, <2>9 DEF DeleteConflict, InCommit, JournalErrors, NoErr
  <2>10. CASE Return(c) \/ Stop(c)
    <3>1. cl'[c] = Idle /\ OthersSame(c)
      BY <2>10, OthersKept DEF Return, Stop, OthersSame
    <3>2. Idle.pc = "idle" /\ Idle.snap.phase = "none" /\ Idle.err = NoErr
      BY DEF Idle, NewCall, NoRefs
    <3>3. JournalFrame
      BY <2>10 DEF Return, Stop, storeVars, JournalFrame
    <3> QED
      BY <2>1, <3>1, <3>2, <3>3 DEF InCommit
  <2> QED
    BY <1>1, <2>3, <2>4, <2>5, <2>6, <2>7, <2>8, <2>9, <2>10, JournalFindBegin,
       JournalWalkSerial, JournalWalkEvent, JournalInsertEntry, JournalSetSerial,
       JournalFindStart, JournalIterNext, JournalIterEnd
    DEF ClientNext, BeginCall, CallStep, CommitStep, FindStep
<1> QED
  BY <1>0, <1>1 DEF Next

LEMMA JournalInitial == Init => JournalInv
<1> SUFFICES ASSUME Init PROVE JournalInv
  OBVIOUS
<1>1. JournalIsPrefix
  BY DEF Init, JournalIsPrefix
<1>2. SerialIsOfHead
  BY DEF Init, SerialIsOfHead, NoRefs, HeadSerialUnspecified
<1>3. ASSUME NEW c \in Clients PROVE FindInv(cl[c]) /\ WholeCommits(cl[c])
  <2>1. cl[c].pc = "idle" /\ cl[c].snap.phase = "none" /\ cl[c].err = NoErr
    BY DEF Init, Idle, NewCall, NoRefs
  <2> QED
    BY <2>1 DEF FindInv, WholeCommits, InFind, NoErr, JournalErrors
<1> QED
  BY <1>1, <1>2, <1>3 DEF JournalInv

\* The parts of the inductive invariant together.
IInv == TypeInv /\ StoreInv /\ JournalInv

LEMMA Inductive == Spec => []IInv
<1>1. Init => IInv
  BY TypeInitial, StoreInitial, JournalInitial DEF IInv
<1>2. IInv /\ [Next]_vars => IInv'
  BY TypeStep, StoreStep, JournalStep DEF IInv
<1> QED
  BY <1>1, <1>2, PTL DEF Spec

\* Concurrent calls of ensureJournal() never put an event at a wrong position,
\* leave a gap, or record a serial of another head than the current one.
THEOREM JournalAgreesWithLog == Spec => [](JournalIsPrefix /\ SerialIsOfHead)
<1>1. IInv => JournalIsPrefix /\ SerialIsOfHead
  BY DEF IInv, JournalInv
<1> QED
  BY <1>1, Inductive, PTL

\* The errors by which ensureJournal() and the iterator would report an
\* inconsistent journal cannot happen.
THEOREM JournalErrorsImpossible == Spec => []NoJournalError
<1>1. IInv => NoJournalError
  BY DEF IInv, JournalInv, FindInv, NoJournalError
<1> QED
  BY <1>1, Inductive, PTL

\* What Find() returns are the committed events from the version asked for to
\* a head that the history has had.
THEOREM FindIsExact == Spec => []FindReturnsWholeCommits
<1>1. IInv => FindReturnsWholeCommits
  BY Zenon DEF IInv, JournalInv, WholeCommits, FindReturnsWholeCommits
<1> QED
  BY <1>1, Inductive, PTL

-----------------------------------------------------------------------------
(***************************************************************************)
(* The database implements EventLog.  The events of a history are found    *)
(* along the parent pointers, by a recursive function.  The library's      *)
(* theorems on recursive functions and induction have operators as         *)
(* parameters; both are derived here from the least number principle,      *)
(* stated with a set of numbers.                                           *)
(***************************************************************************)

\* Every non-empty set of natural numbers has a least element.
LEMMA LeastNumber ==
    ASSUME NEW S \in SUBSET Nat, S # {}
    PROVE  \E n \in S : \A m \in S : n <= m
<1> DEFINE R == OpToRel(<, Nat)
<1>1. IsWellFoundedOn(R, Nat)
  BY NatLessThanWellFounded
<1>2. \A x, y \in Nat : x < y => <<x, y>> \in R
  BY DEF OpToRel
<1> HIDE DEF R
<1>3. PICK x \in S : \A y \in S : ~ (<<y, x>> \in R)
  BY <1>1, WFMin
<1>4. ASSUME NEW y \in S PROVE x <= y
  <2>1. x \in Nat /\ y \in Nat
    OBVIOUS
  <2>2. ~(y < x)
    BY <2>1, <1>2, <1>3
  <2> QED
    BY <2>1, <2>2
<1> QED
  BY <1>3, <1>4

\* There is a function as Path() describes it, since parents are older than
\* their children: the events up to n for which there is one have no least
\* exception.
LEMMA PathExists ==
    ASSUME NEW N \in Nat, NEW p \in [1..N -> 0..N],
           \A e \in 1..N : p[e] < e
    PROVE  \E g : g = [e \in 0..N |-> IF e = 0 THEN << >>
                                      ELSE Append(g[p[e]], e)]
<1> DEFINE V == Seq(1..N)
<1> DEFINE Good(n) == \E g \in [0..n -> V] :
      \A e \in 0..n : g[e] = IF e = 0 THEN << >> ELSE Append(g[p[e]], e)
<1> DEFINE Bad == {n \in 0..N : ~Good(n)}
<1>1. ASSUME NEW n \in Bad, \A m \in Bad : n <= m PROVE FALSE
  <2>0. n \in 0..N /\ ~Good(n)
    OBVIOUS
  <2>1. CASE n = 0
    <3> DEFINE g == [e \in {0} |-> << >>]
    <3>1. 0..0 = {0}
      OBVIOUS
    <3>2. << >> \in V
      OBVIOUS
    <3>3. g \in [0..0 -> V]
      BY <3>1, <3>2
    <3>4. \A e \in 0..0 : g[e] = IF e = 0 THEN << >> ELSE Append(g[p[e]], e)
      BY <3>1
    <3>5. Good(0)
      BY <3>3, <3>4
    <3> QED
      BY <2>0, <2>1, <3>5
  <2>2. CASE n # 0
    <3>1. n - 1 \in 0..N /\ n - 1 \notin Bad /\ n \in 1..N
      <4>1. n - 1 \in 0..N /\ n \in 1..N /\ ~(n <= n - 1)
        BY <2>0, <2>2
      <4> HIDE DEF Bad
      <4> QED
        BY <4>1, <1>1
    <3>2. Good(n - 1)
      BY <3>1
    <3>3. PICK g \in [0..n-1 -> V] :
            \A e \in 0..n-1 : g[e] = IF e = 0 THEN << >> ELSE Append(g[p[e]], e)
      BY <3>2
    <3>4. p[n] \in 0..n-1
      BY <3>1
    <3> DEFINE f == [e \in 0..n |-> IF e = n THEN Append(g[p[n]], n) ELSE g[e]]
    <3>5. f[n] = Append(g[p[n]], n) /\ \A e \in 0..n-1 : f[e] = g[e]
      BY <3>1
    <3>6. Append(g[p[n]], n) \in V
      BY <3>1, <3>3, <3>4
    <3>7. f \in [0..n -> V]
      <4> HIDE DEF V
      <4> QED
        BY <3>6, <3>3, <3>1
    <3>8. ASSUME NEW e \in 0..n
          PROVE  f[e] = IF e = 0 THEN << >> ELSE Append(f[p[e]], e)
      <4>1. CASE e = n
        <5>1. f[p[n]] = g[p[n]]
          BY <3>4, <3>5
        <5> HIDE DEF f
        <5> QED
          BY <5>1, <2>2, <4>1, <3>5
      <4>2. CASE e # n /\ e # 0
        <5>1. e \in 0..n-1 /\ e \in 1..N /\ p[e] \in 0..n-1
          BY SMTT(30), <4>2, <3>1
        <5>2. f[e] = g[e] /\ f[p[e]] = g[p[e]]
          BY <5>1, <3>5
        <5> QED
          BY <5>1, <5>2, <4>2, <3>3
      <4>3. CASE e = 0 /\ e # n
        BY <4>3, <3>3, <3>5, <3>1
      <4> QED
        BY <4>1, <4>2, <4>3
    <3>9. Good(n)
      BY <3>7, <3>8
    <3> QED
      BY <3>9, <2>0
  <2> QED
    BY <2>1, <2>2
<1>2. Bad = {}
  <2>1. Bad \in SUBSET Nat
    OBVIOUS
  <2> HIDE DEF Bad
  <2> QED
    BY <2>1, <1>1, LeastNumber
<1>3. Good(N)
  <2>1. N \in 0..N
    OBVIOUS
  <2> HIDE DEF Good
  <2> QED
    BY <1>2, <2>1
<1>4. PICK g \in [0..N -> V] :
        \A e \in 0..N : g[e] = IF e = 0 THEN << >> ELSE Append(g[p[e]], e)
  BY <1>3
<1>5. g = [e \in 0..N |-> IF e = 0 THEN << >> ELSE Append(g[p[e]], e)]
  BY <1>4
<1> QED
  BY <1>5

\* Path() satisfies its equation.
LEMMA PathEquation ==
    ASSUME NEW p \in [EvId -> Vid], \A e \in EvId : p[e] < e
    PROVE  /\ Path(p)[EventEpoch] = << >>
           /\ \A e \in EvId : Path(p)[e] = Append(Path(p)[p[e]], e)
<1>1. \E g : g = [e \in Vid |-> IF e = EventEpoch THEN << >>
                                ELSE Append(g[p[e]], e)]
  BY JournalAssumption, PathExists DEF Vid, EvId, EventEpoch
<1> DEFINE to == CHOOSE g : g = [e \in Vid |-> IF e = EventEpoch THEN << >>
                                               ELSE Append(g[p[e]], e)]
<1>2. to = [e \in Vid |-> IF e = EventEpoch THEN << >>
                          ELSE Append(to[p[e]], e)]
  BY <1>1
<1>3. Path(p) = to
  BY DEF Path
<1> HIDE DEF to
<1>4. EventEpoch \in Vid /\ \A e \in EvId : e \in Vid /\ e # EventEpoch
  BY JournalAssumption DEF Vid, EvId, EventEpoch
<1> QED
  BY <1>2, <1>3, <1>4

\* The path to the last event of a chain is the chain.
LEMMA PathOfChain ==
    ASSUME NEW p \in [EvId -> Vid], \A e \in EvId : p[e] < e,
           NEW L \in Seq(EvId), NEW S, NEW nid, IsChain(L, p, S, nid)
    PROVE  Path(p)[Before(L, Len(L) + 1)] = L
<1> DEFINE Bad == {i \in 0..Len(L) :
                     Path(p)[Before(L, i + 1)] # SubSeq(L, 1, i)}
<1>0. Len(L) \in Nat /\ \A i \in 1..Len(L) : L[i] \in EvId
  BY ElementOfSeq
<1>1. ASSUME NEW n \in Bad, \A m \in Bad : n <= m PROVE FALSE
  <2>0. n \in 0..Len(L) /\ Path(p)[Before(L, n + 1)] # SubSeq(L, 1, n)
    OBVIOUS
  <2>1. CASE n = 0
    <3>1. Before(L, n + 1) = EventEpoch
      BY <2>1 DEF Before
    <3>2. SubSeq(L, 1, n) = << >>
      BY <2>1
    <3> QED
      BY <2>0, <3>1, <3>2, PathEquation
  <2>2. CASE n # 0
    <3>1. n - 1 \in 0..Len(L) /\ n \in 1..Len(L) /\ n \in Nat /\ ~(n <= n - 1)
      BY <1>0, <2>0, <2>2
    <3>2. n - 1 \notin Bad
      <4> HIDE DEF Bad
      <4> QED
        BY <3>1, <1>1
    <3>3. Path(p)[Before(L, (n - 1) + 1)] = SubSeq(L, 1, n - 1)
      BY <3>1, <3>2
    <3>4. (n - 1) + 1 = n /\ Before(L, n + 1) = L[n]
      BY <3>1 DEF Before
    <3>5. p[L[n]] = Before(L, n) /\ L[n] \in EvId
      BY <1>0, <3>1 DEF IsChain
    <3>6. Path(p)[L[n]] = Append(Path(p)[p[L[n]]], L[n])
      BY <3>5, PathEquation
    <3>7. Path(p)[L[n]] = Append(SubSeq(L, 1, n - 1), L[n])
      BY <3>3, <3>4, <3>5, <3>6
    <3>8. Append(SubSeq(L, 1, n - 1), L[n]) = SubSeq(L, 1, n)
      BY <1>0, <3>1
    <3> QED
      BY <2>0, <3>4, <3>7, <3>8
  <2> QED
    BY <2>1, <2>2
<1>2. Bad = {}
  <2>1. Bad \in SUBSET Nat
    BY <1>0
  <2> HIDE DEF Bad
  <2> QED
    BY <2>1, <1>1, LeastNumber
<1>3. Len(L) \in 0..Len(L)
  BY <1>0
<1>4. Path(p)[Before(L, Len(L) + 1)] = SubSeq(L, 1, Len(L))
  BY <1>2, <1>3
<1>5. SubSeq(L, 1, Len(L)) = L
  BY <1>0
<1> QED
  BY <1>4, <1>5

(***************************************************************************)
(* Which steps of the database are steps of the log: the move of a head,   *)
(* and the update that marks a history as being deleted.                   *)
(***************************************************************************)

\* The calls that own events which are not committed yet.
Committing(c) == cl[c].pc \in {"store", "updateHead"}

\* The events that a call has created or walked through, and those of a log.
EventsOf(c) == {cl[c].evs[i] : i \in 1..Len(cl[c].evs)}
LogEvents(h) == {log[h][i] : i \in 1..Len(log[h])}

\* Steps of client c that change neither the chains nor the phases: finds, and
\* calls that end.
QuietStep(c) ==
    /\ UNCHANGED <<nextId, parent, stored, log, heads>>
    /\ \A h \in Histories :
          /\ refs'[h].head = refs[h].head
          /\ refs'[h].tail = refs[h].tail
          /\ refs'[h].epoch = refs[h].epoch
          /\ refs'[h].phase = refs[h].phase
          /\ refs[h].phase # "active" => refs'[h] = refs[h]
    /\ \A h \in Histories : \A e \in EvId :
          \/ journal'[h][e] = journal[h][e]
          \/ cl[c].pc = "insert" /\ h = cl[c].h /\ e \in EventsOf(c)
    /\ OthersSame(c)
    /\ ~Committing(c)'

DeleteStep(h) ==
    /\ UNCHANGED <<nextId, parent, stored, journal, log, heads, cl>>
    /\ refs[h].phase = "active"
    /\ refs'[h] = [refs[h] EXCEPT !.phase = "deleting"]
    /\ refs'[h].phase = "deleting"
    /\ refs'[h].head = refs[h].head
    /\ refs'[h].tail = refs[h].tail
    /\ refs'[h].epoch = refs[h].epoch
    /\ \A g \in Histories : g # h => refs'[g] = refs[g]

\* Client c moves the head of history h, whose last event is what it expects.
HeadStep(c, h) ==
    /\ h = cl[c].h
    /\ cl[c].pc = "updateHead"
    /\ \/ /\ refs[h].phase = "none" /\ cl[c].vid = EventEpoch
          /\ refs'[h].tail = EventEpoch /\ refs'[h].epoch = EventEpoch
       \/ /\ refs[h].phase = "active" /\ cl[c].vid = refs[h].head
          /\ refs'[h].tail = refs[h].tail /\ refs'[h].epoch = refs[h].epoch
    /\ refs'[h].phase = "active"
    /\ refs'[h].head = cl[c].evs[Len(cl[c].evs)]
    /\ \A g \in Histories : g # h => refs'[g] = refs[g]
    /\ log' = [log EXCEPT ![h] = @ \o cl[c].evs]
    /\ heads' = [heads EXCEPT ![h] = @ \cup {refs'[h].head}]
    /\ UNCHANGED <<nextId, parent, stored, journal>>
    /\ cl'[c].pc = "done"
    /\ OthersSame(c)

StoreStepOf(c) ==
    /\ UNCHANGED <<nextId, parent, refs, journal, log, heads>>
    /\ cl[c].pc = "store"
    /\ stored' = stored \cup {cl[c].evs[cl[c].n + 1]}
    /\ cl'[c].evs = cl[c].evs
    /\ cl'[c].vid = cl[c].vid
    /\ cl'[c].n = cl[c].n + 1
    /\ cl'[c].pc = IF cl[c].n + 1 = Len(cl[c].evs) THEN "updateHead" ELSE "store"
    /\ OthersSame(c)

\* Every step of a client is of one of these kinds.
LEMMA ClientKinds ==
    ASSUME TypeInv, NEW c \in Clients, ClientNext(c)
    PROVE  \/ QuietStep(c)
           \/ \E h \in Histories : DeleteStep(h)
           \/ \E h \in Histories : HeadStep(c, h)
           \/ StoreStepOf(c)
           \/ \E h \in Histories : \E vid \in KnownVids(h) :
                 \E n \in 1..MaxBatch : CommitBegin(c, h, vid, n)
<1> DEFINE s == cl[c]
<1>0. s \in ClientState /\ s.h \in Histories /\ refs[s.h] \in RefsDoc
  BY ClientTyped
<1>1. ASSUME UNCHANGED storeVars, OthersSame(c),
             cl'[c].pc \notin {"store", "updateHead"}
      PROVE  QuietStep(c)
  BY <1>1 DEF storeVars, QuietStep, Committing
<1>2. ASSUME NEW e, Finish(c, e), UNCHANGED storeVars PROVE QuietStep(c)
  BY <1>1, <1>2, FinishKept DEF OthersSame
<1>3. ASSUME NEW t, Goto(c, t), t.pc \notin {"store", "updateHead"},
             UNCHANGED storeVars
      PROVE  QuietStep(c)
  BY <1>1, <1>3, OthersKept DEF OthersSame
<1>4. ASSUME NEW h \in Histories, NEW vid \in KnownVids(h),
             DeleteRefs(c, h, vid)
      PROVE  QuietStep(c) \/ DeleteStep(h)
  <2>1. CASE Goto(c, [NewCall(h) EXCEPT !.pc = "deleteConflict", !.vid = vid])
             /\ UNCHANGED refs
    <3>1. [NewCall(h) EXCEPT !.pc = "deleteConflict", !.vid = vid].pc
            = "deleteConflict"
      BY DEF NewCall
    <3>2. UNCHANGED storeVars
      BY <1>4, <2>1 DEF DeleteRefs, storeVars
    <3> QED
      BY <1>3, <2>1, <3>1, <3>2
  <2>2. CASE /\ IsActive(h) /\ UNCHANGED cl
             /\ refs' = [refs EXCEPT ![h].phase = "deleting"]
    <3>1. refs[h] \in RefsDoc /\ refs[h].phase = "active"
      BY <2>2 DEF TypeInv, TypeOK, IsActive
    <3>2. refs'[h] = [refs[h] EXCEPT !.phase = "deleting"]
      BY <2>2 DEF TypeInv, TypeOK
    <3>3. \A g \in Histories : g # h => refs'[g] = refs[g]
      BY <2>2 DEF TypeInv, TypeOK
    <3>4. /\ refs'[h].phase = "deleting" /\ refs'[h].head = refs[h].head
          /\ refs'[h].tail = refs[h].tail /\ refs'[h].epoch = refs[h].epoch
      BY <3>1, <3>2 DEF RefsDoc
    <3> QED
      BY <1>4, <2>2, <3>1, <3>2, <3>3, <3>4 DEF DeleteStep, DeleteRefs
  <2> QED
    BY <1>4, <2>1, <2>2 DEF DeleteRefs
<1>5. ASSUME NEW doc, MoveHead(c, s.h, doc)
      PROVE  /\ refs'[s.h] = doc
             /\ \A g \in Histories : g # s.h => refs'[g] = refs[g]
             /\ log' = [log EXCEPT ![s.h] = @ \o s.evs]
             /\ heads' = [heads EXCEPT ![s.h] = @ \cup {doc.head}]
             /\ UNCHANGED <<nextId, parent, stored, journal>>
             /\ cl'[c].pc = "done" /\ OthersSame(c)
  <2>1. refs'[s.h] = doc /\ \A g \in Histories : g # s.h => refs'[g] = refs[g]
    BY <1>0, <1>5 DEF MoveHead, TypeInv, TypeOK
  <2>2. cl'[c].pc = "done" /\ OthersSame(c)
    BY <1>5, FinishKept DEF MoveHead, OthersSame
  <2> QED
    BY <1>5, <2>1, <2>2 DEF MoveHead
<1>6. CASE InsertHead(c)
  <2> DEFINE doc == [NoRefs EXCEPT !.head = s.evs[Len(s.evs)],
                                   !.phase = "active"]
  <2>1. /\ doc.phase = "active" /\ doc.head = s.evs[Len(s.evs)]
        /\ doc.tail = EventEpoch /\ doc.epoch = EventEpoch
    BY DEF NoRefs
  <2>2. CASE refs[s.h].phase = "none" /\ MoveHead(c, s.h, doc)
    <3>1. s.pc = "updateHead" /\ s.vid = EventEpoch
      BY <1>6 DEF InsertHead
    <3> HIDE DEF doc
    <3>2. HeadStep(c, s.h)
      BY <1>5, <2>1, <2>2, <3>1 DEF HeadStep
    <3> QED
      BY <1>0, <3>2
  <2> HIDE DEF doc
  <2> QED
    BY <1>2, <1>6, <2>2 DEF InsertHead, doc
<1>7. CASE UpdateHead(c)
  <2> DEFINE doc == [refs[s.h] EXCEPT !.head = s.evs[Len(s.evs)],
                                      !.serial = HeadSerialUnspecified]
  <2>1. CASE IsActive(s.h) /\ refs[s.h].head = s.vid /\ MoveHead(c, s.h, doc)
    <3>1. /\ doc.phase = "active" /\ refs[s.h].phase = "active"
          /\ doc.head = s.evs[Len(s.evs)]
          /\ doc.tail = refs[s.h].tail /\ doc.epoch = refs[s.h].epoch
      BY <1>0, <2>1 DEF RefsDoc, IsActive
    <3>2. s.pc = "updateHead"
      BY <1>7 DEF UpdateHead
    <3> HIDE DEF doc
    <3>3. HeadStep(c, s.h)
      BY <1>5, <2>1, <3>1, <3>2 DEF HeadStep
    <3> QED
      BY <1>0, <3>3
  <2>2. CASE Goto(c, [s EXCEPT !.pc = "commitConflict"]) /\ UNCHANGED storeVars
    <3>1. [s EXCEPT !.pc = "commitConflict"].pc = "commitConflict"
      BY <1>0 DEF ClientState
    <3> QED
      BY <1>3, <2>2, <3>1
  <2> QED
    BY <1>7, <2>1, <2>2 DEF UpdateHead
<1>8. CASE StoreEvent(c)
  <2>1. PICK pc, k : /\ pc = IF s.n + 1 = Len(s.evs) THEN "updateHead"
                             ELSE "store"
                     /\ k = s.n + 1
    OBVIOUS
  <2>2. cl'[c] = [s EXCEPT !.n = k, !.pc = pc]
    BY <1>8, <2>1, OthersKept, Zenon DEF StoreEvent
  <2>3. /\ cl'[c].evs = s.evs /\ cl'[c].n = k /\ cl'[c].vid = s.vid
        /\ cl'[c].pc = pc
    BY <1>0, <2>2 DEF ClientState
  <2>4. OthersSame(c)
    BY <1>8, OthersKept, Zenon DEF StoreEvent, OthersSame
  <2> QED
    BY <1>8, <2>1, <2>3, <2>4 DEF StoreEvent, StoreStepOf
<1>9. CASE CommitConflict(c) \/ DeleteConflict(c) \/ IterEnd(c)
  BY <1>2, <1>9 DEF CommitConflict, DeleteConflict, IterEnd
<1>10. ASSUME NEW h \in Histories, NEW vid \in KnownVids(h),
              FindBegin(c, h, vid)
       PROVE  QuietStep(c)
  BY <1>1, <1>10, FindBeginEffect
<1>11. CASE WalkSerial(c)
  BY <1>1, <1>11, WalkSerialEffect
<1>12. CASE WalkEvent(c)
  BY <1>1, <1>12, WalkEventEffect
<1>13. CASE InsertEntry(c)
  <2>1. /\ cl'[c].pc \in {"insert", "done"} /\ OthersSame(c)
        /\ s.pc = "insert" /\ s.n > 0
        /\ UNCHANGED <<nextId, parent, stored, refs, log, heads>>
    BY <1>13, InsertEntryEffect
  <2>2. \/ journal' = journal
        \/ journal' = [journal EXCEPT ![s.h][s.evs[s.n]] = s.serial + 1]
    BY <1>13, InsertEntryEffect
  <2>3. s.evs[s.n] \in EventsOf(c)
    <3>1. s.n \in 1..Len(s.evs)
      BY <2>1, ClientTyped DEF Bounds
    <3> QED
      BY <3>1 DEF EventsOf
  <2>4. \A h \in Histories : \A e \in EvId :
           journal'[h][e] = journal[h][e] \/ (h = s.h /\ e \in EventsOf(c))
    <3>1. PICK x, y : x = s.evs[s.n] /\ y = s.serial + 1
      OBVIOUS
    <3>2. journal \in [Histories -> [EvId -> Nat]]
      BY DEF TypeInv, TypeOK
    <3>3. CASE journal' = [journal EXCEPT ![s.h][x] = y]
      <4>1. \A h \in Histories : \A e \in EvId :
               h # s.h \/ e # x => journal'[h][e] = journal[h][e]
        BY <3>2, <3>3
      <4> QED
        BY <2>3, <3>1, <4>1
    <3> QED
      BY <2>2, <3>1, <3>3
  <2> QED
    BY <2>1, <2>4 DEF QuietStep, Committing
<1>14. CASE SetSerial(c)
  <2>1. /\ cl'[c].pc = "start" /\ OthersSame(c)
        /\ UNCHANGED <<nextId, parent, stored, journal, log, heads>>
    BY <1>14, SetSerialEffect
  <2>2. \A g \in Histories : /\ refs'[g].head = refs[g].head
                             /\ refs'[g].tail = refs[g].tail
                             /\ refs'[g].epoch = refs[g].epoch
                             /\ refs'[g].phase = refs[g].phase
    BY <1>14, SetSerialEffect
  <2>3. \A g \in Histories : refs[g].phase # "active" => refs'[g] = refs[g]
    BY <1>14 DEF SetSerial, IsActive, TypeInv, TypeOK
  <2> QED
    BY <2>1, <2>2, <2>3 DEF QuietStep, Committing
<1>15. CASE FindStart(c)
  BY <1>1, <1>15, FindStartEffect
<1>16. CASE IterNext(c)
  <2>1. /\ cl'[c].pc \in {"iter", "done"} /\ OthersSame(c)
        /\ UNCHANGED storeVars
    BY <1>16, IterNextEffect
  <2> QED
    BY <1>1, <2>1
<1>17. CASE Return(c) \/ Stop(c)
  BY <1>3, <1>17, IdleTyped DEF Return, Stop
<1> QED
  BY <1>0, <1>4, <1>6, <1>7, <1>8, <1>9, <1>10, <1>11, <1>12, <1>13,
     <1>14, <1>15, <1>16, <1>17
  DEF ClientNext, BeginCall, CallStep, CommitStep, FindStep

(***************************************************************************)
(* Events that are not committed yet belong to one call.                   *)
(***************************************************************************)

FreshInv ==
    /\ \A e \in EvId : parent[e] < e
    /\ \A h \in Histories : refs[h].phase = "none" => refs[h].head = EventEpoch
    /\ \A c \in Clients : Committing(c) =>
          /\ Len(cl[c].evs) \in 1..MaxBatch
          /\ \A h \in Histories : EventsOf(c) \cap LogEvents(h) = {}
          /\ \A d \in Clients :
                d # c /\ Committing(d) => EventsOf(c) \cap EventsOf(d) = {}

\* Ids that are given out later are greater.
OldEvents ==
    /\ \A h \in Histories : \A e \in LogEvents(h) : e < nextId
    /\ \A h \in Histories : \A v \in heads[h] : v < nextId
    /\ \A c \in Clients : Committing(c) => \A e \in EventsOf(c) : e < nextId

\* Events of logs and of commits in flight have ids that have been given out.
LEMMA EventsAreOld == TypeInv /\ StoreInv => OldEvents
<1> SUFFICES ASSUME TypeInv, StoreInv PROVE OldEvents
  OBVIOUS
<1>1. ASSUME NEW h \in Histories, NEW e \in LogEvents(h) PROVE e < nextId
  BY DEF StoreInv, IsChain, LogEvents
<1>2. ASSUME NEW c \in Clients, Committing(c), NEW e \in EventsOf(c)
      PROVE  e < nextId
  BY <1>2 DEF StoreInv, CommitInv, IsBatch, EventsOf, Committing
<1>3. ASSUME NEW h \in Histories, NEW v \in heads[h] PROVE v < nextId
  <2>1. PICK i \in 1..Len(log[h]) : log[h][i] = v
    BY <1>3 DEF StoreInv, RefsInv
  <2> QED
    BY <2>1 DEF StoreInv, IsChain
<1> QED
  BY <1>1, <1>2, <1>3 DEF OldEvents

\* What keeps FreshInv: the same chains, and no call has other events.
LEMMA FreshKept ==
    ASSUME FreshInv, UNCHANGED <<parent, log>>,
           \A h \in Histories :
              refs'[h].phase = "none" =>
                 refs[h].phase = "none" /\ refs'[h].head = refs[h].head,
           \A d \in Clients : Committing(d)' =>
              Committing(d) /\ cl'[d].evs = cl[d].evs
    PROVE  FreshInv'
<1>1. \A h \in Histories : LogEvents(h)' = LogEvents(h)
  BY DEF LogEvents
<1>2. \A d \in Clients : Committing(d)' =>
         /\ Committing(d) /\ EventsOf(d)' = EventsOf(d)
         /\ Len(cl[d].evs)' = Len(cl[d].evs)
  BY DEF EventsOf
<1>3. \A h \in Histories :
         refs'[h].phase = "none" => refs'[h].head = EventEpoch
  BY DEF FreshInv
<1>4. ASSUME NEW c \in Clients, Committing(c)'
      PROVE  /\ Len(cl'[c].evs) \in 1..MaxBatch
             /\ \A h \in Histories : EventsOf(c)' \cap LogEvents(h)' = {}
             /\ \A d \in Clients : d # c /\ Committing(d)' =>
                   EventsOf(c)' \cap EventsOf(d)' = {}
  BY <1>1, <1>2, <1>4 DEF FreshInv
<1>5. \A e \in EvId : parent'[e] < e
  BY DEF FreshInv
<1> QED
  BY <1>3, <1>4, <1>5 DEF FreshInv

LEMMA FreshCommitBegin ==
    ASSUME TypeInv, OldEvents, FreshInv, NEW c \in Clients, NEW h \in Histories,
           NEW vid \in KnownVids(h), NEW n \in 1..MaxBatch,
           CommitBegin(c, h, vid, n)
    PROVE  FreshInv'
<1>1. /\ nextId \in Nat /\ n \in Nat /\ n >= 1
      /\ nextId >= 1 /\ nextId + n <= MaxEvents + 1
      /\ UNCHANGED <<stored, refs, journal, log, heads>>
  BY JournalAssumption DEF CommitBegin, TypeInv, TypeOK
<1> DEFINE E == [i \in 1..n |-> nextId + i - 1]
<1>2. cl'[c] = [NewCall(h) EXCEPT !.pc = "store", !.vid = vid, !.evs = E]
  BY OthersKept DEF CommitBegin
<1>3. cl'[c].evs = E /\ OthersSame(c)
  <2>1. OthersSame(c)
    BY OthersKept DEF CommitBegin, OthersSame
  <2> HIDE DEF E
  <2> QED BY <1>2, <2>1 DEF NewCall
<1>4. Len(E) = n /\ \A i \in 1..n : E[i] >= nextId
  BY <1>1
<1> HIDE DEF E
<1>5. Len(cl'[c].evs) = n /\ \A e \in EventsOf(c)' : e >= nextId
  BY <1>3, <1>4 DEF EventsOf
<1>6. vid < nextId
  <2>1. CASE vid = EventEpoch
    BY <1>1, <2>1 DEF EventEpoch
  <2>2. CASE vid \in heads[h]
    BY <2>2 DEF OldEvents
  <2> QED
    BY <2>1, <2>2 DEF KnownVids
<1>7. ASSUME NEW e \in EvId PROVE parent'[e] < e
  <2>1. CASE e \notin nextId..(nextId + n - 1)
    BY <2>1 DEF CommitBegin, FreshInv
  <2>2. CASE e = nextId
    BY <1>1, <1>6, <2>2 DEF CommitBegin
  <2>3. CASE e \in nextId..(nextId + n - 1) /\ e # nextId
    BY <1>1, <2>3 DEF CommitBegin, EvId
  <2> QED
    BY <2>1, <2>2, <2>3
<1>8. \A g \in Histories :
         /\ LogEvents(g)' = LogEvents(g)
         /\ \A e \in LogEvents(g) : e < nextId /\ e \in Nat
  <2>1. \A g \in Histories : LogEvents(g)' = LogEvents(g)
    BY <1>1 DEF LogEvents
  <2>2. ASSUME NEW g \in Histories, NEW e \in LogEvents(g) PROVE e \in Nat
    <3>1. log[g] \in Seq(EvId)
      BY DEF TypeInv, TypeOK
    <3>2. e \in EvId
      BY <3>1 DEF LogEvents
    <3> QED
      BY <3>2 DEF EvId
  <2> QED
    BY <2>1, <2>2 DEF OldEvents
<1>9. \A d \in Clients : d # c =>
         /\ Committing(d)' = Committing(d)
         /\ EventsOf(d)' = EventsOf(d)
         /\ Len(cl'[d].evs) = Len(cl[d].evs)
         /\ Committing(d) => \A e \in EventsOf(d) : e < nextId /\ e \in Nat
  <2>1. ASSUME NEW d \in Clients, NEW e \in EventsOf(d) PROVE e \in Nat
    <3>1. cl[d].evs \in Seq(EvId)
      BY ClientTyped
    <3>2. e \in EvId
      BY <3>1 DEF EventsOf
    <3> QED
      BY <3>2 DEF EvId
  <2>2. \A d \in Clients : d # c => cl'[d] = cl[d]
    BY <1>3 DEF OthersSame
  <2> QED
    BY <2>1, <2>2 DEF OldEvents, Committing, EventsOf
<1>10. \A e \in EventsOf(c)' : \A f \in Nat : f < nextId => e # f
  BY <1>1, <1>5
<1>11. ASSUME NEW d \in Clients, Committing(d)'
       PROVE  /\ Len(cl'[d].evs) \in 1..MaxBatch
              /\ \A g \in Histories : EventsOf(d)' \cap LogEvents(g)' = {}
              /\ \A b \in Clients : b # d /\ Committing(b)' =>
                    EventsOf(d)' \cap EventsOf(b)' = {}
  <2>1. CASE d = c
    <3>1. \A g \in Histories : EventsOf(c)' \cap LogEvents(g)' = {}
      BY <1>8, <1>10
    <3>2. \A b \in Clients : b # c /\ Committing(b)' =>
             EventsOf(c)' \cap EventsOf(b)' = {}
      BY <1>9, <1>10
    <3> QED
      BY <1>5, <2>1, <3>1, <3>2
  <2>2. CASE d # c
    <3>1. Committing(d) /\ EventsOf(d)' = EventsOf(d)
      BY <1>9, <1>11, <2>2
    <3>2. \A g \in Histories : EventsOf(d)' \cap LogEvents(g)' = {}
      BY <1>8, <3>1 DEF FreshInv
    <3>3. EventsOf(d)' \cap EventsOf(c)' = {}
      BY <1>9, <1>10, <2>2, <3>1
    <3>4. \A b \in Clients : b # d /\ b # c /\ Committing(b)' =>
             EventsOf(d)' \cap EventsOf(b)' = {}
      BY <1>9, <3>1 DEF FreshInv
    <3>5. Len(cl'[d].evs) \in 1..MaxBatch
      BY <1>9, <2>2, <3>1 DEF FreshInv
    <3> QED
      BY <3>2, <3>3, <3>4, <3>5
  <2> QED
    BY <2>1, <2>2
<1>12. \A g \in Histories : refs'[g].phase = "none" => refs'[g].head = EventEpoch
  BY <1>1 DEF FreshInv
<1> QED
  BY <1>7, <1>11, <1>12 DEF FreshInv

\* The events of a concatenation are those of its parts.
LEMMA ConcatEvents ==
    ASSUME NEW L \in Seq(EvId), NEW E \in Seq(EvId)
    PROVE  {(L \o E)[i] : i \in 1..Len(L \o E)}
             = {L[i] : i \in 1..Len(L)} \cup {E[i] : i \in 1..Len(E)}
<1>1. Len(L) \in Nat /\ Len(E) \in Nat
  OBVIOUS
<1>2. PICK M : M = L \o E
  OBVIOUS
<1>3. Len(M) = Len(L) + Len(E)
  BY <1>2
<1>4. /\ \A i \in 1..Len(L) : M[i] = L[i]
      /\ \A i \in 1..Len(M) : i > Len(L) => M[i] = E[i - Len(L)]
  BY <1>1, <1>2, <1>3
<1>5. ASSUME NEW i \in 1..Len(M)
      PROVE  M[i] \in {L[k] : k \in 1..Len(L)} \cup {E[k] : k \in 1..Len(E)}
  <2>1. CASE i <= Len(L)
    <3>1. i \in 1..Len(L)
      BY <1>1, <1>3, <2>1
    <3> QED
      BY <1>4, <3>1
  <2>2. CASE i > Len(L)
    <3>1. i - Len(L) \in 1..Len(E)
      BY <1>1, <1>3, <2>2
    <3> QED
      BY <1>4, <2>2, <3>1
  <2> QED
    BY <1>1, <1>3, <2>1, <2>2
<1>6. ASSUME NEW i \in 1..Len(L) PROVE L[i] \in {M[k] : k \in 1..Len(M)}
  <2>1. i \in 1..Len(M) /\ M[i] = L[i]
    BY <1>1, <1>3, <1>4
  <2> QED
    BY <2>1
<1>7. ASSUME NEW i \in 1..Len(E) PROVE E[i] \in {M[k] : k \in 1..Len(M)}
  <2>1. Len(L) + i \in 1..Len(M) /\ Len(L) + i > Len(L) /\ (Len(L) + i) - Len(L) = i
    BY <1>1, <1>3
  <2>2. M[Len(L) + i] = E[i]
    BY <1>4, <2>1
  <2> QED
    BY <2>1, <2>2
<1>8. {M[i] : i \in 1..Len(M)}
        = {L[i] : i \in 1..Len(L)} \cup {E[i] : i \in 1..Len(E)}
  BY <1>5, <1>6, <1>7
<1> QED
  BY <1>2, <1>8

\* The new log consists of the old one and the events of the call.
LEMMA LogAfterHeadStep ==
    ASSUME TypeInv, NEW c \in Clients, NEW h \in Histories, HeadStep(c, h)
    PROVE  /\ log'[h] = log[h] \o cl[c].evs
           /\ LogEvents(h)' = LogEvents(h) \cup EventsOf(c)
           /\ \A g \in Histories : g # h =>
                 log'[g] = log[g] /\ LogEvents(g)' = LogEvents(g)
<1>1. PICK L, E : /\ L = log[h] /\ L \in Seq(EvId) /\ Len(L) \in Nat
                  /\ E = cl[c].evs /\ E \in Seq(EvId) /\ Len(E) \in Nat
  BY ClientTyped DEF TypeInv, TypeOK
<1>2. log'[h] = L \o E /\ \A g \in Histories : g # h => log'[g] = log[g]
  BY <1>1 DEF HeadStep, TypeInv, TypeOK
<1>6. LogEvents(h)' = LogEvents(h) \cup EventsOf(c)
  <2>1. LogEvents(h)' = {(L \o E)[i] : i \in 1..Len(L \o E)}
    BY <1>2 DEF LogEvents
  <2>2. /\ LogEvents(h) = {L[i] : i \in 1..Len(L)}
        /\ EventsOf(c) = {E[i] : i \in 1..Len(E)}
    BY <1>1 DEF LogEvents, EventsOf
  <2> QED BY ZenonT(40), <1>1, <2>1, <2>2, ConcatEvents
<1>7. \A g \in Histories : g # h => LogEvents(g)' = LogEvents(g)
  BY <1>2 DEF LogEvents
<1> QED
  BY <1>1, <1>2, <1>6, <1>7

LEMMA FreshHeadStep ==
    ASSUME TypeInv, FreshInv, NEW c \in Clients, NEW h \in Histories,
           HeadStep(c, h)
    PROVE  FreshInv'
<1>1. /\ LogEvents(h)' = LogEvents(h) \cup EventsOf(c)
      /\ \A g \in Histories : g # h => LogEvents(g)' = LogEvents(g)
  BY LogAfterHeadStep
<1>2. ~Committing(c)' /\ Committing(c)
  BY DEF HeadStep, Committing
<1>3. \A d \in Clients : d # c =>
         /\ Committing(d)' = Committing(d)
         /\ EventsOf(d)' = EventsOf(d)
         /\ Len(cl'[d].evs) = Len(cl[d].evs)
  <2>1. \A d \in Clients : d # c => cl'[d] = cl[d]
    BY DEF HeadStep, OthersSame
  <2> QED
    BY <2>1 DEF Committing, EventsOf
<1>4. ASSUME NEW d \in Clients, Committing(d)'
      PROVE  /\ Len(cl'[d].evs) \in 1..MaxBatch
             /\ \A g \in Histories : EventsOf(d)' \cap LogEvents(g)' = {}
             /\ \A b \in Clients : b # d /\ Committing(b)' =>
                   EventsOf(d)' \cap EventsOf(b)' = {}
  <2>1. d # c /\ Committing(d) /\ EventsOf(d)' = EventsOf(d)
    BY <1>2, <1>3, <1>4
  <2>2. /\ Len(cl[d].evs) \in 1..MaxBatch
        /\ \A g \in Histories : EventsOf(d) \cap LogEvents(g) = {}
        /\ EventsOf(d) \cap EventsOf(c) = {}
        /\ \A b \in Clients : b # d /\ Committing(b) =>
              EventsOf(d) \cap EventsOf(b) = {}
    BY <1>2, <2>1 DEF FreshInv
  <2>3. ASSUME NEW g \in Histories PROVE EventsOf(d)' \cap LogEvents(g)' = {}
    BY <1>1, <2>1, <2>2
  <2>4. ASSUME NEW b \in Clients, b # d, Committing(b)'
        PROVE  EventsOf(d)' \cap EventsOf(b)' = {}
    BY <1>2, <1>3, <2>1, <2>2, <2>4
  <2> QED
    BY <1>3, <2>1, <2>2, <2>3, <2>4
<1>5. \A e \in EvId : parent'[e] < e
  BY DEF FreshInv, HeadStep
<1>6. \A g \in Histories : refs'[g].phase = "none" => refs'[g].head = EventEpoch
  BY DEF FreshInv, HeadStep
<1> QED
  BY <1>4, <1>5, <1>6 DEF FreshInv

LEMMA FreshStep == TypeInv /\ OldEvents /\ FreshInv /\ [Next]_vars => FreshInv'
<1> SUFFICES ASSUME TypeInv, OldEvents, FreshInv, [Next]_vars PROVE FreshInv'
  OBVIOUS
<1>0. CASE UNCHANGED vars
  BY <1>0, FreshKept DEF vars, Committing
<1>1. ASSUME NEW c \in Clients, ClientNext(c) PROVE FreshInv'
  <2>1. CASE QuietStep(c)
    <3>1. \A d \in Clients : Committing(d)' =>
             Committing(d) /\ cl'[d].evs = cl[d].evs
      BY <2>1 DEF QuietStep, Committing, OthersSame
    <3>2. /\ UNCHANGED <<parent, log>>
          /\ \A h \in Histories :
                refs'[h].phase = "none" =>
                   refs[h].phase = "none" /\ refs'[h].head = refs[h].head
      BY <2>1 DEF QuietStep
    <3> QED
      BY <3>1, <3>2, FreshKept
  <2>2. ASSUME NEW g \in Histories, DeleteStep(g) PROVE FreshInv'
    <3>1. \A d \in Clients : Committing(d)' =>
             Committing(d) /\ cl'[d].evs = cl[d].evs
      BY <2>2 DEF DeleteStep, Committing
    <3>2. /\ UNCHANGED <<parent, log>>
          /\ \A h \in Histories :
                refs'[h].phase = "none" =>
                   refs[h].phase = "none" /\ refs'[h].head = refs[h].head
      BY <2>2 DEF DeleteStep
    <3> QED
      BY <3>1, <3>2, FreshKept
  <2>3. CASE StoreStepOf(c)
    <3>1. \A d \in Clients : Committing(d)' =>
             Committing(d) /\ cl'[d].evs = cl[d].evs
      BY <2>3 DEF StoreStepOf, Committing, OthersSame
    <3>2. /\ UNCHANGED <<parent, log>>
          /\ \A h \in Histories :
                refs'[h].phase = "none" =>
                   refs[h].phase = "none" /\ refs'[h].head = refs[h].head
      BY <2>3 DEF StoreStepOf
    <3> QED
      BY <3>1, <3>2, FreshKept
  <2> QED
    BY <1>1, <2>1, <2>2, <2>3, ClientKinds, FreshHeadStep, FreshCommitBegin
<1> QED
  BY <1>0, <1>1 DEF Next

LEMMA FreshInitial == Init => FreshInv
<1> SUFFICES ASSUME Init PROVE FreshInv
  OBVIOUS
<1>1. \A c \in Clients : ~Committing(c)
  BY IdleTyped DEF Init, Committing
<1>2. \A e \in EvId : parent[e] < e
  BY DEF Init, EvId, EventEpoch
<1>3. \A h \in Histories : refs[h].head = EventEpoch
  BY DEF Init, NoRefs
<1> QED
  BY <1>1, <1>2, <1>3 DEF FreshInv

(***************************************************************************)
(* The refinement.                                                         *)
(***************************************************************************)

\* The events that the parent pointers lead to are the committed ones.
LEMMA ChainIsLog ==
    ASSUME TypeInv, StoreInv, FreshInv
    PROVE  \A h \in Histories : Chain(h) = log[h]
<1>1. ASSUME NEW h \in Histories PROVE Chain(h) = log[h]
  <2>1. /\ parent \in [EvId -> Vid] /\ log[h] \in Seq(EvId)
        /\ Len(log[h]) \in Nat
    BY DEF TypeInv, TypeOK
  <2>2. Path(parent)[Before(log[h], Len(log[h]) + 1)] = log[h]
    <3>1. IsChain(log[h], parent, stored, nextId)
      BY DEF StoreInv
    <3>2. \A e \in EvId : parent[e] < e
      BY DEF FreshInv
    <3> QED
      BY <2>1, <3>1, <3>2, PathOfChain
  <2>3. refs[h].head = Before(log[h], Len(log[h]) + 1)
    <3>1. CASE refs[h].phase = "none"
      <4>1. log[h] = << >> /\ refs[h].head = EventEpoch
        BY <3>1 DEF StoreInv, RefsInv, FreshInv
      <4> QED
        BY <4>1 DEF Before
    <3>2. CASE refs[h].phase # "none"
      <4>1. log[h] # << >> /\ refs[h].head = log[h][Len(log[h])]
        BY <3>2 DEF StoreInv, RefsInv
      <4>2. Len(log[h]) # 0
        BY <2>1, <4>1, EmptySeq
      <4> QED
        BY <2>1, <4>1, <4>2 DEF Before
    <3> QED
      BY <3>1, <3>2
  <2> QED
    BY <2>2, <2>3 DEF Chain
<1> QED
  BY <1>1

LInv == TypeInv /\ StoreInv /\ FreshInv

ChainsAreLogs == \A h \in Histories : Chain(h) = log[h]

LEMMA ChainIsLogNext == LInv' => ChainsAreLogs'
<1>1. LInv => ChainsAreLogs
  BY ChainIsLog DEF LInv, ChainsAreLogs
<1> QED
  BY <1>1, PTL

\* A head moves: the log commits the events of the call.
LEMMA HeadStepCommits ==
    ASSUME LInv, LInv', NEW c \in Clients, NEW h \in Histories, HeadStep(c, h)
    PROVE  EL!Commit(h, cl[c].evs) /\ Len(cl[c].evs) \in 1..MaxBatch
<1> DEFINE E == cl[c].evs
<1>1. \A g \in Histories : Chain(g) = log[g] /\ Chain(g)' = log'[g]
  BY ChainIsLog, ChainIsLogNext DEF LInv, ChainsAreLogs
<1>2. /\ log'[h] = log[h] \o E
      /\ \A g \in Histories : g # h => log'[g] = log[g]
  BY LogAfterHeadStep DEF LInv
<1>3. Committing(c)
  BY DEF HeadStep, Committing
<1>4. Len(E) \in 1..MaxBatch /\ \A g \in Histories : EventsOf(c) \cap LogEvents(g) = {}
  BY <1>3 DEF LInv, FreshInv
<1>5. \A i \in 1..Len(E) : E[i] \notin EL!Used
  <2>1. EL!Used = UNION {LogEvents(g) : g \in Histories}
    BY <1>1 DEF EL!Used, LogEvents
  <2> QED
    BY <1>4, <2>1 DEF EventsOf
<1>6. \A i, j \in 1..Len(E) : E[i] = E[j] => i = j
  <2>1. IsBatch(E, cl[c].vid, cl[c].n)
    BY <1>3 DEF LInv, StoreInv, CommitInv, Committing
  <2>2. E \in Seq(EvId) /\ Len(E) \in Nat
    BY ClientTyped DEF LInv
  <2>3. E[1] \in Int
    <3>1. 1 \in 1..Len(E)
      BY <1>4
    <3>2. E[1] \in EvId
      BY <2>2, <3>1, ElementOfSeq
    <3> QED
      BY <3>2 DEF EvId
  <2> QED
    BY <2>1, <2>2, <2>3 DEF IsBatch
<1>7. [g \in Histories |-> Chain(g)]'
        = [[g \in Histories |-> Chain(g)] EXCEPT ![h] = @ \o E]
  BY <1>1, <1>2
<1>8. /\ Status(h) \in {"none", "active"}
      /\ [g \in Histories |-> Status(g)]'
           = [[g \in Histories |-> Status(g)] EXCEPT ![h] = "active"]
  BY DEF HeadStep, Status
<1> QED
  BY <1>4, <1>5, <1>6, <1>7, <1>8 DEF EL!Commit

\* Every step is a step of the log, or leaves it as it is.
LEMMA StepImplements ==
    LInv /\ LInv' /\ [Next]_vars => [EL!LNext]_(EL!lvars)
<1> SUFFICES ASSUME LInv, LInv', [Next]_vars PROVE [EL!LNext]_(EL!lvars)
  OBVIOUS
<1>1. \A g \in Histories : Chain(g) = log[g] /\ Chain(g)' = log'[g]
  BY ChainIsLog, ChainIsLogNext DEF LInv, ChainsAreLogs
<1>2. ASSUME log' = log, \A g \in Histories : Status(g)' = Status(g)
      PROVE  UNCHANGED EL!lvars
  <2>1. [g \in Histories |-> Chain(g)]' = [g \in Histories |-> Chain(g)]
    BY <1>1, <1>2
  <2>2. [g \in Histories |-> Status(g)]' = [g \in Histories |-> Status(g)]
    BY <1>2
  <2> QED
    BY <2>1, <2>2 DEF EL!lvars
<1>3. CASE UNCHANGED vars
  BY <1>2, <1>3 DEF vars, Status
<1>4. ASSUME NEW c \in Clients, QuietStep(c) PROVE UNCHANGED EL!lvars
  BY <1>2, <1>4 DEF QuietStep, Status
<1>5. ASSUME NEW h \in Histories, DeleteStep(h) PROVE EL!LNext
  <2>1. [g \in Histories |-> Chain(g)]' = [g \in Histories |-> Chain(g)]
    BY <1>1, <1>5 DEF DeleteStep
  <2>2. /\ [g \in Histories |-> Status(g)][h] = "active"
        /\ [g \in Histories |-> Status(g)]'
             = [[g \in Histories |-> Status(g)] EXCEPT ![h] = "deleted"]
    <3>1. /\ refs[h].phase = "active" /\ refs'[h].phase = "deleting"
          /\ \A g \in Histories : g # h => refs'[g] = refs[g]
      BY <1>5 DEF DeleteStep
    <3> QED
      BY <3>1 DEF Status
  <2>3. EL!Delete(h)
    BY <2>1, <2>2 DEF EL!Delete
  <2> QED
    BY <2>3 DEF EL!LNext
<1>6. ASSUME NEW c \in Clients, NEW h \in Histories, HeadStep(c, h)
      PROVE  EL!LNext
  <2>1. EL!Commit(h, cl[c].evs) /\ Len(cl[c].evs) \in 1..MaxBatch
    BY <1>6, HeadStepCommits
  <2>2. cl[c].evs \in [1..Len(cl[c].evs) -> EvId]
    <3>1. cl[c].evs \in Seq(EvId)
      BY ClientTyped DEF LInv
    <3> QED
      BY <3>1
  <2> QED
    BY <2>1, <2>2 DEF EL!LNext
<1>7. ASSUME NEW c \in Clients, StoreStepOf(c) PROVE UNCHANGED EL!lvars
  BY <1>2, <1>7 DEF StoreStepOf, Status
<1>8. ASSUME NEW c \in Clients, NEW h \in Histories, NEW vid \in KnownVids(h),
             NEW n \in 1..MaxBatch, CommitBegin(c, h, vid, n)
      PROVE  UNCHANGED EL!lvars
  BY <1>2, <1>8 DEF CommitBegin, Status
<1>9. ASSUME NEW c \in Clients, ClientNext(c) PROVE [EL!LNext]_(EL!lvars)
  <2>1. TypeInv
    BY DEF LInv
  <2> QED
    BY <1>4, <1>5, <1>6, <1>7, <1>8, <1>9, <2>1, ClientKinds
<1> QED
  BY <1>3, <1>9 DEF Next

\* Initially nothing is committed.
LEMMA InitImplements == Init /\ LInv => EL!LInit
<1> SUFFICES ASSUME Init, LInv PROVE EL!LInit
  OBVIOUS
<1>1. \A h \in Histories : Chain(h) = << >>
  BY ChainIsLog DEF LInv, Init
<1>2. \A h \in Histories : Status(h) = "none"
  BY DEF Init, NoRefs, Status
<1> QED
  BY <1>1, <1>2 DEF EL!LInit

\* The documents of the three collections, updated one at a time by any number
\* of clients that may stop anywhere, implement a log to which whole batches
\* are appended: the events that the parent pointers of the head lead to are
\* those of the log at any time.
THEOREM JournalImplementsLog == Spec => ImplementsEventLog
<1>1. Init => LInv
  BY TypeInitial, StoreInitial, FreshInitial DEF LInv
<1>2. LInv /\ [Next]_vars => LInv'
  BY TypeStep, StoreStep, FreshStep, EventsAreOld DEF LInv
<1> QED
  BY <1>1, <1>2, InitImplements, StepImplements, PTL
  DEF Spec, ImplementsEventLog, EL!LSpec
=============================================================================
