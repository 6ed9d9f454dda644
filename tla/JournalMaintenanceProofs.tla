----------------------- MODULE JournalMaintenanceProofs -----------------------
(***************************************************************************)
(* Proofs about JournalMaintenance: what the garbage collector removes is  *)
(* not needed, for any number of histories, clients and events and any     *)
(* retention periods that are not shorter than a call.                     *)
(*                                                                         *)
(* The invariant has layers.  TimeInv says that no history is removed      *)
(* while a call uses it.  LogInv says that the histories are chains of     *)
(* events, stored or not, and that a commit in flight owns its events.     *)
(* EpochInv says that epochs and tails are events of their history and     *)
(* only advance.  GcInv follows the collector from the scan to the         *)
(* removal.  AgeInv says that tails and the starts of finds are old        *)
(* epochs.  EntryInv says which entries the journal still has.  ReadInv    *)
(* says what a find has read of them, and FailInv why a find has failed.   *)
(***************************************************************************)
EXTENDS JournalMaintenance, EventJournalProofs

-----------------------------------------------------------------------------
(***************************************************************************)
(* The invariant.                                                          *)
(***************************************************************************)

TrState ==
    [pc : {"idle", "tails", "setTail", "epochs", "find", "setEpoch"},
     todo : SUBSET Histories, h : Histories, old : Vid, new : Vid, c : Clients]

GcState ==
    [pc : {"idle", "scan", "mark", "sweep", "tails", "removeTail",
           "deleting", "removeJournal", "setDeleted"},
     todo : SUBSET Histories, h : Histories, graph : SUBSET EvId,
     gray : SUBSET EvId, tails : SUBSET EvId, serial : Nat]

\* The local variables of the trimmer and the collector have their types.
MTypeInv ==
    /\ TypeInv
    /\ etime \in [EvId -> Nat]
    /\ dtime \in [Histories -> Nat]
    /\ epochLog \in [Histories -> Seq([epoch : EvId, time : Nat])]
    /\ began \in [Clients -> Nat]
    /\ tr \in TrState
    /\ gc \in GcState
    /\ tr.pc \in {"setTail", "setEpoch"} => tr.new \in EvId

\* A history that cannot be removed before a call that began d ticks ago ends.
KeptFor(h, d) == refs[h].phase \in {"active", "deleting"} /\ dtime[h] <= d

\* Calls are shorter than the periods of the collector: a history is not
\* removed while a find reads it, nor while the trimmer updates it.
ClockInv ==
    /\ \A c \in Clients : cl[c].pc = "idle" => began[c] = 0
    /\ \A c \in Clients : began[c] <= CallTicks
    /\ \A h \in Histories : refs[h].phase \in {"none", "active"} => dtime[h] = 0

FindClockInv ==
    \A c \in Clients : cl[c].pc \in InFind => KeptFor(cl[c].h, began[c])

TrimClockInv ==
    /\ tr.pc = "find" =>
          /\ cl[tr.c].pc \in InFind \cup {"done"}
          /\ cl[tr.c].h = tr.h
          /\ KeptFor(tr.h, began[tr.c])
    /\ tr.pc \in {"setTail", "setEpoch"} => KeptFor(tr.h, CallTicks)

NoEntries(h) == \A e \in EvId : journal[h][e] = 0

\* The collector removes the entries of a history only when no find can add to
\* them.
RemovalInv ==
    /\ gc.pc \in {"removeJournal", "setDeleted"} =>
          refs[gc.h].phase = "deleting" /\ dtime[gc.h] > DeletingDuration
    /\ gc.pc = "setDeleted" => NoEntries(gc.h)
    /\ RemovedLeavesNoEntries

TimeInv == ClockInv /\ FindClockInv /\ TrimClockInv /\ RemovalInv

-----------------------------------------------------------------------------
HistoryInv(h) ==
    /\ IsChain(log[h], parent, EvId, nextId)
    /\ refs[h].phase = "none" => log[h] = << >> /\ refs[h] = NoRefs
    /\ refs[h].phase # "none" =>
          log[h] # << >> /\ refs[h].head = log[h][Len(log[h])]
    /\ heads[h] \subseteq LogEvents(h)

LogInv ==
    /\ \A h \in Histories : HistoryInv(h)
    /\ \A g, h \in Histories : g # h => LogEvents(g) \cap LogEvents(h) = {}
    /\ \A c \in Clients : Committing(c) => IsBatch(cl[c].evs, cl[c].vid, 0)
    /\ FreshInv

-----------------------------------------------------------------------------
\* Finds read only events of the history.
FindLogInv(s) ==
    LET E == {s.evs[i] : i \in 1..Len(s.evs)}
        O == {s.out[i] : i \in 1..Len(s.out)}
    IN  /\ s.pc \in {"walkSerial", "walkEvent", "insert"} =>
              E \subseteq LogEvents(s.h)
        /\ s.pc \in {"walkSerial", "walkEvent"} =>
              s.cur \in LogEvents(s.h) \cup {EventEpoch}
        /\ s.pc = "walkEvent" => s.cur # EventEpoch

\* What the trimmer's find returns is later than the epoch of the history.
TrimFindInv ==
    LET s == cl[tr.c]
    IN  tr.pc = "find" =>
          /\ s.vid = EventEpoch
          /\ s.snap.epoch = refs[tr.h].epoch
          /\ tr.old = refs[tr.h].epoch
          /\ s.pc = "iter" => s.snap.epoch <= s.cur
          /\ \A i \in 1..Len(s.out) :
                s.out[i] \in LogEvents(tr.h) /\ s.snap.epoch < s.out[i]

EpochsInv(h) ==
    LET el == epochLog[h]
    IN  /\ \A i \in 1..Len(el) : el[i].epoch \in LogEvents(h)
        /\ \A i, j \in 1..Len(el) : i < j => el[i].epoch < el[j].epoch
        /\ refs[h].epoch = IF Len(el) = 0 THEN EventEpoch ELSE el[Len(el)].epoch
        /\ refs[h].tail # EventEpoch =>
              \E i \in 1..Len(el) : el[i].epoch = refs[h].tail

\* What the trimmer is about to write is an event of the history, and later.
TrimTailInv ==
    tr.pc = "setTail" =>
        /\ tr.new \in LogEvents(tr.h)
        /\ refs[tr.h].tail <= tr.new
        /\ \E i \in 1..Len(epochLog[tr.h]) : epochLog[tr.h][i].epoch = tr.new

TrimEpochInv ==
    tr.pc = "setEpoch" =>
        /\ tr.new \in LogEvents(tr.h)
        /\ refs[tr.h].epoch < tr.new
        /\ tr.old = refs[tr.h].epoch

EpochInv ==
    /\ \A h \in Histories : \A e \in EvId :
          journal[h][e] # 0 => e \in LogEvents(h)
    /\ \A c \in Clients : FindLogInv(cl[c])
    /\ \A h \in Histories : EpochsInv(h)
    /\ TrimFindInv
    /\ TrimTailInv
    /\ TrimEpochInv

-----------------------------------------------------------------------------
Pending(c) == {cl[c].evs[i] : i \in (cl[c].n + 1)..Len(cl[c].evs)}
Live(h) == {e \in LogEvents(h) : e >= refs[h].tail}

\* The events of a commit in flight: the first n are stored and recent, nothing
\* refers to the others yet.
CommitStored(c) ==
    /\ \A i \in 1..cl[c].n : cl[c].evs[i] \in stored
    /\ cl[c].pc = "updateHead" => cl[c].n = Len(cl[c].evs)
    /\ Pending(c) \cap (stored \cup gc.graph) = {}
    /\ \A e \in EvId : parent[e] \in Pending(c) => e \in Pending(c)
    /\ \A e \in EventsOf(c) : etime[e] <= began[c]

\* The ids that are not in use.
UnusedIds ==
    \A e \in EvId : e >= nextId =>
        /\ e \notin stored /\ e \notin gc.graph
        /\ etime[e] = 0 /\ parent[e] = EventEpoch

StoredInv ==
    /\ \A h \in Histories : Live(h) \subseteq stored
    /\ \A c \in Clients : Committing(c) => CommitStored(c)
    /\ UnusedIds

\* While the collector scans and marks: what it has seen is closed under
\* parents, and commits in flight have only gray events in it.
GraphInv ==
    /\ gc.gray \subseteq gc.graph
    /\ \A e \in gc.graph : parent[e] \in stored => parent[e] \in gc.graph
    /\ \A c \in Clients : Committing(c) =>
          EventsOf(c) \cap gc.graph \subseteq gc.gray

\* Black events are not after the tail of their history, ...
TailsInv ==
    \A t \in gc.tails : \E h \in Histories :
        t \in LogEvents(h) /\ t <= refs[h].tail

\* ... and from the head that has been marked all later events are gray.
HeadMarked(h) ==
    \E a \in {EventEpoch} \cup (gc.gray \cap LogEvents(h)) :
        \A x \in LogEvents(h) \cap gc.graph : x > a => x \in gc.gray

MarkInv ==
    /\ gc.pc \in {"scan", "mark"} => GraphInv
    /\ gc.pc = "scan" => gc.tails = {}
    /\ gc.pc = "mark" => TailsInv /\ \A h \in Histories \ gc.todo : HeadMarked(h)

\* While it removes events: none of them is needed.
SweepInv ==
    gc.pc = "sweep" =>
        /\ \A h \in Histories : Live(h) \cap gc.graph = {}
        /\ \A c \in Clients : Committing(c) => EventsOf(c) \cap gc.graph = {}

GcInv == StoredInv /\ MarkInv /\ SweepInv

-----------------------------------------------------------------------------
(***************************************************************************)
(* Kinds of steps.  On the variables of EventJournal the trimmer acts as   *)
(* a client when it calls Find().                                          *)
(***************************************************************************)

\* A step of client c, with the age of its call.
ClientAct(c) ==
    /\ ClientNext(c)
    /\ began' = [began EXCEPT ![c] = IF cl'[c].pc = "idle" THEN 0 ELSE began[c]]
    /\ UNCHANGED <<etime, dtime, epochLog, gc>>

\* What it means for the trimmer.
ClientTrim(c) ==
    \/ UNCHANGED tr /\ (tr.pc = "find" /\ tr.c = c => CallStep(c))
    \/ \E h \in Histories :
          /\ tr.pc = "epochs" /\ IsActive(h) /\ FindBegin(c, h, EventEpoch)
          /\ tr' = [tr EXCEPT !.pc = "find", !.h = h, !.todo = @ \ {h},
                              !.old = refs[h].epoch, !.c = c]
    \/ /\ tr.pc = "find" /\ tr.c = c /\ cl[c].pc = "done"
       /\ \E e \in Range(cl[c].out) :
             tr' = [tr EXCEPT !.pc = "setEpoch", !.new = e]
    \/ /\ tr.pc = "find" /\ tr.c = c
       /\ tr'.pc \in {"idle", "epochs"}
       /\ cl'[c] = Idle

\* Only the trimmer's local variables change, and it does not start a find.
TrimOnly ==
    /\ UNCHANGED <<vars, etime, dtime, epochLog, began, gc>>
    /\ \/ tr'.pc \in {"idle", "tails", "epochs"}
       \/ \E h \in Histories : ReadTail(h) /\ tr'.pc = "setTail"

\* Only the collector's local variables change.
GcOnly ==
    /\ UNCHANGED <<vars, etime, dtime, epochLog, began, tr>>
    /\ gc'.pc \notin {"removeJournal", "setDeleted"}
    /\ \/ GcBegin \/ GcScanned \/ GcPaint
       \/ \E h \in Histories : GcMark(h)
       \/ gc'.pc \in {"idle", "tails", "removeTail"} /\ gc'.graph \subseteq gc.graph

\* A call of a client takes steps like any other.
LEMMA CallIsClientStep ==
    ASSUME NEW c \in Clients
    PROVE  CallStep(c) => ClientNext(c)
BY DEF ClientNext

\* The trimmer's find begins like the find of a client.
LEMMA FindIsClientStep ==
    ASSUME NEW c \in Clients, NEW h \in Histories, FindBegin(c, h, EventEpoch)
    PROVE  ClientNext(c)
BY DEF ClientNext, BeginCall, KnownVids

\* A client that is given the idle state has returned or stopped.
LEMMA IdleIsClientStep ==
    ASSUME NEW c \in Clients, cl[c].pc # "idle", Goto(c, Idle),
           UNCHANGED storeVars
    PROVE  ClientNext(c)
BY DEF ClientNext, Return, Stop

\* The idle states are typed.
LEMMA IdleStates == TrimmerIdle \in TrState /\ GcIdle \in GcState
<1>1. Idle.h \in Histories
  BY IdleTyped DEF ClientState
<1>2. EventEpoch \in Vid
  BY JournalAssumption DEF Vid, EventEpoch
<1>3. (CHOOSE c \in Clients : TRUE) \in Clients
  BY MaintenanceAssumption
<1> QED
  BY <1>1, <1>2, <1>3 DEF TrimmerIdle, GcIdle, TrState, GcState

\* The idle states are idle.
LEMMA IdlePc == /\ TrimmerIdle.pc = "idle" /\ GcIdle.pc = "idle"
                /\ GcIdle.graph = {} /\ GcIdle.gray = {} /\ GcIdle.tails = {}
BY DEF TrimmerIdle, GcIdle

\* Every step of the system is of one of these kinds.
LEMMA MStepKinds ==
    ASSUME MTypeInv, TrimClockInv, [MNext]_allVars
    PROVE  \/ UNCHANGED allVars
           \/ Tick
           \/ \E c \in Clients : ClientAct(c) /\ ClientTrim(c)
           \/ TrimOnly
           \/ SetTail
           \/ SetEpoch
           \/ GcOnly
           \/ \E e \in EvId : GcRemoveEvent(e)
           \/ GcRemoveTail
           \/ GcDeletedRefs
           \/ \E h \in Histories : GcInvalidate(h)
           \/ GcRemoveJournal
           \/ GcSetDeleted
<1>0. TypeInv /\ tr \in TrState /\ tr.c \in Clients /\ gc \in GcState
  BY DEF MTypeInv, TrState
<1>1. ASSUME NEW c \in Clients, ClientCall(c)
      PROVE  ClientAct(c) /\ ClientTrim(c)
  <2>1. ClientNext(c)
    BY <1>1, CallIsClientStep DEF ClientCall
  <2>2. tr.pc = "find" /\ tr.c = c => CallStep(c)
    BY <1>1 DEF ClientCall, IsTrimmer
  <2> QED
    BY <1>1, <2>1, <2>2, Zenon DEF ClientCall, ClientAct, ClientTrim
<1>2. ASSUME NEW h \in Histories, ReadEpoch(h)
      PROVE  TrimOnly \/ \E c \in Clients : ClientAct(c) /\ ClientTrim(c)
  <2>1. CASE TrSkip(h) /\ UNCHANGED vars
    <3>1. tr.pc = "epochs" /\ tr' = [tr EXCEPT !.todo = @ \ {h}]
      BY <1>2, <2>1 DEF ReadEpoch, TrSkip, TrTo
    <3>2. tr'.pc = "epochs"
      BY <1>0, <3>1 DEF TrState
    <3> QED
      BY <1>2, <2>1, <3>2 DEF ReadEpoch, TrimOnly
  <2>2. ASSUME NEW c \in Clients, IsActive(h), FindBegin(c, h, EventEpoch),
               TrTo([tr EXCEPT !.pc = "find", !.h = h, !.todo = @ \ {h},
                               !.old = refs[h].epoch, !.c = c])
        PROVE  ClientAct(c) /\ ClientTrim(c)
    <3>1. ClientNext(c)
      BY <2>2, FindIsClientStep
    <3>2. cl'[c].pc # "idle"
      BY <1>0, <2>2, FindBeginEffect
    <3>3. began' = [began EXCEPT ![c] = IF cl'[c].pc = "idle" THEN 0 ELSE began[c]]
      BY <1>2, <3>2 DEF ReadEpoch, MTypeInv
    <3>4. ClientTrim(c)
      BY <1>2, <2>2 DEF ReadEpoch, ClientTrim, TrTo
    <3> QED
      BY <1>2, <3>1, <3>3, <3>4 DEF ReadEpoch, ClientAct
  <2> QED
    BY <1>2, <2>1, <2>2 DEF ReadEpoch
<1>3. ASSUME ChooseEpoch
      PROVE  \E c \in Clients : ClientAct(c) /\ ClientTrim(c)
  <2> DEFINE c == tr.c
  <2>1. /\ tr.pc = "find" /\ cl[c].pc = "done" /\ Goto(c, Idle)
        /\ UNCHANGED storeVars
        /\ began' = [began EXCEPT ![c] = 0]
        /\ UNCHANGED <<etime, dtime, epochLog, gc>>
    BY <1>3 DEF ChooseEpoch, Goto
  <2>2. ClientNext(c)
    BY <1>0, <2>1, IdleIsClientStep
  <2>3. cl'[c] = Idle /\ cl'[c].pc = "idle"
    BY <1>0, <2>1, OthersKept, IdleTyped
  <2>4. ClientTrim(c)
    <3>1. CASE \E e \in Range(cl[c].out) :
                  TrTo([tr EXCEPT !.pc = "setEpoch", !.new = e])
      BY <2>1, <3>1 DEF ClientTrim, TrTo
    <3>2. CASE TrTo([tr EXCEPT !.pc = "epochs"]) \/ TrTo(TrimmerIdle)
      <4>0. tr' = [tr EXCEPT !.pc = "epochs"] \/ tr' = TrimmerIdle
        BY <3>2 DEF TrTo
      <4>1. tr'.pc \in {"idle", "epochs"}
        BY <1>0, <4>0, IdlePc DEF TrState
      <4> QED
        BY <2>1, <2>3, <4>1 DEF ClientTrim
    <3> QED
      BY <1>3, <3>1, <3>2 DEF ChooseEpoch
  <2> QED
    BY <1>0, <2>1, <2>2, <2>3, <2>4 DEF ClientAct
<1>4. ASSUME TrimStop
      PROVE  TrimOnly \/ \E c \in Clients : ClientAct(c) /\ ClientTrim(c)
  <2>0. tr' = TrimmerIdle /\ tr'.pc = "idle"
    BY <1>4, IdlePc DEF TrimStop, TrTo
  <2>1. CASE tr.pc # "find"
    <3>1. cl' = cl /\ began' = began
      BY <1>0, <1>4, <2>1 DEF TrimStop, MTypeInv, TypeInv, TypeOK
    <3> QED
      BY <1>4, <2>0, <3>1 DEF TrimStop, TrimOnly, vars, storeVars
  <2>2. CASE tr.pc = "find"
    <3> DEFINE c == tr.c
    <3>1. cl[c].pc # "idle"
      BY <2>2 DEF TrimClockInv, InFind
    <3>2. /\ Goto(c, Idle) /\ UNCHANGED storeVars
          /\ began' = [began EXCEPT ![c] = 0]
          /\ UNCHANGED <<etime, dtime, epochLog, gc>>
      BY <1>4, <2>2 DEF TrimStop, Goto
    <3>3. ClientNext(c)
      BY <1>0, <3>1, <3>2, IdleIsClientStep
    <3>4. cl'[c] = Idle /\ cl'[c].pc = "idle"
      BY <1>0, <3>2, OthersKept, IdleTyped
    <3> QED
      BY <1>0, <2>0, <2>2, <3>2, <3>3, <3>4 DEF ClientAct, ClientTrim
  <2> QED
    BY <2>1, <2>2
<1>5. ASSUME TrimBegin \/ TailsDone \/ EpochsDone PROVE TrimOnly
  <2>0. \/ tr' = TrimmerIdle
        \/ tr' = [TrimmerIdle EXCEPT !.pc = "tails", !.todo = Histories]
        \/ tr' = [TrimmerIdle EXCEPT !.pc = "epochs", !.todo = Histories]
    BY <1>5 DEF TrimBegin, TailsDone, EpochsDone, TrTo
  <2>1. tr'.pc \in {"idle", "tails", "epochs"}
    BY <2>0, IdlePc, IdleStates DEF TrState
  <2> QED
    BY <1>5, <2>1 DEF TrimBegin, TailsDone, EpochsDone, TrimFrame, TrimOnly
<1>6. ASSUME NEW h \in Histories, ReadTail(h) PROVE TrimOnly
  <2>1. CASE TrSkip(h)
    <3>1. tr.pc = "tails" /\ tr' = [tr EXCEPT !.todo = @ \ {h}]
      BY <1>6, <2>1 DEF ReadTail, TrSkip, TrTo
    <3>2. tr'.pc = "tails"
      BY <1>0, <3>1 DEF TrState
    <3> QED
      BY <1>6, <3>2 DEF ReadTail, TrimFrame, TrimOnly
  <2>2. CASE ~TrSkip(h)
    <3>1. PICK i, x, y : TrTo([tr EXCEPT !.pc = "setTail", !.h = h, !.todo = x,
                                         !.old = y, !.new = i])
      BY <1>6, <2>2 DEF ReadTail
    <3>2. tr'.pc = "setTail"
      BY <1>0, <3>1 DEF TrTo, TrState
    <3> QED
      BY <1>6, <3>2 DEF ReadTail, TrimFrame, TrimOnly
  <2> QED
    BY <2>1, <2>2
<1>7. ASSUME GcBegin \/ GcScanned \/ GcPaint \/ \E h \in Histories : GcMark(h)
      PROVE  GcOnly
  <2>1. gc'.pc \in {"idle", "scan", "mark", "sweep"}
    <3>1. CASE GcBegin
      <4>1. PICK G : gc' = [GcIdle EXCEPT !.pc = "scan", !.graph = stored, !.gray = G]
        BY <3>1 DEF GcBegin, GcTo
      <4> QED
        BY <4>1, IdleStates DEF GcState
    <3>2. CASE GcScanned
      <4>1. PICK G, Y : gc' = [gc EXCEPT !.pc = "mark", !.todo = Histories,
                                         !.graph = G, !.gray = Y]
        BY <3>2 DEF GcScanned, GcTo
      <4> QED
        BY <1>0, <4>1 DEF GcState
    <3>3. CASE GcPaint
      <4>1. PICK G : gc' = [GcIdle EXCEPT !.pc = "sweep", !.graph = G]
        BY <3>3 DEF GcPaint, GcTo
      <4> QED
        BY <4>1, IdleStates DEF GcState
    <3>4. ASSUME NEW h \in Histories, GcMark(h)
          PROVE  gc'.pc \in {"idle", "scan", "mark", "sweep"}
      <4>1. CASE gc' = GcIdle
        BY <4>1, IdlePc
      <4>2. CASE gc' # GcIdle
        <5>1. gc' = [gc EXCEPT !.todo = @ \ {h},
                               !.gray = @ \cup ({refs[h].head} \ {EventEpoch}),
                               !.tails = @ \cup ({refs[h].tail} \ {EventEpoch})]
          BY <3>4, <4>2 DEF GcMark, GcTo
        <5>2. gc.pc = "mark"
          BY <3>4 DEF GcMark
        <5> QED
          BY <1>0, <5>1, <5>2 DEF GcState
      <4> QED
        BY <4>1, <4>2
    <3> QED
      BY <1>7, <3>1, <3>2, <3>3, <3>4
  <2> QED
    BY <1>7, <2>1 DEF GcOnly, GcBegin, GcScanned, GcPaint, GcMark, GcFrame
<1>8. ASSUME GcEventsDone \/ GcEnd \/ GcStop \/ \E h \in Histories : GcReadTail(h)
      PROVE  GcOnly
  <2>0. \/ gc' = GcIdle
        \/ gc' = [GcIdle EXCEPT !.pc = "tails", !.todo = Histories]
        \/ /\ gc.pc = "tails"
           /\ \E x, t :
                 \/ gc' = [gc EXCEPT !.todo = t]
                 \/ gc' = [gc EXCEPT !.pc = "removeTail", !.h = x, !.todo = t,
                                    !.serial = journal[x][refs[x].tail]]
    BY <1>8 DEF GcEventsDone, GcEnd, GcStop, GcReadTail, GcTo
  <2>1. gc'.pc \in {"idle", "tails", "removeTail"} /\ gc'.graph \subseteq gc.graph
    <3>1. CASE gc' = GcIdle
      BY <3>1, IdlePc
    <3>2. CASE gc' = [GcIdle EXCEPT !.pc = "tails", !.todo = Histories]
      BY <3>2, IdlePc, IdleStates DEF GcState
    <3>3. ASSUME gc.pc = "tails", NEW t, gc' = [gc EXCEPT !.todo = t]
          PROVE  gc'.pc = "tails" /\ gc'.graph = gc.graph
      BY <1>0, <3>3 DEF GcState
    <3>4. ASSUME NEW x, NEW t, NEW y,
                 gc' = [gc EXCEPT !.pc = "removeTail", !.h = x, !.todo = t, !.serial = y]
          PROVE  gc'.pc = "removeTail" /\ gc'.graph = gc.graph
      BY <1>0, <3>4 DEF GcState
    <3>5. CASE gc.pc = "tails" /\ \E x, t :
                  \/ gc' = [gc EXCEPT !.todo = t]
                  \/ gc' = [gc EXCEPT !.pc = "removeTail", !.h = x, !.todo = t,
                                     !.serial = journal[x][refs[x].tail]]
      <4>1. PICK x, t : \/ gc' = [gc EXCEPT !.todo = t]
                        \/ gc' = [gc EXCEPT !.pc = "removeTail", !.h = x, !.todo = t,
                                           !.serial = journal[x][refs[x].tail]]
        BY <3>5
      <4>2. CASE gc' = [gc EXCEPT !.todo = t]
        BY <3>3, <3>5, <4>2
      <4>3. CASE gc' = [gc EXCEPT !.pc = "removeTail", !.h = x, !.todo = t,
                                  !.serial = journal[x][refs[x].tail]]
        BY <3>4, <4>3
      <4> QED
        BY <4>1, <4>2, <4>3
    <3> QED
      BY <2>0, <3>1, <3>2, <3>5, Zenon
  <2> QED
    BY <1>8, <2>1
    DEF GcOnly, GcEventsDone, GcEnd, GcStop, GcReadTail, GcFrame
<1>9. CASE TrimNext
  BY <1>2, <1>3, <1>4, <1>5, <1>6, <1>9, Zenon DEF TrimNext
<1>10. CASE GcNext
  BY <1>7, <1>8, <1>10, Zenon DEF GcNext
<1> QED
  BY <1>1, <1>9, <1>10, Zenon DEF MNext

-----------------------------------------------------------------------------
(***************************************************************************)
(* Types.                                                                  *)
(***************************************************************************)

\* An age is a number and grows by at most one.
LEMMA OlderGrows ==
    ASSUME NEW age \in Nat, NEW period
    PROVE  /\ Older(age, period) \in Nat
           /\ age <= Older(age, period) /\ Older(age, period) <= age + 1
BY DEF Older

\* An age that is past the period stays past it.
LEMMA OlderStaysPast ==
    ASSUME NEW age \in Nat, NEW period, age > period
    PROVE  Older(age, period) = age
BY DEF Older

\* Only the trimmer changes its local variables.
LEMMA TrimmerAlone ==
    ASSUME [MNext]_allVars, tr' # tr
    PROVE  TrimNext
<1>1. ASSUME NEW c \in Clients, ClientCall(c) PROVE FALSE
  BY <1>1 DEF ClientCall
<1>2. CASE Tick
  BY <1>2 DEF Tick
<1>3. CASE GcNext
  BY Zenon, <1>3 DEF GcNext, GcBegin, GcScanned, GcPaint, GcEventsDone,
       GcRemoveTail, GcDeletedRefs, GcRemoveJournal, GcSetDeleted, GcEnd,
       GcStop, GcMark, GcReadTail, GcInvalidate, GcRemoveEvent, GcFrame
<1>4. CASE UNCHANGED allVars
  BY <1>4 DEF allVars, mvars
<1> QED
  BY <1>1, <1>2, <1>3, <1>4, Zenon DEF MNext

\* Only the collector changes its local variables.
LEMMA CollectorAlone ==
    ASSUME [MNext]_allVars, gc' # gc
    PROVE  GcNext
<1>1. ASSUME NEW c \in Clients, ClientCall(c) PROVE FALSE
  BY <1>1 DEF ClientCall
<1>2. CASE Tick
  BY <1>2 DEF Tick
<1>3. CASE TrimNext
  BY Zenon, <1>3 DEF TrimNext, TrimBegin, SetTail, TailsDone, ChooseEpoch,
       SetEpoch, EpochsDone, TrimStop, ReadTail, ReadEpoch, TrimFrame
<1>4. CASE UNCHANGED allVars
  BY <1>4 DEF allVars, mvars
<1> QED
  BY <1>1, <1>2, <1>3, <1>4, Zenon DEF MNext

\* The local variables of the trimmer keep their types.
LEMMA TrimmerTyped ==
    ASSUME MTypeInv, [MNext]_allVars
    PROVE  /\ tr' \in TrState
           /\ tr'.pc \in {"setTail", "setEpoch"} => tr'.new \in EvId
<1>0. /\ tr \in TrState
      /\ tr.pc \in {"setTail", "setEpoch"} => tr.new \in EvId
      /\ TypeInv /\ epochLog \in [Histories -> Seq([epoch : EvId, time : Nat])]
      /\ refs \in [Histories -> RefsDoc]
      /\ cl \in [Clients -> ClientState]
  BY DEF MTypeInv, TypeInv, TypeOK
<1>1. CASE tr' = tr
  BY <1>0, <1>1
<1>2. CASE TrimBegin \/ TailsDone \/ EpochsDone \/ TrimStop
  <2>1. \/ tr' = TrimmerIdle
        \/ tr' = [TrimmerIdle EXCEPT !.pc = "tails", !.todo = Histories]
        \/ tr' = [TrimmerIdle EXCEPT !.pc = "epochs", !.todo = Histories]
    BY <1>2 DEF TrimBegin, TailsDone, EpochsDone, TrimStop, TrTo
  <2> QED
    BY <2>1, IdleStates, IdlePc DEF TrState
<1>3. CASE SetTail
  <2>1. tr' = [tr EXCEPT !.pc = "tails"] \/ tr' = TrimmerIdle
    BY <1>3 DEF SetTail, TrTo
  <2> QED
    BY <1>0, <2>1, IdleStates, IdlePc DEF TrState
<1>4. CASE SetEpoch
  <2>1. tr' = [tr EXCEPT !.pc = "epochs"] \/ tr' = TrimmerIdle
    BY <1>4 DEF SetEpoch, TrTo
  <2> QED
    BY <1>0, <2>1, IdleStates, IdlePc DEF TrState
<1>5. CASE ChooseEpoch
  <2>1. CASE tr' = [tr EXCEPT !.pc = "epochs"] \/ tr' = TrimmerIdle
    BY <1>0, <2>1, IdleStates, IdlePc DEF TrState
  <2>2. CASE \E e \in Range(cl[tr.c].out) : tr' = [tr EXCEPT !.pc = "setEpoch", !.new = e]
    <3>1. PICK e \in Range(cl[tr.c].out) :
             tr' = [tr EXCEPT !.pc = "setEpoch", !.new = e]
      BY <2>2
    <3>2. cl[tr.c].out \in Seq(EvId)
      BY <1>0, ClientTyped DEF TrState
    <3>3. e \in EvId
      BY <3>1, <3>2, ElementOfSeq DEF Range
    <3>4. e \in Vid
      BY <3>3, JournalAssumption DEF EvId, Vid
    <3> QED
      BY <1>0, <3>1, <3>3, <3>4 DEF TrState
  <2> QED
    BY <1>5, <2>1, <2>2 DEF ChooseEpoch, TrTo
<1>6. ASSUME NEW h \in Histories, ReadTail(h)
      PROVE  /\ tr' \in TrState
             /\ tr'.pc \in {"setTail", "setEpoch"} => tr'.new \in EvId
  <2>1. CASE TrSkip(h)
    <3>1. tr.pc = "tails" /\ tr' = [tr EXCEPT !.todo = @ \ {h}]
      BY <1>6, <2>1 DEF ReadTail, TrSkip, TrTo
    <3> QED
      BY <1>0, <3>1 DEF TrState
  <2>2. CASE ~TrSkip(h)
    <3>1. PICK i \in NewTails(h) :
             tr' = [tr EXCEPT !.pc = "setTail", !.h = h, !.todo = @ \ {h},
                              !.old = refs[h].tail, !.new = epochLog[h][i].epoch]
      BY <1>6, <2>2 DEF ReadTail, TrTo
    <3>2. i \in 1..Len(epochLog[h]) /\ epochLog[h] \in Seq([epoch : EvId, time : Nat])
      <4>1. i \in DOMAIN epochLog[h]
        BY <3>1, Zenon DEF NewTails
      <4>2. epochLog[h] \in Seq([epoch : EvId, time : Nat])
        BY <1>0
      <4> QED
        BY <4>1, <4>2, LenProperties
    <3>3. epochLog[h][i] \in [epoch : EvId, time : Nat]
      BY <3>2, ElementOfSeq
    <3>4. epochLog[h][i].epoch \in EvId
      BY <3>3
    <3>5. epochLog[h][i].epoch \in Vid
      BY <3>4, JournalAssumption DEF EvId, Vid
    <3>6. refs[h].tail \in Vid
      BY <1>0 DEF RefsDoc
    <3> HIDE DEF Vid, EvId
    <3>7. PICK x \in EvId : x \in Vid /\ x = epochLog[h][i].epoch
      BY <3>4, <3>5
    <3>8. PICK y \in Vid : y = refs[h].tail
      BY <3>6
    <3>9. tr' = [tr EXCEPT !.pc = "setTail", !.h = h, !.todo = @ \ {h},
                              !.old = y, !.new = x]
      BY <3>1, <3>7, <3>8
    <3> QED
      BY <1>0, <3>9, <3>7 DEF TrState
  <2> QED
    BY <2>1, <2>2
<1>7. ASSUME NEW h \in Histories, ReadEpoch(h)
      PROVE  /\ tr' \in TrState
             /\ tr'.pc \in {"setTail", "setEpoch"} => tr'.new \in EvId
  <2>1. CASE TrSkip(h)
    <3>1. tr.pc = "epochs" /\ tr' = [tr EXCEPT !.todo = @ \ {h}]
      BY <1>7, <2>1 DEF ReadEpoch, TrSkip, TrTo
    <3> QED
      BY <1>0, <3>1 DEF TrState
  <2>2. CASE ~TrSkip(h)
    <3>1. PICK c \in Clients :
             tr' = [tr EXCEPT !.pc = "find", !.h = h, !.todo = @ \ {h},
                              !.old = refs[h].epoch, !.c = c]
      BY <1>7, <2>2 DEF ReadEpoch, TrTo
    <3>2. PICK y \in Vid : y = refs[h].epoch
      BY <1>0 DEF RefsDoc
    <3>3. tr' = [tr EXCEPT !.pc = "find", !.h = h, !.todo = @ \ {h},
                              !.old = y, !.c = c]
      BY <3>1, <3>2
    <3> QED
      BY <1>0, <3>3 DEF TrState
  <2> QED
    BY <2>1, <2>2
<1>8. TrimNext \/ tr' = tr
  BY TrimmerAlone
<1> QED
  BY <1>1, <1>2, <1>3, <1>4, <1>5, <1>6, <1>7, <1>8, Zenon DEF TrimNext


\* The local variables of the collector keep their types.
LEMMA CollectorTyped ==
    ASSUME MTypeInv, [MNext]_allVars
    PROVE  gc' \in GcState
<1>0. /\ gc \in GcState
      /\ stored \subseteq EvId /\ refs \in [Histories -> RefsDoc]
      /\ journal \in [Histories -> [EvId -> Nat]]
  BY DEF MTypeInv, TypeInv, TypeOK
<1>1. CASE gc' = gc
  BY <1>0, <1>1
<1>2. CASE GcEventsDone \/ GcDeletedRefs \/ GcEnd \/ GcStop
  <2>1. \/ gc' = GcIdle
        \/ gc' = [GcIdle EXCEPT !.pc = "tails", !.todo = Histories]
        \/ gc' = [GcIdle EXCEPT !.pc = "deleting", !.todo = Histories]
    BY <1>2 DEF GcEventsDone, GcDeletedRefs, GcEnd, GcStop, GcTo
  <2> QED
    BY <2>1, IdleStates DEF GcState
<1>3. CASE GcBegin
  <2>1. PICK G \in SUBSET EvId :
           gc' = [GcIdle EXCEPT !.pc = "scan", !.graph = stored, !.gray = G]
    BY <1>0, <1>3 DEF GcBegin, GcTo
  <2> QED
    BY <1>0, <2>1, IdleStates DEF GcState
<1>4. CASE GcScanned
  <2>1. PICK S \in SUBSET (stored \ gc.graph) :
           gc' = [gc EXCEPT !.pc = "mark", !.todo = Histories,
                            !.graph = gc.graph \cup S, !.gray = @ \cup S]
    BY <1>4 DEF GcScanned, GcTo
  <2> QED
    BY <1>0, <2>1 DEF GcState
<1>5. CASE GcPaint
  <2>1. PICK P : gc' = [GcIdle EXCEPT !.pc = "sweep", !.graph = gc.graph \ P]
    BY <1>5 DEF GcPaint, GcTo
  <2> QED
    BY <1>0, <2>1, IdleStates DEF GcState
<1>6. CASE GcRemoveTail \/ GcRemoveJournal \/ GcSetDeleted
  <2>1. \/ gc' = [gc EXCEPT !.pc = "tails"]
        \/ gc' = [gc EXCEPT !.pc = "setDeleted"]
        \/ gc' = [gc EXCEPT !.pc = "deleting"]
    BY <1>6 DEF GcRemoveTail, GcRemoveJournal, GcSetDeleted, GcTo
  <2> QED
    BY <1>0, <2>1 DEF GcState
<1>7. ASSUME NEW h \in Histories, GcMark(h)
      PROVE  gc' \in GcState
  <2>1. CASE gc' = GcIdle
    BY <2>1, IdleStates
  <2>2. CASE gc' # GcIdle
    <3>0. refs[h].head \in Vid /\ refs[h].tail \in Vid
      BY <1>0 DEF RefsDoc
    <3>1. PICK x, y : /\ x = {refs[h].head} \ {EventEpoch}
                      /\ y = {refs[h].tail} \ {EventEpoch}
      OBVIOUS
    <3>2. x \subseteq EvId /\ y \subseteq EvId
      BY <3>0, <3>1, VidIsEvent
    <3>3. gc' = [gc EXCEPT !.todo = @ \ {h}, !.gray = @ \cup x, !.tails = @ \cup y]
      BY <1>7, <2>2, <3>1 DEF GcMark, GcTo
    <3> QED
      BY <1>0, <3>2, <3>3 DEF GcState
  <2> QED
    BY <2>1, <2>2
<1>8. ASSUME NEW h \in Histories, GcReadTail(h)
      PROVE  gc' \in GcState
  <2>1. CASE gc' = [gc EXCEPT !.todo = @ \ {h}]
    BY <1>0, <2>1 DEF GcState
  <2>2. CASE gc' # [gc EXCEPT !.todo = @ \ {h}]
    <3>1. /\ refs[h].tail # EventEpoch
          /\ gc' = [gc EXCEPT !.pc = "removeTail", !.h = h, !.todo = @ \ {h},
                              !.serial = journal[h][refs[h].tail]]
      BY <1>8, <2>2 DEF GcReadTail, GcTo
    <3>2. refs[h].tail \in EvId
      BY <1>0, <3>1, VidIsEvent DEF RefsDoc
    <3>3. PICK y \in Nat : y = journal[h][refs[h].tail]
      BY <1>0, <3>2
    <3>4. gc' = [gc EXCEPT !.pc = "removeTail", !.h = h, !.todo = @ \ {h},
                           !.serial = y]
      BY <3>1, <3>3
    <3> QED
      BY <1>0, <3>3, <3>4 DEF GcState
  <2> QED
    BY <2>1, <2>2
<1>9. ASSUME NEW h \in Histories, GcInvalidate(h)
      PROVE  gc' \in GcState
  <2>1. \/ gc' = [gc EXCEPT !.pc = "removeJournal", !.h = h, !.todo = @ \ {h}]
        \/ gc' = [gc EXCEPT !.todo = @ \ {h}]
    BY <1>9 DEF GcInvalidate, GcTo
  <2> QED
    BY ZenonT(40), <1>0, <2>1 DEF GcState
<1>10. ASSUME NEW e \in EvId, GcRemoveEvent(e)
       PROVE  gc' \in GcState
  <2>1. gc' = [gc EXCEPT !.graph = @ \ {e}]
    BY <1>10 DEF GcRemoveEvent, GcTo
  <2> QED
    BY <1>0, <2>1 DEF GcState
<1>11. GcNext \/ gc' = gc
  BY CollectorAlone
<1> QED
  BY <1>1, <1>2, <1>3, <1>4, <1>5, <1>6, <1>7, <1>8, <1>9, <1>10, <1>11, Zenon
  DEF GcNext

\* The ages keep their types.
LEMMA TimesTyped ==
    ASSUME MTypeInv, [MNext]_allVars
    PROVE  /\ etime' \in [EvId -> Nat]
           /\ dtime' \in [Histories -> Nat]
           /\ began' \in [Clients -> Nat]
<1>0. /\ etime \in [EvId -> Nat] /\ dtime \in [Histories -> Nat]
      /\ began \in [Clients -> Nat]
  BY DEF MTypeInv
<1>1. CASE Tick
  <2>1. \A e \in EvId : Older(etime[e], RecentDuration) \in Nat
    BY <1>0, OlderGrows
  <2>2. \A h \in Histories : Older(dtime[h], LongestDeletion) \in Nat
    BY <1>0, OlderGrows
  <2>3. etime' = [e \in EvId |-> IF e >= nextId THEN 0
                                 ELSE Older(etime[e], RecentDuration)]
    BY <1>1 DEF Tick
  <2>4. dtime' = [h \in Histories |->
                   IF refs[h].phase \in {"none", "active"} THEN 0
                   ELSE Older(dtime[h], LongestDeletion)]
    BY <1>1 DEF Tick
  <2>5. began' = [c \in Clients |-> IF cl[c].pc = "idle" THEN 0 ELSE began[c] + 1]
    BY <1>1 DEF Tick
  <2>6. etime' \in [EvId -> Nat]
    BY <2>1, <2>3
  <2>7. dtime' \in [Histories -> Nat]
    BY <2>2, <2>4
  <2>8. began' \in [Clients -> Nat]
    BY <1>0, <2>5
  <2> QED
    BY <2>6, <2>7, <2>8
<1>2. ASSUME NEW c \in Clients, ClientCall(c)
      PROVE  /\ etime' \in [EvId -> Nat] /\ dtime' \in [Histories -> Nat]
             /\ began' \in [Clients -> Nat]
  BY <1>0, <1>2 DEF ClientCall
<1>3. CASE TrimNext
  <2>1. UNCHANGED <<etime, dtime>>
    BY Zenon, <1>3 DEF TrimNext, TrimBegin, SetTail, TailsDone, ChooseEpoch,
         SetEpoch, EpochsDone, TrimStop, ReadTail, ReadEpoch, TrimFrame
  <2>2. \/ began' = began
        \/ began' = [began EXCEPT ![tr.c] = 0]
        \/ began' = [began EXCEPT ![tr.c] = IF tr.pc = "find" THEN 0 ELSE @]
    BY Zenon, <1>3 DEF TrimNext, TrimBegin, SetTail, TailsDone, ChooseEpoch,
         SetEpoch, EpochsDone, TrimStop, ReadTail, ReadEpoch, TrimFrame
  <2>3. began' \in [Clients -> Nat]
    BY <1>0, <2>2
  <2> QED
    BY <1>0, <2>1, <2>3
<1>4. CASE GcNext
  <2>1. UNCHANGED <<etime, began>>
    BY Zenon, <1>4 DEF GcNext, GcBegin, GcScanned, GcPaint, GcEventsDone,
         GcRemoveTail, GcDeletedRefs, GcRemoveJournal, GcSetDeleted, GcEnd,
         GcStop, GcMark, GcReadTail, GcInvalidate, GcRemoveEvent, GcFrame
  <2>2. dtime' = dtime \/ \E gone : dtime' = [h \in Histories |->
                                       IF h \in gone THEN 0 ELSE dtime[h]]
    <3>1. CASE GcDeletedRefs
      BY Zenon, <3>1 DEF GcDeletedRefs
    <3>2. CASE ~GcDeletedRefs
      BY Zenon, <1>4, <3>2 DEF GcNext, GcBegin, GcScanned, GcPaint,
           GcEventsDone, GcRemoveTail, GcRemoveJournal, GcSetDeleted, GcEnd,
           GcStop, GcMark, GcReadTail, GcInvalidate, GcRemoveEvent, GcFrame
    <3> QED
      BY <3>1, <3>2
  <2>3. dtime' \in [Histories -> Nat]
    BY <1>0, <2>2
  <2> QED
    BY <1>0, <2>1, <2>3
<1>5. CASE UNCHANGED allVars
  BY <1>0, <1>5 DEF allVars, mvars
<1> QED
  BY <1>1, <1>2, <1>3, <1>4, <1>5, Zenon DEF MNext

\* The entries of an epoch log.
EpochEntry == [epoch : EvId, time : Nat]

\* An epoch log whose entries become older.
AgedEpochs(el, period) ==
    [i \in DOMAIN el |-> [el[i] EXCEPT !.time = Older(@, period)]]

\* It keeps its epochs.
LEMMA AgedLog ==
    ASSUME NEW el \in Seq(EpochEntry), NEW period
    PROVE  /\ AgedEpochs(el, period) \in Seq(EpochEntry)
           /\ Len(AgedEpochs(el, period)) = Len(el)
           /\ \A i \in 1..Len(el) :
                 AgedEpochs(el, period)[i].epoch = el[i].epoch
<1> DEFINE L == [i \in DOMAIN el |-> [el[i] EXCEPT !.time = Older(@, period)]]
<1>1. Len(el) \in Nat /\ DOMAIN el = 1..Len(el)
  BY LenProperties
<1>2. ASSUME NEW i \in 1..Len(el)
      PROVE  L[i] \in EpochEntry /\ L[i].epoch = el[i].epoch
  <2>1. el[i] \in EpochEntry
    BY ElementOfSeq
  <2>2. PICK t \in Nat : t = Older(el[i].time, period)
    BY <2>1, OlderGrows DEF EpochEntry
  <2>3. L[i] = [el[i] EXCEPT !.time = t]
    BY <1>1, <2>2
  <2> QED
    BY <2>1, <2>3 DEF EpochEntry
<1>3. L \in [1..Len(el) -> EpochEntry]
  BY <1>1, <1>2
<1> HIDE DEF L
<1>4. L \in Seq(EpochEntry) /\ Len(L) = Len(el)
  BY <1>1, <1>3, SeqDef
<1> QED
  BY <1>2, <1>4 DEF L, AgedEpochs

\* The epochs of the histories, apart from their ages.
EpochsKept(h) ==
    /\ Len(epochLog'[h]) = Len(epochLog[h])
    /\ \A i \in 1..Len(epochLog[h]) :
          epochLog'[h][i].epoch = epochLog[h][i].epoch

\* The trimmer's updates of a refs document.
TailStep(h) ==
    /\ h = tr.h /\ Exists(h) /\ tr.pc = "setTail"
    /\ tr.old # EventEpoch => refs[h].tail = tr.old
    /\ refs' = [refs EXCEPT ![h].tail = tr.new]
    /\ epochLog' = epochLog

EpochStep(h) ==
    /\ h = tr.h /\ Exists(h) /\ tr.pc = "setEpoch"
    /\ tr.old # EventEpoch => refs[h].epoch = tr.old
    /\ refs' = [refs EXCEPT ![h].epoch = tr.new]
    /\ epochLog' = [epochLog EXCEPT ![h] =
                      Append(@, [epoch |-> tr.new, time |-> 0])]

\* What the trimmer's updates do.
LEMMA TrimmerUpdates ==
    ASSUME SetTail \/ SetEpoch, tr \in TrState
    PROVE  /\ UNCHANGED <<nextId, parent, stored, journal, log, heads, cl>>
           /\ UNCHANGED <<etime, dtime, began, gc>>
           /\ tr'.pc \in {"idle", "tails", "epochs"}
           /\ \/ UNCHANGED <<refs, epochLog>>
              \/ \E h \in Histories : TailStep(h) \/ EpochStep(h)
<1>1. CASE SetTail
  <2>1. /\ UNCHANGED <<nextId, parent, stored, journal, log, heads, cl>>
        /\ UNCHANGED <<etime, dtime, epochLog, began, gc>>
    BY <1>1 DEF SetTail
  <2>2. tr' = [tr EXCEPT !.pc = "tails"] \/ tr' = TrimmerIdle
    BY <1>1 DEF SetTail, TrTo
  <2>3. tr'.pc \in {"idle", "tails", "epochs"}
    BY <2>2, IdlePc DEF TrState
  <2>4. tr.h \in Histories
    BY DEF TrState
  <2>5. refs' = refs \/ TailStep(tr.h)
    BY <1>1 DEF SetTail, TailStep
  <2> QED
    BY <2>1, <2>3, <2>4, <2>5
<1>2. CASE SetEpoch
  <2>1. /\ UNCHANGED <<nextId, parent, stored, journal, log, heads, cl>>
        /\ UNCHANGED <<etime, dtime, began, gc>>
    BY <1>2 DEF SetEpoch
  <2>2. tr' = [tr EXCEPT !.pc = "epochs"] \/ tr' = TrimmerIdle
    BY <1>2 DEF SetEpoch, TrTo
  <2>3. tr'.pc \in {"idle", "tails", "epochs"}
    BY <2>2, IdlePc DEF TrState
  <2>4. tr.h \in Histories
    BY DEF TrState
  <2>5. UNCHANGED <<refs, epochLog>> \/ EpochStep(tr.h)
    BY <1>2 DEF SetEpoch, EpochStep
  <2> QED
    BY <2>1, <2>3, <2>4, <2>5
<1> QED
  BY <1>1, <1>2

\* The fields of the documents after the trimmer's updates.
LEMMA TailStepFields ==
    ASSUME MTypeInv, NEW h \in Histories, TailStep(h)
    PROVE  /\ refs' \in [Histories -> RefsDoc]
           /\ refs'[h].tail = tr.new /\ tr.new \in EvId
           /\ refs'[h].epoch = refs[h].epoch
           /\ \A g \in Histories :
                 /\ refs'[g].head = refs[g].head
                 /\ refs'[g].phase = refs[g].phase
                 /\ refs'[g].serial = refs[g].serial
                 /\ g # h => refs'[g] = refs[g]
<1>1. refs \in [Histories -> RefsDoc] /\ tr.new \in EvId /\ tr.new \in Vid
  BY DEF MTypeInv, TypeInv, TypeOK, TailStep, TrState
<1>2. PICK x \in Vid : x = tr.new
  BY <1>1
<1>3. refs' = [refs EXCEPT ![h].tail = x]
  BY <1>2 DEF TailStep
<1> QED
  BY <1>1, <1>2, <1>3 DEF RefsDoc

\* The same for the epoch.
LEMMA EpochStepFields ==
    ASSUME MTypeInv, NEW h \in Histories, EpochStep(h)
    PROVE  /\ refs' \in [Histories -> RefsDoc]
           /\ refs'[h].epoch = tr.new /\ tr.new \in EvId
           /\ refs'[h].tail = refs[h].tail
           /\ \A g \in Histories :
                 /\ refs'[g].head = refs[g].head
                 /\ refs'[g].phase = refs[g].phase
                 /\ refs'[g].serial = refs[g].serial
                 /\ g # h => refs'[g] = refs[g]
           /\ epochLog' \in [Histories -> Seq(EpochEntry)]
           /\ Len(epochLog'[h]) = Len(epochLog[h]) + 1
           /\ epochLog'[h][Len(epochLog[h]) + 1].epoch = tr.new
           /\ \A i \in 1..Len(epochLog[h]) : epochLog'[h][i] = epochLog[h][i]
           /\ \A g \in Histories : g # h => epochLog'[g] = epochLog[g]
<1>1. refs \in [Histories -> RefsDoc] /\ tr.new \in EvId /\ tr.new \in Vid
      /\ epochLog \in [Histories -> Seq(EpochEntry)]
  BY DEF MTypeInv, TypeInv, TypeOK, EpochStep, TrState, EpochEntry
<1>2. PICK x \in Vid : x = tr.new /\ x \in EvId
  BY <1>1
<1>3. refs' = [refs EXCEPT ![h].epoch = x]
  BY <1>2 DEF EpochStep
<1>4. PICK e \in EpochEntry : e = [epoch |-> x, time |-> 0]
  BY <1>2 DEF EpochEntry
<1>5. PICK el \in Seq(EpochEntry) : el = epochLog[h]
  BY <1>1
<1>6. epochLog' = [epochLog EXCEPT ![h] = Append(el, e)]
  BY <1>2, <1>4, <1>5 DEF EpochStep
<1>7. /\ Append(el, e) \in Seq(EpochEntry)
      /\ Len(Append(el, e)) = Len(el) + 1
      /\ Append(el, e)[Len(el) + 1] = e
      /\ \A i \in 1..Len(el) : Append(el, e)[i] = el[i]
  BY AppendProperties
<1>8. /\ epochLog' \in [Histories -> Seq(EpochEntry)]
      /\ epochLog'[h] = Append(el, e)
      /\ \A g \in Histories : g # h => epochLog'[g] = epochLog[g]
  BY <1>1, <1>6, <1>7
<1>9. e.epoch = x
  BY <1>4
<1>10. /\ refs' \in [Histories -> RefsDoc] /\ refs'[h].epoch = x
       /\ refs'[h].tail = refs[h].tail
       /\ \A g \in Histories :
                 /\ refs'[g].head = refs[g].head
                 /\ refs'[g].phase = refs[g].phase
                 /\ refs'[g].serial = refs[g].serial
                 /\ g # h => refs'[g] = refs[g]
  BY <1>1, <1>3 DEF RefsDoc
<1> QED
  BY <1>1, <1>2, <1>5, <1>7, <1>8, <1>9, <1>10

\* What the collector does to the documents.
GcStep ==
    \/ \E e \in EvId : GcRemoveEvent(e)
    \/ GcRemoveTail
    \/ GcDeletedRefs
    \/ \E h \in Histories : GcInvalidate(h)
    \/ GcRemoveJournal
    \/ GcSetDeleted

\* The histories that the collector removes.
Gone(h) == refs[h].phase = "deleted" /\ dtime[h] > DeletedDuration

\* The documents after the collector has removed histories.
LEMMA GcDeletedRefsFields ==
    ASSUME MTypeInv, GcDeletedRefs
    PROVE  /\ \A h \in Histories : Gone(h) =>
                 /\ refs'[h] = NoRefs /\ log'[h] = << >> /\ heads'[h] = {}
                 /\ epochLog'[h] = << >> /\ dtime'[h] = 0
           /\ \A h \in Histories : ~Gone(h) =>
                 /\ refs'[h] = refs[h] /\ log'[h] = log[h]
                 /\ heads'[h] = heads[h]
                 /\ epochLog'[h] = epochLog[h] /\ dtime'[h] = dtime[h]
           /\ UNCHANGED <<nextId, parent, stored, journal, cl>>
           /\ UNCHANGED <<etime, began, tr>>
           /\ gc.pc = "tails" /\ gc'.pc = "deleting" /\ gc'.graph = {}
           /\ refs' \in [Histories -> RefsDoc] /\ log' \in [Histories -> Seq(EvId)]
           /\ heads' \in [Histories -> SUBSET EvId]
           /\ epochLog' \in [Histories -> Seq(EpochEntry)]
<1> DEFINE gone == {h \in Histories : Gone(h)}
<1>1. /\ refs' = [h \in Histories |-> IF h \in gone THEN NoRefs ELSE refs[h]]
      /\ log' = [h \in Histories |-> IF h \in gone THEN << >> ELSE log[h]]
      /\ heads' = [h \in Histories |-> IF h \in gone THEN {} ELSE heads[h]]
      /\ epochLog' = [h \in Histories |-> IF h \in gone THEN << >> ELSE epochLog[h]]
      /\ dtime' = [h \in Histories |-> IF h \in gone THEN 0 ELSE dtime[h]]
  BY DEF GcDeletedRefs, Gone
<1>2. /\ UNCHANGED <<nextId, parent, stored, journal, cl>>
      /\ UNCHANGED <<etime, began, tr>>
      /\ gc.pc = "tails" /\ gc' = [GcIdle EXCEPT !.pc = "deleting", !.todo = Histories]
  BY DEF GcDeletedRefs, GcTo
<1>3. gc'.pc = "deleting" /\ gc'.graph = {}
  BY <1>2, IdleStates, IdlePc DEF GcState
<1>4. NoRefs \in RefsDoc
  BY JournalAssumption DEF NoRefs, RefsDoc, Vid, EventEpoch, Phase, HeadSerialUnspecified
<1>5. /\ refs \in [Histories -> RefsDoc] /\ log \in [Histories -> Seq(EvId)]
      /\ heads \in [Histories -> SUBSET EvId]
      /\ epochLog \in [Histories -> Seq(EpochEntry)]
  BY DEF MTypeInv, TypeInv, TypeOK, EpochEntry
<1>6. refs' \in [Histories -> RefsDoc]
  BY <1>1, <1>4, <1>5
<1>7. log' \in [Histories -> Seq(EvId)]
  BY <1>1, <1>5, EmptySeq
<1>8. heads' \in [Histories -> SUBSET EvId]
  BY <1>1, <1>5
<1>9. epochLog' \in [Histories -> Seq(EpochEntry)]
  BY <1>1, <1>5, EmptySeq
<1> QED
  BY <1>1, <1>2, <1>3, <1>6, <1>7, <1>8, <1>9

\* The documents while the collector removes the entries of a history.
LEMMA GcInvalidateFields ==
    ASSUME MTypeInv, NEW h \in Histories, GcInvalidate(h)
    PROVE  /\ UNCHANGED <<nextId, parent, stored, journal, log, heads, cl>>
           /\ UNCHANGED <<etime, dtime, epochLog, began, tr>>
           /\ gc.pc = "deleting"
           /\ refs' \in [Histories -> RefsDoc]
           /\ \A g \in Histories :
                 /\ refs'[g].head = refs[g].head
                 /\ refs'[g].phase = refs[g].phase
                 /\ refs'[g].tail = refs[g].tail
                 /\ refs'[g].epoch = refs[g].epoch
                 /\ refs[g].phase # "deleting" => refs'[g] = refs[g]
           /\ \/ gc'.pc = "deleting"
              \/ /\ gc'.pc = "removeJournal" /\ gc'.h = h
                 /\ refs[h].phase = "deleting" /\ dtime[h] > DeletingDuration
<1>1. /\ refs \in [Histories -> RefsDoc] /\ gc \in GcState
      /\ HeadSerialUnspecified \in Nat
  BY DEF MTypeInv, TypeInv, TypeOK, HeadSerialUnspecified
<1>2. /\ UNCHANGED <<nextId, parent, stored, journal, log, heads, cl>>
      /\ UNCHANGED <<etime, dtime, epochLog, began, tr>>
      /\ gc.pc = "deleting"
  BY DEF GcInvalidate
<1>3. CASE /\ refs[h].phase = "deleting" /\ dtime[h] > DeletingDuration
           /\ refs' = [refs EXCEPT ![h].serial = HeadSerialUnspecified]
           /\ gc' = [gc EXCEPT !.pc = "removeJournal", !.h = h, !.todo = @ \ {h}]
  <2>1. gc'.pc = "removeJournal" /\ gc'.h = h
    BY <1>1, <1>3 DEF GcState
  <2>2. /\ refs' \in [Histories -> RefsDoc]
        /\ \A g \in Histories :
                 /\ refs'[g].head = refs[g].head
                 /\ refs'[g].phase = refs[g].phase
                 /\ refs'[g].tail = refs[g].tail
                 /\ refs'[g].epoch = refs[g].epoch
                 /\ refs[g].phase # "deleting" => refs'[g] = refs[g]
    BY <1>1, <1>3 DEF RefsDoc
  <2> QED
    BY <1>2, <1>3, <2>1, <2>2
<1>4. CASE gc' = [gc EXCEPT !.todo = @ \ {h}] /\ refs' = refs
  <2>1. gc'.pc = gc.pc
    BY <1>1, <1>4 DEF GcState
  <2> QED
    BY <1>1, <1>2, <1>4, <2>1
<1> QED
  BY <1>3, <1>4, Zenon DEF GcInvalidate, GcTo

\* The documents when a journal is gone.
LEMMA GcSetDeletedFields ==
    ASSUME MTypeInv, GcSetDeleted
    PROVE  /\ UNCHANGED <<nextId, parent, stored, journal, log, heads, cl>>
           /\ UNCHANGED <<etime, dtime, epochLog, began, tr>>
           /\ gc.pc = "setDeleted" /\ gc'.pc = "deleting"
           /\ refs' \in [Histories -> RefsDoc]
           /\ \A g \in Histories :
                 /\ refs'[g].head = refs[g].head
                 /\ refs'[g].tail = refs[g].tail
                 /\ refs'[g].epoch = refs[g].epoch
                 /\ g # gc.h => refs'[g] = refs[g]
           /\ refs'[gc.h].phase = IF refs[gc.h].phase = "deleting" THEN "deleted"
                                  ELSE refs[gc.h].phase
<1>1. refs \in [Histories -> RefsDoc] /\ gc \in GcState /\ gc.h \in Histories
  BY DEF MTypeInv, TypeInv, TypeOK, GcState
<1>2. PICK p : p = IF refs[gc.h].phase = "deleting" THEN "deleted"
                   ELSE refs[gc.h].phase
  OBVIOUS
<1>3. p \in Phase
  BY <1>1, <1>2 DEF RefsDoc, Phase
<1>4. refs' = [refs EXCEPT ![gc.h].phase = p]
  BY <1>2 DEF GcSetDeleted
<1>5. PICK h \in Histories : h = gc.h
  BY <1>1
<1>6. refs' = [refs EXCEPT ![h].phase = p]
  BY <1>4, <1>5
<1>7. /\ refs' \in [Histories -> RefsDoc]
      /\ \A g \in Histories :
                 /\ refs'[g].head = refs[g].head
                 /\ refs'[g].tail = refs[g].tail
                 /\ refs'[g].epoch = refs[g].epoch
                 /\ g # h => refs'[g] = refs[g]
      /\ refs'[h].phase = p
  BY <1>1, <1>3, <1>6 DEF RefsDoc
<1>8. /\ UNCHANGED <<nextId, parent, stored, journal, log, heads, cl>>
      /\ UNCHANGED <<etime, dtime, epochLog, began, tr>>
      /\ gc.pc = "setDeleted" /\ gc' = [gc EXCEPT !.pc = "deleting"]
  BY DEF GcSetDeleted, GcTo
<1>9. gc'.pc = "deleting"
  BY <1>1, <1>8 DEF GcState
<1> QED
  BY <1>2, <1>5, <1>7, <1>8, <1>9

\* The journal while the collector removes entries of a history.
LEMMA GcRemoveFields ==
    ASSUME MTypeInv, GcRemoveTail \/ GcRemoveJournal
    PROVE  /\ UNCHANGED <<nextId, parent, stored, refs, log, heads, cl>>
           /\ UNCHANGED <<etime, dtime, epochLog, began, tr>>
           /\ journal' \in [Histories -> [EvId -> Nat]]
           /\ \A h \in Histories : \A e \in EvId :
                 journal'[h][e] = 0 \/ journal'[h][e] = journal[h][e]
           /\ \/ gc.pc = "removeTail" /\ gc'.pc = "tails"
              \/ /\ gc.pc = "removeJournal" /\ gc'.pc = "setDeleted"
                 /\ gc'.h = gc.h
                 /\ \A e \in EvId : journal'[gc.h][e] = 0
<1>1. /\ journal \in [Histories -> [EvId -> Nat]]
      /\ gc \in GcState /\ gc.h \in Histories
  BY DEF MTypeInv, TypeInv, TypeOK, GcState
<1>2. PICK g \in Histories : g = gc.h
  BY <1>1
<1>3. CASE GcRemoveTail
  <2>1. /\ UNCHANGED <<nextId, parent, stored, refs, log, heads, cl>>
        /\ UNCHANGED <<etime, dtime, epochLog, began, tr>>
        /\ gc.pc = "removeTail" /\ gc' = [gc EXCEPT !.pc = "tails"]
    BY <1>3 DEF GcRemoveTail, GcTo
  <2>2. gc'.pc = "tails"
    BY <1>1, <2>1 DEF GcState
  <2>3. journal' = [journal EXCEPT ![g] =
                     [e \in EvId |-> IF @[e] < gc.serial THEN 0 ELSE @[e]]]
    BY <1>2, <1>3 DEF GcRemoveTail
  <2>4. journal' \in [Histories -> [EvId -> Nat]]
    BY <1>1, <2>3
  <2>5. \A h \in Histories : \A e \in EvId :
                 journal'[h][e] = 0 \/ journal'[h][e] = journal[h][e]
    BY <1>1, <2>3
  <2> QED
    BY <2>1, <2>2, <2>4, <2>5
<1>4. CASE GcRemoveJournal
  <2>1. /\ UNCHANGED <<nextId, parent, stored, refs, log, heads, cl>>
        /\ UNCHANGED <<etime, dtime, epochLog, began, tr>>
        /\ gc.pc = "removeJournal" /\ gc' = [gc EXCEPT !.pc = "setDeleted"]
    BY <1>4 DEF GcRemoveJournal, GcTo
  <2>2. gc'.pc = "setDeleted" /\ gc'.h = gc.h
    BY <1>1, <2>1 DEF GcState
  <2>3. journal' = [journal EXCEPT ![g] = [e \in EvId |-> 0]]
    BY <1>2, <1>4 DEF GcRemoveJournal
  <2>4. journal' \in [Histories -> [EvId -> Nat]]
    BY <1>1, <2>3
  <2>5. /\ \A h \in Histories : \A e \in EvId :
                 journal'[h][e] = 0 \/ journal'[h][e] = journal[h][e]
        /\ \A e \in EvId : journal'[g][e] = 0
    BY <1>1, <2>3
  <2> QED
    BY <1>2, <2>1, <2>2, <2>4, <2>5
<1> QED
  BY <1>3, <1>4

\* The events collection when the collector removes an event.
LEMMA GcRemoveEventFields ==
    ASSUME MTypeInv, NEW e \in EvId, GcRemoveEvent(e)
    PROVE  /\ UNCHANGED <<nextId, parent, refs, journal, log, heads, cl>>
           /\ UNCHANGED <<etime, dtime, epochLog, began, tr>>
           /\ gc.pc = "sweep" /\ gc'.pc = "sweep"
           /\ e \in gc.graph /\ stored' = stored \ {e}
           /\ gc'.graph = gc.graph \ {e}
<1>1. gc \in GcState
  BY DEF MTypeInv
<1>2. /\ UNCHANGED <<nextId, parent, refs, journal, log, heads, cl>>
      /\ UNCHANGED <<etime, dtime, epochLog, began, tr>>
      /\ gc.pc = "sweep" /\ e \in gc.graph /\ stored' = stored \ {e}
      /\ gc' = [gc EXCEPT !.graph = @ \ {e}]
  BY DEF GcRemoveEvent, GcTo
<1> QED
  BY <1>1, <1>2 DEF GcState

\* Ages of epochs apart, time changes no epoch.
LEMMA TickEpochs ==
    ASSUME MTypeInv, Tick
    PROVE  /\ epochLog' \in [Histories -> Seq(EpochEntry)]
           /\ \A h \in Histories : EpochsKept(h)
<1> DEFINE Aged(h) == AgedEpochs(epochLog[h], LongestEpoch)
<1>1. epochLog \in [Histories -> Seq(EpochEntry)]
  BY DEF MTypeInv, EpochEntry
<1>2. epochLog' = [h \in Histories |-> Aged(h)]
  BY DEF Tick, AgedEpochs
<1>3. ASSUME NEW h \in Histories
      PROVE  /\ Aged(h) \in Seq(EpochEntry)
             /\ Len(Aged(h)) = Len(epochLog[h])
             /\ \A i \in 1..Len(epochLog[h]) : Aged(h)[i].epoch = epochLog[h][i].epoch
  <2>1. epochLog[h] \in Seq(EpochEntry)
    BY <1>1
  <2> QED
    BY <2>1, AgedLog
<1> HIDE DEF Aged
<1>4. epochLog' \in [Histories -> Seq(EpochEntry)]
  BY <1>2, <1>3
<1>5. ASSUME NEW h \in Histories PROVE EpochsKept(h)
  BY <1>2, <1>3 DEF EpochsKept
<1> QED
  BY <1>4, <1>5

\* The state of the store and of the clients keeps its type.
LEMMA StoreTyped ==
    ASSUME MTypeInv, TrimClockInv, [MNext]_allVars
    PROVE  TypeInv' /\ epochLog' \in [Histories -> Seq(EpochEntry)]
<1>0. TypeInv /\ epochLog \in [Histories -> Seq(EpochEntry)] /\ tr \in TrState
  BY DEF MTypeInv, EpochEntry
<1>1. ASSUME UNCHANGED vars PROVE TypeInv'
  BY <1>0, <1>1, TypeStep
<1>2. ASSUME UNCHANGED <<nextId, parent, stored, journal, log, heads, cl>>,
             refs' \in [Histories -> RefsDoc]
      PROVE  TypeInv'
  BY <1>0, <1>2 DEF TypeInv, TypeOK, ClientState, Bounds
<1>3. CASE UNCHANGED allVars
  BY <1>0, <1>1, <1>3 DEF allVars, mvars
<1>4. CASE Tick
  <2>1. UNCHANGED vars
    BY <1>4 DEF Tick
  <2> QED
    BY <1>1, <1>4, <2>1, TickEpochs
<1>5. ASSUME NEW c \in Clients, ClientAct(c)
      PROVE  TypeInv' /\ epochLog' \in [Histories -> Seq(EpochEntry)]
  <2>1. ClientNext(c) /\ epochLog' = epochLog
    BY <1>5 DEF ClientAct
  <2>2. [Next]_vars
    BY <2>1 DEF Next
  <2> QED
    BY <1>0, <2>1, <2>2, TypeStep
<1>6. CASE TrimOnly \/ GcOnly
  <2>1. UNCHANGED vars /\ epochLog' = epochLog
    BY <1>6 DEF TrimOnly, GcOnly
  <2> QED
    BY <1>0, <1>1, <2>1
<1>7. CASE SetTail \/ SetEpoch
  <2>1. /\ UNCHANGED <<nextId, parent, stored, journal, log, heads, cl>>
        /\ \/ UNCHANGED <<refs, epochLog>>
           \/ \E h \in Histories : TailStep(h) \/ EpochStep(h)
    BY <1>0, <1>7, TrimmerUpdates
  <2>2. refs' \in [Histories -> RefsDoc] /\ epochLog' \in [Histories -> Seq(EpochEntry)]
    <3>1. CASE UNCHANGED <<refs, epochLog>>
      BY <1>0, <3>1 DEF TypeInv, TypeOK
    <3>2. ASSUME NEW h \in Histories, TailStep(h)
          PROVE  /\ refs' \in [Histories -> RefsDoc]
                 /\ epochLog' \in [Histories -> Seq(EpochEntry)]
      BY <1>0, <3>2, TailStepFields DEF TailStep
    <3>3. ASSUME NEW h \in Histories, EpochStep(h)
          PROVE  /\ refs' \in [Histories -> RefsDoc]
                 /\ epochLog' \in [Histories -> Seq(EpochEntry)]
      BY <3>3, EpochStepFields
    <3> QED
      BY <2>1, <3>1, <3>2, <3>3
  <2> QED
    BY <1>2, <2>1, <2>2
<1>8. ASSUME NEW e \in EvId, GcRemoveEvent(e)
      PROVE  TypeInv' /\ epochLog' = epochLog
  <2>1. /\ UNCHANGED <<nextId, parent, refs, journal, log, heads, cl>>
        /\ stored' = stored \ {e} /\ epochLog' = epochLog
    BY <1>8, GcRemoveEventFields
  <2> QED
    BY <1>0, <2>1 DEF TypeInv, TypeOK, ClientState, Bounds
<1>9. CASE GcRemoveTail \/ GcRemoveJournal
  <2>1. /\ UNCHANGED <<nextId, parent, stored, refs, log, heads, cl>>
        /\ epochLog' = epochLog
        /\ journal' \in [Histories -> [EvId -> Nat]]
    BY <1>9, GcRemoveFields
  <2> QED
    BY <1>0, <2>1 DEF TypeInv, TypeOK, ClientState, Bounds
<1>10. CASE GcDeletedRefs
  <2>1. /\ UNCHANGED <<nextId, parent, stored, journal, cl>>
        /\ refs' \in [Histories -> RefsDoc] /\ log' \in [Histories -> Seq(EvId)]
        /\ heads' \in [Histories -> SUBSET EvId]
        /\ epochLog' \in [Histories -> Seq(EpochEntry)]
    BY <1>10, GcDeletedRefsFields
  <2> QED
    BY <1>0, <2>1 DEF TypeInv, TypeOK, ClientState, Bounds
<1>11. ASSUME NEW h \in Histories, GcInvalidate(h)
       PROVE  TypeInv' /\ epochLog' = epochLog
  BY <1>2, <1>11, GcInvalidateFields
<1>12. CASE GcSetDeleted
  BY <1>0, <1>2, <1>12, GcSetDeletedFields
<1> QED
  BY <1>0, <1>3, <1>4, <1>5, <1>6, <1>7, <1>8, <1>9, <1>10, <1>11, <1>12,
     MStepKinds, Zenon

\* The type invariant is inductive.
LEMMA MTypeStep == MTypeInv /\ TrimClockInv /\ [MNext]_allVars => MTypeInv'
<1> SUFFICES ASSUME MTypeInv, TrimClockInv, [MNext]_allVars PROVE MTypeInv'
  OBVIOUS
<1>1. TypeInv' /\ epochLog' \in [Histories -> Seq([epoch : EvId, time : Nat])]
  BY StoreTyped DEF EpochEntry
<1>2. /\ etime' \in [EvId -> Nat] /\ dtime' \in [Histories -> Nat]
      /\ began' \in [Clients -> Nat]
  BY TimesTyped
<1>3. gc' \in GcState
  BY CollectorTyped
<1>4. tr' \in TrState
  BY TrimmerTyped
<1>5. tr'.pc \in {"setTail", "setEpoch"} => tr'.new \in EvId
  BY TrimmerTyped
<1> QED
  BY <1>1, <1>2, <1>3, <1>4, <1>5 DEF MTypeInv

-----------------------------------------------------------------------------
(***************************************************************************)
(* What a step of a client means for its find.                             *)
(***************************************************************************)

FindBegins(c, h, vid) ==
    LET t == cl'[c]
    IN  /\ cl[c].pc = "idle" /\ refs[h].phase = "active"
        /\ t.h = h /\ t.snap = refs[h] /\ t.vid = vid
        /\ t.evs = << >> /\ t.out = << >>
        /\ t.pc \in {"start", "walkSerial"}
        /\ t.pc = "walkSerial" => t.cur = refs[h].head

FindMoves(c) ==
    LET s == cl[c]
        t == cl'[c]
        after == IF s.vid = EventEpoch THEN s.snap.epoch ELSE s.vid
    IN  /\ s.pc \in InFind /\ t.pc \in InFind /\ KeepsCall(s, t)
        /\ \/ /\ s.pc = "walkSerial" /\ t.pc \in {"walkEvent", "insert"}
              /\ t.evs = s.evs /\ t.out = s.out
              /\ t.pc = "walkEvent" => t.cur = s.cur /\ s.cur # EventEpoch
           \/ /\ s.pc = "walkEvent" /\ t.pc \in {"walkSerial", "insert"}
              /\ t.evs = Append(s.evs, s.cur) /\ t.out = s.out
              /\ s.cur \in stored
              /\ t.pc = "walkSerial" => t.cur = parent[s.cur]
           \/ /\ s.pc = "insert" /\ t.pc \in {"insert", "start"}
              /\ t.evs = s.evs /\ t.out = s.out
           \/ /\ s.pc = "start" /\ t.pc = "iter"
              /\ t.out = s.out /\ t.cur = after
           \/ /\ s.pc = "iter" /\ t.pc = "iter"
              /\ \E e \in EvId : /\ journal[s.h][e] # 0 /\ parent[e] = s.cur
                                 /\ t.cur = e /\ t.out = Append(s.out, e)

FindEnds(c) ==
    LET s == cl[c]
        t == cl'[c]
    IN  /\ s.pc \in InFind /\ t.pc = "done"
        /\ t.h = s.h /\ t.snap = s.snap /\ t.vid = s.vid /\ t.out = s.out

\* A find that is finished keeps what it has found.
LEMMA FinishEnds ==
    ASSUME TypeInv, NEW c \in Clients, cl[c].pc \in InFind, NEW e, Finish(c, e)
    PROVE  FindEnds(c)
BY FinishKept DEF FindEnds

\* A step of a find goes on or ends the find.
LEMMA FindStepKinds ==
    ASSUME TypeInv, NEW c \in Clients, FindStep(c)
    PROVE  FindMoves(c) \/ FindEnds(c)
<1>1. CASE WalkSerial(c)
  BY <1>1, WalkSerialEffect DEF FindMoves, InFind
<1>2. CASE WalkEvent(c)
  <2>1. CASE Finish(c, "FindEventError")
    BY <1>2, <2>1, FinishEnds DEF WalkEvent, InFind
  <2>2. CASE ~Finish(c, "FindEventError")
    <3>1. cl[c].cur \in stored
      BY <1>2, <2>2 DEF WalkEvent
    <3> QED
      BY <1>2, <3>1, WalkEventEffect DEF FindMoves, InFind
  <2> QED
    BY <2>1, <2>2
<1>3. CASE InsertEntry(c)
  <2>1. CASE Finish(c, "SerialMismatch")
    BY <1>3, <2>1, FinishEnds DEF InsertEntry, InFind
  <2>2. CASE ~Finish(c, "SerialMismatch")
    <3>1. journal[cl[c].h][cl[c].evs[cl[c].n]] \in {0, cl[c].serial + 1}
      BY <1>3, <2>2 DEF InsertEntry
    <3> QED
      BY <1>3, <3>1, InsertEntryEffect DEF FindMoves, InFind
  <2> QED
    BY <2>1, <2>2
<1>4. CASE SetSerial(c)
  BY <1>4, SetSerialEffect DEF FindMoves, InFind
<1>5. CASE FindStart(c)
  <2>1. CASE Finish(c, "FindStartError")
    BY <1>5, <2>1, FinishEnds DEF FindStart, InFind
  <2>2. CASE ~Finish(c, "FindStartError")
    <3> DEFINE after == IF cl[c].vid = EventEpoch THEN cl[c].snap.epoch ELSE cl[c].vid
    <3>1. after = EventEpoch \/ journal[cl[c].h][after] # 0
      BY <1>5, <2>2 DEF FindStart
    <3>2. cl'[c].pc = "iter" /\ cl[c].pc = "start" /\ KeepsCall(cl[c], cl'[c])
          /\ cl'[c].out = cl[c].out /\ cl'[c].cur = after
      BY <1>5, <3>1, FindStartEffect
    <3> QED
      BY <3>2 DEF FindMoves, InFind
  <2> QED
    BY <2>1, <2>2
<1>6. CASE IterNext(c)
  <2>1. CASE Finish(c, "ParentMismatch")
    BY <1>6, <2>1, FinishEnds DEF IterNext, InFind
  <2>2. CASE ~Finish(c, "ParentMismatch")
    <3>1. PICK e \in Remaining(cl[c]) :
             /\ parent[e] = cl[c].cur /\ cl[c].pc = "iter"
             /\ Goto(c, [cl[c] EXCEPT !.n = journal[cl[c].h][e], !.cur = e,
                                      !.out = Append(cl[c].out, e)])
      BY <1>6, <2>2 DEF IterNext
    <3>2. e \in EvId /\ e \in Vid /\ journal[cl[c].h][e] \in Nat
          /\ journal[cl[c].h][e] > cl[c].n /\ cl[c].n \in Nat
      BY <3>1, ClientTyped, JournalAssumption
      DEF Remaining, EvId, Vid, TypeInv, TypeOK
    <3>3. journal[cl[c].h][e] # 0
      BY <3>2
    <3>4. cl'[c] = [cl[c] EXCEPT !.n = journal[cl[c].h][e], !.cur = e,
                                      !.out = Append(cl[c].out, e)]
      BY <3>1, OthersKept
    <3>5. PICK o : o = Append(cl[c].out, e)
      OBVIOUS
    <3>6. cl'[c] = [cl[c] EXCEPT !.n = journal[cl[c].h][e], !.cur = e, !.out = o]
      BY <3>4, <3>5
    <3>7. /\ KeepsCall(cl[c], cl'[c]) /\ cl'[c].pc = cl[c].pc
          /\ cl'[c].cur = e /\ cl'[c].out = o
      BY <3>6, ClientTyped DEF ClientState, KeepsCall
    <3> QED
      BY <3>1, <3>2, <3>3, <3>5, <3>7 DEF FindMoves, InFind
  <2> QED
    BY <2>1, <2>2
<1>7. CASE IterEnd(c)
  BY <1>7, FinishEnds DEF IterEnd, InFind
<1> QED
  BY <1>1, <1>2, <1>3, <1>4, <1>5, <1>6, <1>7 DEF FindStep

\* How a client comes to be in a find.
LEMMA FindKinds ==
    ASSUME TypeInv, NEW c \in Clients, ClientNext(c), cl'[c].pc \in InFind
    PROVE  \/ FindMoves(c) /\ FindStep(c)
           \/ \E h \in Histories : \E vid \in KnownVids(h) : FindBegins(c, h, vid)
<1>1. CASE FindStep(c)
  BY <1>1, FindStepKinds DEF FindEnds, InFind
<1>2. CASE CommitStep(c) \/ DeleteConflict(c)
  <2>1. cl'[c].pc \in {"store", "updateHead", "commitConflict", "done"}
    <3>1. cl[c] \in ClientState
      BY ClientTyped
    <3>2. CASE StoreEvent(c)
      <4>1. PICK n, p : /\ p \in {"store", "updateHead"}
                        /\ Goto(c, [cl[c] EXCEPT !.n = n, !.pc = p])
        BY <3>2 DEF StoreEvent
      <4>2. cl'[c] = [cl[c] EXCEPT !.n = n, !.pc = p]
        BY <4>1, OthersKept
      <4> QED
        BY <3>1, <4>1, <4>2 DEF ClientState
    <3>3. CASE \E e : Finish(c, e)
      BY <3>3, FinishKept
    <3>4. CASE Goto(c, [cl[c] EXCEPT !.pc = "commitConflict"])
      <4>1. cl'[c] = [cl[c] EXCEPT !.pc = "commitConflict"]
        BY <3>4, OthersKept
      <4> QED
        BY <3>1, <4>1 DEF ClientState
    <3> QED
      BY Zenon, <1>2, <3>2, <3>3, <3>4
      DEF CommitStep, InsertHead, UpdateHead, CommitConflict, DeleteConflict, MoveHead
  <2> QED
    BY <2>1 DEF InFind
<1>3. CASE Return(c) \/ Stop(c)
  <2>1. cl'[c] = Idle
    BY <1>3, OthersKept DEF Return, Stop
  <2> QED
    BY <2>1, IdleTyped DEF InFind
<1>4. ASSUME NEW h \in Histories, NEW vid \in KnownVids(h), NEW n \in 1..MaxBatch,
             CommitBegin(c, h, vid, n)
      PROVE  FALSE
  <2>1. PICK E : Goto(c, [NewCall(h) EXCEPT !.pc = "store", !.vid = vid, !.evs = E])
    BY <1>4 DEF CommitBegin
  <2>2. cl'[c] = [NewCall(h) EXCEPT !.pc = "store", !.vid = vid, !.evs = E]
    BY <2>1, OthersKept
  <2>3. cl'[c].pc = "store"
    BY <2>2 DEF NewCall
  <2> QED
    BY <2>3 DEF InFind
<1>5. ASSUME NEW h \in Histories, NEW vid \in KnownVids(h), DeleteRefs(c, h, vid)
      PROVE  FALSE
  <2>1. cl[c].pc = "idle"
    BY <1>5 DEF DeleteRefs
  <2>2. CASE cl' = cl
    BY <2>1, <2>2 DEF InFind
  <2>3. CASE Goto(c, [NewCall(h) EXCEPT !.pc = "deleteConflict", !.vid = vid])
    <3>1. cl'[c] = [NewCall(h) EXCEPT !.pc = "deleteConflict", !.vid = vid]
      BY <2>3, OthersKept
    <3>2. cl'[c].pc = "deleteConflict"
      BY <3>1 DEF NewCall
    <3> QED
      BY <3>2 DEF InFind
  <2> QED
    BY <1>5, <2>2, <2>3 DEF DeleteRefs
<1>6. ASSUME NEW h \in Histories, NEW vid \in KnownVids(h), FindBegin(c, h, vid)
      PROVE  FindBegins(c, h, vid)
  BY Zenon, <1>6, FindBeginEffect DEF FindBegins, FindBegin, InFind
<1> QED
  BY <1>1, <1>2, <1>3, <1>4, <1>5, <1>6
  DEF ClientNext, BeginCall, CallStep

\* The trimmer's find takes only steps of a find.
LEMMA CallInFind ==
    ASSUME TypeInv, NEW c \in Clients, CallStep(c), cl[c].pc \in InFind \cup {"done"}
    PROVE  FindMoves(c) \/ FindEnds(c)
<1>1. ~CommitStep(c) /\ ~DeleteConflict(c)
  BY DEF CommitStep, StoreEvent, InsertHead, UpdateHead, CommitConflict,
     DeleteConflict, InFind
<1> QED
  BY <1>1, FindStepKinds DEF CallStep

\* How a step of a client changes the phases of the histories.
LEMMA ClientPhases ==
    ASSUME TypeInv, NEW c \in Clients, ClientNext(c)
    PROVE  /\ OthersSame(c)
           /\ \A h \in Histories :
                 \/ refs'[h].phase = refs[h].phase
                 \/ refs[h].phase = "active" /\ refs'[h].phase = "deleting"
                 \/ refs[h].phase = "none" /\ refs'[h].phase = "active"
           /\ \A h \in Histories : \A e \in EvId :
                 \/ journal'[h][e] = journal[h][e]
                 \/ cl[c].pc = "insert" /\ h = cl[c].h /\ e \in EventsOf(c)
<1>1. CASE QuietStep(c)
  BY <1>1 DEF QuietStep
<1>2. CASE \E h \in Histories : DeleteStep(h)
  BY <1>2 DEF DeleteStep, OthersSame
<1>3. CASE \E h \in Histories : HeadStep(c, h)
  BY SMTT(30), <1>3 DEF HeadStep
<1>4. CASE StoreStepOf(c)
  BY <1>4 DEF StoreStepOf
<1>5. ASSUME NEW h \in Histories, NEW vid \in KnownVids(h), NEW n \in 1..MaxBatch,
             CommitBegin(c, h, vid, n)
      PROVE  UNCHANGED <<refs, journal>> /\ OthersSame(c)
  BY <1>5, OthersKept DEF CommitBegin, OthersSame
<1> QED
  BY <1>1, <1>2, <1>3, <1>4, <1>5, ClientKinds

-----------------------------------------------------------------------------
(***************************************************************************)
(* Time.  A history whose entries are removed has been marked as being     *)
(* deleted for longer than a call lasts, so that no find reads it.         *)
(***************************************************************************)

\* A removed history is not read.
LEMMA RemovalWaits ==
    ASSUME MTypeInv, TimeInv, gc.pc \in {"removeJournal", "setDeleted"}
    PROVE  /\ \A c \in Clients : cl[c].pc \in InFind => cl[c].h # gc.h
           /\ tr.pc \in {"find", "setTail", "setEpoch"} => tr.h # gc.h
<1>1. /\ dtime \in [Histories -> Nat] /\ began \in [Clients -> Nat]
      /\ gc.h \in Histories /\ tr.c \in Clients
      /\ CallTicks \in Nat /\ DeletingDuration \in Nat
  BY MaintenanceAssumption DEF MTypeInv, GcState, TrState
<1>2. dtime[gc.h] > DeletingDuration
  BY DEF TimeInv, RemovalInv
<1>3. CallTicks <= DeletingDuration
  BY CallsAreShort
<1>4. \A d \in 0..CallTicks : ~KeptFor(gc.h, d)
  BY <1>1, <1>2, <1>3 DEF KeptFor
<1>5. \A c \in Clients : began[c] \in 0..CallTicks
  BY <1>1 DEF TimeInv, ClockInv
<1>6. \A c \in Clients : cl[c].pc \in InFind => cl[c].h # gc.h
  BY <1>4, <1>5 DEF TimeInv, FindClockInv
<1>7. CallTicks \in 0..CallTicks
  BY <1>1
<1>8. tr.pc \in {"find", "setTail", "setEpoch"} => tr.h # gc.h
  BY <1>1, <1>4, <1>5, <1>7 DEF TimeInv, TrimClockInv
<1> QED
  BY <1>6, <1>8

\* The parts of the invariant for steps that keep the calls and the ages.
LEMMA TimeFramed ==
    ASSUME MTypeInv, TimeInv, UNCHANGED <<cl, began, dtime>>,
           \A h \in Histories :
              /\ refs[h].phase \in {"active", "deleting"} =>
                    \/ refs'[h].phase \in {"active", "deleting"}
                    \/ dtime[h] > CallTicks
              /\ refs'[h].phase \in {"none", "active"} =>
                    refs[h].phase \in {"none", "active"},
           \/ tr' = tr
           \/ tr'.pc \in {"idle", "tails", "epochs"}
    PROVE  ClockInv' /\ FindClockInv' /\ TrimClockInv'
<1>1. /\ dtime \in [Histories -> Nat] /\ began \in [Clients -> Nat]
      /\ tr.h \in Histories /\ tr.c \in Clients /\ CallTicks \in Nat
      /\ \A c \in Clients : cl[c].h \in Histories
  BY MaintenanceAssumption, ClientTyped DEF MTypeInv, TrState
<1>2. \A c \in Clients : began[c] <= CallTicks
  BY DEF TimeInv, ClockInv
<1>3. ASSUME NEW h \in Histories, NEW d \in Nat, d <= CallTicks, KeptFor(h, d)
      PROVE  KeptFor(h, d)'
  <2>1. dtime[h] <= CallTicks
    BY <1>1, <1>3 DEF KeptFor
  <2>2. ~(dtime[h] > CallTicks)
    BY <1>1, <2>1
  <2> QED
    BY <1>3, <2>2 DEF KeptFor
<1>4. ClockInv'
  BY DEF TimeInv, ClockInv
<1>5. FindClockInv'
  BY <1>1, <1>2, <1>3 DEF TimeInv, FindClockInv
<1>6. CASE tr' = tr
  <2>1. TrimClockInv
    BY DEF TimeInv
  <2>2. TrimClockInv'
    <3>0. \A h \in Histories : \A d \in Nat :
             d <= CallTicks /\ KeptFor(h, d) =>
                refs'[h].phase \in {"active", "deleting"} /\ dtime'[h] <= d
      BY <1>3 DEF KeptFor
    <3>1. tr.pc = "find" =>
             /\ refs'[tr.h].phase \in {"active", "deleting"}
             /\ dtime'[tr.h] <= began[tr.c]
      BY <1>1, <1>2, <3>0, <2>1 DEF TrimClockInv
    <3>2. tr.pc \in {"setTail", "setEpoch"} =>
             /\ refs'[tr.h].phase \in {"active", "deleting"}
             /\ dtime'[tr.h] <= CallTicks
      <4>1. CallTicks <= CallTicks
        BY <1>1
      <4> QED
        BY <1>1, <3>0, <2>1, <4>1 DEF TrimClockInv
    <3> QED
      BY <1>6, <2>1, <3>1, <3>2 DEF TrimClockInv, KeptFor
  <2> QED
    BY <1>4, <1>5, <2>2
<1>7. CASE tr'.pc \in {"idle", "tails", "epochs"}
  BY <1>4, <1>5, <1>7 DEF TrimClockInv
<1> QED
  BY <1>6, <1>7

\* Time passes.
LEMMA TimeTick ==
    ASSUME MTypeInv, TimeInv, Tick
    PROVE  TimeInv'
<1>0. /\ dtime \in [Histories -> Nat] /\ began \in [Clients -> Nat]
      /\ CallTicks \in Nat /\ DeletingDuration \in Nat
      /\ \A c \in Clients : cl[c].h \in Histories
      /\ gc.h \in Histories /\ tr.h \in Histories /\ tr.c \in Clients
  BY MaintenanceAssumption, ClientTyped DEF MTypeInv, TrState, GcState
<1>1. /\ UNCHANGED <<vars, tr, gc>>
      /\ tr.pc \notin {"setTail", "setEpoch"}
      /\ \A c \in Clients : cl[c].pc # "idle" => began[c] < CallTicks
      /\ began' = [c \in Clients |-> IF cl[c].pc = "idle" THEN 0 ELSE began[c] + 1]
  BY DEF Tick
<1>2. UNCHANGED <<refs, cl, journal>>
  BY <1>1 DEF vars
<1>3. ASSUME NEW h \in Histories
      PROVE  /\ refs[h].phase \in {"none", "active"} => dtime'[h] = 0
             /\ refs[h].phase \notin {"none", "active"} =>
                   dtime[h] <= dtime'[h] /\ dtime'[h] <= dtime[h] + 1
  <2>1. dtime'[h] = IF refs[h].phase \in {"none", "active"} THEN 0
                    ELSE Older(dtime[h], LongestDeletion)
    BY DEF Tick
  <2> QED
    BY <1>0, <2>1, OlderGrows
<1>4. ASSUME NEW c \in Clients, cl[c].pc # "idle", NEW h \in Histories,
             KeptFor(h, began[c])
      PROVE  KeptFor(h, began[c])'
  <2>1. dtime'[h] <= dtime[h] + 1 /\ dtime[h] <= began[c] /\ began'[c] = began[c] + 1
    BY <1>0, <1>1, <1>3, <1>4 DEF KeptFor
  <2>2. dtime'[h] \in Nat
    BY TimesTyped DEF MNext
  <2> QED
    BY <1>0, <1>2, <1>4, <2>1, <2>2 DEF KeptFor
<1>5. ClockInv'
  <2>1. \A c \in Clients : began'[c] <= CallTicks
    BY <1>0, <1>1 
  <2> QED
    BY <1>0, <1>1, <1>2, <1>3, <2>1 DEF ClockInv
<1>6. FindClockInv'
  BY <1>0, <1>2, <1>4 DEF TimeInv, FindClockInv, InFind
<1>7. TrimClockInv'
  <2>1. TrimClockInv
    BY DEF TimeInv
  <2>2. CASE tr.pc = "find"
    <3>1. KeptFor(tr.h, began[tr.c])'
      <4>1. cl[tr.c].pc # "idle" /\ KeptFor(tr.h, began[tr.c]) /\ tr' = tr
        BY <1>1, <2>1, <2>2 DEF TrimClockInv, InFind
      <4>2. PICK c \in Clients : c = tr.c
        BY <1>0
      <4>3. PICK h \in Histories : h = tr.h
        BY <1>0
      <4>4. KeptFor(h, began[c])'
        BY <1>4, <4>1, <4>2, <4>3
      <4> QED
        BY <4>1, <4>2, <4>3, <4>4 DEF KeptFor
    <3> QED
      BY <1>1, <1>2, <2>1, <2>2, <3>1 DEF TrimClockInv, KeptFor
  <2>3. CASE tr.pc # "find"
    BY <1>1, <2>3 DEF TrimClockInv
  <2> QED
    BY <2>2, <2>3
<1>8. RemovalInv'
  <2>1. RemovalInv
    BY DEF TimeInv
  <2>2. ASSUME refs[gc.h].phase = "deleting", dtime[gc.h] > DeletingDuration
        PROVE  dtime'[gc.h] > DeletingDuration
    <3>1. dtime[gc.h] <= dtime'[gc.h] /\ dtime'[gc.h] \in Nat
      BY <1>0, <1>3, <2>2, TimesTyped DEF MNext
    <3> QED
      BY <1>0, <2>2, <3>1
  <2> QED
    BY <1>1, <1>2, <2>1, <2>2 DEF RemovalInv, NoEntries, RemovedLeavesNoEntries
<1> QED
  BY <1>5, <1>6, <1>7, <1>8 DEF TimeInv

\* A client calls.
LEMMA TimeClient ==
    ASSUME MTypeInv, TimeInv, NEW c \in Clients, ClientAct(c), ClientTrim(c)
    PROVE  TimeInv'
<1>0. /\ dtime \in [Histories -> Nat] /\ began \in [Clients -> Nat]
      /\ CallTicks \in Nat /\ DeletingDuration \in Nat
      /\ \A d \in Clients : cl[d].h \in Histories
      /\ gc.h \in Histories /\ tr.h \in Histories /\ tr.c \in Clients
      /\ TypeInv
  BY MaintenanceAssumption, ClientTyped DEF MTypeInv, TrState, GcState
<1>1. /\ ClientNext(c)
      /\ began' = [began EXCEPT ![c] = IF cl'[c].pc = "idle" THEN 0 ELSE began[c]]
      /\ UNCHANGED <<dtime, gc>>
  BY DEF ClientAct
<1>2. /\ OthersSame(c)
      /\ \A h \in Histories :
            \/ refs'[h].phase = refs[h].phase
            \/ refs[h].phase = "active" /\ refs'[h].phase = "deleting"
            \/ refs[h].phase = "none" /\ refs'[h].phase = "active"
      /\ \A h \in Histories : \A e \in EvId :
            \/ journal'[h][e] = journal[h][e]
            \/ cl[c].pc = "insert" /\ h = cl[c].h /\ e \in EventsOf(c)
  BY <1>0, <1>1, ClientPhases
<1>3. /\ began'[c] = IF cl'[c].pc = "idle" THEN 0 ELSE began[c]
      /\ \A d \in Clients : d # c => began'[d] = began[d] /\ cl'[d] = cl[d]
  BY <1>0, <1>1, <1>2 DEF OthersSame
<1>4. \A h \in Histories : \A d : KeptFor(h, d) =>
            refs'[h].phase \in {"active", "deleting"} /\ dtime'[h] <= d
  BY <1>1, <1>2 DEF KeptFor
<1>5. ClockInv'
  BY <1>0, <1>1, <1>2, <1>3 DEF TimeInv, ClockInv
<1>6. ASSUME NEW h \in Histories, refs[h].phase = "active"
      PROVE  \A d \in Nat : refs'[h].phase \in {"active", "deleting"} /\ dtime'[h] <= d
  <2>1. dtime[h] = 0
    BY <1>6 DEF TimeInv, ClockInv
  <2> QED
    BY <1>1, <1>2, <1>6, <2>1
<1>7. began' \in [Clients -> Nat]
  BY <1>0, <1>1
<1>8. FindClockInv'
  <2> SUFFICES ASSUME NEW d \in Clients, cl'[d].pc \in InFind
               PROVE  /\ refs'[cl'[d].h].phase \in {"active", "deleting"}
                      /\ dtime'[cl'[d].h] <= began'[d]
    BY DEF FindClockInv, KeptFor
  <2>1. CASE d # c
    BY <1>0, <1>3, <1>4, <2>1 DEF TimeInv, FindClockInv
  <2>2. CASE d = c
    <3>1. CASE FindMoves(c)
      <4>1. /\ cl[c].pc \in InFind /\ cl'[c].h = cl[c].h /\ began'[c] = began[c]
        BY <1>3, <2>2, <3>1 DEF FindMoves, KeepsCall, InFind
      <4> QED
        BY <1>0, <1>4, <2>2, <4>1 DEF TimeInv, FindClockInv
    <3>2. ASSUME NEW h \in Histories, NEW vid, FindBegins(c, h, vid)
          PROVE  /\ refs'[cl'[c].h].phase \in {"active", "deleting"}
                 /\ dtime'[cl'[c].h] <= began'[c]
      <4>1. cl'[c].h = h /\ refs[h].phase = "active"
        BY <3>2 DEF FindBegins
      <4> QED
        BY <1>6, <1>7, <4>1
    <3> QED
      BY <1>0, <1>1, <2>2, <3>1, <3>2, FindKinds
  <2> QED
    BY <2>1, <2>2
<1>9. TrimClockInv'
  <2>0. TrimClockInv /\ CallTicks <= CallTicks
    BY <1>0 DEF TimeInv
  <2>1. CASE UNCHANGED tr /\ (tr.pc = "find" /\ tr.c = c => CallStep(c))
    <3>1. CASE tr.pc = "find" /\ tr.c = c
      <4>1. FindMoves(c) \/ FindEnds(c)
        BY <1>0, <2>0, <2>1, <3>1, CallInFind DEF TrimClockInv
      <4>2. cl'[c].pc \in InFind \cup {"done"} /\ cl'[c].h = cl[c].h
        BY <4>1 DEF FindMoves, FindEnds, KeepsCall
      <4>3. began'[c] = began[c]
        BY <1>3, <4>2 DEF InFind
      <4> QED
        BY <1>0, <1>4, <2>0, <2>1, <3>1, <4>2, <4>3 DEF TrimClockInv, KeptFor
    <3>2. CASE tr.pc = "find" /\ tr.c # c
      BY <1>0, <1>3, <1>4, <2>0, <2>1, <3>2 DEF TrimClockInv, KeptFor
    <3>3. CASE tr.pc # "find"
      BY <1>0, <1>4, <2>0, <2>1, <3>3 DEF TrimClockInv, KeptFor
    <3> QED
      BY <3>1, <3>2, <3>3
  <2>2. ASSUME NEW h \in Histories, IsActive(h), FindBegin(c, h, EventEpoch),
               tr' = [tr EXCEPT !.pc = "find", !.h = h, !.todo = @ \ {h},
                                !.old = refs[h].epoch, !.c = c]
        PROVE  TrimClockInv'
    <3>1. tr'.pc = "find" /\ tr'.h = h /\ tr'.c = c
      BY <2>2 DEF MTypeInv, TrState
    <3>2. cl'[c].h = h /\ cl'[c].pc \in InFind
      BY <1>0, <2>2, FindBeginEffect DEF IsActive, InFind
    <3>3. refs'[h].phase \in {"active", "deleting"} /\ dtime'[h] <= began'[c]
      BY <1>6, <1>7, <2>2 DEF IsActive
    <3> QED
      BY <3>1, <3>2, <3>3 DEF TrimClockInv, KeptFor
  <2>3. ASSUME NEW e, tr' = [tr EXCEPT !.pc = "setEpoch", !.new = e],
               tr.pc = "find"
        PROVE  TrimClockInv'
    <3>1. tr'.pc = "setEpoch" /\ tr'.h = tr.h
      BY <2>3 DEF MTypeInv, TrState
    <3>2. KeptFor(tr.h, began[tr.c]) /\ began[tr.c] <= CallTicks
      BY <1>0, <2>0, <2>3 DEF TrimClockInv, TimeInv, ClockInv
    <3>3. KeptFor(tr.h, CallTicks)
      BY <1>0, <3>2 DEF KeptFor
    <3>4. refs'[tr.h].phase \in {"active", "deleting"} /\ dtime'[tr.h] <= CallTicks
      BY <1>0, <1>4, <3>3
    <3> QED
      BY <3>1, <3>4 DEF TrimClockInv, KeptFor
  <2>4. CASE tr'.pc \in {"idle", "epochs"}
    BY <2>4 DEF TrimClockInv
  <2> QED
    BY <2>1, <2>2, <2>3, <2>4 DEF ClientTrim
<1>10. RemovalInv'
  <2>0. RemovalInv
    BY DEF TimeInv
  <2>1. gc.pc \in {"removeJournal", "setDeleted"} =>
          refs'[gc.h].phase = "deleting" /\ dtime'[gc.h] > DeletingDuration
    BY <1>0, <1>1, <1>2, <2>0 DEF RemovalInv
  <2>2. ASSUME gc.pc = "setDeleted", NEW e \in EvId
        PROVE  journal'[gc.h][e] = 0
    <3>1. cl[c].pc \in InFind => cl[c].h # gc.h
      BY <2>2, RemovalWaits
    <3>2. journal'[gc.h][e] = journal[gc.h][e]
      BY <1>0, <1>2, <3>1 DEF InFind
    <3> QED
      BY <2>0, <2>2, <3>2 DEF RemovalInv, NoEntries
  <2>3. ASSUME NEW h \in Histories, refs'[h].phase \in {"none", "deleted"},
               NEW e \in EvId
        PROVE  journal'[h][e] = 0
    <3>1. refs[h].phase \in {"none", "deleted"}
      BY <1>2, <2>3
    <3>2. cl[c].pc \in InFind => cl[c].h # h
      BY <3>1 DEF TimeInv, FindClockInv, KeptFor
    <3>3. journal'[h][e] = journal[h][e]
      BY <1>2, <3>2 DEF InFind
    <3> QED
      BY <2>0, <3>1, <3>3 DEF RemovalInv, RemovedLeavesNoEntries
  <2> QED
    BY <1>1, <2>1, <2>2, <2>3 DEF RemovalInv, NoEntries, RemovedLeavesNoEntries
<1> QED
  BY <1>5, <1>8, <1>9, <1>10 DEF TimeInv

\* The trimmer writes, or only its or the collector's local variables change.
LEMMA TimeTrim ==
    ASSUME MTypeInv, TimeInv, TrimOnly \/ SetTail \/ SetEpoch \/ GcOnly
    PROVE  TimeInv'
<1>0. TypeInv /\ tr \in TrState /\ refs \in [Histories -> RefsDoc] /\ CallTicks \in Nat
  BY MaintenanceAssumption DEF MTypeInv, TypeInv, TypeOK
<1>1. /\ UNCHANGED <<cl, began, dtime, journal>>
      /\ \A h \in Histories : refs'[h].phase = refs[h].phase
  <2>1. CASE TrimOnly \/ GcOnly
    BY <2>1 DEF TrimOnly, GcOnly, vars
  <2>2. CASE SetTail \/ SetEpoch
    <3>1. /\ UNCHANGED <<nextId, parent, stored, journal, log, heads, cl>>
          /\ UNCHANGED <<etime, dtime, began, gc>>
          /\ \/ UNCHANGED <<refs, epochLog>>
             \/ \E h \in Histories : TailStep(h) \/ EpochStep(h)
      BY <1>0, <2>2, TrimmerUpdates
    <3> QED
      BY <3>1, TailStepFields, EpochStepFields
  <2> QED
    BY <2>1, <2>2
<1>2. RemovalInv'
  <2>0. RemovalInv
    BY DEF TimeInv
  <2>1. gc' = gc \/ gc'.pc \notin {"removeJournal", "setDeleted"}
    BY <1>0, TrimmerUpdates DEF TrimOnly, GcOnly
  <2>2. gc.h \in Histories
    BY DEF MTypeInv, GcState
  <2> QED
    BY <1>1, <2>0, <2>1, <2>2 DEF RemovalInv, NoEntries, RemovedLeavesNoEntries
<1>3. ClockInv' /\ FindClockInv'
  <2>1. \A c \in Clients : cl[c].h \in Histories
    BY <1>0, ClientTyped
  <2> QED
    BY <1>1, <2>1 DEF TimeInv, ClockInv, FindClockInv, KeptFor
<1>4. CASE tr' = tr
  <2>1. tr.h \in Histories
    BY <1>0 DEF TrState
  <2>2. TrimClockInv'
    BY <1>1, <1>4, <2>1 DEF TimeInv, TrimClockInv, KeptFor
  <2> QED
    BY <1>2, <1>3, <2>2 DEF TimeInv
<1>5. CASE tr'.pc \in {"idle", "tails", "epochs"}
  BY <1>2, <1>3, <1>5 DEF TimeInv, TrimClockInv
<1>6. ASSUME NEW h \in Histories, ReadTail(h), tr'.pc = "setTail"
      PROVE  TimeInv'
  <2>1. IsActive(h) /\ tr'.h = h
    <3>1. CASE TrSkip(h)
      <4>1. tr' = [tr EXCEPT !.todo = @ \ {h}] /\ tr.pc = "tails"
        BY <1>6, <3>1 DEF ReadTail, TrSkip, TrTo
      <4>2. tr'.pc = "tails"
        BY <1>0, <4>1 DEF TrState
      <4> QED
        BY <1>6, <4>2
    <3>2. CASE ~TrSkip(h)
      <4>1. PICK i \in NewTails(h) :
               /\ IsActive(h)
               /\ tr' = [tr EXCEPT !.pc = "setTail", !.h = h, !.todo = @ \ {h},
                                   !.old = refs[h].tail, !.new = epochLog[h][i].epoch]
        BY <1>6, <3>2 DEF ReadTail, TrTo
      <4> QED
        BY <1>0, <4>1 DEF TrState
    <3> QED
      BY <3>1, <3>2
  <2>2. dtime'[h] = 0 /\ refs'[h].phase = "active"
    BY <1>1, <2>1 DEF IsActive, TimeInv, ClockInv
  <2>3. TrimClockInv'
    BY <1>0, <1>6, <2>1, <2>2 DEF TrimClockInv, KeptFor
  <2> QED
    BY <1>2, <1>3, <2>3 DEF TimeInv
<1>7. \/ tr' = tr
      \/ tr'.pc \in {"idle", "tails", "epochs"}
      \/ \E h \in Histories : ReadTail(h) /\ tr'.pc = "setTail"
  BY <1>0, TrimmerUpdates DEF TrimOnly, GcOnly
<1> QED
  BY <1>4, <1>5, <1>6, <1>7

\* The collector writes.
LEMMA TimeGc ==
    ASSUME MTypeInv, TimeInv, GcStep
    PROVE  TimeInv'
<1>0. /\ TypeInv /\ tr \in TrState /\ refs \in [Histories -> RefsDoc]
      /\ CallTicks \in Nat /\ DeletingDuration \in Nat
      /\ dtime \in [Histories -> Nat] /\ gc.h \in Histories
      /\ tr.h \in Histories /\ tr.c \in Clients
      /\ \A c \in Clients : cl[c].h \in Histories
      /\ CallTicks <= DeletingDuration
      /\ RemovalInv
  BY MaintenanceAssumption, CallsAreShort, ClientTyped
  DEF MTypeInv, TypeInv, TypeOK, GcState, TrState, TimeInv
<1>1. ASSUME NEW e \in EvId, GcRemoveEvent(e) PROVE TimeInv'
  <2>1. /\ UNCHANGED <<refs, journal, cl, dtime, began, tr>>
        /\ gc'.pc = "sweep"
    BY <1>1, GcRemoveEventFields
  <2> QED
    BY <2>1 DEF TimeInv, ClockInv, FindClockInv, TrimClockInv, RemovalInv,
       KeptFor, NoEntries, RemovedLeavesNoEntries
<1>2. CASE GcRemoveTail \/ GcRemoveJournal
  <2>1. /\ UNCHANGED <<refs, cl, dtime, began, tr>>
        /\ \A h \in Histories : \A e \in EvId :
                 journal'[h][e] = 0 \/ journal'[h][e] = journal[h][e]
        /\ \/ gc'.pc = "tails"
           \/ /\ gc.pc = "removeJournal" /\ gc'.pc = "setDeleted" /\ gc'.h = gc.h
              /\ \A e \in EvId : journal'[gc.h][e] = 0
    BY <1>2, GcRemoveFields
  <2>2. ClockInv' /\ FindClockInv' /\ TrimClockInv'
    BY <2>1 DEF TimeInv, ClockInv, FindClockInv, TrimClockInv, KeptFor
  <2>3. RemovalInv'
    BY <1>0, <2>1 DEF RemovalInv, NoEntries, RemovedLeavesNoEntries
  <2> QED
    BY <2>2, <2>3 DEF TimeInv
<1>3. ASSUME NEW h \in Histories, GcInvalidate(h) PROVE TimeInv'
  <2>1. /\ UNCHANGED <<cl, dtime, began, tr, journal>>
        /\ \A g \in Histories : refs'[g].phase = refs[g].phase
        /\ \/ gc'.pc = "deleting"
           \/ /\ gc'.pc = "removeJournal" /\ gc'.h = h
              /\ refs[h].phase = "deleting" /\ dtime[h] > DeletingDuration
    BY <1>3, GcInvalidateFields
  <2>2. ClockInv' /\ FindClockInv' /\ TrimClockInv'
    BY <1>0, <2>1 DEF TimeInv, ClockInv, FindClockInv, TrimClockInv, KeptFor
  <2>3. RemovalInv'
    BY <1>0, <1>3, <2>1 DEF RemovalInv, NoEntries, RemovedLeavesNoEntries
  <2> QED
    BY <2>2, <2>3 DEF TimeInv
<1>4. CASE GcSetDeleted
  <2>1. /\ UNCHANGED <<cl, dtime, began, tr, journal>>
        /\ gc.pc = "setDeleted" /\ gc'.pc = "deleting"
        /\ \A g \in Histories : g # gc.h => refs'[g] = refs[g]
        /\ refs[gc.h].phase = "deleting" /\ refs'[gc.h].phase = "deleted"
        /\ dtime[gc.h] > DeletingDuration
        /\ NoEntries(gc.h)
    BY <1>0, <1>4, GcSetDeletedFields DEF RemovalInv
  <2>2. dtime[gc.h] > CallTicks
    BY <1>0, <2>1
  <2>3. ClockInv' /\ FindClockInv' /\ TrimClockInv'
    <3>1. \A h \in Histories :
              /\ refs[h].phase \in {"active", "deleting"} =>
                    \/ refs'[h].phase \in {"active", "deleting"}
                    \/ dtime[h] > CallTicks
              /\ refs'[h].phase \in {"none", "active"} =>
                    refs[h].phase \in {"none", "active"}
      BY <2>1, <2>2
    <3> QED
      BY <2>1, <3>1, TimeFramed
  <2>4. RemovalInv'
    BY <1>0, <2>1 DEF RemovalInv, NoEntries, RemovedLeavesNoEntries
  <2> QED
    BY <2>3, <2>4 DEF TimeInv
<1>5. CASE GcDeletedRefs
  <2>1. /\ \A h \in Histories : Gone(h) => refs'[h] = NoRefs /\ dtime'[h] = 0
        /\ \A h \in Histories : ~Gone(h) =>
              refs'[h] = refs[h] /\ dtime'[h] = dtime[h]
        /\ UNCHANGED <<journal, cl, began, tr>>
        /\ gc'.pc = "deleting"
    BY <1>5, GcDeletedRefsFields
  <2>2. NoRefs.phase = "none"
    BY DEF NoRefs
  <2>3. \A h \in Histories : \A d :
           KeptFor(h, d) => refs'[h].phase \in {"active", "deleting"} /\ dtime'[h] <= d
    BY <2>1 DEF KeptFor, Gone
  <2>4. ClockInv'
    BY <2>1, <2>2 DEF TimeInv, ClockInv, Gone
  <2>5. FindClockInv'
    BY <1>0, <2>1, <2>3 DEF TimeInv, FindClockInv, KeptFor
  <2>6. TrimClockInv'
    BY <1>0, <2>1, <2>3 DEF TimeInv, TrimClockInv, KeptFor
  <2>7. RemovalInv'
    <3>1. ASSUME NEW h \in Histories, refs'[h].phase \in {"none", "deleted"}
          PROVE  refs[h].phase \in {"none", "deleted"}
      BY <2>1, <3>1 DEF Gone
    <3> QED
      BY <1>0, <2>1, <3>1 DEF RemovalInv, RemovedLeavesNoEntries
  <2> QED
    BY <2>4, <2>5, <2>6, <2>7 DEF TimeInv
<1> QED
  BY <1>1, <1>2, <1>3, <1>4, <1>5 DEF GcStep

\* Types and time are an inductive invariant.
LEMMA TimeStep == MTypeInv /\ TimeInv /\ [MNext]_allVars => TimeInv'
<1> SUFFICES ASSUME MTypeInv, TimeInv, [MNext]_allVars PROVE TimeInv'
  OBVIOUS
<1>1. CASE UNCHANGED allVars
  BY <1>1 DEF allVars, mvars, vars, TimeInv, ClockInv, FindClockInv, TrimClockInv,
     RemovalInv, KeptFor, NoEntries, RemovedLeavesNoEntries
<1>2. TrimClockInv
  BY DEF TimeInv
<1> QED
  BY <1>1, <1>2, MStepKinds, TimeTick, TimeClient, TimeTrim, TimeGc, Zenon DEF GcStep

\* Initially nothing is there, and nobody is busy.
LEMMA MInitial == MInit => MTypeInv /\ TimeInv
<1> SUFFICES ASSUME MInit PROVE MTypeInv /\ TimeInv
  OBVIOUS
<1>1. TypeInv
  BY TypeInitial DEF MInit
<1>2. /\ etime = [e \in EvId |-> 0] /\ dtime = [h \in Histories |-> 0]
      /\ epochLog = [h \in Histories |-> << >>]
      /\ began = [c \in Clients |-> 0] /\ tr = TrimmerIdle /\ gc = GcIdle
      /\ refs = [h \in Histories |-> NoRefs]
      /\ journal = [h \in Histories |-> [e \in EvId |-> 0]]
      /\ cl = [c \in Clients |-> Idle]
  BY DEF MInit, Init
<1>3. MTypeInv
  <2>1. epochLog \in [Histories -> Seq([epoch : EvId, time : Nat])]
    BY <1>2, EmptySeq
  <2>2. tr \in TrState /\ gc \in GcState
    BY <1>2, IdleStates
  <2>3. tr.pc = "idle"
    BY <1>2, IdlePc
  <2>4. etime \in [EvId -> Nat] /\ dtime \in [Histories -> Nat] /\ began \in [Clients -> Nat]
    BY <1>2
  <2> QED
    BY <1>1, <2>1, <2>2, <2>3, <2>4 DEF MTypeInv
<1>4. TimeInv
  <2>1. CallTicks \in Nat
    BY MaintenanceAssumption
  <2>2. ClockInv
    BY <1>2, <2>1 DEF ClockInv
  <2>3. \A c \in Clients : cl[c].pc = "idle"
    BY <1>2, IdleTyped
  <2>4. tr.pc = "idle" /\ gc.pc = "idle"
    BY <1>2, IdlePc
  <2> QED
    BY <1>2, <2>2, <2>3, <2>4
    DEF TimeInv, FindClockInv, TrimClockInv, RemovalInv, InFind, RemovedLeavesNoEntries
<1> QED
  BY <1>3, <1>4

\* Nothing of a removed history is left in the journal, whatever finds run and
\* whenever the collector stops: GcInvalidate() waits for DeletingDuration, and
\* calls are shorter.
THEOREM RemovedJournalIsEmpty == MSpec => []RemovedLeavesNoEntries
<1>1. MInit => MTypeInv /\ TimeInv
  BY MInitial
<1>2. MTypeInv /\ TimeInv /\ [MNext]_allVars => (MTypeInv /\ TimeInv)'
  BY TimeStep, MTypeStep DEF TimeInv
<1>3. TimeInv => RemovedLeavesNoEntries
  BY DEF TimeInv, RemovalInv
<1> QED
  BY <1>1, <1>2, <1>3, PTL DEF MSpec

-----------------------------------------------------------------------------
(***************************************************************************)
(* The histories are chains of events, whatever is removed from the store. *)
(***************************************************************************)

\* Events of histories and of commits are events.
LEMMA EventsTyped ==
    ASSUME TypeInv
    PROVE  /\ \A h \in Histories : LogEvents(h) \subseteq EvId
           /\ \A c \in Clients : EventsOf(c) \subseteq EvId
           /\ EvId \subseteq Nat /\ nextId \in Nat
<1>1. ASSUME NEW h \in Histories PROVE LogEvents(h) \subseteq EvId
  <2>1. log[h] \in Seq(EvId)
    BY DEF TypeInv, TypeOK
  <2> QED
    BY <2>1, ElementOfSeq DEF LogEvents
<1>2. ASSUME NEW c \in Clients PROVE EventsOf(c) \subseteq EvId
  <2>1. cl[c].evs \in Seq(EvId)
    BY ClientTyped
  <2> QED
    BY <2>1, ElementOfSeq DEF EventsOf
<1>3. EvId \subseteq Nat /\ nextId \in Nat
  BY JournalAssumption DEF EvId, TypeInv, TypeOK
<1> QED
  BY <1>1, <1>2, <1>3

\* Ids that are given out later are greater.
LEMMA LogIsOld ==
    ASSUME TypeInv, LogInv
    PROVE  OldEvents
<1>1. ASSUME NEW h \in Histories PROVE HistoryInv(h)
  BY DEF LogInv
<1>2. ASSUME NEW h \in Histories, NEW e \in LogEvents(h) PROVE e < nextId
  BY <1>1 DEF HistoryInv, IsChain, LogEvents
<1>3. ASSUME NEW h \in Histories, NEW v \in heads[h] PROVE v < nextId
  BY <1>1, <1>2 DEF HistoryInv
<1>4. ASSUME NEW c \in Clients, Committing(c), NEW e \in EventsOf(c)
      PROVE  e < nextId
  <2>1. IsBatch(cl[c].evs, cl[c].vid, 0)
    BY <1>4 DEF LogInv
  <2> QED
    BY <2>1 DEF IsBatch, EventsOf
<1> QED
  BY <1>2, <1>3, <1>4 DEF OldEvents

\* What changes neither the histories nor the commits in flight.
LEMMA LogKept ==
    ASSUME TypeInv, LogInv, UNCHANGED <<nextId, parent, log, heads>>,
           \A h \in Histories :
              /\ refs'[h].head = refs[h].head
              /\ refs'[h].phase = "none" => refs[h].phase = "none"
              /\ refs[h].phase = "none" => refs'[h] = refs[h],
           \A d \in Clients : Committing(d)' =>
              Committing(d) /\ cl'[d].evs = cl[d].evs /\ cl'[d].vid = cl[d].vid
    PROVE  LogInv'
<1>0. /\ \A h \in Histories : HistoryInv(h)
      /\ \A g, h \in Histories : g # h => LogEvents(g) \cap LogEvents(h) = {}
      /\ \A c \in Clients : Committing(c) => IsBatch(cl[c].evs, cl[c].vid, 0)
      /\ FreshInv
  BY DEF LogInv
<1>1. \A h \in Histories : LogEvents(h)' = LogEvents(h)
  BY DEF LogEvents
<1>2. ASSUME NEW h \in Histories PROVE HistoryInv(h)'
  <2>1. IsChain(log[h], parent, EvId, nextId)'
    BY SMTT(30), <1>0 DEF HistoryInv, IsChain, Before, EvId
  <2>2. HistoryInv(h)
    BY <1>0
  <2> QED
    BY <1>1, <2>1, <2>2 DEF HistoryInv
<1>3. ASSUME NEW d \in Clients, Committing(d)'
      PROVE  IsBatch(cl[d].evs, cl[d].vid, 0)'
  <2>1. PICK E \in Seq(EvId) : E = cl[d].evs
    BY ClientTyped
  <2>2. PICK v : v = cl[d].vid
    OBVIOUS
  <2>3. IsBatch(E, v, 0)
    BY <1>0, <1>3, <2>1, <2>2
  <2>4. \A i \in 1..Len(E) : ~(i <= 0)
    OBVIOUS
  <2>5. IsBatch(E, v, 0)'
    BY <2>3, <2>4 DEF IsBatch
  <2> QED
    BY <1>3, <2>1, <2>2, <2>5 DEF IsBatch
<1>4. FreshInv'
  BY <1>0, FreshKept
<1>5. \A g, h \in Histories : g # h => LogEvents(g)' \cap LogEvents(h)' = {}
  BY <1>0, <1>1
<1> QED
  BY <1>2, <1>3, <1>4, <1>5 DEF LogInv

\* A commit begins.
LEMMA LogCommitBegin ==
    ASSUME TypeInv, TypeInv', LogInv, NEW c \in Clients, NEW h \in Histories,
           NEW vid \in KnownVids(h), NEW n \in 1..MaxBatch,
           CommitBegin(c, h, vid, n)
    PROVE  LogInv'
<1>0. /\ \A g \in Histories : HistoryInv(g)
      /\ \A f, g \in Histories : g # f => LogEvents(g) \cap LogEvents(f) = {}
      /\ \A d \in Clients : Committing(d) => IsBatch(cl[d].evs, cl[d].vid, 0)
      /\ FreshInv
  BY DEF LogInv
<1>1. /\ nextId \in Nat /\ nextId' \in Nat /\ n \in Nat /\ n >= 1
      /\ nextId' = nextId + n
      /\ nextId >= 1 /\ nextId + n <= MaxEvents + 1
      /\ UNCHANGED <<stored, refs, journal, log, heads>>
  BY JournalAssumption DEF CommitBegin, TypeInv, TypeOK
<1>2. \A e \in EvId : e < nextId => parent'[e] = parent[e]
  BY <1>1 DEF CommitBegin, EvId
<1>3. OldEvents /\ FreshInv'
  BY <1>0, LogIsOld, FreshCommitBegin
<1>4. vid < nextId
  <2>1. CASE vid = EventEpoch
    BY <1>1, <2>1 DEF EventEpoch
  <2>2. CASE vid \in heads[h]
    BY <1>3, <2>2 DEF OldEvents
  <2> QED
    BY <2>1, <2>2 DEF KnownVids
<1>5. \A g \in Histories : LogEvents(g)' = LogEvents(g)
  BY <1>1 DEF LogEvents
<1>6. ASSUME NEW g \in Histories PROVE HistoryInv(g)'
  <2>1. log[g] \in Seq(EvId) /\ IsChain(log[g], parent, EvId, nextId)
    BY <1>0 DEF TypeInv, TypeOK, HistoryInv
  <2>2. nextId <= nextId'
    BY <1>1
  <2>3. IsChain(log[g], parent', EvId, nextId')
    BY <1>1, <1>2, <2>1, <2>2, ChainKept
  <2> QED
    BY <1>0, <1>1, <1>5, <2>3 DEF HistoryInv
<1>7. ASSUME NEW d \in Clients, Committing(d)'
      PROVE  IsBatch(cl[d].evs, cl[d].vid, 0)'
  <2>1. CASE d = c
    BY <1>4, <2>1, NewBatch DEF IsBatch
  <2>2. CASE d # c
    <3>1. cl'[d] = cl[d]
      BY <2>2, OthersKept DEF CommitBegin
    <3>2. PICK E \in Seq(EvId) : E = cl[d].evs
      BY ClientTyped
    <3>3. PICK v : v = cl[d].vid
      OBVIOUS
    <3>4. IsBatch(E, v, 0)
      BY <1>0, <1>7, <3>1, <3>2, <3>3 DEF Committing
    <3>5. nextId <= nextId' /\ stored \subseteq stored'
      BY <1>1
    <3>6. IsBatch(E, v, 0)'
      BY <1>1, <1>2, <3>4, <3>5, BatchKept
    <3> QED
      BY <3>1, <3>2, <3>3, <3>6 DEF IsBatch
  <2> QED
    BY <2>1, <2>2
<1>8. \A f, g \in Histories : g # f => LogEvents(g)' \cap LogEvents(f)' = {}
  BY <1>0, <1>5
<1> QED
  BY <1>3, <1>6, <1>7, <1>8 DEF LogInv

\* A head moves.
LEMMA LogHeadStep ==
    ASSUME TypeInv, TypeInv', LogInv, NEW c \in Clients, NEW h \in Histories,
           HeadStep(c, h)
    PROVE  LogInv'
<1>0. /\ \A g \in Histories : HistoryInv(g)
      /\ \A f, g \in Histories : g # f => LogEvents(g) \cap LogEvents(f) = {}
      /\ \A d \in Clients : Committing(d) => IsBatch(cl[d].evs, cl[d].vid, 0)
      /\ FreshInv
  BY DEF LogInv
<1>1. PICK L, E : /\ L = log[h] /\ L \in Seq(EvId) /\ Len(L) \in Nat
                  /\ E = cl[c].evs /\ E \in Seq(EvId) /\ Len(E) \in Nat
  BY ClientTyped DEF TypeInv, TypeOK
<1>2. /\ log'[h] = L \o E
      /\ LogEvents(h)' = LogEvents(h) \cup EventsOf(c)
      /\ \A g \in Histories : g # h =>
            log'[g] = log[g] /\ LogEvents(g)' = LogEvents(g)
  BY <1>1, LogAfterHeadStep
<1>3. /\ UNCHANGED <<nextId, parent>> /\ OthersSame(c)
      /\ ~Committing(c)' /\ Committing(c)
      /\ refs'[h].phase = "active" /\ refs'[h].head = E[Len(E)]
      /\ heads'[h] = heads[h] \cup {E[Len(E)]}
      /\ \A g \in Histories : g # h =>
            refs'[g] = refs[g] /\ heads'[g] = heads[g]
  BY <1>1 DEF HeadStep, Committing, TypeInv, TypeOK
<1>4. IsBatch(E, cl[c].vid, 0) /\ IsChain(L, parent, EvId, nextId)
  BY <1>0, <1>1, <1>3 DEF HistoryInv
<1>5. Before(L, Len(L) + 1) = cl[c].vid
  <2>1. HistoryInv(h)
    BY <1>0
  <2>2. CASE refs[h].phase = "none" /\ cl[c].vid = EventEpoch
    BY <1>1, <2>1, <2>2 DEF HistoryInv, Before
  <2>3. CASE refs[h].phase = "active" /\ cl[c].vid = refs[h].head
    <3>1. L # << >> /\ refs[h].head = L[Len(L)]
      BY <1>1, <2>1, <2>3 DEF HistoryInv
    <3>2. Len(L) + 1 # 1 /\ (Len(L) + 1) - 1 = Len(L)
      BY <1>1, <3>1, EmptySeq
    <3> QED
      BY <2>3, <3>1, <3>2 DEF Before
  <2> QED
    BY <2>2, <2>3 DEF HeadStep
<1>6. /\ IsChain(L \o E, parent, EvId, nextId)
      /\ Len(L \o E) = Len(L) + Len(E)
      /\ (L \o E)[Len(L \o E)] = E[Len(E)]
  <2>1. \A i \in 1..Len(E) : E[i] \in EvId
    BY <1>1, ElementOfSeq
  <2>2. /\ Len(E) > 0 /\ parent[E[1]] = Before(L, Len(L) + 1)
        /\ Before(L, Len(L) + 1) < E[1]
        /\ \A i \in 1..Len(E) : /\ E[i] \in EvId
                                /\ E[i] < nextId
                                /\ E[i] = E[1] + i - 1
                                /\ i > 1 => parent[E[i]] = E[i - 1]
    BY <1>4, <1>5, <2>1 DEF IsBatch
  <2> QED
    BY ZenonT(40), <1>1, <1>4, <2>2, ChainExtended
<1>7. PICK M : M = L \o E
  OBVIOUS
<1>8. ASSUME NEW g \in Histories PROVE HistoryInv(g)'
  <2>1. CASE g = h
    <3>1. IsChain(M, parent, EvId, nextId)'
      BY <1>3, <1>6, <1>7 DEF IsChain, Before, EvId
    <3>2. Len(E) > 0
      BY <1>4 DEF IsBatch
    <3>3. M # << >> /\ refs'[h].head = M[Len(M)]
      <4>1. Len(M) > 0 /\ M \in Seq(EvId)
        <5>1. M \in Seq(EvId)
          BY <1>1, <1>7
        <5>2. Len(M) = Len(L) + Len(E)
          BY <1>6, <1>7
        <5>3. Len(L) \in Nat /\ Len(E) \in Nat
          BY <1>1
        <5>4. Len(M) > 0
          BY <3>2, <5>2, <5>3
        <5> QED
          BY <5>1, <5>4
      <4> QED
        BY <1>3, <1>6, <1>7, <4>1, EmptySeq
    <3>4. E[Len(E)] \in EventsOf(c)
      BY <1>1, <3>2 DEF EventsOf
    <3>5. heads'[h] \subseteq LogEvents(h)'
      BY <1>0, <1>2, <1>3, <3>4 DEF HistoryInv
    <3> QED
      BY <1>2, <1>3, <1>7, <2>1, <3>1, <3>3, <3>5 DEF HistoryInv
  <2>2. CASE g # h
    <3>1. HistoryInv(g)
      BY <1>0
    <3>2. IsChain(log[g], parent, EvId, nextId)'
      BY <1>2, <1>3, <2>2, <3>1 DEF HistoryInv, IsChain, Before, EvId
    <3> QED
      BY <1>2, <1>3, <2>2, <3>1, <3>2 DEF HistoryInv
  <2> QED
    BY <2>1, <2>2
<1>9. ASSUME NEW d \in Clients, Committing(d)'
      PROVE  IsBatch(cl[d].evs, cl[d].vid, 0)'
  <2>1. d # c /\ cl'[d] = cl[d] /\ Committing(d)
    BY <1>3, <1>9 DEF OthersSame, Committing
  <2>2. IsBatch(cl[d].evs, cl[d].vid, 0)
    BY <1>0, <2>1
  <2>3. \A i \in 1..Len(cl[d].evs) : ~(i <= 0)
    OBVIOUS
  <2> QED
    BY <1>3, <2>1, <2>2, <2>3 DEF IsBatch
<1>10. FreshInv'
  BY <1>0, FreshHeadStep
<1>11. EventsOf(c) \cap LogEvents(h) = {}
       /\ \A g \in Histories : EventsOf(c) \cap LogEvents(g) = {}
  BY <1>0, <1>3 DEF FreshInv
<1>12. \A f, g \in Histories : g # f => LogEvents(g)' \cap LogEvents(f)' = {}
  BY <1>0, <1>2, <1>11
<1> QED
  BY <1>8, <1>9, <1>10, <1>12 DEF LogInv

\* Histories are removed.
LEMMA LogGone ==
    ASSUME MTypeInv, LogInv, GcDeletedRefs
    PROVE  LogInv'
<1>0. /\ \A g \in Histories : HistoryInv(g)
      /\ \A f, g \in Histories : g # f => LogEvents(g) \cap LogEvents(f) = {}
      /\ \A d \in Clients : Committing(d) => IsBatch(cl[d].evs, cl[d].vid, 0)
      /\ FreshInv
  BY DEF LogInv
<1>1. /\ \A h \in Histories : Gone(h) =>
            refs'[h] = NoRefs /\ log'[h] = << >> /\ heads'[h] = {}
      /\ \A h \in Histories : ~Gone(h) =>
            refs'[h] = refs[h] /\ log'[h] = log[h] /\ heads'[h] = heads[h]
      /\ UNCHANGED <<nextId, parent, cl>>
  BY GcDeletedRefsFields
<1>2. \A h \in Histories :
         /\ LogEvents(h)' \subseteq LogEvents(h)
         /\ ~Gone(h) => LogEvents(h)' = LogEvents(h)
  <2>1. ASSUME NEW h \in Histories, Gone(h) PROVE LogEvents(h)' = {}
    <3>1. log'[h] = << >>
      BY <1>1, <2>1
    <3> QED
      BY <3>1 DEF LogEvents
  <2>2. ASSUME NEW h \in Histories, ~Gone(h) PROVE LogEvents(h)' = LogEvents(h)
    BY <1>1, <2>2 DEF LogEvents
  <2> QED
    BY <2>1, <2>2
<1>3. ASSUME NEW h \in Histories PROVE HistoryInv(h)'
  <2>1. CASE Gone(h)
    <3>1. refs'[h] = NoRefs /\ log'[h] = << >> /\ heads'[h] = {}
      BY <1>1, <2>1
    <3>2. NoRefs.phase = "none"
      BY DEF NoRefs
    <3>3. IsChain(log'[h], parent', EvId, nextId')
      BY <3>1 DEF IsChain
    <3> QED
      BY <3>1, <3>2, <3>3 DEF HistoryInv
  <2>2. CASE ~Gone(h)
    <3>1. HistoryInv(h)
      BY <1>0
    <3>2. IsChain(log'[h], parent', EvId, nextId')
      BY <1>1, <2>2, <3>1 DEF HistoryInv
    <3> QED
      BY <1>1, <1>2, <2>2, <3>1, <3>2 DEF HistoryInv
  <2> QED
    BY <2>1, <2>2
<1>4. \A d \in Clients : Committing(d)' =>
         Committing(d) /\ EventsOf(d)' = EventsOf(d)
  BY <1>1 DEF Committing, EventsOf
<1>5. FreshInv'
  <2>1. \A h \in Histories : refs'[h].phase = "none" => refs'[h].head = EventEpoch
    BY <1>0, <1>1 DEF FreshInv, NoRefs
  <2>2. \A e \in EvId : parent'[e] < e
    BY <1>0, <1>1 DEF FreshInv
  <2>3. ASSUME NEW d \in Clients, Committing(d)'
        PROVE  /\ Len(cl'[d].evs) \in 1..MaxBatch
               /\ \A h \in Histories : EventsOf(d)' \cap LogEvents(h)' = {}
               /\ \A b \in Clients : b # d /\ Committing(b)' =>
                     EventsOf(d)' \cap EventsOf(b)' = {}
    <3>1. /\ Len(cl[d].evs) \in 1..MaxBatch
          /\ \A h \in Histories : EventsOf(d) \cap LogEvents(h) = {}
          /\ \A b \in Clients : b # d /\ Committing(b) =>
                EventsOf(d) \cap EventsOf(b) = {}
      BY <1>0, <1>4, <2>3 DEF FreshInv
    <3>2. \A h \in Histories : EventsOf(d)' \cap LogEvents(h)' = {}
      BY <1>2, <1>4, <2>3, <3>1
    <3>3. \A b \in Clients : b # d /\ Committing(b)' =>
                     EventsOf(d)' \cap EventsOf(b)' = {}
      BY <1>4, <2>3, <3>1
    <3> QED
      BY <1>1, <3>1, <3>2, <3>3
  <2> QED
    BY <2>1, <2>2, <2>3 DEF FreshInv
<1>6. \A f, g \in Histories : g # f => LogEvents(g)' \cap LogEvents(f)' = {}
  BY <1>0, <1>2
<1>7. ASSUME NEW d \in Clients, Committing(d)'
      PROVE  IsBatch(cl[d].evs, cl[d].vid, 0)'
  <2>1. IsBatch(cl[d].evs, cl[d].vid, 0)
    BY <1>0, <1>4, <1>7
  <2>2. \A i \in 1..Len(cl[d].evs) : ~(i <= 0)
    OBVIOUS
  <2> QED
    BY <1>1, <2>1, <2>2 DEF IsBatch
<1> QED
  BY <1>3, <1>5, <1>6, <1>7 DEF LogInv

\* The histories stay chains.
LEMMA LogStep ==
    ASSUME MTypeInv, MTypeInv', TimeInv, LogInv, [MNext]_allVars
    PROVE  LogInv'
<1>0. /\ TypeInv /\ TypeInv' /\ TrimClockInv /\ tr \in TrState
      /\ gc.h \in Histories
  BY DEF MTypeInv, TimeInv, GcState
<1>1. ASSUME UNCHANGED <<nextId, parent, log, heads, cl>>,
             \A h \in Histories :
                /\ refs'[h].head = refs[h].head
                /\ refs'[h].phase = "none" => refs[h].phase = "none"
                /\ refs[h].phase = "none" => refs'[h] = refs[h]
      PROVE  LogInv'
  BY <1>0, <1>1, LogKept DEF Committing
<1>2. CASE UNCHANGED allVars \/ Tick \/ TrimOnly \/ GcOnly
  <2>1. UNCHANGED vars
    BY <1>2 DEF allVars, Tick, TrimOnly, GcOnly
  <2> QED
    BY <1>1, <2>1 DEF vars
<1>3. ASSUME NEW c \in Clients, ClientAct(c) PROVE LogInv'
  <2>0. ClientNext(c)
    BY <1>3 DEF ClientAct
  <2>1. CASE QuietStep(c)
    <3>1. \A d \in Clients : Committing(d)' =>
             Committing(d) /\ cl'[d].evs = cl[d].evs /\ cl'[d].vid = cl[d].vid
      BY <2>1 DEF QuietStep, Committing, OthersSame
    <3>2. /\ UNCHANGED <<nextId, parent, log, heads>>
          /\ \A h \in Histories :
                /\ refs'[h].head = refs[h].head
                /\ refs'[h].phase = "none" => refs[h].phase = "none"
                /\ refs[h].phase = "none" => refs'[h] = refs[h]
      BY <2>1 DEF QuietStep
    <3> QED
      BY <1>0, <3>1, <3>2, LogKept
  <2>2. ASSUME NEW g \in Histories, DeleteStep(g) PROVE LogInv'
    <3>1. /\ UNCHANGED <<nextId, parent, log, heads, cl>>
          /\ \A h \in Histories :
                /\ refs'[h].head = refs[h].head
                /\ refs'[h].phase = "none" => refs[h].phase = "none"
                /\ refs[h].phase = "none" => refs'[h] = refs[h]
      BY <2>2 DEF DeleteStep
    <3> QED
      BY <1>1, <3>1
  <2>3. CASE StoreStepOf(c)
    <3>1. \A d \in Clients : Committing(d)' =>
             Committing(d) /\ cl'[d].evs = cl[d].evs /\ cl'[d].vid = cl[d].vid
      BY <2>3 DEF StoreStepOf, Committing, OthersSame
    <3>2. UNCHANGED <<nextId, parent, log, heads, refs>>
      BY <2>3 DEF StoreStepOf
    <3> QED
      BY <1>0, <3>1, <3>2, LogKept
  <2> QED
    BY <1>0, <2>0, <2>1, <2>2, <2>3, ClientKinds, LogHeadStep, LogCommitBegin
<1>4. CASE SetTail \/ SetEpoch
  <2>1. /\ UNCHANGED <<nextId, parent, stored, journal, log, heads, cl>>
        /\ \/ UNCHANGED <<refs, epochLog>>
           \/ \E h \in Histories : TailStep(h) \/ EpochStep(h)
    BY <1>0, <1>4, TrimmerUpdates
  <2>2. ASSUME NEW h \in Histories, TailStep(h) PROVE LogInv'
    <3>1. \A g \in Histories :
                 /\ refs'[g].head = refs[g].head
                 /\ refs'[g].phase = refs[g].phase
                 /\ g # h => refs'[g] = refs[g]
      BY <2>2, TailStepFields
    <3> QED
      BY <1>1, <2>1, <2>2, <3>1 DEF TailStep, Exists
  <2>3. ASSUME NEW h \in Histories, EpochStep(h) PROVE LogInv'
    <3>1. \A g \in Histories :
                 /\ refs'[g].head = refs[g].head
                 /\ refs'[g].phase = refs[g].phase
                 /\ g # h => refs'[g] = refs[g]
      BY <2>3, EpochStepFields
    <3> QED
      BY <1>1, <2>1, <2>3, <3>1 DEF EpochStep, Exists
  <2> QED
    BY <1>1, <2>1, <2>2, <2>3
<1>5. ASSUME NEW e \in EvId, GcRemoveEvent(e) PROVE LogInv'
  BY <1>1, <1>5, GcRemoveEventFields
<1>6. CASE GcRemoveTail \/ GcRemoveJournal
  BY <1>1, <1>6, GcRemoveFields
<1>7. ASSUME NEW h \in Histories, GcInvalidate(h) PROVE LogInv'
  <2>1. /\ UNCHANGED <<nextId, parent, stored, journal, log, heads, cl>>
        /\ \A g \in Histories :
                 /\ refs'[g].head = refs[g].head
                 /\ refs'[g].phase = refs[g].phase
                 /\ refs[g].phase # "deleting" => refs'[g] = refs[g]
    BY <1>7, GcInvalidateFields
  <2> QED
    BY <1>1, <2>1
<1>8. CASE GcSetDeleted
  <2>1. /\ UNCHANGED <<nextId, parent, stored, journal, log, heads, cl>>
        /\ gc.pc = "setDeleted"
        /\ \A g \in Histories :
                 /\ refs'[g].head = refs[g].head
                 /\ g # gc.h => refs'[g] = refs[g]
        /\ refs'[gc.h].phase = IF refs[gc.h].phase = "deleting" THEN "deleted"
                                  ELSE refs[gc.h].phase
    BY <1>8, GcSetDeletedFields
  <2>2. refs[gc.h].phase = "deleting"
    BY <2>1 DEF TimeInv, RemovalInv
  <2> QED
    BY <1>1, <2>1, <2>2
<1> QED
  BY <1>0, <1>2, <1>3, <1>4, <1>5, <1>6, <1>7, <1>8, MStepKinds, LogGone, Zenon

-----------------------------------------------------------------------------
(***************************************************************************)
(* Epochs and tails are events of their history, and only advance.         *)
(***************************************************************************)

\* The parent of an event of a history is one of its events, or none.
LEMMA ParentInLog ==
    ASSUME TypeInv, LogInv, NEW h \in Histories, NEW e \in LogEvents(h)
    PROVE  /\ parent[e] \in LogEvents(h) \cup {EventEpoch}
           /\ e \in EvId /\ parent[e] \in Vid /\ parent[e] < e
<1>1. /\ log[h] \in Seq(EvId) /\ IsChain(log[h], parent, EvId, nextId)
      /\ FreshInv /\ parent \in [EvId -> Vid]
  BY DEF TypeInv, TypeOK, LogInv, HistoryInv
<1>2. PICK i \in 1..Len(log[h]) : e = log[h][i]
  BY DEF LogEvents
<1>3. e \in EvId /\ parent[e] = Before(log[h], i)
  BY <1>1, <1>2 DEF IsChain
<1>4. i # 1 => i - 1 \in 1..Len(log[h])
  BY <1>1, <1>2
<1>5. parent[e] \in LogEvents(h) \cup {EventEpoch}
  BY <1>3, <1>4 DEF Before, LogEvents
<1> QED
  BY <1>1, <1>3, <1>5 DEF FreshInv

\* The head is an event of its history.
LEMMA HeadInLog ==
    ASSUME TypeInv, LogInv, NEW h \in Histories, refs[h].phase # "none"
    PROVE  refs[h].head \in LogEvents(h)
<1>1. /\ log[h] \in Seq(EvId) /\ log[h] # << >>
      /\ refs[h].head = log[h][Len(log[h])]
  BY DEF TypeInv, TypeOK, LogInv, HistoryInv
<1>2. Len(log[h]) \in 1..Len(log[h])
  BY <1>1, EmptySeq
<1> QED
  BY <1>1, <1>2 DEF LogEvents

\* What keeps the epochs of a history.
EpochFrame(h) ==
    /\ LogEvents(h) \subseteq LogEvents(h)'
    /\ EpochsKept(h)
    /\ refs'[h].tail = refs[h].tail
    /\ refs'[h].epoch = refs[h].epoch

\* What they were they stay.
LEMMA EpochsInvKept ==
    ASSUME NEW h \in Histories, EpochsInv(h), EpochFrame(h),
           epochLog[h] \in Seq(EpochEntry), epochLog'[h] \in Seq(EpochEntry)
    PROVE  EpochsInv(h)'
<1>1. PICK n \in Nat : n = Len(epochLog[h]) /\ n = Len(epochLog'[h])
  BY LenProperties DEF EpochFrame, EpochsKept
<1>2. \A i \in 1..n : epochLog'[h][i].epoch = epochLog[h][i].epoch
  BY <1>1 DEF EpochFrame, EpochsKept
<1>3. n # 0 => n \in 1..n
  OBVIOUS
<1>4. /\ \A i \in 1..n : epochLog[h][i].epoch \in LogEvents(h)
      /\ \A i, j \in 1..n : i < j => epochLog[h][i].epoch < epochLog[h][j].epoch
      /\ refs[h].epoch = IF n = 0 THEN EventEpoch ELSE epochLog[h][n].epoch
      /\ refs[h].tail # EventEpoch =>
            \E i \in 1..n : epochLog[h][i].epoch = refs[h].tail
  BY <1>1 DEF EpochsInv
<1>5. \A i \in 1..n : epochLog'[h][i].epoch \in LogEvents(h)'
  BY <1>2, <1>4 DEF EpochFrame
<1>6. \A i, j \in 1..n : i < j => epochLog'[h][i].epoch < epochLog'[h][j].epoch
  BY <1>2, <1>4
<1>7. refs'[h].epoch = IF n = 0 THEN EventEpoch ELSE epochLog'[h][n].epoch
  BY <1>2, <1>3, <1>4 DEF EpochFrame
<1>8. refs'[h].tail # EventEpoch =>
            \E i \in 1..n : epochLog'[h][i].epoch = refs'[h].tail
  BY <1>2, <1>4 DEF EpochFrame
<1> QED
  BY <1>1, <1>5, <1>6, <1>7, <1>8 DEF EpochsInv

\* What finds have read stays in the history.
LEMMA FindLogKept ==
    ASSUME TypeInv, NEW d \in Clients, FindLogInv(cl[d]), cl'[d] = cl[d],
           \A g \in Histories : cl[d].pc \in InFind /\ cl[d].h = g =>
              LogEvents(g) \subseteq LogEvents(g)'
    PROVE  FindLogInv(cl[d])'
<1>1. CASE cl[d].pc \in InFind
  <2>1. PICK g \in Histories : g = cl[d].h
    BY ClientTyped
  <2>2. LogEvents(g) \subseteq LogEvents(g)'
    BY <1>1, <2>1
  <2>3. LogEvents(cl[d].h) = LogEvents(g) /\ LogEvents(cl[d].h)' = LogEvents(g)'
    BY <2>1 DEF LogEvents
  <2> QED
    BY <2>2, <2>3 DEF FindLogInv
<1>2. CASE cl[d].pc \notin InFind
  BY <1>2 DEF FindLogInv, InFind
<1> QED
  BY <1>1, <1>2

\* A find reads on.
LEMMA FindLogMoves ==
    ASSUME TypeInv, TypeInv', LogInv, NEW c \in Clients, FindLogInv(cl[c]),
           NEW g \in Histories, g = cl[c].h,
           LogEvents(g) \subseteq LogEvents(g)', FindMoves(c)
    PROVE  FindLogInv(cl[c])'
<1> DEFINE s == cl[c]
           t == cl'[c]
           E == {s.evs[i] : i \in 1..Len(s.evs)}
           F == {t.evs[i] : i \in 1..Len(t.evs)}
<1>0. /\ s.h = g /\ LogEvents(s.h) = LogEvents(g)
      /\ LogEvents(cl[c].h)' = LogEvents(g)'
      /\ s.evs \in Seq(EvId) /\ Len(s.evs) \in Nat
      /\ t.h = s.h /\ s.cur \in Vid
  BY SMTT(30), ClientTyped DEF FindMoves, KeepsCall, LogEvents
<1>1. /\ s.pc \in {"walkSerial", "walkEvent", "insert"} => E \subseteq LogEvents(g)
      /\ s.pc \in {"walkSerial", "walkEvent"} =>
            s.cur \in LogEvents(g) \cup {EventEpoch}
      /\ s.pc = "walkEvent" => s.cur # EventEpoch
  BY <1>0 DEF FindLogInv
<1>2. CASE s.pc = "walkSerial"
  <2>1. /\ t.evs = s.evs /\ t.pc \in {"walkEvent", "insert"}
        /\ t.pc = "walkEvent" => t.cur = s.cur /\ s.cur # EventEpoch
    BY <1>2 DEF FindMoves
  <2>2. F = E
    BY <2>1
  <2>3. F \subseteq LogEvents(g)'
    BY <1>0, <1>1, <1>2, <2>2
  <2>4. t.pc = "walkEvent" => t.cur \in LogEvents(g)' /\ t.cur # EventEpoch
    BY <1>0, <1>1, <1>2, <2>1
  <2> QED
    BY <1>0, <2>1, <2>3, <2>4 DEF FindLogInv
<1>3. CASE s.pc = "walkEvent"
  <2>1. /\ t.evs = Append(s.evs, s.cur) /\ t.pc \in {"walkSerial", "insert"}
        /\ t.pc = "walkSerial" => t.cur = parent[s.cur]
    BY <1>3 DEF FindMoves
  <2>2. s.cur \in LogEvents(g) /\ s.cur \in EvId
    BY <1>0, <1>1, <1>3, VidIsEvent
  <2>3. PICK A \in Seq(EvId), x \in EvId : A = s.evs /\ x = s.cur
    BY <1>0, <2>2
  <2>4. \A i \in 1..Len(Append(A, x)) :
           \/ Append(A, x)[i] = x
           \/ i \in 1..Len(A) /\ Append(A, x)[i] = A[i]
    <3>1. /\ Len(Append(A, x)) = Len(A) + 1 /\ Len(A) \in Nat
          /\ Append(A, x)[Len(A) + 1] = x
          /\ \A i \in 1..Len(A) : Append(A, x)[i] = A[i]
      BY AppendProperties
    <3> QED
      BY <3>1
  <2>5. F \subseteq LogEvents(g)
    BY <1>1, <1>3, <2>1, <2>2, <2>3, <2>4
  <2>6. F \subseteq LogEvents(g)'
    BY <1>0, <2>5
  <2>7. t.pc = "walkSerial" => t.cur \in LogEvents(g)' \cup {EventEpoch}
    BY <1>0, <2>1, <2>2, ParentInLog
  <2> QED
    BY <1>0, <2>1, <2>6, <2>7 DEF FindLogInv
<1>4. CASE s.pc = "insert"
  <2>1. t.evs = s.evs /\ t.pc \in {"insert", "start"}
    BY <1>4 DEF FindMoves
  <2>2. F \subseteq LogEvents(g)'
    BY <1>0, <1>1, <1>4, <2>1
  <2> QED
    BY <1>0, <2>1, <2>2 DEF FindLogInv
<1>5. CASE s.pc \in {"start", "iter"}
  <2>1. t.pc = "iter"
    BY <1>5 DEF FindMoves
  <2> QED
    BY <1>0, <2>1 DEF FindLogInv
<1> QED
  BY <1>2, <1>3, <1>4, <1>5 DEF FindMoves, InFind

\* A find begins at the head.
LEMMA FindLogBegins ==
    ASSUME TypeInv, LogInv, NEW c \in Clients, NEW h \in Histories, NEW vid,
           LogEvents(h) \subseteq LogEvents(h)', FindBegins(c, h, vid)
    PROVE  FindLogInv(cl[c])'
<1> DEFINE t == cl'[c]
           F == {t.evs[i] : i \in 1..Len(t.evs)}
<1>1. /\ refs[h].phase = "active" /\ t.h = h /\ t.evs = << >>
      /\ t.pc \in {"start", "walkSerial"}
      /\ t.pc = "walkSerial" => t.cur = refs[h].head
  BY DEF FindBegins
<1>2. F = {}
  BY <1>1
<1>3. refs[h].head \in LogEvents(h)'
  BY <1>1, HeadInLog
<1>4. LogEvents(cl[c].h)' = LogEvents(h)'
  BY <1>1 DEF LogEvents
<1> QED
  BY <1>1, <1>2, <1>3, <1>4 DEF FindLogInv


\* Steps that keep the epochs: who takes them and what entries they leave.
EpochQuiet ==
    /\ \A h \in Histories : EpochFrame(h)
    /\ \/ /\ UNCHANGED cl
          /\ \A h \in Histories : \A e \in EvId :
                journal'[h][e] \in {0, journal[h][e]}
          /\ \/ tr' = tr
             \/ tr'.pc \in {"idle", "tails", "epochs"}
             \/ \E h \in Histories : ReadTail(h) /\ tr'.pc = "setTail"
       \/ \E c \in Clients : ClientAct(c) /\ ClientTrim(c)

\* Nothing but the documents of one history changes.
DocStep(h) ==
    /\ UNCHANGED <<nextId, parent, stored, journal, log, heads, cl>>
    /\ tr'.pc \in {"idle", "tails", "epochs"}
    /\ TailStep(h) \/ EpochStep(h)

\* A step of a client keeps the epochs.
LEMMA ClientFrame ==
    ASSUME MTypeInv, LogInv, NEW c \in Clients, ClientAct(c),
           NEW h \in Histories
    PROVE  EpochFrame(h)
<1>0. TypeInv /\ ClientNext(c) /\ epochLog' = epochLog
  BY DEF MTypeInv, ClientAct
<1>1. EpochsKept(h)
  BY <1>0 DEF EpochsKept
<1>2. CASE QuietStep(c)
  BY <1>1, <1>2 DEF QuietStep, EpochFrame, LogEvents
<1>3. ASSUME NEW g \in Histories, DeleteStep(g) PROVE EpochFrame(h)
  <2>1. refs'[h].tail = refs[h].tail /\ refs'[h].epoch = refs[h].epoch
    BY <1>3 DEF DeleteStep
  <2> QED
    BY <1>1, <1>3, <2>1 DEF DeleteStep, EpochFrame, LogEvents
<1>4. ASSUME NEW g \in Histories, HeadStep(c, g) PROVE EpochFrame(h)
  <2>1. LogEvents(h) \subseteq LogEvents(h)'
    BY <1>0, <1>4, LogAfterHeadStep
  <2>2. refs[g].phase = "none" => refs[g] = NoRefs
    BY DEF LogInv, HistoryInv
  <2>3. refs'[h].tail = refs[h].tail /\ refs'[h].epoch = refs[h].epoch
    BY SMTT(30), <1>4, <2>2 DEF HeadStep, NoRefs
  <2> QED
    BY <1>1, <2>1, <2>3 DEF EpochFrame
<1>5. CASE StoreStepOf(c)
  BY <1>1, <1>5 DEF StoreStepOf, EpochFrame, LogEvents
<1>6. ASSUME NEW g \in Histories, NEW vid \in KnownVids(g), NEW n \in 1..MaxBatch,
             CommitBegin(c, g, vid, n)
      PROVE  EpochFrame(h)
  BY <1>1, <1>6 DEF CommitBegin, EpochFrame, LogEvents
<1> QED
  BY <1>0, <1>2, <1>3, <1>4, <1>5, <1>6, ClientKinds

\* Every step keeps the epochs, updates one document, or removes histories.
LEMMA EpochKinds ==
    ASSUME MTypeInv, TimeInv, LogInv, [MNext]_allVars
    PROVE  \/ EpochQuiet
           \/ \E h \in Histories : DocStep(h)
           \/ GcDeletedRefs
<1>0. TypeInv /\ TrimClockInv /\ tr \in TrState
  BY DEF MTypeInv, TimeInv
<1>1. ASSUME UNCHANGED <<log, cl>>,
             \A h \in Histories :
                /\ EpochsKept(h)
                /\ refs'[h].tail = refs[h].tail
                /\ refs'[h].epoch = refs[h].epoch,
             \A h \in Histories : \A e \in EvId :
                journal'[h][e] \in {0, journal[h][e]},
             \/ tr' = tr
             \/ tr'.pc \in {"idle", "tails", "epochs"}
             \/ \E h \in Histories : ReadTail(h) /\ tr'.pc = "setTail"
      PROVE  EpochQuiet
  BY <1>1, Zenon DEF EpochQuiet, EpochFrame, LogEvents
<1>2. CASE UNCHANGED allVars \/ Tick \/ TrimOnly \/ GcOnly
  <2>1. UNCHANGED <<log, cl, refs, journal>>
    BY <1>2 DEF allVars, vars, Tick, TrimOnly, GcOnly
  <2>2. \A h \in Histories : EpochsKept(h)
    <3>1. CASE Tick
      BY <3>1, TickEpochs
    <3>2. CASE ~Tick
      BY <1>2, <3>2 DEF allVars, mvars, TrimOnly, GcOnly, EpochsKept
    <3> QED
      BY <3>1, <3>2
  <2>3. \/ tr' = tr
        \/ tr'.pc \in {"idle", "tails", "epochs"}
        \/ \E h \in Histories : ReadTail(h) /\ tr'.pc = "setTail"
    BY <1>2 DEF allVars, mvars, Tick, TrimOnly, GcOnly
  <2> QED
    BY <1>1, <2>1, <2>2, <2>3
<1>3. ASSUME NEW c \in Clients, ClientAct(c), ClientTrim(c) PROVE EpochQuiet
  <2>1. \A h \in Histories : EpochFrame(h)
    BY <1>3, ClientFrame
  <2> QED
    BY <1>3, <2>1 DEF EpochQuiet
<1>4. CASE SetTail \/ SetEpoch
  <2>1. /\ UNCHANGED <<nextId, parent, stored, journal, log, heads, cl>>
        /\ tr'.pc \in {"idle", "tails", "epochs"}
        /\ \/ UNCHANGED <<refs, epochLog>>
           \/ \E h \in Histories : TailStep(h) \/ EpochStep(h)
    BY <1>0, <1>4, TrimmerUpdates
  <2>2. CASE UNCHANGED <<refs, epochLog>>
    BY <1>1, <2>1, <2>2 DEF EpochsKept
  <2> QED
    BY <2>1, <2>2 DEF DocStep
<1>5. ASSUME NEW e \in EvId, GcRemoveEvent(e) PROVE EpochQuiet
  BY <1>1, <1>5, GcRemoveEventFields DEF EpochsKept
<1>6. CASE GcRemoveTail \/ GcRemoveJournal
  <2>1. /\ UNCHANGED <<nextId, parent, stored, refs, log, heads, cl>>
        /\ UNCHANGED <<etime, dtime, epochLog, began, tr>>
        /\ \A h \in Histories : \A e \in EvId :
                 journal'[h][e] = 0 \/ journal'[h][e] = journal[h][e]
    BY <1>6, GcRemoveFields
  <2> QED
    BY <1>1, <2>1 DEF EpochsKept
<1>7. ASSUME NEW h \in Histories, GcInvalidate(h) PROVE EpochQuiet
  BY <1>1, <1>7, GcInvalidateFields DEF EpochsKept
<1>8. CASE GcSetDeleted
  BY <1>1, <1>8, GcSetDeletedFields DEF EpochsKept
<1> QED
  BY <1>0, <1>2, <1>3, <1>4, <1>5, <1>6, <1>7, <1>8, MStepKinds, Zenon

\* A history that is read is not removed.
LEMMA ReadNotGone ==
    ASSUME MTypeInv, TimeInv
    PROVE  /\ \A c \in Clients : cl[c].pc \in InFind => ~Gone(cl[c].h)
           /\ tr.pc \in {"find", "setTail", "setEpoch"} => ~Gone(tr.h)
<1>1. \A h \in Histories : \A d : KeptFor(h, d) => ~Gone(h)
  BY DEF KeptFor, Gone
<1>2. tr.h \in Histories /\ \A c \in Clients : cl[c].h \in Histories
  BY ClientTyped DEF MTypeInv, TrState
<1>3. FindClockInv /\ TrimClockInv
  BY DEF TimeInv
<1>4. \A c \in Clients : cl[c].pc \in InFind => ~Gone(cl[c].h)
  BY <1>1, <1>2, <1>3 DEF FindClockInv
<1>5. tr.pc \in {"find", "setTail", "setEpoch"} => ~Gone(tr.h)
  BY <1>1, <1>2, <1>3 DEF TrimClockInv
<1> QED
  BY <1>4, <1>5

\* Finds go on reading events of the history.
LEMMA FindLogStep ==
    ASSUME MTypeInv, MTypeInv', TimeInv, LogInv, EpochInv, [MNext]_allVars,
           NEW d \in Clients
    PROVE  FindLogInv(cl[d])'
<1>0. TypeInv /\ TypeInv' /\ FindLogInv(cl[d])
  BY DEF MTypeInv, EpochInv
<1>1. ASSUME cl'[d] = cl[d], \A h \in Histories : EpochFrame(h)
      PROVE  FindLogInv(cl[d])'
  BY <1>0, <1>1, FindLogKept DEF EpochFrame
<1>2. CASE EpochQuiet
  <2>0. \A h \in Histories : EpochFrame(h)
    BY <1>2 DEF EpochQuiet
  <2>1. CASE UNCHANGED cl
    BY <1>1, <2>0, <2>1
  <2>2. ASSUME NEW c \in Clients, ClientAct(c) PROVE FindLogInv(cl[d])'
    <3>0. ClientNext(c) /\ OthersSame(c)
      BY <1>0, <2>2, ClientPhases DEF ClientAct
    <3>1. CASE d # c
      BY <1>1, <2>0, <3>0, <3>1 DEF OthersSame
    <3>2. CASE d = c /\ cl'[c].pc \notin InFind
      BY <3>2 DEF FindLogInv, InFind
    <3>3. CASE d = c /\ FindMoves(c)
      <4>1. PICK g \in Histories : g = cl[c].h
        BY <1>0, ClientTyped
      <4>2. LogEvents(g) \subseteq LogEvents(g)'
        BY <2>0 DEF EpochFrame
      <4> QED
        BY <1>0, <3>3, <4>1, <4>2, FindLogMoves
    <3>4. ASSUME d = c, NEW h \in Histories, NEW vid, FindBegins(c, h, vid)
          PROVE  FindLogInv(cl[d])'
      <4>1. LogEvents(h) \subseteq LogEvents(h)'
        BY <2>0 DEF EpochFrame
      <4> QED
        BY <1>0, <3>4, <4>1, FindLogBegins
    <3>5. cl'[c].pc \in InFind =>
             \/ FindMoves(c)
             \/ \E h \in Histories : \E vid \in KnownVids(h) : FindBegins(c, h, vid)
      BY <1>0, <3>0, FindKinds
    <3> QED
      BY <3>1, <3>2, <3>3, <3>4, <3>5
  <2> QED
    BY <1>2, <2>1, <2>2 DEF EpochQuiet
<1>3. ASSUME NEW h \in Histories, DocStep(h) PROVE FindLogInv(cl[d])'
  <2>1. cl'[d] = cl[d] /\ \A g \in Histories : LogEvents(g) \subseteq LogEvents(g)'
    BY <1>3 DEF DocStep, LogEvents
  <2> QED
    BY <1>0, <2>1, FindLogKept
<1>4. CASE GcDeletedRefs
  <2>1. cl'[d] = cl[d] /\ \A g \in Histories : ~Gone(g) => log'[g] = log[g]
    BY <1>4, GcDeletedRefsFields
  <2>2. \A g \in Histories : ~Gone(g) => LogEvents(g) \subseteq LogEvents(g)'
    BY <2>1 DEF LogEvents
  <2>3. \A g \in Histories : cl[d].pc \in InFind /\ cl[d].h = g => ~Gone(g)
    BY ReadNotGone
  <2> QED
    BY <1>0, <2>1, <2>2, <2>3, FindLogKept
<1> QED
  BY <1>2, <1>3, <1>4, EpochKinds

\* Entries are of events of the history.
LEMMA EntriesStep ==
    ASSUME MTypeInv, TimeInv, TimeInv', LogInv, EpochInv, [MNext]_allVars,
           NEW h \in Histories, NEW e \in EvId, journal'[h][e] # 0
    PROVE  e \in LogEvents(h)'
<1>0. /\ TypeInv
      /\ journal[h][e] # 0 => e \in LogEvents(h)
  BY DEF MTypeInv, EpochInv
<1>1. CASE EpochQuiet
  <2>0. LogEvents(h) \subseteq LogEvents(h)'
    BY <1>1 DEF EpochQuiet, EpochFrame
  <2>1. CASE journal'[h][e] \in {0, journal[h][e]}
    BY <1>0, <2>0, <2>1
  <2>2. ASSUME NEW c \in Clients, ClientAct(c) PROVE e \in LogEvents(h)'
    <3>1. \/ journal'[h][e] = journal[h][e]
          \/ cl[c].pc = "insert" /\ h = cl[c].h /\ e \in EventsOf(c)
      BY <1>0, <2>2, ClientPhases DEF ClientAct
    <3>2. CASE cl[c].pc = "insert" /\ h = cl[c].h /\ e \in EventsOf(c)
      <4>1. FindLogInv(cl[c])
        BY DEF EpochInv
      <4>2. EventsOf(c) \subseteq LogEvents(h)
        BY <3>2, <4>1 DEF FindLogInv, EventsOf
      <4> QED
        BY <2>0, <3>2, <4>2
    <3> QED
      BY <1>0, <2>0, <3>1, <3>2
  <2> QED
    BY <1>1, <2>1, <2>2 DEF EpochQuiet
<1>2. ASSUME NEW g \in Histories, DocStep(g) PROVE e \in LogEvents(h)'
  BY <1>0, <1>2 DEF DocStep, LogEvents
<1>3. CASE GcDeletedRefs
  <2>1. /\ journal' = journal
        /\ Gone(h) => refs'[h] = NoRefs
        /\ ~Gone(h) => log'[h] = log[h]
    BY <1>3, GcDeletedRefsFields
  <2>2. CASE Gone(h)
    <3>1. refs'[h].phase = "none"
      BY <2>1, <2>2 DEF NoRefs
    <3>2. journal'[h][e] = 0
      BY <3>1 DEF TimeInv, RemovalInv, RemovedLeavesNoEntries
    <3> QED
      BY <3>2
  <2>3. CASE ~Gone(h)
    BY <1>0, <2>1, <2>3 DEF LogEvents
  <2> QED
    BY <2>2, <2>3
<1> QED
  BY <1>1, <1>2, <1>3, EpochKinds

\* The trimmer moves a tail to a logged epoch, and appends a later epoch.
LEMMA EpochsOfStep ==
    ASSUME MTypeInv, MTypeInv', EpochInv, NEW h \in Histories, DocStep(h)
    PROVE  EpochsInv(h)'
<1>a. EpochsInv(h) /\ TypeInv
  BY DEF EpochInv, MTypeInv
<1>b. epochLog[h] \in Seq(EpochEntry) /\ epochLog'[h] \in Seq(EpochEntry)
  BY DEF MTypeInv, EpochEntry
<1>c. LogEvents(h) \subseteq EvId /\ LogEvents(h) \subseteq Nat
  BY <1>a, EventsTyped
<1>d. LogEvents(h)' = LogEvents(h) /\ h = tr.h
  BY DEF DocStep, LogEvents, TailStep, EpochStep
<1>0. /\ EpochsInv(h) /\ LogEvents(h)' = LogEvents(h) /\ h = tr.h
      /\ epochLog[h] \in Seq(EpochEntry) /\ epochLog'[h] \in Seq(EpochEntry)
  BY <1>a, <1>b, <1>d
<1>n. PICK n \in Nat : n = Len(epochLog[h])
  BY <1>0, LenProperties
<1>1. /\ \A i \in 1..n : epochLog[h][i].epoch \in LogEvents(h)
      /\ \A i, j \in 1..n : i < j => epochLog[h][i].epoch < epochLog[h][j].epoch
      /\ refs[h].epoch = IF n = 0 THEN EventEpoch ELSE epochLog[h][n].epoch
      /\ refs[h].tail # EventEpoch =>
            \E i \in 1..n : epochLog[h][i].epoch = refs[h].tail
  BY <1>0, <1>n DEF EpochsInv
<1>2. CASE TailStep(h)
  <2>1. refs'[h].tail = tr.new /\ refs'[h].epoch = refs[h].epoch /\ epochLog' = epochLog
    BY <1>2, TailStepFields DEF TailStep
  <2>2. \E i \in 1..n : epochLog[h][i].epoch = tr.new
    BY <1>0, <1>2, <1>n DEF TailStep, EpochInv, TrimTailInv
  <2> QED
    BY <1>0, <1>1, <1>n, <2>1, <2>2 DEF EpochsInv
<1>3. CASE EpochStep(h)
  <2>1. /\ refs'[h].epoch = tr.new /\ tr.new \in EvId
        /\ refs'[h].tail = refs[h].tail
        /\ Len(epochLog'[h]) = n + 1
        /\ epochLog'[h][n + 1].epoch = tr.new
        /\ \A i \in 1..n : epochLog'[h][i] = epochLog[h][i]
    BY <1>3, <1>n, EpochStepFields
  <2>2. /\ tr.new \in LogEvents(h) /\ refs[h].epoch < tr.new
    BY <1>0, <1>3 DEF EpochStep, EpochInv, TrimEpochInv
  <2>3. ASSUME NEW i \in 1..n PROVE epochLog[h][i].epoch < tr.new
    <3>1. refs[h].epoch = epochLog[h][n].epoch /\ n \in 1..n
      BY <1>1
    <3>2. i < n => epochLog[h][i].epoch < epochLog[h][n].epoch
      BY <1>1, <3>1
    <3>3. epochLog[h][i].epoch \in Nat /\ epochLog[h][n].epoch \in Nat /\ tr.new \in Nat
      BY <1>1, <1>c, <2>2, <3>1
    <3>4. CASE i = n
      BY <2>2, <3>1, <3>4
    <3>5. CASE i < n
      BY <2>2, <3>1, <3>2, <3>3, <3>5
    <3> QED
      BY <1>n, <3>4, <3>5
  <2>4. ASSUME NEW i \in 1..(n + 1) PROVE epochLog'[h][i].epoch \in LogEvents(h)
    BY <1>1, <2>1, <2>2
  <2>5. ASSUME NEW i \in 1..(n + 1), NEW j \in 1..(n + 1), i < j
        PROVE  epochLog'[h][i].epoch < epochLog'[h][j].epoch
    <3>1. i \in 1..n
      BY <2>5
    <3>2. CASE j = n + 1
      BY <2>1, <2>3, <3>1, <3>2
    <3>3. CASE j \in 1..n
      BY <1>1, <2>1, <2>5, <3>1, <3>3
    <3> QED
      BY <3>2, <3>3
  <2>6. refs'[h].tail # EventEpoch =>
            \E i \in 1..(n + 1) : epochLog'[h][i].epoch = refs'[h].tail
    <3>1. ASSUME refs'[h].tail # EventEpoch
          PROVE  \E i \in 1..(n + 1) : epochLog'[h][i].epoch = refs'[h].tail
      <4>1. PICK i \in 1..n : epochLog[h][i].epoch = refs[h].tail
        BY <1>1, <2>1, <3>1
      <4>2. i \in 1..(n + 1) /\ epochLog'[h][i].epoch = refs'[h].tail
        BY <2>1, <4>1
      <4> QED
        BY <4>2
    <3> QED
      BY <3>1
  <2>7. n + 1 # 0
    OBVIOUS
  <2> QED
    BY <1>0, <2>1, <2>4, <2>5, <2>6, <2>7 DEF EpochsInv
<1> QED
  BY <1>2, <1>3 DEF DocStep

\* The epochs of every history stay in order.
LEMMA EpochsStep ==
    ASSUME MTypeInv, MTypeInv', TimeInv, LogInv, EpochInv, [MNext]_allVars,
           NEW h \in Histories
    PROVE  EpochsInv(h)'
<1>0. /\ EpochsInv(h)
      /\ epochLog[h] \in Seq(EpochEntry) /\ epochLog'[h] \in Seq(EpochEntry)
  BY DEF MTypeInv, EpochInv, EpochEntry
<1>1. CASE EpochQuiet
  BY <1>0, <1>1, EpochsInvKept DEF EpochQuiet
<1>2. ASSUME NEW g \in Histories, DocStep(g) PROVE EpochsInv(h)'
  <2>1. CASE g = h
    BY <1>2, <2>1, EpochsOfStep
  <2>2. CASE g # h
    <3>1. refs'[h] = refs[h] /\ epochLog'[h] = epochLog[h]
      BY <1>2, <2>2, TailStepFields, EpochStepFields DEF DocStep, TailStep
    <3>2. EpochFrame(h)
      BY <1>2, <3>1 DEF EpochFrame, EpochsKept, LogEvents, DocStep
    <3> QED
      BY <1>0, <3>2, EpochsInvKept
  <2> QED
    BY <2>1, <2>2
<1>3. CASE GcDeletedRefs
  <2>1. /\ Gone(h) => refs'[h] = NoRefs /\ epochLog'[h] = << >>
        /\ ~Gone(h) => refs'[h] = refs[h] /\ log'[h] = log[h]
                       /\ epochLog'[h] = epochLog[h]
    BY <1>3, GcDeletedRefsFields
  <2>2. CASE Gone(h)
    <3>1. /\ epochLog'[h] = << >> /\ Len(<< >>) = 0
          /\ refs'[h].epoch = EventEpoch /\ refs'[h].tail = EventEpoch
      BY <2>1, <2>2 DEF NoRefs
    <3> QED
      BY <3>1 DEF EpochsInv
  <2>3. CASE ~Gone(h)
    <3>1. EpochFrame(h)
      BY <2>1, <2>3 DEF EpochFrame, EpochsKept, LogEvents
    <3> QED
      BY <1>0, <3>1, EpochsInvKept
  <2> QED
    BY <2>2, <2>3
<1> QED
  BY <1>1, <1>2, <1>3, EpochKinds

\* What the trimmer has read stays so while the document does.
LEMMA TrimReadKept ==
    ASSUME MTypeInv, TrimFindInv, TrimTailInv, TrimEpochInv, tr' = tr,
           \A g \in Histories :
              tr.pc \in {"find", "setTail", "setEpoch"} /\ tr.h = g => EpochFrame(g),
           tr.pc = "find" => cl'[tr.c] = cl[tr.c]
    PROVE  TrimFindInv' /\ TrimTailInv' /\ TrimEpochInv'
<1>1. CASE tr.pc \notin {"find", "setTail", "setEpoch"}
  BY <1>1 DEF TrimFindInv, TrimTailInv, TrimEpochInv
<1>2. CASE tr.pc \in {"find", "setTail", "setEpoch"}
  <2>1. PICK g \in Histories, k \in Clients : g = tr.h /\ k = tr.c
    BY DEF MTypeInv, TrState
  <2>2. /\ LogEvents(g) \subseteq LogEvents(g)'
        /\ EpochsKept(g) /\ refs'[g].tail = refs[g].tail
        /\ refs'[g].epoch = refs[g].epoch
    BY <1>2, <2>1 DEF EpochFrame
  <2>3. LogEvents(tr.h) = LogEvents(g) /\ LogEvents(tr.h)' = LogEvents(g)'
    BY <2>1 DEF LogEvents
  <2>4. TrimFindInv'
    <3>1. CASE tr.pc # "find"
      BY <3>1 DEF TrimFindInv
    <3>2. CASE tr.pc = "find"
      <4>1. cl'[k] = cl[k]
        BY <2>1, <3>2
      <4> QED
        BY <2>1, <2>2, <2>3, <3>2, <4>1 DEF TrimFindInv
    <3> QED
      BY <3>1, <3>2
  <2>5. TrimTailInv'
    <3>1. CASE tr.pc # "setTail"
      BY <3>1 DEF TrimTailInv
    <3>2. CASE tr.pc = "setTail"
      <4>1. PICK i \in 1..Len(epochLog[g]) : epochLog[g][i].epoch = tr.new
        BY <2>1, <3>2 DEF TrimTailInv
      <4>2. i \in 1..Len(epochLog'[g]) /\ epochLog'[g][i].epoch = tr.new
        BY <2>2, <4>1 DEF EpochsKept
      <4>3. tr.new \in LogEvents(g)' /\ refs'[g].tail <= tr.new
        BY <2>1, <2>2, <2>3, <3>2 DEF TrimTailInv
      <4> QED
        BY <2>1, <2>3, <4>2, <4>3 DEF TrimTailInv
    <3> QED
      BY <3>1, <3>2
  <2>6. TrimEpochInv'
    BY <2>1, <2>2, <2>3 DEF TrimEpochInv
  <2> QED
    BY <2>4, <2>5, <2>6
<1> QED
  BY <1>1, <1>2

\* The trimmer's find goes on.
LEMMA TrimFindMoves ==
    ASSUME MTypeInv, TimeInv, LogInv, EpochInv, NEW c \in Clients,
           tr.pc = "find", tr.c = c, tr' = tr, CallStep(c),
           NEW g \in Histories, g = tr.h, EpochFrame(g)
    PROVE  TrimFindInv'
<1> DEFINE s == cl[c]
           t == cl'[c]
<1>0. /\ TypeInv /\ s.h = g /\ s.pc \in InFind \cup {"done"}
      /\ s.out \in Seq(EvId) /\ s.cur \in Vid /\ s.snap \in RefsDoc
  BY ClientTyped DEF MTypeInv, TimeInv, TrimClockInv
<1>1. /\ s.vid = EventEpoch
      /\ s.snap.epoch = refs[g].epoch /\ tr.old = refs[g].epoch
      /\ s.pc = "iter" => s.snap.epoch <= s.cur
      /\ \A i \in 1..Len(s.out) : s.out[i] \in LogEvents(g) /\ s.snap.epoch < s.out[i]
  <2>1. TrimFindInv /\ LogEvents(tr.h) = LogEvents(g)
    BY DEF EpochInv, LogEvents
  <2> QED
    BY <2>1 DEF TrimFindInv
<1>2. /\ LogEvents(g) \subseteq LogEvents(g)' /\ refs'[g].epoch = refs[g].epoch
      /\ LogEvents(tr.h)' = LogEvents(g)'
  BY DEF EpochFrame, LogEvents
<1>3. /\ FindMoves(c) \/ FindEnds(c)
      /\ t.vid = s.vid /\ t.snap = s.snap
  BY <1>0, CallInFind DEF FindMoves, FindEnds, KeepsCall
<1>4. ASSUME t.pc = "iter" => s.snap.epoch <= t.cur,
             \A i \in 1..Len(t.out) : t.out[i] \in LogEvents(g) /\ s.snap.epoch < t.out[i]
      PROVE  TrimFindInv'
  BY <1>1, <1>2, <1>3, <1>4 DEF TrimFindInv
<1>5. CASE t.out = s.out /\ t.pc # "iter"
  BY <1>1, <1>4, <1>5
<1>6. CASE s.pc = "start" /\ t.pc = "iter"
  <2>1. t.out = s.out /\ t.cur = s.snap.epoch
    BY <1>1, <1>3, <1>6 DEF FindMoves, FindEnds, InFind
  <2>2. s.snap.epoch \in Nat
    BY <1>0, JournalAssumption DEF RefsDoc, Vid
  <2> QED
    BY <1>1, <1>4, <2>1, <2>2
<1>7. CASE s.pc = "iter" /\ t.pc = "iter"
  <2>1. PICK e \in EvId : /\ journal[g][e] # 0 /\ parent[e] = s.cur
                          /\ t.cur = e /\ t.out = Append(s.out, e)
    BY <1>0, <1>3, <1>7 DEF FindMoves, FindEnds, InFind
  <2>2. e \in LogEvents(g)
    BY <2>1 DEF EpochInv
  <2>3. parent[e] < e
    BY <1>0, <2>2, ParentInLog
  <2>4. s.snap.epoch \in Nat /\ s.cur \in Nat /\ e \in Nat
    BY <1>0, JournalAssumption DEF RefsDoc, Vid, EvId
  <2>5. s.snap.epoch < e /\ s.snap.epoch <= e
    BY <1>1, <1>7, <2>1, <2>3, <2>4
  <2>6. PICK A \in Seq(EvId) : A = s.out
    BY <1>0
  <2>7. /\ Len(Append(A, e)) = Len(A) + 1 /\ Len(A) \in Nat
        /\ Append(A, e)[Len(A) + 1] = e
        /\ \A i \in 1..Len(A) : Append(A, e)[i] = A[i]
    BY AppendProperties
  <2>8. \A i \in 1..Len(Append(A, e)) :
           \/ Append(A, e)[i] = e
           \/ i \in 1..Len(A) /\ Append(A, e)[i] = A[i]
    BY <2>7
  <2>9. \A i \in 1..Len(t.out) : t.out[i] \in LogEvents(g) /\ s.snap.epoch < t.out[i]
    BY <1>1, <2>1, <2>2, <2>5, <2>6, <2>8
  <2> QED
    BY <1>4, <2>1, <2>5, <2>9
<1> QED
  BY <1>3, <1>5, <1>6, <1>7 DEF FindMoves, FindEnds, InFind

\* The trimmer's find begins.
LEMMA TrimFindBegins ==
    ASSUME MTypeInv, NEW c \in Clients, NEW h \in Histories,
           FindBegin(c, h, EventEpoch),
           tr' = [tr EXCEPT !.pc = "find", !.h = h, !.todo = @ \ {h},
                            !.old = refs[h].epoch, !.c = c]
    PROVE  TrimFindInv' /\ TrimTailInv' /\ TrimEpochInv'
<1>0. TypeInv /\ tr \in TrState
  BY DEF MTypeInv
<1>1. /\ tr'.pc = "find" /\ tr'.h = h /\ tr'.c = c /\ tr'.old = refs[h].epoch
  BY <1>0 DEF TrState
<1>2. /\ refs' = refs /\ cl'[c].snap = refs[h] /\ cl'[c].vid = EventEpoch
      /\ cl'[c].out = << >> /\ cl'[c].pc # "iter"
  BY <1>0, FindBeginEffect DEF storeVars
<1>3. \A i \in 1..Len(cl'[c].out) : FALSE
  BY <1>2
<1> QED
  BY <1>1, <1>2, <1>3 DEF TrimFindInv, TrimTailInv, TrimEpochInv

\* The trimmer chooses an event that its find has returned.
LEMMA TrimChooses ==
    ASSUME MTypeInv, TimeInv, EpochInv, tr.pc = "find",
           \A g \in Histories : EpochFrame(g),
           NEW e \in Range(cl[tr.c].out),
           tr' = [tr EXCEPT !.pc = "setEpoch", !.new = e]
    PROVE  TrimFindInv' /\ TrimTailInv' /\ TrimEpochInv'
<1>1. PICK g \in Histories, k \in Clients : g = tr.h /\ k = tr.c
  BY DEF MTypeInv, TrState
<1>2. PICK A \in Seq(EvId) : A = cl[k].out
  BY ClientTyped DEF MTypeInv
<1>3. PICK i \in 1..Len(A) : e = A[i]
  <2>1. e \in {A[i] : i \in DOMAIN A}
    BY <1>1, <1>2 DEF Range
  <2> QED
    BY <2>1, LenProperties
<1>4. e \in EvId /\ e \in Vid
  <2>1. e \in EvId
    BY <1>3, ElementOfSeq
  <2> QED
    BY <2>1, JournalAssumption DEF EvId, Vid
<1>5. tr'.pc = "setEpoch" /\ tr'.new = e /\ tr'.h = g /\ tr'.old = tr.old
  BY <1>1, <1>4 DEF MTypeInv, TrState
<1>6. TrimFindInv /\ LogEvents(tr.h) = LogEvents(g)
  BY <1>1 DEF EpochInv, LogEvents
<1>7. /\ e \in LogEvents(g) /\ refs[g].epoch < e /\ tr.old = refs[g].epoch
  BY <1>1, <1>2, <1>3, <1>6 DEF TrimFindInv
<1>8. e \in LogEvents(g)' /\ refs'[g].epoch = refs[g].epoch
  BY <1>7 DEF EpochFrame
<1>9. LogEvents(tr.h)' = LogEvents(g)'
  BY <1>5 DEF LogEvents
<1> QED
  BY <1>5, <1>7, <1>8, <1>9 DEF TrimFindInv, TrimTailInv, TrimEpochInv

\* The trimmer chooses a logged epoch after the tail.
LEMMA TrimReadsTail ==
    ASSUME MTypeInv, EpochInv, NEW h \in Histories, ReadTail(h), EpochFrame(h),
           tr'.pc = "setTail"
    PROVE  TrimFindInv' /\ TrimTailInv' /\ TrimEpochInv'
<1>0. /\ tr \in TrState /\ EpochsInv(h) /\ TypeInv
      /\ epochLog[h] \in Seq(EpochEntry) /\ refs[h].tail \in Vid
      /\ LogEvents(h) \subseteq Nat
  <2>1. TypeInv /\ refs[h] \in RefsDoc
    BY DEF MTypeInv, TypeInv, TypeOK
  <2>2. LogEvents(h) \subseteq Nat
    BY <2>1, EventsTyped
  <2> QED
    BY <2>1, <2>2 DEF MTypeInv, EpochInv, EpochEntry, RefsDoc
<1>1. PICK i \in NewTails(h) :
         tr' = [tr EXCEPT !.pc = "setTail", !.h = h, !.todo = @ \ {h},
                          !.old = refs[h].tail, !.new = epochLog[h][i].epoch]
  <2>1. ~TrSkip(h)
    <3>1. tr' = [tr EXCEPT !.todo = @ \ {h}] => tr'.pc = tr.pc
      BY <1>0 DEF TrState
    <3> QED
      BY <3>1 DEF TrSkip, TrTo, ReadTail
  <2> QED
    BY <2>1 DEF ReadTail, TrTo
<1>2. PICK n \in Nat : n = Len(epochLog[h]) /\ DOMAIN epochLog[h] = 1..n
  BY <1>0, LenProperties
<1>3. /\ i \in 1..n
      /\ refs[h].tail # EventEpoch =>
            \E j \in 1..(i - 1) : epochLog[h][j].epoch = refs[h].tail
  BY <1>2 DEF NewTails
<1>4. PICK x : x = epochLog[h][i].epoch
  OBVIOUS
<1>5. x \in EvId /\ x \in Vid
  <2>1. epochLog[h][i] \in EpochEntry
    BY <1>0, <1>2, <1>3, ElementOfSeq
  <2> QED
    BY <1>4, <2>1 DEF EpochEntry, EvId, Vid
<1>6. tr'.h = h /\ tr'.new = x
  BY <1>0, <1>1, <1>4, <1>5 DEF TrState
<1>7. x \in LogEvents(h)
  BY <1>0, <1>2, <1>3, <1>4 DEF EpochsInv
<1>8. refs[h].tail <= x
  <2>1. CASE refs[h].tail = EventEpoch
    BY <1>0, <1>7, <2>1 DEF EventEpoch
  <2>2. CASE refs[h].tail # EventEpoch
    <3>1. PICK j \in 1..(i - 1) : epochLog[h][j].epoch = refs[h].tail
      BY <1>3, <2>2
    <3>2. j \in 1..n /\ j < i
      BY <1>3, <3>1
    <3>3. epochLog[h][j].epoch < epochLog[h][i].epoch
      BY <1>0, <1>2, <1>3, <3>2 DEF EpochsInv
    <3>4. refs[h].tail \in Nat /\ x \in Nat
      BY <1>0, <1>7 DEF Vid
    <3> QED
      BY <1>4, <3>1, <3>3, <3>4
  <2> QED
    BY <2>1, <2>2
<1>9. /\ x \in LogEvents(h)' /\ refs'[h].tail = refs[h].tail
      /\ i \in 1..Len(epochLog'[h]) /\ epochLog'[h][i].epoch = x
  BY <1>2, <1>3, <1>4, <1>7 DEF EpochFrame, EpochsKept
<1>10. LogEvents(tr.h)' = LogEvents(h)'
  BY <1>6 DEF LogEvents
<1>11. \E k \in 1..Len(epochLog'[h]) : epochLog'[h][k].epoch = x
  BY <1>9
<1> QED
  BY <1>6, <1>8, <1>9, <1>10, <1>11 DEF TrimFindInv, TrimTailInv, TrimEpochInv

\* What the trimmer has read and chosen is in order.
LEMMA TrimReadStep ==
    ASSUME MTypeInv, TimeInv, LogInv, EpochInv, [MNext]_allVars
    PROVE  TrimFindInv' /\ TrimTailInv' /\ TrimEpochInv'
<1>0. /\ TypeInv /\ TrimFindInv /\ TrimTailInv /\ TrimEpochInv
      /\ tr.h \in Histories /\ tr.c \in Clients
  BY DEF MTypeInv, EpochInv, TrState
<1>1. ASSUME tr'.pc \in {"idle", "tails", "epochs"}
      PROVE  TrimFindInv' /\ TrimTailInv' /\ TrimEpochInv'
  BY <1>1 DEF TrimFindInv, TrimTailInv, TrimEpochInv
<1>2. CASE EpochQuiet /\ UNCHANGED cl
  <2>0. \A h \in Histories : EpochFrame(h)
    BY <1>2 DEF EpochQuiet
  <2>1. CASE tr' = tr
    BY <1>0, <1>2, <2>0, <2>1, TrimReadKept
  <2>2. ASSUME NEW h \in Histories, ReadTail(h), tr'.pc = "setTail"
        PROVE  TrimFindInv' /\ TrimTailInv' /\ TrimEpochInv'
    BY <2>0, <2>2, TrimReadsTail
  <2>3. ASSUME NEW c \in Clients, ClientAct(c), ClientTrim(c), tr' # tr,
               tr'.pc \notin {"idle", "tails", "epochs"}
        PROVE  TrimFindInv' /\ TrimTailInv' /\ TrimEpochInv'
    <3>1. ASSUME NEW h \in Histories, FindBegin(c, h, EventEpoch),
                 tr' = [tr EXCEPT !.pc = "find", !.h = h, !.todo = @ \ {h},
                            !.old = refs[h].epoch, !.c = c]
          PROVE  TrimFindInv' /\ TrimTailInv' /\ TrimEpochInv'
      BY <3>1, TrimFindBegins
    <3>2. ASSUME tr.pc = "find", tr.c = c, NEW e \in Range(cl[c].out),
                 tr' = [tr EXCEPT !.pc = "setEpoch", !.new = e]
          PROVE  TrimFindInv' /\ TrimTailInv' /\ TrimEpochInv'
      BY <2>0, <3>2, TrimChooses
    <3> QED
      BY <2>3, <3>1, <3>2 DEF ClientTrim
  <2> QED
    BY <1>1, <1>2, <2>1, <2>2, <2>3 DEF EpochQuiet
<1>3. ASSUME EpochQuiet, NEW c \in Clients, ClientAct(c), ClientTrim(c)
      PROVE  TrimFindInv' /\ TrimTailInv' /\ TrimEpochInv'
  <2>0. \A h \in Histories : EpochFrame(h)
    BY <1>3 DEF EpochQuiet
  <2>1. CASE tr' = tr /\ ~(tr.pc = "find" /\ tr.c = c)
    <3>1. OthersSame(c)
      BY <1>0, <1>3, ClientPhases DEF ClientAct
    <3>2. tr.pc = "find" => cl'[tr.c] = cl[tr.c]
      BY <1>0, <2>1, <3>1 DEF OthersSame
    <3> QED
      BY <1>0, <2>0, <2>1, <3>2, TrimReadKept
  <2>2. CASE tr' = tr /\ tr.pc = "find" /\ tr.c = c /\ CallStep(c)
    <3>1. TrimFindInv'
      BY <1>0, <2>0, <2>2, TrimFindMoves
    <3>2. TrimTailInv' /\ TrimEpochInv'
      BY <2>2 DEF TrimTailInv, TrimEpochInv
    <3> QED
      BY <3>1, <3>2
  <2>3. ASSUME NEW h \in Histories, FindBegin(c, h, EventEpoch),
                 tr' = [tr EXCEPT !.pc = "find", !.h = h, !.todo = @ \ {h},
                            !.old = refs[h].epoch, !.c = c]
          PROVE  TrimFindInv' /\ TrimTailInv' /\ TrimEpochInv'
      BY <2>3, TrimFindBegins
  <2>4. ASSUME tr.pc = "find", tr.c = c, NEW e \in Range(cl[c].out),
                 tr' = [tr EXCEPT !.pc = "setEpoch", !.new = e]
          PROVE  TrimFindInv' /\ TrimTailInv' /\ TrimEpochInv'
      BY <2>0, <2>4, TrimChooses
  <2> QED
    BY <1>1, <1>3, <2>1, <2>2, <2>3, <2>4, Zenon DEF ClientTrim
<1>4. ASSUME NEW h \in Histories, DocStep(h)
      PROVE  TrimFindInv' /\ TrimTailInv' /\ TrimEpochInv'
  BY <1>1, <1>4 DEF DocStep
<1>5. CASE GcDeletedRefs
  <2>1. /\ cl' = cl /\ tr' = tr
        /\ \A g \in Histories : ~Gone(g) =>
              refs'[g] = refs[g] /\ log'[g] = log[g] /\ epochLog'[g] = epochLog[g]
    BY <1>5, GcDeletedRefsFields
  <2>2. \A g \in Histories : ~Gone(g) => EpochFrame(g)
    BY <2>1 DEF EpochFrame, EpochsKept, LogEvents
  <2>3. \A g \in Histories :
              tr.pc \in {"find", "setTail", "setEpoch"} /\ tr.h = g => EpochFrame(g)
    BY <2>2, ReadNotGone
  <2> QED
    BY <1>0, <2>1, <2>3, TrimReadKept
<1>6. EpochQuiet => UNCHANGED cl \/ \E c \in Clients : ClientAct(c) /\ ClientTrim(c)
  BY DEF EpochQuiet
<1> QED
  BY <1>2, <1>3, <1>4, <1>5, <1>6, EpochKinds, Zenon

\* Epochs and tails stay events of their history.
LEMMA EpochStepInv ==
    ASSUME MTypeInv, MTypeInv', TimeInv, TimeInv', LogInv, EpochInv,
           [MNext]_allVars
    PROVE  EpochInv'
<1>1. \A h \in Histories : \A e \in EvId :
          journal'[h][e] # 0 => e \in LogEvents(h)'
  BY EntriesStep
<1>2. \A c \in Clients : FindLogInv(cl[c])'
  BY FindLogStep
<1>3. \A h \in Histories : EpochsInv(h)'
  BY EpochsStep
<1>4. TrimFindInv' /\ TrimTailInv' /\ TrimEpochInv'
  BY TrimReadStep
<1> QED
  BY <1>1, <1>2, <1>3, <1>4 DEF EpochInv

-----------------------------------------------------------------------------
(***************************************************************************)
(* The strokes of paintBlack().  Strokes(A, P, G, T, N) is the function    *)
(* that Painted defines: the events that are reached from A along the      *)
(* parents P within the graph G, without the black events T.               *)
(***************************************************************************)

Longer(X, P, G, T) == X \cup (({P[e] : e \in X} \cap G) \ T)

Strokes(A, P, G, T, N) ==
    LET stroke[n \in 0..N] ==
          IF n = 0 THEN A \ T ELSE Longer(stroke[n - 1], P, G, T)
    IN  stroke

AreStrokes(g, A, P, G, T, N) ==
    g = [n \in 0..N |-> IF n = 0 THEN A \ T ELSE Longer(g[n - 1], P, G, T)]

\* There is such a function: the numbers of strokes for which there is one up
\* to that number have no least exception.
LEMMA StrokesExist ==
    ASSUME NEW N \in Nat, NEW A, NEW P, NEW G, NEW T, A \subseteq G
    PROVE  \E g : AreStrokes(g, A, P, G, T, N)
<1> DEFINE V == SUBSET G
           More(X) == Longer(X, P, G, T)
           Good(n) == \E g \in [0..n -> V] :
              \A i \in 0..n : g[i] = IF i = 0 THEN A \ T ELSE More(g[i - 1])
           Bad == {n \in 0..N : ~Good(n)}
<1>0. \A X \in V : More(X) \in V
  BY DEF Longer
<1>a. A \ T \in V
  OBVIOUS
<1> HIDE DEF V, More
<1>1. ASSUME NEW n \in Bad, \A m \in Bad : n <= m PROVE FALSE
  <2>0. n \in 0..N /\ ~Good(n)
    OBVIOUS
  <2>1. CASE n = 0
    <3> DEFINE g == [i \in 0..0 |-> A \ T]
    <3>1. g \in [0..0 -> V]
      BY <1>a
    <3>2. \A i \in 0..0 : i = 0 /\ g[i] = A \ T
      OBVIOUS
    <3>3. \A i \in 0..0 : g[i] = IF i = 0 THEN A \ T ELSE More(g[i - 1])
      <4> HIDE DEF g
      <4> QED
        BY <3>2
    <3>4. Good(0)
      <4> HIDE DEF g
      <4> QED
        BY <3>1, <3>3
    <3> QED
      BY <2>0, <2>1, <3>4
  <2>2. CASE n # 0
    <3>1. n - 1 \in 0..N /\ n - 1 \notin Bad /\ n \in 1..N
      <4>1. n - 1 \in 0..N /\ n \in 1..N /\ ~(n <= n - 1)
        BY <2>0, <2>2
      <4> HIDE DEF Bad
      <4> QED
        BY <4>1, <1>1
    <3>2. Good(n - 1)
      BY <3>1
    <3>3. PICK g \in [0..(n - 1) -> V] :
            \A i \in 0..(n - 1) : g[i] = IF i = 0 THEN A \ T ELSE More(g[i - 1])
      BY <3>2
    <3>4. PICK X \in V : X = More(g[n - 1])
      <4>1. g[n - 1] \in V
        BY <3>1, <3>3
      <4> QED
        BY <1>0, <4>1
    <3> DEFINE f == [i \in 0..n |-> IF i = n THEN X ELSE g[i]]
    <3>5. f[n] = X /\ \A i \in 0..(n - 1) : f[i] = g[i]
      BY <3>1
    <3>6. f \in [0..n -> V]
      BY <3>1, <3>3
    <3>7. ASSUME NEW i \in 0..n
          PROVE  f[i] = IF i = 0 THEN A \ T ELSE More(f[i - 1])
      <4>1. n - 1 \in 0..(n - 1) /\ n \in Nat
        BY <3>1
      <4> HIDE DEF f
      <4>2. CASE i = n
        BY <2>2, <3>4, <3>5, <4>1, <4>2
      <4>3. CASE i # n
        <5>1. i \in 0..(n - 1) /\ (i # 0 => i - 1 \in 0..(n - 1))
          BY <4>1, <4>3
        <5> QED
          BY <3>3, <3>5, <5>1
      <4> QED
        BY <4>2, <4>3
    <3>8. Good(n)
      <4> HIDE DEF f
      <4> QED
        BY <3>6, <3>7
    <3> QED
      BY <3>8, <2>0
  <2> QED
    BY <2>1, <2>2
<1>2. Bad = {}
  <2>1. Bad \in SUBSET Nat
    OBVIOUS
  <2> HIDE DEF Bad
  <2> QED
    BY <2>1, <1>1, LeastNumber
<1>3. Good(N)
  <2>1. N \in 0..N
    OBVIOUS
  <2> HIDE DEF Good
  <2> QED
    BY <1>2, <2>1
<1>4. PICK g \in [0..N -> V] :
        \A i \in 0..N : g[i] = IF i = 0 THEN A \ T ELSE More(g[i - 1])
  BY <1>3
<1>5. g = [i \in 0..N |-> IF i = 0 THEN A \ T ELSE More(g[i - 1])]
  BY <1>4
<1> QED
  BY <1>5 DEF More, AreStrokes

\* Strokes() satisfies its equation.
LEMMA StrokesEquation ==
    ASSUME NEW N \in Nat, NEW A, NEW P, NEW G, NEW T, A \subseteq G
    PROVE  AreStrokes(Strokes(A, P, G, T, N), A, P, G, T, N)
<1> DEFINE to == CHOOSE g : AreStrokes(g, A, P, G, T, N)
<1>1. \E g : AreStrokes(g, A, P, G, T, N)
  BY StrokesExist
<1>2. AreStrokes(to, A, P, G, T, N)
  BY <1>1
<1>3. to = Strokes(A, P, G, T, N)
  BY DEF Strokes, AreStrokes
<1> HIDE DEF to
<1> QED
  BY <1>2, <1>3

\* Strokes reach, from an event of a chain, the events before it that are
\* later than the black one.
LEMMA StrokesReach ==
    ASSUME NEW N \in Nat, NEW A, NEW P, NEW G, NEW T, A \subseteq G,
           NEW L \in Seq(1..N),
           \A i \in 1..Len(L) : i > 1 => P[L[i]] = L[i - 1],
           \A i, k \in 1..Len(L) : i < k => L[i] < L[k],
           NEW S, \A e \in G : P[e] \in S => P[e] \in G,
           NEW t \in Nat, \A i \in 1..Len(L) : L[i] >= t => L[i] \in S,
           \A i \in 1..Len(L) : L[i] \in T => L[i] <= t,
           NEW j \in 1..Len(L), L[j] \in A
    PROVE  \A i \in 1..j : L[i] >= t => L[i] \in T \cup Strokes(A, P, G, T, N)[N]
<1>a. PICK s : s = Strokes(A, P, G, T, N)
  OBVIOUS
<1>b. AreStrokes(s, A, P, G, T, N)
  BY <1>a, StrokesEquation
<1>c. s = [n \in 0..N |-> IF n = 0 THEN A \ T ELSE Longer(s[n - 1], P, G, T)]
  BY <1>b DEF AreStrokes
<1>1. /\ s[0] = A \ T
      /\ \A n \in 1..N : s[n] = Longer(s[n - 1], P, G, T)
  <2>1. 0 \in 0..N /\ \A n \in 1..N : n \in 0..N /\ n # 0
    OBVIOUS
  <2>2. s[0] = A \ T
    BY <1>c, <2>1
  <2>3. ASSUME NEW n \in 1..N PROVE s[n] = Longer(s[n - 1], P, G, T)
    BY <1>c, <2>1
  <2> QED
    BY <2>2, <2>3
<1> DEFINE Near(k) == \A i \in 1..j :
              L[i] >= t /\ L[j] <= L[i] + k => L[i] \in T \cup s[k] /\ L[i] \in G
           Bad == {k \in 0..N : ~Near(k)}
<1>0. /\ Len(L) \in Nat
      /\ \A i \in 1..Len(L) : L[i] \in 1..N /\ L[i] \in Nat
      /\ j \in Nat /\ j <= Len(L) /\ \A i \in 1..j : i \in 1..Len(L)
  BY ElementOfSeq
<1>2. ASSUME NEW k \in Bad, \A m \in Bad : k <= m PROVE FALSE
  <2>0. k \in 0..N /\ ~Near(k)
    OBVIOUS
  <2>1. CASE k = 0
    <3>1. ASSUME NEW i \in 1..j, L[i] >= t, L[j] <= L[i] + 0
          PROVE  L[i] \in T \cup s[0] /\ L[i] \in G
      <4>1. i = j
        <5>1. i < j => L[i] < L[j]
          BY <1>0
        <5>2. L[i] \in Nat /\ L[j] \in Nat /\ i \in Nat /\ i <= j
          BY SMTT(30), <1>0
        <5> QED
          BY SMTT(30), <1>0, <3>1, <5>1, <5>2
      <4> QED
        BY <1>1, <4>1
    <3> QED
      BY <2>0, <2>1, <3>1
  <2>2. CASE k # 0
    <3>1. k - 1 \in 0..N /\ k - 1 \notin Bad /\ k \in 1..N
      <4>1. k - 1 \in 0..N /\ k \in 1..N /\ ~(k <= k - 1)
        BY <2>0, <2>2
      <4> HIDE DEF Bad
      <4> QED
        BY <4>1, <1>2
    <3>2. Near(k - 1)
      BY <3>1
    <3>3. s[k] = Longer(s[k - 1], P, G, T)
      BY <1>1, <3>1
    <3>4. ASSUME NEW i \in 1..j, L[i] >= t, L[j] <= L[i] + k
          PROVE  L[i] \in T \cup s[k] /\ L[i] \in G
      <4>0. L[i] \in Nat /\ L[j] \in Nat /\ k \in Nat /\ i \in 1..Len(L)
        <5> HIDE DEF Bad, Near
        <5>1. i \in 1..Len(L) /\ j \in 1..Len(L)
          BY <1>0
        <5>2. L[i] \in Nat /\ L[j] \in Nat
          BY <5>1, <1>0
        <5>3. k \in Nat
          BY <2>0
        <5> QED
          BY <5>1, <5>2, <5>3
      <4>1. CASE L[j] <= L[i] + (k - 1)
        BY <3>2, <3>3, <3>4, <4>1 DEF Longer
      <4>2. CASE ~(L[j] <= L[i] + (k - 1))
        <5>1. i # j
          BY <3>1, <4>0, <4>2
        <5>2. i + 1 \in 1..j /\ i + 1 \in 1..Len(L) /\ i + 1 > 1 /\ (i + 1) - 1 = i
              /\ i < i + 1
          BY <1>0, <5>1
        <5>3. L[i] < L[i + 1] /\ P[L[i + 1]] = L[i] /\ L[i + 1] \in Nat
          BY <1>0, <4>0, <5>2
        <5>4. L[i + 1] >= t /\ L[j] <= L[i + 1] + (k - 1) /\ ~(L[i + 1] <= t)
          <6>1. PICK a \in Nat, b \in Nat : a = L[i] /\ b = L[i + 1]
            BY <4>0, <5>3
          <6>2. a < b /\ a >= t /\ L[j] <= a + k
            BY <3>4, <5>3, <6>1
          <6>3. b >= t /\ ~(b <= t)
            BY <6>2
          <6>4. L[j] <= b + (k - 1)
            BY <4>0, <6>2
          <6> QED
            BY <6>1, <6>3, <6>4
        <5>5. L[i + 1] \in T \cup s[k - 1] /\ L[i + 1] \in G
          BY <3>2, <5>2, <5>4
        <5>6. L[i + 1] \in s[k - 1]
          BY <5>2, <5>4, <5>5
        <5>7. L[i] \in S
          BY <3>4, <4>0
        <5>8. L[i] \in G
          BY <5>3, <5>5, <5>7
        <5> QED
          BY <3>3, <5>3, <5>6, <5>8 DEF Longer
      <4> QED
        BY <4>1, <4>2
    <3> QED
      BY <2>0, <3>4
  <2> QED
    BY <2>1, <2>2
<1>3. Bad = {}
  <2>1. Bad \in SUBSET Nat
    OBVIOUS
  <2> HIDE DEF Bad
  <2> QED
    BY <2>1, <1>2, LeastNumber
<1>4. Near(N)
  <2>1. N \in 0..N
    OBVIOUS
  <2> HIDE DEF Near
  <2> QED
    BY <1>3, <2>1
<1>5. ASSUME NEW i \in 1..j, L[i] >= t PROVE L[i] \in T \cup s[N]
  <2>1. L[i] \in 1..N /\ L[j] \in 1..N
    BY <1>0
  <2>2. L[j] <= L[i] + N
    BY <2>1
  <2> QED
    BY <1>4, <1>5, <2>2
<1> QED
  BY <1>a, <1>5

-----------------------------------------------------------------------------
(***************************************************************************)
(* The collector removes no event that is needed.                          *)
(***************************************************************************)

\* A history as a sequence of events, each the parent of the next one.
LEMMA HistoryChain ==
    ASSUME TypeInv, LogInv, NEW h \in Histories
    PROVE  /\ log[h] \in Seq(1..MaxEvents) /\ Len(log[h]) \in Nat
           /\ \A i \in 1..Len(log[h]) : log[h][i] \in EvId /\ log[h][i] \in Nat
           /\ \A i \in 1..Len(log[h]) : i > 1 => parent[log[h][i]] = log[h][i - 1]
           /\ \A i, k \in 1..Len(log[h]) : i < k => log[h][i] < log[h][k]
           /\ refs[h].phase # "none" => \A x \in LogEvents(h) : x <= refs[h].head
           /\ refs[h].phase = "none" => LogEvents(h) = {}
<1>1. log[h] \in Seq(EvId) /\ HistoryInv(h) /\ LogEvents(h) \subseteq Nat
  BY EventsTyped DEF TypeInv, TypeOK, LogInv
<1>2. log[h] \in Seq(1..MaxEvents) /\ Len(log[h]) \in Nat
  BY <1>1, LenProperties DEF EvId
<1>3. \A i \in 1..Len(log[h]) : log[h][i] \in EvId /\ log[h][i] \in Nat
  <2>1. \A i \in 1..Len(log[h]) : log[h][i] \in EvId
    BY <1>1, ElementOfSeq
  <2> QED
    BY <2>1 DEF EvId
<1>4. IsChain(log[h], parent, EvId, nextId)
  BY <1>1 DEF HistoryInv
<1>5. \A i \in 1..Len(log[h]) : i > 1 => parent[log[h][i]] = log[h][i - 1]
  BY <1>4 DEF IsChain, Before
<1>6. \A i, k \in 1..Len(log[h]) : i < k => log[h][i] < log[h][k]
  BY <1>4 DEF IsChain
<1>7. ASSUME refs[h].phase # "none", NEW x \in LogEvents(h)
      PROVE  x <= refs[h].head
  <2>1. PICK i \in 1..Len(log[h]) : x = log[h][i]
    BY DEF LogEvents
  <2>2. refs[h].head = log[h][Len(log[h])] /\ Len(log[h]) \in 1..Len(log[h])
    BY <1>1, <1>2, <1>7, <2>1 DEF HistoryInv
  <2>3. CASE i = Len(log[h])
    BY <1>3, <2>1, <2>2, <2>3
  <2>4. CASE i < Len(log[h])
    BY <1>3, <1>6, <2>1, <2>2, <2>4
  <2> QED
    BY <1>2, <2>3, <2>4
<1>8. ASSUME refs[h].phase = "none" PROVE LogEvents(h) = {}
  <2>1. log[h] = << >>
    BY <1>1, <1>8 DEF HistoryInv
  <2> QED
    BY <2>1 DEF LogEvents
<1> QED
  BY <1>2, <1>3, <1>5, <1>6, <1>7, <1>8

\* The tail of a history is one of its events, or none.
LEMMA TailInLog ==
    ASSUME MTypeInv, EpochInv, NEW h \in Histories
    PROVE  /\ refs[h].tail \in LogEvents(h) \cup {EventEpoch}
           /\ refs[h].tail \in Nat /\ refs[h].head \in Vid
<1>1. EpochsInv(h) /\ refs[h] \in RefsDoc
  BY DEF MTypeInv, TypeInv, TypeOK, EpochInv
<1>2. refs[h].tail \in LogEvents(h) \cup {EventEpoch}
  BY <1>1 DEF EpochsInv
<1> QED
  BY <1>1, <1>2, JournalAssumption DEF RefsDoc, Vid

\* What paintBlack() has painted when it is done.
LEMMA PaintedStrokes ==
    Painted = gc.tails \cup
                Strokes(gc.gray, parent, gc.graph, gc.tails, MaxEvents)[MaxEvents]
BY DEF Painted, Strokes, Longer

\* The events from the tail to the head are painted, if the scan has seen them.
LEMMA LivePainted ==
    ASSUME MTypeInv, LogInv, EpochInv, GcInv, gc.pc = "mark", gc.todo = {},
           NEW h \in Histories, NEW x \in Live(h), x \in gc.graph
    PROVE  x \in Painted
<1> DEFINE L == log[h]
           t == refs[h].tail
<1>0. /\ TypeInv /\ StoredInv
      /\ gc.gray \subseteq gc.graph
      /\ \A e \in gc.graph : parent[e] \in stored => parent[e] \in gc.graph
      /\ \A b \in gc.tails : \E g \in Histories :
            b \in LogEvents(g) /\ b <= refs[g].tail
      /\ \A g, f \in Histories : g # f => LogEvents(g) \cap LogEvents(f) = {}
      /\ MaxEvents \in Nat /\ t \in Nat
  BY JournalAssumption, TailInLog DEF MTypeInv, GcInv, MarkInv, GraphInv, TailsInv, LogInv
<1>1. PICK a \in {EventEpoch} \cup (gc.gray \cap LogEvents(h)) :
         \A y \in LogEvents(h) \cap gc.graph : y > a => y \in gc.gray
  BY DEF GcInv, MarkInv, HeadMarked
<1>2. /\ L \in Seq(1..MaxEvents) /\ Len(L) \in Nat
      /\ \A i \in 1..Len(L) : L[i] \in EvId /\ L[i] \in Nat
      /\ \A i \in 1..Len(L) : i > 1 => parent[L[i]] = L[i - 1]
      /\ \A i, k \in 1..Len(L) : i < k => L[i] < L[k]
  BY <1>0, HistoryChain
<1>3. \A i \in 1..Len(L) : L[i] \in LogEvents(h)
  BY DEF LogEvents
<1>4. \A i \in 1..Len(L) : L[i] >= t => L[i] \in stored
  BY <1>0, <1>3 DEF StoredInv, Live
<1>5. \A i \in 1..Len(L) : L[i] \in gc.tails => L[i] <= t
  <2>1. ASSUME NEW i \in 1..Len(L), L[i] \in gc.tails PROVE L[i] <= t
    <3>1. PICK g \in Histories : L[i] \in LogEvents(g) /\ L[i] <= refs[g].tail
      BY <1>0, <2>1
    <3>2. g = h
      BY <1>0, <1>3, <3>1
    <3> QED
      BY <3>1, <3>2
  <2> QED
    BY <2>1
<1>6. PICK i \in 1..Len(L) : x = L[i]
  BY DEF Live, LogEvents
<1>7. L[i] >= t /\ x \in LogEvents(h)
  BY <1>6 DEF Live
<1>8. ASSUME NEW j \in 1..Len(L), i <= j, L[j] \in gc.gray PROVE x \in Painted
  <2>1. \A k \in 1..j : L[k] >= t =>
           L[k] \in gc.tails \cup
                Strokes(gc.gray, parent, gc.graph, gc.tails, MaxEvents)[MaxEvents]
    BY <1>0, <1>2, <1>4, <1>5, <1>8, StrokesReach
  <2>2. i \in 1..j
    BY <1>2, <1>8
  <2> QED
    BY <1>6, <1>7, <2>1, <2>2, PaintedStrokes
<1>9. CASE x > a
  <2>1. L[i] \in gc.gray /\ i <= i
    BY <1>1, <1>2, <1>6, <1>7, <1>9
  <2> QED
    BY <1>8, <2>1
<1>10. CASE ~(x > a)
  <2>1. x \in Nat /\ x > 0
    BY <1>2, <1>6 DEF EvId
  <2>2. a \in gc.gray /\ a \in LogEvents(h)
    BY <1>10, <2>1 DEF EventEpoch
  <2>3. PICK j \in 1..Len(L) : a = L[j]
    BY <2>2 DEF LogEvents
  <2>4. i <= j
    <3>1. ~(L[i] > L[j]) /\ L[i] \in Nat /\ L[j] \in Nat /\ i \in Nat /\ j \in Nat
      BY <1>2, <1>6, <1>10, <2>3
    <3>2. ~(j < i)
      <4>1. j < i => L[j] < L[i]
        BY <1>2
      <4> QED
        BY <3>1, <4>1
    <3> QED
      BY <3>1, <3>2
  <2> QED
    BY <1>8, <2>2, <2>3, <2>4
<1> QED
  BY <1>9, <1>10

\* So are the events of a commit in flight.
LEMMA CommitPainted ==
    ASSUME MTypeInv, LogInv, GcInv, gc.pc = "mark",
           NEW c \in Clients, Committing(c), NEW x \in EventsOf(c), x \in gc.graph
    PROVE  x \in Painted
<1> DEFINE S == Strokes(gc.gray, parent, gc.graph, gc.tails, MaxEvents)
<1>0. /\ TypeInv /\ MaxEvents \in Nat
      /\ gc.gray \subseteq gc.graph /\ x \in gc.gray
      /\ \A e \in gc.graph : parent[e] \in stored => parent[e] \in gc.graph
  BY JournalAssumption DEF MTypeInv, GcInv, MarkInv, GraphInv
<1>1. x \in 1..MaxEvents
  BY <1>0, EventsTyped DEF EvId
<1> DEFINE L == <<x>>
<1>2. L \in Seq(1..MaxEvents) /\ Len(L) = 1 /\ L[1] = x
  BY <1>1
<1>3. x \in Nat /\ \A i \in 1..Len(L) : i = 1 /\ L[i] = x
  BY <1>1, <1>2
<1>4. /\ \A i \in 1..Len(L) : i > 1 => parent[L[i]] = L[i - 1]
      /\ \A i, k \in 1..Len(L) : i < k => L[i] < L[k]
      /\ \A i \in 1..Len(L) : L[i] >= x => L[i] \in stored \cup {x}
      /\ \A i \in 1..Len(L) : L[i] \in gc.tails => L[i] <= x
      /\ 1 \in 1..Len(L) /\ L[1] \in gc.gray
  BY <1>0, <1>2, <1>3
<1>5. \A e \in gc.graph : parent[e] \in stored \cup {x} => parent[e] \in gc.graph
  BY <1>0
<1> HIDE DEF L
<1>6. \A i \in 1..1 : L[i] >= x => L[i] \in gc.tails \cup S[MaxEvents]
  BY <1>0, <1>2, <1>3, <1>4, <1>5, StrokesReach
<1>7. x >= x /\ 1 \in 1..1
  BY <1>3
<1> QED
  BY <1>2, <1>6, <1>7, PaintedStrokes

\* The commits that are in flight after a step have not moved in it.
CommitsKept ==
    \A d \in Clients : Committing(d)' =>
        Committing(d) /\ cl'[d] = cl[d] /\ began[d] <= began'[d]

\* Steps that store nothing, and that scan only what is stored.
LEMMA StoredKept ==
    ASSUME MTypeInv, MTypeInv', StoredInv, CommitsKept,
           UNCHANGED <<nextId, parent, stored, etime>>,
           \A h \in Histories : Live(h)' \subseteq Live(h),
           gc'.graph \subseteq gc.graph \cup stored
    PROVE  StoredInv'
<1>1. \A h \in Histories : Live(h)' \subseteq stored'
  BY DEF StoredInv
<1>2. ASSUME NEW d \in Clients, Committing(d)' PROVE CommitStored(d)'
  <2>0. CommitStored(d) /\ cl'[d] = cl[d] /\ began[d] <= began'[d]
    BY <1>2 DEF CommitsKept, StoredInv
  <2>1. Pending(d)' = Pending(d) /\ EventsOf(d)' = EventsOf(d)
    BY <2>0 DEF Pending, EventsOf
  <2>2. ASSUME NEW e \in EventsOf(d) PROVE etime'[e] <= began'[d]
    <3>1. etime[e] <= began[d] /\ e \in EvId
      BY <2>0, EventsTyped DEF CommitStored, MTypeInv
    <3>2. etime[e] \in Nat /\ began[d] \in Nat /\ began'[d] \in Nat
      BY <3>1 DEF MTypeInv
    <3> QED
      BY <2>0, <3>1, <3>2
  <2>3. Pending(d)' \cap (stored' \cup gc'.graph) = {}
    BY <2>0, <2>1 DEF CommitStored
  <2>4. \A i \in 1..cl'[d].n : cl'[d].evs[i] \in stored'
    BY <2>0 DEF CommitStored
  <2>5. \A e \in EvId : parent'[e] \in Pending(d)' => e \in Pending(d)'
    BY <2>0, <2>1 DEF CommitStored
  <2>6. cl'[d].pc = "updateHead" => cl'[d].n = Len(cl'[d].evs)
    BY <2>0 DEF CommitStored
  <2>7. \A e \in EventsOf(d)' : etime'[e] <= began'[d]
    BY <2>1, <2>2
  <2> QED
    BY <2>3, <2>4, <2>5, <2>6, <2>7 DEF CommitStored
<1>3. UnusedIds'
  BY DEF StoredInv, UnusedIds
<1> QED
  BY <1>1, <1>2, <1>3 DEF StoredInv

\* Steps that keep what the collector has marked.
LEMMA MarkKept ==
    ASSUME MTypeInv, EpochInv, EpochInv', MTypeInv', MarkInv, CommitsKept,
           UNCHANGED <<parent, stored, gc>>,
           \A h \in Histories :
              LogEvents(h)' = LogEvents(h) /\ refs[h].tail <= refs'[h].tail
    PROVE  MarkInv'
<1>1. ASSUME gc.pc \in {"scan", "mark"} PROVE GraphInv'
  <2>1. GraphInv
    BY <1>1 DEF MarkInv
  <2>2. \A d \in Clients : Committing(d)' =>
           Committing(d) /\ EventsOf(d)' = EventsOf(d)
    BY DEF CommitsKept, EventsOf
  <2> QED
    BY <2>1, <2>2 DEF GraphInv
<1>2. ASSUME gc.pc = "mark" PROVE TailsInv'
  <2>1. ASSUME NEW t \in gc.tails
        PROVE  \E h \in Histories : t \in LogEvents(h)' /\ t <= refs'[h].tail
    <3>1. PICK h \in Histories : t \in LogEvents(h) /\ t <= refs[h].tail
      BY <1>2, <2>1 DEF MarkInv, TailsInv
    <3>2. /\ refs[h].tail \in Nat /\ refs'[h].tail \in Nat /\ t \in Nat
      <4>1. refs[h].tail \in Nat
        BY TailInLog
      <4>2. refs'[h] \in RefsDoc
        BY DEF MTypeInv, TypeInv, TypeOK
      <4>3. refs'[h].tail \in Nat
        BY <4>2, JournalAssumption DEF RefsDoc, Vid
      <4>4. t \in Nat
        BY <3>1, EventsTyped DEF MTypeInv
      <4> QED
        BY <4>1, <4>3, <4>4
    <3>3. t <= refs'[h].tail
      BY <3>1, <3>2
    <3> QED
      BY <3>1, <3>3
  <2> QED
    BY <2>1 DEF TailsInv
<1>3. ASSUME gc.pc = "mark", NEW h \in Histories \ gc.todo PROVE HeadMarked(h)'
  BY <1>3 DEF MarkInv, HeadMarked
<1>4. gc.pc = "scan" => gc.tails = {}
  BY DEF MarkInv
<1> QED
  BY <1>1, <1>2, <1>3, <1>4 DEF MarkInv

\* Steps that keep what the collector sweeps away.
LEMMA SweepKept ==
    ASSUME SweepInv, CommitsKept,
           gc'.pc = "sweep" => gc.pc = "sweep" /\ gc'.graph \subseteq gc.graph,
           \A h \in Histories : Live(h)' \subseteq Live(h)
    PROVE  SweepInv'
<1>1. \A d \in Clients : Committing(d)' =>
           Committing(d) /\ EventsOf(d)' = EventsOf(d)
  BY DEF CommitsKept, EventsOf
<1> QED
  BY <1>1 DEF SweepInv

\* All three.
LEMMA GcKept ==
    ASSUME MTypeInv, MTypeInv', EpochInv, EpochInv', GcInv, CommitsKept,
           UNCHANGED <<nextId, parent, stored, etime>>,
           \A h \in Histories : Live(h)' \subseteq Live(h),
           \/ /\ gc' = gc
              /\ \A h \in Histories :
                    LogEvents(h)' = LogEvents(h) /\ refs[h].tail <= refs'[h].tail
           \/ /\ gc'.pc \notin {"scan", "mark", "sweep"}
              /\ gc'.graph \subseteq gc.graph
    PROVE  GcInv'
<1>0. StoredInv /\ MarkInv /\ SweepInv
  BY DEF GcInv
<1>1. StoredInv'
  BY <1>0, StoredKept
<1>2. MarkInv'
  <2>1. CASE gc'.pc \notin {"scan", "mark", "sweep"}
    BY <2>1 DEF MarkInv
  <2>2. CASE gc' = gc /\ \A h \in Histories :
                    LogEvents(h)' = LogEvents(h) /\ refs[h].tail <= refs'[h].tail
    BY <1>0, <2>2, MarkKept
  <2> QED
    BY <2>1, <2>2
<1>3. SweepInv'
  BY <1>0, SweepKept
<1> QED
  BY <1>1, <1>2, <1>3 DEF GcInv

\* A live event stays one while the tail does not go back.
LEMMA LiveShrinks ==
    ASSUME MTypeInv, MTypeInv', EpochInv, NEW h \in Histories,
           LogEvents(h)' \subseteq LogEvents(h), refs[h].tail <= refs'[h].tail
    PROVE  Live(h)' \subseteq Live(h)
<1>1. LogEvents(h) \subseteq Nat /\ refs[h].tail \in Nat
  BY TailInLog, EventsTyped DEF MTypeInv
<1>2. refs'[h] \in RefsDoc
  BY DEF MTypeInv, TypeInv, TypeOK
<1>3. refs'[h].tail \in Nat
  BY <1>2, JournalAssumption DEF RefsDoc, Vid
<1>4. ASSUME NEW x \in LogEvents(h)', x >= refs'[h].tail
      PROVE  x \in LogEvents(h) /\ x >= refs[h].tail
  BY <1>1, <1>3, <1>4
<1> QED
  BY <1>4 DEF Live

\* Time passes: the events of a commit in flight are not older than its call.
LEMMA GcTick ==
    ASSUME MTypeInv, MTypeInv', GcInv, Tick
    PROVE  GcInv'
<1>0. /\ UNCHANGED <<nextId, parent, stored, refs, log, cl, gc>>
      /\ etime' = [e \in EvId |-> IF e >= nextId THEN 0
                                  ELSE Older(etime[e], RecentDuration)]
      /\ began' = [c \in Clients |-> IF cl[c].pc = "idle" THEN 0 ELSE began[c] + 1]
      /\ StoredInv /\ MarkInv /\ SweepInv
  BY DEF Tick, vars, GcInv
<1>1. MarkInv'
  BY <1>0 DEF MarkInv, GraphInv, TailsInv, HeadMarked, LogEvents, Committing, EventsOf
<1>2. SweepInv'
  BY <1>0 DEF SweepInv, Live, LogEvents, Committing, EventsOf
<1>3. \A h \in Histories : Live(h)' \subseteq stored'
  BY <1>0 DEF StoredInv, Live, LogEvents
<1>4. ASSUME NEW d \in Clients, Committing(d)' PROVE CommitStored(d)'
  <2>1. CommitStored(d) /\ Committing(d)
    BY <1>0, <1>4 DEF StoredInv, Committing
  <2>2. ASSUME NEW e \in EventsOf(d) PROVE etime'[e] <= began'[d]
    <3>1. etime[e] <= began[d] /\ e \in EvId
      BY <2>1, EventsTyped DEF CommitStored, MTypeInv
    <3>2. etime[e] \in Nat /\ began[d] \in Nat
      BY <3>1 DEF MTypeInv
    <3>3. began'[d] = began[d] + 1
      BY <1>0, <2>1 DEF Committing
    <3>4. Older(etime[e], RecentDuration) <= etime[e] + 1
          /\ Older(etime[e], RecentDuration) \in Nat
      BY <3>2, OlderGrows
    <3>5. etime'[e] = 0 \/ etime'[e] = Older(etime[e], RecentDuration)
      BY <1>0, <3>1
    <3> QED
      BY <3>1, <3>2, <3>3, <3>4, <3>5
  <2>3. EventsOf(d)' = EventsOf(d) /\ Pending(d)' = Pending(d)
    BY <1>0 DEF EventsOf, Pending
  <2> QED
    BY <1>0, <2>1, <2>2, <2>3 DEF CommitStored
<1>5. UnusedIds'
  BY <1>0 DEF StoredInv, UnusedIds
<1> QED
  BY <1>1, <1>2, <1>3, <1>4, <1>5 DEF GcInv, StoredInv

\* The collector's own steps after it has removed events.
LEMMA GcFields ==
    ASSUME MTypeInv
    PROVE  /\ GcRemoveTail \/ GcRemoveJournal => gc'.graph = gc.graph
           /\ \A h \in Histories : GcInvalidate(h) => gc'.graph = gc.graph
           /\ GcSetDeleted => gc'.graph = gc.graph
           /\ \A h \in Histories : GcInvalidate(h) =>
                 gc'.pc \in {"deleting", "removeJournal"}
<1>0. gc \in GcState
  BY DEF MTypeInv
<1>1. ASSUME GcRemoveTail \/ GcRemoveJournal PROVE gc'.graph = gc.graph
  <2>1. \/ gc' = [gc EXCEPT !.pc = "tails"]
        \/ gc' = [gc EXCEPT !.pc = "setDeleted"]
    BY <1>1 DEF GcRemoveTail, GcRemoveJournal, GcTo
  <2>2. [gc EXCEPT !.pc = "tails"].graph = gc.graph
    BY <1>0 DEF GcState
  <2>3. [gc EXCEPT !.pc = "setDeleted"].graph = gc.graph
    BY <1>0 DEF GcState
  <2> QED
    BY <2>1, <2>2, <2>3
<1>2. ASSUME NEW h \in Histories, GcInvalidate(h)
      PROVE  gc'.graph = gc.graph /\ gc'.pc \in {"deleting", "removeJournal"}
  <2>1. /\ gc.pc = "deleting"
        /\ \/ gc' = [gc EXCEPT !.pc = "removeJournal", !.h = h, !.todo = @ \ {h}]
           \/ gc' = [gc EXCEPT !.todo = @ \ {h}]
    BY <1>2 DEF GcInvalidate, GcTo
  <2> QED
    BY <1>0, <2>1 DEF GcState
<1>3. ASSUME GcSetDeleted PROVE gc'.graph = gc.graph
  <2>1. gc' = [gc EXCEPT !.pc = "deleting"]
    BY <1>3 DEF GcSetDeleted, GcTo
  <2> QED
    BY <1>0, <2>1 DEF GcState
<1>4. (GcRemoveTail \/ GcRemoveJournal) => gc'.graph = gc.graph
  BY <1>1
<1> QED
  BY <1>2, <1>3, <1>4

\* Steps that change no history document's head or tail.
LEMMA LiveSame ==
    ASSUME MTypeInv, EpochInv, UNCHANGED log,
           \A h \in Histories : refs'[h].tail = refs[h].tail
    PROVE  \A h \in Histories :
              /\ LogEvents(h)' = LogEvents(h) /\ Live(h)' = Live(h)
              /\ refs[h].tail <= refs'[h].tail
<1>1. \A h \in Histories : LogEvents(h)' = LogEvents(h)
  BY DEF LogEvents
<1>2. ASSUME NEW h \in Histories
      PROVE  Live(h)' = Live(h) /\ refs[h].tail <= refs'[h].tail
  <2>1. refs[h].tail \in Nat /\ refs'[h].tail = refs[h].tail
    BY TailInLog
  <2> QED
    BY <1>1, <2>1 DEF Live
<1> QED
  BY <1>1, <1>2

\* What none of the clients does, their commits survive.
LEMMA CommitsStay ==
    ASSUME MTypeInv, UNCHANGED <<cl, began>>
    PROVE  CommitsKept
<1>1. ASSUME NEW d \in Clients PROVE began[d] <= began'[d]
  <2>1. began[d] \in Nat /\ began'[d] = began[d]
    BY DEF MTypeInv
  <2> QED
    BY <2>1
<1> QED
  BY <1>1 DEF CommitsKept, Committing

\* The steps of the trimmer.
LEMMA GcInvTrim ==
    ASSUME MTypeInv, MTypeInv', EpochInv, EpochInv', GcInv,
           \/ UNCHANGED allVars
           \/ TrimOnly
           \/ SetTail
           \/ SetEpoch
    PROVE  GcInv'
<1>1. CASE UNCHANGED allVars \/ TrimOnly
  <2>1. /\ UNCHANGED <<nextId, parent, stored, etime, log, refs, cl, began, gc>>
        /\ gc' = gc
    BY <1>1 DEF allVars, mvars, vars, TrimOnly
  <2>2. CommitsKept
    BY <2>1, CommitsStay
  <2>3. \A h \in Histories :
              /\ LogEvents(h)' = LogEvents(h) /\ Live(h)' = Live(h)
              /\ refs[h].tail <= refs'[h].tail
    BY <2>1, LiveSame
  <2>4. \A h \in Histories : Live(h)' \subseteq Live(h)
    BY <2>3
  <2> QED
    BY <2>1, <2>2, <2>3, <2>4, GcKept
<1>2. CASE SetTail \/ SetEpoch
  <2>0. tr \in TrState
    BY DEF MTypeInv
  <2>1. /\ UNCHANGED <<nextId, parent, stored, journal, log, heads, cl>>
        /\ UNCHANGED <<etime, dtime, began, gc>>
        /\ \/ UNCHANGED <<refs, epochLog>>
           \/ \E h \in Histories : TailStep(h) \/ EpochStep(h)
    BY <1>2, <2>0, TrimmerUpdates
  <2>2. CommitsKept
    BY <2>1, CommitsStay
  <2>3. ASSUME NEW g \in Histories PROVE refs[g].tail <= refs'[g].tail
    <3>0. refs[g].tail \in Nat
      BY TailInLog
    <3>1. CASE UNCHANGED <<refs, epochLog>>
      BY <3>0, <3>1
    <3>2. ASSUME NEW h \in Histories, EpochStep(h)
          PROVE  refs[g].tail <= refs'[g].tail
      <4>1. refs'[g].tail = refs[g].tail
        BY <3>2, EpochStepFields
      <4> QED
        BY <3>0, <4>1
    <3>3. ASSUME NEW h \in Histories, TailStep(h)
          PROVE  refs[g].tail <= refs'[g].tail
      <4>1. CASE g = h
        <5>1. refs'[h].tail = tr.new /\ h = tr.h /\ tr.pc = "setTail"
          BY <3>3, TailStepFields DEF TailStep
        <5>2. refs[tr.h].tail <= tr.new
          BY <5>1 DEF EpochInv, TrimTailInv
        <5> QED
          BY <4>1, <5>1, <5>2
      <4>2. CASE g # h
        <5>1. refs'[g] = refs[g]
          BY <3>3, <4>2, TailStepFields
        <5> QED
          BY <3>0, <5>1
      <4> QED
        BY <4>1, <4>2
    <3> QED
      BY <2>1, <3>1, <3>2, <3>3
  <2>4. \A h \in Histories : LogEvents(h)' = LogEvents(h)
    BY <2>1 DEF LogEvents
  <2>5. \A h \in Histories : Live(h)' \subseteq Live(h)
    BY <2>3, <2>4, LiveShrinks
  <2> QED
    BY <2>1, <2>2, <2>3, <2>4, <2>5, GcKept
<1> QED
  BY <1>1, <1>2

\* The steps of the collector that remove no event.
LEMMA GcInvRemove ==
    ASSUME MTypeInv, MTypeInv', EpochInv, EpochInv', GcInv,
           \/ GcRemoveTail
           \/ GcDeletedRefs
           \/ \E h \in Histories : GcInvalidate(h)
           \/ GcRemoveJournal
           \/ GcSetDeleted
    PROVE  GcInv'
<1>1. ASSUME UNCHANGED <<nextId, parent, stored, log, cl, etime, began>>,
             \A h \in Histories : refs'[h].tail = refs[h].tail,
             gc'.pc \notin {"scan", "mark", "sweep"}, gc'.graph = gc.graph
      PROVE  GcInv'
  <2>1. \A h \in Histories : Live(h)' \subseteq Live(h)
    BY <1>1, LiveSame
  <2>2. CommitsKept
    BY <1>1, CommitsStay
  <2> QED
    BY <1>1, <2>1, <2>2, GcKept
<1>2. CASE GcRemoveTail \/ GcRemoveJournal
  <2>1. gc'.graph = gc.graph
    BY <1>2, GcFields
  <2> QED
    BY <1>1, <1>2, <2>1, GcRemoveFields
<1>3. ASSUME NEW h \in Histories, GcInvalidate(h) PROVE GcInv'
  <2>1. gc'.graph = gc.graph /\ gc'.pc \in {"deleting", "removeJournal"}
    BY <1>3, GcFields
  <2>2. /\ UNCHANGED <<nextId, parent, stored, log, cl, etime, began>>
        /\ \A g \in Histories : refs'[g].tail = refs[g].tail
    BY <1>3, GcInvalidateFields
  <2> QED
    BY <1>1, <2>1, <2>2
<1>4. CASE GcSetDeleted
  BY <1>1, <1>4, GcFields, GcSetDeletedFields
<1>5. CASE GcDeletedRefs
  <2>1. /\ \A h \in Histories : Gone(h) => log'[h] = << >>
        /\ \A h \in Histories : ~Gone(h) =>
              refs'[h] = refs[h] /\ log'[h] = log[h]
        /\ UNCHANGED <<nextId, parent, stored, journal, cl>>
        /\ UNCHANGED <<etime, began, tr>>
        /\ gc'.pc = "deleting" /\ gc'.graph = {}
    BY <1>5, GcDeletedRefsFields
  <2>2. ASSUME NEW h \in Histories PROVE Live(h)' \subseteq Live(h)
    <3>1. CASE Gone(h)
      <4>1. log'[h] = << >>
        BY <2>1, <3>1
      <4>2. LogEvents(h)' = {}
        BY <4>1 DEF LogEvents
      <4> QED
        BY <4>2 DEF Live
    <3>2. CASE ~Gone(h)
      <4>1. log'[h] = log[h] /\ refs'[h] = refs[h]
        BY <2>1, <3>2
      <4> QED
        BY <4>1 DEF Live, LogEvents
    <3> QED
      BY <3>1, <3>2
  <2>3. CommitsKept
    BY <2>1, CommitsStay
  <2> QED
    BY <2>1, <2>2, <2>3, GcKept
<1> QED
  BY <1>2, <1>3, <1>4, <1>5

\* The scan begins: what is stored, but is not referred to by a refs document
\* yet, is recent.
LEMMA GcInvBegin ==
    ASSUME MTypeInv, MTypeInv', TimeInv, EpochInv, GcInv, GcBegin
    PROVE  GcInv'
<1>0. /\ UNCHANGED <<nextId, parent, stored, etime, log, refs, cl, began>>
      /\ gc' = [GcIdle EXCEPT
               !.pc = "scan", !.graph = stored,
               !.gray = {e \in stored : ~(etime[e] > RecentDuration)}]
      /\ StoredInv
  BY DEF GcBegin, GcFrame, GcTo, vars, GcInv
<1>1. /\ gc'.pc = "scan" /\ gc'.graph = stored /\ gc'.tails = {}
      /\ gc'.gray = {e \in stored : ~(etime[e] > RecentDuration)}
  <2>1. GcIdle.tails = {}
    BY IdlePc
  <2> QED
    BY <1>0, <2>1, IdleStates DEF GcState
<1>2. CommitsKept
  BY <1>0, CommitsStay
<1>3. \A h \in Histories : Live(h)' \subseteq Live(h)
  BY <1>0, LiveSame
<1>4. StoredInv'
  BY <1>0, <1>1, <1>2, <1>3, StoredKept
<1>5. ASSUME NEW c \in Clients, Committing(c), NEW e \in EventsOf(c), e \in stored
      PROVE  ~(etime[e] > RecentDuration)
  <2>1. etime[e] <= began[c]
    BY <1>0, <1>5 DEF StoredInv, CommitStored
  <2>2. began[c] <= CallTicks
    BY DEF TimeInv, ClockInv
  <2>3. e \in EvId
    BY <1>5, EventsTyped DEF MTypeInv
  <2>4. etime[e] \in Nat /\ began[c] \in Nat
    BY <2>3 DEF MTypeInv
  <2>5. CallTicks \in Nat /\ RecentDuration \in Nat
    BY MaintenanceAssumption
  <2> QED
    BY <2>1, <2>2, <2>4, <2>5, CallsAreShort
<1>6. GraphInv'
  <2>1. gc'.gray \subseteq gc'.graph
    BY <1>1
  <2>2. \A e \in gc'.graph : parent'[e] \in stored' => parent'[e] \in gc'.graph
    BY <1>0, <1>1
  <2>3. \A c \in Clients : Committing(c)' =>
           Committing(c) /\ EventsOf(c)' = EventsOf(c)
    BY <1>0 DEF Committing, EventsOf
  <2>4. \A c \in Clients : Committing(c)' =>
           EventsOf(c)' \cap gc'.graph \subseteq gc'.gray
    BY <1>1, <1>5, <2>3
  <2> QED
    BY <2>1, <2>2, <2>4 DEF GraphInv
<1> QED
  BY <1>1, <1>4, <1>6 DEF GcInv, MarkInv, SweepInv

\* The scan ends.
LEMMA GcInvScanned ==
    ASSUME MTypeInv, MTypeInv', EpochInv, GcInv, GcScanned
    PROVE  GcInv'
<1>0. /\ UNCHANGED <<nextId, parent, stored, etime, log, refs, cl, began>>
      /\ gc.pc = "scan" /\ StoredInv /\ GraphInv /\ gc.tails = {}
      /\ gc \in GcState
  BY DEF GcScanned, GcFrame, vars, GcInv, MarkInv, MTypeInv
<1>1. PICK seen \in SUBSET (stored \ gc.graph) :
         /\ \A e \in seen : parent[e] \in stored => parent[e] \in gc.graph \cup seen
         /\ gc' = [gc EXCEPT !.pc = "mark", !.todo = Histories,
                             !.graph = gc.graph \cup seen, !.gray = @ \cup seen]
  BY DEF GcScanned, GcTo
<1>2. /\ gc'.pc = "mark" /\ gc'.todo = Histories /\ gc'.tails = {}
      /\ gc'.graph = gc.graph \cup seen /\ gc'.gray = gc.gray \cup seen
  BY <1>0, <1>1 DEF GcState
<1>3. CommitsKept
  BY <1>0, CommitsStay
<1>4. \A h \in Histories : Live(h)' \subseteq Live(h)
  BY <1>0, LiveSame
<1>5. gc'.graph \subseteq gc.graph \cup stored
  BY <1>2
<1>6. StoredInv'
  BY <1>0, <1>3, <1>4, <1>5, StoredKept
<1>7. GraphInv'
  <2>1. gc'.gray \subseteq gc'.graph
    BY <1>0, <1>2 DEF GraphInv
  <2>2. \A e \in gc'.graph : parent'[e] \in stored' => parent'[e] \in gc'.graph
    BY <1>0, <1>1, <1>2 DEF GraphInv
  <2>3. \A c \in Clients : Committing(c)' =>
           Committing(c) /\ EventsOf(c)' = EventsOf(c)
    BY <1>0 DEF Committing, EventsOf
  <2>4. \A c \in Clients : Committing(c)' =>
           EventsOf(c)' \cap gc'.graph \subseteq gc'.gray
    BY <1>0, <1>2, <2>3 DEF GraphInv
  <2> QED
    BY <2>1, <2>2, <2>4 DEF GraphInv
<1>8. TailsInv'
  BY <1>2 DEF TailsInv
<1>9. Histories \ gc'.todo = {}
  BY <1>2
<1> QED
  BY <1>2, <1>6, <1>7, <1>8, <1>9 DEF GcInv, MarkInv, SweepInv

\* A refs document marks its head and its tail.
LEMMA GcInvMark ==
    ASSUME MTypeInv, MTypeInv', LogInv, EpochInv, GcInv,
           NEW h \in Histories, GcMark(h)
    PROVE  GcInv'
<1>0. /\ UNCHANGED <<nextId, parent, stored, etime, log, refs, cl, began>>
      /\ gc.pc = "mark" /\ StoredInv /\ GraphInv /\ TailsInv
      /\ \A g \in Histories \ gc.todo : HeadMarked(g)
      /\ gc \in GcState /\ TypeInv
  BY DEF GcMark, GcFrame, vars, GcInv, MarkInv, MTypeInv
<1>1. CommitsKept
  BY <1>0, CommitsStay
<1>2. \A g \in Histories : Live(g)' \subseteq Live(g) /\ LogEvents(g)' = LogEvents(g)
  BY <1>0, LiveSame
<1>3. CASE gc' = GcIdle
  <2>1. gc'.pc = "idle" /\ gc'.graph = {}
    BY <1>3, IdlePc
  <2>2. StoredInv'
    BY <1>0, <1>1, <1>2, <2>1, StoredKept
  <2> QED
    BY <2>1, <2>2 DEF GcInv, MarkInv, SweepInv
<1>4. CASE gc' # GcIdle
  <2> DEFINE head == refs[h].head
             tail == refs[h].tail
  <2>1. /\ {e \in {head, tail} : e # EventEpoch} \ gc.graph = {}
        /\ gc' = [gc EXCEPT !.todo = @ \ {h},
                            !.gray = @ \cup ({head} \ {EventEpoch}),
                            !.tails = @ \cup ({tail} \ {EventEpoch})]
    BY <1>4 DEF GcMark, GcTo
  <2>2. /\ gc'.pc = "mark" /\ gc'.graph = gc.graph
        /\ gc'.todo = gc.todo \ {h}
        /\ gc'.gray = gc.gray \cup ({head} \ {EventEpoch})
        /\ gc'.tails = gc.tails \cup ({tail} \ {EventEpoch})
    BY <1>0, <2>1 DEF GcState
  <2>3. StoredInv'
    BY <1>0, <1>1, <1>2, <2>2, StoredKept
  <2>4. GraphInv'
    <3>1. gc'.gray \subseteq gc'.graph
      BY <1>0, <2>1, <2>2 DEF GraphInv
    <3>2. \A c \in Clients : Committing(c)' =>
             Committing(c) /\ EventsOf(c)' = EventsOf(c)
      BY <1>0 DEF Committing, EventsOf
    <3>3. \A c \in Clients : Committing(c)' =>
             EventsOf(c)' \cap gc'.graph \subseteq gc'.gray
      BY <1>0, <2>2, <3>2 DEF GraphInv
    <3>4. \A e \in gc'.graph : parent'[e] \in stored' => parent'[e] \in gc'.graph
      BY <1>0, <2>2 DEF GraphInv
    <3> QED
      BY <3>1, <3>3, <3>4 DEF GraphInv
  <2>5. TailsInv'
    <3>1. tail \in LogEvents(h) \cup {EventEpoch} /\ tail \in Nat
      BY TailInLog
    <3>2. tail <= tail
      BY <3>1
    <3>3. ASSUME NEW t \in gc'.tails
          PROVE  \E g \in Histories : t \in LogEvents(g)' /\ t <= refs'[g].tail
      <4>1. CASE t \in gc.tails
        BY <1>0, <1>2, <4>1 DEF TailsInv
      <4>2. CASE t = tail /\ t # EventEpoch
        BY <1>0, <1>2, <3>1, <3>2, <4>2
      <4> QED
        BY <2>2, <3>3, <4>1, <4>2
    <3> QED
      BY <3>3 DEF TailsInv
  <2>6. ASSUME NEW g \in Histories \ gc'.todo PROVE HeadMarked(g)'
    <3>1. CASE g # h
      <4>1. HeadMarked(g)
        BY <1>0, <2>2, <2>6, <3>1
      <4>2. PICK a \in {EventEpoch} \cup (gc.gray \cap LogEvents(g)) :
               \A x \in LogEvents(g) \cap gc.graph : x > a => x \in gc.gray
        BY <4>1 DEF HeadMarked
      <4>3. a \in {EventEpoch} \cup (gc'.gray \cap LogEvents(g)')
        BY <1>2, <2>2, <4>2
      <4>4. \A x \in LogEvents(g)' \cap gc'.graph : x > a => x \in gc'.gray
        BY <1>2, <2>2, <4>2
      <4> QED
        BY <4>3, <4>4 DEF HeadMarked
    <3>2. CASE g = h /\ refs[h].phase = "none"
      <4>1. LogEvents(h)' = {}
        BY <1>0, <1>2, <3>2, HistoryChain
      <4> QED
        BY <3>2, <4>1 DEF HeadMarked
    <3>3. CASE g = h /\ refs[h].phase # "none"
      <4>1. head \in LogEvents(h) /\ \A x \in LogEvents(h) : x <= head
        BY <1>0, <3>3, HeadInLog, HistoryChain
      <4>2. LogEvents(h) \subseteq Nat /\ head \in EvId
        BY <1>0, <4>1, EventsTyped
      <4>3. head # EventEpoch
        BY <4>2 DEF EvId, EventEpoch
      <4>4. head \in gc'.gray \cap LogEvents(h)'
        BY <1>2, <2>2, <4>1, <4>3
      <4>5. \A x \in LogEvents(h)' \cap gc'.graph : x > head => x \in gc'.gray
        BY <1>2, <4>1, <4>2
      <4> QED
        BY <3>3, <4>4, <4>5 DEF HeadMarked
    <3> QED
      BY <3>1, <3>2, <3>3
  <2> QED
    BY <2>2, <2>3, <2>4, <2>5, <2>6 DEF GcInv, MarkInv, SweepInv
<1> QED
  BY <1>3, <1>4

\* The white events are found: none of them is needed.
LEMMA GcInvPaint ==
    ASSUME MTypeInv, MTypeInv', LogInv, EpochInv, GcInv, GcPaint
    PROVE  GcInv'
<1>0. /\ UNCHANGED <<nextId, parent, stored, etime, log, refs, cl, began>>
      /\ gc.pc = "mark" /\ gc.todo = {} /\ StoredInv
      /\ gc' = [GcIdle EXCEPT !.pc = "sweep", !.graph = gc.graph \ Painted]
  BY DEF GcPaint, GcTo, GcFrame, vars, GcInv
<1>1. gc'.pc = "sweep" /\ gc'.graph = gc.graph \ Painted
  BY <1>0, IdleStates DEF GcState
<1>2. CommitsKept
  BY <1>0, CommitsStay
<1>3. \A h \in Histories : Live(h)' = Live(h)
  BY <1>0, LiveSame
<1>4. StoredInv'
  BY <1>0, <1>1, <1>2, <1>3, StoredKept
<1>5. \A h \in Histories : Live(h)' \cap gc'.graph = {}
  <2>1. ASSUME NEW h \in Histories, NEW x \in Live(h), x \in gc.graph
        PROVE  x \in Painted
    BY <1>0, <2>1, LivePainted
  <2> QED
    BY <1>1, <1>3, <2>1
<1>6. ASSUME NEW c \in Clients, Committing(c)' PROVE EventsOf(c)' \cap gc'.graph = {}
  <2>1. Committing(c) /\ EventsOf(c)' = EventsOf(c)
    BY <1>0, <1>6 DEF Committing, EventsOf
  <2>2. ASSUME NEW x \in EventsOf(c), x \in gc.graph PROVE x \in Painted
    BY <1>0, <2>1, <2>2, CommitPainted
  <2> QED
    BY <1>1, <2>1, <2>2
<1> QED
  BY <1>1, <1>4, <1>5, <1>6 DEF GcInv, MarkInv, SweepInv

\* The count of stored events of a commit in flight.
LEMMA StoredCount ==
    ASSUME MTypeInv, NEW c \in Clients, Committing(c), CommitStored(c)
    PROVE  /\ cl[c].n \in Nat /\ Len(cl[c].evs) \in Nat
           /\ cl[c].n <= Len(cl[c].evs)
           /\ \A i \in 1..cl[c].n : i \in 1..Len(cl[c].evs)
<1>1. /\ cl[c].n \in Nat /\ Len(cl[c].evs) \in Nat /\ Bounds(cl[c])
  BY ClientTyped DEF MTypeInv
<1>2. cl[c].n <= Len(cl[c].evs)
  BY <1>1 DEF Bounds, Committing, CommitStored
<1> QED
  BY <1>1, <1>2

\* An event that is not needed is removed.
LEMMA GcInvRemoveEvent ==
    ASSUME MTypeInv, MTypeInv', GcInv, NEW e \in EvId, GcRemoveEvent(e)
    PROVE  GcInv'
<1>0. /\ UNCHANGED <<nextId, parent, refs, log, cl, etime, began>>
      /\ gc.pc = "sweep" /\ gc'.pc = "sweep"
      /\ e \in gc.graph /\ stored' = stored \ {e}
      /\ gc'.graph = gc.graph \ {e}
      /\ StoredInv /\ SweepInv
  BY GcRemoveEventFields DEF GcInv
<1>1. \A h \in Histories : Live(h)' = Live(h)
  BY <1>0 DEF Live, LogEvents
<1>2. \A d \in Clients :
         /\ Committing(d)' = Committing(d)
         /\ EventsOf(d)' = EventsOf(d) /\ Pending(d)' = Pending(d)
  BY <1>0 DEF Committing, EventsOf, Pending
<1>3. \A h \in Histories : Live(h)' \subseteq stored' /\ Live(h)' \cap gc'.graph = {}
  BY <1>0, <1>1 DEF StoredInv, SweepInv
<1>4. ASSUME NEW d \in Clients, Committing(d)'
      PROVE  CommitStored(d)' /\ EventsOf(d)' \cap gc'.graph = {}
  <2>1. /\ Committing(d) /\ CommitStored(d) /\ EventsOf(d) \cap gc.graph = {}
    BY <1>0, <1>2, <1>4 DEF StoredInv, SweepInv
  <2>2. ASSUME NEW i \in 1..cl[d].n PROVE cl[d].evs[i] \in stored'
    <3>1. cl[d].evs[i] \in stored
      BY <2>1 DEF CommitStored
    <3>2. i \in 1..Len(cl[d].evs)
      BY <2>1, StoredCount
    <3>3. cl[d].evs[i] # e
      BY <1>0, <2>1, <3>2 DEF EventsOf
    <3> QED
      BY <1>0, <3>1, <3>3
  <2>3. Pending(d)' \cap (stored' \cup gc'.graph) = {}
    BY <1>0, <1>2, <2>1 DEF CommitStored
  <2>4. \A f \in EvId : parent'[f] \in Pending(d)' => f \in Pending(d)'
    BY <1>0, <1>2, <2>1 DEF CommitStored
  <2>5. \A f \in EventsOf(d)' : etime'[f] <= began'[d]
    BY <1>0, <1>2, <2>1 DEF CommitStored
  <2>6. cl'[d].pc = "updateHead" => cl'[d].n = Len(cl'[d].evs)
    BY <1>0, <2>1 DEF CommitStored
  <2> QED
    BY <1>0, <1>2, <2>1, <2>2, <2>3, <2>4, <2>5, <2>6 DEF CommitStored
<1>5. UnusedIds'
  BY <1>0 DEF StoredInv, UnusedIds
<1> QED
  BY <1>0, <1>3, <1>4, <1>5 DEF GcInv, StoredInv, MarkInv, SweepInv

\* The commits of the other clients do not move.
LEMMA OtherCommits ==
    ASSUME MTypeInv, NEW c \in Clients, ClientAct(c), OthersSame(c)
    PROVE  \A d \in Clients : d # c =>
              /\ cl'[d] = cl[d] /\ began'[d] = began[d]
              /\ Committing(d)' = Committing(d)
              /\ EventsOf(d)' = EventsOf(d) /\ Pending(d)' = Pending(d)
              /\ began[d] <= began'[d]
<1>1. ASSUME NEW d \in Clients, d # c
      PROVE  cl'[d] = cl[d] /\ began'[d] = began[d] /\ began[d] \in Nat
  BY <1>1 DEF MTypeInv, ClientAct, OthersSame
<1>2. \A d \in Clients : d # c =>
         /\ Committing(d)' = Committing(d)
         /\ EventsOf(d)' = EventsOf(d) /\ Pending(d)' = Pending(d)
  BY <1>1 DEF Committing, EventsOf, Pending
<1> QED
  BY <1>1, <1>2

\* A call of a client keeps its age while it lasts.
LEMMA CallAge ==
    ASSUME MTypeInv, NEW c \in Clients, ClientAct(c), cl'[c].pc # "idle"
    PROVE  began'[c] = began[c] /\ began[c] \in Nat
BY DEF MTypeInv, ClientAct

\* A client moves the head of a history.
LEMMA GcInvHead ==
    ASSUME MTypeInv, MTypeInv', LogInv, EpochInv, EpochInv', GcInv,
           NEW c \in Clients, ClientAct(c), NEW h \in Histories, HeadStep(c, h)
    PROVE  GcInv'
<1>0. /\ UNCHANGED <<nextId, parent, stored, etime, gc>> /\ gc' = gc
      /\ OthersSame(c) /\ Committing(c) /\ ~Committing(c)'
      /\ \A g \in Histories : g # h => refs'[g] = refs[g]
      /\ StoredInv /\ MarkInv /\ SweepInv /\ TypeInv
  BY DEF HeadStep, ClientAct, Committing, GcInv, MTypeInv
<1>1. /\ LogEvents(h)' = LogEvents(h) \cup EventsOf(c)
      /\ \A g \in Histories : g # h => LogEvents(g)' = LogEvents(g)
  BY <1>0, LogAfterHeadStep
<1>2. \A g \in Histories : refs'[g].tail = refs[g].tail
  <2>1. refs[h].phase = "none" => refs[h] = NoRefs
    BY DEF LogInv, HistoryInv
  <2> QED
    BY SMTT(30), <1>0, <2>1 DEF HeadStep, NoRefs
<1>3. EventsOf(c) \subseteq stored
  <2>1. \A i \in 1..cl[c].n : cl[c].evs[i] \in stored
    BY <1>0 DEF StoredInv, CommitStored
  <2>2. cl[c].n = Len(cl[c].evs)
    BY <1>0 DEF StoredInv, CommitStored, HeadStep
  <2> QED
    BY <2>1, <2>2 DEF EventsOf
<1>4. \A g \in Histories : Live(g)' \subseteq Live(g) \cup (IF g = h THEN EventsOf(c) ELSE {})
  BY <1>1, <1>2 DEF Live
<1>5. \A d \in Clients : d # c =>
              /\ cl'[d] = cl[d] /\ began'[d] = began[d]
              /\ Committing(d)' = Committing(d)
              /\ EventsOf(d)' = EventsOf(d) /\ Pending(d)' = Pending(d)
              /\ began[d] <= began'[d]
  BY <1>0, OtherCommits
<1>6. StoredInv'
  <2>1. \A g \in Histories : Live(g)' \subseteq stored'
    BY <1>0, <1>3, <1>4 DEF StoredInv
  <2>2. ASSUME NEW d \in Clients, Committing(d)' PROVE CommitStored(d)'
    <3>1. d # c
      BY <1>0, <2>2
    <3>2. /\ cl'[d] = cl[d] /\ began'[d] = began[d] /\ CommitStored(d)
          /\ EventsOf(d)' = EventsOf(d) /\ Pending(d)' = Pending(d)
      BY <1>0, <1>5, <2>2, <3>1 DEF StoredInv
    <3> QED
      BY <1>0, <3>2 DEF CommitStored
  <2>3. UnusedIds'
    BY <1>0 DEF StoredInv, UnusedIds
  <2> QED
    BY <2>1, <2>2, <2>3 DEF StoredInv
<1>7. MarkInv'
  <2>1. ASSUME gc.pc \in {"scan", "mark"} PROVE GraphInv'
    <3>1. GraphInv
      BY <1>0, <2>1 DEF MarkInv
    <3>2. \A d \in Clients : Committing(d)' =>
             EventsOf(d)' \cap gc.graph \subseteq gc.gray
      BY <1>0, <1>5, <3>1 DEF GraphInv
    <3> QED
      BY <1>0, <3>1, <3>2 DEF GraphInv
  <2>2. ASSUME gc.pc = "mark" PROVE TailsInv'
    <3>1. \A g \in Histories : LogEvents(g) \subseteq LogEvents(g)'
      BY <1>1
    <3> QED
      BY <1>0, <1>2, <2>2, <3>1 DEF MarkInv, TailsInv
  <2>3. ASSUME gc.pc = "mark", NEW g \in Histories \ gc.todo PROVE HeadMarked(g)'
    <3>1. PICK a \in {EventEpoch} \cup (gc.gray \cap LogEvents(g)) :
             \A x \in LogEvents(g) \cap gc.graph : x > a => x \in gc.gray
      BY <1>0, <2>3 DEF MarkInv, HeadMarked
    <3>2. EventsOf(c) \cap gc.graph \subseteq gc.gray
      BY <1>0, <2>3 DEF MarkInv, GraphInv
    <3>3. a \in {EventEpoch} \cup (gc'.gray \cap LogEvents(g)')
      BY <1>0, <1>1, <3>1
    <3>4. \A x \in LogEvents(g)' \cap gc'.graph : x > a => x \in gc'.gray
      BY <1>0, <1>1, <3>1, <3>2
    <3> QED
      BY <3>3, <3>4 DEF HeadMarked
  <2>4. gc.pc = "scan" => gc.tails = {}
    BY <1>0 DEF MarkInv
  <2> QED
    BY <1>0, <2>1, <2>2, <2>3, <2>4 DEF MarkInv
<1>8. SweepInv'
  <2>1. gc.pc = "sweep" =>
           \A g \in Histories : Live(g)' \cap gc.graph = {}
    BY <1>0, <1>4 DEF SweepInv
  <2>2. gc.pc = "sweep" => \A d \in Clients : Committing(d)' =>
           EventsOf(d)' \cap gc.graph = {}
    BY <1>0, <1>5 DEF SweepInv
  <2> QED
    BY <1>0, <2>1, <2>2 DEF SweepInv
<1> QED
  BY <1>6, <1>7, <1>8 DEF GcInv

\* The ids of a batch grow.
LEMMA BatchOrder ==
    ASSUME NEW E \in Seq(EvId), NEW v, NEW n, IsBatch(E, v, n)
    PROVE  /\ \A i \in 1..Len(E) : E[i] \in EvId /\ E[i] \in Nat
           /\ \A i, j \in 1..Len(E) : i < j => E[i] < E[j]
<1>1. Len(E) \in Nat /\ \A i \in 1..Len(E) : E[i] \in EvId
  BY ElementOfSeq
<1>2. \A i \in 1..Len(E) : E[i] \in Nat
  BY <1>1 DEF EvId
<1>3. \A i \in 1..Len(E) : E[i] = E[1] + i - 1
  BY DEF IsBatch
<1>4. 1 \in 1..Len(E)
  BY <1>1 DEF IsBatch
<1>5. ASSUME NEW i \in 1..Len(E), NEW j \in 1..Len(E), i < j PROVE E[i] < E[j]
  <2>1. E[i] = E[1] + i - 1 /\ E[j] = E[1] + j - 1
    BY <1>3
  <2>2. E[1] \in Nat /\ i \in Nat /\ j \in Nat
    BY <1>1, <1>2, <1>4
  <2> QED
    BY <1>5, <2>1, <2>2
<1> QED
  BY <1>1, <1>2, <1>5

\* A commit stores its next event.
LEMMA GcInvStore ==
    ASSUME MTypeInv, MTypeInv', LogInv, GcInv,
           NEW c \in Clients, ClientAct(c), StoreStepOf(c)
    PROVE  GcInv'
<1> DEFINE E == cl[c].evs
           n == cl[c].n
           x == E[n + 1]
<1>0. /\ UNCHANGED <<nextId, parent, refs, log, etime, gc>> /\ gc' = gc
      /\ OthersSame(c) /\ cl[c].pc = "store"
      /\ stored' = stored \cup {x}
      /\ cl'[c].evs = E /\ cl'[c].n = n + 1
      /\ cl'[c].pc = IF n + 1 = Len(E) THEN "updateHead" ELSE "store"
      /\ StoredInv /\ MarkInv /\ SweepInv /\ TypeInv
  BY DEF StoreStepOf, ClientAct, GcInv, MTypeInv
<1>1. Committing(c) /\ Committing(c)' /\ CommitStored(c) /\ cl'[c].pc # "idle"
  BY <1>0 DEF Committing, StoredInv
<1>2. /\ n \in Nat /\ Len(E) \in Nat /\ n + 1 \in 1..Len(E) /\ n + 1 <= Len(E)
      /\ E \in Seq(EvId)
  BY <1>0, ClientTyped DEF Bounds
<1>3. /\ x \in EventsOf(c) /\ x \in Pending(c) /\ x \in EvId
      /\ EventsOf(c)' = EventsOf(c)
  <2>1. x \in EventsOf(c) /\ EventsOf(c)' = EventsOf(c)
    BY <1>0, <1>2 DEF EventsOf
  <2>2. n + 1 \in (n + 1)..Len(E)
    BY <1>2
  <2>3. x \in Pending(c)
    BY <2>2 DEF Pending
  <2> QED
    BY <1>0, <2>1, <2>3, EventsTyped
<1>4. /\ \A i \in 1..Len(E) : E[i] = x => i = n + 1
      /\ \A i \in 1..Len(E) : i > n + 1 => x < E[i]
      /\ \A i \in 1..Len(E) : E[i] \in Nat
  <2>1. IsBatch(E, cl[c].vid, 0)
    BY <1>1 DEF LogInv
  <2> HIDE DEF E
  <2>2. /\ \A i \in 1..Len(E) : E[i] \in Nat
        /\ \A i, j \in 1..Len(E) : i < j => E[i] < E[j]
    BY <1>2, <2>1, BatchOrder
  <2> QED
    BY SMTT(30), <1>2, <2>2
<1>5. Pending(c)' = Pending(c) \ {x}
  <2>1. Pending(c)' = {E[i] : i \in (n + 2)..Len(E)}
    <3>1. (n + 1) + 1 = n + 2
      BY <1>2
    <3> QED
      BY <1>0, <3>1 DEF Pending
  <2>2. \A i \in (n + 2)..Len(E) : i \in (n + 1)..Len(E) /\ i \in 1..Len(E) /\ i # n + 1
    BY <1>2
  <2>3. \A i \in (n + 1)..Len(E) : i # n + 1 => i \in (n + 2)..Len(E)
    BY <1>2
  <2>4. Pending(c) = {E[i] : i \in (n + 1)..Len(E)}
    BY DEF Pending
  <2> QED
    BY <1>4, <2>1, <2>2, <2>3, <2>4
<1>6. \A d \in Clients : d # c =>
              /\ cl'[d] = cl[d] /\ began'[d] = began[d]
              /\ Committing(d)' = Committing(d)
              /\ EventsOf(d)' = EventsOf(d) /\ Pending(d)' = Pending(d)
              /\ began[d] <= began'[d]
  BY <1>0, OtherCommits
<1>7. \A h \in Histories : Live(h)' = Live(h) /\ LogEvents(h)' = LogEvents(h)
  BY <1>0 DEF Live, LogEvents
<1>8. CommitStored(c)'
  <2>1. ASSUME NEW i \in 1..(n + 1) PROVE E[i] \in stored'
    <3>1. i \in 1..n \/ i = n + 1
      BY <1>2
    <3> QED
      BY <1>0, <1>1, <3>1 DEF CommitStored
  <2>2. cl'[c].pc = "updateHead" => cl'[c].n = Len(cl'[c].evs)
    BY <1>0
  <2>3. Pending(c)' \cap (stored' \cup gc'.graph) = {}
    BY <1>0, <1>1, <1>5 DEF CommitStored
  <2>4. \A e \in EvId : parent'[e] \in Pending(c)' => e \in Pending(c)'
    <3>1. ASSUME NEW e \in EvId, parent[e] \in Pending(c), parent[e] # x
          PROVE  e \in Pending(c) /\ e # x
      <4>1. e \in Pending(c)
        BY <1>1, <3>1 DEF CommitStored
      <4>2. e # x
        <5>1. PICK i \in (n + 1)..Len(E) : parent[e] = E[i]
          BY <3>1 DEF Pending
        <5>2. i # n + 1 /\ i \in 1..Len(E) /\ i > n + 1 /\ i \in Nat
          BY <1>2, <3>1, <5>1
        <5>5. E[i] > x
          BY <1>4, <5>2
        <5>6. parent[e] < e
          BY DEF LogInv, FreshInv
        <5>7. e \in Nat /\ x \in Nat /\ E[i] \in Nat
          BY <1>3, <1>4, <5>2 DEF EvId
        <5> QED
          BY <5>1, <5>5, <5>6, <5>7
      <4> QED
        BY <4>1, <4>2
    <3> QED
      BY <1>0, <1>5, <3>1
  <2>5. \A e \in EventsOf(c)' : etime'[e] <= began'[c]
    <3>1. began'[c] = began[c]
      BY <1>1, CallAge
    <3> QED
      BY <1>0, <1>1, <1>3, <3>1 DEF CommitStored
  <2> QED
    BY <1>0, <2>1, <2>2, <2>3, <2>4, <2>5 DEF CommitStored
<1>9. ASSUME NEW d \in Clients, d # c, Committing(d)' PROVE CommitStored(d)'
  <2>1. /\ Committing(d) /\ CommitStored(d) /\ cl'[d] = cl[d]
        /\ began'[d] = began[d] /\ EventsOf(d)' = EventsOf(d)
        /\ Pending(d)' = Pending(d)
    BY <1>0, <1>6, <1>9 DEF StoredInv
  <2>2. x \notin Pending(d)
    <3>1. EventsOf(c) \cap EventsOf(d) = {}
      BY <1>1, <1>9, <2>1 DEF LogInv, FreshInv
    <3>2. Pending(d) \subseteq EventsOf(d)
      <4>1. cl[d].n \in Nat /\ Len(cl[d].evs) \in Nat
        BY <1>0, ClientTyped
      <4>2. \A i \in (cl[d].n + 1)..Len(cl[d].evs) : i \in 1..Len(cl[d].evs)
        BY <4>1
      <4> QED
        BY <4>2 DEF Pending, EventsOf
    <3> QED
      BY <1>3, <3>1, <3>2
  <2>3. Pending(d)' \cap (stored' \cup gc'.graph) = {}
    BY <1>0, <2>1, <2>2 DEF CommitStored
  <2> QED
    BY <1>0, <2>1, <2>3 DEF CommitStored
<1>10. StoredInv'
  <2>1. UnusedIds'
    <3>1. IsBatch(E, cl[c].vid, 0)
      BY <1>1 DEF LogInv
    <3>2. x < nextId
      BY <1>2, <3>1 DEF IsBatch
    <3>3. x \in Nat /\ nextId \in Nat /\ EvId \subseteq Nat
      BY <1>0, <1>3, EventsTyped
    <3> QED
      BY <1>0, <3>2, <3>3 DEF StoredInv, UnusedIds
  <2>2. \A h \in Histories : Live(h)' \subseteq stored'
    BY <1>0, <1>7 DEF StoredInv
  <2> QED
    BY <1>8, <1>9, <2>1, <2>2 DEF StoredInv
<1>11. MarkInv'
  <2>1. ASSUME gc.pc \in {"scan", "mark"} PROVE GraphInv'
    <3>1. GraphInv
      BY <1>0, <2>1 DEF MarkInv
    <3>2. \A d \in Clients : Committing(d)' => Committing(d) /\ EventsOf(d)' = EventsOf(d)
      BY <1>1, <1>3, <1>6
    <3>3. ASSUME NEW e \in gc.graph, parent[e] = x PROVE FALSE
      <4>1. e \in EvId
        BY <3>3 DEF MTypeInv, GcState
      <4>2. e \in Pending(c)
        BY <1>1, <1>3, <3>3, <4>1 DEF CommitStored
      <4> QED
        BY <1>1, <3>3, <4>2 DEF CommitStored
    <3>4. \A e \in gc.graph : parent[e] \in stored' => parent[e] \in gc.graph
      BY <1>0, <3>1, <3>3 DEF GraphInv
    <3> QED
      BY <1>0, <3>1, <3>2, <3>4 DEF GraphInv
  <2>2. gc.pc = "mark" => TailsInv' /\ \A h \in Histories \ gc.todo : HeadMarked(h)'
    BY <1>0, <1>7 DEF MarkInv, TailsInv, HeadMarked
  <2> QED
    BY <1>0, <2>1, <2>2 DEF MarkInv
<1>12. SweepInv'
  <2>1. \A d \in Clients : Committing(d)' => Committing(d) /\ EventsOf(d)' = EventsOf(d)
    BY <1>1, <1>3, <1>6
  <2> QED
    BY <1>0, <1>7, <2>1 DEF SweepInv
<1> QED
  BY <1>10, <1>11, <1>12 DEF GcInv

\* The parents of new events: the version of the caller, then one another.
LEMMA NewParents ==
    ASSUME NEW c \in Clients, NEW h \in Histories, NEW vid, NEW n \in 1..MaxBatch,
           CommitBegin(c, h, vid, n), nextId \in Nat, MaxBatch \in Nat
    PROVE  /\ \A e \in EvId : ~(e < nextId) /\ ~(e >= nextId') /\ e # nextId =>
                 parent'[e] >= nextId
           /\ nextId \in EvId => parent'[nextId] = vid
<1>1. /\ nextId' = nextId + n /\ n \in Nat /\ n >= 1
      /\ parent' = [e \in EvId |->
                        IF e \notin nextId..(nextId + n - 1) THEN parent[e]
                        ELSE IF e = nextId THEN vid ELSE e - 1]
  BY DEF CommitBegin
<1>2. ASSUME NEW e \in EvId, ~(e < nextId), ~(e >= nextId'), e # nextId
      PROVE  parent'[e] >= nextId
  <2>1. e \in Nat
    BY DEF EvId
  <2>2. e \in nextId..(nextId + n - 1) /\ e - 1 >= nextId
    BY <1>1, <1>2, <2>1
  <2>3. parent'[e] = e - 1
    BY <1>1, <1>2, <2>2
  <2> QED
    BY <2>2, <2>3
<1>3. nextId \in nextId..(nextId + n - 1)
  BY <1>1
<1> QED
  BY <1>1, <1>2, <1>3

\* The ids between the old and the new counter are those of the commit.
LEMMA NewIds ==
    ASSUME TypeInv, NEW c \in Clients, NEW h \in Histories, NEW vid,
           NEW n \in 1..MaxBatch, CommitBegin(c, h, vid, n),
           NEW e \in Nat, e >= nextId, ~(e >= nextId')
    PROVE  e \in EventsOf(c)'
<1> DEFINE E == [i \in 1..n |-> nextId + i - 1]
<1>1. nextId \in Nat /\ n \in Nat /\ nextId' = nextId + n
  BY JournalAssumption DEF CommitBegin, TypeInv, TypeOK
<1>2. cl'[c] = [NewCall(h) EXCEPT !.pc = "store", !.vid = vid, !.evs = E]
  BY OthersKept DEF CommitBegin
<1>3. cl'[c].evs = E
  <2> HIDE DEF E
  <2> QED BY <1>2 DEF NewCall
<1>4. Len(E) = n /\ \A i \in 1..n : E[i] = nextId + i - 1
  BY <1>1
<1>5. e - nextId + 1 \in 1..n /\ nextId + (e - nextId + 1) - 1 = e
  BY <1>1
<1>6. \E i \in 1..n : E[i] = e
  BY <1>4, <1>5
<1> HIDE DEF E
<1> QED
  BY <1>3, <1>4, <1>6 DEF EventsOf

\* A commit begins: nothing refers to its events yet.
LEMMA GcInvCommit ==
    ASSUME MTypeInv, MTypeInv', LogInv, LogInv', EpochInv, EpochInv', GcInv,
           NEW c \in Clients, ClientAct(c), NEW h \in Histories,
           NEW vid \in KnownVids(h), NEW n \in 1..MaxBatch,
           CommitBegin(c, h, vid, n)
    PROVE  GcInv'
<1>0. /\ UNCHANGED <<stored, refs, log, etime, gc>> /\ gc' = gc
      /\ OthersSame(c) /\ ~Committing(c)
      /\ StoredInv /\ MarkInv /\ SweepInv /\ TypeInv /\ TypeInv'
  <2>1. OthersSame(c)
    BY OthersKept DEF CommitBegin, OthersSame, MTypeInv
  <2> QED
    BY <2>1 DEF CommitBegin, ClientAct, Committing, GcInv, MTypeInv
<1>1. OldEvents
  BY <1>0, LogIsOld
<1>2. /\ nextId \in Nat /\ nextId' \in Nat /\ n \in Nat /\ n >= 1
      /\ nextId' = nextId + n
  <2>1. nextId \in Nat /\ nextId' \in Nat
    BY <1>0 DEF TypeInv, TypeOK
  <2>2. nextId' = nextId + n
    BY DEF CommitBegin
  <2>3. n \in Nat /\ n >= 1
    BY JournalAssumption
  <2> QED
    BY <2>1, <2>2, <2>3
<1>3. vid < nextId
  <2>1. CASE vid = EventEpoch
    <3>1. nextId >= 1
      BY <1>0 DEF TypeInv, TypeOK
    <3> QED
      BY <1>2, <2>1, <3>1 DEF EventEpoch
  <2>2. CASE vid \in heads[h]
    BY <1>1, <2>2 DEF OldEvents
  <2> QED
    BY <2>1, <2>2 DEF KnownVids
<1>4. /\ cl'[c].pc = "store" /\ cl'[c].vid = vid /\ cl'[c].n = 0
      /\ IsBatch(cl[c].evs, cl[c].vid, cl[c].n)'
  BY <1>0, <1>3, NewBatch
<1>5. /\ \A e \in EventsOf(c)' : e >= nextId /\ e \in EvId
      /\ Pending(c)' = EventsOf(c)'
  <2> DEFINE E == [i \in 1..n |-> nextId + i - 1]
  <2>1. cl'[c] = [NewCall(h) EXCEPT !.pc = "store", !.vid = vid, !.evs = E]
    BY <1>0, OthersKept DEF CommitBegin
  <2>2. cl'[c].evs = E
    <3> HIDE DEF E
    <3> QED BY <2>1 DEF NewCall
  <2>3. Len(E) = n /\ \A i \in 1..n : E[i] = nextId + i - 1
    BY <1>2
  <2>4. \A e \in EventsOf(c)' : e \in EvId
    <3>1. cl'[c] \in ClientState
      BY <1>0 DEF TypeInv, TypeOK
    <3>2. PICK F \in Seq(EvId) : F = cl'[c].evs
      BY <3>1 DEF ClientState
    <3>3. \A i \in 1..Len(F) : F[i] \in EvId
      BY ElementOfSeq
    <3> QED
      BY <3>2, <3>3 DEF EventsOf
  <2>5. \A e \in EventsOf(c)' : e >= nextId
    <3> HIDE DEF E
    <3> QED BY <1>2, <2>2, <2>3 DEF EventsOf
  <2>6. Pending(c)' = EventsOf(c)'
    <3>1. cl'[c].n + 1 = 1
      BY <1>4
    <3> QED
      BY <3>1 DEF Pending, EventsOf
  <2> QED
    BY <2>4, <2>5, <2>6
<1>6. /\ \A e \in EvId : e < nextId => parent'[e] = parent[e]
      /\ \A e \in EvId : e >= nextId' => parent'[e] = parent[e]
  BY <1>2 DEF CommitBegin, EvId
<1>7. /\ \A e \in stored \cup gc.graph : e < nextId /\ e \in EvId /\ e \in Nat
      /\ \A e \in EvId : e >= nextId => etime[e] = 0
  <2>1. stored \subseteq EvId /\ gc.graph \subseteq EvId /\ EvId \subseteq Nat
    BY <1>0, EventsTyped DEF TypeInv, TypeOK, MTypeInv, GcState
  <2>2. \A e \in EvId : e >= nextId => e \notin stored /\ e \notin gc.graph
    BY <1>0 DEF StoredInv, UnusedIds
  <2>3. \A e \in EvId : e >= nextId => etime[e] = 0
    BY <1>0 DEF StoredInv, UnusedIds
  <2>4. ASSUME NEW e \in stored \cup gc.graph
        PROVE  e < nextId /\ e \in EvId /\ e \in Nat
    <3>1. e \in EvId /\ e \in Nat
      BY <2>1
    <3>2. ~(e >= nextId)
      BY <2>2, <3>1
    <3> QED
      BY <1>2, <3>1, <3>2
  <2> QED
    BY <2>3, <2>4
<1>8. EventsOf(c)' \cap (stored \cup gc.graph) = {}
  <2>1. ASSUME NEW e \in EventsOf(c)', e \in stored \cup gc.graph PROVE FALSE
    <3>1. e >= nextId /\ e < nextId /\ e \in Nat
      BY <1>5, <1>7, <2>1
    <3> QED
      BY <1>2, <3>1
  <2> QED
    BY <2>1
<1>9. \A d \in Clients : d # c =>
              /\ cl'[d] = cl[d] /\ began'[d] = began[d]
              /\ Committing(d)' = Committing(d)
              /\ EventsOf(d)' = EventsOf(d) /\ Pending(d)' = Pending(d)
              /\ began[d] <= began'[d]
  BY <1>0, OtherCommits
<1>10. \A g \in Histories : Live(g)' = Live(g) /\ LogEvents(g)' = LogEvents(g)
  BY <1>0 DEF Live, LogEvents
<1>11. \A e \in EvId : parent'[e] < e
  BY DEF LogInv, FreshInv
<1>12. CommitStored(c)'
  <2>1. \A i \in 1..cl'[c].n : cl'[c].evs[i] \in stored'
    BY <1>4
  <2>2. Pending(c)' \cap (stored' \cup gc'.graph) = {}
    BY <1>0, <1>5, <1>8
  <2>3. ASSUME NEW e \in EvId, parent'[e] \in Pending(c)' PROVE e \in Pending(c)'
    <3>1. parent'[e] >= nextId /\ parent'[e] \in EvId
      BY <1>5, <2>3
    <3>2. parent'[e] < e /\ e \in Nat /\ parent'[e] \in Nat
      BY <1>11, <3>1 DEF EvId
    <3>3. e >= nextId
      BY <1>2, <3>1, <3>2
    <3>4. ~(e >= nextId')
      <4>1. ASSUME e >= nextId' PROVE FALSE
        <5>1. parent'[e] = EventEpoch
          BY <1>0, <1>6, <3>3, <4>1 DEF StoredInv, UnusedIds
        <5> QED
          BY <3>1, <5>1 DEF EvId, EventEpoch
      <4> QED
        BY <4>1
    <3>5. e \in EventsOf(c)'
      BY <1>2, <3>2, <3>3, <3>4, NewIds DEF MTypeInv
    <3> QED
      BY <1>5, <3>5
  <2>4. ASSUME NEW e \in EventsOf(c)' PROVE etime'[e] <= began'[c]
    <3>1. etime'[e] = 0
      BY <1>0, <1>5, <1>7
    <3>2. began'[c] \in Nat
      BY DEF MTypeInv
    <3> QED
      BY <3>1, <3>2
  <2>5. cl'[c].pc # "updateHead"
    BY <1>4
  <2> QED
    BY <2>1, <2>2, <2>3, <2>4, <2>5 DEF CommitStored
<1>13. ASSUME NEW d \in Clients, d # c, Committing(d)' PROVE CommitStored(d)'
  <2>1. /\ Committing(d) /\ CommitStored(d) /\ cl'[d] = cl[d]
        /\ began'[d] = began[d] /\ EventsOf(d)' = EventsOf(d)
        /\ Pending(d)' = Pending(d)
    BY <1>0, <1>9, <1>13 DEF StoredInv
  <2>2. Pending(d) \subseteq EventsOf(d)
    <3>1. cl[d].n \in Nat /\ Len(cl[d].evs) \in Nat
      BY <1>0, ClientTyped
    <3>2. \A i \in (cl[d].n + 1)..Len(cl[d].evs) : i \in 1..Len(cl[d].evs)
      BY <3>1
    <3> QED
      BY <3>2 DEF Pending, EventsOf
  <2>3. ASSUME NEW e \in EvId, parent'[e] \in Pending(d) PROVE e \in Pending(d)
    <3>1. CASE parent'[e] = parent[e]
      BY <2>1, <2>3, <3>1 DEF CommitStored
    <3>2. CASE parent'[e] # parent[e]
      <4>1. ~(e < nextId) /\ ~(e >= nextId') /\ e \in Nat
        BY <1>6, <3>2 DEF EvId
      <4>2. e = nextId \/ parent'[e] >= nextId
        BY <1>2, <4>1, <3>2, NewParents, JournalAssumption
      <4>3. parent'[e] < nextId
        BY <1>1, <2>1, <2>2, <2>3 DEF OldEvents
      <4>4. parent'[e] \in Nat
        BY <1>0, <2>2, <2>3, EventsTyped
      <4>5. e = nextId
        BY <1>2, <4>2, <4>3, <4>4
      <4>6. parent'[e] = vid
        BY <1>2, <4>5, NewParents, JournalAssumption
      <4>7. vid \in heads[h] /\ vid \in LogEvents(h)
        <5>1. vid # EventEpoch
          BY <1>0, <2>2, <2>3, <4>6, EventsTyped DEF EvId, EventEpoch
        <5> QED
          BY <5>1 DEF KnownVids, LogInv, HistoryInv
      <4>8. EventsOf(d) \cap LogEvents(h) = {}
        BY <2>1 DEF LogInv, FreshInv
      <4> QED
        BY <2>2, <2>3, <4>6, <4>7, <4>8
    <3> QED
      BY <3>1, <3>2
  <2> QED
    BY <1>0, <2>1, <2>3 DEF CommitStored
<1>14. StoredInv'
  <2>1. UnusedIds'
    <3>1. \A e \in EvId : e >= nextId' => e >= nextId
      BY <1>2 DEF EvId
    <3> QED
      BY <1>0, <1>6, <3>1 DEF StoredInv, UnusedIds
  <2>2. \A g \in Histories : Live(g)' \subseteq stored'
    BY <1>0, <1>10 DEF StoredInv
  <2> QED
    BY <1>12, <1>13, <2>1, <2>2 DEF StoredInv
<1>15. MarkInv'
  <2>1. ASSUME gc.pc \in {"scan", "mark"} PROVE GraphInv'
    <3>1. GraphInv
      BY <1>0, <2>1 DEF MarkInv
    <3>2. \A e \in gc.graph : parent'[e] = parent[e]
      BY <1>6, <1>7
    <3>3. \A d \in Clients : Committing(d)' =>
             EventsOf(d)' \cap gc.graph \subseteq gc.gray
      BY <1>8, <1>9, <3>1 DEF GraphInv
    <3> QED
      BY <1>0, <3>1, <3>2, <3>3 DEF GraphInv
  <2>2. gc.pc = "mark" => TailsInv' /\ \A g \in Histories \ gc.todo : HeadMarked(g)'
    BY <1>0, <1>10 DEF MarkInv, TailsInv, HeadMarked
  <2> QED
    BY <1>0, <2>1, <2>2 DEF MarkInv
<1>16. SweepInv'
  BY <1>0, <1>8, <1>9, <1>10 DEF SweepInv
<1> QED
  BY <1>14, <1>15, <1>16 DEF GcInv

\* The collector removes nothing that is needed.
LEMMA GcStepInv ==
    ASSUME MTypeInv, MTypeInv', TimeInv, LogInv, LogInv', EpochInv, EpochInv',
           GcInv, [MNext]_allVars
    PROVE  GcInv'
<1>0. TrimClockInv
  BY DEF TimeInv
<1>1. ASSUME NEW c \in Clients, ClientAct(c) PROVE GcInv'
  <2>0. TypeInv /\ ClientNext(c) /\ UNCHANGED <<etime, gc>> /\ gc' = gc
    BY <1>1 DEF ClientAct, MTypeInv
  <2>1. ASSUME NEW h \in Histories, DeleteStep(h) PROVE GcInv'
    <3>1. UNCHANGED <<nextId, parent, stored, log, cl>>
      BY <2>1 DEF DeleteStep
    <3>2. \A g \in Histories : refs'[g].tail = refs[g].tail
      BY <2>1 DEF DeleteStep
    <3>3. \A d \in Clients : Committing(d)' =>
             Committing(d) /\ cl'[d] = cl[d]
      BY <3>1 DEF Committing
    <3>4. ASSUME NEW d \in Clients, Committing(d) PROVE began[d] <= began'[d]
      <4>1. cl'[c] = cl[c] /\ began[d] \in Nat
        BY <3>1 DEF MTypeInv
      <4>2. d = c => cl'[c].pc # "idle"
        BY <3>4, <4>1 DEF Committing
      <4>3. began'[d] = began[d]
        BY <1>1, <4>2 DEF ClientAct, MTypeInv
      <4> QED
        BY <4>1, <4>3
    <3>5. CommitsKept
      BY <3>3, <3>4 DEF CommitsKept
    <3> QED
      BY <2>0, <3>1, <3>2, <3>5, LiveSame, GcKept
  <2>2. CASE QuietStep(c)
    <3>1. UNCHANGED <<nextId, parent, stored, log>> /\ OthersSame(c)
      BY <2>2 DEF QuietStep
    <3>2. \A g \in Histories : refs'[g].tail = refs[g].tail
      BY <2>2 DEF QuietStep
    <3>3. CommitsKept
      <4>1. \A d \in Clients : Committing(d)' => d # c
        BY <2>2 DEF QuietStep
      <4>2. \A d \in Clients : d # c =>
              /\ cl'[d] = cl[d] /\ Committing(d)' = Committing(d)
              /\ began[d] <= began'[d]
        BY <1>1, <3>1, OtherCommits
      <4> QED
        BY <4>1, <4>2 DEF CommitsKept
    <3> QED
      BY <2>0, <3>1, <3>2, <3>3, LiveSame, GcKept
  <2> QED
    BY <1>1, <2>0, <2>1, <2>2, ClientKinds, GcInvHead, GcInvStore, GcInvCommit
<1>2. CASE GcOnly
  <2>1. ASSUME gc'.pc \in {"idle", "tails", "removeTail"},
               gc'.graph \subseteq gc.graph
        PROVE  GcInv'
    <3>1. UNCHANGED <<nextId, parent, stored, etime, log, refs, cl, began>>
      BY <1>2 DEF GcOnly, vars
    <3>2. CommitsKept
      BY <3>1, CommitsStay
    <3>3. \A h \in Histories : Live(h)' \subseteq Live(h)
      BY <3>1, LiveSame
    <3> QED
      BY <2>1, <3>1, <3>2, <3>3, GcKept
  <2> QED
    BY <1>2, <2>1, GcInvBegin, GcInvScanned, GcInvMark, GcInvPaint DEF GcOnly
<1> QED
  BY <1>0, <1>1, <1>2, MStepKinds, GcTick, GcInvTrim, GcInvRemove,
     GcInvRemoveEvent, Zenon

-----------------------------------------------------------------------------
(***************************************************************************)
(* The theorems.                                                           *)
(***************************************************************************)

\* All of it, at any time.
MaintenanceInv == MTypeInv /\ TimeInv /\ LogInv /\ EpochInv /\ GcInv

\* There is no history and no event when the program starts.
LEMMA MaintenanceInitial == MInit => MaintenanceInv
<1> SUFFICES ASSUME MInit PROVE MaintenanceInv
  OBVIOUS
<1>1. MTypeInv /\ TimeInv
  BY MInitial
<1>2. /\ nextId = 1
      /\ parent = [e \in EvId |-> EventEpoch]
      /\ stored = {}
      /\ refs = [h \in Histories |-> NoRefs]
      /\ journal = [h \in Histories |-> [e \in EvId |-> 0]]
      /\ log = [h \in Histories |-> << >>]
      /\ heads = [h \in Histories |-> {}]
      /\ cl = [c \in Clients |-> Idle]
      /\ etime = [e \in EvId |-> 0]
      /\ epochLog = [h \in Histories |-> << >>]
      /\ tr = TrimmerIdle /\ gc = GcIdle
  BY DEF MInit, Init
<1>3. /\ \A c \in Clients : cl[c].pc = "idle"
      /\ tr.pc = "idle" /\ gc.pc = "idle" /\ gc.graph = {}
  BY <1>2, IdleTyped, IdlePc
<1>4. \A h \in Histories :
         /\ log[h] = << >> /\ LogEvents(h) = {} /\ refs[h] = NoRefs
         /\ heads[h] = {} /\ epochLog[h] = << >>
  <2>1. ASSUME NEW h \in Histories
        PROVE  /\ log[h] = << >> /\ refs[h] = NoRefs
               /\ heads[h] = {} /\ epochLog[h] = << >>
    BY <1>2
  <2>2. ASSUME NEW h \in Histories PROVE LogEvents(h) = {}
    <3>1. log[h] = << >>
      BY <2>1
    <3> QED
      BY <3>1 DEF LogEvents
  <2> QED
    BY <2>1, <2>2
<1>5. \A c \in Clients : ~Committing(c)
  BY <1>3 DEF Committing
<1>6. LogInv
  <2>1. ASSUME NEW h \in Histories PROVE HistoryInv(h)
    <3>1. log[h] = << >> /\ refs[h] = NoRefs /\ heads[h] = {}
      BY <1>4
    <3>2. IsChain(log[h], parent, EvId, nextId)
      BY <3>1 DEF IsChain
    <3> QED
      BY <3>1, <3>2 DEF HistoryInv, NoRefs
  <2>2. FreshInv
    <3>1. \A e \in EvId : parent[e] < e
      BY <1>2 DEF EvId, EventEpoch
    <3>2. ASSUME NEW h \in Histories PROVE refs[h].head = EventEpoch
      <4>1. refs[h] = NoRefs
        BY <1>4
      <4> QED
        BY <4>1 DEF NoRefs
    <3> QED
      BY <1>5, <3>1, <3>2 DEF FreshInv
  <2> QED
    BY <1>4, <1>5, <2>1, <2>2 DEF LogInv
<1>7. EpochInv
  <2>1. \A h \in Histories : \A e \in EvId : journal[h][e] = 0
    BY <1>2
  <2>2. \A c \in Clients : FindLogInv(cl[c])
    BY <1>3 DEF FindLogInv
  <2>3. ASSUME NEW h \in Histories PROVE EpochsInv(h)
    <3>1. epochLog[h] = << >> /\ refs[h] = NoRefs
      BY <1>4
    <3> QED
      BY <3>1 DEF EpochsInv, NoRefs
  <2> QED
    BY <1>3, <2>1, <2>2, <2>3 DEF EpochInv, TrimFindInv, TrimTailInv, TrimEpochInv
<1>8. GcInv
  <2>1. UnusedIds
    BY <1>2, <1>3 DEF UnusedIds
  <2>2. \A h \in Histories : Live(h) = {}
    BY <1>4 DEF Live
  <2> QED
    BY <1>3, <1>5, <2>1, <2>2 DEF GcInv, StoredInv, MarkInv, SweepInv
<1> QED
  BY <1>1, <1>6, <1>7, <1>8 DEF MaintenanceInv

\* The invariant holds at any time, whatever the clients, the trimmer and the
\* collector do between one another's steps.
THEOREM MaintenanceIsSafe == MSpec => []MaintenanceInv
<1>1. MaintenanceInv /\ [MNext]_allVars => MaintenanceInv'
  <2> SUFFICES ASSUME MaintenanceInv, [MNext]_allVars PROVE MaintenanceInv'
    OBVIOUS
  <2>0. MTypeInv /\ TimeInv /\ LogInv /\ EpochInv /\ GcInv
    BY DEF MaintenanceInv
  <2>1. MTypeInv' /\ TimeInv'
    BY <2>0, TimeStep, MTypeStep DEF TimeInv
  <2>2. LogInv'
    BY <2>0, <2>1, LogStep
  <2>3. EpochInv'
    BY <2>0, <2>1, EpochStepInv
  <2>4. GcInv'
    BY <2>0, <2>1, <2>2, <2>3, GcStepInv
  <2> QED
    BY <2>1, <2>2, <2>3, <2>4 DEF MaintenanceInv
<1> QED
  BY <1>1, MaintenanceInitial, PTL DEF MSpec

\* The events from the tail to the head of a history are never collected:
\* GcEvents() keeps what paintBlack() reaches from the heads and from what is
\* recent, although heads, tails and new events change while it scans.
THEOREM TailToHeadIsKept == MSpec => []TailToHeadStored
<1>1. MaintenanceInv => TailToHeadStored
  <2> SUFFICES ASSUME MaintenanceInv, NEW h \in Histories,
                      NEW i \in 1..Len(log[h]), i >= Pos(h, refs[h].tail)
               PROVE  log[h][i] \in stored
    BY DEF TailToHeadStored
  <2> DEFINE t == refs[h].tail
  <2>0. TypeInv /\ LogInv /\ EpochInv /\ MTypeInv /\ StoredInv
    BY DEF MaintenanceInv, MTypeInv, GcInv
  <2>1. /\ log[h] \in Seq(1..MaxEvents) /\ Len(log[h]) \in Nat
        /\ \A k \in 1..Len(log[h]) : log[h][k] \in Nat
        /\ \A j, k \in 1..Len(log[h]) : j < k => log[h][j] < log[h][k]
    BY <2>0, HistoryChain
  <2>2. t \in LogEvents(h) \cup {EventEpoch} /\ t \in Nat
    BY <2>0, TailInLog
  <2>3. log[h][i] >= t
    <3>1. CASE t = EventEpoch
      BY <2>1, <3>1 DEF EventEpoch
    <3>2. CASE t # EventEpoch
      <4>1. \E k \in 1..Len(log[h]) : log[h][k] = t
        BY <2>2, <3>2 DEF LogEvents
      <4>2. PICK k \in 1..Len(log[h]) : k = Pos(h, t) /\ log[h][k] = t
        BY <3>2, <4>1 DEF Pos
      <4>3. i = k \/ k < i
        BY <2>1, <4>2
      <4>4. k < i => log[h][k] < log[h][i]
        BY <2>1
      <4>5. log[h][i] \in Nat /\ log[h][k] \in Nat
        BY <2>1
      <4> QED
        BY <4>2, <4>3, <4>4, <4>5
    <3> QED
      BY <3>1, <3>2
  <2>4. log[h][i] \in Live(h)
    BY <2>3 DEF Live, LogEvents
  <2> QED
    BY <2>0, <2>4 DEF StoredInv
<1> QED
  BY <1>1, MaintenanceIsSafe, PTL

\* The events that an unfinished Commit() has stored are not collected: they
\* are more recent than ConfigRecentDuration as long as the call may last.
THEOREM UncommittedIsKept == MSpec => []UncommittedSurvive
<1>1. MaintenanceInv => UncommittedSurvive
  BY DEF MaintenanceInv, GcInv, StoredInv, CommitStored, UncommittedSurvive,
         Committing
<1> QED
  BY <1>1, MaintenanceIsSafe, PTL

-----------------------------------------------------------------------------
(***************************************************************************)
(* How old epochs are, what the journal holds, and what calls read of it.  *)
(***************************************************************************)

\* The history cannot be removed before a call that begins now ends.
Kept(h) == KeptFor(h, DeletingDuration)

\* The epoch v has been logged, or it is the initial one.
IsLogged(h, v) ==
    v # EventEpoch => \E i \in 1..Len(epochLog[h]) : epochLog[h][i].epoch = v

\* The epoch v has been in place for SinceEpochUpdate: it may become the tail.
IsOldEpoch(h, v) ==
    \E i \in 1..Len(epochLog[h]) :
        epochLog[h][i].epoch = v /\ epochLog[h][i].time > SinceEpochUpdate

\* The epochs after v have been logged within the last d ticks.
YoungAfter(h, v, d) ==
    \A i \in 1..Len(epochLog[h]) :
        epochLog[h][i].epoch > v => epochLog[h][i].time <= d

\* The epoch that a find starts at was the last one when the find began.
FindAge(c) ==
    LET s == cl[c]
    IN  /\ IsLogged(s.h, s.snap.epoch)
        /\ YoungAfter(s.h, s.snap.epoch, began[c])
        /\ s.snap.tail <= s.snap.epoch

\* Tails are old epochs, so that they are before the starts of all finds.
AgeInv ==
    /\ \A h \in Histories :
          refs[h].tail # EventEpoch => IsOldEpoch(h, refs[h].tail)
    /\ tr.pc = "setTail" => IsOldEpoch(tr.h, tr.new)
    /\ \A c \in Clients : cl[c].pc \in InFind => FindAge(c)

-----------------------------------------------------------------------------
\* An event is in the journal with its position in the history, or not at all.
Position(h) == \A i \in 1..Len(log[h]) : journal[h][log[h][i]] \in {0, i}

\* Entries from the tail on: none is there without those before it.
NoGap(h) ==
    \A i, j \in 1..Len(log[h]) :
        i < j /\ refs[h].tail <= log[h][i] /\ journal[h][log[h][j]] # 0 =>
            journal[h][log[h][i]] # 0

\* The epochs from the tail on are in the journal.
EpochEntries(h) ==
    \A i \in 1..Len(epochLog[h]) :
        refs[h].tail <= epochLog[h][i].epoch => journal[h][epochLog[h][i].epoch] # 0

\* The stored serial is the position of the head, which is in the journal.
HeadEntry(h) ==
    refs[h].serial # HeadSerialUnspecified =>
        refs[h].serial = Len(log[h]) /\ journal[h][refs[h].head] # 0

\* The collector removes what is before the tail.
GcSerial ==
    gc.pc = "removeTail" =>
        \E i \in 1..Len(log[gc.h]) :
            gc.serial = i /\ log[gc.h][i] <= refs[gc.h].tail

\* The trimmer chooses its epoch among events that are in the journal.
TrimEntries ==
    /\ tr.pc = "find" => \A i \in 1..Len(cl[tr.c].out) :
                            journal[tr.h][cl[tr.c].out[i]] # 0
    /\ tr.pc = "setEpoch" => journal[tr.h][tr.new] # 0

EntryInv ==
    /\ \A h \in Histories : Position(h)
    /\ \A h \in Histories : Kept(h) => NoGap(h) /\ EpochEntries(h)
    /\ \A h \in Histories : IsActive(h) => HeadEntry(h)
    /\ GcSerial
    /\ TrimEntries

-----------------------------------------------------------------------------
\* The event that the iteration starts after.
After(s) == IF s.vid = EventEpoch THEN s.snap.epoch ELSE s.vid

\* What a find has read, when the head it goes to is the m-th event.
ReadAt(s, m) ==
    LET L == log[s.h]
        J == journal[s.h]
    IN  /\ L[m] = s.snap.head
        /\ s.snap.epoch <= L[m]
        /\ s.vid # EventEpoch => s.vid \in LogEvents(s.h) /\ s.vid <= L[m]
        /\ s.pc \in {"walkSerial", "walkEvent"} =>
              /\ Len(s.evs) <= m
              /\ \A i \in 1..Len(s.evs) : s.evs[i] = L[m + 1 - i]
              /\ s.cur = At(s.h, m - Len(s.evs))
              /\ s.snap.epoch <= s.cur
              /\ s.pc = "walkEvent" => s.snap.epoch < s.cur
        /\ s.pc = "insert" =>
              /\ \A i \in 1..s.n : s.evs[i] = L[m + 1 - i]
              /\ s.serial + s.n = m
              /\ s.snap.epoch <= At(s.h, s.serial)
              /\ s.serial # 0 => J[L[s.serial]] # 0
        /\ s.pc \in {"start", "iter"} => s.serial = m /\ J[L[m]] # 0
        /\ s.pc = "iter" =>
              /\ s.n \in 0..m
              /\ s.cur = At(s.h, s.n)
              /\ After(s) <= s.cur

ReadInv ==
    \A c \in Clients : cl[c].pc \in InFind =>
        \E m \in 1..Len(log[cl[c].h]) : ReadAt(cl[c], m)

\* The call has failed for a version that is before an old epoch.
FailedBefore(c) ==
    LET s == cl[c]
    IN  /\ s.pc = "done"
        /\ s.err \notin {"FindEventError", "SerialMismatch"}
        /\ KeptFor(s.h, began[c])
        /\ s.vid \in LogEvents(s.h)
        /\ \E i \in 1..Len(epochLog[s.h]) :
              /\ epochLog[s.h][i].time > SinceEpochUpdate
              /\ s.vid < epochLog[s.h][i].epoch

FailInv == \A c \in Clients :
    /\ cl[c].err \in JournalErrors => FailedBefore(c)
    /\ cl[c].pc # "done" => cl[c].err = NoErr

-----------------------------------------------------------------------------
\* Histories that calls use are kept, and what is kept is not removed.
LEMMA KeptCalls ==
    ASSUME MTypeInv, TimeInv
    PROVE  /\ \A h \in Histories : \A d \in 0..CallTicks : KeptFor(h, d) => Kept(h)
           /\ \A c \in Clients : began[c] \in 0..CallTicks
           /\ \A c \in Clients : cl[c].pc \in InFind => Kept(cl[c].h)
           /\ tr.pc \in {"find", "setTail", "setEpoch"} => Kept(tr.h)
           /\ \A h \in Histories : Kept(h) => ~Gone(h) /\ refs[h].phase # "none"
<1>0. /\ dtime \in [Histories -> Nat] /\ began \in [Clients -> Nat]
      /\ tr.h \in Histories /\ tr.c \in Clients
      /\ \A c \in Clients : cl[c].h \in Histories
      /\ CallTicks \in Nat /\ DeletingDuration \in Nat
      /\ CallTicks <= DeletingDuration
  BY MaintenanceAssumption, CallsAreShort, ClientTyped DEF MTypeInv, TrState
<1>1. ASSUME NEW h \in Histories, NEW d \in 0..CallTicks, KeptFor(h, d)
      PROVE  Kept(h)
  BY <1>0, <1>1 DEF Kept, KeptFor
<1>2. \A c \in Clients : began[c] \in 0..CallTicks
  BY <1>0 DEF TimeInv, ClockInv
<1>3. \A c \in Clients : cl[c].pc \in InFind => Kept(cl[c].h)
  BY <1>0, <1>1, <1>2 DEF TimeInv, FindClockInv
<1>4. CallTicks \in 0..CallTicks
  BY <1>0
<1>5. tr.pc \in {"find", "setTail", "setEpoch"} => Kept(tr.h)
  BY <1>0, <1>1, <1>2, <1>4 DEF TimeInv, TrimClockInv
<1>6. \A h \in Histories : Kept(h) => ~Gone(h) /\ refs[h].phase # "none"
  BY DEF Kept, KeptFor, Gone
<1> QED
  BY <1>1, <1>2, <1>3, <1>5, <1>6

\* A history only gains events.
LogGrows(h) ==
    /\ Len(log[h]) <= Len(log'[h])
    /\ \A i \in 1..Len(log[h]) : log'[h][i] = log[h][i]

\* Histories that are not removed grow.
LEMMA LogGrowsStep ==
    ASSUME MTypeInv, TimeInv, [MNext]_allVars, NEW h \in Histories, ~(Gone(h) /\ GcDeletedRefs)
    PROVE  LogGrows(h)
<1>0. /\ TypeInv /\ TrimClockInv /\ tr \in TrState
      /\ log[h] \in Seq(EvId) /\ Len(log[h]) \in Nat
  BY DEF MTypeInv, TimeInv, TypeInv, TypeOK
<1>1. ASSUME log'[h] = log[h] PROVE LogGrows(h)
  BY <1>0, <1>1 DEF LogGrows
<1>2. CASE UNCHANGED allVars \/ Tick \/ TrimOnly \/ GcOnly
  BY <1>1, <1>2 DEF allVars, vars, Tick, TrimOnly, GcOnly
<1>3. ASSUME NEW c \in Clients, ClientAct(c) PROVE LogGrows(h)
  <2>1. ClientNext(c)
    BY <1>3 DEF ClientAct
  <2>2. CASE QuietStep(c) \/ StoreStepOf(c) \/ \E g \in Histories : DeleteStep(g)
    BY <1>1, <2>2 DEF QuietStep, StoreStepOf, DeleteStep
  <2>3. ASSUME NEW g \in Histories, HeadStep(c, g) PROVE LogGrows(h)
    <3>1. /\ log'[g] = log[g] \o cl[c].evs
          /\ g # h => log'[h] = log[h]
      BY <1>0, <2>3, LogAfterHeadStep
    <3>2. CASE g = h
      <4>1. cl[c].evs \in Seq(EvId)
        BY <1>0, ClientTyped
      <4> QED
        BY <1>0, <3>1, <3>2, <4>1, ConcatGrows DEF LogGrows
    <3> QED
      BY <1>1, <3>1, <3>2
  <2>4. ASSUME NEW g \in Histories, NEW vid \in KnownVids(g), NEW n \in 1..MaxBatch,
               CommitBegin(c, g, vid, n)
        PROVE  LogGrows(h)
    BY <1>1, <2>4 DEF CommitBegin
  <2> QED
    BY <1>0, <2>1, <2>2, <2>3, <2>4, ClientKinds
<1>4. CASE SetTail \/ SetEpoch
  BY <1>0, <1>1, <1>4, TrimmerUpdates
<1>5. ASSUME NEW e \in EvId, GcRemoveEvent(e) PROVE LogGrows(h)
  BY <1>1, <1>5, GcRemoveEventFields
<1>6. CASE GcRemoveTail \/ GcRemoveJournal
  BY <1>1, <1>6, GcRemoveFields
<1>7. ASSUME NEW g \in Histories, GcInvalidate(g) PROVE LogGrows(h)
  BY <1>1, <1>7, GcInvalidateFields
<1>8. CASE GcSetDeleted
  BY <1>1, <1>8, GcSetDeletedFields
<1>9. CASE GcDeletedRefs
  BY <1>1, <1>9, GcDeletedRefsFields
<1> QED
  BY <1>0, <1>2, <1>3, <1>4, <1>5, <1>6, <1>7, <1>8, <1>9, MStepKinds, Zenon

\* The log of epochs only gains entries, of age 0, and its entries grow older
\* by at most n.
EpochsAge(h, n) ==
    /\ Len(epochLog[h]) <= Len(epochLog'[h])
    /\ \A i \in 1..Len(epochLog[h]) :
          /\ epochLog'[h][i].epoch = epochLog[h][i].epoch
          /\ epochLog[h][i].time <= epochLog'[h][i].time
          /\ epochLog'[h][i].time <= epochLog[h][i].time + n
    /\ \A i \in 1..Len(epochLog'[h]) :
          i > Len(epochLog[h]) => epochLog'[h][i].time = 0

\* The entries of an epoch log grow older by a tick at most.
LEMMA AgedTimes ==
    ASSUME NEW el \in Seq(EpochEntry), NEW period, NEW i \in 1..Len(el)
    PROVE  /\ el[i].time <= AgedEpochs(el, period)[i].time
           /\ AgedEpochs(el, period)[i].time <= el[i].time + 1
<1>1. Len(el) \in Nat /\ DOMAIN el = 1..Len(el) /\ el[i] \in EpochEntry
  BY LenProperties, ElementOfSeq
<1>2. PICK t \in Nat : t = Older(el[i].time, period)
  BY <1>1, OlderGrows DEF EpochEntry
<1>3. AgedEpochs(el, period)[i] = [el[i] EXCEPT !.time = t]
  BY <1>1, <1>2 DEF AgedEpochs
<1>4. AgedEpochs(el, period)[i].time = t
  BY <1>1, <1>3 DEF EpochEntry
<1>5. el[i].time \in Nat
  BY <1>1 DEF EpochEntry
<1> QED
  BY <1>2, <1>4, <1>5, OlderGrows

\* How a step changes the log of epochs of a history that is not removed.
LEMMA EpochsAgeStep ==
    ASSUME MTypeInv, TimeInv, [MNext]_allVars, NEW h \in Histories, ~(Gone(h) /\ GcDeletedRefs)
    PROVE  /\ Tick => EpochsAge(h, 1)
           /\ ~Tick => EpochsAge(h, 0)
<1>0. /\ TypeInv /\ TrimClockInv /\ tr \in TrState
      /\ epochLog[h] \in Seq(EpochEntry) /\ Len(epochLog[h]) \in Nat
      /\ \A i \in 1..Len(epochLog[h]) : epochLog[h][i].time \in Nat
  <2>1. epochLog[h] \in Seq(EpochEntry)
    BY DEF MTypeInv, EpochEntry
  <2>2. \A i \in 1..Len(epochLog[h]) : epochLog[h][i] \in EpochEntry
    BY <2>1, ElementOfSeq
  <2>3. \A i \in 1..Len(epochLog[h]) : epochLog[h][i].time \in Nat
    BY <2>2 DEF EpochEntry
  <2> QED
    BY <2>1, <2>3, LenProperties DEF MTypeInv, TimeInv
<1>1. ASSUME epochLog'[h] = epochLog[h] PROVE EpochsAge(h, 0)
  BY <1>0, <1>1 DEF EpochsAge
<1>2. CASE Tick
  <2> DEFINE A == AgedEpochs(epochLog[h], LongestEpoch)
  <2>1. epochLog' = [g \in Histories |-> AgedEpochs(epochLog[g], LongestEpoch)]
    BY <1>2 DEF Tick, AgedEpochs
  <2>2. epochLog'[h] = A
    BY <2>1
  <2>3. /\ Len(A) = Len(epochLog[h])
        /\ \A i \in 1..Len(epochLog[h]) : A[i].epoch = epochLog[h][i].epoch
    BY <1>0, AgedLog
  <2>4. \A i \in 1..Len(epochLog[h]) :
           epochLog[h][i].time <= A[i].time /\ A[i].time <= epochLog[h][i].time + 1
    BY <1>0, AgedTimes
  <2> HIDE DEF A
  <2>5. EpochsAge(h, 1)
    BY <1>0, <2>2, <2>3, <2>4 DEF EpochsAge
  <2> QED
    BY <1>2, <2>5
<1>3. CASE UNCHANGED allVars \/ TrimOnly \/ GcOnly
  BY <1>1, <1>2, <1>3 DEF allVars, mvars, TrimOnly, GcOnly
<1>4. ASSUME NEW c \in Clients, ClientAct(c) PROVE EpochsAge(h, 0)
  BY <1>1, <1>4 DEF ClientAct
<1>5. CASE SetTail \/ SetEpoch
  <2>1. CASE UNCHANGED epochLog
    BY <1>1, <1>2, <2>1
  <2>2. ASSUME NEW g \in Histories, TailStep(g) PROVE UNCHANGED epochLog
    BY <2>2 DEF TailStep
  <2>3. ASSUME NEW g \in Histories, EpochStep(g) PROVE EpochsAge(h, 0)
    <3>1. CASE g # h
      BY <1>1, <2>3, <3>1, EpochStepFields
    <3>2. CASE g = h
      <4>1. /\ Len(epochLog'[h]) = Len(epochLog[h]) + 1
            /\ \A i \in 1..Len(epochLog[h]) : epochLog'[h][i] = epochLog[h][i]
        BY <2>3, <3>2, EpochStepFields
      <4>2. PICK x \in EpochEntry : x = [epoch |-> tr.new, time |-> 0]
        BY <2>3 DEF EpochStep, EpochEntry, MTypeInv
      <4>3. epochLog'[h] = Append(epochLog[h], x)
        BY <2>3, <3>2, <4>2 DEF EpochStep, MTypeInv
      <4>4. epochLog'[h][Len(epochLog[h]) + 1] = x /\ x.time = 0
        BY <1>0, <4>2, <4>3, AppendProperties
      <4>5. \A i \in 1..Len(epochLog'[h]) : i > Len(epochLog[h]) =>
               i = Len(epochLog[h]) + 1
        BY <1>0, <4>1
      <4> QED
        BY <1>0, <4>1, <4>4, <4>5 DEF EpochsAge
    <3> QED
      BY <3>1, <3>2
  <2> QED
    BY <1>0, <1>2, <1>5, <2>1, <2>2, <2>3, TrimmerUpdates
<1>6. ASSUME NEW e \in EvId, GcRemoveEvent(e) PROVE EpochsAge(h, 0)
  BY <1>1, <1>6, GcRemoveEventFields
<1>7. CASE GcRemoveTail \/ GcRemoveJournal
  BY <1>1, <1>2, <1>7, GcRemoveFields
<1>8. ASSUME NEW g \in Histories, GcInvalidate(g) PROVE EpochsAge(h, 0)
  BY <1>1, <1>8, GcInvalidateFields
<1>9. CASE GcSetDeleted
  BY <1>1, <1>2, <1>9, GcSetDeletedFields
<1>10. CASE GcDeletedRefs
  BY <1>1, <1>2, <1>10, GcDeletedRefsFields
<1> QED
  BY <1>0, <1>2, <1>3, <1>4, <1>5, <1>6, <1>7, <1>8, <1>9, <1>10, MStepKinds, Zenon

\* A call that goes on grows older with time.
LEMMA BeganStep ==
    ASSUME MTypeInv, TimeInv, [MNext]_allVars, NEW d \in Clients,
           cl'[d].pc # "idle"
    PROVE  /\ Tick => cl' = cl /\ began'[d] = began[d] + 1
           /\ ~Tick => began'[d] = began[d]
<1>0. /\ TypeInv /\ TrimClockInv /\ tr \in TrState /\ began \in [Clients -> Nat]
  BY DEF MTypeInv, TimeInv
<1>1. Tick => cl' = cl /\ began'[d] = began[d] + 1
  BY DEF Tick, vars
<1>2. CASE UNCHANGED allVars \/ Tick \/ TrimOnly \/ GcOnly
  BY <1>1, <1>2 DEF allVars, mvars, TrimOnly, GcOnly
<1>3. ASSUME NEW c \in Clients, ClientAct(c) PROVE began'[d] = began[d]
  BY <1>0, <1>3 DEF ClientAct
<1>4. CASE SetTail \/ SetEpoch
  BY <1>0, <1>1, <1>4, TrimmerUpdates
<1>5. ASSUME NEW e \in EvId, GcRemoveEvent(e) PROVE began'[d] = began[d]
  BY <1>5, GcRemoveEventFields
<1>6. CASE GcRemoveTail \/ GcRemoveJournal
  BY <1>1, <1>6, GcRemoveFields
<1>7. ASSUME NEW g \in Histories, GcInvalidate(g) PROVE began'[d] = began[d]
  BY <1>7, GcInvalidateFields
<1>8. CASE GcSetDeleted
  BY <1>1, <1>8, GcSetDeletedFields
<1>9. CASE GcDeletedRefs
  BY <1>1, <1>9, GcDeletedRefsFields
<1> QED
  BY <1>0, <1>1, <1>2, <1>3, <1>4, <1>5, <1>6, <1>7, <1>8, <1>9, MStepKinds, Zenon

\* The tail of a history that is not removed only advances.
LEMMA TailsAdvance ==
    ASSUME MTypeInv, TimeInv, LogInv, EpochInv, [MNext]_allVars,
           NEW h \in Histories, ~(Gone(h) /\ GcDeletedRefs)
    PROVE  /\ refs'[h].tail = refs[h].tail \/ TailStep(h)
           /\ refs[h].tail <= refs'[h].tail
<1>0. refs[h].tail \in Nat
  BY TailInLog
<1>1. ASSUME refs'[h].tail = refs[h].tail
      PROVE  refs[h].tail <= refs'[h].tail
  BY <1>0, <1>1
<1>2. CASE EpochQuiet
  BY <1>1, <1>2 DEF EpochQuiet, EpochFrame
<1>3. ASSUME NEW g \in Histories, DocStep(g)
      PROVE  /\ refs'[h].tail = refs[h].tail \/ TailStep(h)
             /\ refs[h].tail <= refs'[h].tail
  <2>1. CASE EpochStep(g) \/ g # h
    <3>1. refs'[h].tail = refs[h].tail
      BY <1>3, <2>1, EpochStepFields, TailStepFields DEF DocStep
    <3> QED
      BY <1>1, <3>1
  <2>2. CASE TailStep(g) /\ g = h
    <3>1. refs'[h].tail = tr.new /\ h = tr.h /\ tr.pc = "setTail"
      BY <2>2, TailStepFields DEF TailStep
    <3>2. refs[h].tail <= tr.new
      BY <3>1 DEF EpochInv, TrimTailInv
    <3> QED
      BY <2>2, <3>1, <3>2
  <2> QED
    BY <1>3, <2>1, <2>2 DEF DocStep
<1>4. CASE GcDeletedRefs
  BY <1>1, <1>4, GcDeletedRefsFields
<1> QED
  BY <1>2, <1>3, <1>4, EpochKinds

\* The types of what the ages are about.
LEMMA EpochsTyped ==
    ASSUME MTypeInv, NEW h \in Histories
    PROVE  /\ Len(epochLog[h]) \in Nat
           /\ \A i \in 1..Len(epochLog[h]) :
                 /\ epochLog[h][i].time \in Nat
                 /\ epochLog[h][i].epoch \in Nat
                 /\ epochLog[h][i].epoch \in EvId
           /\ refs[h].tail \in Nat /\ refs[h].epoch \in Nat
<1>1. epochLog[h] \in Seq(EpochEntry) /\ refs[h] \in RefsDoc /\ TypeInv
  BY DEF MTypeInv, EpochEntry, TypeInv, TypeOK
<1>2. \A i \in 1..Len(epochLog[h]) : epochLog[h][i] \in EpochEntry
  BY <1>1, ElementOfSeq
<1>3. EvId \subseteq Nat /\ Vid \subseteq Nat
  BY JournalAssumption DEF EvId, Vid
<1>4. \A i \in 1..Len(epochLog[h]) :
         /\ epochLog[h][i].time \in Nat
         /\ epochLog[h][i].epoch \in EvId
  BY <1>2 DEF EpochEntry
<1>5. refs[h].tail \in Vid /\ refs[h].epoch \in Vid
  BY <1>1 DEF RefsDoc
<1> QED
  BY <1>1, <1>3, <1>4, <1>5, LenProperties

\* While a find runs, the tail does not pass the epoch that it has read: later
\* epochs are younger than the call.
LEMMA TailBeforeEpoch ==
    ASSUME MTypeInv, TimeInv, AgeInv, NEW c \in Clients, cl[c].pc \in InFind
    PROVE  refs[cl[c].h].tail <= cl[c].snap.epoch
<1> DEFINE h == cl[c].h
           v == cl[c].snap.epoch
<1>0. /\ h \in Histories /\ v \in Nat /\ began[c] \in Nat
      /\ began[c] <= CallTicks /\ CallTicks \in Nat /\ SinceEpochUpdate \in Nat
      /\ CallTicks <= SinceEpochUpdate
  <2>1. cl[c].snap \in RefsDoc /\ h \in Histories
    BY ClientTyped DEF MTypeInv
  <2>2. v \in Vid
    BY <2>1 DEF RefsDoc
  <2> QED
    BY <2>1, <2>2, MaintenanceAssumption, CallsAreShort, JournalAssumption
    DEF MTypeInv, TimeInv, ClockInv, Vid
<1>1. PICK g \in Histories : g = h
  BY <1>0
<1>2. /\ refs[g].tail \in Nat
      /\ \A i \in 1..Len(epochLog[g]) : epochLog[g][i].time \in Nat
  BY EpochsTyped
<1>3. \A i \in 1..Len(epochLog[g]) :
         epochLog[g][i].epoch > v => epochLog[g][i].time <= began[c]
  BY <1>1 DEF AgeInv, FindAge, YoungAfter
<1>4. CASE refs[g].tail = EventEpoch
  BY <1>0, <1>1, <1>4 DEF EventEpoch
<1>5. CASE refs[g].tail # EventEpoch
  <2>1. PICK i \in 1..Len(epochLog[g]) :
           epochLog[g][i].epoch = refs[g].tail /\ epochLog[g][i].time > SinceEpochUpdate
    BY <1>5 DEF AgeInv, IsOldEpoch
  <2>2. ~(epochLog[g][i].time <= began[c])
    BY <1>0, <1>2, <2>1
  <2>3. ~(refs[g].tail > v)
    BY <1>3, <2>1, <2>2
  <2> QED
    BY <1>0, <1>1, <1>2, <2>3
<1> QED
  BY <1>4, <1>5

\* An old epoch stays old.
LEMMA OldEpochStays ==
    ASSUME MTypeInv, MTypeInv', NEW h \in Histories, NEW n, EpochsAge(h, n),
           NEW v, IsOldEpoch(h, v)
    PROVE  \E i \in 1..Len(epochLog'[h]) :
              epochLog'[h][i].epoch = v /\ epochLog'[h][i].time > SinceEpochUpdate
<1>1. PICK i \in 1..Len(epochLog[h]) :
         epochLog[h][i].epoch = v /\ epochLog[h][i].time > SinceEpochUpdate
  BY DEF IsOldEpoch
<1>2. Len(epochLog[h]) \in Nat /\ epochLog[h][i].time \in Nat
  BY EpochsTyped
<1>3. /\ Len(epochLog'[h]) \in Nat
      /\ \A j \in 1..Len(epochLog'[h]) : epochLog'[h][j].time \in Nat
  <2>1. epochLog'[h] \in Seq(EpochEntry)
    BY DEF MTypeInv, EpochEntry
  <2>2. \A j \in 1..Len(epochLog'[h]) : epochLog'[h][j] \in EpochEntry
    BY <2>1, ElementOfSeq
  <2>3. \A j \in 1..Len(epochLog'[h]) : epochLog'[h][j].time \in Nat
    BY <2>2 DEF EpochEntry
  <2> QED
    BY <2>1, <2>3, LenProperties
<1>4. /\ i \in 1..Len(epochLog'[h])
      /\ epochLog'[h][i].epoch = epochLog[h][i].epoch
      /\ epochLog[h][i].time <= epochLog'[h][i].time
  BY <1>2, <1>3 DEF EpochsAge
<1>5. SinceEpochUpdate \in Nat
  BY MaintenanceAssumption
<1>6. epochLog'[h][i].time > SinceEpochUpdate
  BY <1>1, <1>2, <1>3, <1>4, <1>5
<1> QED
  BY <1>1, <1>4, <1>6

\* The age of a find that goes on.
LEMMA FindAgeKept ==
    ASSUME MTypeInv, MTypeInv', TimeInv, [MNext]_allVars, NEW d \in Clients,
           cl[d].pc \in InFind, cl'[d].pc \in InFind,
           cl'[d].h = cl[d].h, cl'[d].snap = cl[d].snap, FindAge(d)
    PROVE  FindAge(d)'
<1>1. PICK g \in Histories, v \in Nat : g = cl[d].h /\ v = cl[d].snap.epoch
  <2>1. cl[d].snap \in RefsDoc /\ cl[d].h \in Histories
    BY ClientTyped DEF MTypeInv
  <2> QED
    BY <2>1, JournalAssumption DEF RefsDoc, Vid
<1>2. ~Gone(g)
  BY <1>1, KeptCalls
<1>3. /\ Tick => EpochsAge(g, 1) /\ began'[d] = began[d] + 1
      /\ ~Tick => EpochsAge(g, 0) /\ began'[d] = began[d]
  <2>1. cl'[d].pc # "idle"
    BY DEF InFind
  <2> QED
    BY <1>2, <2>1, EpochsAgeStep, BeganStep
<1>4. PICK n \in Nat : EpochsAge(g, n) /\ began'[d] = began[d] + n
  <2>0. began[d] \in Nat
    BY DEF MTypeInv
  <2>1. CASE Tick
    BY <1>3, <2>1
  <2>2. CASE ~Tick
    <3>1. began'[d] = began[d] + 0
      BY <1>3, <2>0, <2>2
    <3> QED
      BY <1>3, <2>2, <3>1
  <2> QED
    BY <2>1, <2>2
<1>5. /\ Len(epochLog[g]) \in Nat /\ began[d] \in Nat
      /\ \A i \in 1..Len(epochLog[g]) : epochLog[g][i].time \in Nat
  BY EpochsTyped DEF MTypeInv
<1>6. /\ Len(epochLog'[g]) \in Nat
      /\ \A i \in 1..Len(epochLog'[g]) : epochLog'[g][i].time \in Nat
  <2>1. epochLog'[g] \in Seq(EpochEntry)
    BY DEF MTypeInv, EpochEntry
  <2>2. \A j \in 1..Len(epochLog'[g]) : epochLog'[g][j] \in EpochEntry
    BY <2>1, ElementOfSeq
  <2>3. \A j \in 1..Len(epochLog'[g]) : epochLog'[g][j].time \in Nat
    BY <2>2 DEF EpochEntry
  <2> QED
    BY <2>1, <2>3, LenProperties
<1>7. v # EventEpoch => \E i \in 1..Len(epochLog'[g]) : epochLog'[g][i].epoch = v
  <2>1. v # EventEpoch => \E i \in 1..Len(epochLog[g]) : epochLog[g][i].epoch = v
    BY <1>1 DEF FindAge, IsLogged
  <2>2. ASSUME v # EventEpoch
        PROVE  \E i \in 1..Len(epochLog'[g]) : epochLog'[g][i].epoch = v
    <3>1. PICK i \in 1..Len(epochLog[g]) : epochLog[g][i].epoch = v
      BY <2>1, <2>2
    <3>2. epochLog'[g][i].epoch = v /\ Len(epochLog[g]) <= Len(epochLog'[g])
      BY <1>4, <3>1 DEF EpochsAge
    <3>3. i \in 1..Len(epochLog'[g])
      BY <1>5, <1>6, <3>2
    <3> QED
      BY <3>2, <3>3
  <2> QED
    BY <2>2
<1>8. ASSUME NEW i \in 1..Len(epochLog'[g]), epochLog'[g][i].epoch > v
      PROVE  epochLog'[g][i].time <= began'[d]
  <2>1. CASE i \in 1..Len(epochLog[g])
    <3>1. /\ epochLog[g][i].epoch > v
          /\ epochLog'[g][i].time <= epochLog[g][i].time + n
      BY <1>4, <1>8, <2>1 DEF EpochsAge
    <3>2. epochLog[g][i].time <= began[d]
      BY <1>1, <2>1, <3>1 DEF FindAge, YoungAfter
    <3> QED
      BY <1>4, <1>5, <1>6, <2>1, <3>1, <3>2
  <2>2. CASE i > Len(epochLog[g])
    <3>1. epochLog'[g][i].time = 0
      BY <1>4, <2>2 DEF EpochsAge
    <3> QED
      BY <1>4, <1>5, <3>1
  <2> QED
    BY <1>5, <1>6, <2>1, <2>2
<1>9. cl[d].snap.tail <= cl[d].snap.epoch
  BY DEF FindAge
<1> QED
  BY <1>1, <1>7, <1>8, <1>9 DEF FindAge, IsLogged, YoungAfter

\* The epoch of a history is the latest one that has been logged, and the tail
\* is not past it.
LEMMA EpochIsLast ==
    ASSUME MTypeInv, EpochInv, NEW h \in Histories
    PROVE  /\ \A i \in 1..Len(epochLog[h]) : epochLog[h][i].epoch <= refs[h].epoch
           /\ refs[h].epoch # EventEpoch =>
                 \E i \in 1..Len(epochLog[h]) : epochLog[h][i].epoch = refs[h].epoch
           /\ refs[h].tail <= refs[h].epoch
<1>2. PICK n \in Nat : n = Len(epochLog[h])
  BY EpochsTyped
<1>3. /\ \A i, j \in 1..n : i < j => epochLog[h][i].epoch < epochLog[h][j].epoch
      /\ refs[h].epoch = IF n = 0 THEN EventEpoch ELSE epochLog[h][n].epoch
      /\ refs[h].tail # EventEpoch =>
            \E i \in 1..n : epochLog[h][i].epoch = refs[h].tail
  BY <1>2 DEF EpochInv, EpochsInv
<1>4. /\ \A i \in 1..n : epochLog[h][i].epoch \in Nat
      /\ refs[h].tail \in Nat /\ refs[h].epoch \in Nat
  BY <1>2, EpochsTyped
<1>5. \A i \in 1..n : epochLog[h][i].epoch <= refs[h].epoch
  <2> SUFFICES ASSUME NEW i \in 1..n PROVE epochLog[h][i].epoch <= refs[h].epoch
    OBVIOUS
  <2>1. n \in 1..n /\ refs[h].epoch = epochLog[h][n].epoch
    BY <1>3
  <2>2. i < n => epochLog[h][i].epoch < epochLog[h][n].epoch
    BY <1>3, <2>1
  <2>3. i < n \/ i = n
    BY <1>2
  <2> QED
    BY <1>4, <2>1, <2>2, <2>3
<1>6. refs[h].epoch # EventEpoch => \E i \in 1..n : epochLog[h][i].epoch = refs[h].epoch
  <2>1. n # 0 => n \in 1..n
    OBVIOUS
  <2> QED
    BY <1>3, <2>1
<1>7. refs[h].tail <= refs[h].epoch
  <2>1. CASE refs[h].tail = EventEpoch
    BY <1>4, <2>1 DEF EventEpoch
  <2>2. CASE refs[h].tail # EventEpoch
    BY <1>3, <1>5, <2>2
  <2> QED
    BY <2>1, <2>2
<1> QED
  BY <1>2, <1>5, <1>6, <1>7

\* A find that begins has read the latest epoch.
LEMMA FindAgeBegins ==
    ASSUME MTypeInv, EpochInv, NEW d \in Clients, NEW h \in Histories, NEW vid,
           FindBegins(d, h, vid), epochLog'[h] = epochLog[h]
    PROVE  FindAge(d)'
<1>1. cl'[d].h = h /\ cl'[d].snap = refs[h]
  BY DEF FindBegins
<1>2. \A i \in 1..Len(epochLog[h]) :
         /\ epochLog[h][i].epoch \in Nat /\ refs[h].epoch \in Nat
         /\ epochLog[h][i].epoch <= refs[h].epoch
  BY EpochIsLast, EpochsTyped
<1>3. \A i \in 1..Len(epochLog[h]) : ~(epochLog[h][i].epoch > refs[h].epoch)
  BY <1>2
<1> QED
  BY <1>1, <1>3, EpochIsLast DEF FindAge, IsLogged, YoungAfter

\* What a client or another step does to a find: it goes on or begins.
FindRuns(d) ==
    \/ /\ cl[d].pc \in InFind
       /\ cl'[d].h = cl[d].h /\ cl'[d].snap = cl[d].snap
    \/ /\ UNCHANGED <<log, epochLog, refs, journal>>
       /\ \E h \in Histories : \E vid \in KnownVids(h) : FindBegins(d, h, vid)

\* What leaves the clients alone, or is a step of one of them.
LEMMA ClientsOrNot ==
    ASSUME MTypeInv, TimeInv, [MNext]_allVars
    PROVE  UNCHANGED cl \/ \E c \in Clients : ClientAct(c) /\ ClientTrim(c)
<1>0. TrimClockInv /\ tr \in TrState
  BY DEF MTypeInv, TimeInv
<1>1. CASE UNCHANGED allVars \/ Tick \/ TrimOnly \/ GcOnly
  BY <1>1 DEF allVars, vars, Tick, TrimOnly, GcOnly
<1>2. CASE SetTail \/ SetEpoch
  BY <1>0, <1>2, TrimmerUpdates
<1>3. ASSUME NEW e \in EvId, GcRemoveEvent(e) PROVE UNCHANGED cl
  BY <1>3, GcRemoveEventFields
<1>4. CASE GcRemoveTail \/ GcRemoveJournal
  BY <1>4, GcRemoveFields
<1>5. ASSUME NEW g \in Histories, GcInvalidate(g) PROVE UNCHANGED cl
  BY <1>5, GcInvalidateFields
<1>6. CASE GcSetDeleted
  BY <1>6, GcSetDeletedFields
<1>7. CASE GcDeletedRefs
  BY <1>7, GcDeletedRefsFields
<1> QED
  BY <1>0, <1>1, <1>2, <1>3, <1>4, <1>5, <1>6, <1>7, MStepKinds, Zenon

\* The document of the history that a find begins with is not changed.
LEMMA FindBeginsQuiet ==
    ASSUME TypeInv, NEW c \in Clients, ClientNext(c),
           NEW h \in Histories, NEW vid, FindBegins(c, h, vid)
    PROVE  /\ UNCHANGED storeVars
           /\ \E g \in Histories : \E v \in KnownVids(g) : FindBegin(c, g, v)
<1>0. cl[c].pc = "idle" /\ cl'[c].pc \in {"start", "walkSerial"}
  BY DEF FindBegins
<1>1. ~CallStep(c) /\ ~Return(c) /\ ~Stop(c)
  BY <1>0 DEF CallStep, CommitStep, StoreEvent, InsertHead, UpdateHead,
     CommitConflict, DeleteConflict, FindStep, WalkSerial, WalkEvent,
     InsertEntry, SetSerial, FindStart, IterNext, IterEnd, Return, Stop
<1>2. ASSUME NEW g \in Histories, NEW v, NEW n, CommitBegin(c, g, v, n) PROVE FALSE
  <2>1. PICK E : Goto(c, [NewCall(g) EXCEPT !.pc = "store", !.vid = v, !.evs = E])
    BY <1>2 DEF CommitBegin
  <2>2. cl'[c] = [NewCall(g) EXCEPT !.pc = "store", !.vid = v, !.evs = E]
    BY <2>1, OthersKept
  <2>3. cl'[c].pc = "store"
    BY <2>2 DEF NewCall
  <2> QED
    BY <1>0, <2>3
<1>3. ASSUME NEW g \in Histories, NEW v, DeleteRefs(c, g, v) PROVE FALSE
  <2>1. CASE cl' = cl
    BY <1>0, <2>1
  <2>2. CASE Goto(c, [NewCall(g) EXCEPT !.pc = "deleteConflict", !.vid = v])
    <3>1. cl'[c] = [NewCall(g) EXCEPT !.pc = "deleteConflict", !.vid = v]
      BY <2>2, OthersKept
    <3>2. cl'[c].pc = "deleteConflict"
      BY <3>1 DEF NewCall
    <3> QED
      BY <1>0, <3>2
  <2> QED
    BY <1>3, <2>1, <2>2 DEF DeleteRefs
<1>4. \E g \in Histories : \E v \in KnownVids(g) : FindBegin(c, g, v)
  BY <1>1, <1>2, <1>3 DEF ClientNext, BeginCall
<1> QED
  BY Zenon, <1>4 DEF FindBegin

\* How a find comes to be in the state it is in.
LEMMA FindsRun ==
    ASSUME MTypeInv, TimeInv, [MNext]_allVars, NEW d \in Clients,
           cl'[d].pc \in InFind
    PROVE  FindRuns(d)
<1>0. TypeInv
  BY DEF MTypeInv
<1>1. CASE cl'[d] = cl[d]
  BY <1>1 DEF FindRuns
<1>2. ASSUME NEW c \in Clients, ClientAct(c) PROVE FindRuns(d)
  <2>0. ClientNext(c) /\ OthersSame(c) /\ epochLog' = epochLog
    BY <1>0, <1>2, ClientPhases DEF ClientAct
  <2>1. CASE c # d
    BY <1>1, <2>0, <2>1 DEF OthersSame
  <2>2. CASE c = d /\ FindMoves(c)
    BY <2>2 DEF FindMoves, KeepsCall, FindRuns
  <2>3. ASSUME c = d, NEW h \in Histories, NEW vid \in KnownVids(h),
               FindBegins(c, h, vid)
        PROVE  FindRuns(d)
    <3>1. UNCHANGED <<log, epochLog, refs, journal>>
      BY <1>0, <2>0, <2>3, FindBeginsQuiet DEF storeVars
    <3> QED
      BY <2>3, <3>1 DEF FindRuns
  <2> QED
    BY <1>0, <2>0, <2>1, <2>2, <2>3, FindKinds
<1> QED
  BY <1>1, <1>2, ClientsOrNot

\* How the log of epochs ages in any step.
LEMMA SomeAge ==
    ASSUME MTypeInv, TimeInv, [MNext]_allVars, NEW h \in Histories,
           ~(Gone(h) /\ GcDeletedRefs)
    PROVE  \E n \in Nat : EpochsAge(h, n)
BY EpochsAgeStep

\* Tails are old epochs.
LEMMA AgeTails ==
    ASSUME MTypeInv, MTypeInv', TimeInv, LogInv, EpochInv, AgeInv,
           [MNext]_allVars, NEW h \in Histories, refs'[h].tail # EventEpoch
    PROVE  IsOldEpoch(h, refs[h].tail)'
<1>1. CASE Gone(h) /\ GcDeletedRefs
  <2>1. refs'[h] = NoRefs
    BY <1>1, GcDeletedRefsFields
  <2> QED
    BY <2>1 DEF NoRefs
<1>2. CASE ~(Gone(h) /\ GcDeletedRefs)
  <2>1. PICK n \in Nat : EpochsAge(h, n)
    BY <1>2, SomeAge
  <2>2. PICK v : v = refs'[h].tail
    OBVIOUS
  <2>3. IsOldEpoch(h, v)
    <3>1. CASE v = refs[h].tail
      BY <2>2, <3>1 DEF AgeInv
    <3>2. CASE TailStep(h)
      <4>1. h = tr.h /\ tr.pc = "setTail"
        BY <3>2 DEF TailStep
      <4>2. v = tr.new
        BY <2>2, <3>2, TailStepFields
      <4> QED
        BY <4>1, <4>2 DEF AgeInv
    <3> QED
      BY <1>2, <2>2, <3>1, <3>2, TailsAdvance
  <2>4. \E i \in 1..Len(epochLog'[h]) :
           epochLog'[h][i].epoch = v /\ epochLog'[h][i].time > SinceEpochUpdate
    BY <2>1, <2>3, OldEpochStays
  <2> QED
    BY <2>2, <2>4 DEF IsOldEpoch
<1> QED
  BY <1>1, <1>2

\* The trimmer still has the tail that it has read, or reads one.
LEMMA TailIsRead ==
    ASSUME MTypeInv, TimeInv, [MNext]_allVars, tr'.pc = "setTail"
    PROVE  \/ tr' = tr
           \/ UNCHANGED epochLog /\ \E h \in Histories : ReadTail(h)
<1>0. TrimClockInv /\ tr \in TrState
  BY DEF MTypeInv, TimeInv
<1>1. CASE UNCHANGED allVars \/ Tick \/ GcOnly
  BY <1>1 DEF allVars, mvars, Tick, GcOnly
<1>2. CASE TrimOnly
  BY <1>2 DEF TrimOnly
<1>3. ASSUME NEW c \in Clients, ClientTrim(c), tr' # tr PROVE FALSE
  <2>1. ASSUME NEW h \in Histories,
               tr' = [tr EXCEPT !.pc = "find", !.h = h, !.todo = @ \ {h},
                                !.old = refs[h].epoch, !.c = c]
        PROVE  FALSE
    BY <1>0, <2>1 DEF TrState
  <2>2. ASSUME NEW e, tr' = [tr EXCEPT !.pc = "setEpoch", !.new = e]
        PROVE  FALSE
    BY <1>0, <2>2 DEF TrState
  <2>3. CASE tr'.pc \in {"idle", "epochs"}
    BY <2>3
  <2> QED
    BY <1>3, <2>1, <2>2, <2>3 DEF ClientTrim
<1>4. CASE SetTail \/ SetEpoch
  BY <1>0, <1>4, TrimmerUpdates
<1>5. ASSUME NEW e \in EvId, GcRemoveEvent(e) PROVE tr' = tr
  BY <1>5, GcRemoveEventFields
<1>6. CASE GcRemoveTail \/ GcRemoveJournal
  BY <1>6, GcRemoveFields
<1>7. ASSUME NEW g \in Histories, GcInvalidate(g) PROVE tr' = tr
  BY <1>7, GcInvalidateFields
<1>8. CASE GcSetDeleted
  BY <1>8, GcSetDeletedFields
<1>9. CASE GcDeletedRefs
  BY <1>9, GcDeletedRefsFields
<1> QED
  BY <1>0, <1>1, <1>2, <1>3, <1>4, <1>5, <1>6, <1>7, <1>8, <1>9, MStepKinds, Zenon

\* The tail that the trimmer has chosen is an old epoch.
LEMMA AgeTrim ==
    ASSUME MTypeInv, MTypeInv', TimeInv, AgeInv, [MNext]_allVars,
           tr'.pc = "setTail"
    PROVE  IsOldEpoch(tr.h, tr.new)'
<1>0. tr \in TrState /\ tr.h \in Histories /\ tr.new \in Vid
  BY DEF MTypeInv, TrState
<1>1. CASE tr' = tr
  <2>1. PICK h \in Histories, v \in Vid : h = tr.h /\ v = tr.new
    BY <1>0
  <2>2. ~Gone(h) /\ IsOldEpoch(h, v)
    BY <1>1, <2>1, ReadNotGone DEF AgeInv
  <2>3. PICK n \in Nat : EpochsAge(h, n)
    BY <2>2, SomeAge
  <2>4. \E i \in 1..Len(epochLog'[h]) :
           epochLog'[h][i].epoch = v /\ epochLog'[h][i].time > SinceEpochUpdate
    BY <2>2, <2>3, OldEpochStays
  <2> QED
    BY <1>1, <2>1, <2>4 DEF IsOldEpoch
<1>2. ASSUME UNCHANGED epochLog, NEW h \in Histories, ReadTail(h)
      PROVE  IsOldEpoch(tr.h, tr.new)'
  <2>1. CASE TrSkip(h)
    <3>1. tr' = [tr EXCEPT !.todo = @ \ {h}]
      BY <2>1 DEF TrSkip, TrTo
    <3>2. tr'.pc = tr.pc
      BY <1>0, <3>1 DEF TrState
    <3>3. tr.pc = "tails"
      BY <1>2 DEF ReadTail
    <3> QED
      BY <3>2, <3>3
  <2>2. CASE ~TrSkip(h)
    <3>1. PICK i \in NewTails(h) :
             tr' = [tr EXCEPT !.pc = "setTail", !.h = h, !.todo = @ \ {h},
                              !.old = refs[h].tail, !.new = epochLog[h][i].epoch]
      BY <1>2, <2>2 DEF ReadTail, TrTo
    <3>2. tr'.h = h /\ tr'.new = epochLog[h][i].epoch
      BY <1>0, <3>1 DEF TrState
    <3>3. epochLog[h] \in Seq(EpochEntry)
      BY DEF MTypeInv, EpochEntry
    <3>4. i \in 1..Len(epochLog[h]) /\ epochLog[h][i].time > SinceEpochUpdate
      BY <3>1, <3>3, LenProperties DEF NewTails
    <3>5. \E k \in 1..Len(epochLog'[h]) :
             /\ epochLog'[h][k].epoch = tr'.new
             /\ epochLog'[h][k].time > SinceEpochUpdate
      BY <1>2, <3>2, <3>4
    <3> QED
      BY <3>2, <3>5 DEF IsOldEpoch
  <2> QED
    BY <2>1, <2>2
<1> QED
  BY <1>1, <1>2, TailIsRead

\* What tails and finds rely on stays old.
LEMMA AgeStep ==
    ASSUME MTypeInv, MTypeInv', TimeInv, LogInv, EpochInv, AgeInv,
           [MNext]_allVars
    PROVE  AgeInv'
<1>1. \A h \in Histories :
         refs'[h].tail # EventEpoch => IsOldEpoch(h, refs[h].tail)'
  BY AgeTails
<1>2. tr'.pc = "setTail" => IsOldEpoch(tr.h, tr.new)'
  BY AgeTrim
<1>3. ASSUME NEW c \in Clients, cl'[c].pc \in InFind PROVE FindAge(c)'
  <2>1. CASE cl[c].pc \in InFind /\ cl'[c].h = cl[c].h /\ cl'[c].snap = cl[c].snap
    <3>1. FindAge(c)
      BY <2>1 DEF AgeInv
    <3> QED
      BY <1>3, <2>1, <3>1, FindAgeKept
  <2>2. ASSUME UNCHANGED epochLog, NEW h \in Histories, NEW vid, FindBegins(c, h, vid)
        PROVE  FindAge(c)'
    BY <2>2, FindAgeBegins
  <2> QED
    BY <1>3, <2>1, <2>2, FindsRun DEF FindRuns
<1> QED
  BY <1>1, <1>2, <1>3 DEF AgeInv

-----------------------------------------------------------------------------
\* The order of the events of a history.
LEMMA LogOrder ==
    ASSUME MTypeInv, LogInv, NEW h \in Histories
    PROVE  /\ Len(log[h]) \in Nat
           /\ \A i \in 1..Len(log[h]) :
                 /\ log[h][i] \in EvId /\ log[h][i] \in Nat
                 /\ log[h][i] # EventEpoch
                 /\ parent[log[h][i]] = At(h, i - 1)
                 /\ journal[h][log[h][i]] \in Nat
           /\ \A i, k \in 1..Len(log[h]) :
                 /\ i < k => log[h][i] < log[h][k]
                 /\ log[h][i] <= log[h][k] => i <= k
                 /\ log[h][i] = log[h][k] => i = k
           /\ refs[h].phase # "none" =>
                 /\ Len(log[h]) \in 1..Len(log[h])
                 /\ refs[h].head = log[h][Len(log[h])]
<1>0. TypeInv /\ HistoryInv(h) /\ log[h] \in Seq(EvId)
  BY DEF MTypeInv, LogInv, TypeInv, TypeOK
<1>1. Len(log[h]) \in Nat
  BY <1>0, LenProperties
<1>2. \A i \in 1..Len(log[h]) :
         /\ log[h][i] \in EvId /\ log[h][i] \in Nat
         /\ log[h][i] # EventEpoch
         /\ journal[h][log[h][i]] \in Nat
  <2>1. \A i \in 1..Len(log[h]) : log[h][i] \in EvId
    BY <1>0, ElementOfSeq
  <2>2. \A e \in EvId : e \in Nat /\ e # EventEpoch
    BY JournalAssumption DEF EvId, EventEpoch
  <2>3. \A e \in EvId : journal[h][e] \in Nat
    BY <1>0 DEF TypeInv, TypeOK
  <2> QED
    BY <2>1, <2>2, <2>3
<1>3. \A i, k \in 1..Len(log[h]) : i < k => log[h][i] < log[h][k]
  BY <1>0, HistoryChain
<1>4. ASSUME NEW i \in 1..Len(log[h]), NEW k \in 1..Len(log[h])
      PROVE  /\ log[h][i] <= log[h][k] => i <= k
             /\ log[h][i] = log[h][k] => i = k
  <2>1. i < k \/ i = k \/ k < i
    OBVIOUS
  <2>2. /\ i < k => log[h][i] < log[h][k]
        /\ k < i => log[h][k] < log[h][i]
    BY <1>3
  <2> QED
    BY <1>2, <2>1, <2>2
<1>5. ASSUME NEW i \in 1..Len(log[h]) PROVE parent[log[h][i]] = At(h, i - 1)
  <2>1. parent[log[h][i]] = Before(log[h], i)
    BY <1>0 DEF HistoryInv, IsChain
  <2>2. i - 1 = 0 <=> i = 1
    OBVIOUS
  <2> QED
    BY <2>1, <2>2 DEF Before, At
<1>6. refs[h].phase # "none" =>
         /\ Len(log[h]) \in 1..Len(log[h])
         /\ refs[h].head = log[h][Len(log[h])]
  <2>1. log[h] # << >> => Len(log[h]) \in 1..Len(log[h])
    BY <1>0, <1>1, EmptySeq
  <2> QED
    BY <1>0, <2>1 DEF HistoryInv
<1> QED
  BY <1>1, <1>2, <1>3, <1>4, <1>5, <1>6

\* The events of a history stay different.
LEMMA NextOrder ==
    ASSUME MTypeInv', LogInv', NEW h \in Histories
    PROVE  /\ Len(log'[h]) \in Nat
           /\ \A i, k \in 1..Len(log'[h]) :
                 log'[h][i] = log'[h][k] => i = k
           /\ \A i \in 1..Len(log'[h]) : log'[h][i] \in EvId /\ log'[h][i] \in Nat
<1>0. HistoryInv(h)' /\ log'[h] \in Seq(EvId)
  BY DEF MTypeInv, LogInv, TypeInv, TypeOK
<1>1. Len(log'[h]) \in Nat
  BY <1>0, LenProperties
<1>2. \A i \in 1..Len(log'[h]) : log'[h][i] \in EvId
  BY <1>0, ElementOfSeq
<1>3. \A e \in EvId : e \in Nat
  BY JournalAssumption DEF EvId
<1>4. \A i, k \in 1..Len(log'[h]) : i < k => log'[h][i] < log'[h][k]
  BY <1>0 DEF HistoryInv, IsChain
<1>5. ASSUME NEW i \in 1..Len(log'[h]), NEW k \in 1..Len(log'[h]),
             log'[h][i] = log'[h][k]
      PROVE  i = k
  <2>1. i < k \/ i = k \/ k < i
    OBVIOUS
  <2>2. /\ i < k => log'[h][i] < log'[h][k]
        /\ k < i => log'[h][k] < log'[h][i]
    BY <1>4
  <2> QED
    BY <1>2, <1>3, <1>5, <2>1, <2>2
<1> QED
  BY <1>1, <1>2, <1>3, <1>5

\* A call adds entry k + 1, after entry k.
AddsEntry(h, k) ==
    /\ k \in Nat /\ k + 1 \in 1..Len(log[h])
    /\ k # 0 => journal[h][log[h][k]] # 0
    /\ journal' = [journal EXCEPT ![h][log[h][k + 1]] = k + 1]
    /\ UNCHANGED <<log, refs, epochLog, gc>>

\* What that changes of the journal.
LEMMA AddsEntryFields ==
    ASSUME MTypeInv, LogInv, NEW h \in Histories, NEW k, AddsEntry(h, k)
    PROVE  /\ journal'[h][log[h][k + 1]] = k + 1 /\ k + 1 # 0
           /\ log[h][k + 1] \in EvId
           /\ \A g \in Histories : \A e \in EvId :
                 g # h \/ e # log[h][k + 1] => journal'[g][e] = journal[g][e]
<1>1. log[h][k + 1] \in EvId
  BY LogOrder DEF AddsEntry
<1>2. journal \in [Histories -> [EvId -> Nat]]
  BY DEF MTypeInv, TypeInv, TypeOK
<1>3. k \in Nat /\ journal' = [journal EXCEPT ![h][log[h][k + 1]] = k + 1]
  BY DEF AddsEntry
<1> QED
  BY <1>1, <1>2, <1>3

\* What a call that reads inserts.
LEMMA InsertAdds ==
    ASSUME MTypeInv, LogInv, EntryInv, ReadInv, NEW c \in Clients,
           InsertEntry(c), UNCHANGED <<epochLog, gc>>
    PROVE  /\ KeepsCall(cl[c], cl'[c]) /\ cl'[c].pc = "insert"
           /\ cl'[c].n = cl[c].n - 1 /\ cl'[c].serial = cl[c].serial + 1
           /\ cl'[c].evs = cl[c].evs
           /\ \/ journal' = journal /\ journal[cl[c].h][log[cl[c].h][cl[c].serial + 1]] # 0
              \/ AddsEntry(cl[c].h, cl[c].serial)
<1> DEFINE s == cl[c]
           t == cl'[c]
<1>0. TypeInv
  BY DEF MTypeInv
<1>1. /\ s.pc = "insert" /\ s.n > 0 /\ OthersSame(c)
      /\ UNCHANGED <<nextId, parent, stored, refs, log, heads>>
      /\ \/ /\ journal[s.h][s.evs[s.n]] \notin {0, s.serial + 1}
            /\ journal' = journal /\ t.pc = "done"
         \/ /\ KeepsCall(s, t) /\ t.out = s.out /\ t.evs = s.evs
            /\ t.pc = "insert" /\ t.n = s.n - 1
            /\ t.serial = s.serial + 1
            /\ \/ /\ journal[s.h][s.evs[s.n]] = 0
                  /\ journal' = [journal EXCEPT ![s.h][s.evs[s.n]] = s.serial + 1]
               \/ /\ journal[s.h][s.evs[s.n]] = s.serial + 1
                  /\ journal' = journal
  BY <1>0, InsertEntryEffect
<1>2. PICK h \in Histories, n \in Nat, k \in Nat :
         h = s.h /\ n = s.n /\ k = s.serial
  BY <1>0, ClientTyped
<1>3. PICK m \in 1..Len(log[h]) : ReadAt(s, m)
  BY <1>1, <1>2 DEF ReadInv, InFind
<1>4. /\ \A i \in 1..n : s.evs[i] = log[h][m + 1 - i]
      /\ k + n = m
      /\ k # 0 => journal[h][log[h][k]] # 0
  BY Zenon, <1>1, <1>2, <1>3 DEF ReadAt
<1>4a. n > 0 /\ m \in Nat /\ Len(log[h]) \in Nat /\ m <= Len(log[h])
  <2>1. n > 0
    BY <1>1, <1>2
  <2>2. Len(log[h]) \in Nat
    BY LogOrder
  <2> QED
    BY <2>1, <2>2
<1>5. k + 1 \in 1..Len(log[h])
  BY <1>4, <1>4a
<1>6. s.evs[n] = log[h][k + 1]
  <2>1. n \in 1..n /\ m + 1 - n = k + 1
    BY <1>4, <1>4a
  <2> QED
    BY <1>4, <2>1
<1>7. journal[h][log[h][k + 1]] \in {0, k + 1}
  BY <1>5 DEF EntryInv, Position
<1>8. \/ /\ journal[h][log[h][k + 1]] = 0
         /\ journal' = [journal EXCEPT ![h][log[h][k + 1]] = k + 1]
      \/ /\ journal[h][log[h][k + 1]] = k + 1
         /\ journal' = journal
  BY Zenon, <1>1, <1>2, <1>6, <1>7
<1>9. KeepsCall(s, t) /\ t.evs = s.evs /\ t.pc = "insert" /\ t.n = s.n - 1 /\ t.serial = s.serial + 1
  BY Zenon, <1>1, <1>2, <1>6, <1>7
<1>10. \/ journal' = journal /\ journal[h][log[h][k + 1]] # 0
       \/ AddsEntry(h, k)
  BY <1>1, <1>4, <1>5, <1>8 DEF AddsEntry
<1> QED
  BY <1>2, <1>9, <1>10

\* How a client changes the journal.
LEMMA ClientEntries ==
    ASSUME TypeInv, NEW c \in Clients, ClientNext(c)
    PROVE  journal' = journal \/ InsertEntry(c)
<1>1. ASSUME NEW h \in Histories, NEW vid, NEW n, CommitBegin(c, h, vid, n)
      PROVE  journal' = journal
  BY <1>1 DEF CommitBegin
<1>2. ASSUME NEW h \in Histories, NEW vid, DeleteRefs(c, h, vid)
      PROVE  journal' = journal
  BY <1>2 DEF DeleteRefs
<1>3. ASSUME NEW h \in Histories, NEW vid, FindBegin(c, h, vid)
      PROVE  journal' = journal
  BY <1>3 DEF FindBegin, storeVars
<1>4. CASE CommitStep(c) \/ DeleteConflict(c)
  BY Zenon, <1>4 DEF CommitStep, StoreEvent, InsertHead, UpdateHead, MoveHead,
     CommitConflict, DeleteConflict, storeVars
<1>5. CASE FindStep(c)
  BY Zenon, <1>5 DEF FindStep, WalkSerial, WalkEvent, SetSerial, FindStart,
     IterNext, IterEnd, storeVars
<1>6. CASE Return(c) \/ Stop(c)
  BY <1>6 DEF Return, Stop, storeVars
<1> QED
  BY <1>1, <1>2, <1>3, <1>4, <1>5, <1>6 DEF ClientNext, BeginCall, CallStep

\* How a step changes the journal.
LEMMA EntryKinds ==
    ASSUME MTypeInv, TimeInv, LogInv, EntryInv, ReadInv, [MNext]_allVars
    PROVE  \/ journal' = journal
           \/ \E h \in Histories : \E k : AddsEntry(h, k)
           \/ GcRemoveTail
           \/ GcRemoveJournal
<1>0. TrimClockInv /\ tr \in TrState /\ TypeInv
  BY DEF MTypeInv, TimeInv
<1>1. CASE UNCHANGED allVars \/ Tick \/ TrimOnly \/ GcOnly
  BY <1>1 DEF allVars, vars, Tick, TrimOnly, GcOnly
<1>2. ASSUME NEW c \in Clients, ClientAct(c)
      PROVE  journal' = journal \/ \E h \in Histories : \E k : AddsEntry(h, k)
  <2>1. CASE journal' = journal
    BY <2>1
  <2>2. CASE InsertEntry(c)
    <3>1. UNCHANGED <<epochLog, gc>> /\ cl[c].h \in Histories
      BY <1>0, <1>2, ClientTyped DEF ClientAct
    <3>2. journal' = journal \/ AddsEntry(cl[c].h, cl[c].serial)
      BY <2>2, <3>1, InsertAdds
    <3> QED
      BY <3>1, <3>2
  <2> QED
    BY <1>0, <1>2, <2>1, <2>2, ClientEntries DEF ClientAct
<1>3. CASE SetTail \/ SetEpoch
  BY <1>0, <1>3, TrimmerUpdates
<1>4. ASSUME NEW e \in EvId, GcRemoveEvent(e) PROVE journal' = journal
  BY <1>4, GcRemoveEventFields
<1>5. ASSUME NEW g \in Histories, GcInvalidate(g) PROVE journal' = journal
  BY <1>5, GcInvalidateFields
<1>6. CASE GcSetDeleted
  BY <1>6, GcSetDeletedFields
<1>7. CASE GcDeletedRefs
  BY <1>7, GcDeletedRefsFields
<1> QED
  BY <1>0, <1>1, <1>2, <1>3, <1>4, <1>5, <1>6, <1>7, MStepKinds, Zenon

\* Entries from the tail on stay, as long as their history is kept.
LEMMA EntriesStay ==
    ASSUME MTypeInv, TimeInv, LogInv, EpochInv, EntryInv, ReadInv,
           [MNext]_allVars, NEW h \in Histories, Kept(h),
           NEW e \in LogEvents(h), refs[h].tail <= e, journal[h][e] # 0
    PROVE  journal'[h][e] # 0
<1>1. PICK j \in 1..Len(log[h]) : e = log[h][j]
  BY DEF LogEvents
<1>2. e \in EvId /\ e \in Nat /\ journal[h][e] = j
  <2>1. e \in EvId /\ e \in Nat
    BY <1>1, LogOrder
  <2>2. journal[h][e] \in {0, j}
    BY <1>1 DEF EntryInv, Position
  <2> QED
    BY <2>1, <2>2
<1>3. ASSUME NEW g \in Histories, NEW k, AddsEntry(g, k)
      PROVE  journal'[h][e] # 0
  <2>1. /\ journal'[g][log[g][k + 1]] = k + 1 /\ k + 1 # 0
        /\ g # h \/ e # log[g][k + 1] => journal'[h][e] = journal[h][e]
    BY <1>2, <1>3, AddsEntryFields
  <2> QED
    BY <2>1
<1>4. CASE GcRemoveTail
  <2>1. /\ gc.pc = "removeTail"
        /\ journal' = [journal EXCEPT ![gc.h] =
                         [f \in EvId |-> IF @[f] < gc.serial THEN 0 ELSE @[f]]]
    BY <1>4 DEF GcRemoveTail
  <2>2. journal \in [Histories -> [EvId -> Nat]] /\ gc.h \in Histories
    BY DEF MTypeInv, TypeInv, TypeOK, GcState
  <2>3. CASE gc.h # h
    BY <2>1, <2>2, <2>3
  <2>4. CASE gc.h = h
    <3>1. PICK i \in 1..Len(log[h]) : gc.serial = i /\ log[h][i] <= refs[h].tail
      BY <2>1, <2>4 DEF EntryInv, GcSerial
    <3>2. refs[h].tail \in Nat /\ log[h][i] \in Nat
      BY LogOrder, EpochsTyped
    <3>3. log[h][i] <= log[h][j]
      BY <1>1, <1>2, <3>1, <3>2
    <3>4. i <= j
      BY <3>3, LogOrder
    <3>5. journal'[h][e] = IF journal[h][e] < gc.serial THEN 0 ELSE journal[h][e]
      BY <1>2, <2>1, <2>2, <2>4
    <3>6. ~(journal[h][e] < gc.serial)
      BY <1>2, <3>1, <3>4, LogOrder
    <3> QED
      BY <3>5, <3>6
  <2> QED
    BY <2>3, <2>4
<1>5. CASE GcRemoveJournal
  <2>1. /\ gc.pc = "removeJournal"
        /\ journal' = [journal EXCEPT ![gc.h] = [f \in EvId |-> 0]]
    BY <1>5 DEF GcRemoveJournal
  <2>2. dtime[gc.h] > DeletingDuration /\ gc.h \in Histories
    BY <2>1 DEF TimeInv, RemovalInv, MTypeInv, GcState
  <2>3. dtime[h] <= DeletingDuration /\ dtime[h] \in Nat /\ DeletingDuration \in Nat
    BY MaintenanceAssumption DEF Kept, KeptFor, MTypeInv
  <2>4. gc.h # h
    BY <2>2, <2>3
  <2>5. journal \in [Histories -> [EvId -> Nat]]
    BY DEF MTypeInv, TypeInv, TypeOK
  <2> QED
    BY <2>1, <2>2, <2>4, <2>5
<1> QED
  BY <1>3, <1>4, <1>5, EntryKinds

\* Every entry is the position of its event.
LEMMA PositionStep ==
    ASSUME MTypeInv, MTypeInv', TimeInv, LogInv, LogInv', EpochInv, EntryInv,
           ReadInv, [MNext]_allVars, NEW h \in Histories
    PROVE  Position(h)'
<1> SUFFICES ASSUME NEW i \in 1..Len(log'[h]), journal'[h][log'[h][i]] # 0
             PROVE  journal'[h][log'[h][i]] = i
  BY DEF Position
<1>0. PICK e \in EvId : e = log'[h][i]
  BY NextOrder
<1>1. ~(Gone(h) /\ GcDeletedRefs)
  <2>1. Gone(h) /\ GcDeletedRefs => log'[h] = << >>
    BY GcDeletedRefsFields
  <2>2. Len(<< >>) = 0
    OBVIOUS
  <2> QED
    BY <2>1, <2>2
<1>2. LogGrows(h)
  BY <1>1, LogGrowsStep
<1>3. Len(log[h]) \in Nat /\ Len(log'[h]) \in Nat
  BY LogOrder, NextOrder
<1>4. CASE journal'[h][e] = journal[h][e]
  <2>1. e \in LogEvents(h)
    BY <1>0, <1>4 DEF EpochInv
  <2>2. PICK j \in 1..Len(log[h]) : e = log[h][j]
    BY <2>1 DEF LogEvents
  <2>3. j \in 1..Len(log'[h]) /\ log'[h][j] = e
    BY <1>2, <1>3, <2>2 DEF LogGrows
  <2>4. i = j
    BY <1>0, <2>3, NextOrder
  <2>5. journal[h][log[h][j]] \in {0, j}
    BY DEF EntryInv, Position
  <2> QED
    BY <1>0, <1>4, <2>2, <2>4, <2>5
<1>5. ASSUME NEW g \in Histories, NEW k, AddsEntry(g, k)
      PROVE  journal'[h][e] = i
  <2>1. CASE g = h /\ e = log[h][k + 1]
    <3>1. log' = log /\ k + 1 \in 1..Len(log[h])
      BY <1>5, <2>1 DEF AddsEntry
    <3>2. log'[h][k + 1] = log'[h][i] /\ k + 1 \in 1..Len(log'[h])
      BY <1>0, <2>1, <3>1
    <3>3. i = k + 1
      BY <3>2, NextOrder
    <3> QED
      BY <1>5, <2>1, <3>3, AddsEntryFields
  <2>2. CASE ~(g = h /\ e = log[h][k + 1])
    <3>1. journal'[h][e] = journal[h][e]
      BY <1>5, <2>2, AddsEntryFields
    <3> QED
      BY <1>0, <1>4, <3>1
  <2> QED
    BY <2>1, <2>2
<1>6. CASE GcRemoveTail \/ GcRemoveJournal
  <2>1. journal'[h][e] = 0 \/ journal'[h][e] = journal[h][e]
    BY <1>6, GcRemoveFields
  <2> QED
    BY <1>0, <1>4, <2>1
<1> QED
  BY <1>0, <1>4, <1>5, <1>6, EntryKinds

\* What is kept was kept, or is a new history.
LEMMA KeptStep ==
    ASSUME MTypeInv, TimeInv, [MNext]_allVars, NEW h \in Histories, Kept(h)'
    PROVE  \/ Kept(h)
           \/ refs[h].phase = "none" /\ \E c \in Clients : ClientAct(c)
<1>0. /\ TypeInv /\ TrimClockInv /\ tr \in TrState
      /\ dtime[h] \in Nat /\ DeletingDuration \in Nat
      /\ refs'[h].phase \in {"active", "deleting"}
      /\ dtime'[h] <= DeletingDuration
  BY MaintenanceAssumption DEF MTypeInv, TimeInv, Kept, KeptFor
<1>1. ASSUME refs'[h].phase = refs[h].phase, dtime'[h] = dtime[h]
      PROVE  Kept(h)
  BY <1>0, <1>1 DEF Kept, KeptFor
<1>2. CASE UNCHANGED allVars \/ TrimOnly \/ GcOnly
  BY <1>1, <1>2 DEF allVars, vars, mvars, TrimOnly, GcOnly
<1>3. CASE Tick
  <2>1. /\ refs' = refs
        /\ dtime'[h] = IF refs[h].phase \in {"none", "active"} THEN 0
                       ELSE Older(dtime[h], LongestDeletion)
    BY <1>3 DEF Tick, vars
  <2>2. CASE refs[h].phase = "active"
    <3>1. dtime[h] = 0
      BY <2>2 DEF TimeInv, ClockInv
    <3> QED
      BY <1>0, <2>2, <3>1 DEF Kept, KeptFor
  <2>3. CASE refs[h].phase # "active"
    <3>1. refs[h].phase = "deleting" /\ dtime'[h] = Older(dtime[h], LongestDeletion)
      BY <1>0, <2>1, <2>3
    <3>2. dtime[h] <= dtime'[h] /\ dtime'[h] \in Nat
      BY <1>0, <3>1, OlderGrows
    <3>3. dtime[h] <= DeletingDuration
      BY <1>0, <3>2
    <3> QED
      BY <3>1, <3>3 DEF Kept, KeptFor
  <2> QED
    BY <2>2, <2>3
<1>4. ASSUME NEW c \in Clients, ClientAct(c)
      PROVE  \/ Kept(h)
             \/ refs[h].phase = "none" /\ \E d \in Clients : ClientAct(d)
  <2>1. /\ dtime' = dtime
        /\ \/ refs'[h].phase = refs[h].phase
           \/ refs[h].phase = "active" /\ refs'[h].phase = "deleting"
           \/ refs[h].phase = "none" /\ refs'[h].phase = "active"
    BY <1>0, <1>4, ClientPhases DEF ClientAct
  <2>2. CASE refs[h].phase = "none"
    BY <1>4, <2>2
  <2>3. CASE refs[h].phase \in {"active", "deleting"}
    BY <1>0, <2>1, <2>3 DEF Kept, KeptFor
  <2> QED
    BY <1>0, <2>1, <2>2, <2>3
<1>5. CASE SetTail \/ SetEpoch
  <2>1. UNCHANGED dtime
    BY <1>0, <1>5, TrimmerUpdates
  <2>2. refs'[h].phase = refs[h].phase
    <3>1. CASE UNCHANGED refs
      BY <3>1
    <3>2. ASSUME NEW g \in Histories, TailStep(g) \/ EpochStep(g)
          PROVE  refs'[h].phase = refs[h].phase
      BY <3>2, TailStepFields, EpochStepFields
    <3> QED
      BY <1>0, <1>5, <3>1, <3>2, TrimmerUpdates
  <2> QED
    BY <1>1, <2>1, <2>2
<1>6. ASSUME NEW e \in EvId, GcRemoveEvent(e) PROVE Kept(h)
  BY <1>1, <1>6, GcRemoveEventFields
<1>7. CASE GcRemoveTail \/ GcRemoveJournal
  BY <1>1, <1>7, GcRemoveFields
<1>8. ASSUME NEW g \in Histories, GcInvalidate(g) PROVE Kept(h)
  BY <1>1, <1>8, GcInvalidateFields
<1>9. CASE GcSetDeleted
  <2>1. /\ dtime' = dtime
        /\ h # gc.h => refs'[h] = refs[h]
        /\ refs'[gc.h].phase = IF refs[gc.h].phase = "deleting" THEN "deleted"
                               ELSE refs[gc.h].phase
    BY <1>9, GcSetDeletedFields
  <2>2. refs'[h].phase = refs[h].phase
    BY <1>0, <2>1
  <2> QED
    BY <1>1, <2>1, <2>2
<1>10. CASE GcDeletedRefs
  <2>1. /\ Gone(h) => refs'[h] = NoRefs
        /\ ~Gone(h) => refs'[h] = refs[h] /\ dtime'[h] = dtime[h]
    BY <1>10, GcDeletedRefsFields
  <2>2. ~Gone(h)
    BY <1>0, <2>1 DEF NoRefs
  <2> QED
    BY <1>1, <2>1, <2>2
<1> QED
  BY <1>0, <1>2, <1>3, <1>4, <1>5, <1>6, <1>7, <1>8, <1>9, <1>10, MStepKinds, Zenon

\* A new history has no entries and no epochs.
LEMMA NewIsEmpty ==
    ASSUME MTypeInv, TimeInv, LogInv, EpochInv, NEW h \in Histories,
           refs[h].phase = "none", NEW c \in Clients, ClientAct(c)
    PROVE  /\ \A e \in EvId : journal'[h][e] = 0
           /\ Len(epochLog'[h]) = 0
<1>0. TypeInv
  BY DEF MTypeInv
<1>1. ~(cl[c].pc = "insert" /\ h = cl[c].h)
  <2>1. cl[c].pc = "insert" => Kept(cl[c].h)
    BY KeptCalls DEF InFind
  <2> QED
    BY <2>1 DEF Kept, KeptFor
<1>2. \A e \in EvId : journal'[h][e] = journal[h][e]
  BY <1>0, <1>1, ClientPhases DEF ClientAct
<1>3. \A e \in EvId : journal[h][e] = 0
  BY DEF TimeInv, RemovalInv, RemovedLeavesNoEntries
<1>4. epochLog' = epochLog
  BY DEF ClientAct
<1>5. LogEvents(h) = {}
  BY <1>0, HistoryChain
<1>6. \A i \in 1..Len(epochLog[h]) : epochLog[h][i].epoch \in LogEvents(h)
  BY DEF EpochInv, EpochsInv
<1>7. Len(epochLog[h]) \in Nat
  BY EpochsTyped
<1>8. Len(epochLog[h]) # 0 => 1 \in 1..Len(epochLog[h])
  BY <1>7
<1> QED
  BY <1>2, <1>3, <1>4, <1>5, <1>6, <1>8

\* No step leaves a gap in the entries from the tail on.
LEMMA NoGapStep ==
    ASSUME MTypeInv, MTypeInv', TimeInv, LogInv, LogInv', EpochInv, EntryInv,
           ReadInv, [MNext]_allVars, NEW h \in Histories, Kept(h)'
    PROVE  NoGap(h)'
<1> SUFFICES ASSUME NEW i \in 1..Len(log'[h]), NEW j \in 1..Len(log'[h]),
                    i < j, refs'[h].tail <= log'[h][i],
                    journal'[h][log'[h][j]] # 0
             PROVE  journal'[h][log'[h][i]] # 0
  BY DEF NoGap
<1>0. /\ log'[h][i] \in EvId /\ log'[h][i] \in Nat /\ log'[h][j] \in EvId
      /\ Len(log[h]) \in Nat /\ Len(log'[h]) \in Nat
  BY NextOrder, LogOrder
<1>1. CASE refs[h].phase = "none" /\ \E c \in Clients : ClientAct(c)
  BY <1>0, <1>1, NewIsEmpty
<1>2. CASE Kept(h)
  <2>0. ~Gone(h) /\ NoGap(h)
    BY <1>2, KeptCalls DEF EntryInv
  <2>1. LogGrows(h) /\ refs[h].tail <= refs'[h].tail
    BY <2>0, LogGrowsStep, TailsAdvance
  <2>2. refs[h].tail <= log'[h][i]
    <3>1. refs[h].tail \in Nat /\ refs'[h].tail \in Nat
      <4>1. refs'[h] \in RefsDoc
        BY DEF MTypeInv, TypeInv, TypeOK
      <4>2. refs'[h].tail \in Vid
        BY <4>1 DEF RefsDoc
      <4> QED
        BY <4>2, EpochsTyped, JournalAssumption DEF Vid
    <3> QED
      BY <1>0, <2>1, <3>1
  <2>3. ASSUME i \in 1..Len(log[h]), log[h][i] = log'[h][i],
               journal[h][log'[h][i]] # 0
        PROVE  journal'[h][log'[h][i]] # 0
    <3>1. log'[h][i] \in LogEvents(h)
      BY <2>3 DEF LogEvents
    <3> QED
      BY <1>2, <2>2, <2>3, <3>1, EntriesStay
  <2>4. CASE journal[h][log'[h][j]] # 0
    <3>1. log'[h][j] \in LogEvents(h)
      BY <1>0, <2>4 DEF EpochInv
    <3>2. PICK q \in 1..Len(log[h]) : log'[h][j] = log[h][q]
      BY <3>1 DEF LogEvents
    <3>3. q \in 1..Len(log'[h]) /\ log'[h][q] = log'[h][j]
      BY <1>0, <2>1, <3>2 DEF LogGrows
    <3>4. q = j
      BY <3>3, NextOrder
    <3>5. i \in 1..Len(log[h]) /\ j \in 1..Len(log[h])
      BY <1>0, <3>2, <3>4
    <3>6. log[h][i] = log'[h][i] /\ log[h][j] = log'[h][j]
      BY <2>1, <3>5 DEF LogGrows
    <3>7. journal[h][log[h][i]] # 0
      BY <2>0, <2>2, <2>4, <3>5, <3>6 DEF NoGap
    <3> QED
      BY <2>3, <3>5, <3>6, <3>7
  <2>5. CASE journal[h][log'[h][j]] = 0
    <3>1. ~(GcRemoveTail \/ GcRemoveJournal) /\ journal' # journal
      BY <1>0, <2>5, GcRemoveFields
    <3>2. PICK g \in Histories : \E k \in Nat : AddsEntry(g, k)
      <4>1. PICK g \in Histories : \E k : AddsEntry(g, k)
        BY <3>1, EntryKinds
      <4> QED
        BY <4>1 DEF AddsEntry
    <3>20. PICK k \in Nat : AddsEntry(g, k)
      BY <3>2
    <3>3. g = h /\ log'[h][j] = log[h][k + 1]
      BY <1>0, <2>5, <3>20, AddsEntryFields
    <3>4. /\ log' = log /\ k \in Nat /\ k + 1 \in 1..Len(log[h])
          /\ k # 0 => journal[h][log[h][k]] # 0
      BY <3>20, <3>3 DEF AddsEntry
    <3>5. j = k + 1
      BY <3>3, <3>4, NextOrder
    <3>6. i <= k /\ k # 0 /\ k \in 1..Len(log[h])
      BY <1>0, <3>4, <3>5
    <3>7. journal[h][log[h][i]] # 0
      <4>1. CASE i = k
        BY <3>4, <3>6, <4>1
      <4>2. CASE i < k
        BY <2>0, <2>2, <3>4, <3>6, <4>2 DEF NoGap
      <4> QED
        BY <3>4, <3>6, <4>1, <4>2
    <3> QED
      BY <2>3, <3>4, <3>7
  <2> QED
    BY <2>4, <2>5
<1> QED
  BY <1>1, <1>2, KeptStep

\* The epochs from the tail on keep their entries.
LEMMA EpochEntriesStep ==
    ASSUME MTypeInv, MTypeInv', TimeInv, LogInv, LogInv', EpochInv, EntryInv,
           ReadInv, [MNext]_allVars, NEW h \in Histories, Kept(h)'
    PROVE  EpochEntries(h)'
<1> SUFFICES ASSUME NEW i \in 1..Len(epochLog'[h]),
                    refs'[h].tail <= epochLog'[h][i].epoch
             PROVE  journal'[h][epochLog'[h][i].epoch] # 0
  BY DEF EpochEntries
<1>1. CASE refs[h].phase = "none" /\ \E c \in Clients : ClientAct(c)
  BY <1>1, NewIsEmpty
<1>2. CASE Kept(h)
  <2>0. ~Gone(h) /\ EpochEntries(h) /\ Len(epochLog[h]) \in Nat
    BY <1>2, KeptCalls, EpochsTyped DEF EntryInv
  <2>1. PICK n \in Nat : EpochsAge(h, n)
    BY <2>0, SomeAge
  <2>2. CASE i \in 1..Len(epochLog[h])
    <3>1. PICK e : e = epochLog[h][i].epoch /\ e = epochLog'[h][i].epoch
      BY <2>1, <2>2 DEF EpochsAge
    <3>2. e \in LogEvents(h) /\ e \in Nat
      BY <2>2, <3>1, EpochsTyped DEF EpochInv, EpochsInv
    <3>3. refs[h].tail <= e
      <4>1. refs'[h] \in RefsDoc
        BY DEF MTypeInv, TypeInv, TypeOK
      <4>2. refs'[h].tail \in Nat /\ refs[h].tail \in Nat
        BY <4>1, EpochsTyped, JournalAssumption DEF RefsDoc, Vid
      <4>3. refs[h].tail <= refs'[h].tail
        BY <2>0, TailsAdvance
      <4> QED
        BY <3>1, <3>2, <4>2, <4>3
    <3>4. journal[h][e] # 0
      BY <2>0, <2>2, <3>1, <3>3 DEF EpochEntries
    <3>5. journal'[h][e] # 0
      BY <1>2, <3>2, <3>3, <3>4, EntriesStay
    <3> QED
      BY <3>1, <3>5
  <2>3. CASE i \notin 1..Len(epochLog[h])
    <3>1. ASSUME Len(epochLog'[h]) = Len(epochLog[h]) PROVE FALSE
      BY <2>3, <3>1
    <3>2. CASE EpochQuiet
      BY <3>1, <3>2 DEF EpochQuiet, EpochFrame, EpochsKept
    <3>3. CASE GcDeletedRefs
      BY <2>0, <3>1, <3>3, GcDeletedRefsFields
    <3>4. ASSUME NEW g \in Histories, DocStep(g)
          PROVE  journal'[h][epochLog'[h][i].epoch] # 0
      <4>1. CASE TailStep(g)
        BY <3>1, <4>1 DEF TailStep
      <4>2. CASE EpochStep(g) /\ g # h
        BY <3>1, <4>2, EpochStepFields
      <4>3. CASE EpochStep(g) /\ g = h
        <5>0. h = tr.h /\ tr.pc = "setEpoch" /\ journal' = journal
          BY <3>4, <4>3 DEF EpochStep, DocStep
        <5>1. /\ h = tr.h /\ tr.pc = "setEpoch" /\ journal' = journal
              /\ Len(epochLog'[h]) = Len(epochLog[h]) + 1
              /\ epochLog'[h][Len(epochLog[h]) + 1].epoch = tr.new
          BY <4>3, <5>0, EpochStepFields
        <5>2. i = Len(epochLog[h]) + 1
          BY <2>0, <2>3, <5>1
        <5>3. journal[tr.h][tr.new] # 0
          BY <5>1 DEF EntryInv, TrimEntries
        <5> QED
          BY <5>1, <5>2, <5>3
      <4> QED
        BY <3>4, <4>1, <4>2, <4>3 DEF DocStep
    <3> QED
      BY <3>2, <3>3, <3>4, EpochKinds
  <2> QED
    BY <2>2, <2>3
<1> QED
  BY <1>1, <1>2, KeptStep

\* How a client changes the serial of a history that is active.
LEMMA ClientSerials ==
    ASSUME TypeInv, NEW c \in Clients, ClientNext(c), NEW h \in Histories,
           refs'[h].phase = "active"
    PROVE  \/ refs'[h].serial = HeadSerialUnspecified
           \/ refs'[h] = refs[h] /\ log'[h] = log[h]
           \/ SetSerial(c) /\ h = cl[c].h
<1>0. refs \in [Histories -> RefsDoc] /\ log \in [Histories -> Seq(EvId)]
  BY DEF TypeInv, TypeOK
<1>1. ASSUME UNCHANGED <<refs, log>>
      PROVE  refs'[h] = refs[h] /\ log'[h] = log[h]
  BY <1>1
<1>2. ASSUME NEW g \in Histories, NEW vid, NEW n, CommitBegin(c, g, vid, n)
      PROVE  UNCHANGED <<refs, log>>
  BY <1>2 DEF CommitBegin
<1>3. ASSUME NEW g \in Histories, NEW vid, DeleteRefs(c, g, vid)
      PROVE  refs'[h] = refs[h] /\ log'[h] = log[h]
  <2>1. log' = log /\ (refs' = refs \/ refs' = [refs EXCEPT ![g].phase = "deleting"])
    BY <1>3 DEF DeleteRefs
  <2>2. refs' = [refs EXCEPT ![g].phase = "deleting"] /\ g = h =>
           refs'[h].phase = "deleting"
    BY <1>0 DEF RefsDoc
  <2> QED
    BY <1>0, <2>1, <2>2
<1>4. ASSUME NEW g \in Histories, NEW vid, FindBegin(c, g, vid)
      PROVE  UNCHANGED <<refs, log>>
  BY <1>4 DEF FindBegin, storeVars
<1>5. CASE StoreEvent(c) \/ CommitConflict(c) \/ DeleteConflict(c)
  BY <1>1, <1>5 DEF StoreEvent, CommitConflict, DeleteConflict, storeVars
<1>6. ASSUME NEW g \in Histories, NEW doc, doc.serial = HeadSerialUnspecified,
             MoveHead(c, g, doc)
      PROVE  \/ refs'[h].serial = HeadSerialUnspecified
             \/ refs'[h] = refs[h] /\ log'[h] = log[h]
  BY <1>0, <1>6 DEF MoveHead
<1>7. cl[c].h \in Histories /\ refs[cl[c].h] \in RefsDoc
  BY ClientTyped
<1>8. CASE InsertHead(c)
  <2>1. UNCHANGED storeVars \/ \E e : MoveHead(c, cl[c].h, [NoRefs EXCEPT !.head = e, !.phase = "active"])
    BY <1>8 DEF InsertHead
  <2>2. \A e : [NoRefs EXCEPT !.head = e, !.phase = "active"].serial = HeadSerialUnspecified
    BY DEF NoRefs
  <2> QED
    BY <1>1, <1>6, <1>7, <2>1, <2>2 DEF storeVars
<1>9. CASE UpdateHead(c)
  <2>1. \/ UNCHANGED storeVars
        \/ \E e : MoveHead(c, cl[c].h, [refs[cl[c].h] EXCEPT
                             !.head = e, !.serial = HeadSerialUnspecified])
    BY <1>9 DEF UpdateHead
  <2>2. \A e : [refs[cl[c].h] EXCEPT !.head = e, !.serial = HeadSerialUnspecified].serial
                  = HeadSerialUnspecified
    BY <1>7 DEF RefsDoc
  <2> QED
    BY <1>1, <1>6, <1>7, <2>1, <2>2 DEF storeVars
<1>10. CASE SetSerial(c)
  BY <1>0, <1>10 DEF SetSerial
<1>11. CASE WalkSerial(c) \/ WalkEvent(c) \/ InsertEntry(c) \/ FindStart(c)
            \/ IterNext(c) \/ IterEnd(c) \/ Return(c) \/ Stop(c)
  BY Zenon, <1>1, <1>11 DEF WalkSerial, WalkEvent, InsertEntry, FindStart,
     IterNext, IterEnd, Return, Stop, storeVars
<1> QED
  BY <1>1, <1>2, <1>3, <1>4, <1>5, <1>8, <1>9, <1>10, <1>11
  DEF ClientNext, BeginCall, CallStep, CommitStep, FindStep

\* How a step changes the serial of a history that is active.
LEMMA SerialKinds ==
    ASSUME MTypeInv, TimeInv, [MNext]_allVars, NEW h \in Histories,
           refs'[h].phase = "active"
    PROVE  \/ refs'[h].serial = HeadSerialUnspecified
           \/ /\ refs[h].phase = "active" /\ log'[h] = log[h]
              /\ refs'[h].serial = refs[h].serial /\ refs'[h].head = refs[h].head
           \/ \E c \in Clients : SetSerial(c) /\ h = cl[c].h
<1> DEFINE Same == /\ refs[h].phase = "active" /\ log'[h] = log[h]
                   /\ refs'[h].serial = refs[h].serial
                   /\ refs'[h].head = refs[h].head
<1>0. TrimClockInv /\ tr \in TrState /\ TypeInv
  BY DEF MTypeInv, TimeInv
<1>1. CASE UNCHANGED allVars \/ Tick \/ TrimOnly \/ GcOnly
  BY <1>1 DEF allVars, vars, Tick, TrimOnly, GcOnly
<1>2. ASSUME NEW c \in Clients, ClientAct(c)
      PROVE  \/ refs'[h].serial = HeadSerialUnspecified
             \/ Same
             \/ SetSerial(c) /\ h = cl[c].h
  <2>1. ClientNext(c)
    BY <1>2 DEF ClientAct
  <2> QED
    BY <1>0, <2>1, ClientSerials
<1>3. CASE SetTail \/ SetEpoch
  <2>1. log' = log
    BY <1>0, <1>3, TrimmerUpdates
  <2>2. CASE UNCHANGED refs
    BY <2>1, <2>2
  <2>3. ASSUME NEW g \in Histories, TailStep(g) \/ EpochStep(g) PROVE Same
    BY <2>1, <2>3, TailStepFields, EpochStepFields
  <2> QED
    BY <1>0, <1>3, <2>2, <2>3, TrimmerUpdates
<1>4. ASSUME NEW e \in EvId, GcRemoveEvent(e) PROVE Same
  BY <1>4, GcRemoveEventFields
<1>5. CASE GcRemoveTail \/ GcRemoveJournal
  BY <1>5, GcRemoveFields
<1>6. ASSUME NEW g \in Histories, GcInvalidate(g) PROVE Same
  <2>1. /\ log' = log /\ refs'[h].phase = refs[h].phase
        /\ refs[h].phase # "deleting" => refs'[h] = refs[h]
    BY <1>6, GcInvalidateFields
  <2> QED
    BY <2>1
<1>7. CASE GcSetDeleted
  <2>1. /\ log' = log
        /\ h # gc.h => refs'[h] = refs[h]
        /\ refs' = [refs EXCEPT ![gc.h].phase =
                      IF @ = "deleting" THEN "deleted" ELSE @]
        /\ gc.h \in Histories
    BY <1>7, GcSetDeletedFields DEF GcSetDeleted, MTypeInv, GcState
  <2>2. refs \in [Histories -> RefsDoc]
    BY <1>0 DEF TypeInv, TypeOK
  <2>3. CASE h = gc.h
    <3>1. /\ refs'[h].serial = refs[h].serial /\ refs'[h].head = refs[h].head
          /\ refs'[h].phase = IF refs[h].phase = "deleting" THEN "deleted"
                              ELSE refs[h].phase
      BY <2>1, <2>2, <2>3 DEF RefsDoc
    <3> QED
      BY <2>1, <3>1
  <2> QED
    BY <2>1, <2>3
<1>8. CASE GcDeletedRefs
  <2>1. /\ Gone(h) => refs'[h] = NoRefs
        /\ ~Gone(h) => refs'[h] = refs[h] /\ log'[h] = log[h]
    BY <1>8, GcDeletedRefsFields
  <2>2. ~Gone(h)
    BY <2>1 DEF NoRefs
  <2> QED
    BY <2>1, <2>2
<1> QED
  BY <1>0, <1>1, <1>2, <1>3, <1>4, <1>5, <1>6, <1>7, <1>8, MStepKinds, Zenon

\* A serial that is specified is the one of the head, and the head has an
\* entry.
LEMMA HeadEntryStep ==
    ASSUME MTypeInv, MTypeInv', TimeInv, LogInv, EpochInv, EntryInv,
           ReadInv, [MNext]_allVars, NEW h \in Histories, IsActive(h)'
    PROVE  HeadEntry(h)'
<1>0. TypeInv /\ refs'[h].phase = "active"
  BY DEF MTypeInv, IsActive
<1>1. CASE refs'[h].serial = HeadSerialUnspecified
  BY <1>1 DEF HeadEntry
<1>2. CASE /\ refs[h].phase = "active" /\ log'[h] = log[h]
           /\ refs'[h].serial = refs[h].serial /\ refs'[h].head = refs[h].head
           /\ refs[h].serial # HeadSerialUnspecified
  <2>1. HeadEntry(h)
    BY <1>2 DEF EntryInv, IsActive
  <2>2. PICK e : e = refs[h].head /\ e \in LogEvents(h)
    BY <1>0, <1>2, HeadInLog
  <2>3. refs[h].tail <= e
    <3>1. refs[h].tail \in LogEvents(h) \cup {EventEpoch} /\ LogEvents(h) \subseteq Nat
      BY <1>0, TailInLog, EventsTyped
    <3>2. \A x \in LogEvents(h) : x <= e
      BY <1>0, <1>2, <2>2, HistoryChain
    <3> QED
      BY <2>2, <3>1, <3>2 DEF EventEpoch
  <2>4. Kept(h)
    <3>1. dtime[h] = 0 /\ DeletingDuration \in Nat
      BY <1>2, MaintenanceAssumption DEF TimeInv, ClockInv
    <3> QED
      BY <1>2, <3>1 DEF Kept, KeptFor
  <2>5. journal'[h][e] # 0
    BY <1>2, <2>1, <2>2, <2>3, <2>4, EntriesStay DEF HeadEntry
  <2> QED
    BY <1>2, <2>1, <2>2, <2>5 DEF HeadEntry
<1>3. ASSUME refs'[h].serial # HeadSerialUnspecified,
             NEW c \in Clients, SetSerial(c), h = cl[c].h
      PROVE  HeadEntry(h)'
  <2>1. /\ cl[c].pc = "insert" /\ cl[c].n = 0
        /\ UNCHANGED <<journal, log>>
        /\ refs'[h].head = refs[h].head /\ refs'[h].phase = refs[h].phase
        /\ \/ refs'[h].serial = refs[h].serial
           \/ /\ IsActive(h) /\ refs[h].head = cl[c].snap.head
              /\ refs'[h].serial = cl[c].serial
    BY <1>0, <1>3, SetSerialEffect
  <2>2. CASE refs'[h].serial = refs[h].serial
    <3>1. HeadEntry(h)
      BY <1>0, <2>1 DEF EntryInv, IsActive
    <3> QED
      BY <1>3, <2>1, <2>2, <3>1 DEF HeadEntry
  <2>3. CASE /\ refs[h].head = cl[c].snap.head
             /\ refs'[h].serial = cl[c].serial
    <3>1. PICK m \in 1..Len(log[h]) : ReadAt(cl[c], m)
      BY <1>3, <2>1 DEF ReadInv, InFind
    <3>2. cl[c].serial \in Nat /\ m \in Nat
      BY <1>0, ClientTyped, LogOrder
    <3>3. /\ log[h][m] = refs[h].head /\ cl[c].serial + 0 = m
          /\ cl[c].serial # 0 => journal[h][log[h][cl[c].serial]] # 0
      BY <1>3, <2>1, <2>3, <3>1 DEF ReadAt
    <3>4. cl[c].serial = m /\ m # 0
      BY <3>2, <3>3
    <3>5. Len(log[h]) \in 1..Len(log[h]) /\ refs[h].head = log[h][Len(log[h])]
      BY <1>0, <2>1, LogOrder
    <3>6. m = Len(log[h])
      <4>1. log[h][m] = log[h][Len(log[h])]
        BY <3>3, <3>5
      <4>2. m \in 1..Len(log[h])
        BY <3>1
      <4> QED
        BY <3>5, <4>1, <4>2, LogOrder
    <3> QED
      BY <2>1, <2>3, <3>3, <3>4, <3>6 DEF HeadEntry
  <2> QED
    BY <2>1, <2>2, <2>3
<1> QED
  BY <1>0, <1>1, <1>2, <1>3, SerialKinds

\* The collector still has the serial that it has read, or reads one.
LEMMA SerialIsRead ==
    ASSUME MTypeInv, [MNext]_allVars, gc'.pc = "removeTail", gc' # gc
    PROVE  UNCHANGED vars /\ \E h \in Histories : GcReadTail(h)
<1>0. gc \in GcState /\ GcNext
  BY CollectorAlone DEF MTypeInv
<1>1. ASSUME GcBegin \/ GcPaint \/ GcEventsDone \/ GcEnd \/ GcStop PROVE FALSE
  <2>1. ASSUME GcBegin PROVE FALSE
    <3>1. PICK R : gc' = [GcIdle EXCEPT !.pc = "scan", !.graph = stored, !.gray = R]
      BY <2>1 DEF GcBegin, GcTo
    <3> QED
      BY <3>1 DEF GcIdle
  <2>2. ASSUME GcPaint PROVE FALSE
    <3>1. PICK R : gc' = [GcIdle EXCEPT !.pc = "sweep", !.graph = R]
      BY <2>2 DEF GcPaint, GcTo
    <3> QED
      BY <3>1 DEF GcIdle
  <2> QED
    <3>1. GcEventsDone => gc' = [GcIdle EXCEPT !.pc = "tails", !.todo = Histories]
      BY DEF GcEventsDone, GcTo
    <3>2. [GcIdle EXCEPT !.pc = "tails", !.todo = Histories].pc = "tails"
      BY IdleStates DEF GcState
    <3>3. GcEnd \/ GcStop => gc' = GcIdle
      BY DEF GcEnd, GcStop, GcTo
    <3> QED
      BY <1>1, <2>1, <2>2, <3>1, <3>2, <3>3, IdlePc
<1>2. CASE GcScanned
  BY <1>0, <1>2 DEF GcScanned, GcTo, GcState
<1>3. CASE GcRemoveTail \/ GcRemoveJournal \/ GcSetDeleted
  BY <1>0, <1>3 DEF GcRemoveTail, GcRemoveJournal, GcSetDeleted, GcTo, GcState
<1>4. CASE GcDeletedRefs
  BY <1>4, GcDeletedRefsFields
<1>5. ASSUME NEW h \in Histories, GcMark(h) PROVE FALSE
  <2>1. gc.pc = "mark"
    BY <1>5 DEF GcMark
  <2>2. PICK T, R, B : /\ T = gc.todo \ {h}
                       /\ R = gc.gray \cup ({refs[h].head} \ {EventEpoch})
                       /\ B = gc.tails \cup ({refs[h].tail} \ {EventEpoch})
    OBVIOUS
  <2>3. gc' = [gc EXCEPT !.todo = T, !.gray = R, !.tails = B] \/ gc' = GcIdle
    BY <1>5, <2>2 DEF GcMark, GcTo
  <2>4. gc' = [gc EXCEPT !.todo = T, !.gray = R, !.tails = B] => gc'.pc = gc.pc
    BY <1>0 DEF GcState
  <2> QED
    BY <2>1, <2>3, <2>4, IdlePc
<1>6. ASSUME NEW h \in Histories, GcInvalidate(h) PROVE FALSE
  BY <1>6, GcInvalidateFields
<1>7. ASSUME NEW e \in EvId, GcRemoveEvent(e) PROVE FALSE
  BY <1>7, GcRemoveEventFields
<1>8. ASSUME NEW h \in Histories, GcReadTail(h) PROVE UNCHANGED vars
  BY <1>8 DEF GcReadTail, GcFrame
<1> QED
  BY <1>0, <1>1, <1>2, <1>3, <1>4, <1>5, <1>6, <1>7, <1>8 DEF GcNext

\* The serial that the collector removes entries before is not past the tail.
LEMMA GcSerialStep ==
    ASSUME MTypeInv, MTypeInv', TimeInv, LogInv, LogInv', EpochInv, EntryInv,
           [MNext]_allVars, gc'.pc = "removeTail"
    PROVE  \E i \in 1..Len(log'[gc'.h]) :
              gc'.serial = i /\ log'[gc'.h][i] <= refs'[gc'.h].tail
<1>0. gc \in GcState /\ gc.h \in Histories
  BY DEF MTypeInv, GcState
<1>1. CASE gc' = gc
  <2>1. PICK h \in Histories : h = gc.h
    BY <1>0
  <2>2. PICK i \in 1..Len(log[h]) : gc.serial = i /\ log[h][i] <= refs[h].tail
    BY <1>1, <2>1 DEF EntryInv, GcSerial
  <2>3. ~GcDeletedRefs
    <3>1. GcDeletedRefs => gc'.pc = "deleting"
      BY GcDeletedRefsFields
    <3> QED
      BY <3>1
  <2>4. LogGrows(h) /\ refs[h].tail <= refs'[h].tail
    BY <2>3, LogGrowsStep, TailsAdvance
  <2>5. /\ Len(log[h]) \in Nat /\ Len(log'[h]) \in Nat /\ log[h][i] \in Nat
        /\ refs[h].tail \in Nat
    BY LogOrder, NextOrder, EpochsTyped
  <2>6. refs'[h].tail \in Nat
    <3>1. refs'[h] \in RefsDoc
      BY DEF MTypeInv, TypeInv, TypeOK
    <3> QED
      BY <3>1, JournalAssumption DEF RefsDoc, Vid
  <2>7. i \in 1..Len(log'[h]) /\ log'[h][i] = log[h][i]
    BY <2>4, <2>5 DEF LogGrows
  <2>8. log'[h][i] <= refs'[h].tail
    BY <2>2, <2>4, <2>5, <2>6, <2>7
  <2> QED
    BY <1>1, <2>1, <2>2, <2>7, <2>8
<1>2. ASSUME UNCHANGED vars, NEW h \in Histories, GcReadTail(h)
      PROVE  \E i \in 1..Len(log'[gc'.h]) :
                gc'.serial = i /\ log'[gc'.h][i] <= refs'[gc'.h].tail
  <2>1. PICK t : t = refs[h].tail
    OBVIOUS
  <2>2. /\ t # EventEpoch /\ journal[h][t] # 0
        /\ gc' = [gc EXCEPT !.pc = "removeTail", !.h = h,
                            !.todo = @ \ {h}, !.serial = journal[h][t]]
    <3>1. gc.pc = "tails" /\ gc' # [gc EXCEPT !.todo = @ \ {h}]
      <4>1. gc' = [gc EXCEPT !.todo = @ \ {h}] => gc'.pc = gc.pc
        BY <1>0 DEF GcState
      <4> QED
        BY <1>2, <4>1 DEF GcReadTail
    <3> QED
      BY <1>2, <2>1, <3>1 DEF GcReadTail, GcTo
  <2>3. gc'.h = h /\ gc'.serial = journal[h][t]
    BY <1>0, <2>2 DEF GcState
  <2>4. t \in LogEvents(h) /\ t \in Nat
    BY <2>1, <2>2, TailInLog
  <2>5. PICK i \in 1..Len(log[h]) : t = log[h][i]
    BY <2>4 DEF LogEvents
  <2>6. journal[h][log[h][i]] \in {0, i}
    BY DEF EntryInv, Position
  <2>7. UNCHANGED <<log, refs>>
    BY <1>2 DEF vars
  <2>8. gc'.serial = i
    BY <2>2, <2>3, <2>5, <2>6
  <2>9. log'[h][i] = t /\ refs'[h].tail = t
    BY <2>1, <2>5, <2>7, Zenon
  <2>10. t <= t
    BY <2>4
  <2> QED
    BY <2>3, <2>7, <2>8, <2>9, <2>10
<1> QED
  BY <1>1, <1>2, SerialIsRead

\* What the trimmer has found, and may choose, keeps its entry.
LEMMA FoundStays ==
    ASSUME MTypeInv, TimeInv, LogInv, EpochInv, EntryInv, ReadInv,
           [MNext]_allVars, tr.pc \in {"find", "setEpoch"},
           NEW e \in LogEvents(tr.h), refs[tr.h].epoch < e,
           journal[tr.h][e] # 0
    PROVE  journal'[tr.h][e] # 0
<1>1. PICK h \in Histories : h = tr.h
  BY DEF MTypeInv, TrState
<1>2. Kept(h)
  BY <1>1, KeptCalls
<1>3. refs[h].tail <= refs[h].epoch /\ refs[h].tail \in Nat /\ refs[h].epoch \in Nat
  BY EpochIsLast, EpochsTyped
<1>4. e \in Nat
  BY <1>1, EventsTyped DEF MTypeInv
<1>5. refs[h].tail <= e
  BY <1>1, <1>3, <1>4
<1> QED
  BY <1>1, <1>2, <1>5, EntriesStay

\* The events that the trimmer's call has returned are in the journal.
LEMMA TrimEntriesStep ==
    ASSUME MTypeInv, MTypeInv', TimeInv, LogInv, EpochInv, EntryInv, ReadInv,
           [MNext]_allVars
    PROVE  TrimEntries'
<1>0. /\ TypeInv /\ tr \in TrState /\ tr.h \in Histories /\ tr.c \in Clients
      /\ TrimClockInv /\ TrimFindInv /\ TrimEpochInv /\ TrimEntries
  BY DEF MTypeInv, TrState, TimeInv, EpochInv, EntryInv
<1>1. ASSUME tr'.pc \in {"idle", "tails", "setTail", "epochs"}
      PROVE  TrimEntries'
  BY <1>1 DEF TrimEntries
<1>2. ASSUME tr.pc = "find", NEW i \in 1..Len(cl[tr.c].out)
      PROVE  journal'[tr.h][cl[tr.c].out[i]] # 0
  <2>1. PICK e : e = cl[tr.c].out[i]
    OBVIOUS
  <2>2. e \in LogEvents(tr.h) /\ refs[tr.h].epoch < e
    BY <1>0, <1>2, <2>1 DEF TrimFindInv
  <2>3. journal[tr.h][e] # 0
    BY <1>0, <1>2, <2>1 DEF TrimEntries
  <2> QED
    BY <1>2, <2>1, <2>2, <2>3, FoundStays
<1>3. ASSUME tr.pc = "setEpoch" PROVE journal'[tr.h][tr.new] # 0
  <2>1. PICK e : e = tr.new
    OBVIOUS
  <2>2. e \in LogEvents(tr.h) /\ refs[tr.h].epoch < e /\ journal[tr.h][e] # 0
    BY <1>0, <1>3, <2>1 DEF TrimEpochInv, TrimEntries
  <2> QED
    BY <1>3, <2>1, <2>2, FoundStays
<1>4. CASE tr' = tr /\ (tr.pc = "find" => cl'[tr.c].out = cl[tr.c].out)
  <2>1. /\ tr'.pc = tr.pc /\ tr'.h = tr.h /\ tr'.c = tr.c /\ tr'.new = tr.new
        /\ tr.pc = "find" => cl'[tr.c].out = cl[tr.c].out
    BY <1>4
  <2> QED
    BY <1>2, <1>3, <2>1 DEF TrimEntries
<1>5. ASSUME NEW c \in Clients, ClientAct(c), tr' = tr, tr.pc = "find",
             tr.c = c, CallStep(c)
      PROVE  TrimEntries'
  <2>1. cl[c].pc \in InFind \cup {"done"} /\ cl[c].h = tr.h
    BY <1>0, <1>5 DEF TrimClockInv
  <2>2. FindMoves(c) \/ FindEnds(c)
    BY <1>0, <1>5, <2>1, CallInFind
  <2>3. CASE cl'[c].out = cl[c].out
    BY <1>4, <1>5, <2>3
  <2>4. ASSUME cl[c].pc = "iter", NEW e \in EvId, journal[cl[c].h][e] # 0,
               cl'[c].out = Append(cl[c].out, e)
        PROVE  TrimEntries'
    <3>1. PICK n \in Nat : n = Len(cl[c].out) /\ cl[c].out \in Seq(EvId)
      BY <1>0, ClientTyped
    <3>2. /\ Len(cl'[c].out) = n + 1
          /\ \A i \in 1..n : cl'[c].out[i] = cl[c].out[i]
          /\ cl'[c].out[n + 1] = e
      BY <2>4, <3>1, AppendProperties
    <3>3. journal'[tr.h][e] # 0
      <4>1. journal'[tr.h][e] = journal[tr.h][e]
        BY <1>0, <1>5, <2>4, ClientPhases DEF ClientAct
      <4> QED
        BY <2>1, <2>4, <4>1
    <3>4. ASSUME NEW i \in 1..Len(cl'[c].out)
          PROVE  journal'[tr.h][cl'[c].out[i]] # 0
      <4>1. CASE i = n + 1
        BY <3>2, <3>3, <4>1
      <4>2. CASE i \in 1..n
        BY <1>2, <1>5, <3>1, <3>2, <4>2
      <4> QED
        BY <3>1, <3>2, <4>1, <4>2
    <3>5. tr'.pc = "find" /\ tr'.h = tr.h /\ tr'.c = c
      BY <1>5
    <3> QED
      BY <3>4, <3>5 DEF TrimEntries
  <2>5. \/ cl'[c].out = cl[c].out
        \/ /\ cl[c].pc = "iter"
           /\ \E e \in EvId : /\ journal[cl[c].h][e] # 0
                             /\ cl'[c].out = Append(cl[c].out, e)
    BY <2>2 DEF FindMoves, FindEnds
  <2> QED
    BY <2>3, <2>4, <2>5
<1>6. ASSUME NEW c \in Clients, NEW h \in Histories, FindBegin(c, h, EventEpoch),
             tr' = [tr EXCEPT !.pc = "find", !.h = h, !.todo = @ \ {h},
                              !.old = refs[h].epoch, !.c = c]
      PROVE  TrimEntries'
  <2>1. tr'.pc = "find" /\ tr'.c = c
    BY <1>0, <1>6 DEF TrState
  <2>2. cl'[c].out = << >>
    BY <1>0, <1>6, FindBeginEffect
  <2>3. Len(cl'[c].out) = 0
    BY <2>2
  <2> QED
    BY <2>1, <2>3 DEF TrimEntries
<1>7. ASSUME tr.pc = "find", NEW e \in Range(cl[tr.c].out),
             tr' = [tr EXCEPT !.pc = "setEpoch", !.new = e]
      PROVE  TrimEntries'
  <2>1. cl[tr.c].out \in Seq(EvId)
    BY <1>0, ClientTyped
  <2>2. PICK i \in 1..Len(cl[tr.c].out) : e = cl[tr.c].out[i]
    <3>1. PICK i \in DOMAIN cl[tr.c].out : e = cl[tr.c].out[i]
      BY <1>7 DEF Range
    <3>2. DOMAIN cl[tr.c].out = 1..Len(cl[tr.c].out)
      BY <2>1, LenProperties
    <3> QED
      BY <3>1, <3>2
  <2>3. e \in Vid
    <3>1. e \in EvId
      BY <2>1, <2>2, ElementOfSeq
    <3> QED
      BY <3>1, JournalAssumption DEF EvId, Vid
  <2>4. tr'.pc = "setEpoch" /\ tr'.h = tr.h /\ tr'.new = e
    BY <1>0, <1>7, <2>3 DEF TrState
  <2>5. journal'[tr.h][e] # 0
    BY <1>2, <1>7, <2>2
  <2> QED
    BY <2>4, <2>5 DEF TrimEntries
<1>8. ASSUME NEW c \in Clients, ClientAct(c), ClientTrim(c) PROVE TrimEntries'
  <2>1. OthersSame(c)
    BY <1>0, <1>8, ClientPhases DEF ClientAct
  <2>2. CASE tr' = tr /\ (tr.pc = "find" => tr.c # c)
    <3>1. tr.pc = "find" => cl'[tr.c] = cl[tr.c]
      BY <1>0, <2>1, <2>2 DEF OthersSame
    <3> QED
      BY <1>4, <2>2, <3>1
  <2>3. CASE tr' = tr /\ tr.pc = "find" /\ tr.c = c
    <3>1. CASE CallStep(c)
      BY <1>5, <1>8, <2>3, <3>1
    <3>2. ASSUME ~CallStep(c) PROVE FALSE
      <4>1. ASSUME NEW e, tr' = [tr EXCEPT !.pc = "setEpoch", !.new = e]
            PROVE  FALSE
        <5>1. tr'.pc = "setEpoch"
          BY <1>0, <4>1 DEF TrState
        <5> QED
          BY <2>3, <5>1
      <4> QED
        BY <1>8, <2>3, <3>2, <4>1 DEF ClientTrim
    <3> QED
      BY <3>1, <3>2
  <2> QED
    BY <1>1, <1>6, <1>7, <1>8, <2>2, <2>3, Zenon DEF ClientTrim
<1>9. CASE EpochQuiet
  BY <1>1, <1>4, <1>8, <1>9, Zenon DEF EpochQuiet
<1>10. ASSUME NEW h \in Histories, DocStep(h) PROVE TrimEntries'
  BY <1>1, <1>10 DEF DocStep
<1>11. CASE GcDeletedRefs
  BY <1>4, <1>11, GcDeletedRefsFields
<1> QED
  BY <1>9, <1>10, <1>11, EpochKinds

\* The entries of the journal stay in order.
LEMMA EntryStep ==
    ASSUME MTypeInv, MTypeInv', TimeInv, LogInv, LogInv', EpochInv, EntryInv,
           ReadInv, [MNext]_allVars
    PROVE  EntryInv'
<1>1. \A h \in Histories : Position(h)'
  BY PositionStep
<1>2. \A h \in Histories : Kept(h)' => NoGap(h)' /\ EpochEntries(h)'
  BY NoGapStep, EpochEntriesStep
<1>3. \A h \in Histories : IsActive(h)' => HeadEntry(h)'
  BY HeadEntryStep
<1>4. GcSerial'
  BY GcSerialStep DEF GcSerial
<1>5. TrimEntries'
  BY TrimEntriesStep
<1> QED
  BY <1>1, <1>2, <1>3, <1>4, <1>5 DEF EntryInv

-----------------------------------------------------------------------------
(***************************************************************************)
(* What a find has read.                                                   *)
(***************************************************************************)

\* All that the steps of a find rest on.
ReadsSafely == /\ MTypeInv /\ TimeInv /\ LogInv /\ EpochInv /\ GcInv
               /\ AgeInv /\ EntryInv /\ ReadInv

\* What a find that goes on knows.
LEMMA ReadFacts ==
    ASSUME MTypeInv, TimeInv, LogInv, AgeInv, EntryInv, ReadInv,
           NEW c \in Clients, cl[c].pc \in InFind
    PROVE  \E h \in Histories : \E m \in 1..Len(log[h]) : \E v \in Nat :
              /\ h = cl[c].h /\ v = cl[c].snap.epoch /\ ReadAt(cl[c], m)
              /\ m \in Nat /\ Len(log[h]) \in Nat
              /\ Kept(h) /\ refs[h].tail <= v /\ cl[c].snap.tail <= v
              /\ refs[h].tail \in Nat /\ cl[c].snap.tail \in Nat
              /\ cl[c].n \in Nat /\ cl[c].serial \in Nat /\ cl[c].cur \in Nat
              /\ cl[c].vid \in Nat /\ Len(cl[c].evs) \in Nat
              /\ IsLogged(h, v)
<1>0. TypeInv
  BY DEF MTypeInv
<1>1. /\ cl[c].n \in Nat /\ cl[c].serial \in Nat /\ cl[c].cur \in Vid
      /\ cl[c].vid \in Vid /\ Len(cl[c].evs) \in Nat /\ cl[c].snap \in RefsDoc
  BY <1>0, ClientTyped
<1>2. \A x \in Vid : x \in Nat
  BY JournalAssumption DEF Vid
<1>3. cl[c].snap.epoch \in Nat /\ cl[c].snap.tail \in Nat
  BY <1>1, <1>2 DEF RefsDoc
<1>4. PICK h \in Histories, v \in Nat : h = cl[c].h /\ v = cl[c].snap.epoch
  BY <1>0, <1>3, ClientTyped
<1>5. Kept(h) /\ refs[h].tail <= v
  BY <1>4, KeptCalls, TailBeforeEpoch
<1>6. cl[c].snap.tail <= v /\ IsLogged(h, v)
  BY <1>4 DEF AgeInv, FindAge
<1>7. PICK m \in 1..Len(log[h]) : ReadAt(cl[c], m)
  BY <1>4 DEF ReadInv
<1>8. Len(log[h]) \in Nat /\ m \in Nat /\ refs[h].tail \in Nat
  BY LogOrder, EpochsTyped
<1> QED
  BY <1>1, <1>2, <1>3, <1>4, <1>5, <1>6, <1>7, <1>8

\* What a find has read, in a history that only grows.
LEMMA ReadKept ==
    ASSUME NEW s, NEW h \in Histories, h = s.h, NEW m \in 1..Len(log[h]),
           ReadAt(s, m), LogGrows(h), Len(log[h]) \in Nat, Len(log'[h]) \in Nat,
           s.n \in Nat, s.serial \in Nat, Len(s.evs) \in Nat,
           \A q \in 1..m : /\ s.snap.epoch <= log[h][q]
                           /\ journal[h][log[h][q]] # 0
                           => journal'[h][log[h][q]] # 0
    PROVE  m \in 1..Len(log'[h]) /\ ReadAt(s, m)'
<1>1. /\ m \in Nat /\ m \in 1..Len(log'[h]) /\ m >= 1
      /\ \A i \in 1..m : log'[h][i] = log[h][i]
  BY DEF LogGrows
<1>2. \A i \in 0..m : At(h, i)' = At(h, i)
  BY <1>1 DEF At
<1>3. log'[h][m] = s.snap.head /\ s.snap.epoch <= log'[h][m]
  BY <1>1 DEF ReadAt
<1>4. ASSUME s.vid # EventEpoch
      PROVE  s.vid \in LogEvents(h)' /\ s.vid <= log'[h][m]
  <2>1. s.vid \in LogEvents(h) /\ s.vid <= log[h][m]
    BY <1>4 DEF ReadAt, LogEvents
  <2>2. PICK i \in 1..Len(log[h]) : s.vid = log[h][i]
    BY <2>1 DEF LogEvents
  <2>3. i \in 1..Len(log'[h]) /\ s.vid = log'[h][i]
    BY <2>2 DEF LogGrows
  <2> QED
    BY <1>1, <2>1, <2>3 DEF LogEvents
<1>5. ASSUME s.pc \in {"walkSerial", "walkEvent"}
      PROVE  /\ Len(s.evs) <= m
             /\ \A i \in 1..Len(s.evs) : s.evs[i] = log'[h][m + 1 - i]
             /\ s.cur = At(h, m - Len(s.evs))'
             /\ s.snap.epoch <= s.cur
             /\ s.pc = "walkEvent" => s.snap.epoch < s.cur
  <2>1. /\ Len(s.evs) <= m
        /\ \A i \in 1..Len(s.evs) : s.evs[i] = log[h][m + 1 - i]
        /\ s.cur = At(h, m - Len(s.evs))
        /\ s.snap.epoch <= s.cur
        /\ s.pc = "walkEvent" => s.snap.epoch < s.cur
    BY <1>5 DEF ReadAt, At
  <2>2. m - Len(s.evs) \in 0..m
    BY <1>1, <2>1
  <2>3. \A i \in 1..Len(s.evs) : m + 1 - i \in 1..m
    BY <1>1, <2>1
  <2> QED
    BY <1>1, <1>2, <2>1, <2>2, <2>3
<1>6. ASSUME s.pc = "insert"
      PROVE  /\ \A i \in 1..s.n : s.evs[i] = log'[h][m + 1 - i]
             /\ s.serial + s.n = m
             /\ s.snap.epoch <= At(h, s.serial)'
             /\ s.serial # 0 => journal'[h][log'[h][s.serial]] # 0
  <2>1. /\ \A i \in 1..s.n : s.evs[i] = log[h][m + 1 - i]
        /\ s.serial + s.n = m
        /\ s.snap.epoch <= At(h, s.serial)
        /\ s.serial # 0 => journal[h][log[h][s.serial]] # 0
    BY <1>6 DEF ReadAt, At
  <2>2. s.serial \in 0..m
    BY <1>1, <2>1
  <2>3. \A i \in 1..s.n : m + 1 - i \in 1..m
    BY <1>1, <2>1
  <2>4. ASSUME s.serial # 0 PROVE journal'[h][log'[h][s.serial]] # 0
    <3>1. s.serial \in 1..m /\ At(h, s.serial) = log[h][s.serial]
      BY <2>2, <2>4 DEF At
    <3> QED
      BY <1>1, <2>1, <2>4, <3>1
  <2> QED
    BY <1>1, <1>2, <2>1, <2>2, <2>3, <2>4
<1>7. s.pc \in {"start", "iter"} => s.serial = m /\ journal'[h][log'[h][m]] # 0
  <2>1. s.pc \in {"start", "iter"} => s.serial = m /\ journal[h][log[h][m]] # 0
    BY DEF ReadAt
  <2>2. m \in 1..m /\ s.snap.epoch <= log[h][m]
    BY <1>1, <1>3
  <2> QED
    BY <1>1, <2>1, <2>2
<1>8. ASSUME s.pc = "iter"
      PROVE  s.n \in 0..m /\ s.cur = At(h, s.n)' /\ After(s) <= s.cur
  <2>1. s.n \in 0..m /\ s.cur = At(h, s.n) /\ After(s) <= s.cur
    BY <1>8 DEF ReadAt, At
  <2> QED
    BY <1>2, <2>1
<1>9. LogEvents(s.h)' = LogEvents(h)' /\ \A i : At(s.h, i)' = At(h, i)'
  BY DEF LogEvents, At
<1> QED
  BY <1>1, <1>3, <1>4, <1>5, <1>6, <1>7, <1>8, <1>9 DEF ReadAt

\* A find begins with the document of the history.
LEMMA ReadBegins ==
    ASSUME MTypeInv, LogInv, EpochInv, EntryInv, NEW c \in Clients,
           NEW h \in Histories, NEW vid \in KnownVids(h), FindBegin(c, h, vid),
           NEW t, t = cl'[c], t.pc \in InFind
    PROVE  \E m \in 1..Len(log'[t.h]) : ReadAt(t, m)'
<1>0. TypeInv /\ HistoryInv(h)
  BY DEF MTypeInv, LogInv
<1>1. /\ UNCHANGED storeVars
      /\ t.h = h /\ t.snap = refs[h] /\ t.vid = vid
      /\ t.evs = << >> /\ t.n = 0
      /\ \/ /\ t.pc = "start" /\ refs[h].phase = "active"
            /\ refs[h].serial # HeadSerialUnspecified
            /\ t.serial = refs[h].serial
         \/ /\ t.pc = "walkSerial" /\ refs[h].phase = "active"
            /\ t.cur = refs[h].head
  BY <1>0, FindBeginEffect DEF InFind
<1>2. log' = log /\ journal' = journal
  BY <1>1 DEF storeVars
<1>3. PICK m \in 1..Len(log[h]) : m = Len(log[h]) /\ refs[h].head = log[h][m]
  BY <1>1, LogOrder
<1>4. m \in Nat /\ m # 0 /\ log[h][m] \in Nat
  BY <1>3, LogOrder
<1>5. \A x \in LogEvents(h) : x <= log[h][m]
  BY <1>0, <1>1, <1>3, HistoryChain
<1>6. refs[h].epoch <= log[h][m]
  <2>1. CASE refs[h].epoch = EventEpoch
    BY <1>4, <2>1 DEF EventEpoch
  <2>2. CASE refs[h].epoch # EventEpoch
    <3>1. PICK i \in 1..Len(epochLog[h]) : epochLog[h][i].epoch = refs[h].epoch
      BY <2>2, EpochIsLast
    <3>2. refs[h].epoch \in LogEvents(h)
      BY <3>1 DEF EpochInv, EpochsInv
    <3> QED
      BY <1>5, <3>2
  <2> QED
    BY <2>1, <2>2
<1>7. vid # EventEpoch => vid \in LogEvents(h) /\ vid <= log[h][m]
  BY <1>0, <1>5 DEF KnownVids, HistoryInv
<1>8. t.pc = "start" => t.serial = m /\ journal[h][log[h][m]] # 0
  BY <1>1, <1>3 DEF EntryInv, HeadEntry, IsActive
<1>9. t.pc = "walkSerial" => t.cur = At(h, m)
  BY <1>1, <1>3, <1>4 DEF At
<1>10. LogEvents(h)' = LogEvents(h) /\ \A i : At(h, i)' = At(h, i)
  BY <1>2 DEF LogEvents, At
<1>11. Len(t.evs) = 0 /\ m - 0 = m
  BY <1>1, <1>4
<1>12. t.pc = "walkSerial" => refs[h].epoch <= t.cur
  BY <1>4, <1>6, <1>9 DEF At
<1>13. ReadAt(t, m)'
  <2>1. /\ log'[t.h][m] = t.snap.head
        /\ t.snap.epoch <= log'[t.h][m]
        /\ t.vid # EventEpoch => t.vid \in LogEvents(t.h)' /\ t.vid <= log'[t.h][m]
    BY <1>1, <1>2, <1>3, <1>6, <1>7, <1>10 DEF LogEvents
  <2>2. t.pc = "walkSerial" =>
           /\ Len(t.evs) <= m
           /\ \A i \in 1..Len(t.evs) : t.evs[i] = log'[t.h][m + 1 - i]
           /\ t.cur = At(t.h, m - Len(t.evs))'
           /\ t.snap.epoch <= t.cur
    <3>1. \A i : At(t.h, i)' = At(h, i)
      BY <1>1, <1>2 DEF At
    <3> QED
      BY <1>1, <1>4, <1>9, <1>11, <1>12, <3>1
  <2>3. t.pc = "start" => t.serial = m /\ journal'[t.h][log'[t.h][m]] # 0
    BY <1>1, <1>2, <1>8
  <2> QED
    BY <1>1, <2>1, <2>2, <2>3 DEF ReadAt
<1> QED
  BY <1>1, <1>2, <1>3, <1>13

\* What an epoch that a find has read is: the tail is not past it, so its
\* entry is there.
LEMMA EpochHasEntry ==
    ASSUME EntryInv, NEW h \in Histories, Kept(h), NEW v, v # EventEpoch,
           IsLogged(h, v), refs[h].tail <= v
    PROVE  journal[h][v] # 0
BY DEF EntryInv, EpochEntries, IsLogged

\* The walk looks up the serial of its event.
LEMMA ReadWalkSerial ==
    ASSUME ReadsSafely, NEW c \in Clients, WalkSerial(c),
           NEW t, t = cl'[c], t.pc \in InFind
    PROVE  \E m \in 1..Len(log'[t.h]) : ReadAt(t, m)'
<1> DEFINE s == cl[c]
<1>0. /\ MTypeInv /\ TimeInv /\ LogInv /\ AgeInv /\ EntryInv /\ ReadInv /\ TypeInv
      /\ s.pc = "walkSerial"
  BY DEF ReadsSafely, MTypeInv, WalkSerial
<1>1. PICK h \in Histories, v \in Nat, m \in Nat :
         /\ m \in 1..Len(log[h])
         /\ h = s.h /\ v = s.snap.epoch /\ ReadAt(s, m)
         /\ Len(log[h]) \in Nat
         /\ Kept(h) /\ refs[h].tail <= v
         /\ s.cur \in Nat /\ Len(s.evs) \in Nat
         /\ IsLogged(h, v)
  BY <1>0, ReadFacts DEF InFind
<1>2. /\ UNCHANGED storeVars
      /\ KeepsCall(s, t) /\ t.evs = s.evs
      /\ \/ /\ t.pc = "insert" /\ t.n = Len(s.evs)
            /\ \/ s.cur = EventEpoch /\ t.serial = 0
               \/ /\ s.cur # EventEpoch
                  /\ journal[s.h][s.cur] # 0
                  /\ t.serial = journal[s.h][s.cur]
         \/ t.pc = "walkEvent" /\ t.cur = s.cur /\ s.cur # EventEpoch
  BY <1>0, WalkSerialEffect
<1>3. log' = log /\ journal' = journal
  BY <1>2 DEF storeVars
<1>4. PICK k \in 0..m : k = m - Len(s.evs) /\ k + Len(s.evs) = m
  <2>1. Len(s.evs) <= m
    BY <1>0, <1>1 DEF ReadAt
  <2>2. m - Len(s.evs) \in 0..m /\ m - Len(s.evs) + Len(s.evs) = m
    BY <1>1, <2>1
  <2> QED
    BY <2>2
<1>5. /\ \A i \in 1..Len(s.evs) : s.evs[i] = log[h][m + 1 - i]
      /\ s.cur = At(h, k) /\ v <= s.cur
  BY <1>0, <1>1, <1>4 DEF ReadAt, At
<1>6. k # 0 => k \in 1..Len(log[h]) /\ s.cur = log[h][k] /\ s.cur # EventEpoch
  <2>1. k # 0 => k \in 1..Len(log[h])
    BY <1>1
  <2>2. \A i \in 1..Len(log[h]) : log[h][i] # EventEpoch
    BY <1>0, LogOrder
  <2> QED
    BY <1>5, <2>1, <2>2 DEF At
<1>7. k = 0 => s.cur = EventEpoch
  BY <1>5 DEF At
<1>8. k # 0 => journal[h][s.cur] \in {0, k}
  BY <1>0, <1>6 DEF EntryInv, Position
<1>9. ASSUME t.pc = "walkEvent" PROVE v < s.cur
  <2>1. journal[h][s.cur] = 0
    <3>1. \A x : Goto(c, x) => t = x
      BY <1>0, OthersKept
    <3>2. \A x : [s EXCEPT !.pc = "insert", !.serial = x, !.n = Len(s.evs)].pc = "insert"
      BY <1>0, ClientTyped DEF ClientState
    <3>3. s.cur # EventEpoch
      BY <1>2, <1>9
    <3> QED
      BY <1>1, <1>9, <3>1, <3>2, <3>3 DEF WalkSerial
  <2>2. v # s.cur
    BY <1>0, <1>1, <1>2, <1>9, <2>1, EpochHasEntry
  <2> QED
    BY <1>1, <1>5, <2>2
<1>10. t.pc = "insert" => t.serial = k /\ (k # 0 => journal[h][log[h][k]] # 0)
  BY <1>1, <1>2, <1>6, <1>7, <1>8
<1>11. t.h = h /\ t.snap = s.snap /\ t.vid = s.vid
  BY <1>1, <1>2 DEF KeepsCall
<1>12. ReadAt(t, m)'
  <2>0. \A i : At(t.h, i)' = At(h, i)
    BY <1>3, <1>11 DEF At
  <2>1. /\ log'[t.h][m] = t.snap.head
        /\ t.snap.epoch <= log'[t.h][m]
        /\ t.vid # EventEpoch => t.vid \in LogEvents(t.h)' /\ t.vid <= log'[t.h][m]
    BY <1>1, <1>3, <1>11 DEF LogEvents, ReadAt
  <2>2. t.pc = "walkEvent" =>
           /\ Len(t.evs) <= m
           /\ \A i \in 1..Len(t.evs) : t.evs[i] = log'[t.h][m + 1 - i]
           /\ t.cur = At(t.h, m - Len(t.evs))'
           /\ t.snap.epoch <= t.cur /\ t.snap.epoch < t.cur
    <3>1. t.pc = "walkEvent" => t.evs = s.evs /\ t.cur = s.cur /\ v < s.cur
      BY <1>2, <1>9
    <3>2. Len(s.evs) <= m /\ m - Len(s.evs) = k
      BY <1>1, <1>4
    <3> QED
      BY <1>1, <1>3, <1>5, <1>11, <2>0, <3>1, <3>2
  <2>3. t.pc = "insert" =>
           /\ \A i \in 1..t.n : t.evs[i] = log'[t.h][m + 1 - i]
           /\ t.serial + t.n = m
           /\ t.snap.epoch <= At(t.h, t.serial)'
           /\ t.serial # 0 => journal'[t.h][log'[t.h][t.serial]] # 0
    BY <1>1, <1>2, <1>3, <1>4, <1>5, <1>10, <1>11, <2>0
  <2>4. t.pc \in {"walkEvent", "insert"}
    BY <1>2
  <2> QED
    BY <2>1, <2>2, <2>3, <2>4 DEF ReadAt
<1> QED
  BY <1>1, <1>3, <1>11, <1>12

\* The walk reads an event that is stored, and does not stop at the tail.
LEMMA WalkGoesOn ==
    ASSUME ReadsSafely, NEW c \in Clients, WalkEvent(c)
    PROVE  /\ cl[c].cur \in stored
           /\ UNCHANGED storeVars /\ KeepsCall(cl[c], cl'[c])
           /\ cl'[c].evs = Append(cl[c].evs, cl[c].cur)
           /\ cl'[c].pc = "walkSerial" /\ cl'[c].cur = parent[cl[c].cur]
<1> DEFINE s == cl[c]
<1>0. /\ MTypeInv /\ TimeInv /\ LogInv /\ AgeInv /\ EntryInv /\ ReadInv /\ TypeInv
      /\ EpochInv /\ GcInv /\ s.pc = "walkEvent"
  BY DEF ReadsSafely, MTypeInv, WalkEvent
<1>1. PICK h \in Histories, v \in Nat, m \in Nat :
         /\ h = s.h /\ v = s.snap.epoch /\ ReadAt(s, m)
         /\ refs[h].tail <= v /\ s.snap.tail <= v
         /\ refs[h].tail \in Nat /\ s.snap.tail \in Nat /\ s.cur \in Nat
  BY <1>0, ReadFacts DEF InFind
<1>2. v < s.cur
  BY <1>0, <1>1 DEF ReadAt
<1>3. s.cur \in LogEvents(h)
  <2>1. s.cur # EventEpoch
    BY <1>1, <1>2 DEF EventEpoch
  <2>2. s.cur \in LogEvents(s.h) \cup {EventEpoch}
    BY <1>0 DEF EpochInv, FindLogInv
  <2> QED
    BY <1>1, <2>1, <2>2 DEF LogEvents
<1>4. s.cur \in stored
  <2>1. s.cur >= refs[h].tail
    BY <1>1, <1>2
  <2>2. Live(h) \subseteq stored
    BY <1>0 DEF GcInv, StoredInv
  <2> QED
    BY <1>3, <2>1, <2>2 DEF Live
<1>5. ~(s.snap.tail # EventEpoch /\ s.cur = s.snap.tail)
  BY <1>1, <1>2
<1>6. Goto(c, [s EXCEPT !.pc = "walkSerial", !.evs = Append(s.evs, s.cur),
                        !.cur = parent[s.cur]])
  BY <1>0, <1>4, <1>5 DEF WalkEvent
<1>7. PICK A, x : A = Append(s.evs, s.cur) /\ x = parent[s.cur]
  OBVIOUS
<1>8. cl'[c] = [s EXCEPT !.pc = "walkSerial", !.evs = A, !.cur = x]
  BY <1>0, <1>6, <1>7, OthersKept
<1>9. /\ cl'[c].pc = "walkSerial" /\ cl'[c].evs = A /\ cl'[c].cur = x
      /\ KeepsCall(s, cl'[c])
  BY <1>0, <1>8, ClientTyped DEF ClientState, KeepsCall
<1> QED
  BY <1>4, <1>7, <1>9 DEF WalkEvent

\* The walk reads the parent of an event.
LEMMA ReadWalkEvent ==
    ASSUME ReadsSafely, NEW c \in Clients, WalkEvent(c),
           NEW t, t = cl'[c]
    PROVE  \E m \in 1..Len(log'[t.h]) : ReadAt(t, m)'
<1> DEFINE s == cl[c]
<1>0. /\ MTypeInv /\ TimeInv /\ LogInv /\ AgeInv /\ EntryInv /\ ReadInv /\ TypeInv
      /\ EpochInv /\ s.pc = "walkEvent"
  BY DEF ReadsSafely, MTypeInv, WalkEvent
<1>1. PICK h \in Histories, v \in Nat, m \in Nat :
         /\ m \in 1..Len(log[h])
         /\ h = s.h /\ v = s.snap.epoch /\ ReadAt(s, m)
         /\ Len(log[h]) \in Nat
         /\ s.cur \in Nat /\ Len(s.evs) \in Nat
         /\ IsLogged(h, v)
  BY <1>0, ReadFacts DEF InFind
<1>2. /\ UNCHANGED storeVars /\ KeepsCall(s, t)
      /\ t.evs = Append(s.evs, s.cur)
      /\ t.pc = "walkSerial" /\ t.cur = parent[s.cur]
  BY WalkGoesOn
<1>3. log' = log /\ journal' = journal
  BY <1>2 DEF storeVars
<1>4. PICK n \in Nat, k \in 0..m : n = Len(s.evs) /\ k = m - n /\ k + n = m
  <2>1. Len(s.evs) <= m
    BY <1>0, <1>1 DEF ReadAt
  <2>2. m - Len(s.evs) \in 0..m /\ m - Len(s.evs) + Len(s.evs) = m
    BY <1>1, <2>1
  <2> QED
    BY <1>1, <2>2
<1>5. /\ \A i \in 1..n : s.evs[i] = log[h][m + 1 - i]
      /\ s.cur = At(h, k) /\ v < s.cur
  BY <1>0, <1>1, <1>4 DEF ReadAt, At
<1>6. k # 0
  BY <1>1, <1>5 DEF At, EventEpoch
<1>7. k \in 1..Len(log[h]) /\ k - 1 \in 0..m /\ s.cur = log[h][k]
  <2>1. k \in 1..Len(log[h]) /\ k - 1 \in 0..m
    BY <1>1, <1>6
  <2> QED
    BY <1>5, <1>6, <2>1 DEF At
<1>8. t.cur = At(h, k - 1)
  BY <1>0, <1>2, <1>7, LogOrder
<1>9. v <= At(h, k - 1)
  <2>1. CASE v = EventEpoch
    <3>1. CASE k - 1 = 0
      BY <2>1, <3>1 DEF At, EventEpoch
    <3>2. CASE k - 1 # 0
      <4>1. k - 1 \in 1..Len(log[h])
        BY <1>1, <1>7, <3>2
      <4>2. log[h][k - 1] \in Nat
        BY <1>0, <4>1, LogOrder
      <4> QED
        BY <2>1, <3>2, <4>2 DEF At, EventEpoch
    <3> QED
      BY <3>1, <3>2
  <2>2. CASE v # EventEpoch
    <3>1. PICK i \in 1..Len(epochLog[h]) : epochLog[h][i].epoch = v
      BY <1>1, <2>2 DEF IsLogged
    <3>2. v \in LogEvents(h)
      BY <1>0, <3>1 DEF EpochInv, EpochsInv
    <3>3. PICK q \in 1..Len(log[h]) : v = log[h][q]
      BY <3>2 DEF LogEvents
    <3>4. log[h][q] <= log[h][k] /\ log[h][q] # log[h][k]
      BY <1>1, <1>5, <1>7, <3>3
    <3>5. q <= k /\ q # k
      BY <1>0, <1>7, <3>4, LogOrder
    <3>6. k - 1 \in 1..Len(log[h]) /\ q <= k - 1
      BY <1>1, <1>7, <3>5
    <3>7. q < k - 1 \/ q = k - 1
      BY <1>1, <3>6
    <3>8. log[h][q] <= log[h][k - 1]
      <4>1. /\ q < k - 1 => log[h][q] < log[h][k - 1]
            /\ log[h][q] \in Nat /\ log[h][k - 1] \in Nat
        BY <1>0, <3>6, LogOrder
      <4> QED
        BY <3>7, <4>1
    <3>9. k - 1 # 0
      BY <1>1, <3>6
    <3> QED
      BY <3>3, <3>8, <3>9 DEF At
  <2> QED
    BY <2>1, <2>2
<1>10. /\ Len(t.evs) = n + 1
       /\ \A i \in 1..(n + 1) : t.evs[i] = log[h][m + 1 - i]
  <2>1. s.cur \in EvId
    BY <1>0, <1>7, LogOrder
  <2>2. PICK E \in Seq(EvId), x \in EvId : E = s.evs /\ x = s.cur
    BY <1>0, <2>1, ClientTyped
  <2>3. /\ Len(Append(E, x)) = Len(E) + 1 /\ Append(E, x)[Len(E) + 1] = x
        /\ \A i \in 1..Len(E) : Append(E, x)[i] = E[i]
    BY AppendProperties
  <2>4. /\ Len(t.evs) = n + 1 /\ t.evs[n + 1] = s.cur
        /\ \A i \in 1..n : t.evs[i] = s.evs[i]
    BY <1>2, <1>4, <2>2, <2>3
  <2>5. m + 1 - (n + 1) = k
    BY <1>4
  <2>6. \A i \in 1..(n + 1) : i \in 1..n \/ i = n + 1
    OBVIOUS
  <2> QED
    BY <1>5, <1>7, <2>4, <2>5, <2>6
<1>11. t.h = h /\ t.snap = s.snap /\ t.vid = s.vid
  BY <1>1, <1>2 DEF KeepsCall
<1>12. ReadAt(t, m)'
  <2>0. \A i : At(t.h, i)' = At(h, i)
    BY <1>3, <1>11 DEF At
  <2>1. /\ log'[t.h][m] = t.snap.head
        /\ t.snap.epoch <= log'[t.h][m]
        /\ t.vid # EventEpoch => t.vid \in LogEvents(t.h)' /\ t.vid <= log'[t.h][m]
    BY <1>1, <1>3, <1>11 DEF LogEvents, ReadAt
  <2>2. n + 1 <= m /\ m - (n + 1) = k - 1
    BY <1>4, <1>6
  <2>3. /\ Len(t.evs) <= m
        /\ \A i \in 1..Len(t.evs) : t.evs[i] = log'[t.h][m + 1 - i]
        /\ t.cur = At(t.h, m - Len(t.evs))'
        /\ t.snap.epoch <= t.cur
    BY <1>1, <1>3, <1>8, <1>9, <1>10, <1>11, <2>0, <2>2
  <2> QED
    BY <1>2, <2>1, <2>3 DEF ReadAt
<1> QED
  BY <1>1, <1>3, <1>11, <1>12

\* A call inserts the next entry.
LEMMA ReadInsertEntry ==
    ASSUME ReadsSafely, NEW c \in Clients, InsertEntry(c),
           UNCHANGED <<epochLog, gc>>, NEW t, t = cl'[c]
    PROVE  \E m \in 1..Len(log'[t.h]) : ReadAt(t, m)'
<1> DEFINE s == cl[c]
<1>0. /\ MTypeInv /\ TimeInv /\ LogInv /\ AgeInv /\ EntryInv /\ ReadInv /\ TypeInv
      /\ s.pc = "insert" /\ s.n > 0 /\ log' = log
  BY DEF ReadsSafely, MTypeInv, InsertEntry
<1>1. PICK h \in Histories, v \in Nat, m \in Nat :
         /\ m \in 1..Len(log[h])
         /\ h = s.h /\ v = s.snap.epoch /\ ReadAt(s, m)
         /\ Len(log[h]) \in Nat /\ s.n \in Nat /\ s.serial \in Nat
  BY <1>0, ReadFacts DEF InFind
<1>2. /\ KeepsCall(s, t) /\ t.pc = "insert"
      /\ t.n = s.n - 1 /\ t.serial = s.serial + 1 /\ t.evs = s.evs
      /\ \/ journal' = journal /\ journal[s.h][log[s.h][s.serial + 1]] # 0
         \/ AddsEntry(s.h, s.serial)
  BY <1>0, InsertAdds
<1>3. PICK k \in Nat, n \in Nat : k = s.serial /\ n = s.n
  BY <1>1
<1>4. /\ \A i \in 1..n : s.evs[i] = log[h][m + 1 - i]
      /\ k + n = m /\ v <= At(h, k)
  BY <1>0, <1>1, <1>3 DEF ReadAt, At
<1>5. /\ n > 0 /\ k + 1 \in 1..Len(log[h]) /\ k + 1 # 0
      /\ (k + 1) + (n - 1) = m
      /\ \A i \in 1..(n - 1) : i \in 1..n
  <2>1. n > 0 /\ k + n = m /\ m <= Len(log[h])
    BY <1>0, <1>1, <1>3, <1>4
  <2> QED
    BY <1>1, <2>1
<1>6. journal'[h][log[h][k + 1]] # 0
  BY <1>0, <1>1, <1>2, <1>3, AddsEntryFields
<1>7. v <= log[h][k + 1]
  <2>1. log[h][k + 1] \in Nat
    BY <1>0, <1>5, LogOrder
  <2>2. CASE k = 0
    BY <1>1, <1>4, <2>1, <2>2 DEF At, EventEpoch
  <2>3. CASE k # 0
    <3>1. k \in 1..Len(log[h]) /\ k < k + 1
      BY <1>1, <1>5, <2>3
    <3>2. log[h][k] < log[h][k + 1] /\ log[h][k] \in Nat
      BY <1>0, <1>5, <3>1, LogOrder
    <3>3. v <= log[h][k]
      BY <1>4, <2>3 DEF At
    <3> QED
      BY <2>1, <3>2, <3>3
  <2> QED
    BY <2>2, <2>3
<1>8. t.h = h /\ t.snap = s.snap /\ t.vid = s.vid
  BY <1>1, <1>2 DEF KeepsCall
<1>9. ReadAt(t, m)'
  <2>0. \A i : At(t.h, i)' = At(h, i)
    BY <1>0, <1>8 DEF At
  <2>1. /\ log'[t.h][m] = t.snap.head
        /\ t.snap.epoch <= log'[t.h][m]
        /\ t.vid # EventEpoch => t.vid \in LogEvents(t.h)' /\ t.vid <= log'[t.h][m]
    BY <1>0, <1>1, <1>8 DEF LogEvents, ReadAt
  <2>2. t.n = n - 1 /\ t.serial = k + 1 /\ t.evs = s.evs
    BY <1>2, <1>3
  <2>3. v <= At(h, k + 1)
    BY <1>5, <1>7 DEF At
  <2>4. /\ \A i \in 1..t.n : t.evs[i] = log'[t.h][m + 1 - i]
        /\ t.serial + t.n = m
        /\ t.snap.epoch <= At(t.h, t.serial)'
        /\ t.serial # 0 => journal'[t.h][log'[t.h][t.serial]] # 0
    BY <1>0, <1>1, <1>4, <1>5, <1>6, <1>8, <2>0, <2>2, <2>3
  <2> QED
    BY <1>2, <2>1, <2>4 DEF ReadAt
<1> QED
  BY <1>0, <1>1, <1>8, <1>9

\* All entries are there, and the find starts.
LEMMA ReadSetSerial ==
    ASSUME ReadsSafely, NEW c \in Clients, SetSerial(c),
           NEW t, t = cl'[c]
    PROVE  \E m \in 1..Len(log'[t.h]) : ReadAt(t, m)'
<1> DEFINE s == cl[c]
<1>0. /\ MTypeInv /\ TimeInv /\ LogInv /\ AgeInv /\ EntryInv /\ ReadInv /\ TypeInv
      /\ s.pc = "insert" /\ s.n = 0 /\ log' = log /\ journal' = journal
  BY DEF ReadsSafely, MTypeInv, SetSerial
<1>1. PICK h \in Histories, v \in Nat, m \in Nat :
         /\ m \in 1..Len(log[h])
         /\ h = s.h /\ v = s.snap.epoch /\ ReadAt(s, m)
         /\ Len(log[h]) \in Nat /\ s.serial \in Nat
  BY <1>0, ReadFacts DEF InFind
<1>2. KeepsCall(s, t) /\ t.pc = "start" /\ t.serial = s.serial
  BY <1>0, SetSerialEffect
<1>3. /\ s.serial + s.n = m
      /\ s.serial # 0 => journal[h][log[h][s.serial]] # 0
  BY <1>0, <1>1 DEF ReadAt
<1>4. t.serial = m /\ journal[h][log[h][m]] # 0
  <2>1. s.serial = m /\ m # 0
    BY <1>0, <1>1, <1>3
  <2> QED
    BY <1>2, <1>3, <2>1
<1>5. t.h = h /\ t.snap = s.snap /\ t.vid = s.vid
  BY <1>1, <1>2 DEF KeepsCall
<1>6. ReadAt(t, m)'
  <2>1. /\ log'[t.h][m] = t.snap.head
        /\ t.snap.epoch <= log'[t.h][m]
        /\ t.vid # EventEpoch => t.vid \in LogEvents(t.h)' /\ t.vid <= log'[t.h][m]
    BY <1>0, <1>1, <1>5 DEF LogEvents, ReadAt
  <2> QED
    BY <1>0, <1>2, <1>4, <1>5, <2>1 DEF ReadAt
<1> QED
  BY <1>0, <1>1, <1>5, <1>6

\* What a find starts after is an event of the history, or none.
LEMMA AfterInLog ==
    ASSUME MTypeInv, LogInv, EpochInv, NEW s, NEW h \in Histories, h = s.h,
           NEW v \in Nat, v = s.snap.epoch, IsLogged(h, v),
           NEW m \in 1..Len(log[h]), ReadAt(s, m), After(s) # EventEpoch
    PROVE  \E i \in 1..Len(log[h]) : After(s) = log[h][i] /\ i <= m
<1>1. After(s) \in LogEvents(h)
  <2>1. CASE s.vid # EventEpoch
    BY <2>1 DEF After, ReadAt, LogEvents
  <2>2. CASE s.vid = EventEpoch
    <3>1. v # EventEpoch /\ After(s) = v
      BY <2>2 DEF After
    <3>2. PICK i \in 1..Len(epochLog[h]) : epochLog[h][i].epoch = v
      BY <3>1 DEF IsLogged
    <3> QED
      BY <3>1, <3>2 DEF EpochInv, EpochsInv
  <2> QED
    BY <2>1, <2>2
<1>2. After(s) <= log[h][m]
  BY DEF After, ReadAt
<1>3. PICK i \in 1..Len(log[h]) : After(s) = log[h][i]
  BY <1>1 DEF LogEvents
<1>4. i <= m
  BY <1>2, <1>3, LogOrder
<1> QED
  BY <1>3, <1>4

\* The iteration starts after its event.
LEMMA ReadFindStart ==
    ASSUME ReadsSafely, NEW c \in Clients, FindStart(c),
           NEW t, t = cl'[c], t.pc \in InFind
    PROVE  \E m \in 1..Len(log'[t.h]) : ReadAt(t, m)'
<1> DEFINE s == cl[c]
<1>0. /\ MTypeInv /\ TimeInv /\ LogInv /\ AgeInv /\ EntryInv /\ ReadInv /\ TypeInv
      /\ EpochInv /\ s.pc = "start"
  BY DEF ReadsSafely, MTypeInv, FindStart
<1>1. PICK h \in Histories, v \in Nat, m \in Nat :
         /\ m \in 1..Len(log[h])
         /\ h = s.h /\ v = s.snap.epoch /\ ReadAt(s, m)
         /\ Len(log[h]) \in Nat /\ IsLogged(h, v) /\ s.vid \in Nat
  BY <1>0, ReadFacts DEF InFind
<1>2. /\ UNCHANGED storeVars
      /\ KeepsCall(s, t) /\ t.serial = s.serial
      /\ t.pc = "iter" /\ t.cur = After(s)
      /\ \/ After(s) = EventEpoch /\ t.n = 0
         \/ /\ After(s) # EventEpoch /\ journal[s.h][After(s)] # 0
            /\ t.n = journal[s.h][After(s)]
  BY <1>0, FindStartEffect DEF After, InFind
<1>3. log' = log /\ journal' = journal
  BY <1>2 DEF storeVars
<1>4. t.h = h /\ t.snap = s.snap /\ t.vid = s.vid /\ After(t) = After(s)
  BY <1>1, <1>2 DEF KeepsCall, After
<1>5. s.serial = m /\ journal[h][log[h][m]] # 0
  BY <1>0, <1>1 DEF ReadAt
<1>6. t.n \in 0..m /\ t.cur = At(h, t.n)
  <2>1. CASE After(s) = EventEpoch
    BY <1>1, <1>2, <2>1 DEF At
  <2>2. CASE After(s) # EventEpoch
    <3>1. PICK i \in 1..Len(log[h]) : After(s) = log[h][i] /\ i <= m
      BY <1>0, <1>1, <2>2, AfterInLog
    <3>2. t.n = i
      BY <1>0, <1>1, <1>2, <2>2, <3>1 DEF EntryInv, Position
    <3> QED
      BY <1>1, <1>2, <3>1, <3>2 DEF At
  <2> QED
    BY <2>1, <2>2
<1>7. After(t) <= t.cur
  <2>1. After(s) \in Nat
    BY <1>1 DEF After
  <2> QED
    BY <1>2, <1>4, <2>1
<1>8. ReadAt(t, m)'
  <2>0. \A i : At(t.h, i)' = At(h, i)
    BY <1>3, <1>4 DEF At
  <2>1. /\ log'[t.h][m] = t.snap.head
        /\ t.snap.epoch <= log'[t.h][m]
        /\ t.vid # EventEpoch => t.vid \in LogEvents(t.h)' /\ t.vid <= log'[t.h][m]
    BY <1>1, <1>3, <1>4 DEF LogEvents, ReadAt
  <2>2. t.serial = m /\ journal'[t.h][log'[t.h][m]] # 0
    BY <1>2, <1>3, <1>4, <1>5
  <2>3. t.n \in 0..m /\ t.cur = At(t.h, t.n)'
    BY <1>6, <2>0
  <2> QED
    BY <1>2, <1>7, <2>1, <2>2, <2>3 DEF ReadAt
<1> QED
  BY <1>1, <1>3, <1>4, <1>8

\* The iteration goes on with a later event.
LEMMA ReadIterNext ==
    ASSUME ReadsSafely, NEW c \in Clients, IterNext(c),
           NEW t, t = cl'[c], t.pc \in InFind
    PROVE  \E m \in 1..Len(log'[t.h]) : ReadAt(t, m)'
<1> DEFINE s == cl[c]
<1>0. /\ MTypeInv /\ TimeInv /\ LogInv /\ AgeInv /\ EntryInv /\ ReadInv /\ TypeInv
      /\ EpochInv /\ s.pc = "iter"
  BY DEF ReadsSafely, MTypeInv, IterNext
<1>1. PICK h \in Histories, v \in Nat, m \in Nat :
         /\ m \in 1..Len(log[h])
         /\ h = s.h /\ v = s.snap.epoch /\ ReadAt(s, m)
         /\ Len(log[h]) \in Nat /\ s.vid \in Nat /\ s.n \in Nat
  BY <1>0, ReadFacts DEF InFind
<1>2. /\ UNCHANGED storeVars
      /\ \E e \in Remaining(s) :
            /\ KeepsCall(s, t) /\ t.pc = "iter"
            /\ t.serial = s.serial /\ t.n = journal[s.h][e] /\ t.cur = e
  BY <1>0, IterNextEffect DEF InFind
<1>3. PICK e \in Remaining(s) :
         /\ KeepsCall(s, t) /\ t.pc = "iter"
         /\ t.serial = s.serial /\ t.n = journal[s.h][e] /\ t.cur = e
  BY <1>2
<1>4. log' = log /\ journal' = journal
  BY <1>2 DEF storeVars
<1>5. t.h = h /\ t.snap = s.snap /\ t.vid = s.vid /\ After(t) = After(s)
  BY <1>1, <1>3 DEF KeepsCall, After
<1>6. /\ s.serial = m /\ journal[h][log[h][m]] # 0
      /\ s.n \in 0..m /\ s.cur = At(h, s.n) /\ After(s) <= s.cur
  BY <1>0, <1>1 DEF ReadAt, At
<1>7. e \in EvId /\ journal[h][e] > s.n /\ journal[h][e] <= m /\ journal[h][e] \in Nat
  <2>1. e \in EvId /\ journal[h][e] > s.n /\ journal[h][e] <= m
    BY <1>1, <1>6 DEF Remaining
  <2> QED
    BY <1>0, <2>1 DEF TypeInv, TypeOK
<1>8. PICK q \in 1..Len(log[h]) : e = log[h][q] /\ journal[h][e] = q
  <2>1. journal[h][e] # 0
    BY <1>1, <1>7
  <2>2. e \in LogEvents(h)
    BY <1>0, <1>7, <2>1 DEF EpochInv
  <2>3. PICK q \in 1..Len(log[h]) : e = log[h][q]
    BY <2>2 DEF LogEvents
  <2> QED
    BY <1>0, <2>1, <2>3 DEF EntryInv, Position
<1>9. q \in 0..m /\ q # 0 /\ s.n < q /\ t.n = q /\ t.cur = At(h, q)
  <2>1. q \in 0..m /\ q # 0 /\ s.n < q
    BY <1>1, <1>7, <1>8
  <2> QED
    BY <1>1, <1>3, <1>8, <2>1 DEF At
<1>10. After(t) <= t.cur
  <2>0. After(s) \in Nat /\ log[h][q] \in Nat
    BY <1>0, <1>1, LogOrder DEF After
  <2>1. CASE s.n = 0
    BY <1>3, <1>5, <1>6, <1>8, <2>0, <2>1 DEF At, EventEpoch
  <2>2. CASE s.n # 0
    <3>1. s.n \in 1..Len(log[h]) /\ s.cur = log[h][s.n]
      BY <1>1, <1>6, <2>2 DEF At
    <3>2. log[h][s.n] < log[h][q] /\ log[h][s.n] \in Nat
      BY <1>0, <1>9, <3>1, LogOrder
    <3> QED
      BY <1>3, <1>5, <1>6, <1>8, <2>0, <3>1, <3>2
  <2> QED
    BY <2>1, <2>2
<1>11. ReadAt(t, m)'
  <2>0. \A i : At(t.h, i)' = At(h, i)
    BY <1>4, <1>5 DEF At
  <2>1. /\ log'[t.h][m] = t.snap.head
        /\ t.snap.epoch <= log'[t.h][m]
        /\ t.vid # EventEpoch => t.vid \in LogEvents(t.h)' /\ t.vid <= log'[t.h][m]
    BY <1>1, <1>4, <1>5 DEF LogEvents, ReadAt
  <2>2. t.serial = m /\ journal'[t.h][log'[t.h][m]] # 0
    BY <1>3, <1>4, <1>5, <1>6
  <2>3. t.n \in 0..m /\ t.cur = At(t.h, t.n)'
    BY <1>9, <2>0
  <2> QED
    BY <1>3, <1>10, <2>1, <2>2, <2>3 DEF ReadAt
<1> QED
  BY <1>1, <1>4, <1>5, <1>11

\* What finds have read stays true.
LEMMA ReadStep ==
    ASSUME ReadsSafely, MTypeInv', LogInv', [MNext]_allVars
    PROVE  ReadInv'
<1> SUFFICES ASSUME NEW c \in Clients, cl'[c].pc \in InFind
             PROVE  \E m \in 1..Len(log'[cl'[c].h]) : ReadAt(cl[c], m)'
  BY DEF ReadInv
<1>0. /\ MTypeInv /\ TimeInv /\ LogInv /\ EpochInv /\ GcInv /\ AgeInv
      /\ EntryInv /\ ReadInv /\ TypeInv
  BY DEF ReadsSafely, MTypeInv
<1>1. PICK t : t = cl'[c]
  OBVIOUS
<1>2. ASSUME \E m \in 1..Len(log'[t.h]) : ReadAt(t, m)'
      PROVE  \E m \in 1..Len(log'[cl'[c].h]) : ReadAt(cl[c], m)'
  BY <1>1, <1>2 DEF ReadAt, After, LogEvents, At
<1>3. CASE cl'[c] = cl[c]
  <2>0. t = cl[c] /\ t.pc \in InFind
    BY <1>1, <1>3
  <2>1. PICK h \in Histories, v \in Nat, m \in Nat :
           /\ m \in 1..Len(log[h])
           /\ h = t.h /\ v = t.snap.epoch /\ ReadAt(t, m)
           /\ Len(log[h]) \in Nat /\ Kept(h)
           /\ refs[h].tail <= v /\ refs[h].tail \in Nat
           /\ t.n \in Nat /\ t.serial \in Nat /\ Len(t.evs) \in Nat
    BY <1>0, <2>0, ReadFacts
  <2>2. LogGrows(h) /\ Len(log'[h]) \in Nat
    <3>1. ~Gone(h)
      BY <1>0, <2>1, KeptCalls
    <3> QED
      BY <1>0, <3>1, LogGrowsStep, NextOrder
  <2>3. ASSUME NEW q \in 1..m, v <= log[h][q], journal[h][log[h][q]] # 0
        PROVE  journal'[h][log[h][q]] # 0
    <3>1. q \in 1..Len(log[h])
      BY <2>1
    <3>2. log[h][q] \in LogEvents(h) /\ log[h][q] \in Nat
      BY <1>0, <3>1, LogOrder DEF LogEvents
    <3>3. refs[h].tail <= log[h][q]
      BY <2>1, <2>3, <3>2
    <3> QED
      BY <1>0, <2>1, <2>3, <3>2, <3>3, EntriesStay
  <2>4. m \in 1..Len(log'[h]) /\ ReadAt(t, m)'
    BY <2>1, <2>2, <2>3, ReadKept
  <2> QED
    BY <1>2, <2>1, <2>4
<1>4. ASSUME ClientAct(c)
      PROVE  \E m \in 1..Len(log'[cl'[c].h]) : ReadAt(cl[c], m)'
  <2>0. ClientNext(c) /\ UNCHANGED <<epochLog, gc>> /\ t.pc \in InFind
    BY <1>1, <1>4 DEF ClientAct
  <2>1. ASSUME NEW h \in Histories, NEW vid \in KnownVids(h), FindBegin(c, h, vid)
        PROVE  \E m \in 1..Len(log'[t.h]) : ReadAt(t, m)'
    BY <1>0, <1>1, <2>0, <2>1, ReadBegins
  <2>2. ASSUME FindStep(c) PROVE \E m \in 1..Len(log'[t.h]) : ReadAt(t, m)'
    <3>1. ~IterEnd(c)
      <4>1. IterEnd(c) => cl'[c].pc = "done"
        BY <1>0, FinishKept DEF IterEnd
      <4> QED
        BY <4>1 DEF InFind
    <3> QED
      BY <1>1, <2>0, <2>2, <3>1, ReadWalkSerial, ReadWalkEvent,
         ReadInsertEntry, ReadSetSerial, ReadFindStart, ReadIterNext
      DEF FindStep
  <2>3. FindStep(c) \/ \E h \in Histories : \E vid \in KnownVids(h) : FindBegin(c, h, vid)
    BY <1>0, <2>0, FindKinds, FindBeginsQuiet
  <2> QED
    BY <1>2, <2>1, <2>2, <2>3
<1>5. ASSUME NEW d \in Clients, ClientAct(d), d # c PROVE cl'[c] = cl[c]
  BY <1>0, <1>5, ClientPhases DEF ClientAct, OthersSame
<1> QED
  BY <1>0, <1>3, <1>4, <1>5, ClientsOrNot

-----------------------------------------------------------------------------
(***************************************************************************)
(* How a find fails.                                                       *)
(***************************************************************************)

\* The caller asks for what comes after a version that the trimmer has cut off.
AsksTooEarly(s, h) ==
    /\ s.vid \in LogEvents(h) /\ s.vid < refs[h].tail
    /\ refs[h].tail # EventEpoch

\* A find fails at its start.
LEMMA StartFails ==
    ASSUME ReadsSafely, NEW c \in Clients, FindStart(c), cl'[c].pc = "done"
    PROVE  /\ cl'[c].err = "FindStartError"
           /\ \E h \in Histories : h = cl[c].h /\ AsksTooEarly(cl[c], h)
<1> DEFINE s == cl[c]
<1>0. /\ MTypeInv /\ TimeInv /\ LogInv /\ AgeInv /\ EntryInv /\ ReadInv /\ TypeInv
      /\ EpochInv /\ s.pc = "start"
  BY DEF ReadsSafely, MTypeInv, FindStart
<1>1. PICK h \in Histories, v \in Nat, m \in Nat :
         /\ m \in 1..Len(log[h])
         /\ h = s.h /\ v = s.snap.epoch /\ ReadAt(s, m) /\ Kept(h)
         /\ Len(log[h]) \in Nat /\ IsLogged(h, v) /\ s.vid \in Nat
         /\ refs[h].tail <= v /\ refs[h].tail \in Nat
  BY <1>0, ReadFacts DEF InFind
<1>2. After(s) # EventEpoch /\ journal[h][After(s)] = 0
  BY <1>0, <1>1, FindStartEffect DEF After
<1>3. s.vid # EventEpoch
  <2>1. s.vid = EventEpoch => After(s) = v
    BY <1>1 DEF After
  <2> QED
    BY <1>0, <1>1, <1>2, <2>1, EpochHasEntry
<1>4. After(s) = s.vid
  BY <1>3 DEF After
<1>5. PICK i \in 1..Len(log[h]) : s.vid = log[h][i] /\ i <= m
  BY <1>0, <1>1, <1>2, <1>4, AfterInLog
<1>6. journal[h][log[h][m]] # 0
  BY <1>0, <1>1 DEF ReadAt
<1>7. i < m
  <2>1. i # m
    BY <1>2, <1>4, <1>5, <1>6
  <2> QED
    BY <1>1, <1>5, <2>1
<1>8. ~(refs[h].tail <= log[h][i])
  <2>1. NoGap(h)
    BY <1>0, <1>1 DEF EntryInv
  <2> QED
    BY <1>1, <1>2, <1>4, <1>5, <1>6, <1>7, <2>1 DEF NoGap
<1>9. s.vid < refs[h].tail /\ refs[h].tail # EventEpoch
  BY <1>1, <1>5, <1>8 DEF EventEpoch
<1>10. cl'[c].err = "FindStartError"
  <2>1. CASE Finish(c, "FindStartError")
    BY <1>0, <2>1, FinishKept
  <2>2. ASSUME NEW x, Goto(c, [s EXCEPT !.pc = "iter", !.n = x, !.cur = After(s)])
        PROVE  FALSE
    <3>1. PICK y : y = After(s)
      OBVIOUS
    <3>2. cl'[c] = [s EXCEPT !.pc = "iter", !.n = x, !.cur = y]
      BY <1>0, <2>2, <3>1, OthersKept
    <3>3. cl'[c].pc = "iter"
      BY <1>0, <3>2, ClientTyped DEF ClientState
    <3> QED
      BY <3>3
  <2> QED
    BY <1>0, <1>1, <1>2, <2>1, <2>2 DEF FindStart, After
<1> QED
  BY <1>1, <1>5, <1>9, <1>10 DEF AsksTooEarly, LogEvents

\* A find fails in the middle of the iteration.
LEMMA NextFails ==
    ASSUME ReadsSafely, NEW c \in Clients, IterNext(c), cl'[c].pc = "done"
    PROVE  /\ cl'[c].err = "ParentMismatch"
           /\ \E h \in Histories : h = cl[c].h /\ AsksTooEarly(cl[c], h)
<1> DEFINE s == cl[c]
<1>0. /\ MTypeInv /\ TimeInv /\ LogInv /\ AgeInv /\ EntryInv /\ ReadInv /\ TypeInv
      /\ EpochInv /\ s.pc = "iter"
  BY DEF ReadsSafely, MTypeInv, IterNext
<1>1. PICK h \in Histories, v \in Nat, m \in Nat :
         /\ m \in 1..Len(log[h])
         /\ h = s.h /\ v = s.snap.epoch /\ ReadAt(s, m) /\ Kept(h)
         /\ Len(log[h]) \in Nat /\ IsLogged(h, v) /\ s.vid \in Nat
         /\ refs[h].tail <= v /\ refs[h].tail \in Nat /\ s.n \in Nat
  BY <1>0, ReadFacts DEF InFind
<1>2. PICK e \in Remaining(s) :
         /\ \A f \in Remaining(s) : journal[s.h][e] <= journal[s.h][f]
         /\ parent[e] # s.cur
  BY <1>0, IterNextEffect
<1>3. PICK n \in 0..m : /\ n = s.n /\ s.serial = m
                        /\ s.cur = At(h, n) /\ After(s) <= s.cur
  BY <1>0, <1>1 DEF ReadAt, At
<1>4. e \in EvId /\ journal[h][e] > n /\ journal[h][e] <= m
  BY <1>1, <1>2, <1>3 DEF Remaining
<1>5. PICK q \in 1..Len(log[h]) : e = log[h][q] /\ journal[h][e] = q
  <2>1. journal[h][e] # 0
    BY <1>3, <1>4
  <2>2. e \in LogEvents(h)
    BY <1>0, <1>4, <2>1 DEF EpochInv
  <2>3. PICK q \in 1..Len(log[h]) : e = log[h][q]
    BY <2>2 DEF LogEvents
  <2> QED
    BY <1>0, <2>1, <2>3 DEF EntryInv, Position
<1>6. n + 1 \in 1..Len(log[h]) /\ n + 1 < q /\ n + 1 <= m /\ n < n + 1
  <2>1. parent[e] = At(h, q - 1)
    BY <1>0, <1>5, LogOrder
  <2>2. q - 1 # n
    BY <1>2, <1>3, <2>1
  <2>3. n < q /\ q <= m
    BY <1>4, <1>5
  <2> QED
    BY <1>1, <2>2, <2>3
<1>7. PICK f : f = log[h][n + 1]
  OBVIOUS
<1>8. f \in EvId /\ f \in Nat /\ f = log[h][n + 1] /\ journal[h][f] \in {0, n + 1}
  <2>1. journal[h][log[h][n + 1]] \in {0, n + 1}
    BY <1>0, <1>6 DEF EntryInv, Position
  <2> QED
    BY <1>0, <1>6, <1>7, <2>1, LogOrder
<1>9. journal[h][f] = 0
  <2>1. ASSUME journal[h][f] = n + 1 PROVE FALSE
    <3>1. f \in Remaining(s)
      BY <1>1, <1>3, <1>6, <1>8, <2>1 DEF Remaining
    <3>2. q <= n + 1
      BY <1>1, <1>2, <1>5, <2>1, <3>1
    <3> QED
      BY <1>5, <1>6, <3>2
  <2> QED
    BY <1>8, <2>1
<1>10. ~(refs[h].tail <= f)
  <2>1. NoGap(h)
    BY <1>0, <1>1 DEF EntryInv
  <2>2. journal[h][log[h][q]] # 0
    BY <1>5
  <2> QED
    BY <1>5, <1>6, <1>8, <1>9, <2>1, <2>2 DEF NoGap
<1>11. After(s) < f /\ After(s) \in Nat
  <2>0. After(s) \in Nat
    BY <1>1 DEF After
  <2>1. CASE n = 0
    <3>1. After(s) <= 0
      BY <1>3, <2>1 DEF At, EventEpoch
    <3>2. f # 0
      BY <1>0, <1>6, <1>8, LogOrder DEF EventEpoch
    <3> QED
      BY <1>8, <2>0, <3>1, <3>2
  <2>2. CASE n # 0
    <3>1. n \in 1..Len(log[h]) /\ s.cur = log[h][n]
      BY <1>1, <1>3, <2>2 DEF At
    <3>2. log[h][n] < f /\ log[h][n] \in Nat
      BY <1>0, <1>6, <1>8, <3>1, LogOrder
    <3> QED
      BY <1>3, <1>8, <2>0, <3>1, <3>2
  <2> QED
    BY <2>0, <2>1, <2>2
<1>12. After(s) < refs[h].tail
  BY <1>1, <1>8, <1>10, <1>11
<1>13. s.vid # EventEpoch
  <2>1. s.vid = EventEpoch => After(s) = v
    BY <1>1 DEF After
  <2> QED
    BY <1>1, <1>12, <2>1
<1>14. s.vid < refs[h].tail /\ refs[h].tail # EventEpoch
  <2>1. After(s) = s.vid
    BY <1>13 DEF After
  <2> QED
    BY <1>1, <1>12, <2>1 DEF EventEpoch
<1>15. s.vid \in LogEvents(h)
  BY <1>1, <1>13 DEF ReadAt, LogEvents
<1>16. cl'[c].err = "ParentMismatch"
  <2>1. CASE Finish(c, "ParentMismatch")
    BY <1>0, <2>1, FinishKept
  <2>2. ASSUME NEW x, NEW y, NEW z,
               Goto(c, [s EXCEPT !.n = x, !.cur = y, !.out = z])
        PROVE  FALSE
    <3>1. cl'[c] = [s EXCEPT !.n = x, !.cur = y, !.out = z]
      BY <1>0, <2>2, OthersKept
    <3>2. cl'[c].pc = "iter"
      BY <1>0, <3>1, ClientTyped DEF ClientState
    <3> QED
      BY <3>2
  <2> QED
    BY <2>1, <2>2 DEF IterNext
<1> QED
  BY <1>1, <1>14, <1>15, <1>16 DEF AsksTooEarly

-----------------------------------------------------------------------------
(***************************************************************************)
(* What a failed call was asked for.                                       *)
(***************************************************************************)

\* A history that a call may still read is not removed while the call goes on.
LEMMA CallKeeps ==
    ASSUME MTypeInv, TimeInv, [MNext]_allVars, NEW c \in Clients,
           cl[c].pc # "idle", cl'[c].pc # "idle", NEW h \in Histories,
           KeptFor(h, began[c])
    PROVE  KeptFor(h, began[c])'
<1>0. /\ TypeInv /\ TrimClockInv /\ tr \in TrState
      /\ dtime[h] \in Nat /\ began[c] \in Nat /\ CallTicks \in Nat
      /\ DeletingDuration \in Nat /\ CallTicks <= DeletingDuration
      /\ refs[h].phase \in {"active", "deleting"}
      /\ dtime[h] <= began[c] /\ began[c] <= CallTicks
  BY MaintenanceAssumption, CallsAreShort DEF MTypeInv, TimeInv, ClockInv, KeptFor
<1>1. /\ Tick => began'[c] = began[c] + 1
      /\ ~Tick => began'[c] = began[c]
  BY BeganStep
<1>2. ASSUME ~Tick, refs'[h].phase \in {"active", "deleting"}, dtime'[h] = dtime[h]
      PROVE  KeptFor(h, began[c])'
  BY <1>0, <1>1, <1>2 DEF KeptFor
<1>3. CASE Tick
  <2>1. refs' = refs /\ began'[c] = began[c] + 1
    BY <1>1, <1>3 DEF Tick, vars
  <2>2. dtime'[h] = IF refs[h].phase \in {"none", "active"} THEN 0
                    ELSE Older(dtime[h], LongestDeletion)
    BY <1>3 DEF Tick
  <2>3. dtime'[h] \in Nat /\ dtime'[h] <= dtime[h] + 1
    BY <1>0, <2>2, OlderGrows
  <2>4. dtime'[h] <= began[c] + 1
    BY <1>0, <2>3
  <2> QED
    BY <1>0, <2>1, <2>4 DEF KeptFor
<1>4. CASE ~Tick
  <2>1. CASE UNCHANGED allVars \/ TrimOnly \/ GcOnly
    BY <1>0, <1>2, <1>4, <2>1 DEF allVars, vars, mvars, TrimOnly, GcOnly
  <2>2. ASSUME NEW d \in Clients, ClientAct(d) PROVE KeptFor(h, began[c])'
    <3>1. /\ dtime' = dtime
          /\ \/ refs'[h].phase = refs[h].phase
             \/ refs[h].phase = "active" /\ refs'[h].phase = "deleting"
             \/ refs[h].phase = "none" /\ refs'[h].phase = "active"
      BY <1>0, <2>2, ClientPhases DEF ClientAct
    <3> QED
      BY <1>0, <1>2, <1>4, <3>1
  <2>3. CASE SetTail \/ SetEpoch
    <3>1. UNCHANGED dtime
      BY <1>0, <2>3, TrimmerUpdates
    <3>2. refs'[h].phase = refs[h].phase
      <4>1. CASE UNCHANGED refs
        BY <4>1
      <4>2. ASSUME NEW g \in Histories, TailStep(g) \/ EpochStep(g)
            PROVE  refs'[h].phase = refs[h].phase
        BY <4>2, TailStepFields, EpochStepFields
      <4> QED
        BY <1>0, <2>3, <4>1, <4>2, TrimmerUpdates
    <3> QED
      BY <1>0, <1>2, <1>4, <3>1, <3>2
  <2>4. ASSUME NEW e \in EvId, GcRemoveEvent(e) PROVE KeptFor(h, began[c])'
    BY <1>0, <1>2, <1>4, <2>4, GcRemoveEventFields
  <2>5. CASE GcRemoveTail \/ GcRemoveJournal
    BY <1>0, <1>2, <1>4, <2>5, GcRemoveFields
  <2>6. ASSUME NEW g \in Histories, GcInvalidate(g) PROVE KeptFor(h, began[c])'
    BY <1>0, <1>2, <1>4, <2>6, GcInvalidateFields
  <2>7. CASE GcSetDeleted
    <3>1. /\ dtime' = dtime
          /\ h # gc.h => refs'[h] = refs[h]
      BY <2>7, GcSetDeletedFields
    <3>2. h # gc.h
      <4>1. gc.pc = "setDeleted"
        BY <2>7, GcSetDeletedFields
      <4>2. dtime[gc.h] > DeletingDuration
        BY <4>1 DEF TimeInv, RemovalInv
      <4>3. dtime[h] <= DeletingDuration
        BY <1>0
      <4> QED
        BY <1>0, <4>2, <4>3
    <3> QED
      BY <1>0, <1>2, <1>4, <3>1, <3>2
  <2>8. CASE GcDeletedRefs
    <3>1. ~Gone(h)
      BY <1>0 DEF Gone
    <3>2. refs'[h] = refs[h] /\ dtime'[h] = dtime[h]
      BY <2>8, <3>1, GcDeletedRefsFields
    <3> QED
      BY <1>0, <1>2, <1>4, <3>2
  <2> QED
    BY <1>0, <1>4, <2>1, <2>2, <2>3, <2>4, <2>5, <2>6, <2>7, <2>8, MStepKinds, Zenon
<1> QED
  BY <1>3, <1>4

\* What a step of a client does to the error of its call.
ErrorKept(s, t) ==
    /\ t.err \in JournalErrors => t = s
    /\ t.pc # "done" => t.err = NoErr

\* Only a find that ends can fail with an error of the journal.
LEMMA ErrorKinds ==
    ASSUME TypeInv, NEW c \in Clients, ClientNext(c),
           cl[c].pc # "done" => cl[c].err = NoErr
    PROVE  ErrorKept(cl[c], cl'[c]) \/ FindStep(c)
<1> DEFINE s == cl[c]
           t == cl'[c]
<1>0. NoErr \notin JournalErrors /\ \A e \in CommitErrors : e \notin JournalErrors
  BY DEF NoErr, JournalErrors, CommitErrors
<1>1. ASSUME t.err = NoErr PROVE ErrorKept(s, t)
  BY <1>0, <1>1 DEF ErrorKept
<1>2. ASSUME NEW h \in Histories, NEW vid \in KnownVids(h), NEW n \in 1..MaxBatch,
             CommitBegin(c, h, vid, n)
      PROVE  ErrorKept(s, t)
  <2>1. PICK evs : t = [NewCall(h) EXCEPT !.pc = "store", !.vid = vid, !.evs = evs]
    BY <1>2, OthersKept DEF CommitBegin
  <2>2. t.err = NoErr
    BY <2>1 DEF NewCall
  <2> QED
    BY <1>1, <2>2
<1>3. ASSUME NEW h \in Histories, NEW vid \in KnownVids(h), DeleteRefs(c, h, vid)
      PROVE  ErrorKept(s, t)
  <2>1. CASE UNCHANGED cl
    BY <1>3, <1>1, <2>1 DEF DeleteRefs
  <2>2. CASE Goto(c, [NewCall(h) EXCEPT !.pc = "deleteConflict", !.vid = vid])
    <3>1. t = [NewCall(h) EXCEPT !.pc = "deleteConflict", !.vid = vid]
      BY <2>2, OthersKept
    <3>2. t.err = NoErr
      BY <3>1 DEF NewCall
    <3> QED
      BY <1>1, <3>2
  <2> QED
    BY <1>3, <2>1, <2>2 DEF DeleteRefs
<1>4. ASSUME NEW h \in Histories, NEW vid \in KnownVids(h), FindBegin(c, h, vid)
      PROVE  ErrorKept(s, t)
  BY <1>1, <1>4, FindBeginEffect
<1>5. CASE StoreEvent(c)
  <2>1. s.err = NoErr /\ s \in ClientState
    BY <1>5, ClientTyped DEF StoreEvent
  <2>2. PICK pc : pc = IF s.n + 1 = Len(s.evs) THEN "updateHead" ELSE "store"
    OBVIOUS
  <2>3. t = [s EXCEPT !.n = s.n + 1, !.pc = pc]
    BY <1>5, <2>2, OthersKept DEF StoreEvent
  <2>4. t.err = NoErr
    BY <2>1, <2>3 DEF ClientState
  <2> QED
    BY <1>1, <2>4
<1>6. ASSUME NEW e \in {NoErr} \cup CommitErrors, Finish(c, e)
      PROVE  ErrorKept(s, t)
  <2>1. t.pc = "done" /\ t.err = e
    BY <1>6, FinishKept
  <2>2. e \notin JournalErrors
    BY <1>0, <1>6
  <2> QED
    BY <2>1, <2>2 DEF ErrorKept
<1>7. CASE InsertHead(c)
  BY <1>6, <1>7 DEF InsertHead, MoveHead, CommitErrors
<1>8. CASE UpdateHead(c)
  <2>1. ASSUME Goto(c, [s EXCEPT !.pc = "commitConflict"]) PROVE ErrorKept(s, t)
    <3>1. s.err = NoErr /\ s \in ClientState
      BY <1>8, ClientTyped DEF UpdateHead
    <3>2. t = [s EXCEPT !.pc = "commitConflict"]
      BY <2>1, OthersKept
    <3>3. t.err = NoErr
      BY <3>1, <3>2 DEF ClientState
    <3> QED
      BY <1>1, <3>3
  <2> QED
    BY <1>6, <1>8, <2>1 DEF UpdateHead, MoveHead
<1>9. CASE CommitConflict(c)
  BY <1>6, <1>9 DEF CommitConflict, CommitErrors
<1>10. CASE DeleteConflict(c)
  BY <1>6, <1>10 DEF DeleteConflict, CommitErrors
<1>11. CASE Return(c) \/ Stop(c)
  <2>1. t = Idle
    BY <1>11, OthersKept DEF Return, Stop
  <2>2. t.err = NoErr
    BY <2>1 DEF Idle, NewCall
  <2> QED
    BY <1>1, <2>2
<1> QED
  BY <1>2, <1>3, <1>4, <1>5, <1>7, <1>8, <1>9, <1>10, <1>11
  DEF ClientNext, BeginCall, CallStep, CommitStep

\* A find fails only if its caller asks for what the trimmer has cut off.
LEMMA FindFails ==
    ASSUME ReadsSafely, NEW c \in Clients, FindStep(c), cl[c].err = NoErr,
           UNCHANGED <<epochLog, gc>>
    PROVE  \/ cl'[c].err = NoErr
           \/ /\ cl[c].pc \in InFind /\ cl'[c].pc = "done"
              /\ cl'[c].err \in {"FindStartError", "ParentMismatch"}
              /\ cl'[c].h = cl[c].h /\ cl'[c].vid = cl[c].vid
              /\ UNCHANGED storeVars
              /\ \E h \in Histories : h = cl[c].h /\ AsksTooEarly(cl[c], h)
<1> DEFINE s == cl[c]
           t == cl'[c]
<1>0. /\ MTypeInv /\ LogInv /\ EntryInv /\ ReadInv /\ TypeInv
  BY DEF ReadsSafely, MTypeInv
<1>1. CASE WalkSerial(c)
  BY <1>0, <1>1, WalkSerialEffect DEF KeepsCall
<1>2. CASE WalkEvent(c)
  BY <1>2, WalkGoesOn DEF KeepsCall
<1>3. CASE InsertEntry(c)
  BY <1>0, <1>3, InsertAdds DEF KeepsCall
<1>4. CASE SetSerial(c)
  BY <1>0, <1>4, SetSerialEffect DEF KeepsCall
<1>5. CASE IterEnd(c)
  BY <1>0, <1>5, FinishKept DEF IterEnd
<1>6. FindMoves(c) \/ FindEnds(c)
  BY <1>0, FindStepKinds
<1>7. FindMoves(c) => t.err = NoErr
  BY DEF FindMoves, KeepsCall
<1>8. FindEnds(c) => /\ s.pc \in InFind /\ t.pc = "done"
                     /\ t.h = s.h /\ t.vid = s.vid
  BY DEF FindEnds
<1>9. CASE FindStart(c)
  <2>1. UNCHANGED storeVars
    BY <1>9 DEF FindStart
  <2> QED
    BY <1>6, <1>7, <1>8, <1>9, <2>1, StartFails
<1>10. CASE IterNext(c)
  <2>1. UNCHANGED storeVars
    BY <1>10 DEF IterNext
  <2> QED
    BY <1>6, <1>7, <1>8, <1>10, <2>1, NextFails
<1> QED
  BY <1>1, <1>2, <1>3, <1>4, <1>5, <1>9, <1>10 DEF FindStep

\* What a failed call was asked for stays before an old epoch.
LEMMA FailedStays ==
    ASSUME MTypeInv, MTypeInv', TimeInv, [MNext]_allVars, NEW c \in Clients,
           cl'[c] = cl[c], FailedBefore(c)
    PROVE  FailedBefore(c)'
<1>0. PICK h \in Histories : h = cl[c].h
  BY ClientTyped DEF MTypeInv
<1>1. PICK s : s = cl[c] /\ s = cl'[c] /\ h = s.h
  BY <1>0
<1>2. /\ s.pc = "done" /\ s.err \notin {"FindEventError", "SerialMismatch"}
      /\ KeptFor(h, began[c]) /\ s.vid \in LogEvents(h)
  BY <1>1 DEF FailedBefore
<1>3. PICK i \in 1..Len(epochLog[h]) :
         epochLog[h][i].time > SinceEpochUpdate /\ s.vid < epochLog[h][i].epoch
  BY <1>1 DEF FailedBefore
<1>4. KeptFor(h, began[c])' /\ ~Gone(h)
  <2>1. KeptFor(h, began[c])'
    BY <1>1, <1>2, CallKeeps
  <2> QED
    BY <1>2, <2>1 DEF KeptFor, Gone
<1>5. PICK v \in Nat : v = epochLog[h][i].epoch
  BY EpochsTyped
<1>6. \E j \in 1..Len(epochLog'[h]) :
         epochLog'[h][j].epoch = v /\ epochLog'[h][j].time > SinceEpochUpdate
  <2>1. IsOldEpoch(h, v)
    BY <1>3, <1>5 DEF IsOldEpoch
  <2>2. PICK n \in Nat : EpochsAge(h, n)
    BY <1>4, SomeAge
  <2> QED
    BY <2>1, <2>2, OldEpochStays
<1>7. PICK k \in 1..Len(log[h]) : log[h][k] = s.vid
  BY <1>2 DEF LogEvents
<1>8. k \in 1..Len(log'[h]) /\ log'[h][k] = s.vid
  <2>1. LogGrows(h)
    BY <1>4, LogGrowsStep
  <2>2. log[h] \in Seq(EvId) /\ log'[h] \in Seq(EvId)
    BY DEF MTypeInv, TypeInv, TypeOK
  <2>3. Len(log[h]) \in Nat /\ Len(log'[h]) \in Nat
    BY <2>2, LenProperties
  <2> QED
    BY <1>7, <2>1, <2>3 DEF LogGrows
<1>9. s.vid \in LogEvents(h)'
  BY <1>8 DEF LogEvents
<1>10. \E j \in 1..Len(epochLog'[h]) :
          epochLog'[h][j].time > SinceEpochUpdate /\ s.vid < epochLog'[h][j].epoch
  BY <1>3, <1>5, <1>6
<1> QED
  BY <1>1, <1>2, <1>4, <1>9, <1>10 DEF FailedBefore, KeptFor, LogEvents

\* A find that fails was asked for what is before an old epoch: the tail.
LEMMA FailsBefore ==
    ASSUME ReadsSafely, NEW c \in Clients, cl[c].pc \in InFind, cl'[c].pc = "done",
           cl'[c].err \in {"FindStartError", "ParentMismatch"},
           cl'[c].h = cl[c].h, cl'[c].vid = cl[c].vid, UNCHANGED storeVars,
           began'[c] = began[c], UNCHANGED <<epochLog, dtime>>,
           NEW h \in Histories, h = cl[c].h, AsksTooEarly(cl[c], h)
    PROVE  FailedBefore(c)'
<1>1. PICK t : t = cl'[c]
  OBVIOUS
<1>2. t.h = h /\ t.vid = cl[c].vid /\ t.pc = "done"
      /\ t.err \notin {"FindEventError", "SerialMismatch"}
  BY <1>1
<1>3. log' = log /\ refs' = refs
  BY DEF storeVars
<1>4. KeptFor(h, began[c])
  BY DEF ReadsSafely, TimeInv, FindClockInv
<1>5. refs'[h].phase \in {"active", "deleting"} /\ dtime'[h] <= began'[c]
  BY <1>3, <1>4 DEF KeptFor
<1>6. PICK i \in 1..Len(epochLog[h]) :
         epochLog[h][i].epoch = refs[h].tail /\ epochLog[h][i].time > SinceEpochUpdate
  BY DEF ReadsSafely, AgeInv, IsOldEpoch, AsksTooEarly
<1>7. /\ t.vid \in LogEvents(h)'
      /\ epochLog'[h][i].time > SinceEpochUpdate /\ t.vid < epochLog'[h][i].epoch
      /\ i \in 1..Len(epochLog'[h])
  BY <1>2, <1>3, <1>6 DEF AsksTooEarly, LogEvents
<1> QED
  BY <1>1, <1>2, <1>5, <1>7 DEF FailedBefore, KeptFor, LogEvents

\* Calls fail only for versions that the trimmer has cut off.
LEMMA FailStep ==
    ASSUME ReadsSafely, FailInv, MTypeInv', [MNext]_allVars
    PROVE  FailInv'
<1> SUFFICES ASSUME NEW c \in Clients
             PROVE  /\ cl'[c].err \in JournalErrors => FailedBefore(c)'
                    /\ cl'[c].pc # "done" => cl'[c].err = NoErr
  BY DEF FailInv
<1>0. /\ MTypeInv /\ TimeInv /\ TypeInv /\ NoErr \notin JournalErrors
      /\ cl[c].err \in JournalErrors => FailedBefore(c)
      /\ cl[c].pc # "done" => cl[c].err = NoErr
  BY DEF ReadsSafely, MTypeInv, FailInv, NoErr, JournalErrors
<1>1. CASE cl'[c] = cl[c]
  BY <1>0, <1>1, FailedStays
<1>2. CASE ClientAct(c)
  <2>0. /\ ClientNext(c) /\ UNCHANGED <<epochLog, gc, dtime>>
        /\ began' = [began EXCEPT ![c] = IF cl'[c].pc = "idle" THEN 0 ELSE began[c]]
    BY <1>2 DEF ClientAct
  <2>1. CASE ErrorKept(cl[c], cl'[c])
    <3>1. cl'[c].err \in JournalErrors => cl'[c] = cl[c]
      BY <2>1 DEF ErrorKept
    <3>2. cl'[c].pc # "done" => cl'[c].err = NoErr
      BY <2>1 DEF ErrorKept
    <3> QED
      BY <1>1, <3>1, <3>2
  <2>2. CASE FindStep(c)
    <3>1. cl[c].err = NoErr
      BY <1>0, <2>2, FindStepKinds DEF FindMoves, FindEnds, InFind
    <3>2. CASE cl'[c].err = NoErr
      BY <1>0, <3>2
    <3>3. CASE cl'[c].err # NoErr
      <4>1. /\ cl[c].pc \in InFind /\ cl'[c].pc = "done"
            /\ cl'[c].err \in {"FindStartError", "ParentMismatch"}
            /\ cl'[c].h = cl[c].h /\ cl'[c].vid = cl[c].vid
            /\ UNCHANGED storeVars
            /\ \E h \in Histories : h = cl[c].h /\ AsksTooEarly(cl[c], h)
        BY <2>0, <2>2, <3>1, <3>3, FindFails
      <4>2. began'[c] = began[c]
        BY <1>0, <2>0, <4>1 DEF MTypeInv
      <4>3. FailedBefore(c)'
        BY <2>0, <4>1, <4>2, FailsBefore
      <4> QED
        BY <4>1, <4>3
    <3> QED
      BY <3>2, <3>3
  <2> QED
    BY <1>0, <2>0, <2>1, <2>2, ErrorKinds
<1>3. ASSUME NEW d \in Clients, ClientAct(d), d # c PROVE cl'[c] = cl[c]
  BY <1>0, <1>3, ClientPhases DEF ClientAct, OthersSame
<1> QED
  BY <1>0, <1>1, <1>2, <1>3, ClientsOrNot

-----------------------------------------------------------------------------
(***************************************************************************)
(* The invariant of the trimmer's and the collector's clocks, with what    *)
(* calls read and how they fail.                                           *)
(***************************************************************************)

JournalReadsInv == MaintenanceInv /\ AgeInv /\ EntryInv /\ ReadInv /\ FailInv

\* Nothing has been logged, read or removed yet.
LEMMA ReadsInitial == MInit => JournalReadsInv
<1> SUFFICES ASSUME MInit PROVE JournalReadsInv
  OBVIOUS
<1>1. /\ refs = [h \in Histories |-> NoRefs]
      /\ log = [h \in Histories |-> << >>]
      /\ cl = [c \in Clients |-> Idle]
      /\ epochLog = [h \in Histories |-> << >>]
      /\ tr = TrimmerIdle /\ gc = GcIdle
  BY DEF MInit, Init
<1>2. /\ \A c \in Clients : cl[c].pc = "idle" /\ cl[c].err = NoErr
      /\ tr.pc = "idle" /\ gc.pc = "idle"
  <2>1. ASSUME NEW c \in Clients PROVE cl[c].err = NoErr
    BY <1>1 DEF Idle, NewCall
  <2> QED
    BY <1>1, <2>1, IdleTyped, IdlePc
<1>3. ASSUME NEW h \in Histories
      PROVE  /\ Len(log[h]) = 0 /\ Len(epochLog[h]) = 0
             /\ refs[h].tail = EventEpoch /\ refs[h].phase = "none"
  <2>1. log[h] = << >> /\ epochLog[h] = << >> /\ refs[h] = NoRefs
    BY <1>1
  <2> QED
    BY <2>1 DEF NoRefs
<1>4. AgeInv
  BY <1>2, <1>3 DEF AgeInv, InFind
<1>5. EntryInv
  <2>1. \A h \in Histories : Position(h)
    BY <1>3 DEF Position
  <2>2. \A h \in Histories : ~Kept(h) /\ ~IsActive(h)
    BY <1>3 DEF Kept, KeptFor, IsActive
  <2> QED
    BY <1>2, <2>1, <2>2 DEF EntryInv, GcSerial, TrimEntries
<1>6. ReadInv
  BY <1>2 DEF ReadInv, InFind
<1>7. FailInv
  BY <1>2 DEF FailInv, NoErr, JournalErrors
<1> QED
  BY <1>4, <1>5, <1>6, <1>7, MaintenanceInitial DEF JournalReadsInv

\* What the trimmer and the collector leave is what the calls need: every entry
\* from the tail on that has been inserted stays, and a call that has begun
\* finds the entries from its event to the head, or asks for a version that was
\* before an epoch of more than SinceEpochUpdate already.
THEOREM ReadsAreSafe == MSpec => []JournalReadsInv
<1>1. JournalReadsInv /\ [MNext]_allVars => JournalReadsInv'
  <2> SUFFICES ASSUME JournalReadsInv, [MNext]_allVars PROVE JournalReadsInv'
    OBVIOUS
  <2>0. /\ MTypeInv /\ TimeInv /\ LogInv /\ EpochInv /\ GcInv
        /\ AgeInv /\ EntryInv /\ ReadInv /\ FailInv /\ ReadsSafely
    BY DEF JournalReadsInv, MaintenanceInv, ReadsSafely
  <2>1. MTypeInv' /\ TimeInv'
    BY <2>0, TimeStep, MTypeStep DEF TimeInv
  <2>2. LogInv'
    BY <2>0, <2>1, LogStep
  <2>3. EpochInv'
    BY <2>0, <2>1, EpochStepInv
  <2>4. GcInv'
    BY <2>0, <2>1, <2>2, <2>3, GcStepInv
  <2>5. AgeInv'
    BY <2>0, <2>1, AgeStep
  <2>6. EntryInv'
    BY <2>0, <2>1, <2>2, EntryStep
  <2>7. ReadInv'
    BY <2>0, <2>1, <2>2, ReadStep
  <2>8. FailInv'
    BY <2>0, <2>1, FailStep
  <2> QED
    BY <2>1, <2>2, <2>3, <2>4, <2>5, <2>6, <2>7, <2>8
    DEF JournalReadsInv, MaintenanceInv
<1> QED
  BY <1>1, ReadsInitial, PTL DEF MSpec

\* A find fails, at its start or in the middle of the iteration, only if its
\* caller asks for the events after a version that the trimmer has cut off, and
\* no version is cut off before a later epoch has been in place for
\* SinceEpochUpdate; ensureJournal() never fails.
THEOREM FindsFailOnlyBeforeTail == MSpec => []FindFailsOnlyBeforeTail
<1>1. JournalReadsInv => FindFailsOnlyBeforeTail
  <2> SUFFICES ASSUME JournalReadsInv, NEW c \in Clients
               PROVE  /\ cl[c].err \notin {"FindEventError", "SerialMismatch"}
                      /\ cl[c].err \in JournalErrors =>
                            /\ cl[c].vid # EventEpoch
                            /\ \E i \in DOMAIN epochLog[cl[c].h] :
                                  /\ epochLog[cl[c].h][i].time > SinceEpochUpdate
                                  /\ Pos(cl[c].h, cl[c].vid)
                                       < Pos(cl[c].h, epochLog[cl[c].h][i].epoch)
    BY DEF FindFailsOnlyBeforeTail
  <2>0. MTypeInv /\ LogInv /\ EpochInv /\ FailInv /\ TypeInv
    BY DEF JournalReadsInv, MaintenanceInv, MTypeInv
  <2>1. cl[c].err \notin {"FindEventError", "SerialMismatch"}
    BY <2>0 DEF FailInv, FailedBefore, JournalErrors
  <2>2. ASSUME cl[c].err \in JournalErrors
        PROVE  /\ cl[c].vid # EventEpoch
               /\ \E i \in DOMAIN epochLog[cl[c].h] :
                     /\ epochLog[cl[c].h][i].time > SinceEpochUpdate
                     /\ Pos(cl[c].h, cl[c].vid)
                          < Pos(cl[c].h, epochLog[cl[c].h][i].epoch)
    <3>1. PICK h \in Histories, vid \in Vid : h = cl[c].h /\ vid = cl[c].vid
      BY <2>0, ClientTyped
    <3>2. vid \in LogEvents(h)
      BY <2>0, <2>2, <3>1 DEF FailInv, FailedBefore
    <3>3. PICK i \in 1..Len(epochLog[h]) :
             epochLog[h][i].time > SinceEpochUpdate /\ vid < epochLog[h][i].epoch
      BY <2>0, <2>2, <3>1 DEF FailInv, FailedBefore
    <3>4. PICK e \in EvId : e = epochLog[h][i].epoch
      BY <2>0, EpochsTyped
    <3>5. e \in LogEvents(h)
      BY <2>0, <3>4 DEF EpochInv, EpochsInv
    <3>6. PICK a \in 1..Len(log[h]) : log[h][a] = vid
      BY <3>2 DEF LogEvents
    <3>7. PICK b \in 1..Len(log[h]) : log[h][b] = e
      BY <3>5 DEF LogEvents
    <3>8. vid # EventEpoch /\ e # EventEpoch /\ vid \in Nat /\ e \in Nat
      BY <2>0, <3>6, <3>7, LogOrder
    <3>9. Pos(h, vid) = a /\ Pos(h, e) = b
      <4>1. \A k \in 1..Len(log[h]) : log[h][k] = vid => k = a
        BY <2>0, <3>6, LogOrder
      <4>2. \A k \in 1..Len(log[h]) : log[h][k] = e => k = b
        BY <2>0, <3>7, LogOrder
      <4> QED
        BY <3>6, <3>7, <3>8, <4>1, <4>2 DEF Pos
    <3>10. a < b
      <4>1. b <= a => log[h][b] <= log[h][a]
        <5>1. b < a => log[h][b] < log[h][a]
          BY <2>0, LogOrder
        <5> QED
          BY <3>6, <3>7, <3>8, <5>1
      <4> QED
        BY <3>3, <3>4, <3>6, <3>7, <3>8, <4>1
    <3>11. i \in DOMAIN epochLog[h]
      <4>1. epochLog[h] \in Seq(EpochEntry)
        BY <2>0 DEF MTypeInv, EpochEntry
      <4> QED
        BY <4>1, LenProperties
    <3> QED
      BY <3>1, <3>3, <3>4, <3>8, <3>9, <3>10, <3>11
  <2> QED
    BY <2>1, <2>2
<1> QED
  BY <1>1, ReadsAreSafe, PTL

=============================================================================
