------------------------ MODULE JournalMaintenance --------------------------
(***************************************************************************)
(* The event journal together with the trimmer and the garbage collectors  *)
(* (events/trim.go, events/gc.go).                                         *)
(*                                                                         *)
(* nogfsoregd runs, for each journal, one goroutine that trims and one     *)
(* that collects garbage.  Each loops over the refs documents with a       *)
(* database cursor and does a few database calls per document, so both     *)
(* interleave with each other and with the calls of the clients.           *)
(*                                                                         *)
(* What keeps them apart is time: nothing younger than some weeks is       *)
(* removed, and a call of a client is assumed to be shorter than that.     *)
(* Time passes in ticks of a coarse unit.  Of every time that the code     *)
(* notes the model keeps the age in ticks, and only until the age is past  *)
(* every retention period.  A call lasts CallTicks ticks at most.          *)
(***************************************************************************)
EXTENDS EventJournal, Functions, FiniteSetsExt

CONSTANTS
    CallTicks,          \* assumption: the longest call of a client
    RecentDuration,     \* ConfigRecentDuration, 30 days
    DeletingDuration,   \* ConfigDeletingDuration, 15 days
    DeletedDuration,    \* ConfigDeletedDuration, 30 days
    SinceEpochUpdate,   \* ConfigSinceEpochUpdate, 30 days
    TrimInterval,       \* ConfigTrimInterval, 30 days
    MaxEpochs           \* bound on the entries of an epoch log

ASSUME MaintenanceAssumption ==
    /\ Clients # {}
    /\ {CallTicks, RecentDuration, DeletingDuration, DeletedDuration,
        SinceEpochUpdate, TrimInterval, MaxEpochs} \subseteq Nat

\* The retention periods are longer than any call.
ASSUME CallsAreShort ==
    /\ CallTicks <= RecentDuration
    /\ CallTicks <= DeletingDuration
    /\ CallTicks <= SinceEpochUpdate

VARIABLES
    etime,      \* age of each event, from the time in its ULID
    dtime,      \* refs.dtime: age of the deletion of a history
    epochLog,   \* refs.epochLog: epochs of a history with their ages
    began,      \* age of the call of each client
    tr,         \* the trimmer goroutine
    gc          \* the garbage collector goroutine

mvars == <<etime, dtime, epochLog, began, tr, gc>>
allVars == <<vars, mvars>>

\* One tick older; ages past every retention period are not told apart.
Older(age, period) == IF age > period THEN age ELSE age + 1

TrimmerIdle ==
    [pc |-> "idle", todo |-> {}, h |-> Idle.h, old |-> EventEpoch,
     new |-> EventEpoch, c |-> CHOOSE c \in Clients : TRUE]

GcIdle ==
    [pc |-> "idle", todo |-> {}, h |-> Idle.h, graph |-> {},
     gray |-> {}, tails |-> {}, serial |-> 0]

MInit ==
    /\ Init
    /\ etime = [e \in EvId |-> 0]
    /\ dtime = [h \in Histories |-> 0]
    /\ epochLog = [h \in Histories |-> << >>]
    /\ began = [c \in Clients |-> 0]
    /\ tr = TrimmerIdle
    /\ gc = GcIdle


LongestDeletion == Max({DeletingDuration, DeletedDuration})
LongestEpoch == Max({SinceEpochUpdate, TrimInterval})

Exists(h) == refs[h].phase # "none"

-----------------------------------------------------------------------------
(***************************************************************************)
(* The clients, and the passing of time.                                   *)
(***************************************************************************)

\* The trimmer calls Find() through one of the clients.
IsTrimmer(c) == tr.pc = "find" /\ tr.c = c

\* A step of a client.  New events and new deletions have age 0.
ClientCall(c) ==
    /\ IF IsTrimmer(c) THEN CallStep(c) ELSE ClientNext(c)
    /\ began' = [began EXCEPT ![c] = IF cl'[c].pc = "idle" THEN 0 ELSE @]
    /\ UNCHANGED <<etime, dtime, epochLog, tr, gc>>

\* Time passes.  It stands still for ids that are not in use.  No call of a
\* client outlasts CallTicks, and the trimmer updates what it has just read.
Tick ==
    /\ tr.pc \notin {"setTail", "setEpoch"}
    /\ \A c \in Clients : cl[c].pc # "idle" => began[c] < CallTicks
    /\ began' = [c \in Clients |->
                   IF cl[c].pc = "idle" THEN 0 ELSE began[c] + 1]
    /\ etime' = [e \in EvId |-> IF e >= nextId THEN 0
                                ELSE Older(etime[e], RecentDuration)]
    /\ dtime' = [h \in Histories |->
                   IF refs[h].phase \in {"none", "active"} THEN 0
                   ELSE Older(dtime[h], LongestDeletion)]
    /\ epochLog' = [h \in Histories |-> [i \in DOMAIN epochLog[h] |->
                      [epochLog[h][i] EXCEPT !.time = Older(@, LongestEpoch)]]]
    /\ UNCHANGED <<vars, tr, gc>>

-----------------------------------------------------------------------------
(***************************************************************************)
(* Trim(): advanceTails(), then advanceEpochs().                           *)
(***************************************************************************)

TrTo(s) == tr' = s
TrSkip(h) == TrTo([tr EXCEPT !.todo = @ \ {h}])
TrimFrame == UNCHANGED <<vars, etime, dtime, epochLog, began, gc>>

TrimBegin ==
    /\ tr.pc = "idle"
    /\ TrTo([TrimmerIdle EXCEPT !.pc = "tails", !.todo = Histories])
    /\ TrimFrame

\* Faulty variant of NewTails: a tail may be as recent as its epoch.
NewTailsNoDelay(h) ==
    LET el == epochLog[h]
        isOld(i) == el[i].epoch = refs[h].tail
    IN  {i \in DOMAIN el :
            refs[h].tail # EventEpoch =>
               \E j \in 1..(i - 1) :
                  isOld(j) /\ \A k \in 1..(j - 1) : ~isOld(k)}

\* The candidates of advanceOneTail(): the epochs that were logged after the
\* old tail and that IsNewTail() accepts, as positions in the epoch log.
NewTails(h) ==
    LET el == epochLog[h]
        isOld(i) == el[i].epoch = refs[h].tail
    IN  {i \in DOMAIN el :
            /\ el[i].time > SinceEpochUpdate
            /\ refs[h].tail # EventEpoch =>
                  \E j \in 1..(i - 1) :
                     isOld(j) /\ \A k \in 1..(j - 1) : ~isOld(k)}

\* The cursor yields a refs document and advanceOneTail() picks the last
\* candidate, if there is any.
ReadTail(h) ==
    /\ tr.pc = "tails"
    /\ h \in tr.todo
    /\ \/ /\ ~IsActive(h) \/ NewTails(h) = {}
          /\ TrSkip(h)
       \/ /\ IsActive(h)
          /\ \E i \in NewTails(h) :
                /\ \A j \in NewTails(h) : j <= i
                /\ TrTo([tr EXCEPT !.pc = "setTail", !.h = h,
                                   !.todo = @ \ {h}, !.old = refs[h].tail,
                                   !.new = epochLog[h][i].epoch])
    /\ TrimFrame

\* The update selects the old tail if there was one; it ends Trim() with an
\* error if no document matches.
SetTail ==
    LET h == tr.h
        ok == Exists(h) /\ (tr.old # EventEpoch => refs[h].tail = tr.old)
    IN  /\ tr.pc = "setTail"
        /\ refs' = IF ok THEN [refs EXCEPT ![h].tail = tr.new] ELSE refs
        /\ TrTo(IF ok THEN [tr EXCEPT !.pc = "tails"] ELSE TrimmerIdle)
        /\ UNCHANGED <<nextId, parent, stored, journal, log, heads, cl>>
        /\ UNCHANGED <<etime, dtime, epochLog, began, gc>>

TailsDone ==
    /\ tr.pc = "tails"
    /\ tr.todo = {}
    /\ TrTo([TrimmerIdle EXCEPT !.pc = "epochs", !.todo = Histories])
    /\ TrimFrame

\* isNextTrimInterval()
IsNextTrimInterval(h) ==
    LET el == epochLog[h]
    IN  el = << >> \/ el[Len(el)].time > TrimInterval

\* The cursor yields a refs document; advanceOneEpoch() calls Find().
ReadEpoch(h) ==
    /\ tr.pc = "epochs"
    /\ h \in tr.todo
    /\ IF IsActive(h) /\ IsNextTrimInterval(h) /\ Len(epochLog[h]) < MaxEpochs
       THEN \E c \in Clients :
              /\ TrTo([tr EXCEPT !.pc = "find", !.h = h, !.todo = @ \ {h},
                                 !.old = refs[h].epoch, !.c = c])
              /\ FindBegin(c, h, EventEpoch)
       ELSE /\ TrSkip(h)
            /\ UNCHANGED vars
    /\ UNCHANGED <<etime, dtime, epochLog, began, gc>>

\* The policy may accept any of the events that Find() returns, or none.
\* The trim policies of the code accept the ones that are old enough
\* (broadcast) or are followed by a snapshot (workflow indexes).
ChooseEpoch ==
    LET found == cl[tr.c]
        next == [tr EXCEPT !.pc = "epochs"]
    IN  /\ tr.pc = "find"
        /\ found.pc = "done"
        /\ \/ found.err = NoErr /\ TrTo(next)
           \/ found.err # NoErr /\ TrTo(TrimmerIdle)
           \/ \E e \in Range(found.out) :
                 /\ found.err = NoErr
                 /\ TrTo([tr EXCEPT !.pc = "setEpoch", !.new = e])
        /\ cl' = [cl EXCEPT ![tr.c] = Idle]
        /\ began' = [began EXCEPT ![tr.c] = 0]
        /\ UNCHANGED <<storeVars, etime, dtime, epochLog, gc>>

SetEpoch ==
    LET h == tr.h
        ok == Exists(h) /\ (tr.old # EventEpoch => refs[h].epoch = tr.old)
    IN  /\ tr.pc = "setEpoch"
        /\ refs' = IF ok THEN [refs EXCEPT ![h].epoch = tr.new] ELSE refs
        /\ epochLog' =
             IF ok
             THEN [epochLog EXCEPT ![h] =
                     Append(@, [epoch |-> tr.new, time |-> 0])]
             ELSE epochLog
        /\ TrTo(IF ok THEN [tr EXCEPT !.pc = "epochs"] ELSE TrimmerIdle)
        /\ UNCHANGED <<nextId, parent, stored, journal, log, heads, cl>>
        /\ UNCHANGED <<etime, dtime, began, gc>>

EpochsDone ==
    /\ tr.pc = "epochs"
    /\ tr.todo = {}
    /\ TrTo(TrimmerIdle)
    /\ TrimFrame

\* The context is canceled or the database fails.
TrimStop ==
    /\ tr.pc # "idle"
    /\ TrTo(TrimmerIdle)
    /\ cl' = [cl EXCEPT ![tr.c] = IF tr.pc = "find" THEN Idle ELSE @]
    /\ began' = [began EXCEPT ![tr.c] = IF tr.pc = "find" THEN 0 ELSE @]
    /\ UNCHANGED <<storeVars, etime, dtime, epochLog, gc>>

TrimNext ==
    \/ TrimBegin \/ SetTail \/ TailsDone \/ ChooseEpoch \/ SetEpoch
    \/ EpochsDone \/ TrimStop
    \/ \E h \in Histories : ReadTail(h) \/ ReadEpoch(h)

-----------------------------------------------------------------------------
(***************************************************************************)
(* Gc(): GcEvents(), GcJournalTail(), GcDeletedRefs(),                     *)
(* GcDeletingJournals(), in this order.                                    *)
(***************************************************************************)

GcTo(s) == gc' = s
GcFrame == UNCHANGED <<vars, etime, dtime, epochLog, began, tr>>

\* Faulty variant of GcBegin: recent events are not protected.
GcBeginNoRecent ==
    /\ gc.pc = "idle"
    /\ GcTo([GcIdle EXCEPT !.pc = "scan", !.graph = stored])
    /\ GcFrame

\* GcEvents() fixes the cutoff and starts to scan the events collection.
\* Every event that is stored by now will be in the graph.  Recent events are
\* gray.
GcBegin ==
    /\ gc.pc = "idle"
    /\ GcTo([GcIdle EXCEPT
               !.pc = "scan", !.graph = stored,
               !.gray = {e \in stored : ~(etime[e] > RecentDuration)}])
    /\ GcFrame

\* The scan ends.  The cursor may or may not have seen the events that were
\* inserted meanwhile; it yields documents in the order of their insertion
\* (the WiredTiger storage engine), so it has not seen an event without its
\* parent.  They are recent.
GcScanned ==
    /\ gc.pc = "scan"
    /\ \E seen \in SUBSET (stored \ gc.graph) :
          LET graph == gc.graph \cup seen
          IN  /\ \A e \in seen : parent[e] \in stored => parent[e] \in graph
              /\ GcTo([gc EXCEPT
                         !.pc = "mark", !.todo = Histories, !.graph = graph,
                         !.gray = @ \cup seen])
    /\ GcFrame

\* Faulty variant of GcMark: the head does not protect its ancestors.
GcMarkNoHead(h) ==
    LET r == refs[h]
        lost == {e \in {r.head, r.tail} : e # EventEpoch} \ gc.graph
    IN  /\ gc.pc = "mark"
        /\ h \in gc.todo
        /\ lost = {}
        /\ GcTo([gc EXCEPT !.todo = @ \ {h},
                           !.tails = @ \cup ({r.tail} \ {EventEpoch})])
        /\ GcFrame

\* One refs document: its head becomes gray and its tail black.  A head or
\* tail that the scan has not seen ends Gc() with a CorruptedDataError.
GcMark(h) ==
    LET r == refs[h]
        lost == {e \in {r.head, r.tail} : e # EventEpoch} \ gc.graph
    IN  /\ gc.pc = "mark"
        /\ h \in gc.todo
        /\ \/ /\ lost = {}
              /\ GcTo([gc EXCEPT
                         !.todo = @ \ {h},
                         !.gray = @ \cup ({r.head} \ {EventEpoch}),
                         !.tails = @ \cup ({r.tail} \ {EventEpoch})])
           \/ lost # {} /\ GcTo(GcIdle)
        /\ GcFrame

\* paintBlack(): the strokes along the parents in the graph, from the gray
\* events, after at most n steps; a stroke ends at a black event.
Painted ==
    LET stroke[n \in 0..MaxEvents] ==
          IF n = 0 THEN gc.gray \ gc.tails
          ELSE stroke[n - 1] \cup
                 (({parent[e] : e \in stroke[n - 1]} \cap gc.graph) \ gc.tails)
    IN  gc.tails \cup stroke[MaxEvents]

\* The events that stay white are the ones to remove.
GcPaint ==
    /\ gc.pc = "mark"
    /\ gc.todo = {}
    /\ GcTo([GcIdle EXCEPT !.pc = "sweep", !.graph = gc.graph \ Painted])
    /\ GcFrame

GcRemoveEvent(e) ==
    /\ gc.pc = "sweep"
    /\ e \in gc.graph
    /\ stored' = stored \ {e}
    /\ GcTo([gc EXCEPT !.graph = @ \ {e}])
    /\ UNCHANGED <<nextId, parent, refs, journal, log, heads, cl>>
    /\ UNCHANGED <<etime, dtime, epochLog, began, tr>>

GcEventsDone ==
    /\ gc.pc = "sweep"
    /\ gc.graph = {}
    /\ GcTo([GcIdle EXCEPT !.pc = "tails", !.todo = Histories])
    /\ GcFrame

\* gcOneJournalTail(): find the serial of the tail, then remove the entries
\* before it.
GcReadTail(h) ==
    LET t == refs[h].tail
    IN  /\ gc.pc = "tails"
        /\ h \in gc.todo
        /\ IF IsActive(h) /\ t # EventEpoch /\ journal[h][t] # 0
           THEN GcTo([gc EXCEPT !.pc = "removeTail", !.h = h,
                                !.todo = @ \ {h}, !.serial = journal[h][t]])
           ELSE GcTo([gc EXCEPT !.todo = @ \ {h}])
        /\ GcFrame

GcRemoveTail ==
    /\ gc.pc = "removeTail"
    /\ journal' = [journal EXCEPT ![gc.h] =
                     [e \in EvId |-> IF @[e] < gc.serial THEN 0 ELSE @[e]]]
    /\ GcTo([gc EXCEPT !.pc = "tails"])
    /\ UNCHANGED <<nextId, parent, stored, refs, log, heads, cl>>
    /\ UNCHANGED <<etime, dtime, epochLog, began, tr>>

\* GcDeletedRefs(): afterwards the history id is free again.
GcDeletedRefs ==
    LET gone == {h \in Histories : /\ refs[h].phase = "deleted"
                                   /\ dtime[h] > DeletedDuration}
        clear(f, empty) ==
            [h \in Histories |-> IF h \in gone THEN empty ELSE f[h]]
    IN  /\ gc.pc = "tails"
        /\ gc.todo = {}
        /\ refs' = clear(refs, NoRefs)
        /\ log' = clear(log, << >>)
        /\ heads' = clear(heads, {})
        /\ epochLog' = clear(epochLog, << >>)
        /\ dtime' = clear(dtime, 0)
        /\ GcTo([GcIdle EXCEPT !.pc = "deleting", !.todo = Histories])
        /\ UNCHANGED <<nextId, parent, stored, journal, cl>>
        /\ UNCHANGED <<etime, began, tr>>

\* Faulty variant of GcInvalidate: it does not wait for running calls.
GcInvalidateNoWait(h) ==
    /\ gc.pc = "deleting"
    /\ h \in gc.todo
    /\ \/ /\ refs[h].phase = "deleting"
          /\ refs' = [refs EXCEPT ![h].serial = HeadSerialUnspecified]
          /\ GcTo([gc EXCEPT !.pc = "removeJournal", !.h = h,
                             !.todo = @ \ {h}])
       \/ /\ refs[h].phase # "deleting"
          /\ GcTo([gc EXCEPT !.todo = @ \ {h}])
          /\ UNCHANGED refs
    /\ UNCHANGED <<nextId, parent, stored, journal, log, heads, cl>>
    /\ UNCHANGED <<etime, dtime, epochLog, began, tr>>

\* GcDeletingJournals(): the cursor yields the histories that are being
\* deleted; gcOneDeletingJournal() first invalidates the serial, ...
GcInvalidate(h) ==
    /\ gc.pc = "deleting"
    /\ h \in gc.todo
    /\ \/ /\ refs[h].phase = "deleting"
          /\ dtime[h] > DeletingDuration
          /\ refs' = [refs EXCEPT ![h].serial = HeadSerialUnspecified]
          /\ GcTo([gc EXCEPT !.pc = "removeJournal", !.h = h,
                             !.todo = @ \ {h}])
       \/ /\ ~(/\ refs[h].phase = "deleting"
               /\ dtime[h] > DeletingDuration)
          /\ GcTo([gc EXCEPT !.todo = @ \ {h}])
          /\ UNCHANGED refs
    /\ UNCHANGED <<nextId, parent, stored, journal, log, heads, cl>>
    /\ UNCHANGED <<etime, dtime, epochLog, began, tr>>

\* ... then removes the entries, ...
GcRemoveJournal ==
    /\ gc.pc = "removeJournal"
    /\ journal' = [journal EXCEPT ![gc.h] = [e \in EvId |-> 0]]
    /\ GcTo([gc EXCEPT !.pc = "setDeleted"])
    /\ UNCHANGED <<nextId, parent, stored, refs, log, heads, cl>>
    /\ UNCHANGED <<etime, dtime, epochLog, began, tr>>

\* ... and finally records that the journal is gone.
GcSetDeleted ==
    /\ gc.pc = "setDeleted"
    /\ refs' = [refs EXCEPT ![gc.h].phase =
                  IF @ = "deleting" THEN "deleted" ELSE @]
    /\ GcTo([gc EXCEPT !.pc = "deleting"])
    /\ UNCHANGED <<nextId, parent, stored, journal, log, heads, cl>>
    /\ UNCHANGED <<etime, dtime, epochLog, began, tr>>

GcEnd ==
    /\ gc.pc = "deleting"
    /\ gc.todo = {}
    /\ GcTo(GcIdle)
    /\ GcFrame

\* The context is canceled or the database fails.
GcStop ==
    /\ gc.pc # "idle"
    /\ GcTo(GcIdle)
    /\ GcFrame

GcNext ==
    \/ GcBegin \/ GcScanned \/ GcPaint \/ GcEventsDone
    \/ GcRemoveTail \/ GcDeletedRefs \/ GcRemoveJournal \/ GcSetDeleted
    \/ GcEnd \/ GcStop
    \/ \E h \in Histories : GcMark(h) \/ GcReadTail(h) \/ GcInvalidate(h)
    \/ \E e \in EvId : GcRemoveEvent(e)

MNext == (\E c \in Clients : ClientCall(c)) \/ Tick \/ TrimNext \/ GcNext

MSpec == MInit /\ [][MNext]_allVars

-----------------------------------------------------------------------------
(***************************************************************************)
(* Properties.                                                             *)
(***************************************************************************)

\* The position of a version in the history, 0 for EventEpoch.
Pos(h, vid) ==
    IF vid = EventEpoch THEN 0
    ELSE CHOOSE i \in 1..Len(log[h]) : log[h][i] = vid

\* The events from the tail to the head of a history are never collected, not
\* even while it is being deleted.
TailToHeadStored ==
    \A h \in Histories : \A i \in 1..Len(log[h]) :
        i >= Pos(h, refs[h].tail) => log[h][i] \in stored

\* The events that an unfinished Commit() has stored survive until it moves
\* the head, although nothing refers to them yet.
UncommittedSurvive ==
    \A c \in Clients :
        LET s == cl[c]
        IN  s.pc \in {"store", "updateHead"} =>
              \A i \in 1..s.n : s.evs[i] \in stored

\* ensureJournal() never fails.  Find() fails, at its start or in the middle of
\* the iteration, only if the caller asks for the events after a version that
\* the trimmer has cut off, never if it reads from the epoch; and no version is
\* cut off before a later epoch has been in place for SinceEpochUpdate.
FindFailsOnlyBeforeTail ==
    \A c \in Clients :
        LET s == cl[c]
        IN  /\ s.err \notin {"FindEventError", "SerialMismatch"}
            /\ s.err \in JournalErrors /\ IsActive(s.h) =>
                  /\ s.vid # EventEpoch
                  /\ \E i \in DOMAIN epochLog[s.h] :
                        /\ epochLog[s.h][i].time > SinceEpochUpdate
                        /\ Pos(s.h, s.vid) < Pos(s.h, epochLog[s.h][i].epoch)

\* Nothing of a removed history is left in the journal: its id can be used
\* again for a history with other events.
RemovedLeavesNoEntries ==
    \A h \in Histories :
        refs[h].phase \in {"none", "deleted"} =>
            \A e \in EvId : journal[h][e] = 0

=============================================================================
