---------------------------- MODULE EventJournal ----------------------------
(***************************************************************************)
(* The event journal of the nog backend (backend/internal/events):         *)
(* histories of events stored in three MongoDB collections.                *)
(*                                                                         *)
(*   events   the event documents, each naming its parent event;           *)
(*   refs     one document per history: its head, epoch and tail event,    *)
(*            the serial of the head, and the phase of its deletion;       *)
(*   journal  per history, the serial number of each serialized event.     *)
(*                                                                         *)
(* MongoDB makes a single-document operation atomic and nothing else, so   *)
(* every database call of `Commit`, `Find`, `ensureJournal` and `Delete`   *)
(* is an action of its own, and the calls of the clients interleave.  A    *)
(* client may also stop between any two calls.                             *)
(*                                                                         *)
(* Event ids are numbers: ULIDs are unique and grow with time.  What an    *)
(* event says is left out; its document is its parent id.  The trimmer and *)
(* the garbage collectors are added by JournalMaintenance.                 *)
(***************************************************************************)
EXTENDS Naturals, Sequences

CONSTANTS
    Histories,      \* history ids
    Clients,        \* goroutines that call the journal
    MaxEvents,      \* bound: ids 1..MaxEvents can be created
    MaxBatch        \* bound: events that one command emits

ASSUME JournalAssumption ==
    /\ MaxEvents \in Nat
    /\ MaxBatch \in Nat
    /\ Histories # {}

EventEpoch == 0                     \* the nil ULID
HeadSerialUnspecified == 0
EvId == 1..MaxEvents
Vid == 0..MaxEvents
Phase == {"none", "active", "deleting", "deleted"}

\* A refs document; phase "none" stands for a missing document.
RefsDoc == [head: Vid, epoch: Vid, tail: Vid, serial: Nat, phase: Phase]

NoRefs ==
    [head |-> EventEpoch, epoch |-> EventEpoch, tail |-> EventEpoch,
     serial |-> HeadSerialUnspecified, phase |-> "none"]

VARIABLES
    nextId,     \* the next unused event id
    parent,     \* the parent named in each event document
    stored,     \* ids of the documents in the events collection
    refs,       \* the refs collection
    journal,    \* the journal collection: serial per event, 0 if no entry
    log,        \* history variable: the committed events in commit order
    heads,      \* history variable: every value a head has had
    cl          \* the call each client is executing

vars == <<nextId, parent, stored, refs, journal, log, heads, cl>>

\* Outcomes of a call.
NoErr == "nil"
JournalErrors ==
    {"SerialMismatch", "ParentMismatch", "FindEventError", "FindStartError"}
CommitErrors == {"VersionConflict", "UnknownHistory", "InsertHeadError"}

ClientState ==
    [pc: {"idle", "store", "updateHead", "commitConflict", "deleteConflict",
          "walkSerial", "walkEvent", "insert", "start", "iter", "done"},
     h: Histories,
     evs: Seq(EvId),    \* the batch to commit, or the parents walked so far
     n: Nat,            \* progress in evs
     snap: RefsDoc,     \* the refs document as ensureJournal() read it
     vid: Vid,          \* expected head, or the event to find after
     cur: Vid,          \* position of the parent walk, or Iter.prev
     serial: Nat,       \* the running serial, or the serial of the cursor
     out: Seq(EvId),    \* events that the iterator has returned
     err: {NoErr} \cup JournalErrors \cup CommitErrors]

NewCall(h) ==
    [pc |-> "idle", h |-> h, evs |-> << >>, n |-> 0, snap |-> NoRefs,
     vid |-> EventEpoch, cur |-> EventEpoch, serial |-> 0, out |-> << >>,
     err |-> NoErr]

Idle == NewCall(CHOOSE h \in Histories : TRUE)

Init ==
    /\ nextId = 1
    /\ parent = [e \in EvId |-> EventEpoch]
    /\ stored = {}
    /\ refs = [h \in Histories |-> NoRefs]
    /\ journal = [h \in Histories |-> [e \in EvId |-> 0]]
    /\ log = [h \in Histories |-> << >>]
    /\ heads = [h \in Histories |-> {}]
    /\ cl = [c \in Clients |-> Idle]

IsActive(h) == refs[h].phase = "active"
HeadOf(h) == IF IsActive(h) THEN refs[h].head ELSE EventEpoch

\* A caller knows a version because it has seen it as a head, or it starts
\* from the epoch.  Versions may be arbitrarily stale.
KnownVids(h) == {EventEpoch} \cup heads[h]

storeVars == <<nextId, parent, stored, refs, journal, log, heads>>
Goto(c, s) == cl' = [cl EXCEPT ![c] = s]

\* The call returns; its local variables are gone.
Finish(c, err) ==
    Goto(c, [cl[c] EXCEPT !.pc = "done", !.err = err, !.evs = << >>, !.n = 0,
                          !.cur = EventEpoch, !.serial = 0])

-----------------------------------------------------------------------------
(***************************************************************************)
(* Commit(historyId, evs).                                                 *)
(***************************************************************************)

\* The caller builds a chain of `n` events on `vid`; eventsWithId() makes the
\* ids and links each event to the one before it.
CommitBegin(c, h, vid, n) ==
    LET ids == nextId..(nextId + n - 1)
    IN  /\ cl[c].pc = "idle"
        /\ nextId + n <= MaxEvents + 1
        /\ nextId' = nextId + n
        /\ parent' = [e \in EvId |->
                        IF e \notin ids THEN parent[e]
                        ELSE IF e = nextId THEN vid ELSE e - 1]
        /\ Goto(c, [NewCall(h) EXCEPT !.pc = "store", !.vid = vid,
                                   !.evs = [i \in 1..n |-> nextId + i - 1]])
        /\ UNCHANGED <<stored, refs, journal, log, heads>>

\* ensureStoredEvent().  A fresh id is never a duplicate.
StoreEvent(c) ==
    LET s == cl[c]
    IN  /\ s.pc = "store"
        /\ stored' = stored \cup {s.evs[s.n + 1]}
        /\ Goto(c, [s EXCEPT !.n = s.n + 1,
                             !.pc = IF s.n + 1 = Len(s.evs)
                                    THEN "updateHead" ELSE "store"])
        /\ UNCHANGED <<nextId, parent, refs, journal, log, heads>>

\* What a successful update of the head commits.
MoveHead(c, h, doc) ==
    LET s == cl[c]
    IN  /\ refs' = [refs EXCEPT ![h] = doc]
        /\ log' = [log EXCEPT ![h] = @ \o s.evs]
        /\ heads' = [heads EXCEPT ![h] = @ \cup {doc.head}]
        /\ Finish(c, NoErr)
        /\ UNCHANGED <<nextId, parent, stored, journal>>

\* The first commit inserts the refs document; a second insert is an error.
InsertHead(c) ==
    LET s == cl[c]
    IN  /\ s.pc = "updateHead"
        /\ s.vid = EventEpoch
        /\ \/ /\ refs[s.h].phase = "none"
              /\ MoveHead(c, s.h, [NoRefs EXCEPT !.head = s.evs[Len(s.evs)],
                                                 !.phase = "active"])
           \/ /\ refs[s.h].phase # "none"
              /\ Finish(c, "InsertHeadError")
              /\ UNCHANGED storeVars

\* Faulty variant of UpdateHead: the selector leaves out the expected head.
UpdateHeadNoCas(c) ==
    LET s == cl[c]
    IN  /\ s.pc = "updateHead"
        /\ s.vid # EventEpoch
        /\ \/ /\ IsActive(s.h)
              /\ MoveHead(c, s.h, [refs[s.h] EXCEPT
                                     !.head = s.evs[Len(s.evs)],
                                     !.serial = HeadSerialUnspecified])
           \/ /\ ~IsActive(s.h)
              /\ Goto(c, [s EXCEPT !.pc = "commitConflict"])
              /\ UNCHANGED storeVars

\* Later commits move the head only if it still is the expected parent.
UpdateHead(c) ==
    LET s == cl[c]
    IN  /\ s.pc = "updateHead"
        /\ s.vid # EventEpoch
        /\ \/ /\ IsActive(s.h)
              /\ refs[s.h].head = s.vid
              /\ MoveHead(c, s.h, [refs[s.h] EXCEPT
                                     !.head = s.evs[Len(s.evs)],
                                     !.serial = HeadSerialUnspecified])
           \/ /\ ~(IsActive(s.h) /\ refs[s.h].head = s.vid)
              /\ Goto(c, [s EXCEPT !.pc = "commitConflict"])
              /\ UNCHANGED storeVars

\* The head is read again to tell a version conflict from a missing history.
CommitConflict(c) ==
    LET s == cl[c]
    IN  /\ s.pc = "commitConflict"
        /\ Finish(c, IF HeadOf(s.h) = EventEpoch THEN "UnknownHistory"
                     ELSE "VersionConflict")
        /\ UNCHANGED storeVars

-----------------------------------------------------------------------------
(***************************************************************************)
(* Delete(historyId, head).                                                *)
(***************************************************************************)

DeleteRefs(c, h, vid) ==
    /\ cl[c].pc = "idle"
    /\ vid # EventEpoch
    /\ \/ /\ IsActive(h)
          /\ refs[h].head = vid
          /\ refs' = [refs EXCEPT ![h].phase = "deleting"]
          /\ UNCHANGED cl
       \/ /\ ~(IsActive(h) /\ refs[h].head = vid)
          /\ Goto(c, [NewCall(h) EXCEPT !.pc = "deleteConflict", !.vid = vid])
          /\ UNCHANGED refs
    /\ UNCHANGED <<nextId, parent, stored, journal, log, heads>>

\* Deleting a history that is gone already is no error.
DeleteConflict(c) ==
    LET s == cl[c]
    IN  /\ s.pc = "deleteConflict"
        /\ Finish(c, IF HeadOf(s.h) = EventEpoch THEN NoErr
                     ELSE "VersionConflict")
        /\ UNCHANGED storeVars

-----------------------------------------------------------------------------
(***************************************************************************)
(* Find(historyId, after): ensureJournal(), then an iteration.             *)
(***************************************************************************)

\* ensureJournal() starts by reading the refs.  There is nothing to find in a
\* missing or deleted history, and a known serial needs no walk.
FindBegin(c, h, after) ==
    LET r == refs[h]
        s == [NewCall(h) EXCEPT !.vid = after, !.snap = r]
    IN  /\ cl[c].pc = "idle"
        /\ \/ /\ r.phase # "active"
              /\ Goto(c, [s EXCEPT !.pc = "done"])
           \/ /\ r.phase = "active"
              /\ r.serial # HeadSerialUnspecified
              /\ Goto(c, [s EXCEPT !.pc = "start", !.serial = r.serial])
           \/ /\ r.phase = "active"
              /\ r.serial = HeadSerialUnspecified
              /\ Goto(c, [s EXCEPT !.pc = "walkSerial", !.cur = r.head])
        /\ UNCHANGED storeVars

\* findSerial(): the walk ends at the first event that has an entry.
WalkSerial(c) ==
    LET s == cl[c]
        toInsert(serial) ==
            Goto(c, [s EXCEPT !.pc = "insert", !.serial = serial,
                              !.n = Len(s.evs)])
    IN  /\ s.pc = "walkSerial"
        /\ \/ /\ s.cur = EventEpoch
              /\ toInsert(0)
           \/ /\ s.cur # EventEpoch
              /\ journal[s.h][s.cur] # 0
              /\ toInsert(journal[s.h][s.cur])
           \/ /\ s.cur # EventEpoch
              /\ journal[s.h][s.cur] = 0
              /\ Goto(c, [s EXCEPT !.pc = "walkEvent"])
        /\ UNCHANGED storeVars

\* The event document is read for its parent.  The walk also ends, with a
\* serial that starts over, at the tail.
WalkEvent(c) ==
    LET s == cl[c]
        evs == Append(s.evs, s.cur)
        atTail == s.snap.tail # EventEpoch /\ s.cur = s.snap.tail
    IN  /\ s.pc = "walkEvent"
        /\ \/ /\ s.cur \notin stored
              /\ Finish(c, "FindEventError")
           \/ /\ s.cur \in stored
              /\ Goto(c, IF atTail
                         THEN [s EXCEPT !.pc = "insert", !.evs = evs,
                                        !.serial = 0, !.n = Len(evs)]
                         ELSE [s EXCEPT !.pc = "walkSerial", !.evs = evs,
                                        !.cur = parent[s.cur]])
        /\ UNCHANGED storeVars

\* Faulty variant of InsertEntry: the latest event comes first.
InsertEntryReversed(c) ==
    LET s == cl[c]
        e == s.evs[Len(s.evs) + 1 - s.n]
        next == s.serial + 1
        advanced == [s EXCEPT !.serial = next, !.n = s.n - 1]
    IN  /\ s.pc = "insert"
        /\ s.n > 0
        /\ \/ /\ journal[s.h][e] = 0
              /\ journal' = [journal EXCEPT ![s.h][e] = next]
              /\ Goto(c, advanced)
           \/ /\ journal[s.h][e] # 0
              /\ UNCHANGED journal
              /\ IF journal[s.h][e] = next THEN Goto(c, advanced)
                 ELSE Finish(c, "SerialMismatch")
        /\ UNCHANGED <<nextId, parent, stored, refs, log, heads>>

\* ensureJournalEntry(): insert the next entry, oldest event first, or check
\* that the entry that somebody else has inserted is the same.
InsertEntry(c) ==
    LET s == cl[c]
        e == s.evs[s.n]
        next == s.serial + 1
        advanced == [s EXCEPT !.serial = next, !.n = s.n - 1]
    IN  /\ s.pc = "insert"
        /\ s.n > 0
        /\ \/ /\ journal[s.h][e] = 0
              /\ journal' = [journal EXCEPT ![s.h][e] = next]
              /\ Goto(c, advanced)
           \/ /\ journal[s.h][e] # 0
              /\ UNCHANGED journal
              /\ IF journal[s.h][e] = next THEN Goto(c, advanced)
                 ELSE Finish(c, "SerialMismatch")
        /\ UNCHANGED <<nextId, parent, stored, refs, log, heads>>

\* Faulty variant of SetSerial: the document is saved as it has been read, and
\* its phase is not selected.
SetSerialSavesDoc(c) ==
    LET s == cl[c]
    IN  /\ s.pc = "insert"
        /\ s.n = 0
        /\ refs' = IF refs[s.h].head = s.snap.head
                   THEN [refs EXCEPT ![s.h] = [s.snap EXCEPT
                                                 !.serial = s.serial]]
                   ELSE refs
        /\ Goto(c, [s EXCEPT !.pc = "start"])
        /\ UNCHANGED <<nextId, parent, stored, journal, log, heads>>

\* The serial of the head is stored unless the head has moved meanwhile.
SetSerial(c) ==
    LET s == cl[c]
    IN  /\ s.pc = "insert"
        /\ s.n = 0
        /\ refs' = IF IsActive(s.h) /\ refs[s.h].head = s.snap.head
                   THEN [refs EXCEPT ![s.h].serial = s.serial]
                   ELSE refs
        /\ Goto(c, [s EXCEPT !.pc = "start"])
        /\ UNCHANGED <<nextId, parent, stored, journal, log, heads>>

\* The serial of the event to start after; from here on `n` is the serial of
\* the cursor and `serial` the limit headSerial.
FindStart(c) ==
    LET s == cl[c]
        after == IF s.vid = EventEpoch THEN s.snap.epoch ELSE s.vid
        iterate(serial) ==
            Goto(c, [s EXCEPT !.pc = "iter", !.n = serial, !.cur = after])
    IN  /\ s.pc = "start"
        /\ \/ /\ after = EventEpoch
              /\ iterate(0)
           \/ /\ after # EventEpoch
              /\ IF journal[s.h][after] # 0 THEN iterate(journal[s.h][after])
                 ELSE Finish(c, "FindStartError")
        /\ UNCHANGED storeVars

\* Faulty variant of Remaining: the query has no upper limit.
RemainingNoLimit(s) ==
    {e \in EvId : journal[s.h][e] > s.n}

\* The entries that the query of the iterator has still to return.
Remaining(s) ==
    {e \in EvId : journal[s.h][e] > s.n /\ journal[s.h][e] <= s.serial}

\* Faulty variant of IterNext: the previous event is not remembered.
IterNextKeepsPrev(c) ==
    LET s == cl[c]
    IN  /\ s.pc = "iter"
        /\ \E e \in Remaining(s) :
              /\ \A f \in Remaining(s) : journal[s.h][e] <= journal[s.h][f]
              /\ IF parent[e] = s.cur
                 THEN Goto(c, [s EXCEPT !.n = journal[s.h][e],
                                        !.out = Append(s.out, e)])
                 ELSE Finish(c, "ParentMismatch")
        /\ UNCHANGED storeVars

\* Iter.Next(): the entry with the next serial, whose parent must be the
\* event returned before.
IterNext(c) ==
    LET s == cl[c]
    IN  /\ s.pc = "iter"
        /\ \E e \in Remaining(s) :
              /\ \A f \in Remaining(s) : journal[s.h][e] <= journal[s.h][f]
              /\ IF parent[e] = s.cur
                 THEN Goto(c, [s EXCEPT !.n = journal[s.h][e], !.cur = e,
                                        !.out = Append(s.out, e)])
                 ELSE Finish(c, "ParentMismatch")
        /\ UNCHANGED storeVars

IterEnd(c) ==
    /\ cl[c].pc = "iter"
    /\ Remaining(cl[c]) = {}
    /\ Finish(c, NoErr)
    /\ UNCHANGED storeVars

-----------------------------------------------------------------------------
\* The caller takes the result.
Return(c) ==
    /\ cl[c].pc = "done"
    /\ Goto(c, Idle)
    /\ UNCHANGED storeVars

\* A client stops between two calls: the process is killed, a context is
\* canceled, or the database cannot be reached.
Stop(c) ==
    /\ cl[c].pc \notin {"idle", "done"}
    /\ Goto(c, Idle)
    /\ UNCHANGED storeVars

CommitStep(c) ==
    StoreEvent(c) \/ InsertHead(c) \/ UpdateHead(c) \/ CommitConflict(c)

FindStep(c) ==
    \/ WalkSerial(c) \/ WalkEvent(c) \/ InsertEntry(c) \/ SetSerial(c)
    \/ FindStart(c) \/ IterNext(c) \/ IterEnd(c)

CallStep(c) == CommitStep(c) \/ DeleteConflict(c) \/ FindStep(c)

BeginCall(c) ==
    \E h \in Histories : \E vid \in KnownVids(h) :
        \/ \E n \in 1..MaxBatch : CommitBegin(c, h, vid, n)
        \/ DeleteRefs(c, h, vid)
        \/ FindBegin(c, h, vid)

ClientNext(c) == BeginCall(c) \/ CallStep(c) \/ Return(c) \/ Stop(c)

Next == \E c \in Clients : ClientNext(c)

Spec == Init /\ [][Next]_vars

-----------------------------------------------------------------------------
(***************************************************************************)
(* Properties.                                                             *)
(***************************************************************************)

\* Every variable has its type.
TypeOK ==
    /\ nextId \in 1..(MaxEvents + 1)
    /\ parent \in [EvId -> Vid]
    /\ stored \subseteq EvId
    /\ refs \in [Histories -> RefsDoc]
    /\ journal \in [Histories -> [EvId -> Nat]]
    /\ log \in [Histories -> Seq(EvId)]
    /\ heads \in [Histories -> SUBSET EvId]
    /\ cl \in [Clients -> ClientState]

\* The i-th committed event of a history; EventEpoch is before the first.
At(h, i) == IF i = 0 THEN EventEpoch ELSE log[h][i]

\* No commit is lost and none forks a history: from the head of every history
\* the parent pointers lead through exactly the committed events, latest
\* first, and every one of them is stored.  (Commit() stores the events before
\* it moves the head, and moves the head by compare and swap.)
HeadReachesLog ==
    \A h \in Histories :
        /\ \A i \in 1..Len(log[h]) :
              /\ log[h][i] \in stored
              /\ parent[log[h][i]] = At(h, i - 1)
        /\ refs[h].phase = "none" => log[h] = << >>
        /\ refs[h].phase # "none" =>
              log[h] # << >> /\ refs[h].head = log[h][Len(log[h])]

\* The serialized journal never disagrees with the history: entry number s is
\* the s-th committed event, and no entry is there without the ones before it,
\* whatever the order in which concurrent calls of ensureJournal() insert.
JournalIsPrefix ==
    \A h \in Histories : \A e \in EvId :
        LET s == journal[h][e]
        IN  s # 0 =>
              /\ s <= Len(log[h])
              /\ log[h][s] = e
              /\ \A i \in 1..s : journal[h][log[h][i]] = i

\* ensureJournal() returns early on a specified serial, so it must be the
\* serial of the current head and the entry of the head must be there.
SerialIsOfHead ==
    \A h \in Histories :
        refs[h].serial # HeadSerialUnspecified =>
            /\ refs[h].head \in EvId
            /\ journal[h][refs[h].head] = refs[h].serial

\* The consistency errors of ensureJournalEntry() and Iter.Next(), and the
\* lookups that Find() cannot do without, never fail.
NoJournalError == \A c \in Clients : cl[c].err \notin JournalErrors

\* Find() returns the committed events after the given one, without a gap, up
\* to the head at the time of the call: all or none of the events of a command,
\* whatever is committed or serialized concurrently.
FindReturnsWholeCommits ==
    \A c \in Clients :
        LET s == cl[c]
        IN  s.pc = "done" /\ s.snap.phase = "active" /\ s.err = NoErr =>
              \E a, b \in 0..Len(log[s.h]) :
                  /\ a <= b
                  /\ At(s.h, a) = s.vid
                  /\ At(s.h, b) = s.snap.head
                  /\ Len(s.out) = b - a
                  /\ \A i \in 1..(b - a) : s.out[i] = log[s.h][a + i]

\* The events from the first one to a given one along the parent pointers p.
Path(p) ==
    LET to[e \in Vid] == IF e = EventEpoch THEN << >>
                         ELSE Append(to[p[e]], e)
    IN  to

\* The history that the documents of the database represent.
Chain(h) == Path(parent)[refs[h].head]

Status(h) == IF refs[h].phase = "deleting" THEN "deleted" ELSE refs[h].phase

EL == INSTANCE EventLog WITH
        events <- [h \in Histories |-> Chain(h)],
        status <- [h \in Histories |-> Status(h)]

\* The documents in the database, which change call by call, implement a log
\* to which commands append whole batches of events.
ImplementsEventLog == EL!LSpec

=============================================================================
