-------------------------- MODULE AggregateEngine --------------------------
(***************************************************************************)
(* The aggregate engine (backend/internal/events/engine.go): a cache of    *)
(* aggregate states on top of the event journal, and the commands that     *)
(* change one aggregate.                                                   *)
(*                                                                         *)
(* Several engines, in several processes, use the same journal, and        *)
(* several goroutines use the same engine.  The lock of an engine protects *)
(* single accesses of its cache, so the steps of a call are: read the      *)
(* cache, find newer events, write the cache, decide and commit, write the *)
(* cache.  The journal is the log that EventJournal implements; the events *)
(* of one command are one element of it, because Find() returns all or     *)
(* none of them.  Histories do not share any state: there is one here.     *)
(*                                                                         *)
(* A state is the sequence of commits that the Advancer has applied, and   *)
(* its Vid() the last one.  A Behavior may answer a command in any way.    *)
(***************************************************************************)
EXTENDS Naturals, Sequences

CONSTANTS
    Engines,        \* engines that share the journal
    Callers,        \* goroutines
    RetryN,         \* cfgRetryN
    MaxCommits      \* bound: commits to the history

ASSUME EngineAssumption ==
    /\ Engines # {}
    /\ RetryN \in Nat
    /\ MaxCommits \in Nat

EventEpoch == 0
Commits == 1..MaxCommits
State == Seq(Commits)
NewState == << >>

\* The version of a state.
VidOf(s) == IF s = NewState THEN EventEpoch ELSE s[Len(s)]

\* The ways to call the engine.  A versioned command names a version.
Kinds == {"Find", "NoVC", "RetryNoVC", "VC", "DeleteNoVC", "DeleteVC"}
Deletes == {"DeleteNoVC", "DeleteVC"}

VARIABLES
    phase,      \* "none", "active" or "deleted", of the refs document
    log,        \* the commits of the history
    base,       \* history variable: the state each commit was decided on
    deletedOn,  \* history variable: the state the deletion was decided on
    cache,      \* the cached state of each engine; NewState if there is none
    call        \* the call of each goroutine

vars == <<phase, log, base, deletedOn, cache, call>>

Errors ==
    {"nil", "VersionConflict", "UnknownHistory", "InsertHead", "RetryNoVC",
     "Behavior", "DB"}

\* A call: the engine, the command and its version, the state found so far.
CallType ==
    [pc: {"idle", "lookup", "find", "cache", "found", "conflict", "committed",
          "deleteConflict", "uncache", "done"},
     eng: Engines, kind: Kinds, vid: 0..MaxCommits, s: State,
     retries: 0..RetryN, err: Errors, seen: 0..MaxCommits]

Idle ==
    [pc |-> "idle", eng |-> CHOOSE e \in Engines : TRUE, kind |-> "Find",
     vid |-> EventEpoch, s |-> NewState, retries |-> 0, err |-> "nil",
     seen |-> 0]

Init ==
    /\ phase = "none"
    /\ log = NewState
    /\ base = [k \in Commits |-> NewState]
    /\ deletedOn = NewState
    /\ cache = [e \in Engines |-> NewState]
    /\ call = [c \in Callers |-> Idle]

Goto(c, s) == call' = [call EXCEPT ![c] = s]
Returned(s, err) ==
    [Idle EXCEPT !.pc = "done", !.eng = s.eng, !.kind = s.kind, !.err = err]
Return(c, s, err) == Goto(c, Returned(s, err))
journalVars == <<phase, log, base, deletedOn>>

HeadVid == IF phase = "active" THEN VidOf(log) ELSE EventEpoch

-----------------------------------------------------------------------------
\* A call begins by reading the cache of an engine under its lock: FindId().
\* `seen` remembers the history at this time.
Begin(c, e, kind, vid) ==
    /\ call[c].pc = "idle"
    /\ Goto(c, [Idle EXCEPT !.pc = "find", !.eng = e, !.kind = kind,
                            !.vid = vid, !.s = cache[e], !.seen = Len(log)])
    /\ UNCHANGED <<journalVars, cache>>

\* deleteIdVidNoVC() first returns early if the history is empty.
BeginDeleteNoVC(c, e) ==
    LET s == [Idle EXCEPT !.eng = e, !.kind = "DeleteNoVC",
                          !.seen = Len(log)]
    IN  /\ call[c].pc = "idle"
        /\ IF HeadVid = EventEpoch THEN Return(c, s, "nil")
           ELSE Goto(c, [s EXCEPT !.pc = "lookup"])
        /\ UNCHANGED <<journalVars, cache>>

\* FindId() of a deletion and of a retry.
Lookup(c) ==
    LET s == call[c]
    IN  /\ s.pc = "lookup"
        /\ Goto(c, [s EXCEPT !.pc = "find", !.s = cache[s.eng]])
        /\ UNCHANGED <<journalVars, cache>>

\* The commits after `s`.  Nothing is found in a history that is not active.
Newer(s) == IF phase = "active" THEN SubSeq(log, Len(s) + 1, Len(log))
            ELSE << >>

\* Faulty variant of FindFromState: a cached state is not brought up to date.
FindFromStateCached(c) ==
    LET s == call[c]
        new == IF s.s = NewState THEN Newer(s.s) ELSE << >>
    IN  /\ s.pc = "find"
        /\ Goto(c, [s EXCEPT !.s = s.s \o new,
                             !.pc = IF new = << >> THEN "found" ELSE "cache"])
        /\ UNCHANGED <<journalVars, cache>>

\* FindFromState(): advance the state by the events that are newer.  The cache
\* is written only if there are any.
FindFromState(c) ==
    LET s == call[c]
        new == Newer(s.s)
    IN  /\ s.pc = "find"
        /\ Goto(c, [s EXCEPT !.s = s.s \o new,
                             !.pc = IF new = << >> THEN "found" ELSE "cache"])
        /\ UNCHANGED <<journalVars, cache>>

CacheFound(c) ==
    LET s == call[c]
    IN  /\ s.pc = "cache"
        /\ cache' = [cache EXCEPT ![s.eng] = s.s]
        /\ Goto(c, [s EXCEPT !.pc = "found"])
        /\ UNCHANGED journalVars

VersionMatches(s) == s.kind \in {"VC", "DeleteVC"} => VidOf(s.s) = s.vid

\* The state that FindId() returns is the result of a query, and a versioned
\* command fails if it is not the expected one.
Found(c) ==
    LET s == call[c]
    IN  /\ s.pc = "found"
        /\ \/ /\ s.kind = "Find"
              /\ Return(c, s, "nil")
           \/ /\ ~VersionMatches(s)
              /\ Return(c, s, "VersionConflict")
        /\ UNCHANGED <<journalVars, cache>>

\* The command is told to the Behavior.
Told(c) ==
    /\ call[c].pc = "found"
    /\ call[c].kind # "Find"
    /\ VersionMatches(call[c])

-----------------------------------------------------------------------------
\* Faulty variant of TellFailed: the command is retried after any error.
TellFailedAnyError(c, err) ==
    LET s == call[c]
    IN  \/ /\ s.kind = "RetryNoVC"
           /\ s.retries = RetryN
           /\ Return(c, s, "RetryNoVC")
        \/ /\ s.kind = "RetryNoVC"
           /\ s.retries < RetryN
           /\ Goto(c, [s EXCEPT !.pc = "lookup", !.s = NewState,
                                !.retries = @ + 1])
        \/ /\ s.kind # "RetryNoVC"
           /\ Return(c, s, err)

\* tellIdVidRetryNoVC() starts over after a version conflict, RetryN times.
\* All other errors are returned.
TellFailed(c, err) ==
    LET s == call[c]
    IN  \/ /\ s.kind = "RetryNoVC"
           /\ s.retries = RetryN
           /\ Return(c, s, "RetryNoVC")
        \/ /\ s.kind = "RetryNoVC"
           /\ s.retries < RetryN
           /\ err = "VersionConflict"
           /\ Goto(c, [s EXCEPT !.pc = "lookup", !.s = NewState,
                                !.retries = @ + 1])
        \/ /\ \/ s.kind # "RetryNoVC"
              \/ s.retries < RetryN /\ err # "VersionConflict"
           /\ Return(c, s, err)

\* The Behavior refuses the command.
TellRefused(c) ==
    /\ Told(c)
    /\ TellFailed(c, "Behavior")
    /\ UNCHANGED <<journalVars, cache>>

\* The Behavior emits no events: the command is idempotent.
TellNothing(c) ==
    /\ Told(c)
    /\ call[c].kind \notin Deletes
    /\ Return(c, call[c], "nil")
    /\ UNCHANGED <<journalVars, cache>>

\* Journal.Commit() succeeds on top of the state that the command has seen.
Append1(c) ==
    LET s == call[c].s
        k == Len(log) + 1
    IN  /\ IF VidOf(s) = EventEpoch THEN phase = "none"
           ELSE phase = "active" /\ VidOf(log) = VidOf(s)
        /\ k <= MaxCommits
        /\ phase' = "active"
        /\ log' = Append(log, k)
        /\ base' = [base EXCEPT ![k] = s]
        /\ UNCHANGED deletedOn

\* tellStateEvents(): the Behavior emits events, which are committed.
Commit(c) ==
    LET s == call[c]
    IN  /\ Told(c)
        /\ s.kind \notin Deletes
        /\ Append1(c)
        /\ Goto(c, [s EXCEPT !.pc = "committed", !.s = log'])
        /\ UNCHANGED cache

\* The commit succeeds, and the answer of the database is lost.
CommitLost(c) ==
    LET s == call[c]
    IN  /\ Told(c)
        /\ s.kind \notin Deletes
        /\ Append1(c)
        /\ TellFailed(c, "DB")
        /\ UNCHANGED cache

\* The commit is refused.  The first commit fails if the history exists; the
\* other ones read the head again to report the error.
CommitRefused(c) ==
    LET s == call[c]
    IN  /\ Told(c)
        /\ s.kind \notin Deletes
        /\ \/ /\ VidOf(s.s) = EventEpoch
              /\ phase # "none"
              /\ TellFailed(c, "InsertHead")
           \/ /\ VidOf(s.s) # EventEpoch
              /\ ~(phase = "active" /\ VidOf(log) = VidOf(s.s))
              /\ Goto(c, [s EXCEPT !.pc = "conflict"])
        /\ UNCHANGED <<journalVars, cache>>

CommitConflict(c) ==
    /\ call[c].pc = "conflict"
    /\ TellFailed(c, IF HeadVid = EventEpoch THEN "UnknownHistory"
                     ELSE "VersionConflict")
    /\ UNCHANGED <<journalVars, cache>>

\* Faulty variant of CacheCommitted: the commit is applied to the state that
\* is in the cache now.
CacheCommittedOnCache(c) ==
    LET s == call[c]
        e == s.eng
    IN  /\ s.pc = "committed"
        /\ cache' = [cache EXCEPT ![e] = Append(@, VidOf(s.s))]
        /\ Return(c, s, "nil")
        /\ UNCHANGED journalVars

\* TellState() advances its own state by the commit and writes the cache.
CacheCommitted(c) ==
    LET s == call[c]
    IN  /\ s.pc = "committed"
        /\ cache' = [cache EXCEPT ![s.eng] = s.s]
        /\ Return(c, s, "nil")
        /\ UNCHANGED journalVars

-----------------------------------------------------------------------------
\* Faulty variant of Delete: the head that is stored is deleted.
DeleteAnyHead(c) ==
    LET s == call[c]
    IN  /\ Told(c)
        /\ s.kind \in Deletes
        /\ \/ /\ phase = "active"
              /\ phase' = "deleted"
              /\ deletedOn' = s.s
              /\ Goto(c, [s EXCEPT !.pc = "uncache"])
           \/ /\ phase # "active"
              /\ Goto(c, [s EXCEPT !.pc = "deleteConflict"])
              /\ UNCHANGED <<phase, deletedOn>>
        /\ UNCHANGED <<log, base, cache>>

\* deleteState(): the Behavior allows the deletion, and Journal.Delete() marks
\* the refs document if the head is the one that the command has seen.
Delete(c) ==
    LET s == call[c]
        current == phase = "active" /\ VidOf(log) = VidOf(s.s)
    IN  /\ Told(c)
        /\ s.kind \in Deletes
        /\ \/ /\ current
              /\ phase' = "deleted"
              /\ deletedOn' = s.s
              /\ Goto(c, [s EXCEPT !.pc = "uncache"])
           \/ /\ ~current
              /\ Goto(c, [s EXCEPT !.pc = "deleteConflict"])
              /\ UNCHANGED <<phase, deletedOn>>
        /\ UNCHANGED <<log, base, cache>>

\* Journal.Delete() reads the head again: already deleted is not an error.
DeleteConflict(c) ==
    LET s == call[c]
    IN  /\ s.pc = "deleteConflict"
        /\ IF HeadVid = EventEpoch THEN Goto(c, [s EXCEPT !.pc = "uncache"])
           ELSE Return(c, s, "VersionConflict")
        /\ UNCHANGED <<journalVars, cache>>

Uncache(c) ==
    /\ call[c].pc = "uncache"
    /\ cache' = [cache EXCEPT ![call[c].eng] = NewState]
    /\ Return(c, call[c], "nil")
    /\ UNCHANGED journalVars

-----------------------------------------------------------------------------
\* A call of the database fails without an effect; the call returns its error.
DBFails(c) ==
    /\ \/ /\ call[c].pc \in {"find", "deleteConflict"}
          /\ Return(c, call[c], "DB")
       \/ /\ call[c].pc = "conflict" \/ Told(c)
          /\ TellFailed(c, "DB")
    /\ UNCHANGED <<journalVars, cache>>

\* The caller takes the result.
Done(c) ==
    /\ call[c].pc = "done"
    /\ Goto(c, Idle)
    /\ UNCHANGED <<journalVars, cache>>

\* The process of an engine stops and starts again with an empty cache.
Restart(e) ==
    /\ cache' = [cache EXCEPT ![e] = NewState]
    /\ call' = [c \in Callers |-> IF call[c].eng = e THEN Idle ELSE call[c]]
    /\ UNCHANGED journalVars

Step(c) ==
    \/ Lookup(c) \/ FindFromState(c) \/ CacheFound(c)
    \/ Found(c) \/ TellRefused(c) \/ TellNothing(c) \/ Commit(c)
    \/ CommitLost(c) \/ CommitRefused(c) \/ CommitConflict(c)
    \/ CacheCommitted(c) \/ Delete(c) \/ DeleteConflict(c) \/ Uncache(c)
    \/ DBFails(c) \/ Done(c)

\* The versions that a caller may have seen.
KnownVids == {EventEpoch} \cup {log[i] : i \in 1..Len(log)}

BeginAny(c, e) ==
    \/ \E kind \in {"Find", "NoVC", "RetryNoVC"} :
          Begin(c, e, kind, EventEpoch)
    \/ \E kind \in {"VC", "DeleteVC"} : \E vid \in KnownVids :
          Begin(c, e, kind, vid)
    \/ BeginDeleteNoVC(c, e)

Next ==
    \/ \E c \in Callers : Step(c) \/ \E e \in Engines : BeginAny(c, e)
    \/ \E e \in Engines : Restart(e)

Spec == Init /\ [][Next]_vars

-----------------------------------------------------------------------------
(***************************************************************************)
(* Properties.                                                             *)
(***************************************************************************)

Prefix(s, t) == Len(s) <= Len(t) /\ s = SubSeq(t, 1, Len(s))

\* Every variable has its type.
TypeOK ==
    /\ phase \in {"none", "active", "deleted"}
    /\ log \in State
    /\ base \in [Commits -> State]
    /\ deletedOn \in State
    /\ cache \in [Engines -> State]
    /\ call \in [Callers -> CallType]

\* Whatever goroutines and processes do, and in whatever order they write the
\* cache, every state in a cache or in a call is one that the history has
\* been in: the cache never holds a commit that failed, misses one in the
\* middle or applies one twice.
StatesArePrefixes ==
    /\ \A e \in Engines : Prefix(cache[e], log)
    /\ \A c \in Callers : Prefix(call[c].s, log)

\* No lost update: a command that committed events was decided on exactly the
\* state that its events were added to, with or without a version check; and
\* a deletion was decided on the last state of the history.
DecidedOnHead ==
    /\ \A i \in 1..Len(log) : base[log[i]] = SubSeq(log, 1, i - 1)
    /\ phase = "deleted" => deletedOn = log

\* A call that began after a commit to an active history sees the commit, also
\* if another engine has made it: a cached state is only a starting point.
SeesEarlierCommits ==
    \A c \in Callers :
        call[c].pc \in {"found", "committed"} /\ phase = "active" =>
            call[c].seen <= Len(call[c].s)

\* A command that gave up after its retries lost each of them to the commit of
\* somebody else: there is progress as long as commands are retried.
RetriesLostToCommits ==
    \A c \in Callers :
        Len(log) >= call[c].seen + call[c].retries

=============================================================================
