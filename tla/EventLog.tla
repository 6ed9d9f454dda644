------------------------------ MODULE EventLog ------------------------------
(***************************************************************************)
(* What the event journal promises its callers, without a database: each   *)
(* history is a sequence of events that only grows, by whole batches of    *)
(* events that have not been used before, until the history is deleted.    *)
(***************************************************************************)
EXTENDS Naturals, Sequences

CONSTANTS Histories, EvId, MaxBatch

VARIABLES
    events,     \* the committed events of each history
    status      \* "none", "active" or "deleted"

lvars == <<events, status>>

Used == UNION {{events[h][i] : i \in 1..Len(events[h])} : h \in Histories}

LInit ==
    /\ events = [h \in Histories |-> << >>]
    /\ status = [h \in Histories |-> "none"]

\* A command appends all its events at once.
Commit(h, batch) ==
    /\ status[h] \in {"none", "active"}
    /\ \A i \in 1..Len(batch) : batch[i] \notin Used
    /\ \A i, j \in 1..Len(batch) : batch[i] = batch[j] => i = j
    /\ events' = [events EXCEPT ![h] = @ \o batch]
    /\ status' = [status EXCEPT ![h] = "active"]

Delete(h) ==
    /\ status[h] = "active"
    /\ status' = [status EXCEPT ![h] = "deleted"]
    /\ UNCHANGED events

LNext ==
    \E h \in Histories :
        \/ \E n \in 1..MaxBatch : \E batch \in [1..n -> EvId] :
              Commit(h, batch)
        \/ Delete(h)

LSpec == LInit /\ [][LNext]_lvars
=============================================================================
