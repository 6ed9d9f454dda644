------------------------ MODULE EphemeralActivities ------------------------
(***************************************************************************)
(* What the parties of the split-root, du-root and ping-registry workflows *)
(* do, as tables: the gRPC methods of nogfsoregd (X Server), what it       *)
(* reports (Get X), the activities of nogfsoregd and nogfsostad (X Regd,   *)
(* X Stad), and the garbage collection of workflows (Gc X).                *)
(*                                                                         *)
(* The activities have a choice where the outcome depends on data that are *)
(* not modelled: a table gives the set of alternatives.  An alternative is *)
(* a sequence of steps and whether an error makes the activity quit; it is *)
(* retried otherwise.  EphemeralWorkflow takes the steps.                  *)
(***************************************************************************)
EXTENDS WorkflowAggregates, Sequences

CONSTANTS
    Lines,     \* bound: lines that du prints at most
    NumPings   \* pings by a server

ASSUME EphemeralAssumption == Lines \in Nat \ {0} /\ NumPings \in Nat \ {0}

Quit == <<"quit">>

Times(n, step) == [i \in 1..n |-> step]

Retrying(steps) == [steps |-> steps, quits |-> FALSE]
IgnoringErrors(steps) == [steps |-> steps, quits |-> TRUE]

DoContinue == {Retrying(<<>>)}
DoQuit == {Retrying(Quit)}

-----------------------------------------------------------------------------
(***************************************************************************)
(* The gRPC methods: the commands to the aggregates.                       *)
(***************************************************************************)

SplitRootServerDu ==
    [AppendDu |-> <<"AppendDus">>, CommitDu |-> <<"CommitDu">>,
     AbortDu |-> <<"AbortDu">>]

SplitRootServerAnalysis ==
    [AppendSuggestions |-> <<"AppendSuggestions">>,
     CommitAnalysis |-> <<"CommitAnalysis">>,
     AbortAnalysis |-> <<"AbortAnalysis">>]

\* Faulty variant of AppendSplitRootDecisions: the decision is stored first.
AppendSplitRootDecisionsFirst ==
    [create |-> <<"AppendDecision", "InitRepo">>,
     never |-> <<"AppendDecision", "SetPathFlags">>,
     ignore |-> <<"AppendDecision">>]

\* AppendSplitRootDecisions(): by decision, its effect and then the decision.
AppendSplitRootDecisions ==
    [create |-> <<"InitRepo", "AppendDecision">>,
     never |-> <<"SetPathFlags", "AppendDecision">>,
     ignore |-> <<"AppendDecision">>]

CommitSplitRoot == <<"Commit", "IndexCommit", "End">>

AbortSplitRoot == <<"Abort", "IndexCommit", "End">>

DuRootServer ==
    [Append |-> <<"Append">>,
     Commit |-> <<"Commit", "IndexCommit", "End">>,
     Fail |-> <<"Fail", "IndexCommit", "End">>]

PingRegistryServer ==
    [ServerPing |-> <<"AppendPing">>,
     PostSummary |-> <<"PostSummary">>,
     Commit |-> <<"Commit", "IndexCommit", "End">>]

\* GetSplitRoot().  A workflow that has failed is reported before it is aborted.
GetSplitRoot(s) ==
    CASE Scode(s) \in {"Uninitialized", "Initialized", "DuAppending",
                       "DuCompleted", "SuggestionsAppending"} -> "running"
      [] Scode(s) \in {"AnalysisCompleted", "DecisionsAppending"} ->
            "suggestions"
      [] Scode(s) \in {"DuFailed", "AnalysisFailed", "Failed"} -> "failed"
      [] Scode(s) = "Completed" -> "ok"
      [] Scode(s) = "Terminated" -> IF StatusOk(s) THEN "ok" ELSE "failed"

\* getDuRootNoWait(): the first event Completed decides; the result is partial
\* until then.
GetDuRoot(evs) ==
    LET ends == {i \in DOMAIN evs : evs[i][1] = "Completed"}
    IN  IF ends = {} THEN "running"
        ELSE IF evs[CHOOSE i \in ends : \A j \in ends : i <= j][2]
             THEN "ok" ELSE "failed"

\* GetRegistryPings(): the summary, if any.
GetRegistryPings(evs) ==
    IF \E i \in DOMAIN evs : evs[i][1] = "ServerPingsGathered" THEN "ok"
    ELSE IF \E i \in DOMAIN evs : evs[i][1] = "Completed" THEN "expired"
    ELSE "running"

-----------------------------------------------------------------------------
(***************************************************************************)
(* split-root.  nogfsostad runs du; nogfsoregd analyzes the result and     *)
(* suggests repos.  An administrator decides and commits.                  *)
(***************************************************************************)

\* The view of an activity of nogfsoregd: the state code, and whether it is
\* responsible for the abort (needsAbort).
SplitRootRegdLoad(v, ev) ==
    <<[Started |-> "Initialized", DuAppended |-> "DuAppending",
       DuCompleted |-> Split(ev, "DuCompleted", "DuFailed"),
       SuggestionAppended |-> "SuggestionsAppending",
       AnalysisCompleted |-> Split(ev, "AnalysisCompleted", "AnalysisFailed"),
       DecisionAppended |-> "DecisionsAppending",
       Completed |-> Split(ev, "Completed", "Failed"),
       Committed |-> "Terminated"][ev[1]],
      v[2] \/ (ev[1] \in {"DuCompleted", "AnalysisCompleted"} /\ ~ev[2])>>

\* doAnalyzeAndContinue(): it aborts if there are too many suggestions.
SplitRootRegdAnalyze ==
    {Retrying(<<"ListRepos">> \o SplitRootServerAnalysis.AppendSuggestions
              \o SplitRootServerAnalysis.CommitAnalysis),
     Retrying(SplitRootServerAnalysis.AbortAnalysis)}

\* doAbortWorkflowAndQuit()
SplitRootRegdAbort == {Retrying(AbortSplitRoot \o Quit)}

\* doAbortAnalysisAndContinue()
SplitRootRegdAbortAnalysis == {Retrying(SplitRootServerAnalysis.AbortAnalysis)}

SplitRootRegd(v) ==
    CASE v[1] \in {"DuFailed", "AnalysisFailed"} -> SplitRootRegdAbort
      [] v[1] = "DuCompleted" -> SplitRootRegdAnalyze
      [] v[1] = "SuggestionsAppending" -> SplitRootRegdAbortAnalysis
      [] v[1] = "Failed" /\ v[2] -> SplitRootRegdAbort
      [] v[1] = "Terminated" -> DoQuit
      [] OTHER -> DoContinue

\* The view of nogfsostad: it only looks at some events.
SplitRootStadLoad(v, ev) ==
    CASE ev[1] = "Started" -> <<"Initialized", FALSE>>
      [] ev[1] = "DuAppended" -> <<"DuAppending", FALSE>>
      [] ev[1] \in {"DuCompleted", "Completed"} -> <<"Terminated", FALSE>>
      [] OTHER -> v

\* doRunDuQuit(): du prints at least one line, or fails.
SplitRootStadDu ==
    {Retrying(Times(n, "AppendDus") \o SplitRootServerDu.CommitDu \o Quit) :
        n \in 1..Lines}
    \cup
    {Retrying(Times(n, "AppendDus") \o SplitRootServerDu.AbortDu \o Quit) :
        n \in 0..Lines}

SplitRootStad(v) ==
    CASE v[1] = "Uninitialized" -> DoContinue
      [] v[1] = "Initialized" -> SplitRootStadDu
      [] v[1] = "DuAppending" -> {Retrying(SplitRootServerDu.AbortDu \o Quit)}
      [] OTHER -> DoQuit

-----------------------------------------------------------------------------
(***************************************************************************)
(* du-root, by nogfsostad, and ping-registry, by all servers.              *)
(***************************************************************************)

DuRootStadLoad(v, ev) ==
    <<[Started |-> "Initialized", DuUpdated |-> "Appending",
       Completed |-> "Completed", Committed |-> "Terminated"][ev[1]], FALSE>>

\* doRunDuQuit()
DuRootStadDu ==
    {Retrying(Times(n, "Append") \o DuRootServer.Commit \o Quit) :
        n \in 1..Lines}
    \cup
    {Retrying(Times(n, "Append") \o DuRootServer.Fail \o Quit) : n \in 0..Lines}

\* doReRunDuQuit() and doReCommitQuit()
DuRootStadAgain ==
    [Appending |-> {Retrying(DuRootServer.Fail \o Quit)},
     Completed |-> {IgnoringErrors(DuRootServer.Commit \o Quit)}]

DuRootStad(v) ==
    CASE v[1] = "Uninitialized" -> DoContinue
      [] v[1] = "Initialized" -> DuRootStadDu
      [] v[1] \in DOMAIN DuRootStadAgain -> DuRootStadAgain[v[1]]
      [] OTHER -> DoQuit

PingRegistryLoad(v, ev) ==
    <<[Started |-> "Initialized", ServerPinged |-> "Appending",
       ServerPingsGathered |-> "Summarized",
       Completed |-> "Completed", Committed |-> "Terminated"][ev[1]], FALSE>>

\* doPingQuit() of nogfsoregd, with `n' pings to go: it then waits, reads the
\* history and posts the summary with the version that it has read.
PingRegistryRegdPing(n) ==
    {Retrying(Times(n, "AppendPing") \o <<"PingSummary">>
              \o PingRegistryServer.PostSummary \o Quit)}

PingRegistryRegd(v, n) ==
    CASE v[1] = "Uninitialized" -> DoContinue
      [] v[1] \in {"Initialized", "Appending"} -> PingRegistryRegdPing(n)
      [] OTHER -> DoQuit

\* doPingQuit() of nogfsostad.
PingRegistryStadPing == {Retrying(Times(NumPings, "AppendPing") \o Quit)}

\* After which commands that a workflow refuses because of its state nogfsostad
\* quits: a ping comes too late.  Other errors are retried.
PingRegistryStadQuits == {"AppendPing"}

PingRegistryStad(v) ==
    CASE v[1] = "Uninitialized" -> DoContinue
      [] v[1] \in {"Initialized", "Appending"} -> PingRegistryStadPing
      [] OTHER -> DoQuit

-----------------------------------------------------------------------------
(***************************************************************************)
(* The garbage collection: what it does to a workflow that has been active *)
(* for too long, and to one that has been completed for long.              *)
(***************************************************************************)

GcDuRootActive == <<"AbortExpired", "IndexCommit", "End">>
GcDuRootCompleted == <<"Delete", "IndexDelete">>

GcPingRegistryActive == <<"AbortExpired", "IndexCommit", "End">>
GcPingRegistryCompleted == <<"Delete", "IndexDelete">>

GcSplitRootActive == <<"AbortExpired", "IndexCommit", "End">>
GcSplitRootCompleted == <<"Delete", "IndexDelete">>
=============================================================================
