------------------------- MODULE EphemeralProofs -------------------------
(***************************************************************************)
(* Proofs about EphemeralWorkflow, for any number of workflows, paths,     *)
(* pings, failures and restarts: decisions have had their effect on the    *)
(* registry, a summary counts all pings, and what a client has been told   *)
(* about the end of a workflow remains true.                               *)
(*                                                                         *)
(* EphInv is the inductive invariant.  It has a part about each history    *)
(* and a part about what each activity or call still has ahead: a decision *)
(* only after its effect, and a summary only with what has been read.      *)
(***************************************************************************)
EXTENDS EphemeralWorkflow, SequenceTheorems, FiniteSetTheorems,
        WellFoundedInduction, TLAPS

-----------------------------------------------------------------------------
(***************************************************************************)
(* What the commands do.                                                   *)
(***************************************************************************)

\* Command `cmd' in state `s' posts an event of type `type' if the state code
\* is one of `codes', and leads to state code `to'.
Moves(t, cmd, s, codes, type, to) ==
    /\ s \in Tell(t, cmd).from => Scode(s) \in codes
    /\ Tell(t, cmd).ev[1] = type
    /\ Scode(Advance(t, s, Tell(t, cmd).ev)) = to

\* Command `cmd' in state `s' keeps the status, or sets it to `ok'.
Keeps(t, cmd, s) == StatusOk(Advance(t, s, Tell(t, cmd).ev)) = StatusOk(s)
SetsOk(t, cmd, s, ok) == StatusOk(Advance(t, s, Tell(t, cmd).ev)) = ok

\* A command as the tables give it, whatever its status.
LEMMA CmdMoves ==
    ASSUME NEW t, NEW cmd, NEW s, NEW codes, NEW again, NEW type, NEW ok, NEW to,
           Tell(t, cmd) = CmdIn(codes \X BOOLEAN, again, type, ok),
           Scode(Advance(t, s, <<type, ok>>)) = to
    PROVE  Moves(t, cmd, s, codes, type, to)
<1>1. Tell(t, cmd).ev = <<type, ok>>
  BY DEF CmdIn
<1>2. Tell(t, cmd).from = codes \X BOOLEAN
  BY DEF CmdIn
<1>3. s \in codes \X BOOLEAN => Scode(s) \in codes
  BY DEF Scode
<1>4. Tell(t, cmd).ev[1] = type
  BY <1>1
<1> QED
  BY <1>1, <1>2, <1>3, <1>4 DEF Moves

\* What a command does to the status.
LEMMA CmdKeeps ==
    ASSUME NEW t, NEW cmd, NEW s, NEW in, NEW again, NEW type, NEW ok,
           Tell(t, cmd) = CmdIn(in, again, type, ok),
           StatusOk(Advance(t, s, <<type, ok>>)) = StatusOk(s)
    PROVE  Keeps(t, cmd, s)
<1>1. Tell(t, cmd).ev = <<type, ok>>
  BY DEF CmdIn
<1> QED
  BY <1>1 DEF Keeps

\* A command that ends a workflow sets its status.
LEMMA CmdSetsOk ==
    ASSUME NEW t, NEW cmd, NEW s, NEW in, NEW again, NEW type, NEW ok, NEW x,
           Tell(t, cmd) = CmdIn(in, again, type, ok),
           StatusOk(Advance(t, s, <<type, ok>>)) = x
    PROVE  SetsOk(t, cmd, s, x)
<1>1. Tell(t, cmd).ev = <<type, ok>>
  BY DEF CmdIn
<1> QED
  BY <1>1 DEF SetsOk

\* The commands of split-root.
LEMMA SplitCommands ==
    ASSUME NEW s
    PROVE  /\ Moves("split", "Init", s, {"Uninitialized"}, "Started", "Initialized")
           /\ Keeps("split", "Init", s)
           /\ Moves("split", "AppendDus", s, {"Initialized", "DuAppending"},
                 "DuAppended", "DuAppending")
           /\ Keeps("split", "AppendDus", s)
           /\ Moves("split", "CommitDu", s, {"DuAppending"}, "DuCompleted",
                 "DuCompleted")
           /\ Keeps("split", "CommitDu", s)
           /\ Moves("split", "AbortDu", s, {"Initialized", "DuAppending"},
                 "DuCompleted", "DuFailed")
           /\ Keeps("split", "AbortDu", s)
           /\ Moves("split", "AppendSuggestions", s, {"DuCompleted",
                 "SuggestionsAppending"}, "SuggestionAppended",
                 "SuggestionsAppending")
           /\ Keeps("split", "AppendSuggestions", s)
           /\ Moves("split", "CommitAnalysis", s, {"SuggestionsAppending"},
                 "AnalysisCompleted", "AnalysisCompleted")
           /\ Keeps("split", "CommitAnalysis", s)
           /\ Moves("split", "AbortAnalysis", s, {"DuCompleted",
                 "SuggestionsAppending"}, "AnalysisCompleted",
                 "AnalysisFailed")
           /\ Keeps("split", "AbortAnalysis", s)
           /\ Moves("split", "AppendDecision", s, {"AnalysisCompleted",
                 "DecisionsAppending"}, "DecisionAppended",
                 "DecisionsAppending")
           /\ Keeps("split", "AppendDecision", s)
           /\ Moves("split", "Commit", s, {"AnalysisCompleted",
                 "DecisionsAppending"}, "Completed", "Completed")
           /\ SetsOk("split", "Commit", s, TRUE)
           /\ Moves("split", "Abort", s, {"DuFailed", "AnalysisFailed",
                 "AnalysisCompleted"}, "Completed", "Failed")
           /\ SetsOk("split", "Abort", s, FALSE)
           /\ Moves("split", "AbortExpired", s, {"Initialized",
                 "DuAppending", "DuCompleted", "DuFailed",
                 "SuggestionsAppending", "AnalysisCompleted",
                 "AnalysisFailed", "DecisionsAppending"}, "Completed",
                 "Failed")
           /\ SetsOk("split", "AbortExpired", s, FALSE)
           /\ Moves("split", "End", s, {"Completed", "Failed"}, "Committed",
                 "Terminated")
           /\ Keeps("split", "End", s)
<1>1. /\ Moves("split", "Init", s, {"Uninitialized"}, "Started",
           "Initialized")
      /\ Keeps("split", "Init", s)
  <2> DEFINE codes == {"Uninitialized"}
  <2> DEFINE again == {"Initialized"}
  <2>1. Tell("split", "Init") = CmdIn(codes \X BOOLEAN, again, "Started", TRUE)
    BY DEF Tell, SplitRootTellDu, SplitRootTellAnalysis, SplitRootTellEnd,
       Cmd
  <2>2. Scode(Advance("split", s, <<"Started", TRUE>>)) = "Initialized"
    BY DEF Advance, SplitRootAdvance, Advanced, Split, Scode
  <2>3. StatusOk(Advance("split", s, <<"Started", TRUE>>)) = StatusOk(s)
    BY DEF Advance, SplitRootAdvance, Advanced, StatusOk
  <2> HIDE DEF codes, again
  <2>4. Moves("split", "Init", s, codes, "Started", "Initialized")
    BY ONLY <2>1, <2>2, CmdMoves
  <2>5. Keeps("split", "Init", s)
    BY ONLY <2>1, <2>3, CmdKeeps
  <2> QED
    BY <2>4, <2>5 DEF codes
<1>2. /\ Moves("split", "AppendDus", s, {"Initialized", "DuAppending"},
           "DuAppended", "DuAppending")
      /\ Keeps("split", "AppendDus", s)
  <2> DEFINE codes == {"Initialized", "DuAppending"}
  <2> DEFINE again == {}
  <2>1. Tell("split", "AppendDus") = CmdIn(codes \X BOOLEAN, again, "DuAppended", TRUE)
    BY DEF Tell, SplitRootTellDu, SplitRootTellAnalysis, SplitRootTellEnd,
       CmdMany
  <2>2. Scode(Advance("split", s, <<"DuAppended", TRUE>>)) = "DuAppending"
    BY DEF Advance, SplitRootAdvance, Advanced, Split, Scode
  <2>3. StatusOk(Advance("split", s, <<"DuAppended", TRUE>>)) = StatusOk(s)
    BY DEF Advance, SplitRootAdvance, Advanced, StatusOk
  <2> HIDE DEF codes, again
  <2>4. Moves("split", "AppendDus", s, codes, "DuAppended", "DuAppending")
    BY ONLY <2>1, <2>2, CmdMoves
  <2>5. Keeps("split", "AppendDus", s)
    BY ONLY <2>1, <2>3, CmdKeeps
  <2> QED
    BY <2>4, <2>5 DEF codes
<1>3. /\ Moves("split", "CommitDu", s, {"DuAppending"}, "DuCompleted",
           "DuCompleted")
      /\ Keeps("split", "CommitDu", s)
  <2> DEFINE codes == {"DuAppending"}
  <2> DEFINE again == {"DuCompleted"}
  <2>1. Tell("split", "CommitDu") = CmdIn(codes \X BOOLEAN, again, "DuCompleted", TRUE)
    BY DEF Tell, SplitRootTellDu, SplitRootTellAnalysis, SplitRootTellEnd,
       Cmd
  <2>2. Scode(Advance("split", s, <<"DuCompleted", TRUE>>)) = "DuCompleted"
    BY DEF Advance, SplitRootAdvance, Advanced, Split, Scode
  <2>3. StatusOk(Advance("split", s, <<"DuCompleted", TRUE>>)) = StatusOk(s)
    BY DEF Advance, SplitRootAdvance, Advanced, StatusOk
  <2> HIDE DEF codes, again
  <2>4. Moves("split", "CommitDu", s, codes, "DuCompleted", "DuCompleted")
    BY ONLY <2>1, <2>2, CmdMoves
  <2>5. Keeps("split", "CommitDu", s)
    BY ONLY <2>1, <2>3, CmdKeeps
  <2> QED
    BY <2>4, <2>5 DEF codes
<1>4. /\ Moves("split", "AbortDu", s, {"Initialized", "DuAppending"},
           "DuCompleted", "DuFailed")
      /\ Keeps("split", "AbortDu", s)
  <2> DEFINE codes == {"Initialized", "DuAppending"}
  <2> DEFINE again == {"DuFailed"}
  <2>1. Tell("split", "AbortDu") = CmdIn(codes \X BOOLEAN, again, "DuCompleted", FALSE)
    BY DEF Tell, SplitRootTellDu, SplitRootTellAnalysis, SplitRootTellEnd,
       Cmd
  <2>2. Scode(Advance("split", s, <<"DuCompleted", FALSE>>)) = "DuFailed"
    BY DEF Advance, SplitRootAdvance, Advanced, Split, Scode
  <2>3. StatusOk(Advance("split", s, <<"DuCompleted", FALSE>>)) = StatusOk(s)
    BY DEF Advance, SplitRootAdvance, Advanced, StatusOk
  <2> HIDE DEF codes, again
  <2>4. Moves("split", "AbortDu", s, codes, "DuCompleted", "DuFailed")
    BY ONLY <2>1, <2>2, CmdMoves
  <2>5. Keeps("split", "AbortDu", s)
    BY ONLY <2>1, <2>3, CmdKeeps
  <2> QED
    BY <2>4, <2>5 DEF codes
<1>5. /\ Moves("split", "AppendSuggestions", s, {"DuCompleted",
           "SuggestionsAppending"}, "SuggestionAppended",
           "SuggestionsAppending")
      /\ Keeps("split", "AppendSuggestions", s)
  <2> DEFINE codes == {"DuCompleted", "SuggestionsAppending"}
  <2> DEFINE again == {}
  <2>1. Tell("split", "AppendSuggestions") = CmdIn(codes \X BOOLEAN, again, "SuggestionAppended", TRUE)
    BY DEF Tell, SplitRootTellDu, SplitRootTellAnalysis, SplitRootTellEnd,
       CmdMany
  <2>2. Scode(Advance("split", s, <<"SuggestionAppended", TRUE>>)) = "SuggestionsAppending"
    BY DEF Advance, SplitRootAdvance, Advanced, Split, Scode
  <2>3. StatusOk(Advance("split", s, <<"SuggestionAppended", TRUE>>)) = StatusOk(s)
    BY DEF Advance, SplitRootAdvance, Advanced, StatusOk
  <2> HIDE DEF codes, again
  <2>4. Moves("split", "AppendSuggestions", s, codes, "SuggestionAppended",
          "SuggestionsAppending")
    BY ONLY <2>1, <2>2, CmdMoves
  <2>5. Keeps("split", "AppendSuggestions", s)
    BY ONLY <2>1, <2>3, CmdKeeps
  <2> QED
    BY <2>4, <2>5 DEF codes
<1>6. /\ Moves("split", "CommitAnalysis", s, {"SuggestionsAppending"},
           "AnalysisCompleted", "AnalysisCompleted")
      /\ Keeps("split", "CommitAnalysis", s)
  <2> DEFINE codes == {"SuggestionsAppending"}
  <2> DEFINE again == {"AnalysisCompleted"}
  <2>1. Tell("split", "CommitAnalysis") = CmdIn(codes \X BOOLEAN, again, "AnalysisCompleted", TRUE)
    BY DEF Tell, SplitRootTellDu, SplitRootTellAnalysis, SplitRootTellEnd,
       Cmd
  <2>2. Scode(Advance("split", s, <<"AnalysisCompleted", TRUE>>)) = "AnalysisCompleted"
    BY DEF Advance, SplitRootAdvance, Advanced, Split, Scode
  <2>3. StatusOk(Advance("split", s, <<"AnalysisCompleted", TRUE>>)) = StatusOk(s)
    BY DEF Advance, SplitRootAdvance, Advanced, StatusOk
  <2> HIDE DEF codes, again
  <2>4. Moves("split", "CommitAnalysis", s, codes, "AnalysisCompleted",
          "AnalysisCompleted")
    BY ONLY <2>1, <2>2, CmdMoves
  <2>5. Keeps("split", "CommitAnalysis", s)
    BY ONLY <2>1, <2>3, CmdKeeps
  <2> QED
    BY <2>4, <2>5 DEF codes
<1>7. /\ Moves("split", "AbortAnalysis", s, {"DuCompleted",
           "SuggestionsAppending"}, "AnalysisCompleted", "AnalysisFailed")
      /\ Keeps("split", "AbortAnalysis", s)
  <2> DEFINE codes == {"DuCompleted", "SuggestionsAppending"}
  <2> DEFINE again == {"AnalysisFailed"}
  <2>1. Tell("split", "AbortAnalysis") = CmdIn(codes \X BOOLEAN, again, "AnalysisCompleted", FALSE)
    BY DEF Tell, SplitRootTellDu, SplitRootTellAnalysis, SplitRootTellEnd,
       Cmd
  <2>2. Scode(Advance("split", s, <<"AnalysisCompleted", FALSE>>)) = "AnalysisFailed"
    BY DEF Advance, SplitRootAdvance, Advanced, Split, Scode
  <2>3. StatusOk(Advance("split", s, <<"AnalysisCompleted", FALSE>>)) = StatusOk(s)
    BY DEF Advance, SplitRootAdvance, Advanced, StatusOk
  <2> HIDE DEF codes, again
  <2>4. Moves("split", "AbortAnalysis", s, codes, "AnalysisCompleted",
          "AnalysisFailed")
    BY ONLY <2>1, <2>2, CmdMoves
  <2>5. Keeps("split", "AbortAnalysis", s)
    BY ONLY <2>1, <2>3, CmdKeeps
  <2> QED
    BY <2>4, <2>5 DEF codes
<1>8. /\ Moves("split", "AppendDecision", s, {"AnalysisCompleted",
           "DecisionsAppending"}, "DecisionAppended", "DecisionsAppending")
      /\ Keeps("split", "AppendDecision", s)
  <2> DEFINE codes == {"AnalysisCompleted", "DecisionsAppending"}
  <2> DEFINE again == {}
  <2>1. Tell("split", "AppendDecision") = CmdIn(codes \X BOOLEAN, again, "DecisionAppended", TRUE)
    BY DEF Tell, SplitRootTellDu, SplitRootTellAnalysis, SplitRootTellEnd,
       CmdMany
  <2>2. Scode(Advance("split", s, <<"DecisionAppended", TRUE>>)) = "DecisionsAppending"
    BY DEF Advance, SplitRootAdvance, Advanced, Split, Scode
  <2>3. StatusOk(Advance("split", s, <<"DecisionAppended", TRUE>>)) = StatusOk(s)
    BY DEF Advance, SplitRootAdvance, Advanced, StatusOk
  <2> HIDE DEF codes, again
  <2>4. Moves("split", "AppendDecision", s, codes, "DecisionAppended",
          "DecisionsAppending")
    BY ONLY <2>1, <2>2, CmdMoves
  <2>5. Keeps("split", "AppendDecision", s)
    BY ONLY <2>1, <2>3, CmdKeeps
  <2> QED
    BY <2>4, <2>5 DEF codes
<1>9. /\ Moves("split", "Commit", s, {"AnalysisCompleted",
           "DecisionsAppending"}, "Completed", "Completed")
      /\ SetsOk("split", "Commit", s, TRUE)
  <2> DEFINE codes == {"AnalysisCompleted", "DecisionsAppending"}
  <2> DEFINE again == {"Completed"}
  <2>1. Tell("split", "Commit") = CmdIn(codes \X BOOLEAN, again, "Completed", TRUE)
    BY DEF Tell, SplitRootTellDu, SplitRootTellAnalysis, SplitRootTellEnd,
       Cmd
  <2>2. Scode(Advance("split", s, <<"Completed", TRUE>>)) = "Completed"
    BY DEF Advance, SplitRootAdvance, Advanced, Split, Scode
  <2>3. StatusOk(Advance("split", s, <<"Completed", TRUE>>)) = TRUE
    BY DEF Advance, SplitRootAdvance, Advanced, StatusOk
  <2> HIDE DEF codes, again
  <2>4. Moves("split", "Commit", s, codes, "Completed", "Completed")
    BY ONLY <2>1, <2>2, CmdMoves
  <2>5. SetsOk("split", "Commit", s, TRUE)
    BY ONLY <2>1, <2>3, CmdSetsOk
  <2> QED
    BY <2>4, <2>5 DEF codes
<1>10. /\ Moves("split", "Abort", s, {"DuFailed", "AnalysisFailed",
           "AnalysisCompleted"}, "Completed", "Failed")
      /\ SetsOk("split", "Abort", s, FALSE)
  <2> DEFINE codes == {"DuFailed", "AnalysisFailed", "AnalysisCompleted"}
  <2> DEFINE again == {"Failed"}
  <2>1. Tell("split", "Abort") = CmdIn(codes \X BOOLEAN, again, "Completed", FALSE)
    BY DEF Tell, SplitRootTellDu, SplitRootTellAnalysis, SplitRootTellEnd,
       Cmd
  <2>2. Scode(Advance("split", s, <<"Completed", FALSE>>)) = "Failed"
    BY DEF Advance, SplitRootAdvance, Advanced, Split, Scode
  <2>3. StatusOk(Advance("split", s, <<"Completed", FALSE>>)) = FALSE
    BY DEF Advance, SplitRootAdvance, Advanced, StatusOk
  <2> HIDE DEF codes, again
  <2>4. Moves("split", "Abort", s, codes, "Completed", "Failed")
    BY ONLY <2>1, <2>2, CmdMoves
  <2>5. SetsOk("split", "Abort", s, FALSE)
    BY ONLY <2>1, <2>3, CmdSetsOk
  <2> QED
    BY <2>4, <2>5 DEF codes
<1>11. /\ Moves("split", "AbortExpired", s, {"Initialized", "DuAppending",
           "DuCompleted", "DuFailed", "SuggestionsAppending",
           "AnalysisCompleted", "AnalysisFailed", "DecisionsAppending"},
           "Completed", "Failed")
      /\ SetsOk("split", "AbortExpired", s, FALSE)
  <2> DEFINE codes == {"Initialized", "DuAppending", "DuCompleted",
             "DuFailed", "SuggestionsAppending", "AnalysisCompleted",
             "AnalysisFailed", "DecisionsAppending"}
  <2> DEFINE again == {"Completed", "Failed", "Terminated"}
  <2>1. Tell("split", "AbortExpired") = CmdIn(codes \X BOOLEAN, again, "Completed", FALSE)
    BY DEF Tell, SplitRootTellDu, SplitRootTellAnalysis, SplitRootTellEnd,
       CmdMany
  <2>2. Scode(Advance("split", s, <<"Completed", FALSE>>)) = "Failed"
    BY DEF Advance, SplitRootAdvance, Advanced, Split, Scode
  <2>3. StatusOk(Advance("split", s, <<"Completed", FALSE>>)) = FALSE
    BY DEF Advance, SplitRootAdvance, Advanced, StatusOk
  <2> HIDE DEF codes, again
  <2>4. Moves("split", "AbortExpired", s, codes, "Completed", "Failed")
    BY ONLY <2>1, <2>2, CmdMoves
  <2>5. SetsOk("split", "AbortExpired", s, FALSE)
    BY ONLY <2>1, <2>3, CmdSetsOk
  <2> QED
    BY <2>4, <2>5 DEF codes
<1>12. /\ Moves("split", "End", s, {"Completed", "Failed"}, "Committed",
           "Terminated")
      /\ Keeps("split", "End", s)
  <2> DEFINE codes == {"Completed", "Failed"}
  <2> DEFINE again == {"Terminated"}
  <2>1. Tell("split", "End") = CmdIn(codes \X BOOLEAN, again, "Committed", TRUE)
    BY DEF Tell, SplitRootTellDu, SplitRootTellAnalysis, SplitRootTellEnd,
       Cmd
  <2>2. Scode(Advance("split", s, <<"Committed", TRUE>>)) = "Terminated"
    BY DEF Advance, SplitRootAdvance, Advanced, Split, Scode
  <2>3. StatusOk(Advance("split", s, <<"Committed", TRUE>>)) = StatusOk(s)
    BY DEF Advance, SplitRootAdvance, Advanced, StatusOk
  <2> HIDE DEF codes, again
  <2>4. Moves("split", "End", s, codes, "Committed", "Terminated")
    BY ONLY <2>1, <2>2, CmdMoves
  <2>5. Keeps("split", "End", s)
    BY ONLY <2>1, <2>3, CmdKeeps
  <2> QED
    BY <2>4, <2>5 DEF codes
<1> QED
  BY <1>1, <1>2, <1>3, <1>4, <1>5, <1>6, <1>7, <1>8, <1>9, <1>10, <1>11,
     <1>12

\* The commands of ping-registry.
LEMMA PingCommands ==
    ASSUME NEW s
    PROVE  /\ Moves("ping", "Init", s, {"Uninitialized"}, "Started", "Initialized")
           /\ Moves("ping", "AppendPing", s, {"Initialized", "Appending"},
                 "ServerPinged", "Appending")
           /\ Moves("ping", "PostSummary", s, {"Initialized", "Appending"},
                 "ServerPingsGathered", "Summarized")
           /\ Moves("ping", "Commit", s, {"Summarized"}, "Completed",
                 "Completed")
           /\ Moves("ping", "AbortExpired", s, {"Initialized", "Appending",
                 "Summarized"}, "Completed", "Completed")
           /\ Moves("ping", "End", s, {"Completed"}, "Committed",
                 "Terminated")
<1>1. Moves("ping", "Init", s, {"Uninitialized"}, "Started", "Initialized")
  <2> DEFINE codes == {"Uninitialized"}
  <2> DEFINE again == {"Initialized"}
  <2>1. Tell("ping", "Init") = CmdIn(codes \X BOOLEAN, again, "Started", TRUE)
    BY DEF Tell, PingRegistryTell, Cmd
  <2>2. Scode(Advance("ping", s, <<"Started", TRUE>>)) = "Initialized"
    BY DEF Advance, PingRegistryAdvance, Advanced, Split, Scode
  <2> HIDE DEF codes, again
  <2>4. Moves("ping", "Init", s, codes, "Started", "Initialized")
    BY ONLY <2>1, <2>2, CmdMoves
  <2> QED
    BY <2>4 DEF codes
<1>2. Moves("ping", "AppendPing", s, {"Initialized", "Appending"},
         "ServerPinged", "Appending")
  <2> DEFINE codes == {"Initialized", "Appending"}
  <2> DEFINE again == {}
  <2>1. Tell("ping", "AppendPing") = CmdIn(codes \X BOOLEAN, again, "ServerPinged", TRUE)
    BY DEF Tell, PingRegistryTell, CmdMany
  <2>2. Scode(Advance("ping", s, <<"ServerPinged", TRUE>>)) = "Appending"
    BY DEF Advance, PingRegistryAdvance, Advanced, Split, Scode
  <2> HIDE DEF codes, again
  <2>4. Moves("ping", "AppendPing", s, codes, "ServerPinged", "Appending")
    BY ONLY <2>1, <2>2, CmdMoves
  <2> QED
    BY <2>4 DEF codes
<1>3. Moves("ping", "PostSummary", s, {"Initialized", "Appending"},
         "ServerPingsGathered", "Summarized")
  <2> DEFINE codes == {"Initialized", "Appending"}
  <2> DEFINE again == {}
  <2>1. Tell("ping", "PostSummary") = CmdIn(codes \X BOOLEAN, again, "ServerPingsGathered", TRUE)
    BY DEF Tell, PingRegistryTell, CmdMany
  <2>2. Scode(Advance("ping", s, <<"ServerPingsGathered", TRUE>>)) = "Summarized"
    BY DEF Advance, PingRegistryAdvance, Advanced, Split, Scode
  <2> HIDE DEF codes, again
  <2>4. Moves("ping", "PostSummary", s, codes, "ServerPingsGathered",
          "Summarized")
    BY ONLY <2>1, <2>2, CmdMoves
  <2> QED
    BY <2>4 DEF codes
<1>4. Moves("ping", "Commit", s, {"Summarized"}, "Completed", "Completed")
  <2> DEFINE codes == {"Summarized"}
  <2> DEFINE again == {"Completed"}
  <2>1. Tell("ping", "Commit") = CmdIn(codes \X BOOLEAN, again, "Completed", TRUE)
    BY DEF Tell, PingRegistryTell, Cmd
  <2>2. Scode(Advance("ping", s, <<"Completed", TRUE>>)) = "Completed"
    BY DEF Advance, PingRegistryAdvance, Advanced, Split, Scode
  <2> HIDE DEF codes, again
  <2>4. Moves("ping", "Commit", s, codes, "Completed", "Completed")
    BY ONLY <2>1, <2>2, CmdMoves
  <2> QED
    BY <2>4 DEF codes
<1>5. Moves("ping", "AbortExpired", s, {"Initialized", "Appending",
         "Summarized"}, "Completed", "Completed")
  <2> DEFINE codes == {"Initialized", "Appending", "Summarized"}
  <2> DEFINE again == {"Completed", "Terminated"}
  <2>1. Tell("ping", "AbortExpired") = CmdIn(codes \X BOOLEAN, again, "Completed", TRUE)
    BY DEF Tell, PingRegistryTell, CmdMany
  <2>2. Scode(Advance("ping", s, <<"Completed", TRUE>>)) = "Completed"
    BY DEF Advance, PingRegistryAdvance, Advanced, Split, Scode
  <2> HIDE DEF codes, again
  <2>4. Moves("ping", "AbortExpired", s, codes, "Completed", "Completed")
    BY ONLY <2>1, <2>2, CmdMoves
  <2> QED
    BY <2>4 DEF codes
<1>6. Moves("ping", "End", s, {"Completed"}, "Committed", "Terminated")
  <2> DEFINE codes == {"Completed"}
  <2> DEFINE again == {"Terminated"}
  <2>1. Tell("ping", "End") = CmdIn(codes \X BOOLEAN, again, "Committed", TRUE)
    BY DEF Tell, PingRegistryTell, Cmd
  <2>2. Scode(Advance("ping", s, <<"Committed", TRUE>>)) = "Terminated"
    BY DEF Advance, PingRegistryAdvance, Advanced, Split, Scode
  <2> HIDE DEF codes, again
  <2>4. Moves("ping", "End", s, codes, "Committed", "Terminated")
    BY ONLY <2>1, <2>2, CmdMoves
  <2> QED
    BY <2>4 DEF codes
<1> QED
  BY <1>1, <1>2, <1>3, <1>4, <1>5, <1>6

\* The commands of du-root.
LEMMA DuCommands ==
    ASSUME NEW s
    PROVE  /\ Moves("du", "Init", s, {"Uninitialized"}, "Started", "Initialized")
           /\ Moves("du", "Append", s, {"Initialized", "Appending"},
                 "DuUpdated", "Appending")
           /\ Moves("du", "Commit", s, {"Initialized", "Appending"},
                 "Completed", "Completed")
           /\ Moves("du", "Fail", s, {"Initialized", "Appending"},
                 "Completed", "Completed")
           /\ Moves("du", "AbortExpired", s, {"Initialized", "Appending"},
                 "Completed", "Completed")
           /\ Moves("du", "End", s, {"Completed"}, "Committed",
                 "Terminated")
<1>1. Moves("du", "Init", s, {"Uninitialized"}, "Started", "Initialized")
  <2> DEFINE codes == {"Uninitialized"}
  <2> DEFINE again == {"Initialized"}
  <2>1. Tell("du", "Init") = CmdIn(codes \X BOOLEAN, again, "Started", TRUE)
    BY DEF Tell, DuRootTell, Cmd
  <2>2. Scode(Advance("du", s, <<"Started", TRUE>>)) = "Initialized"
    BY DEF Advance, DuRootAdvance, Advanced, Split, Scode
  <2> HIDE DEF codes, again
  <2>4. Moves("du", "Init", s, codes, "Started", "Initialized")
    BY ONLY <2>1, <2>2, CmdMoves
  <2> QED
    BY <2>4 DEF codes
<1>2. Moves("du", "Append", s, {"Initialized", "Appending"}, "DuUpdated",
         "Appending")
  <2> DEFINE codes == {"Initialized", "Appending"}
  <2> DEFINE again == {}
  <2>1. Tell("du", "Append") = CmdIn(codes \X BOOLEAN, again, "DuUpdated", TRUE)
    BY DEF Tell, DuRootTell, CmdMany
  <2>2. Scode(Advance("du", s, <<"DuUpdated", TRUE>>)) = "Appending"
    BY DEF Advance, DuRootAdvance, Advanced, Split, Scode
  <2> HIDE DEF codes, again
  <2>4. Moves("du", "Append", s, codes, "DuUpdated", "Appending")
    BY ONLY <2>1, <2>2, CmdMoves
  <2> QED
    BY <2>4 DEF codes
<1>3. Moves("du", "Commit", s, {"Initialized", "Appending"}, "Completed",
         "Completed")
  <2> DEFINE codes == {"Initialized", "Appending"}
  <2> DEFINE again == {"Completed"}
  <2>1. Tell("du", "Commit") = CmdIn(codes \X BOOLEAN, again, "Completed", TRUE)
    BY DEF Tell, DuRootTell, Cmd
  <2>2. Scode(Advance("du", s, <<"Completed", TRUE>>)) = "Completed"
    BY DEF Advance, DuRootAdvance, Advanced, Split, Scode
  <2> HIDE DEF codes, again
  <2>4. Moves("du", "Commit", s, codes, "Completed", "Completed")
    BY ONLY <2>1, <2>2, CmdMoves
  <2> QED
    BY <2>4 DEF codes
<1>4. Moves("du", "Fail", s, {"Initialized", "Appending"}, "Completed",
         "Completed")
  <2> DEFINE codes == {"Initialized", "Appending"}
  <2> DEFINE again == {"Completed"}
  <2>1. Tell("du", "Fail") = CmdIn(codes \X BOOLEAN, again, "Completed", FALSE)
    BY DEF Tell, DuRootTell, Cmd
  <2>2. Scode(Advance("du", s, <<"Completed", FALSE>>)) = "Completed"
    BY DEF Advance, DuRootAdvance, Advanced, Split, Scode
  <2> HIDE DEF codes, again
  <2>4. Moves("du", "Fail", s, codes, "Completed", "Completed")
    BY ONLY <2>1, <2>2, CmdMoves
  <2> QED
    BY <2>4 DEF codes
<1>5. Moves("du", "AbortExpired", s, {"Initialized", "Appending"},
         "Completed", "Completed")
  <2> DEFINE codes == {"Initialized", "Appending"}
  <2> DEFINE again == {"Completed", "Terminated"}
  <2>1. Tell("du", "AbortExpired") = CmdIn(codes \X BOOLEAN, again, "Completed", FALSE)
    BY DEF Tell, DuRootTell, CmdMany
  <2>2. Scode(Advance("du", s, <<"Completed", FALSE>>)) = "Completed"
    BY DEF Advance, DuRootAdvance, Advanced, Split, Scode
  <2> HIDE DEF codes, again
  <2>4. Moves("du", "AbortExpired", s, codes, "Completed", "Completed")
    BY ONLY <2>1, <2>2, CmdMoves
  <2> QED
    BY <2>4 DEF codes
<1>6. Moves("du", "End", s, {"Completed"}, "Committed", "Terminated")
  <2> DEFINE codes == {"Completed"}
  <2> DEFINE again == {"Terminated"}
  <2>1. Tell("du", "End") = CmdIn(codes \X BOOLEAN, again, "Committed", TRUE)
    BY DEF Tell, DuRootTell, Cmd
  <2>2. Scode(Advance("du", s, <<"Committed", TRUE>>)) = "Terminated"
    BY DEF Advance, DuRootAdvance, Advanced, Split, Scode
  <2> HIDE DEF codes, again
  <2>4. Moves("du", "End", s, codes, "Committed", "Terminated")
    BY ONLY <2>1, <2>2, CmdMoves
  <2> QED
    BY <2>4 DEF codes
<1> QED
  BY <1>1, <1>2, <1>3, <1>4, <1>5, <1>6

\* The commands of each type.
LEMMA CommandNames ==
    /\ Commands("split") = {"Init", "AppendDus", "CommitDu", "AbortDu",
                            "AppendSuggestions", "CommitAnalysis",
                            "AbortAnalysis", "AppendDecision", "Commit",
                            "Abort", "AbortExpired", "End"}
    /\ Commands("ping") = {"Init", "AppendPing", "PostSummary", "Commit",
                           "AbortExpired", "End"}
    /\ Commands("du") = {"Init", "Append", "Commit", "Fail", "AbortExpired",
                         "End"}
BY DEF Commands, SplitRootTellDu, SplitRootTellAnalysis, SplitRootTellEnd,
   DuRootTell, PingRegistryTell

-----------------------------------------------------------------------------
(***************************************************************************)
(* What follows for the history.                                           *)
(***************************************************************************)

\* Command `cmd' is accepted in state `s'.
Accepted(t, cmd, s) == cmd \in Commands(t) /\ s \in Tell(t, cmd).from

EventType(t, cmd) == Tell(t, cmd).ev[1]
After(t, cmd, s) == Advance(t, s, Tell(t, cmd).ev)

\* The state code of a split-root that has been completed or has failed
\* agrees with its status.
Decided(s) ==
    /\ Scode(s) = "Completed" => StatusOk(s)
    /\ Scode(s) = "Failed" => ~StatusOk(s)

Told == {"ok", "failed", "expired"}

\* An accepted command of split-root: the state codes and the event.
LEMMA SplitNext ==
    ASSUME NEW cmd, NEW s, Accepted("split", cmd, s)
    PROVE  \/ /\ cmd = "Init" /\ EventType("split", cmd) = "Started"
              /\ Scode(s) \in {"Uninitialized"}
              /\ Scode(After("split", cmd, s)) = "Initialized"
           \/ /\ cmd = "AppendDus" /\ EventType("split", cmd) = "DuAppended"
              /\ Scode(s) \in {"Initialized", "DuAppending"}
              /\ Scode(After("split", cmd, s)) = "DuAppending"
           \/ /\ cmd = "CommitDu" /\ EventType("split", cmd) = "DuCompleted"
              /\ Scode(s) \in {"DuAppending"}
              /\ Scode(After("split", cmd, s)) = "DuCompleted"
           \/ /\ cmd = "AbortDu" /\ EventType("split", cmd) = "DuCompleted"
              /\ Scode(s) \in {"Initialized", "DuAppending"}
              /\ Scode(After("split", cmd, s)) = "DuFailed"
           \/ /\ cmd = "AppendSuggestions" /\ EventType("split", cmd) = "SuggestionAppended"
              /\ Scode(s) \in {"DuCompleted", "SuggestionsAppending"}
              /\ Scode(After("split", cmd, s)) = "SuggestionsAppending"
           \/ /\ cmd = "CommitAnalysis" /\ EventType("split", cmd) = "AnalysisCompleted"
              /\ Scode(s) \in {"SuggestionsAppending"}
              /\ Scode(After("split", cmd, s)) = "AnalysisCompleted"
           \/ /\ cmd = "AbortAnalysis" /\ EventType("split", cmd) = "AnalysisCompleted"
              /\ Scode(s) \in {"DuCompleted", "SuggestionsAppending"}
              /\ Scode(After("split", cmd, s)) = "AnalysisFailed"
           \/ /\ cmd = "AppendDecision" /\ EventType("split", cmd) = "DecisionAppended"
              /\ Scode(s) \in {"AnalysisCompleted", "DecisionsAppending"}
              /\ Scode(After("split", cmd, s)) = "DecisionsAppending"
           \/ /\ cmd = "Commit" /\ EventType("split", cmd) = "Completed"
              /\ Scode(s) \in {"AnalysisCompleted", "DecisionsAppending"}
              /\ Scode(After("split", cmd, s)) = "Completed"
           \/ /\ cmd = "Abort" /\ EventType("split", cmd) = "Completed"
              /\ Scode(s) \in {"DuFailed", "AnalysisFailed",
                              "AnalysisCompleted"}
              /\ Scode(After("split", cmd, s)) = "Failed"
           \/ /\ cmd = "AbortExpired" /\ EventType("split", cmd) = "Completed"
              /\ Scode(s) \in {"Initialized", "DuAppending", "DuCompleted",
                              "DuFailed", "SuggestionsAppending", "AnalysisCompleted",
                              "AnalysisFailed", "DecisionsAppending"}
              /\ Scode(After("split", cmd, s)) = "Failed"
           \/ /\ cmd = "End" /\ EventType("split", cmd) = "Committed"
              /\ Scode(s) \in {"Completed", "Failed"}
              /\ Scode(After("split", cmd, s)) = "Terminated"
<1>1. CASE cmd = "Init"
  <2>1. Moves("split", "Init", s, {"Uninitialized"}, "Started",
          "Initialized")
    BY SplitCommands
  <2> QED
    BY <1>1, <2>1 DEF Accepted, Moves, EventType, After
<1>2. CASE cmd = "AppendDus"
  <2>1. Moves("split", "AppendDus", s, {"Initialized", "DuAppending"},
          "DuAppended", "DuAppending")
    BY SplitCommands
  <2> QED
    BY <1>2, <2>1 DEF Accepted, Moves, EventType, After
<1>3. CASE cmd = "CommitDu"
  <2>1. Moves("split", "CommitDu", s, {"DuAppending"}, "DuCompleted",
          "DuCompleted")
    BY SplitCommands
  <2> QED
    BY <1>3, <2>1 DEF Accepted, Moves, EventType, After
<1>4. CASE cmd = "AbortDu"
  <2>1. Moves("split", "AbortDu", s, {"Initialized", "DuAppending"},
          "DuCompleted", "DuFailed")
    BY SplitCommands
  <2> QED
    BY <1>4, <2>1 DEF Accepted, Moves, EventType, After
<1>5. CASE cmd = "AppendSuggestions"
  <2>1. Moves("split", "AppendSuggestions", s, {"DuCompleted",
          "SuggestionsAppending"}, "SuggestionAppended",
          "SuggestionsAppending")
    BY SplitCommands
  <2> QED
    BY <1>5, <2>1 DEF Accepted, Moves, EventType, After
<1>6. CASE cmd = "CommitAnalysis"
  <2>1. Moves("split", "CommitAnalysis", s, {"SuggestionsAppending"},
          "AnalysisCompleted", "AnalysisCompleted")
    BY SplitCommands
  <2> QED
    BY <1>6, <2>1 DEF Accepted, Moves, EventType, After
<1>7. CASE cmd = "AbortAnalysis"
  <2>1. Moves("split", "AbortAnalysis", s, {"DuCompleted",
          "SuggestionsAppending"}, "AnalysisCompleted", "AnalysisFailed")
    BY SplitCommands
  <2> QED
    BY <1>7, <2>1 DEF Accepted, Moves, EventType, After
<1>8. CASE cmd = "AppendDecision"
  <2>1. Moves("split", "AppendDecision", s, {"AnalysisCompleted",
          "DecisionsAppending"}, "DecisionAppended", "DecisionsAppending")
    BY SplitCommands
  <2> QED
    BY <1>8, <2>1 DEF Accepted, Moves, EventType, After
<1>9. CASE cmd = "Commit"
  <2>1. Moves("split", "Commit", s, {"AnalysisCompleted",
          "DecisionsAppending"}, "Completed", "Completed")
    BY SplitCommands
  <2> QED
    BY <1>9, <2>1 DEF Accepted, Moves, EventType, After
<1>10. CASE cmd = "Abort"
  <2>1. Moves("split", "Abort", s, {"DuFailed", "AnalysisFailed",
          "AnalysisCompleted"}, "Completed", "Failed")
    BY SplitCommands
  <2> QED
    BY <1>10, <2>1 DEF Accepted, Moves, EventType, After
<1>11. CASE cmd = "AbortExpired"
  <2>1. Moves("split", "AbortExpired", s, {"Initialized", "DuAppending",
          "DuCompleted", "DuFailed", "SuggestionsAppending",
          "AnalysisCompleted", "AnalysisFailed", "DecisionsAppending"},
          "Completed", "Failed")
    BY SplitCommands
  <2> QED
    BY <1>11, <2>1 DEF Accepted, Moves, EventType, After
<1>12. CASE cmd = "End"
  <2>1. Moves("split", "End", s, {"Completed", "Failed"}, "Committed",
          "Terminated")
    BY SplitCommands
  <2> QED
    BY <1>12, <2>1 DEF Accepted, Moves, EventType, After
<1> QED
  BY <1>1, <1>2, <1>3, <1>4, <1>5, <1>6, <1>7, <1>8, <1>9, <1>10, <1>11,
     <1>12, CommandNames DEF Accepted

\* A new workflow accepts only Init.
LEMMA OnlyInit ==
    ASSUME NEW t \in Types, NEW cmd, NEW s, Accepted(t, cmd, s),
           Scode(s) = "Uninitialized"
    PROVE  cmd = "Init"
<1>1. CASE t = "split"
  BY <1>1, SplitNext
<1>2. CASE t = "ping"
  BY <1>2, PingCommands, CommandNames DEF Accepted, Moves
<1>3. CASE t = "du"
  BY <1>3, DuCommands, CommandNames DEF Accepted, Moves
<1> QED
  BY <1>1, <1>2, <1>3 DEF Types

\* Which commands post the events that carry data, and when.
LEMMA WhoPosts ==
    ASSUME NEW t \in Types, NEW cmd, NEW s, Accepted(t, cmd, s)
    PROVE  /\ EventType(t, cmd) = "DecisionAppended" => cmd = "AppendDecision"
           /\ EventType(t, cmd) = "ServerPingsGathered" =>
                 /\ cmd = "PostSummary" /\ t = "ping"
                 /\ Scode(s) \in {"Initialized", "Appending"}
                 /\ Scode(After(t, cmd, s)) = "Summarized"
           /\ EventType(t, cmd) = "ServerPinged" =>
                 Scode(s) \in {"Initialized", "Appending"}
<1>1. CASE t = "split"
  BY <1>1, SplitNext
<1>2. CASE t = "ping"
  BY <1>2, PingCommands, CommandNames DEF Accepted, Moves, EventType, After
<1>3. CASE t = "du"
  BY <1>3, DuCommands, CommandNames DEF Accepted, Moves, EventType
<1> QED
  BY <1>1, <1>2, <1>3 DEF Types

\* A ping-registry that has been summarized or completed goes on to its end.
LEMMA PingGoesOn ==
    ASSUME NEW cmd, NEW s, Accepted("ping", cmd, s)
    PROVE  /\ Scode(s) \in {"Summarized", "Completed", "Terminated"} =>
                 Scode(After("ping", cmd, s)) \in {"Completed", "Terminated"}
           /\ EventType("ping", cmd) = "Completed" =>
                 Scode(After("ping", cmd, s)) = "Completed"
BY PingCommands, CommandNames DEF Accepted, Moves, EventType, After

\* The status of a split-root fits its state code.
LEMMA SplitDecided ==
    ASSUME NEW cmd, NEW s, Accepted("split", cmd, s), Decided(s)
    PROVE  Decided(After("split", cmd, s))
<1> DEFINE z == After("split", cmd, s)
<1>1. CASE cmd = "Commit"
  <2>1. StatusOk(z) = TRUE
    BY <1>1, SplitCommands DEF SetsOk, After
  <2>2. Scode(z) = "Completed"
    BY <1>1, SplitNext
  <2> QED
    BY <2>1, <2>2 DEF Decided
<1>2. CASE cmd \in {"Abort", "AbortExpired"}
  <2>1. StatusOk(z) = FALSE
    BY <1>2, SplitCommands DEF SetsOk, After
  <2>2. Scode(z) = "Failed"
    BY <1>2, SplitNext
  <2> QED
    BY <2>1, <2>2 DEF Decided
<1>3. CASE cmd \notin {"Commit", "Abort", "AbortExpired"}
  <2>1. Scode(z) \notin {"Completed", "Failed"}
    BY <1>3, SplitNext
  <2> QED
    BY <2>1 DEF Decided
<1> QED
  BY <1>1, <1>2, <1>3

\* What a client is told about the end of a split-root stays.
LEMMA SplitReport ==
    ASSUME NEW cmd, NEW s, Accepted("split", cmd, s), Decided(s),
           GetSplitRoot(s) \in Told
    PROVE  GetSplitRoot(After("split", cmd, s)) = GetSplitRoot(s)
<1> DEFINE z == After("split", cmd, s)
<1>1. Scode(s) \in {"DuFailed", "AnalysisFailed", "Completed", "Failed"}
  <2>1. Scode(s) \in {"Uninitialized", "Initialized", "DuAppending", "DuCompleted",
                      "SuggestionsAppending", "AnalysisCompleted",
                      "DecisionsAppending", "DuFailed", "AnalysisFailed",
                      "Completed", "Failed"}
    BY SplitNext
  <2>2. CASE Scode(s) \in {"Uninitialized", "Initialized", "DuAppending",
                           "DuCompleted", "SuggestionsAppending"}
    <3>1. GetSplitRoot(s) = "running"
      BY <2>2 DEF GetSplitRoot
    <3> QED
      BY <3>1 DEF Told
  <2>3. CASE Scode(s) \in {"AnalysisCompleted", "DecisionsAppending"}
    <3>1. GetSplitRoot(s) = "suggestions"
      BY <2>3 DEF GetSplitRoot
    <3> QED
      BY <3>1 DEF Told
  <2> QED
    BY <2>1, <2>2, <2>3
<1>2. CASE Scode(s) \in {"DuFailed", "AnalysisFailed"}
  <2>1. Scode(z) = "Failed"
    BY <1>2, SplitNext
  <2> QED
    BY <1>2, <2>1 DEF GetSplitRoot
<1>3. CASE Scode(s) \in {"Completed", "Failed"}
  <2>1. cmd = "End"
    BY <1>3, SplitNext
  <2>2. Scode(z) = "Terminated"
    BY <2>1, SplitNext
  <2>3. StatusOk(z) = StatusOk(s)
    BY <2>1, SplitCommands DEF Keeps, After
  <2>4. GetSplitRoot(z) = IF StatusOk(s) THEN "ok" ELSE "failed"
    BY <2>2, <2>3 DEF GetSplitRoot
  <2>5. CASE Scode(s) = "Completed"
    <3>1. GetSplitRoot(s) = "ok" /\ StatusOk(s)
      BY <2>5 DEF GetSplitRoot, Decided
    <3> QED
      BY <2>4, <3>1
  <2>6. CASE Scode(s) = "Failed"
    <3>1. GetSplitRoot(s) = "failed" /\ ~StatusOk(s)
      BY <2>6 DEF GetSplitRoot, Decided
    <3> QED
      BY <2>4, <3>1
  <2> QED
    BY <1>3, <2>5, <2>6
<1> QED
  BY <1>1, <1>2, <1>3

-----------------------------------------------------------------------------
(***************************************************************************)
(* What the activities have ahead.                                         *)
(***************************************************************************)

Lacks(s, x) == \A i \in 1..Len(s) : s[i] # x

\* Steps of the tables that neither start a workflow, nor decide, nor post a
\* summary.
Plain1 == {"quit", "ListRepos", "AppendDus", "CommitDu", "AbortDu",
           "AppendSuggestions", "CommitAnalysis", "AbortAnalysis", "Append",
           "Commit", "Fail", "Abort", "AbortExpired", "End", "IndexCommit",
           "AppendPing", "PingSummary", "InitRepo", "SetPathFlags", "Delete",
           "IndexDelete"}
Names == Plain1 \cup {"AppendDecision", "PostSummary"}

\* Steps that do not decide.
Plan(s) == s \in Seq(Names) /\ Lacks(s, "AppendDecision")

\* A summary is posted right after the pings have been read.
SumsUp(s) ==
    \A i \in 1..Len(s) :
        s[i] = "PostSummary" => i > 1 /\ s[i - 1] = "PingSummary"

\* An alternative of an activity in which no summary is posted.
PlainAlt(alt) == Plan(alt.steps) /\ Lacks(alt.steps, "PostSummary")

\* An alternative of an activity that may post a summary.
SumAlt(alt) == Plan(alt.steps) /\ SumsUp(alt.steps) /\ ~alt.quits

\* A concatenation lacks what its parts lack.
LEMMA ConcatLacks ==
    ASSUME NEW s \in Seq(Names), NEW u \in Seq(Names), NEW x,
           Lacks(s, x), Lacks(u, x)
    PROVE  Lacks(s \o u, x)
<1>1. Len(s \o u) = Len(s) + Len(u) /\ Len(s) \in Nat /\ Len(u) \in Nat
  BY LenProperties
<1>2. ASSUME NEW i \in 1..Len(s \o u) PROVE (s \o u)[i] # x
  <2>1. CASE i <= Len(s)
    <3>1. (s \o u)[i] = s[i] /\ i \in 1..Len(s)
      BY <1>1, <2>1
    <3> QED
      BY <3>1 DEF Lacks
  <2>2. CASE i > Len(s)
    <3>1. (s \o u)[i] = u[i - Len(s)] /\ i - Len(s) \in 1..Len(u)
      BY <1>1, <2>2
    <3> QED
      BY <3>1 DEF Lacks
  <2> QED
    BY <1>1, <2>1, <2>2
<1> QED
  BY <1>2 DEF Lacks

\* Plans are put together from plans.
LEMMA ConcatPlan ==
    ASSUME NEW s, NEW u, Plan(s), Plan(u)
    PROVE  Plan(s \o u)
<1>1. s \o u \in Seq(Names)
  BY DEF Plan
<1> QED
  BY <1>1, ConcatLacks DEF Plan

\* A sequence of plain steps is a plan.
LEMMA PlainPlan ==
    ASSUME NEW s \in Seq(Plain1)
    PROVE  Plan(s) /\ Lacks(s, "PostSummary")
<1>1. \A i \in 1..Len(s) : s[i] \in Plain1
  BY ElementOfSeq
<1>2. s \in Seq(Names)
  BY SeqMonotonic DEF Names
<1> QED
  BY <1>1, <1>2 DEF Plan, Lacks, Plain1

\* The same step, some times.
LEMMA TimesPlan ==
    ASSUME NEW n \in Nat, NEW x \in Plain1
    PROVE  Plan(Times(n, x)) /\ Lacks(Times(n, x), "PostSummary")
<1>1. Times(n, x) \in Seq(Plain1)
  BY DEF Times
<1> QED
  BY <1>1, PlainPlan

\* The calls of the tables are plans.
LEMMA CallPlans ==
    ASSUME NEW s \in {Quit, AbortSplitRoot, CommitSplitRoot, <<"ListRepos">>,
                      <<"AppendSuggestions">>, <<"CommitAnalysis">>,
                      <<"AbortAnalysis">>, <<"CommitDu">>, <<"AbortDu">>,
                      DuRootServer.Commit, DuRootServer.Fail,
                      PingRegistryServer.Commit, GcDuRootActive,
                      GcDuRootCompleted, << >>}
    PROVE  s \in Seq(Plain1) /\ Plan(s) /\ Lacks(s, "PostSummary")
<1>1. DuRootServer.Commit = <<"Commit", "IndexCommit", "End">>
  BY DEF DuRootServer
<1>2. DuRootServer.Fail = <<"Fail", "IndexCommit", "End">>
  BY DEF DuRootServer
<1>3. PingRegistryServer.Commit = <<"Commit", "IndexCommit", "End">>
  BY DEF PingRegistryServer
<1>4. \/ \E x \in {"quit", "ListRepos", "AppendSuggestions", "CommitAnalysis",
                   "AbortAnalysis", "CommitDu", "AbortDu"} : s = <<x>>
      \/ s = <<"Delete", "IndexDelete">>
      \/ \E x \in {"Abort", "Commit", "Fail", "AbortExpired"} :
            s = <<x, "IndexCommit", "End">>
      \/ s = << >>
  BY <1>1, <1>2, <1>3 DEF Quit, AbortSplitRoot, CommitSplitRoot,
     GcDuRootActive, GcDuRootCompleted
<1>5. ASSUME NEW x \in {"quit", "ListRepos", "AppendSuggestions",
                        "CommitAnalysis", "AbortAnalysis", "CommitDu",
                        "AbortDu"}, s = <<x>>
      PROVE  s \in Seq(Plain1)
  <2>1. x \in Plain1
    BY DEF Plain1
  <2> QED
    BY <1>5, <2>1
<1>6. ASSUME s = <<"Delete", "IndexDelete">>
      PROVE  s \in Seq(Plain1)
  <2>1. "Delete" \in Plain1 /\ "IndexDelete" \in Plain1
    BY DEF Plain1
  <2> QED
    BY <1>6, <2>1
<1>7. ASSUME NEW x \in {"Abort", "Commit", "Fail", "AbortExpired"},
             s = <<x, "IndexCommit", "End">>
      PROVE  s \in Seq(Plain1)
  <2>1. x \in Plain1 /\ "IndexCommit" \in Plain1 /\ "End" \in Plain1
    BY DEF Plain1
  <2> QED
    BY <1>7, <2>1
<1>8. ASSUME s = << >>
      PROVE  s \in Seq(Plain1)
  BY <1>8
<1>9. s \in Seq(Plain1)
  BY <1>4, <1>5, <1>6, <1>7, <1>8
<1> QED
  BY <1>9, PlainPlan

\* Steps that are retried, or whose errors are ignored.
LEMMA AltOf ==
    ASSUME NEW s, Plan(s), Lacks(s, "PostSummary")
    PROVE  PlainAlt(Retrying(s)) /\ PlainAlt(IgnoringErrors(s))
BY DEF Retrying, IgnoringErrors, PlainAlt

\* Two plans without a summary, one after the other.
LEMMA AltOfTwo ==
    ASSUME NEW s, NEW u, Plan(s), Plan(u), Lacks(s, "PostSummary"),
           Lacks(u, "PostSummary")
    PROVE  Plan(s \o u) /\ Lacks(s \o u, "PostSummary")
BY ConcatPlan, ConcatLacks DEF Plan

-----------------------------------------------------------------------------
(***************************************************************************)
(* The inductive invariant.                                                *)
(***************************************************************************)

StateOf(h) == IF h = <<>> THEN New ELSE h[Len(h)].st
Pings(h) == {i \in 1..Len(h) : h[i].ev[1] = "ServerPinged"}
Has(h, type) == \E i \in 1..Len(h) : h[i].ev[1] = type

\* Decision `d' for path `p' has had its effect on the repos `rp' and on the
\* directories `ds' that must not be split.
Applied(p, d, rp, ds) == (d = "create" => p \in rp) /\ (d = "never" => p \in ds)

\* An event: a decision has had its effect.
GoodEvent(e, rp, ds) ==
    e.ev[1] = "DecisionAppended" =>
        \E p \in Paths, d \in Decisions :
            e.data = {<<p, d>>} /\ Applied(p, d, rp, ds)

\* A summary counts all pings, and no ping follows it; a completed
\* ping-registry only goes on to its end.
GoodPing(h) ==
    /\ \A i \in 1..Len(h) :
          h[i].ev[1] = "ServerPingsGathered" => h[i].data = {Cardinality(Pings(h))}
    /\ Has(h, "ServerPingsGathered") =>
          Scode(StateOf(h)) \in {"Summarized", "Completed", "Terminated"}
    /\ Has(h, "Completed") => Scode(StateOf(h)) \in {"Completed", "Terminated"}

\* A history of a workflow of type `t'.
GoodHist(t, h, rp, ds) ==
    /\ h \in Seq({h[i] : i \in 1..Len(h)})
    /\ \A i \in 1..Len(h) : GoodEvent(h[i], rp, ds)
    /\ Has(h, "ServerPingsGathered") => t = "ping"
    /\ t = "ping" => GoodPing(h)
    /\ t = "split" => Decided(StateOf(h))

\* A call that is about to decide, or will be, knows what it decides, and its
\* effect comes first.
Deciding(a, rp, ds) ==
    \A i \in 1..Len(a.todo) :
        a.todo[i] = "AppendDecision" =>
            \E p \in Paths, d \in Decisions :
                /\ a.data = {<<p, d>>}
                /\ i = 1 => Applied(p, d, rp, ds)
                /\ i > 1 /\ d = "create" => a.todo[i - 1] = "InitRepo"
                /\ i > 1 /\ d = "never" => a.todo[i - 1] = "SetPathFlags"

\* An activity that has read history `h' up to version `at': if nothing has been
\* added since, it holds the number of pings.
HasRead(a, h) ==
    /\ a.at \in Nat
    /\ a.at = 0 => h = <<>>
    /\ a.at = Len(h) => a.data = {Cardinality(Pings(h))}
    /\ a.at <= Len(h) \/ h = <<>>

\* An activity that posts a summary, now or later, reads the pings right before.
Summing(a, h) ==
    \A i \in 1..Len(a.todo) :
        a.todo[i] = "PostSummary" =>
            /\ ~a.quits
            /\ i = 1 => HasRead(a, h)
            /\ i > 1 => a.todo[i - 1] = "PingSummary"

\* The fields of an activity.
IsAct(a) ==
    /\ a = [on |-> a.on, pos |-> a.pos, at |-> a.at, todo |-> a.todo,
            quits |-> a.quits, data |-> a.data]
    /\ a.pos \in Nat

\* An activity or a call of role `r' at a workflow.
GoodAct(r, a, h, ix, rp, ds) ==
    /\ IsAct(a)
    /\ a.todo \in Seq(Names)
    /\ r # "admin" => Lacks(a.todo, "AppendDecision")
    /\ r # "regd" => Lacks(a.todo, "PostSummary")
    /\ r \in Daemons => (a.on \/ a.todo # <<>> => ix # "none")
    /\ Deciding(a, rp, ds)
    /\ Summing(a, h)

EphInv ==
    /\ typ \in [Workflows -> Types]
    /\ hist = [w \in Workflows |-> hist[w]]
    /\ index = [w \in Workflows |-> index[w]]
    /\ act = [r \in Roles |-> [w \in Workflows |-> act[r][w]]]
    /\ \A w \in Workflows : GoodHist(typ[w], hist[w], repos, dontSplit)
    /\ \A r \in Roles : \A w \in Workflows :
          GoodAct(r, act[r][w], hist[w], index[w], repos, dontSplit)

-----------------------------------------------------------------------------
(***************************************************************************)
(* The tables of the activities.                                           *)
(***************************************************************************)

\* An alternative of role `r'.
GoodAlt(r, alt) ==
    /\ Plan(alt.steps)
    /\ SumsUp(alt.steps)
    /\ r # "regd" => Lacks(alt.steps, "PostSummary")
    /\ alt.quits => Lacks(alt.steps, "PostSummary")

\* An alternative without a summary is good for every role.
LEMMA PlainIsGood ==
    ASSUME NEW r, NEW alt, PlainAlt(alt)
    PROVE  GoodAlt(r, alt)
BY DEF PlainAlt, GoodAlt, SumsUp, Lacks

\* To continue and to quit.
LEMMA DoAlts ==
    ASSUME NEW alt \in DoContinue \cup DoQuit
    PROVE  PlainAlt(alt)
<1>1. alt \in {Retrying(<<>>), Retrying(Quit)}
  BY DEF DoContinue, DoQuit
<1> QED
  BY <1>1, CallPlans, AltOf

\* nogfsoregd at a split-root.
LEMMA SplitRegdAlts ==
    ASSUME NEW v, NEW alt \in SplitRootRegd(v)
    PROVE  PlainAlt(alt)
<1>1. \/ alt \in SplitRootRegdAbort
      \/ alt \in SplitRootRegdAnalyze
      \/ alt \in SplitRootRegdAbortAnalysis
      \/ alt \in DoContinue \cup DoQuit
  BY DEF SplitRootRegd
<1>2. ASSUME alt \in SplitRootRegdAbort
      PROVE  PlainAlt(alt)
  <2>1. Plan(AbortSplitRoot \o Quit) /\ Lacks(AbortSplitRoot \o Quit, "PostSummary")
    BY CallPlans, AltOfTwo
  <2> QED
    BY <1>2, <2>1, AltOf DEF SplitRootRegdAbort
<1>3. ASSUME alt \in SplitRootRegdAnalyze
      PROVE  PlainAlt(alt)
  <2> DEFINE s == <<"ListRepos">> \o <<"AppendSuggestions">>
             u == s \o <<"CommitAnalysis">>
  <2>1. Plan(s) /\ Lacks(s, "PostSummary")
    BY CallPlans, AltOfTwo
  <2>2. Plan(u) /\ Lacks(u, "PostSummary")
    BY <2>1, CallPlans, AltOfTwo
  <2>3. Plan(<<"AbortAnalysis">>) /\ Lacks(<<"AbortAnalysis">>, "PostSummary")
    BY CallPlans
  <2>4. SplitRootRegdAnalyze = {Retrying(u), Retrying(<<"AbortAnalysis">>)}
    BY DEF SplitRootRegdAnalyze, SplitRootServerAnalysis
  <2> QED
    BY <1>3, <2>2, <2>3, <2>4, AltOf
<1>4. ASSUME alt \in SplitRootRegdAbortAnalysis
      PROVE  PlainAlt(alt)
  <2>1. Plan(<<"AbortAnalysis">>) /\ Lacks(<<"AbortAnalysis">>, "PostSummary")
    BY CallPlans
  <2>2. SplitRootRegdAbortAnalysis = {Retrying(<<"AbortAnalysis">>)}
    BY DEF SplitRootRegdAbortAnalysis, SplitRootServerAnalysis
  <2> QED
    BY <1>4, <2>1, <2>2, AltOf
<1> QED
  BY <1>1, <1>2, <1>3, <1>4, DoAlts

\* Some lines of du, the end of du, and the end of the activity.
LEMMA DuPlan ==
    ASSUME NEW n \in Nat, NEW x \in Plain1, NEW s, Plan(s),
           Lacks(s, "PostSummary")
    PROVE  PlainAlt(Retrying(Times(n, x) \o s \o Quit))
<1> DEFINE u == Times(n, x) \o s
<1>1. Plan(u) /\ Lacks(u, "PostSummary")
  BY TimesPlan, AltOfTwo
<1> HIDE DEF u
<1>2. Plan(u \o Quit) /\ Lacks(u \o Quit, "PostSummary")
  BY <1>1, CallPlans, AltOfTwo
<1> QED
  BY <1>2, AltOf DEF u

\* nogfsostad at a split-root.
LEMMA SplitStadAlts ==
    ASSUME NEW v, NEW alt \in SplitRootStad(v)
    PROVE  PlainAlt(alt)
<1>1. \/ alt \in SplitRootStadDu
      \/ alt = Retrying(<<"AbortDu">> \o Quit)
      \/ alt \in DoContinue \cup DoQuit
  BY DEF SplitRootStad, SplitRootServerDu
<1>2. ASSUME alt \in SplitRootStadDu
      PROVE  PlainAlt(alt)
  <2>1. \/ \E n \in 1..Lines :
              alt = Retrying(Times(n, "AppendDus") \o <<"CommitDu">> \o Quit)
        \/ \E n \in 0..Lines :
              alt = Retrying(Times(n, "AppendDus") \o <<"AbortDu">> \o Quit)
    BY <1>2 DEF SplitRootStadDu, SplitRootServerDu
  <2>2. "AppendDus" \in Plain1
    BY DEF Plain1
  <2>3. /\ Plan(<<"CommitDu">>) /\ Lacks(<<"CommitDu">>, "PostSummary")
        /\ Plan(<<"AbortDu">>) /\ Lacks(<<"AbortDu">>, "PostSummary")
    BY CallPlans
  <2>4. \A n \in 0..Lines : n \in Nat
    OBVIOUS
  <2>5. \A n \in 1..Lines : n \in Nat
    OBVIOUS
  <2> QED
    BY <2>1, <2>2, <2>3, <2>4, <2>5, DuPlan
<1>3. PlainAlt(Retrying(<<"AbortDu">> \o Quit))
  <2>1. Plan(<<"AbortDu">> \o Quit) /\ Lacks(<<"AbortDu">> \o Quit, "PostSummary")
    BY CallPlans, AltOfTwo
  <2> QED
    BY <2>1, AltOf
<1> QED
  BY <1>1, <1>2, <1>3, DoAlts

\* nogfsostad at a du-root.
LEMMA DuStadAlts ==
    ASSUME NEW v, NEW alt \in DuRootStad(v)
    PROVE  PlainAlt(alt)
<1> DEFINE c == DuRootServer.Commit
           f == DuRootServer.Fail
<1>1. \/ alt \in DuRootStadDu
      \/ alt = Retrying(f \o Quit)
      \/ alt = IgnoringErrors(c \o Quit)
      \/ alt \in DoContinue \cup DoQuit
  <2>1. \/ alt \in DuRootStadDu
        \/ /\ v[1] \in DOMAIN DuRootStadAgain
           /\ alt \in DuRootStadAgain[v[1]]
        \/ alt \in DoContinue \cup DoQuit
    BY DEF DuRootStad
  <2> QED
    BY <2>1 DEF DuRootStadAgain
<1>2. /\ Plan(c) /\ Lacks(c, "PostSummary")
      /\ Plan(f) /\ Lacks(f, "PostSummary")
  BY CallPlans
<1>3. ASSUME alt \in DuRootStadDu
      PROVE  PlainAlt(alt)
  <2>1. \/ \E n \in 1..Lines : alt = Retrying(Times(n, "Append") \o c \o Quit)
        \/ \E n \in 0..Lines : alt = Retrying(Times(n, "Append") \o f \o Quit)
    BY <1>3 DEF DuRootStadDu
  <2>2. "Append" \in Plain1
    BY DEF Plain1
  <2>4. \A n \in 0..Lines : n \in Nat
    OBVIOUS
  <2>5. \A n \in 1..Lines : n \in Nat
    OBVIOUS
  <2> HIDE DEF c, f
  <2> QED
    BY <1>2, <2>1, <2>2, <2>4, <2>5, DuPlan
<1> HIDE DEF c, f
<1>4. Plan(f \o Quit) /\ Lacks(f \o Quit, "PostSummary")
  BY <1>2, CallPlans, AltOfTwo
<1>5. Plan(c \o Quit) /\ Lacks(c \o Quit, "PostSummary")
  BY <1>2, CallPlans, AltOfTwo
<1> QED
  BY <1>1, <1>3, <1>4, <1>5, AltOf, DoAlts

\* nogfsostad at a ping-registry.
LEMMA PingStadAlts ==
    ASSUME NEW v, NEW alt \in PingRegistryStad(v)
    PROVE  PlainAlt(alt)
<1>1. \/ alt = Retrying(Times(NumPings, "AppendPing") \o Quit)
      \/ alt \in DoContinue \cup DoQuit
  BY DEF PingRegistryStad, PingRegistryStadPing
<1>2. NumPings \in Nat /\ "AppendPing" \in Plain1
  BY EphemeralAssumption DEF Plain1
<1> DEFINE s == Times(NumPings, "AppendPing")
<1>3. Plan(s) /\ Lacks(s, "PostSummary")
  BY <1>2, TimesPlan
<1> HIDE DEF s
<1>4. Plan(s \o Quit) /\ Lacks(s \o Quit, "PostSummary")
  BY <1>3, CallPlans, AltOfTwo
<1> QED
  BY <1>1, <1>4, AltOf, DoAlts DEF s

\* Some pings, then three other steps.
LEMMA ConcatThree ==
    ASSUME NEW n \in Nat, NEW s \in Seq(Names), Len(s) = n,
           \A i \in 1..n : s[i] = "AppendPing", NEW u \in Seq(Names), Len(u) = 3
    PROVE  /\ s \o u \in Seq(Names)
           /\ Len(s \o u) = n + 3
           /\ \A i \in 1..n : (s \o u)[i] = "AppendPing"
           /\ (s \o u)[n + 1] = u[1]
           /\ (s \o u)[n + 2] = u[2]
           /\ (s \o u)[n + 3] = u[3]
<1>1. s \o u \in Seq(Names) /\ Len(s \o u) = n + 3
  <2>1. s \o u \in Seq(Names) /\ Len(s \o u) = Len(s) + Len(u)
    BY ConcatProperties
  <2> QED
    BY <2>1
<1>2. \A i \in 1..n : (s \o u)[i] = "AppendPing"
  <2>1. SUFFICES ASSUME NEW i \in 1..n PROVE (s \o u)[i] = "AppendPing"
    OBVIOUS
  <2>2. i \in 1..Len(s) + Len(u) /\ i <= Len(s)
    OBVIOUS
  <2> QED
    BY <2>2, ConcatProperties
<1>3. \A j \in 1..Len(s) + Len(u) :
         (s \o u)[j] = IF j <= Len(s) THEN s[j] ELSE u[j - Len(s)]
  BY ConcatProperties
<1>4. ASSUME NEW j \in 1..3
      PROVE  (s \o u)[n + j] = u[j]
  <2>1. n + j \in 1..Len(s) + Len(u) /\ ~(n + j <= Len(s))
    OBVIOUS
  <2>2. (n + j) - Len(s) = j
    OBVIOUS
  <2> QED
    BY <1>3, <2>1, <2>2
<1>5. /\ (s \o u)[n + 1] = u[1]
      /\ (s \o u)[n + 2] = u[2]
      /\ (s \o u)[n + 3] = u[3]
  <2>1. 1 \in 1..3 /\ 2 \in 1..3 /\ 3 \in 1..3
    OBVIOUS
  <2> QED
    BY <1>4, <2>1, Zenon
<1> QED
  BY <1>1, <1>2, <1>5

\* nogfsoregd at a ping-registry: the summary right after the pings are read.
LEMMA PingRegdAlts ==
    ASSUME NEW v, NEW n \in Nat, NEW alt \in PingRegistryRegd(v, n)
    PROVE  GoodAlt("regd", alt)
<1> DEFINE s == Times(n, "AppendPing")
           u == <<"PingSummary", "PostSummary", "quit">>
<1>1. \/ alt = Retrying(s \o <<"PingSummary">> \o <<"PostSummary">> \o Quit)
      \/ alt \in DoContinue \cup DoQuit
  BY DEF PingRegistryRegd, PingRegistryRegdPing, PingRegistryServer
<1>2. /\ s \in Seq(Names) /\ Len(s) = n
      /\ \A i \in 1..n : s[i] = "AppendPing"
  BY DEF Times, Names, Plain1
<1>3. /\ u \in Seq(Names) /\ Len(u) = 3
      /\ u[1] = "PingSummary" /\ u[2] = "PostSummary" /\ u[3] = "quit"
  BY DEF Names, Plain1
<1>4. s \o <<"PingSummary">> \o <<"PostSummary">> \o Quit = s \o u
  <2>1. s \in Seq(Names)
    BY <1>2
  <2> HIDE DEF s
  <2> QED
    BY <2>1 DEF Quit
<1>5. ASSUME NEW z, z = s \o u
      PROVE  /\ z \in Seq(Names) /\ Len(z) = n + 3
             /\ \A i \in 1..n : z[i] = "AppendPing"
             /\ z[n + 1] = "PingSummary"
             /\ z[n + 2] = "PostSummary"
             /\ z[n + 3] = "quit"
  <2> HIDE DEF s, u
  <2>1. /\ s \o u \in Seq(Names)
        /\ Len(s \o u) = n + 3
        /\ \A i \in 1..n : (s \o u)[i] = "AppendPing"
        /\ (s \o u)[n + 1] = u[1]
        /\ (s \o u)[n + 2] = u[2]
        /\ (s \o u)[n + 3] = u[3]
    BY <1>2, <1>3, ConcatThree
  <2> QED
    BY <1>3, <1>5, <2>1
<1>6. ASSUME NEW z, z = s \o u
      PROVE  Plan(z) /\ SumsUp(z)
  <2> HIDE DEF s, u
  <2>1. z \in Seq(Names) /\ Len(z) = n + 3
    BY <1>5, <1>6
  <2>2. ASSUME NEW i \in 1..Len(z)
        PROVE  /\ z[i] # "AppendDecision"
               /\ z[i] = "PostSummary" => i > 1 /\ z[i - 1] = "PingSummary"
    <3>1. i \in 1..n \/ i = n + 1 \/ i = n + 2 \/ i = n + 3
      BY <2>1
    <3>2. i = n + 2 => i - 1 = n + 1 /\ i > 1
      OBVIOUS
    <3> QED
      BY <3>1, <3>2, <1>5, <1>6
  <2> QED
    BY <2>1, <2>2 DEF Plan, SumsUp, Lacks
<1> HIDE DEF s, u
<1>7. ASSUME alt = Retrying(s \o u)
      PROVE  GoodAlt("regd", alt)
  <2>1. alt.steps = s \o u /\ alt.quits = FALSE
    BY <1>7 DEF Retrying
  <2> QED
    BY <2>1, <1>6 DEF GoodAlt
<1> QED
  BY <1>1, <1>4, <1>7, DoAlts, PlainIsGood

\* Whatever view an activity processes.
LEMMA StepsGood ==
    ASSUME NEW r \in Daemons, NEW w, NEW p \in Nat, typ[w] \in Types,
           NEW alt \in Steps(r, w, p)
    PROVE  GoodAlt(r, alt)
<1> DEFINE v == View(r, w, p)
           d == DataOf(w, "ServerPinged", p)
           sent == Cardinality({i \in DOMAIN d : d[i] = {"regd"}})
           n == IF sent < NumPings THEN NumPings - sent ELSE 0
<1>1. n \in Nat
  <2>1. IsFiniteSet(1..p)
    BY FS_Interval
  <2>2. {i \in DOMAIN d : d[i] = {"regd"}} \subseteq 1..p
    BY DEF DataOf
  <2>3. IsFiniteSet({i \in DOMAIN d : d[i] = {"regd"}})
    BY <2>1, <2>2, FS_Subset
  <2>4. sent \in Nat
    BY <2>3, FS_CardinalityType
  <2> HIDE DEF sent
  <2> QED
    BY <2>4, EphemeralAssumption
<1>2. \/ r = "regd" /\ alt \in SplitRootRegd(v)
      \/ r = "stad" /\ alt \in SplitRootStad(v)
      \/ r = "regd" /\ alt \in DoQuit
      \/ r = "stad" /\ alt \in DuRootStad(v)
      \/ r = "regd" /\ alt \in PingRegistryRegd(v, n)
      \/ r = "stad" /\ alt \in PingRegistryStad(v)
  BY DEF Steps, Types, Daemons
<1> HIDE DEF n, v
<1> QED
  BY <1>1, <1>2, SplitRegdAlts, SplitStadAlts, DuStadAlts, PingRegdAlts,
     PingStadAlts, DoAlts, PlainIsGood

-----------------------------------------------------------------------------
(***************************************************************************)
(* A history that gets one more event.                                     *)
(***************************************************************************)

\* Appending to a sequence of whatever elements.
LEMMA AppendAny ==
    ASSUME NEW h, h \in Seq({h[i] : i \in 1..Len(h)}), NEW e
    PROVE  /\ Append(h, e) \in Seq({Append(h, e)[i] : i \in 1..Len(Append(h, e))})
           /\ Len(h) \in Nat
           /\ Len(Append(h, e)) = Len(h) + 1
           /\ Append(h, e) # <<>>
           /\ \A i \in 1..Len(h) : Append(h, e)[i] = h[i]
           /\ Append(h, e)[Len(h) + 1] = e
<1> DEFINE R == {h[i] : i \in 1..Len(h)}
           S == R \cup {e}
           g == Append(h, e)
<1>1. h \in Seq(S) /\ e \in S
  <2>1. h \in Seq(R) /\ R \subseteq S
    OBVIOUS
  <2> HIDE DEF R
  <2> QED
    BY <2>1, SeqMonotonic
<1> HIDE DEF S
<1>2. /\ g \in Seq(S)
      /\ g # <<>>
      /\ Len(g) = Len(h) + 1
      /\ \A i \in 1..Len(h) : g[i] = h[i]
      /\ g[Len(h) + 1] = e
  BY <1>1, AppendProperties
<1>3. Len(h) \in Nat
  BY <1>1
<1> HIDE DEF g
<1>4. g \in Seq({g[i] : i \in 1..Len(g)})
  <2> DEFINE T == {g[i] : i \in 1..Len(g)}
  <2>1. \A i \in 1..Len(g) : g[i] \in T
    OBVIOUS
  <2> HIDE DEF T
  <2>2. Len(g) \in Nat /\ g = [i \in 1..Len(g) |-> g[i]]
    BY <1>2
  <2>3. g \in Seq(T)
    BY <2>1, <2>2
  <2> QED
    BY <2>3 DEF T
<1> QED
  BY <1>2, <1>3, <1>4 DEF g

\* History `h2' is `h' and event `e'.
LongerBy(h, e, h2) ==
    /\ h2 \in Seq({h2[i] : i \in 1..Len(h2)})
    /\ Len(h) \in Nat
    /\ Len(h2) = Len(h) + 1
    /\ h2 # <<>>
    /\ \A i \in 1..Len(h) : h2[i] = h[i]
    /\ h2[Len(h) + 1] = e

\* What a longer history has, and its state.
LEMMA LongerHas ==
    ASSUME NEW h, NEW e, NEW h2, LongerBy(h, e, h2)
    PROVE  /\ StateOf(h2) = e.st
           /\ \A type : Has(h2, type) <=> (Has(h, type) \/ e.ev[1] = type)
           /\ e.ev[1] # "ServerPinged" => Pings(h2) = Pings(h)
<1>1. /\ Len(h) \in Nat
      /\ Len(h2) = Len(h) + 1
      /\ h2 # <<>>
      /\ \A i \in 1..Len(h) : h2[i] = h[i]
      /\ h2[Len(h) + 1] = e
  BY DEF LongerBy
<1>2. 1..Len(h2) = 1..Len(h) \cup {Len(h) + 1}
  BY <1>1
<1>3. StateOf(h2) = e.st
  BY <1>1 DEF StateOf
<1>4. ASSUME NEW type
      PROVE  Has(h2, type) <=> (Has(h, type) \/ e.ev[1] = type)
  BY <1>1, <1>2 DEF Has
<1>5. ASSUME e.ev[1] # "ServerPinged"
      PROVE  Pings(h2) = Pings(h)
  BY <1>1, <1>2, <1>5 DEF Pings
<1> QED
  BY <1>3, <1>4, <1>5

\* The events of a good history remain good.
LEMMA HistMono ==
    ASSUME NEW t, NEW h, NEW rp, NEW ds, GoodHist(t, h, rp, ds),
           NEW rp2, NEW ds2, rp \subseteq rp2, ds \subseteq ds2
    PROVE  GoodHist(t, h, rp2, ds2)
<1>1. ASSUME NEW e, GoodEvent(e, rp, ds)
      PROVE  GoodEvent(e, rp2, ds2)
  BY <1>1 DEF GoodEvent, Applied
<1> QED
  BY <1>1 DEF GoodHist

\* No history.
LEMMA HistEmpty ==
    ASSUME NEW t, NEW rp, NEW ds
    PROVE  GoodHist(t, <<>>, rp, ds)
<1>1. <<>> \in Seq({<<>>[i] : i \in 1..Len(<<>>)}) /\ Len(<<>>) = 0
  BY EmptySeq
<1>2. \A type : ~Has(<<>>, type)
  BY <1>1 DEF Has
<1>3. GoodPing(<<>>)
  BY <1>1, <1>2 DEF GoodPing
<1>4. Decided(StateOf(<<>>))
  BY DEF Decided, StateOf, New, Scode
<1>5. \A i \in 1..Len(<<>>) : GoodEvent(<<>>[i], rp, ds)
  BY <1>1
<1> QED
  BY <1>1, <1>2, <1>3, <1>4, <1>5 DEF GoodHist

\* An accepted command of a ping-registry keeps its history good.
LEMMA PingLonger ==
    ASSUME NEW h, GoodPing(h), NEW cmd, Accepted("ping", cmd, StateOf(h)),
           NEW e, NEW h2, LongerBy(h, e, h2),
           e.ev[1] = EventType("ping", cmd),
           e.st = After("ping", cmd, StateOf(h)),
           cmd = "PostSummary" => e.data = {Cardinality(Pings(h))}
    PROVE  GoodPing(h2)
<1> DEFINE s == StateOf(h)
           sum == "ServerPingsGathered"
<1>1. /\ StateOf(h2) = e.st
      /\ \A type : Has(h2, type) <=> (Has(h, type) \/ e.ev[1] = type)
      /\ e.ev[1] # "ServerPinged" => Pings(h2) = Pings(h)
  BY LongerHas
<1>2. /\ \A i \in 1..Len(h) : h[i].ev[1] = sum => h[i].data = {Cardinality(Pings(h))}
      /\ Has(h, sum) => Scode(s) \in {"Summarized", "Completed", "Terminated"}
      /\ Has(h, "Completed") => Scode(s) \in {"Completed", "Terminated"}
  BY DEF GoodPing
<1>3. /\ e.ev[1] = sum =>
            /\ cmd = "PostSummary"
            /\ Scode(s) \in {"Initialized", "Appending"}
            /\ Scode(e.st) = "Summarized"
      /\ e.ev[1] = "ServerPinged" => Scode(s) \in {"Initialized", "Appending"}
  BY WhoPosts DEF Types
<1>4. /\ Scode(s) \in {"Summarized", "Completed", "Terminated"} =>
            Scode(e.st) \in {"Completed", "Terminated"}
      /\ e.ev[1] = "Completed" => Scode(e.st) = "Completed"
  BY PingGoesOn
<1>5. Has(h2, sum) => Scode(StateOf(h2)) \in {"Summarized", "Completed", "Terminated"}
  BY <1>1, <1>2, <1>3, <1>4
<1>6. Has(h2, "Completed") => Scode(StateOf(h2)) \in {"Completed", "Terminated"}
  BY <1>1, <1>2, <1>4
<1>7. ASSUME NEW i \in 1..Len(h2), h2[i].ev[1] = sum
      PROVE  h2[i].data = {Cardinality(Pings(h2))}
  <2>1. /\ Len(h) \in Nat
        /\ i \in 1..Len(h) \/ i = Len(h) + 1
        /\ i \in 1..Len(h) => h2[i] = h[i]
        /\ h2[Len(h) + 1] = e
    BY DEF LongerBy
  <2>2. ASSUME i \in 1..Len(h)
        PROVE  h2[i].data = {Cardinality(Pings(h2))}
    <3>1. h[i].ev[1] = sum /\ h2[i].data = {Cardinality(Pings(h))}
      BY <1>2, <1>7, <2>1, <2>2
    <3>2. Has(h, sum)
      BY <2>2, <3>1 DEF Has
    <3>3. Pings(h2) = Pings(h)
      BY <1>1, <1>2, <1>3, <3>2
    <3> QED
      BY <3>1, <3>3
  <2>3. ASSUME i = Len(h) + 1
        PROVE  h2[i].data = {Cardinality(Pings(h2))}
    <3>1. e.ev[1] = sum
      BY <1>7, <2>1, <2>3
    <3>2. Pings(h2) = Pings(h)
      BY <1>1, <3>1
    <3> QED
      BY <1>3, <2>1, <2>3, <3>1, <3>2
  <2> QED
    BY <2>1, <2>2, <2>3
<1> QED
  BY <1>5, <1>6, <1>7 DEF GoodPing

\* An accepted command keeps the history good.
LEMMA GoodLonger ==
    ASSUME NEW t \in Types, NEW h, NEW rp, NEW ds, GoodHist(t, h, rp, ds),
           NEW cmd, Accepted(t, cmd, StateOf(h)), NEW e,
           e.ev = Tell(t, cmd).ev,
           e.st = After(t, cmd, StateOf(h)), GoodEvent(e, rp, ds),
           cmd = "PostSummary" => e.data = {Cardinality(Pings(h))},
           NEW h2, LongerBy(h, e, h2)
    PROVE  GoodHist(t, h2, rp, ds)
<1>1. /\ \A i \in 1..Len(h) : GoodEvent(h[i], rp, ds)
      /\ Has(h, "ServerPingsGathered") => t = "ping"
      /\ t = "ping" => GoodPing(h)
      /\ t = "split" => Decided(StateOf(h))
  BY DEF GoodHist
<1>2. e.ev[1] = EventType(t, cmd)
  BY DEF EventType
<1>3. /\ StateOf(h2) = e.st
      /\ \A type : Has(h2, type) <=> (Has(h, type) \/ e.ev[1] = type)
  BY LongerHas
<1>4. \A i \in 1..Len(h2) : GoodEvent(h2[i], rp, ds)
  <2>1. SUFFICES ASSUME NEW i \in 1..Len(h2)
                 PROVE  GoodEvent(h2[i], rp, ds)
    OBVIOUS
  <2>2. /\ i \in 1..Len(h) \/ i = Len(h) + 1
        /\ i \in 1..Len(h) => h2[i] = h[i]
        /\ h2[Len(h) + 1] = e
    BY DEF LongerBy
  <2> QED
    BY <1>1, <2>2
<1>5. Has(h2, "ServerPingsGathered") => t = "ping"
  BY <1>1, <1>2, <1>3, WhoPosts
<1>6. t = "ping" => GoodPing(h2)
  BY <1>1, <1>2, PingLonger
<1>7. t = "split" => Decided(StateOf(h2))
  BY <1>1, <1>3, SplitDecided
<1>8. h2 \in Seq({h2[i] : i \in 1..Len(h2)})
  BY DEF LongerBy
<1> QED
  BY <1>4, <1>5, <1>6, <1>7, <1>8 DEF GoodHist

-----------------------------------------------------------------------------
(***************************************************************************)
(* Activities that go on.                                                  *)
(***************************************************************************)

\* An activity or call whose steps are plain.
LEMMA PlainAct ==
    ASSUME NEW r, NEW a, NEW h, NEW ix, NEW rp, NEW ds,
           IsAct(a),
           a.todo \in Seq(Plain1),
           r \in Daemons => (a.on \/ a.todo # <<>> => ix # "none")
    PROVE  GoodAct(r, a, h, ix, rp, ds)
<1>1. Plan(a.todo) /\ Lacks(a.todo, "PostSummary")
  BY PlainPlan
<1>2. a.todo \in Seq(Names) /\ Lacks(a.todo, "AppendDecision")
  BY <1>1 DEF Plan
<1>3. Deciding(a, rp, ds)
  BY <1>2 DEF Deciding, Lacks
<1>4. Summing(a, h)
  BY <1>1 DEF Summing, Lacks
<1> QED
  BY <1>1, <1>2, <1>3, <1>4 DEF GoodAct

\* Short sequences of plain steps.
LEMMA ShortSteps == <<>> \in Seq(Plain1) /\ Quit \in Seq(Plain1) /\ Quit # <<>>
<1>1. "quit" \in Plain1
  BY DEF Plain1
<1>2. <<"quit">> \in Seq(Plain1) /\ <<"quit">> # <<>>
  BY <1>1
<1>3. <<>> \in Seq(Plain1)
  BY EmptySeq
<1> QED
  BY <1>2, <1>3 DEF Quit

\* Nothing to do.
LEMMA IdleIs == IsAct(Idle) /\ Idle.todo = <<>> /\ Idle.on = FALSE
BY DEF Idle, IsAct

\* An activity that is idle or quits.
LEMMA IdleGood ==
    ASSUME NEW r, NEW h, NEW ix, NEW rp, NEW ds
    PROVE  /\ GoodAct(r, Idle, h, ix, rp, ds)
           /\ ix # "none" =>
                 GoodAct(r, [Idle EXCEPT !.on = TRUE], h, ix, rp, ds)
           /\ (r \in Daemons => ix # "none") =>
                 GoodAct(r, [Idle EXCEPT !.on = TRUE, !.todo = Quit], h, ix, rp, ds)
<1>1. GoodAct(r, Idle, h, ix, rp, ds)
  <2>1. IsAct(Idle) /\ Idle.todo = <<>> /\ Idle.on = FALSE
    BY IdleIs
  <2> QED
    BY <2>1, ShortSteps, PlainAct
<1>2. ASSUME ix # "none"
      PROVE  GoodAct(r, [Idle EXCEPT !.on = TRUE], h, ix, rp, ds)
  <2>1. ASSUME NEW x, NEW a, a = [Idle EXCEPT !.on = x]
        PROVE  IsAct(a) /\ a.todo = Idle.todo
    BY ONLY <2>1, IdleIs DEF IsAct
  <2>2. ASSUME NEW a, a = [Idle EXCEPT !.on = TRUE]
        PROVE  GoodAct(r, a, h, ix, rp, ds)
    <3>1. IsAct(a) /\ a.todo = <<>>
      BY <2>1, <2>2, IdleIs
    <3> QED
      BY <1>2, <3>1, ShortSteps, PlainAct
  <2> QED
    BY <2>2
<1>3. ASSUME r \in Daemons => ix # "none"
      PROVE  GoodAct(r, [Idle EXCEPT !.on = TRUE, !.todo = Quit], h, ix, rp, ds)
  <2>1. ASSUME NEW x, NEW y, NEW a, a = [Idle EXCEPT !.on = x, !.todo = y]
        PROVE  IsAct(a) /\ a.todo = y
    BY ONLY <2>1, IdleIs DEF IsAct
  <2>2. ASSUME NEW a, a = [Idle EXCEPT !.on = TRUE, !.todo = Quit]
        PROVE  GoodAct(r, a, h, ix, rp, ds)
    <3>1. IsAct(a) /\ a.todo = Quit
      BY <2>1, <2>2
    <3> QED
      BY <1>3, <3>1, ShortSteps, PlainAct
  <2> QED
    BY <2>2
<1> QED
  BY <1>1, <1>2, <1>3

\* A step that fails.
LEMMA FailedGood ==
    ASSUME NEW r, NEW a, NEW h, NEW ix, NEW rp, NEW ds,
           r \in Daemons => ix # "none"
    PROVE  GoodAct(r, Failed(r, a), h, ix, rp, ds)
BY IdleGood DEF Failed

\* An activity that goes on with steps for which it is good.
LEMMA ThenGood ==
    ASSUME NEW r, NEW b, NEW todo, NEW h, NEW ix, NEW rp, NEW ds,
           IsAct(b),
           GoodAct(r, [b EXCEPT !.todo = todo], h, ix, rp, ds)
    PROVE  GoodAct(r, Then(b, todo), h, ix, rp, ds)
<1> DEFINE c == [b EXCEPT !.todo = todo]
<1>0. c.todo = todo /\ c.on = b.on
  BY DEF IsAct
<1>1. r \in Daemons => (b.on \/ todo # <<>> => ix # "none")
  BY <1>0 DEF GoodAct
<1>2. ASSUME todo = Quit
      PROVE  GoodAct(r, Then(b, todo), h, ix, rp, ds)
  <2>1. Then(b, todo) = [Idle EXCEPT !.on = TRUE, !.todo = Quit]
    BY <1>2, ShortSteps, Zenon DEF Then
  <2>2. r \in Daemons => ix # "none"
    BY <1>1, <1>2, ShortSteps
  <2> QED
    BY <2>1, <2>2, IdleGood
<1>3. ASSUME todo = <<>>
      PROVE  GoodAct(r, Then(b, todo), h, ix, rp, ds)
  <2>1. ASSUME NEW q, NEW d, NEW a,
               a = [b EXCEPT !.todo = <<>>, !.at = 0, !.quits = q, !.data = d]
        PROVE  IsAct(a) /\ a.todo = <<>> /\ a.on = b.on
    BY ONLY <2>1, IsAct(b) DEF IsAct
  <2>2. ASSUME NEW a,
               a = [b EXCEPT !.todo = <<>>, !.at = 0, !.quits = FALSE, !.data = {}]
        PROVE  GoodAct(r, a, h, ix, rp, ds)
    <3>1. IsAct(a) /\ a.todo = <<>> /\ a.on = b.on
      BY <2>1, <2>2
    <3> QED
      BY <1>1, <3>1, ShortSteps, PlainAct
  <2>3. Then(b, todo) =
           [b EXCEPT !.todo = <<>>, !.at = 0, !.quits = FALSE, !.data = {}]
    BY <1>3, ShortSteps, Zenon DEF Then
  <2> QED
    BY <2>2, <2>3
<1>4. ASSUME todo # Quit, todo # <<>>
      PROVE  GoodAct(r, Then(b, todo), h, ix, rp, ds)
  BY <1>4 DEF Then
<1> QED
  BY <1>2, <1>3, <1>4

\* The histories that a step of anyone leads to.
Grows(h, ix, h2, ix2) ==
    /\ ix # "none" => ix2 # "none"
    /\ \/ h2 = h
       \/ h2 = <<>>
       \/ /\ Len(h) \in Nat
          /\ Len(h2) = Len(h) + 1
          /\ ix # "none" => h # <<>>

\* What an activity has read, after a step of another.
LEMMA ReadGrows ==
    ASSUME NEW a, NEW h, NEW ix, NEW h2, NEW ix2, HasRead(a, h),
           Grows(h, ix, h2, ix2), ix # "none"
    PROVE  HasRead(a, h2)
<1>1. CASE h2 = h
  BY <1>1
<1>2. CASE h2 = <<>>
  <2>1. Len(h2) = 0
    BY <1>2
  <2>2. a.at = 0 => h2 = h
    BY <1>2 DEF HasRead
  <2> QED
    BY <1>2, <2>1, <2>2 DEF HasRead
<1>3. CASE /\ Len(h) \in Nat
           /\ Len(h2) = Len(h) + 1
           /\ h # <<>>
  <2>1. a.at \in Nat /\ a.at # 0 /\ a.at <= Len(h)
    BY <1>3 DEF HasRead
  <2>2. a.at # Len(h2) /\ a.at <= Len(h2)
    BY <1>3, <2>1
  <2> QED
    BY <2>1, <2>2 DEF HasRead
<1> QED
  BY <1>1, <1>2, <1>3 DEF Grows

\* An activity, after a step of another.
LEMMA ActGrows ==
    ASSUME NEW r, NEW a, NEW h, NEW ix, NEW rp, NEW ds,
           GoodAct(r, a, h, ix, rp, ds), NEW h2, NEW ix2, NEW rp2, NEW ds2,
           Grows(h, ix, h2, ix2), rp \subseteq rp2, ds \subseteq ds2
    PROVE  GoodAct(r, a, h2, ix2, rp2, ds2)
<1>1. Deciding(a, rp2, ds2)
  <2>1. Deciding(a, rp, ds)
    BY DEF GoodAct
  <2> QED
    BY <2>1 DEF Deciding, Applied
<1>2. ix # "none" => ix2 # "none"
  BY DEF Grows
<1>3. Summing(a, h2)
  <2>1. Summing(a, h)
    BY DEF GoodAct
  <2>2. SUFFICES ASSUME NEW i \in 1..Len(a.todo), a.todo[i] = "PostSummary"
                 PROVE  /\ ~a.quits
                        /\ i = 1 => HasRead(a, h2)
                        /\ i > 1 => a.todo[i - 1] = "PingSummary"
    BY DEF Summing
  <2>3. /\ ~a.quits
        /\ i = 1 => HasRead(a, h)
        /\ i > 1 => a.todo[i - 1] = "PingSummary"
    BY <2>1, <2>2 DEF Summing
  <2>4. r = "regd"
    BY <2>2 DEF GoodAct, Lacks
  <2>5. a.todo # <<>>
    BY <2>2
  <2>6. ix # "none"
    BY <2>4, <2>5 DEF GoodAct, Daemons
  <2> QED
    BY <2>3, <2>6, ReadGrows
<1> QED
  BY <1>1, <1>2, <1>3 DEF GoodAct

\* What the first step of activity `a' has done, if others depend on it; `b' is
\* the activity after the step.
StepDone(a, b, h2, rp2, ds2) ==
    /\ a.todo[1] = "PingSummary" => HasRead(b, h2)
    /\ a.todo[1] = "InitRepo" =>
          \A p \in Paths, d \in Decisions : a.data = {<<p, d>>} => p \in rp2
    /\ a.todo[1] = "SetPathFlags" =>
          \A p \in Paths, d \in Decisions : a.data = {<<p, d>>} => p \in ds2

\* An activity that goes on with its next step.
LEMMA TailGood ==
    ASSUME NEW r, NEW a, NEW h, NEW ix, NEW rp, NEW ds,
           GoodAct(r, a, h, ix, rp, ds), a.todo # <<>>,
           NEW b, IsAct(b),
           b.on = a.on, b.quits = a.quits, r = "admin" => b.data = a.data,
           NEW h2, NEW ix2, NEW rp2, NEW ds2, ix # "none" => ix2 # "none",
           rp \subseteq rp2, ds \subseteq ds2, StepDone(a, b, h2, rp2, ds2)
    PROVE  GoodAct(r, Then(b, Tail(a.todo)), h2, ix2, rp2, ds2)
<1> DEFINE c == [b EXCEPT !.todo = Tail(a.todo)]
           n == Len(a.todo)
<1>1. /\ IsAct(c)
      /\ c.todo = Tail(a.todo) /\ c.on = a.on /\ c.quits = a.quits
      /\ c.at = b.at /\ c.data = b.data
  BY DEF IsAct
<1>2. /\ a.todo \in Seq(Names)
      /\ r # "admin" => Lacks(a.todo, "AppendDecision")
      /\ r # "regd" => Lacks(a.todo, "PostSummary")
      /\ r \in Daemons => (a.on \/ a.todo # <<>> => ix # "none")
      /\ Deciding(a, rp, ds)
      /\ Summing(a, h)
  BY DEF GoodAct
<1>3. /\ c.todo \in Seq(Names)
      /\ n \in Nat
      /\ Len(c.todo) = n - 1
      /\ \A i \in 1..Len(c.todo) : c.todo[i] = a.todo[i + 1] /\ i + 1 \in 1..n
  BY <1>1, <1>2
<1>4. HasRead(b, h2) => HasRead(c, h2)
  BY <1>1 DEF HasRead
<1> HIDE DEF c
<1>5. /\ r # "admin" => Lacks(c.todo, "AppendDecision")
      /\ r # "regd" => Lacks(c.todo, "PostSummary")
  BY <1>2, <1>3 DEF Lacks
<1>6. Deciding(c, rp2, ds2)
  <2>1. SUFFICES ASSUME NEW i \in 1..Len(c.todo), c.todo[i] = "AppendDecision"
                 PROVE  \E p \in Paths, d \in Decisions :
                            /\ c.data = {<<p, d>>}
                            /\ i = 1 => Applied(p, d, rp2, ds2)
                            /\ i > 1 /\ d = "create" => c.todo[i - 1] = "InitRepo"
                            /\ i > 1 /\ d = "never" => c.todo[i - 1] = "SetPathFlags"
    BY DEF Deciding
  <2>2. a.todo[i + 1] = "AppendDecision" /\ i + 1 \in 1..n /\ i + 1 > 1
    BY <1>3, <2>1
  <2>3. PICK p \in Paths, d \in Decisions :
            /\ a.data = {<<p, d>>}
            /\ d = "create" => a.todo[(i + 1) - 1] = "InitRepo"
            /\ d = "never" => a.todo[(i + 1) - 1] = "SetPathFlags"
    BY <1>2, <2>2 DEF Deciding
  <2>4. (i + 1) - 1 = i
    OBVIOUS
  <2>5. r = "admin"
    BY <1>2, <2>2 DEF Lacks
  <2>6. c.data = {<<p, d>>}
    BY <1>1, <2>3, <2>5
  <2>7. i = 1 => Applied(p, d, rp2, ds2)
    BY <2>3, <2>4 DEF StepDone, Applied
  <2>8. ASSUME i > 1
        PROVE  c.todo[i - 1] = a.todo[i]
    <3>1. i - 1 \in 1..Len(c.todo) /\ (i - 1) + 1 = i
      BY <1>3, <2>8
    <3> QED
      BY <1>3, <3>1
  <2> QED
    BY <2>3, <2>4, <2>6, <2>7, <2>8
<1>7. Summing(c, h2)
  <2>1. SUFFICES ASSUME NEW i \in 1..Len(c.todo), c.todo[i] = "PostSummary"
                 PROVE  /\ ~c.quits
                        /\ i = 1 => HasRead(c, h2)
                        /\ i > 1 => c.todo[i - 1] = "PingSummary"
    BY DEF Summing
  <2>2. a.todo[i + 1] = "PostSummary" /\ i + 1 \in 1..n /\ i + 1 > 1
    BY <1>3, <2>1
  <2>3. ~a.quits /\ a.todo[(i + 1) - 1] = "PingSummary"
    BY <1>2, <2>2 DEF Summing
  <2>4. (i + 1) - 1 = i
    OBVIOUS
  <2>5. i = 1 => HasRead(c, h2)
    BY <1>4, <2>3, <2>4 DEF StepDone
  <2>6. ASSUME i > 1
        PROVE  c.todo[i - 1] = a.todo[i]
    <3>1. i - 1 \in 1..Len(c.todo) /\ (i - 1) + 1 = i
      BY <1>3, <2>6
    <3> QED
      BY <1>3, <3>1
  <2> QED
    BY <1>1, <2>3, <2>4, <2>5, <2>6
<1>8. GoodAct(r, c, h2, ix2, rp2, ds2)
  BY <1>1, <1>2, <1>3, <1>5, <1>6, <1>7 DEF GoodAct
<1> QED
  BY <1>8, ThenGood DEF c

-----------------------------------------------------------------------------
(***************************************************************************)
(* What a step has to show.                                                *)
(***************************************************************************)

\* The activities after a step: a changed one is good.
ActsOk ==
    /\ act' = [r \in Roles |-> [w \in Workflows |-> act'[r][w]]]
    /\ \A r \in Roles : \A w \in Workflows :
          \/ act'[r][w] = act[r][w]
          \/ GoodAct(r, act'[r][w], hist'[w], index'[w], repos', dontSplit')

\* The histories and the index after a step.
HistsOk ==
    /\ hist' = [w \in Workflows |-> hist'[w]]
    /\ index' = [w \in Workflows |-> index'[w]]
    /\ \A w \in Workflows :
          /\ GoodHist(typ[w], hist'[w], repos', dontSplit')
          /\ Grows(hist[w], index[w], hist'[w], index'[w])

\* What has been added to the registry stays.
RegistryGrows == repos \subseteq repos' /\ dontSplit \subseteq dontSplit'

\* The invariant at one workflow.
LEMMA InvAt ==
    ASSUME EphInv, NEW r \in Roles, NEW w \in Workflows
    PROVE  /\ typ[w] \in Types
           /\ GoodHist(typ[w], hist[w], repos, dontSplit)
           /\ GoodAct(r, act[r][w], hist[w], index[w], repos, dontSplit)
BY DEF EphInv

\* A step that shows this preserves the invariant.
LEMMA Preserve ==
    ASSUME EphInv, ActsOk, HistsOk, RegistryGrows, typ' = typ
    PROVE  EphInv'
<1>1. typ' \in [Workflows -> Types]
  BY DEF EphInv
<1>2. \A w \in Workflows : GoodHist(typ'[w], hist'[w], repos', dontSplit')
  BY DEF HistsOk
<1>3. ASSUME NEW r \in Roles, NEW w \in Workflows
      PROVE  GoodAct(r, act'[r][w], hist'[w], index'[w], repos', dontSplit')
  <2>1. GoodAct(r, act[r][w], hist[w], index[w], repos, dontSplit)
    BY DEF EphInv
  <2>2. Grows(hist[w], index[w], hist'[w], index'[w])
    BY DEF HistsOk
  <2>3. GoodAct(r, act[r][w], hist'[w], index'[w], repos', dontSplit')
    BY <2>1, <2>2, ActGrows DEF RegistryGrows
  <2> QED
    BY <2>3 DEF ActsOk
<1>4. /\ act' = [r \in Roles |-> [w \in Workflows |-> act'[r][w]]]
      /\ hist' = [w \in Workflows |-> hist'[w]]
      /\ index' = [w \in Workflows |-> index'[w]]
  BY DEF ActsOk, HistsOk
<1> QED
  BY <1>1, <1>2, <1>3, <1>4 DEF EphInv

\* One activity changes.
LEMMA ActsAt ==
    ASSUME EphInv, NEW r0 \in Roles, NEW w0 \in Workflows, NEW x,
           act' = [act EXCEPT ![r0][w0] = x],
           GoodAct(r0, x, hist'[w0], index'[w0], repos', dontSplit')
    PROVE  ActsOk
<1>1. act = [r \in Roles |-> [w \in Workflows |-> act[r][w]]]
  BY DEF EphInv
<1>2. /\ act'[r0][w0] = x
      /\ \A r \in Roles : \A w \in Workflows :
            <<r, w>> # <<r0, w0>> => act'[r][w] = act[r][w]
      /\ act' = [r \in Roles |-> [w \in Workflows |-> act'[r][w]]]
  BY <1>1
<1> QED
  BY <1>2 DEF ActsOk

\* No activity changes.
LEMMA SameActs ==
    ASSUME EphInv, act' = act
    PROVE  ActsOk
BY DEF EphInv, ActsOk

\* A step fails.
LEMMA FailActs ==
    ASSUME EphInv, NEW r \in Roles, NEW w \in Workflows, Fail(r, w),
           act[r][w].todo # <<>>, index[w] # "none" => index'[w] # "none"
    PROVE  ActsOk
<1>1. act' = [act EXCEPT ![r][w] = Failed(r, act[r][w])]
  BY DEF Fail
<1>2. GoodAct(r, act[r][w], hist[w], index[w], repos, dontSplit)
  BY InvAt
<1>3. r \in Daemons => index'[w] # "none"
  BY <1>2 DEF GoodAct
<1>4. GoodAct(r, Failed(r, act[r][w]), hist'[w], index'[w], repos', dontSplit')
  BY <1>3, FailedGood
<1> QED
  BY <1>1, <1>4, ActsAt

\* The workflow refuses a command.
LEMMA RefusedActs ==
    ASSUME EphInv, NEW r \in Roles, NEW w \in Workflows, NEW cmd,
           Refused(r, w, cmd), act[r][w].todo # <<>>,
           index[w] # "none" => index'[w] # "none"
    PROVE  ActsOk
<1>1. CASE Fail(r, w)
  BY <1>1, FailActs
<1>2. CASE act' = [act EXCEPT ![r][w] = Then(act[r][w], Quit)]
  <2>1. r \in Daemons => index'[w] # "none"
    BY InvAt DEF GoodAct
  <2>2. Then(act[r][w], Quit) = [Idle EXCEPT !.on = TRUE, !.todo = Quit]
    BY ShortSteps, Zenon DEF Then
  <2>3. GoodAct(r, Then(act[r][w], Quit), hist'[w], index'[w], repos',
                dontSplit')
    BY <2>1, <2>2, IdleGood
  <2> QED
    BY <1>2, <2>3, ActsAt
<1> QED
  BY <1>1, <1>2 DEF Refused

\* A step is done, or its answer is lost.
LEMMA DoneActs ==
    ASSUME EphInv, NEW r \in Roles, NEW w \in Workflows, NEW b, Done(r, w, b),
           act[r][w].todo # <<>>, index[w] # "none" => index'[w] # "none",
           IsAct(b), b.todo = act[r][w].todo, b.on = act[r][w].on,
           b.quits = act[r][w].quits,
           r = "admin" => b.data = act[r][w].data, RegistryGrows,
           StepDone(act[r][w], b, hist'[w], repos', dontSplit')
    PROVE  ActsOk
<1>1. ASSUME act' = [act EXCEPT ![r][w] = Then(b, Tail(b.todo))]
      PROVE  ActsOk
  <2>1. GoodAct(r, act[r][w], hist[w], index[w], repos, dontSplit)
    BY InvAt
  <2>2. GoodAct(r, Then(b, Tail(act[r][w].todo)), hist'[w], index'[w], repos',
                dontSplit')
    BY <2>1, TailGood DEF RegistryGrows
  <2> QED
    BY <1>1, <2>2, ActsAt
<1>2. ASSUME Fail(r, w)
      PROVE  ActsOk
  BY <1>2, FailActs
<1> QED
  BY <1>1, <1>2 DEF Done

\* The histories remain.
LEMMA SameHists ==
    ASSUME EphInv, hist' = hist, RegistryGrows,
           index' = [w \in Workflows |-> index'[w]],
           \A w \in Workflows : index[w] # "none" => index'[w] # "none"
    PROVE  HistsOk
<1>1. ASSUME NEW w \in Workflows
      PROVE  /\ GoodHist(typ[w], hist'[w], repos', dontSplit')
             /\ Grows(hist[w], index[w], hist'[w], index'[w])
  <2>1. GoodHist(typ[w], hist[w], repos, dontSplit)
    BY DEF EphInv
  <2>2. GoodHist(typ[w], hist[w], repos', dontSplit')
    BY <2>1, HistMono DEF RegistryGrows
  <2> QED
    BY <2>2 DEF Grows
<1>2. hist' = [w \in Workflows |-> hist'[w]]
  BY DEF EphInv
<1> QED
  BY <1>1, <1>2 DEF HistsOk

\* Neither the histories nor the index change.
LEMMA NothingHists ==
    ASSUME EphInv, hist' = hist, index' = index, RegistryGrows
    PROVE  HistsOk
<1>1. index' = [w \in Workflows |-> index'[w]]
  BY DEF EphInv
<1> QED
  BY <1>1, SameHists

\* One entry of the index changes.
LEMMA IndexHists ==
    ASSUME EphInv, hist' = hist, UNCHANGED registry, NEW w0 \in Workflows, NEW x,
           index' = [index EXCEPT ![w0] = x], index[w0] # "none" => x # "none"
    PROVE  HistsOk /\ index'[w0] = x
<1>1. index = [w \in Workflows |-> index[w]]
  BY DEF EphInv
<1>2. /\ index' = [w \in Workflows |-> index'[w]]
      /\ index'[w0] = x
      /\ \A w \in Workflows : w # w0 => index'[w] = index[w]
  BY <1>1
<1>3. RegistryGrows
  BY DEF registry, RegistryGrows
<1> QED
  BY <1>2, <1>3, SameHists

\* One history changes.
LEMMA HistsAt ==
    ASSUME EphInv, UNCHANGED registry, index' = index, NEW w0 \in Workflows,
           NEW x, hist' = [hist EXCEPT ![w0] = x],
           GoodHist(typ[w0], x, repos, dontSplit),
           Grows(hist[w0], index[w0], x, index[w0])
    PROVE  HistsOk /\ hist'[w0] = x
<1>1. hist = [w \in Workflows |-> hist[w]]
  BY DEF EphInv
<1>2. /\ hist' = [w \in Workflows |-> hist'[w]]
      /\ hist'[w0] = x
      /\ \A w \in Workflows : w # w0 => hist'[w] = hist[w]
  BY <1>1
<1>3. repos' = repos /\ dontSplit' = dontSplit
  BY DEF registry
<1>4. index' = [w \in Workflows |-> index'[w]]
  BY DEF EphInv
<1>5. ASSUME NEW w \in Workflows
      PROVE  /\ GoodHist(typ[w], hist'[w], repos', dontSplit')
             /\ Grows(hist[w], index[w], hist'[w], index'[w])
  <2>1. CASE w = w0
    BY <1>2, <1>3, <2>1
  <2>2. CASE w # w0
    <3>1. GoodHist(typ[w], hist[w], repos, dontSplit)
      BY DEF EphInv
    <3> QED
      BY <1>2, <1>3, <2>2, <3>1 DEF Grows
  <2> QED
    BY <2>1, <2>2
<1> QED
  BY <1>2, <1>4, <1>5 DEF HistsOk

\* The state is that of the history.
LEMMA StateIs ==
    ASSUME NEW w
    PROVE  /\ State(w) = StateOf(hist[w])
           /\ hist[w] = <<>> => Scode(State(w)) = "Uninitialized"
BY DEF State, StateOf, New, Scode

\* An accepted command makes the history longer.
LEMMA PostHists ==
    ASSUME EphInv, UNCHANGED registry, index' = index, NEW w0 \in Workflows,
           NEW cmd, Accepted(typ[w0], cmd, State(w0)), NEW data,
           Post(w0, Tell(typ[w0], cmd).ev, data),
           EventType(typ[w0], cmd) = "DecisionAppended" =>
               \E p \in Paths, d \in Decisions :
                   data = {<<p, d>>} /\ Applied(p, d, repos, dontSplit),
           cmd = "PostSummary" => data = {Cardinality(Pings(hist[w0]))},
           cmd = "Init" => index[w0] = "none"
    PROVE  HistsOk
<1> DEFINE t == typ[w0]
           h == hist[w0]
<1>1. t \in Types /\ GoodHist(t, h, repos, dontSplit)
  BY DEF EphInv
<1>2. PICK e : /\ hist' = [hist EXCEPT ![w0] = Append(h, e)]
               /\ e.ev = Tell(t, cmd).ev
               /\ e.st = Advance(t, State(w0), Tell(t, cmd).ev)
               /\ e.data = data
  <2> DEFINE z == [ev |-> Tell(t, cmd).ev, data |-> data,
                   st |-> Advance(t, State(w0), Tell(t, cmd).ev),
                   view |-> [r \in Daemons |->
                               Load(r, w0, View(r, w0, Len(h)), Tell(t, cmd).ev)]]
  <2>1. /\ z.ev = Tell(t, cmd).ev
        /\ z.st = Advance(t, State(w0), Tell(t, cmd).ev)
        /\ z.data = data
    OBVIOUS
  <2>2. hist' = [hist EXCEPT ![w0] = Append(h, z)]
    BY Zenon DEF Post
  <2> HIDE DEF z
  <2> QED
    BY <2>1, <2>2
<1>3. LongerBy(h, e, Append(h, e))
  <2>1. h \in Seq({h[i] : i \in 1..Len(h)})
    BY <1>1 DEF GoodHist
  <2> HIDE DEF h
  <2> QED
    BY <2>1, AppendAny DEF LongerBy
<1>4. GoodEvent(e, repos, dontSplit)
  BY <1>2 DEF GoodEvent, EventType
<1>5. State(w0) = StateOf(h)
  BY StateIs
<1>6. e.st = After(t, cmd, StateOf(h))
  BY <1>2, <1>5 DEF After
<1>7. GoodHist(t, Append(h, e), repos, dontSplit)
  BY <1>1, <1>2, <1>3, <1>4, <1>5, <1>6, GoodLonger
<1>8. Grows(h, index[w0], Append(h, e), index[w0])
  <2>1. ASSUME index[w0] # "none"
        PROVE  h # <<>>
    BY <1>1, <2>1, OnlyInit, StateIs
  <2> QED
    BY <1>3, <2>1 DEF Grows, LongerBy
<1> QED
  BY <1>2, <1>7, <1>8, HistsAt

-----------------------------------------------------------------------------
(***************************************************************************)
(* The steps.                                                              *)
(***************************************************************************)

\* The registry does not change.
LEMMA SameRegistry ==
    ASSUME UNCHANGED registry
    PROVE  RegistryGrows
BY DEF registry, RegistryGrows

\* A new workflow accepts Init.
LEMMA InitAccepted ==
    ASSUME NEW t \in Types
    PROVE  Accepted(t, "Init", New)
<1>1. New \in {"Uninitialized"} \X BOOLEAN
  BY DEF New
<1>2. ASSUME NEW again, NEW type, NEW ok,
             Tell(t, "Init") = CmdIn({"Uninitialized"} \X BOOLEAN, again, type, ok)
      PROVE  New \in Tell(t, "Init").from
  BY <1>1, <1>2 DEF CmdIn
<1>3. CASE t = "split"
  <2>1. Tell(t, "Init") =
           CmdIn({"Uninitialized"} \X BOOLEAN, {"Initialized"}, "Started", TRUE)
    BY <1>3 DEF Tell, SplitRootTellDu, SplitRootTellAnalysis, SplitRootTellEnd,
       Cmd
  <2> QED
    BY ONLY <1>2, <1>3, <2>1, CommandNames DEF Accepted
<1>4. CASE t = "du"
  <2>1. Tell(t, "Init") =
           CmdIn({"Uninitialized"} \X BOOLEAN, {"Initialized"}, "Started", TRUE)
    BY <1>4 DEF Tell, DuRootTell, Cmd
  <2> QED
    BY ONLY <1>2, <1>4, <2>1, CommandNames DEF Accepted
<1>5. CASE t = "ping"
  <2>1. Tell(t, "Init") =
           CmdIn({"Uninitialized"} \X BOOLEAN, {"Initialized"}, "Started", TRUE)
    BY <1>5 DEF Tell, PingRegistryTell, Cmd
  <2> QED
    BY ONLY <1>2, <1>5, <2>1, CommandNames DEF Accepted
<1> QED
  BY <1>3, <1>4, <1>5 DEF Types

\* A workflow is started.
LEMMA BeginStep ==
    ASSUME EphInv, NEW w \in Workflows, Begin(w)
    PROVE  EphInv'
<1>1. typ[w] \in Types
  BY DEF EphInv
<1>2. /\ hist[w] = <<>> /\ index[w] = "none"
      /\ Post(w, Tell(typ[w], "Init").ev, {})
      /\ UNCHANGED registry /\ typ' = typ /\ index' = index /\ act' = act
  BY DEF Begin, indexes
<1>3. State(w) = New
  BY <1>2 DEF State
<1>4. Accepted(typ[w], "Init", State(w))
  BY <1>1, <1>3, InitAccepted
<1>5. EventType(typ[w], "Init") # "DecisionAppended"
  BY <1>1, <1>4, WhoPosts
<1>6. HistsOk
  BY <1>2, <1>4, <1>5, PostHists
<1> QED
  BY <1>2, <1>6, SameActs, SameRegistry, Preserve

\* The index follows, or does not.
LEMMA BeginIndexStep ==
    ASSUME EphInv, NEW w \in Workflows, BeginIndex(w) \/ BeginLost(w)
    PROVE  EphInv'
<1>1. PICK x : /\ index' = [index EXCEPT ![w] = x] /\ x # "none"
               /\ UNCHANGED registry /\ typ' = typ /\ hist' = hist /\ act' = act
  BY DEF BeginIndex, BeginLost
<1>2. HistsOk
  BY <1>1, IndexHists
<1> QED
  BY <1>1, <1>2, SameActs, SameRegistry, Preserve

\* An activity processes a view.
LEMMA ProcessViewStep ==
    ASSUME EphInv, NEW r \in Daemons, NEW w \in Workflows, ProcessView(r, w)
    PROVE  EphInv'
<1> DEFINE a == act[r][w]
           h == hist[w]
<1>1. r \in Roles
  BY DEF Roles
<1>2. /\ typ[w] \in Types
      /\ GoodHist(typ[w], h, repos, dontSplit)
      /\ GoodAct(r, a, h, index[w], repos, dontSplit)
  BY <1>1, InvAt
<1>3. PICK p \in (IF a.pos = 0 THEN {Len(h)}
                     ELSE {q \in a.pos + 1 .. Len(h) : Steps(r, w, q) # DoContinue}) :
      \E alt \in Steps(r, w, p) :
         act' = [act EXCEPT ![r][w] =
                   Then([a EXCEPT !.on = TRUE, !.pos = p, !.at = p,
                                  !.quits = alt.quits], alt.steps)]
  BY DEF ProcessView
<1>4. PICK alt \in Steps(r, w, p) :
         act' = [act EXCEPT ![r][w] =
                   Then([a EXCEPT !.on = TRUE, !.pos = p, !.at = p,
                                  !.quits = alt.quits], alt.steps)]
  BY <1>3
<1>5. /\ index[w] = "active" \/ a.on
      /\ a.pos < Len(h)
      /\ UNCHANGED registry /\ typ' = typ /\ hist' = hist /\ index' = index
  BY DEF ProcessView, indexes
<1>6. index[w] # "none"
  BY <1>2, <1>5 DEF GoodAct
<1>7. p \in Nat
  <2>1. Len(h) \in Nat
    BY <1>2 DEF GoodHist
  <2>2. CASE a.pos = 0
    BY <1>3, <2>1, <2>2
  <2>3. CASE a.pos # 0
    <3>1. p \in a.pos + 1 .. Len(h)
      BY <1>3, <2>3
    <3>2. a.pos \in Nat
      BY <1>2 DEF GoodAct, IsAct
    <3> QED
      BY <2>1, <3>1, <3>2
  <2> QED
    BY <2>2, <2>3
<1>8. GoodAlt(r, alt)
  BY <1>2, <1>4, <1>7, StepsGood
<1>9. ASSUME NEW on, NEW b, b = [a EXCEPT !.on = on, !.pos = p, !.at = p,
                                          !.quits = alt.quits]
      PROVE  IsAct(b) /\ b.quits = alt.quits
  <2>1. IsAct(a)
    BY <1>2 DEF GoodAct
  <2> HIDE DEF a
  <2> QED
    BY ONLY <1>7, <1>9, <2>1 DEF IsAct
<1>10. ASSUME NEW b, b = [a EXCEPT !.on = TRUE, !.pos = p, !.at = p,
                                   !.quits = alt.quits]
       PROVE  GoodAct(r, Then(b, alt.steps), h, index[w], repos, dontSplit)
  <2>1. IsAct(b) /\ b.quits = alt.quits
    BY <1>9, <1>10
  <2> DEFINE c == [b EXCEPT !.todo = alt.steps]
  <2>2. IsAct(c) /\ c.todo = alt.steps /\ c.quits = alt.quits
    BY <2>1 DEF IsAct
  <2> HIDE DEF c
  <2>3. /\ c.todo \in Seq(Names)
        /\ Lacks(c.todo, "AppendDecision")
        /\ r # "regd" => Lacks(c.todo, "PostSummary")
    BY <1>8, <2>2 DEF GoodAlt, Plan
  <2>4. Deciding(c, repos, dontSplit)
    BY <2>3 DEF Deciding, Lacks
  <2>5. Summing(c, h)
    <3>1. SUFFICES ASSUME NEW i \in 1..Len(c.todo), c.todo[i] = "PostSummary"
                   PROVE  /\ ~c.quits
                          /\ i = 1 => HasRead(c, h)
                          /\ i > 1 => c.todo[i - 1] = "PingSummary"
      BY DEF Summing
    <3>2. i > 1 /\ c.todo[i - 1] = "PingSummary"
      BY <1>8, <2>2, <3>1 DEF GoodAlt, SumsUp
    <3>3. ~c.quits
      BY <1>8, <2>2, <3>1 DEF GoodAlt, Lacks
    <3> QED
      BY <3>2, <3>3
  <2>6. GoodAct(r, c, h, index[w], repos, dontSplit)
    BY <1>6, <2>2, <2>3, <2>4, <2>5 DEF GoodAct
  <2> QED
    BY <2>1, <2>6, ThenGood DEF c
<1>11. repos' = repos /\ dontSplit' = dontSplit
  BY <1>5 DEF registry
<1>12. ActsOk
  <2> HIDE DEF a, h
  <2>1. GoodAct(r, Then([a EXCEPT !.on = TRUE, !.pos = p, !.at = p,
                                  !.quits = alt.quits], alt.steps),
                hist'[w], index'[w], repos', dontSplit')
    BY <1>5, <1>10, <1>11 DEF h
  <2> QED
    BY <1>1, <1>4, <2>1, ActsAt
<1> QED
  BY <1>5, <1>12, NothingHists, SameRegistry, Preserve

\* A command to the workflow.
LEMMA WfCommandStep ==
    ASSUME EphInv, NEW r \in Roles, NEW w \in Workflows, WfCommand(r, w)
    PROVE  EphInv'
<1> DEFINE a == act[r][w]
           t == typ[w]
           h == hist[w]
           cmd == Head(a.todo)
           c == Tell(t, cmd)
           s == State(w)
           ok == /\ a.at \in {0, Len(h)} \/ a.quits \/ cmd \in NoVC(t)
                 /\ s \in c.from \/ Scode(s) \in c.again
                 /\ TellOk(w, cmd, a.data)
<1>1. /\ a.todo # <<>> /\ cmd \in Commands(t)
      /\ IF ok
         THEN /\ IF s \in c.from THEN Post(w, c.ev, EventData(r, cmd, a.data))
                                 ELSE hist' = hist
              /\ Done(r, w, [a EXCEPT !.at = Len(hist'[w])])
         ELSE Refused(r, w, cmd) /\ hist' = hist
      /\ UNCHANGED registry /\ typ' = typ /\ index' = index
  BY DEF WfCommand, indexes
<1>2. /\ t \in Types
      /\ GoodHist(t, h, repos, dontSplit)
      /\ GoodAct(r, a, h, index[w], repos, dontSplit)
  BY InvAt
<1>3. RegistryGrows
  BY <1>1, SameRegistry
<1>4. /\ IsAct(a) /\ a.todo \in Seq(Names)
      /\ Deciding(a, repos, dontSplit) /\ Summing(a, h)
  BY <1>2 DEF GoodAct
<1>5. 1 \in 1..Len(a.todo) /\ a.todo[1] = cmd /\ cmd \in Names
  <2> HIDE DEF a
  <2> QED
    BY <1>1, <1>4
<1>6. cmd # "Init"
  BY <1>5 DEF Names, Plain1
<1>7. CASE ~ok
  <2>1. Refused(r, w, cmd) /\ hist' = hist
    BY <1>1, <1>7
  <2>2. ActsOk
    <3> HIDE DEF cmd
    <3> QED
      BY <1>1, <2>1, RefusedActs
  <2>3. HistsOk
    BY <1>1, <1>3, <2>1, NothingHists
  <2> QED
    BY <1>1, <1>3, <2>2, <2>3, Preserve
<1>8. CASE ok
  <2> DEFINE b == [a EXCEPT !.at = Len(hist'[w])]
             data == EventData(r, cmd, a.data)
  <2>1. Done(r, w, b)
    BY <1>1, <1>8
  <2>2. IsAct(b) /\ b.todo = a.todo /\ b.on = a.on /\ b.quits = a.quits /\ b.data = a.data
    BY <1>4 DEF IsAct
  <2>3. StepDone(a, b, hist'[w], repos', dontSplit')
    <3>1. cmd \notin {"PingSummary", "InitRepo", "SetPathFlags"}
      BY <1>1, <1>2, CommandNames DEF Types
    <3> HIDE DEF b, cmd
    <3> QED
      BY <1>5, <3>1 DEF StepDone
  <2>4. ActsOk
    <3> HIDE DEF b
    <3> QED
      BY <1>1, <1>3, <2>1, <2>2, <2>3, DoneActs
  <2>5. HistsOk
    <3>1. CASE s \notin c.from
      BY <1>1, <1>3, <1>8, <3>1, NothingHists
    <3>2. CASE s \in c.from
      <4>1. Post(w, Tell(t, cmd).ev, data)
        BY <1>1, <1>8, <3>2
      <4>2. Accepted(t, cmd, s)
        BY <1>1, <3>2 DEF Accepted
      <4>3. ASSUME EventType(t, cmd) = "DecisionAppended"
            PROVE  \E p \in Paths, d \in Decisions :
                       data = {<<p, d>>} /\ Applied(p, d, repos, dontSplit)
        <5>1. cmd = "AppendDecision"
          BY <1>2, <4>2, <4>3, WhoPosts
        <5>2. data = a.data
          BY <5>1 DEF EventData
        <5>3. \E p \in Paths, d \in Decisions :
                  a.data = {<<p, d>>} /\ Applied(p, d, repos, dontSplit)
          <6> HIDE DEF a, cmd
          <6> QED
            BY <1>4, <1>5, <5>1 DEF Deciding
        <5> HIDE DEF data, a
        <5> QED
          BY <5>2, <5>3
      <4>4. ASSUME cmd = "PostSummary"
            PROVE  data = {Cardinality(Pings(h))}
        <5>1. ~a.quits /\ HasRead(a, h)
          <6> HIDE DEF a, cmd
          <6> QED
            BY <1>4, <1>5, <4>4 DEF Summing
        <5>2. t = "ping"
          BY <1>1, <1>2, <4>4, CommandNames DEF Types
        <5>3. cmd \notin NoVC(t)
          BY <4>4, <5>2 DEF NoVC, PingRegistryNoVC
        <5>4. a.at \in {0, Len(h)}
          BY <1>8, <5>1, <5>3
        <5>5. h # <<>>
          BY <1>2, <1>6, <4>2, OnlyInit, StateIs
        <5>6. a.at = Len(h)
          BY <5>1, <5>4, <5>5 DEF HasRead
        <5>7. a.data = {Cardinality(Pings(h))}
          BY <5>1, <5>6 DEF HasRead
        <5>8. data = a.data
          BY <4>4 DEF EventData
        <5> QED
          BY <5>7, <5>8
      <4> HIDE DEF data, cmd, s, t, h
      <4>5. Accepted(typ[w], cmd, State(w)) /\ Post(w, Tell(typ[w], cmd).ev, data)
        BY <4>1, <4>2 DEF s, t
      <4>6. EventType(typ[w], cmd) = "DecisionAppended" =>
               \E p \in Paths, d \in Decisions :
                   data = {<<p, d>>} /\ Applied(p, d, repos, dontSplit)
        BY <4>3 DEF t
      <4>7. cmd = "PostSummary" => data = {Cardinality(Pings(hist[w]))}
        BY <4>4 DEF h
      <4> QED
        BY <1>1, <1>6, <4>5, <4>6, <4>7, PostHists
    <3> QED
      BY <3>1, <3>2
  <2> QED
    BY <1>1, <1>3, <2>4, <2>5, Preserve
<1> QED
  BY <1>7, <1>8

\* A step of which others do not depend, or that fails.
LEMMA OwnActs ==
    ASSUME EphInv, NEW r \in Roles, NEW w \in Workflows, NEW step, At(r, w, step),
           step \notin {"PingSummary", "InitRepo", "SetPathFlags"},
           NEW b, IsAct(b), b.todo = act[r][w].todo, b.on = act[r][w].on,
           b.quits = act[r][w].quits, r = "admin" => b.data = act[r][w].data,
           Done(r, w, b) \/ Fail(r, w), RegistryGrows,
           index[w] # "none" => index'[w] # "none"
    PROVE  ActsOk
<1>1. act[r][w].todo # <<>> /\ Head(act[r][w].todo) = step
  BY DEF At
<1>2. act[r][w].todo \in Seq(Names)
  BY InvAt DEF GoodAct
<1>3. act[r][w].todo[1] = step
  BY <1>1, <1>2
<1>4. StepDone(act[r][w], b, hist'[w], repos', dontSplit')
  BY <1>3 DEF StepDone
<1> QED
  BY <1>1, <1>4, DoneActs, FailActs

\* The same, for an activity that only goes on.
LEMMA PlainActs ==
    ASSUME EphInv, NEW r \in Roles, NEW w \in Workflows, NEW step, At(r, w, step),
           step \notin {"PingSummary", "InitRepo", "SetPathFlags"},
           Done(r, w, act[r][w]) \/ Fail(r, w), RegistryGrows,
           index[w] # "none" => index'[w] # "none"
    PROVE  ActsOk
<1>1. IsAct(act[r][w])
  BY InvAt DEF GoodAct
<1> QED
  BY <1>1, OwnActs

\* The index is told that a workflow has been completed.
LEMMA IndexCommitStep ==
    ASSUME EphInv, NEW r \in Roles, NEW w \in Workflows, IndexCommit(r, w)
    PROVE  EphInv'
<1>1. /\ At(r, w, "IndexCommit")
      /\ UNCHANGED registry /\ typ' = typ /\ hist' = hist
      /\ Done(r, w, act[r][w]) \/ Fail(r, w)
  BY DEF IndexCommit
<1>2. RegistryGrows
  BY <1>1, SameRegistry
<1>3. HistsOk /\ (index[w] # "none" => index'[w] # "none")
  <2>1. CASE index' = index
    BY <1>1, <1>2, <2>1, NothingHists
  <2>2. CASE \E x : index' = [index EXCEPT ![w] = x]
                    /\ (index[w] # "none" => x # "none")
    <3>1. PICK x : /\ index' = [index EXCEPT ![w] = x]
                   /\ index[w] # "none" => x # "none"
      BY <2>2
    <3>2. HistsOk /\ index'[w] = x
      BY <1>1, <3>1, IndexHists
    <3> QED
      BY <3>1, <3>2
  <2>3. \/ index' = index
        \/ index' = [index EXCEPT ![w] = IF last = w THEN index[w] ELSE "completed"]
    BY DEF IndexCommit, indexes
  <2> QED
    BY <2>1, <2>2, <2>3
<1>4. ActsOk
  BY <1>1, <1>2, <1>3, PlainActs
<1> QED
  BY <1>1, <1>2, <1>3, <1>4, Preserve

\* nogfsoregd suggests repos.
LEMMA ListReposStep ==
    ASSUME EphInv, NEW w \in Workflows, ListRepos(w)
    PROVE  EphInv'
<1> DEFINE a == act["regd"][w]
<1>1. PICK x : Done("regd", w, [a EXCEPT !.data = x])
  BY DEF ListRepos
<1>2. /\ At("regd", w, "ListRepos")
      /\ UNCHANGED registry /\ typ' = typ /\ hist' = hist /\ index' = index
  BY DEF ListRepos, indexes
<1>3. "regd" \in Roles
  BY DEF Roles, Daemons
<1>4. RegistryGrows
  BY <1>2, SameRegistry
<1>5. HistsOk
  BY <1>2, <1>4, NothingHists
<1> DEFINE b == [a EXCEPT !.data = x]
<1>6. IsAct(b) /\ b.todo = a.todo /\ b.on = a.on /\ b.quits = a.quits
  <2>1. IsAct(a)
    BY <1>3, InvAt DEF GoodAct
  <2> QED
    BY <2>1 DEF IsAct
<1>7. Done("regd", w, b)
  BY <1>1
<1> HIDE DEF b
<1>8. ActsOk
  BY <1>2, <1>3, <1>4, <1>6, <1>7, OwnActs
<1> QED
  BY <1>2, <1>4, <1>5, <1>8, Preserve

\* nogfsoregd reads the pings.
LEMMA PingSummaryStep ==
    ASSUME EphInv, NEW w \in Workflows, PingSummary(w)
    PROVE  EphInv'
<1> DEFINE a == act["regd"][w]
           h == hist[w]
           sum == {Cardinality(Pings(h))}
           b == [a EXCEPT !.at = Len(h), !.data = sum]
<1>1. Done("regd", w, b)
  <2>1. DOMAIN DataOf(w, "ServerPinged", Len(hist[w])) = Pings(hist[w])
    BY DEF DataOf, Pings
  <2>2. Done("regd", w, [act["regd"][w] EXCEPT !.at = Len(hist[w]),
             !.data = {Cardinality(DOMAIN DataOf(w, "ServerPinged", Len(hist[w])))}])
    BY DEF PingSummary
  <2> QED
    BY <2>1, <2>2
<1>2. /\ At("regd", w, "PingSummary")
      /\ UNCHANGED registry /\ typ' = typ /\ hist' = hist /\ index' = index
  BY DEF PingSummary, indexes
<1>3. "regd" \in Roles
  BY DEF Roles, Daemons
<1>4. RegistryGrows
  BY <1>2, SameRegistry
<1>5. HistsOk
  BY <1>2, <1>4, NothingHists
<1>6. /\ IsAct(a) /\ a.todo \in Seq(Names)
      /\ h \in Seq({h[i] : i \in 1..Len(h)})
  BY <1>3, InvAt DEF GoodAct, GoodHist
<1>7. /\ IsAct(b) /\ b.todo = a.todo /\ b.on = a.on /\ b.quits = a.quits
      /\ b.at = Len(h) /\ b.data = sum
  <2>1. b = [a EXCEPT !.at = Len(h), !.data = sum]
    OBVIOUS
  <2> HIDE DEF a, b, h, sum
  <2> QED
    BY ONLY <1>6, <2>1 DEF IsAct
<1> HIDE DEF b
<1>8. HasRead(b, h)
  <2>1. Len(h) \in Nat
    BY <1>6
  <2>2. Len(h) = 0 => h = <<>>
    <3> HIDE DEF h
    <3> QED
      BY <1>6
  <2> QED
    BY <1>7, <2>1, <2>2 DEF HasRead
<1>9. a.todo # <<>> /\ a.todo[1] = "PingSummary"
  <2>1. a.todo # <<>> /\ Head(a.todo) = "PingSummary"
    BY <1>2 DEF At
  <2> HIDE DEF a
  <2> QED
    BY <1>6, <2>1
<1>10. StepDone(a, b, hist'[w], repos', dontSplit')
  BY <1>2, <1>8, <1>9 DEF StepDone
<1>11. ActsOk
  BY <1>1, <1>2, <1>3, <1>4, <1>7, <1>9, <1>10, DoneActs
<1> QED
  BY <1>2, <1>4, <1>5, <1>11, Preserve

\* What a set of one element holds.
LEMMA TheOne ==
    ASSUME NEW x
    PROVE  The({x}) = x
BY DEF The

\* A call starts with the decision and what comes before.
LEMMA DecideStep ==
    ASSUME EphInv, NEW w \in Workflows, Decide(w)
    PROVE  EphInv'
<1>1. PICK p \in Candidates(w), d \in Decisions :
         act' = [act EXCEPT !["admin"][w] =
                   [Idle EXCEPT
                      !.todo = AppendSplitRootDecisions[
                                  IF d = "create" /\ p \in repos THEN "ignore" ELSE d],
                      !.data = {<<p, d>>}]]
  BY DEF Decide
<1>2. UNCHANGED registry /\ typ' = typ /\ hist' = hist /\ index' = index
  BY DEF Decide, indexes
<1>3. "admin" \in Roles /\ p \in Paths
  BY DEF Roles, Candidates
<1> DEFINE effect == IF d = "create" /\ p \in repos THEN "ignore" ELSE d
           steps == AppendSplitRootDecisions[effect]
           decision == {<<p, d>>}
           a == [Idle EXCEPT !.todo = steps, !.data = decision]
<1>4. IsAct(a) /\ a.todo = steps /\ a.data = decision
  <2>1. a = [Idle EXCEPT !.todo = steps, !.data = decision]
    OBVIOUS
  <2> HIDE DEF a, steps, decision
  <2> QED
    BY ONLY <2>1, IdleIs DEF IsAct
<1>5. \/ steps = <<"InitRepo", "AppendDecision">> /\ d = "create"
      \/ steps = <<"SetPathFlags", "AppendDecision">> /\ d = "never"
      \/ steps = <<"AppendDecision">> /\ Applied(p, d, repos, dontSplit)
  BY DEF AppendSplitRootDecisions, Decisions, Applied
<1> HIDE DEF a, steps
<1>6. ASSUME NEW x \in {"InitRepo", "SetPathFlags"},
             steps = <<x, "AppendDecision">>,
             d = (IF x = "InitRepo" THEN "create" ELSE "never")
      PROVE  GoodAct("admin", a, hist[w], index[w], repos, dontSplit)
  <2>1. /\ steps \in Seq(Names) /\ Len(steps) = 2
        /\ steps[1] = x /\ steps[2] = "AppendDecision"
    <3>1. x \in Names /\ "AppendDecision" \in Names
      BY DEF Names, Plain1
    <3> QED
      BY <1>6, <3>1
  <2>2. Lacks(a.todo, "PostSummary")
    BY <1>4, <2>1 DEF Lacks
  <2>3. Deciding(a, repos, dontSplit)
    <3>1. SUFFICES ASSUME NEW i \in 1..Len(a.todo), a.todo[i] = "AppendDecision"
                   PROVE  \E p2 \in Paths, d2 \in Decisions :
                            /\ a.data = {<<p2, d2>>}
                            /\ i = 1 => Applied(p2, d2, repos, dontSplit)
                            /\ i > 1 /\ d2 = "create" => a.todo[i - 1] = "InitRepo"
                            /\ i > 1 /\ d2 = "never" => a.todo[i - 1] = "SetPathFlags"
      BY DEF Deciding
    <3>2. i = 2 /\ a.todo[i - 1] = x
      BY <1>4, <2>1, <3>1
    <3>3. /\ a.data = {<<p, d>>}
          /\ i = 1 => Applied(p, d, repos, dontSplit)
          /\ i > 1 /\ d = "create" => a.todo[i - 1] = "InitRepo"
          /\ i > 1 /\ d = "never" => a.todo[i - 1] = "SetPathFlags"
      BY <1>4, <1>6, <3>2
    <3> QED
      BY <1>3, <3>3
  <2>4. Summing(a, hist[w])
    BY <2>2 DEF Summing, Lacks
  <2> QED
    BY <1>4, <2>1, <2>2, <2>3, <2>4 DEF GoodAct, Daemons
<1>7. ASSUME steps = <<"AppendDecision">>, Applied(p, d, repos, dontSplit)
      PROVE  GoodAct("admin", a, hist[w], index[w], repos, dontSplit)
  <2>1. /\ steps \in Seq(Names) /\ Len(steps) = 1
        /\ steps[1] = "AppendDecision"
    <3>1. "AppendDecision" \in Names
      BY DEF Names
    <3> QED
      BY <1>7, <3>1
  <2>2. Lacks(a.todo, "PostSummary")
    BY <1>4, <2>1 DEF Lacks
  <2>3. Deciding(a, repos, dontSplit)
    <3>1. SUFFICES ASSUME NEW i \in 1..Len(a.todo), a.todo[i] = "AppendDecision"
                   PROVE  \E p2 \in Paths, d2 \in Decisions :
                            /\ a.data = {<<p2, d2>>}
                            /\ i = 1 => Applied(p2, d2, repos, dontSplit)
                            /\ i > 1 /\ d2 = "create" => a.todo[i - 1] = "InitRepo"
                            /\ i > 1 /\ d2 = "never" => a.todo[i - 1] = "SetPathFlags"
      BY DEF Deciding
    <3>2. i = 1
      BY <1>4, <2>1, <3>1
    <3> QED
      BY <1>3, <1>4, <1>7, <3>2
  <2>4. Summing(a, hist[w])
    BY <2>2 DEF Summing, Lacks
  <2> QED
    BY <1>4, <2>1, <2>2, <2>3, <2>4 DEF GoodAct, Daemons
<1>8. GoodAct("admin", a, hist[w], index[w], repos, dontSplit)
  <2>1. CASE steps = <<"InitRepo", "AppendDecision">> /\ d = "create"
    BY <1>6, <2>1
  <2>2. CASE steps = <<"SetPathFlags", "AppendDecision">> /\ d = "never"
    BY <1>6, <2>2
  <2>3. CASE steps = <<"AppendDecision">> /\ Applied(p, d, repos, dontSplit)
    BY <1>7, <2>3
  <2> QED
    BY <1>5, <2>1, <2>2, <2>3
<1>9. act' = [act EXCEPT !["admin"][w] = a]
  BY <1>1 DEF a, steps
<1>10. repos' = repos /\ dontSplit' = dontSplit
  BY <1>2 DEF registry
<1>11. ActsOk
  BY <1>2, <1>3, <1>8, <1>9, <1>10, ActsAt
<1> QED
  BY <1>2, <1>11, NothingHists, SameRegistry, Preserve

\* A decision has its effect: a repo is created, or a flag is set.
LEMMA EffectStep ==
    ASSUME EphInv, NEW w \in Workflows, InitRepo(w) \/ SetPathFlags(w)
    PROVE  EphInv'
<1> DEFINE a == act["admin"][w]
           p == The(a.data)[1]
<1>1. "admin" \in Roles
  BY DEF Roles
<1>2. /\ IsAct(a) /\ a.todo \in Seq(Names)
  BY <1>1, InvAt DEF GoodAct
<1>3. typ' = typ /\ hist' = hist /\ index' = index
  BY DEF InitRepo, SetPathFlags, indexes
<1>4. /\ a.todo # <<>>
      /\ \/ a.todo[1] = "InitRepo" /\ InitRepo(w)
         \/ a.todo[1] = "SetPathFlags" /\ SetPathFlags(w)
  <2>1. \/ At("admin", w, "InitRepo") /\ InitRepo(w)
        \/ At("admin", w, "SetPathFlags") /\ SetPathFlags(w)
    BY DEF InitRepo, SetPathFlags
  <2>2. ASSUME NEW x, At("admin", w, x)
        PROVE  a.todo # <<>> /\ a.todo[1] = x
    <3>1. a.todo # <<>> /\ Head(a.todo) = x
      BY <2>2 DEF At
    <3> HIDE DEF a
    <3> QED
      BY <1>2, <3>1
  <2> QED
    BY <2>1, <2>2
<1>5. \/ Fail("admin", w) /\ RegistryGrows
      \/ /\ Done("admin", w, a) /\ RegistryGrows
         /\ a.todo[1] = "InitRepo" /\ repos' = repos \cup {p}
      \/ /\ Done("admin", w, a) /\ RegistryGrows
         /\ a.todo[1] = "SetPathFlags" /\ dontSplit' = dontSplit \cup {p}
  <2>1. CASE a.todo[1] = "InitRepo" /\ InitRepo(w)
    BY <2>1 DEF InitRepo, RegistryGrows
  <2>2. CASE a.todo[1] = "SetPathFlags" /\ SetPathFlags(w)
    BY <2>2 DEF SetPathFlags, RegistryGrows
  <2> QED
    BY <1>4, <2>1, <2>2
<1>6. \A q \in Paths, d \in Decisions : a.data = {<<q, d>>} => p = q
  <2>1. SUFFICES ASSUME NEW q \in Paths, NEW d \in Decisions, a.data = {<<q, d>>}
                 PROVE  p = q
    OBVIOUS
  <2>2. The({<<q, d>>}) = <<q, d>>
    BY TheOne
  <2>3. The(a.data) = <<q, d>>
    BY <2>1, <2>2
  <2> QED
    BY <2>3
<1> HIDE DEF p
<1>7. ASSUME Done("admin", w, a),
             \/ a.todo[1] = "InitRepo" /\ repos' = repos \cup {p}
             \/ a.todo[1] = "SetPathFlags" /\ dontSplit' = dontSplit \cup {p}
      PROVE  StepDone(a, a, hist'[w], repos', dontSplit')
  <2> HIDE DEF a
  <2> QED
    BY <1>6, <1>7 DEF StepDone
<1>8. ActsOk
  <2>1. CASE Fail("admin", w)
    BY <1>1, <1>3, <1>4, <2>1, FailActs
  <2>2. CASE Done("admin", w, a) /\ ~Fail("admin", w)
    BY <1>1, <1>2, <1>3, <1>4, <1>5, <1>7, <2>2, DoneActs
  <2> QED
    BY <1>5, <2>1, <2>2
<1>9. HistsOk
  BY <1>3, <1>5, NothingHists
<1> QED
  BY <1>3, <1>5, <1>8, <1>9, Preserve

\* A call or a run of the garbage collector starts with plain steps.
LEMMA CallStep ==
    ASSUME EphInv, NEW r \in Roles, r \notin Daemons, NEW w \in Workflows,
           NEW steps \in Seq(Plain1),
           act' = [act EXCEPT ![r][w] = [Idle EXCEPT !.todo = steps]],
           UNCHANGED registry, typ' = typ, hist' = hist, index' = index
    PROVE  EphInv'
<1> DEFINE a == [Idle EXCEPT !.todo = steps]
<1>1. IsAct(a) /\ a.todo = steps
  BY IdleIs DEF IsAct
<1> HIDE DEF a
<1>2. GoodAct(r, a, hist'[w], index'[w], repos', dontSplit')
  BY <1>1, PlainAct
<1>3. ActsOk
  BY <1>2, ActsAt DEF a
<1> QED
  BY <1>3, NothingHists, SameRegistry, Preserve

\* The calls that end a workflow, and the garbage collection.
LEMMA StartSteps ==
    ASSUME EphInv, NEW w \in Workflows,
           AdminEnds(w) \/ GcBegin(w) \/ GcBeginStale(w)
    PROVE  EphInv'
<1>1. typ[w] \in Types
  BY DEF EphInv
<1>2. "admin" \in Roles \ Daemons /\ "gc" \in Roles \ Daemons
  BY DEF Roles, Daemons
<1>3. ASSUME AdminEnds(w)
      PROVE  EphInv'
  <2>1. PICK steps \in EndCalls(w) :
           act' = [act EXCEPT !["admin"][w] = [Idle EXCEPT !.todo = steps]]
    BY <1>3 DEF AdminEnds
  <2>2. steps \in {CommitSplitRoot, AbortSplitRoot, PingRegistryServer.Commit}
    BY <1>1, <2>1 DEF EndCalls, Types
  <2>3. steps \in Seq(Plain1)
    BY <2>2, CallPlans
  <2> QED
    BY <1>2, <1>3, <2>1, <2>3, CallStep DEF AdminEnds, indexes
<1>4. ASSUME GcBegin(w) \/ GcBeginStale(w)
      PROVE  EphInv'
  <2>1. GcActive(w) = GcDuRootActive /\ GcCompleted(w) = GcDuRootCompleted
    BY <1>1 DEF GcActive, GcCompleted, GcSplitRootActive, GcDuRootActive,
       GcPingRegistryActive, GcSplitRootCompleted, GcDuRootCompleted,
       GcPingRegistryCompleted, Types
  <2>2. PICK steps \in {GcDuRootActive, GcDuRootCompleted} : GcDo(w, steps)
    BY <1>4, <2>1 DEF GcBegin, GcBeginStale
  <2>3. steps \in Seq(Plain1)
    BY <2>2, CallPlans
  <2> QED
    BY <1>2, <2>2, <2>3, CallStep DEF GcDo, indexes
<1> QED
  BY <1>3, <1>4

\* The garbage collector deletes the history.
LEMMA GcDeleteStep ==
    ASSUME EphInv, NEW w \in Workflows, GcDelete(w)
    PROVE  EphInv'
<1>1. /\ At("gc", w, "Delete")
      /\ UNCHANGED registry /\ typ' = typ /\ index' = index
      /\ \/ hist' = [hist EXCEPT ![w] = <<>>] /\ Done("gc", w, act["gc"][w])
         \/ hist' = hist /\ Fail("gc", w)
  BY DEF GcDelete, indexes
<1>2. "gc" \in Roles
  BY DEF Roles
<1>3. RegistryGrows
  BY <1>1, SameRegistry
<1>4. HistsOk
  <2>1. CASE hist' = hist
    BY <1>1, <1>3, <2>1, NothingHists
  <2>2. CASE hist' = [hist EXCEPT ![w] = <<>>]
    <3>1. GoodHist(typ[w], <<>>, repos, dontSplit)
      BY HistEmpty
    <3>2. Grows(hist[w], index[w], <<>>, index[w])
      BY DEF Grows
    <3> QED
      BY <1>1, <2>2, <3>1, <3>2, HistsAt
  <2> QED
    BY <1>1, <2>1, <2>2
<1>5. ActsOk
  BY <1>1, <1>2, <1>3, PlainActs
<1> QED
  BY <1>1, <1>3, <1>4, <1>5, Preserve

\* The garbage collector deletes the entry of the index.
LEMMA GcIndexDeleteStep ==
    ASSUME EphInv, NEW w \in Workflows, GcIndexDelete(w)
    PROVE  EphInv'
<1>1. /\ At("gc", w, "IndexDelete")
      /\ UNCHANGED registry /\ typ' = typ /\ hist' = hist
      /\ \/ /\ index' = [index EXCEPT ![w] = "deleted"]
            /\ Done("gc", w, act["gc"][w])
         \/ index' = index /\ Fail("gc", w)
  BY DEF GcIndexDelete
<1>2. "gc" \in Roles
  BY DEF Roles
<1>3. RegistryGrows
  BY <1>1, SameRegistry
<1>4. HistsOk /\ (index[w] # "none" => index'[w] # "none")
  <2>1. CASE index' = index
    BY <1>1, <1>3, <2>1, NothingHists
  <2>2. CASE index' = [index EXCEPT ![w] = "deleted"]
    <3>1. HistsOk /\ index'[w] = "deleted"
      BY <1>1, <2>2, IndexHists
    <3> QED
      BY <3>1
  <2> QED
    BY <1>1, <2>1, <2>2
<1>5. ActsOk
  BY <1>1, <1>2, <1>3, <1>4, PlainActs
<1> QED
  BY <1>1, <1>3, <1>4, <1>5, Preserve

\* Failures and restarts.
LEMMA LossSteps ==
    ASSUME EphInv,
           \/ \E w \in Workflows : \E r \in Roles : Fails(r, w)
           \/ \E d \in Daemons : Restarts(d)
    PROVE  EphInv'
<1>1. UNCHANGED registry /\ typ' = typ /\ hist' = hist /\ index' = index
  BY DEF Fails, Restarts, indexes
<1>2. ASSUME NEW w \in Workflows, NEW r \in Roles, Fails(r, w)
      PROVE  ActsOk
  <2>1. act[r][w].todo # <<>> /\ Fail(r, w)
    BY <1>2 DEF Fails
  <2> QED
    BY <1>1, <2>1, FailActs
<1>3. ASSUME NEW d \in Daemons, Restarts(d)
      PROVE  ActsOk
  <2>1. act' = [r \in Roles |->
                  IF r = d \/ (d = "regd" /\ r \in {"admin", "gc"})
                  THEN [w \in Workflows |-> Idle] ELSE act[r]]
    BY <1>3 DEF Restarts
  <2>2. act = [r \in Roles |-> [w \in Workflows |-> act[r][w]]]
    BY DEF EphInv
  <2>3. ASSUME NEW r \in Roles
        PROVE  /\ act'[r] = [w \in Workflows |-> act'[r][w]]
               /\ \A w \in Workflows : act'[r][w] \in {Idle, act[r][w]}
    <3>1. \/ act'[r] = [w \in Workflows |-> Idle]
          \/ act'[r] = act[r]
      BY <2>1
    <3>2. act[r] = [w \in Workflows |-> act[r][w]]
      BY <2>2
    <3> QED
      BY <3>1, <3>2
  <2>4. act' = [r \in Roles |-> act'[r]]
    BY <2>1
  <2>5. act' = [r \in Roles |-> [w \in Workflows |-> act'[r][w]]]
    BY <2>3, <2>4, Zenon
  <2>6. ASSUME NEW r \in Roles, NEW w \in Workflows
        PROVE  \/ act'[r][w] = act[r][w]
               \/ GoodAct(r, act'[r][w], hist'[w], index'[w], repos', dontSplit')
    <3>1. act'[r][w] = Idle \/ act'[r][w] = act[r][w]
      BY <2>3
    <3>2. GoodAct(r, Idle, hist'[w], index'[w], repos', dontSplit')
      BY IdleGood
    <3> QED
      BY <3>1, <3>2
  <2> QED
    BY <2>5, <2>6 DEF ActsOk
<1>4. ActsOk
  BY <1>2, <1>3
<1> QED
  BY <1>1, <1>4, NothingHists, SameRegistry, Preserve

\* Others, and no step.
LEMMA OthersSteps ==
    ASSUME EphInv, OthersCommit \/ OthersInitRepo \/ UNCHANGED vars
    PROVE  EphInv'
<1>1. typ' = typ /\ hist' = hist /\ index' = index /\ act' = act
  BY DEF OthersCommit, OthersInitRepo, vars, indexes
<1>2. RegistryGrows
  BY DEF OthersCommit, OthersInitRepo, vars, registry, RegistryGrows
<1> QED
  BY <1>1, <1>2, NothingHists, SameActs, Preserve

-----------------------------------------------------------------------------
(***************************************************************************)
(* The theorems.                                                           *)
(***************************************************************************)

\* The invariant holds initially.
LEMMA InitInv == Init => EphInv
<1> SUFFICES ASSUME Init
             PROVE  EphInv
  OBVIOUS
<1>1. /\ typ \in [Workflows -> Types]
      /\ hist = [w \in Workflows |-> <<>>]
      /\ index = [w \in Workflows |-> "none"]
      /\ act = [r \in Roles |-> [w \in Workflows |-> Idle]]
  BY DEF Init
<1>2. /\ hist = [w \in Workflows |-> hist[w]]
      /\ index = [w \in Workflows |-> index[w]]
      /\ act = [r \in Roles |-> [w \in Workflows |-> act[r][w]]]
  BY <1>1
<1>3. \A w \in Workflows : GoodHist(typ[w], hist[w], repos, dontSplit)
  BY <1>1, HistEmpty
<1>4. \A r \in Roles : \A w \in Workflows :
         GoodAct(r, act[r][w], hist[w], index[w], repos, dontSplit)
  BY <1>1, IdleGood
<1> QED
  BY <1>1, <1>2, <1>3, <1>4 DEF EphInv

\* Every step preserves the invariant.
LEMMA StepInv == EphInv /\ [Next]_vars => EphInv'
<1> SUFFICES ASSUME EphInv, [Next]_vars
             PROVE  EphInv'
  OBVIOUS
<1>1. CASE UNCHANGED vars
  BY <1>1, OthersSteps
<1>2. ASSUME NEW w \in Workflows, Begin(w) \/ BeginIndex(w) \/ BeginLost(w)
      PROVE  EphInv'
  BY <1>2, BeginStep, BeginIndexStep
<1>3. ASSUME NEW w \in Workflows, NEW r \in Daemons, DaemonStep(r, w)
      PROVE  EphInv'
  <2>1. r \in Roles
    BY DEF Roles
  <2> QED
    BY <1>3, <2>1, ProcessViewStep, WfCommandStep, IndexCommitStep, ListReposStep,
       PingSummaryStep DEF DaemonStep
<1>4. ASSUME NEW w \in Workflows, Decide(w) \/ AdminEnds(w) \/ AdminStep(w)
      PROVE  EphInv'
  <2>1. "admin" \in Roles
    BY DEF Roles
  <2> QED
    BY <1>4, <2>1, DecideStep, StartSteps, WfCommandStep, IndexCommitStep,
       EffectStep DEF AdminStep
<1>5. ASSUME NEW w \in Workflows, GcBegin(w) \/ GcBeginStale(w) \/ GcStep(w)
      PROVE  EphInv'
  <2>1. "gc" \in Roles
    BY DEF Roles
  <2> QED
    BY <1>5, <2>1, StartSteps, WfCommandStep, IndexCommitStep, GcDeleteStep,
       GcIndexDeleteStep DEF GcStep
<1>6. ASSUME \/ \E w \in Workflows : \E r \in Roles : Fails(r, w)
             \/ \E d \in Daemons : Restarts(d)
      PROVE  EphInv'
  BY <1>6, LossSteps
<1>7. CASE OthersCommit \/ OthersInitRepo
  BY <1>7, OthersSteps
<1> QED
  BY <1>1, <1>2, <1>3, <1>4, <1>5, <1>6, <1>7 DEF Next

\* EphInv is an invariant.
THEOREM EphInvariant == Spec => []EphInv
<1>1. Init => EphInv
  BY InitInv
<1>2. EphInv /\ [Next]_vars => EphInv'
  BY StepInv
<1> QED
  BY <1>1, <1>2, PTL DEF Spec

\* DecisionsApplied follows: AppendSplitRootDecisions() stores a decision only
\* after its effect on the registry.
THEOREM DecisionsAreApplied == Spec => []DecisionsApplied
<1>1. EphInv => DecisionsApplied
  <2> SUFFICES ASSUME EphInv, NEW w \in Workflows,
                      NEW i \in DOMAIN DataOf(w, "DecisionAppended", Len(hist[w]))
               PROVE  LET d == The(DataOf(w, "DecisionAppended", Len(hist[w]))[i])
                      IN  /\ d[2] = "create" => d[1] \in repos
                          /\ d[2] = "never" => d[1] \in dontSplit
    BY DEF DecisionsApplied
  <2>1. /\ i \in 1..Len(hist[w]) /\ hist[w][i].ev[1] = "DecisionAppended"
        /\ DataOf(w, "DecisionAppended", Len(hist[w]))[i] = hist[w][i].data
    BY DEF DataOf
  <2>2. GoodEvent(hist[w][i], repos, dontSplit)
    <3>1. GoodHist(typ[w], hist[w], repos, dontSplit)
      BY DEF EphInv
    <3> QED
      BY <2>1, <3>1 DEF GoodHist
  <2>3. PICK p \in Paths, d \in Decisions :
           hist[w][i].data = {<<p, d>>} /\ Applied(p, d, repos, dontSplit)
    BY <2>1, <2>2 DEF GoodEvent
  <2>4. The({<<p, d>>}) = <<p, d>>
    BY TheOne
  <2>5. The(DataOf(w, "DecisionAppended", Len(hist[w]))[i]) = <<p, d>>
    BY <2>1, <2>3, <2>4
  <2> QED
    BY <2>3, <2>5 DEF Applied
<1> QED
  BY <1>1, EphInvariant, PTL

\* SummaryIsComplete follows: pingSummary() posts the summary with the version
\* that it has read, so a ping in between makes it start over, and a ping-registry
\* that has been summarized takes no more pings.
THEOREM SummariesAreComplete == Spec => []SummaryIsComplete
<1>1. EphInv => SummaryIsComplete
  <2> SUFFICES ASSUME EphInv, NEW w \in Workflows,
                      NEW i \in DOMAIN DataOf(w, "ServerPingsGathered", Len(hist[w]))
               PROVE  DataOf(w, "ServerPingsGathered", Len(hist[w]))[i]
                         = {Cardinality(DOMAIN DataOf(w, "ServerPinged", Len(hist[w])))}
    BY DEF SummaryIsComplete
  <2>1. /\ i \in 1..Len(hist[w]) /\ hist[w][i].ev[1] = "ServerPingsGathered"
        /\ DataOf(w, "ServerPingsGathered", Len(hist[w]))[i] = hist[w][i].data
    BY DEF DataOf
  <2>2. DOMAIN DataOf(w, "ServerPinged", Len(hist[w])) = Pings(hist[w])
    BY DEF DataOf, Pings
  <2>3. GoodHist(typ[w], hist[w], repos, dontSplit)
    BY DEF EphInv
  <2>4. GoodPing(hist[w])
    BY <2>1, <2>3 DEF GoodHist, Has
  <2>5. hist[w][i].data = {Cardinality(Pings(hist[w]))}
    BY <2>1, <2>4 DEF GoodPing
  <2> QED
    BY <2>1, <2>2, <2>5
<1> QED
  BY <1>1, EphInvariant, PTL

-----------------------------------------------------------------------------
(***************************************************************************)
(* What clients are told.                                                  *)
(***************************************************************************)

\* Every nonempty set of natural numbers has a least element.
LEMMA LeastNumber ==
    ASSUME NEW S \in SUBSET Nat, S # {}
    PROVE  \E n \in S : \A m \in S : n <= m
<1> DEFINE R == OpToRel(<, Nat)
<1>1. IsWellFoundedOn(R, Nat)
  BY NatLessThanWellFounded
<1>2. \A x, y \in Nat : x < y => <<x, y>> \in R
  BY DEF OpToRel
<1> HIDE DEF R
<1>3. PICK x \in S : \A y \in S : ~ (<<y, x>> \in R)
  BY <1>1, WFMin
<1>4. ASSUME NEW y \in S PROVE x <= y
  <2>1. x \in Nat /\ y \in Nat
    OBVIOUS
  <2>2. ~(y < x)
    BY <2>1, <1>2, <1>3
  <2> QED
    BY <2>1, <2>2
<1> QED
  BY <1>3, <1>4

\* The events Completed of a history, and the result of a du-root.
Ends(h) == {i \in 1..Len(h) : h[i].ev[1] = "Completed"}
First(S) == CHOOSE i \in S : \A j \in S : i <= j
DuReport(h) ==
    IF Ends(h) = {} THEN "running"
    ELSE IF h[First(Ends(h))].ev[2] THEN "ok" ELSE "failed"

PingReport(h) ==
    IF Has(h, "ServerPingsGathered") THEN "ok"
    ELSE IF Has(h, "Completed") THEN "expired" ELSE "running"

\* What a client is told, from the history `h' of a workflow of type `t'.
ReportOf(t, h) ==
    CASE t = "split" -> GetSplitRoot(StateOf(h))
      [] t = "du" -> DuReport(h)
      [] t = "ping" -> PingReport(h)

\* The least element of a set of positions is the least when later positions are
\* added.
LEMMA FirstStays ==
    ASSUME NEW S \in SUBSET Nat, S # {}, NEW T \in SUBSET Nat, S \subseteq T,
           \A i \in S : \A j \in T : j \notin S => i < j
    PROVE  First(T) = First(S) /\ First(S) \in S
<1>1. PICK n \in S : \A m \in S : n <= m
  BY LeastNumber
<1>2. \A m \in T : n <= m
  BY <1>1
<1>3. /\ First(S) \in S
      /\ \A m \in S : First(S) <= m
  BY <1>1 DEF First
<1>4. /\ First(T) \in T
      /\ \A m \in T : First(T) <= m
  BY <1>1, <1>2 DEF First
<1>5. First(S) = n
  <2>1. First(S) <= n /\ n <= First(S) /\ First(S) \in Nat /\ n \in Nat
    BY <1>1, <1>3
  <2> QED
    BY <2>1
<1>6. First(T) = n
  <2>1. First(T) <= n /\ n <= First(T) /\ First(T) \in Nat /\ n \in Nat
    BY <1>1, <1>2, <1>4
  <2> QED
    BY <2>1
<1> QED
  BY <1>3, <1>5, <1>6

\* The result of a du-root stays.
LEMMA DuStays ==
    ASSUME NEW h, NEW e, NEW h2, LongerBy(h, e, h2), DuReport(h) # "running"
    PROVE  DuReport(h2) = DuReport(h)
<1>1. /\ Len(h) \in Nat
      /\ Len(h2) = Len(h) + 1
      /\ \A i \in 1..Len(h) : h2[i] = h[i]
  BY DEF LongerBy
<1>2. Ends(h) \in SUBSET Nat /\ Ends(h2) \in SUBSET Nat /\ Ends(h) # {}
  <2>1. Ends(h) \subseteq 1..Len(h) /\ Ends(h2) \subseteq 1..Len(h2)
    BY DEF Ends
  <2>2. 1..Len(h) \subseteq Nat /\ 1..Len(h2) \subseteq Nat
    BY <1>1
  <2> QED
    BY <2>1, <2>2 DEF DuReport
<1>3. Ends(h) \subseteq Ends(h2)
  BY <1>1 DEF Ends
<1>4. ASSUME NEW i \in Ends(h), NEW j \in Ends(h2), j \notin Ends(h)
      PROVE  i < j
  BY <1>1, <1>4 DEF Ends
<1>5. First(Ends(h2)) = First(Ends(h)) /\ First(Ends(h)) \in Ends(h)
  BY <1>2, <1>3, <1>4, FirstStays
<1>6. h2[First(Ends(h))] = h[First(Ends(h))]
  BY <1>1, <1>5 DEF Ends
<1>7. Ends(h2) # {}
  BY <1>2, <1>3
<1> QED
  BY <1>2, <1>5, <1>6, <1>7 DEF DuReport

\* What has been told of a ping-registry stays.
LEMMA PingStays ==
    ASSUME NEW h, GoodPing(h), NEW cmd, Accepted("ping", cmd, StateOf(h)), NEW e,
           NEW h2, LongerBy(h, e, h2), e.ev[1] = EventType("ping", cmd),
           PingReport(h) # "running"
    PROVE  PingReport(h2) = PingReport(h)
<1>1. \A type : Has(h2, type) <=> (Has(h, type) \/ e.ev[1] = type)
  BY LongerHas
<1>2. Has(h, "Completed") => Scode(StateOf(h)) \in {"Completed", "Terminated"}
  BY DEF GoodPing
<1>3. e.ev[1] = "ServerPingsGathered" => Scode(StateOf(h)) \in {"Initialized", "Appending"}
  BY WhoPosts DEF Types
<1>4. Has(h, "Completed") => e.ev[1] # "ServerPingsGathered"
  BY <1>2, <1>3
<1> QED
  BY <1>1, <1>4 DEF PingReport

\* What has been told of the end of a workflow stays.
LEMMA ReportStays ==
    ASSUME NEW t \in Types, NEW h, NEW rp, NEW ds, GoodHist(t, h, rp, ds),
           NEW cmd, Accepted(t, cmd, StateOf(h)), NEW e, e.ev = Tell(t, cmd).ev,
           e.st = After(t, cmd, StateOf(h)), NEW h2, LongerBy(h, e, h2),
           ReportOf(t, h) \in Told
    PROVE  ReportOf(t, h2) = ReportOf(t, h)
<1>1. e.ev[1] = EventType(t, cmd)
  BY DEF EventType
<1>2. CASE t = "split"
  <2>1. Decided(StateOf(h)) /\ StateOf(h2) = After("split", cmd, StateOf(h))
    BY <1>2, LongerHas DEF GoodHist
  <2>2. GetSplitRoot(StateOf(h)) \in Told
    BY <1>2 DEF ReportOf
  <2>3. GetSplitRoot(StateOf(h2)) = GetSplitRoot(StateOf(h))
    BY <1>2, <2>1, <2>2, SplitReport
  <2> QED
    BY <1>2, <2>3 DEF ReportOf
<1>3. CASE t = "du"
  <2>1. DuReport(h) # "running"
    BY <1>3 DEF ReportOf, Told
  <2>2. DuReport(h2) = DuReport(h)
    BY <2>1, DuStays
  <2> QED
    BY <1>3, <2>2 DEF ReportOf
<1>4. CASE t = "ping"
  <2>1. PingReport(h) # "running"
    BY <1>4 DEF ReportOf, Told
  <2>2. GoodPing(h)
    BY <1>4 DEF GoodHist
  <2>3. PingReport(h2) = PingReport(h)
    BY <1>1, <1>4, <2>1, <2>2, PingStays
  <2> QED
    BY <1>4, <2>3 DEF ReportOf
<1> QED
  BY <1>2, <1>3, <1>4 DEF Types

\* What GetDuRoot() and GetRegistryPings() find in the events of history `h'.
LEMMA ReportsAre ==
    ASSUME NEW h, h \in Seq({h[i] : i \in 1..Len(h)}),
           NEW evs, evs = [i \in DOMAIN h |-> h[i].ev]
    PROVE  GetDuRoot(evs) = DuReport(h) /\ GetRegistryPings(evs) = PingReport(h)
<1>1. DOMAIN h = 1..Len(h) /\ Len(h) \in Nat
  <2>1. ASSUME NEW S, h \in Seq(S)
        PROVE  DOMAIN h = 1..Len(h) /\ Len(h) \in Nat
    BY <2>1, LenProperties
  <2> QED
    BY <2>1
<1>2. DOMAIN evs = 1..Len(h) /\ \A i \in 1..Len(h) : evs[i] = h[i].ev
  BY <1>1
<1>3. GetRegistryPings(evs) = PingReport(h)
  <2>1. \A type : Has(h, type) <=> \E i \in DOMAIN evs : evs[i][1] = type
    BY <1>2 DEF Has
  <2> QED
    BY <2>1 DEF GetRegistryPings, PingReport
<1>4. {i \in DOMAIN evs : evs[i][1] = "Completed"} = Ends(h)
  BY <1>2 DEF Ends
<1>5. GetDuRoot(evs) =
         IF Ends(h) = {} THEN "running"
         ELSE IF evs[First(Ends(h))][2] THEN "ok" ELSE "failed"
  BY <1>4 DEF GetDuRoot, First
<1>6. ASSUME Ends(h) # {}
      PROVE  evs[First(Ends(h))] = h[First(Ends(h))].ev
  <2>1. Ends(h) \in SUBSET Nat
    BY <1>1 DEF Ends
  <2>2. First(Ends(h)) \in Ends(h)
    BY <1>6, <2>1, FirstStays
  <2> QED
    BY <1>2, <2>2 DEF Ends
<1> QED
  BY <1>3, <1>5, <1>6 DEF DuReport

\* A step leaves the history of a workflow alone, deletes it, or adds the event
\* of an accepted command.
Moved(w) ==
    \/ hist'[w] = hist[w]
    \/ hist'[w] = <<>>
    \/ \E cmd, e : /\ Accepted(typ[w], cmd, StateOf(hist[w]))
                   /\ e.ev = Tell(typ[w], cmd).ev
                   /\ e.st = After(typ[w], cmd, StateOf(hist[w]))
                   /\ hist'[w] = Append(hist[w], e)

\* An accepted command.
LEMMA PostMoves ==
    ASSUME EphInv, NEW w \in Workflows, NEW w0 \in Workflows, NEW cmd, NEW data,
           Accepted(typ[w0], cmd, State(w0)),
           Post(w0, Tell(typ[w0], cmd).ev, data)
    PROVE  Moved(w)
<1> DEFINE t == typ[w0]
           z == [ev |-> Tell(t, cmd).ev, data |-> data,
                 st |-> Advance(t, State(w0), Tell(t, cmd).ev),
                 view |-> [r \in Daemons |->
                             Load(r, w0, View(r, w0, Len(hist[w0])),
                                  Tell(t, cmd).ev)]]
<1>1. /\ z.ev = Tell(t, cmd).ev
      /\ z.st = Advance(t, State(w0), Tell(t, cmd).ev)
  OBVIOUS
<1>2. hist' = [hist EXCEPT ![w0] = Append(hist[w0], z)]
  BY Zenon DEF Post
<1> HIDE DEF z, t
<1>3. hist = [x \in Workflows |-> hist[x]]
  BY DEF EphInv
<1>4. hist'[w0] = Append(hist[w0], z) /\ (w # w0 => hist'[w] = hist[w])
  BY <1>2, <1>3
<1>5. State(w0) = StateOf(hist[w0])
  BY StateIs
<1>6. CASE w = w0
  <2>1. /\ Accepted(typ[w], cmd, StateOf(hist[w]))
        /\ z.ev = Tell(typ[w], cmd).ev
        /\ z.st = After(typ[w], cmd, StateOf(hist[w]))
        /\ hist'[w] = Append(hist[w], z)
    BY <1>1, <1>4, <1>5, <1>6 DEF t, After
  <2> QED
    BY <2>1 DEF Moved
<1>7. CASE w # w0
  BY <1>4, <1>7 DEF Moved
<1> QED
  BY <1>6, <1>7

\* What a step does to the history of a workflow.
LEMMA StepMoves ==
    ASSUME EphInv, [Next]_vars, NEW w \in Workflows
    PROVE  typ' = typ /\ Moved(w)
<1>1. typ' = typ
  <2>1. ASSUME NEW w0, Begin(w0) \/ BeginIndex(w0) \/ BeginLost(w0)
        PROVE  typ' = typ
    BY <2>1 DEF Begin, BeginIndex, BeginLost
  <2>2. ASSUME NEW w0, NEW r, WfCommand(r, w0) \/ IndexCommit(r, w0) \/ Fails(r, w0)
        PROVE  typ' = typ
    BY <2>2 DEF WfCommand, IndexCommit, Fails
  <2>3. ASSUME NEW w0, NEW r, DaemonStep(r, w0)
        PROVE  typ' = typ
    BY <2>2, <2>3 DEF DaemonStep, ProcessView, ListRepos, PingSummary
  <2>4. ASSUME NEW w0, Decide(w0) \/ AdminEnds(w0) \/ AdminStep(w0)
        PROVE  typ' = typ
    BY <2>2, <2>4 DEF Decide, AdminEnds, AdminStep, InitRepo, SetPathFlags
  <2>5. ASSUME NEW w0, GcBegin(w0) \/ GcBeginStale(w0) \/ GcStep(w0)
        PROVE  typ' = typ
    BY <2>2, <2>5 DEF GcBegin, GcBeginStale, GcDo, GcStep, GcDelete, GcIndexDelete
  <2>6. ASSUME \/ \E d \in Daemons : Restarts(d)
               \/ OthersCommit \/ OthersInitRepo \/ UNCHANGED vars
        PROVE  typ' = typ
    BY <2>6 DEF Restarts, OthersCommit, OthersInitRepo, vars
  <2> QED
    BY <2>1, <2>2, <2>3, <2>4, <2>5, <2>6 DEF Next
<1>2. \/ hist' = hist
      \/ \E w0 \in Workflows :
            \/ Begin(w0) \/ GcDelete(w0)
            \/ \E r \in Roles : WfCommand(r, w0)
  <2>1. "admin" \in Roles /\ "gc" \in Roles /\ Daemons \subseteq Roles
    BY DEF Roles
  <2> QED
    BY ZenonT(90), <2>1 DEF Next, vars, BeginIndex, BeginLost, DaemonStep, ProcessView,
       IndexCommit, ListRepos, PingSummary, Decide, AdminEnds, AdminStep,
       InitRepo, SetPathFlags, GcBegin, GcBeginStale, GcDo, GcStep,
       GcIndexDelete, Fails, Restarts, OthersCommit, OthersInitRepo
<1>3. ASSUME NEW w0 \in Workflows, Begin(w0)
      PROVE  Moved(w)
  <2>1. State(w0) = New /\ typ[w0] \in Types
    BY <1>3 DEF Begin, State, EphInv
  <2>2. Accepted(typ[w0], "Init", State(w0))
    BY <2>1, InitAccepted
  <2>3. Post(w0, Tell(typ[w0], "Init").ev, {})
    BY <1>3 DEF Begin
  <2> QED
    BY <2>2, <2>3, PostMoves
<1>4. ASSUME NEW w0 \in Workflows, GcDelete(w0)
      PROVE  Moved(w)
  <2>1. hist = [x \in Workflows |-> hist[x]]
    BY DEF EphInv
  <2>2. hist' = hist \/ hist' = [hist EXCEPT ![w0] = <<>>]
    BY <1>4 DEF GcDelete
  <2> QED
    BY <2>1, <2>2 DEF Moved
<1>5. ASSUME NEW w0 \in Workflows, NEW r \in Roles, WfCommand(r, w0)
      PROVE  Moved(w)
  <2> DEFINE cmd == Head(act[r][w0].todo)
             c == Tell(typ[w0], cmd)
             data == EventData(r, cmd, act[r][w0].data)
  <2>1. /\ cmd \in Commands(typ[w0])
        /\ \/ hist' = hist
           \/ State(w0) \in c.from /\ Post(w0, c.ev, data)
    BY <1>5 DEF WfCommand
  <2>2. CASE hist' = hist
    BY <2>2 DEF Moved
  <2>3. CASE State(w0) \in c.from /\ Post(w0, c.ev, data)
    <3>1. Accepted(typ[w0], cmd, State(w0))
      BY <2>1, <2>3 DEF Accepted
    <3> HIDE DEF cmd, data
    <3> QED
      BY <2>3, <3>1, PostMoves
  <2> QED
    BY <2>1, <2>2, <2>3
<1>6. ASSUME hist' = hist
      PROVE  Moved(w)
  BY <1>6 DEF Moved
<1> QED
  BY <1>1, <1>2, <1>3, <1>4, <1>5, <1>6

\* ReportIsFinal follows: AbortExpired() is accepted only while a workflow is not
\* completed, a second Completed of a du-root does not count, and a ping-registry
\* that has been completed is not summarized.
THEOREM ReportsAreFinal == Spec => ReportIsFinal
<1>1. ASSUME EphInv, [Next]_vars, NEW w \in Workflows,
             Report(w) \in {"ok", "failed", "expired"}, hist'[w] # <<>>
      PROVE  Report(w)' = Report(w)
  <2> DEFINE t == typ[w]
             h == hist[w]
             h2 == hist'[w]
  <2>1. t \in Types /\ GoodHist(t, h, repos, dontSplit)
    BY <1>1 DEF EphInv
  <2>2. typ' = typ /\ Moved(w)
    BY <1>1, StepMoves
  <2>3. h \in Seq({h[i] : i \in 1..Len(h)})
    BY <2>1 DEF GoodHist
  <2>4. EphInv'
    BY <1>1, StepInv
  <2>5. h2 \in Seq({h2[i] : i \in 1..Len(h2)})
    BY <2>4 DEF EphInv, GoodHist
  <2>6. Report(w) = ReportOf(t, h)
    <3>1. State(w) = StateOf(h)
      BY StateIs
    <3>2. PICK evs : evs = [i \in DOMAIN h |-> h[i].ev]
      OBVIOUS
    <3>3. GetDuRoot(evs) = DuReport(h) /\ GetRegistryPings(evs) = PingReport(h)
      <4> HIDE DEF h
      <4> QED
        BY <2>3, <3>2, ReportsAre
    <3>4. Report(w) = CASE t = "split" -> GetSplitRoot(State(w))
                        [] t = "du" -> GetDuRoot(evs)
                        [] t = "ping" -> GetRegistryPings(evs)
      BY <3>2, Zenon DEF Report
    <3> QED
      BY <3>1, <3>3, <3>4 DEF ReportOf
  <2>7. Report(w)' = ReportOf(t, h2)
    <3>1. State(w)' = StateOf(h2)
      BY DEF State, StateOf
    <3>2. PICK evs : evs = [i \in DOMAIN h2 |-> h2[i].ev]
      OBVIOUS
    <3>3. GetDuRoot(evs) = DuReport(h2) /\ GetRegistryPings(evs) = PingReport(h2)
      <4> HIDE DEF h2
      <4> QED
        BY <2>5, <3>2, ReportsAre
    <3>4. Report(w)' = CASE typ'[w] = "split" -> GetSplitRoot(State(w)')
                         [] typ'[w] = "du" -> GetDuRoot(evs)
                         [] typ'[w] = "ping" -> GetRegistryPings(evs)
      BY <3>2, Zenon DEF Report
    <3> QED
      BY <2>2, <3>1, <3>3, <3>4 DEF ReportOf
  <2>8. ASSUME NEW cmd, NEW e, Accepted(t, cmd, StateOf(h)),
               e.ev = Tell(t, cmd).ev, e.st = After(t, cmd, StateOf(h)),
               h2 = Append(h, e)
        PROVE  ReportOf(t, h2) = ReportOf(t, h)
    <3>1. LongerBy(h, e, h2)
      <4> HIDE DEF h, h2
      <4> QED
        BY <2>3, <2>8, AppendAny DEF LongerBy
    <3>2. ReportOf(t, h) \in Told
      BY <1>1, <2>6 DEF Told
    <3> HIDE DEF t, h, h2
    <3> QED
      BY <2>1, <2>8, <3>1, <3>2, ReportStays
  <2>9. ReportOf(t, h2) = ReportOf(t, h)
    BY <1>1, <2>2, <2>8 DEF Moved
  <2> QED
    BY <2>6, <2>7, <2>9
<1>2. EphInv /\ [Next]_vars =>
         [\A w \in Workflows :
             Report(w) \in {"ok", "failed", "expired"} /\ hist'[w] # <<>> =>
                 Report(w)' = Report(w)]_vars
  BY <1>1
<1> QED
  BY <1>2, EphInvariant, PTL DEF Spec, ReportIsFinal
=============================================================================
