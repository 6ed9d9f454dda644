----------------------- MODULE StorageWorkflowProofs -----------------------
(***************************************************************************)
(* Proofs about StorageWorkflow: the storage workflows of a repo exclude   *)
(* each other, registry and repo agree on the outcome, the files are where *)
(* the tier says, and the data are never lost, for any number of workflows *)
(* of any operation, failures, restarts and retries.                       *)
(*                                                                         *)
(* The argument has three layers.  FlowInv is about one workflow: what an  *)
(* activity has yet to do fits the state of the workflow, because each     *)
(* state is left by the commands of one activity only.  LockInv is about   *)
(* the two aggregates: the registry is a lock around the repo.  FilesInv   *)
(* is about the files: a workflow that works on them owns registry and     *)
(* repo, so what it has done to the files remains as it is until its next  *)
(* step, whatever others do.                                               *)
(***************************************************************************)
EXTENDS StorageWorkflow, SequenceTheorems, FiniteSetTheorems, TLAPS

-----------------------------------------------------------------------------
(***************************************************************************)
(* What an activity can have ahead: the step lists of StorageActivities    *)
(* and what remains of them.                                               *)
(***************************************************************************)

\* nogfsoregd: begin; commit and abort of a workflow; the end of both; commit
\* and abort of the files only.
B1 == <<"RegistryBegin", "ReposBegin", "BeginFiles">>
B2 == <<"ReposBegin", "BeginFiles">>
B3 == <<"BeginFiles">>
C1 == <<"ReposCommit", "RegistryCommit", "Commit", "IndexCommit", "End", "quit">>
C2 == <<"RegistryCommit", "Commit", "IndexCommit", "End", "quit">>
C3 == <<"Commit", "IndexCommit", "End", "quit">>
A1 == <<"ReposAbort", "RegistryAbort", "Abort", "IndexCommit", "End", "quit">>
A2 == <<"RegistryAbort", "Abort", "IndexCommit", "End", "quit">>
A3 == <<"Abort", "IndexCommit", "End", "quit">>
E1 == <<"IndexCommit", "End", "quit">>
E2 == <<"End", "quit">>
F1 == <<"ReposCommit", "RegistryCommit", "EndFiles">>
F2 == <<"RegistryCommit", "EndFiles">>
F3 == <<"EndFiles">>
G1 == <<"ReposAbort", "RegistryAbort", "EndFiles">>
G2 == <<"RegistryAbort", "EndFiles">>

\* nogfsostad: freeze or unfreeze; prepare an archive; swap; prepare a restore;
\* swap the restored files; remove the working directory.
H1 == <<"ChattrBegin", "ChattrEnd", "CommitFiles", "quit">>
H2 == <<"ChattrEnd", "CommitFiles", "quit">>
H3 == <<"CommitFiles", "quit">>
H4 == <<"AbortFiles", "quit">>
P1 == <<"PollTartt", "CommitTartt", "MakePlaceholder", "BeginSwap">>
P2 == <<"CommitTartt", "MakePlaceholder", "BeginSwap">>
P3 == <<"MakePlaceholder", "BeginSwap">>
P4 == <<"BeginSwap">>
S1 == <<"SwapOut", "SwapIn", "ShadowArchive", "CommitFiles">>
S2 == <<"SwapIn", "ShadowArchive", "CommitFiles">>
S3 == <<"ShadowArchive", "CommitFiles">>
S4 == <<"CommitFiles">>
S5 == <<"AbortFiles">>
U1 == <<"MakeRestore", "BeginTartt">>
U2 == <<"BeginTartt">>
V1 == <<"SetfaclChattr", "SwapOut", "SwapIn", "CommitFiles">>
V2 == <<"SwapOut", "SwapIn", "CommitFiles">>
V3 == <<"SwapIn", "CommitFiles">>
Z1 == <<"RemoveWorkingDir", "CommitGc", "quit">>
Z2 == <<"CommitGc", "quit">>

\* nogfsorstd: restore.
R1 == <<"TarttRestore", "CommitTartt", "quit">>
R2 == <<"CommitTartt", "quit">>
R3 == <<"AbortTartt", "quit">>

\* A concatenation is the sequence that has the elements of both.
LEMMA Concatenation ==
    ASSUME NEW S, NEW s \in Seq(S), NEW t \in Seq(S), NEW u \in Seq(S),
           Len(u) = Len(s) + Len(t),
           \A i \in 1 .. Len(s) : u[i] = s[i],
           \A i \in 1 .. Len(t) : u[Len(s) + i] = t[i]
    PROVE  s \o t = u
<1>1. /\ s \o t \in Seq(S)
      /\ Len(s \o t) = Len(s) + Len(t)
      /\ \A i \in 1 .. Len(s) + Len(t) :
            (s \o t)[i] = IF i <= Len(s) THEN s[i] ELSE t[i - Len(s)]
  BY ConcatProperties
<1>2. ASSUME NEW i \in 1 .. Len(u)
      PROVE  (s \o t)[i] = u[i]
  <2>1. CASE i <= Len(s)
    BY <1>1, <2>1
  <2>2. CASE i > Len(s)
    <3>1. i - Len(s) \in 1 .. Len(t) /\ Len(s) + (i - Len(s)) = i
      BY <2>2
    <3> QED
      BY <1>1, <2>2, <3>1
  <2> QED
    BY <2>1, <2>2
<1> QED
  BY <1>1, <1>2, SeqEqual

\* The concatenations that the step lists are made of, by length.
LEMMA Concat11 ==
    ASSUME NEW a, NEW b
    PROVE  <<a>> \o <<b>> = <<a, b>>
<1> DEFINE S == {a, b}
           s == <<a>>
           t == <<b>>
           u == <<a, b>>
<1>1. s \in Seq(S) /\ t \in Seq(S) /\ u \in Seq(S)
  OBVIOUS
<1>2. Len(s) = 1 /\ Len(t) = 1 /\ Len(u) = 2
  OBVIOUS
<1>3. s[1] = u[1]
  OBVIOUS
<1>4. t[1] = u[2]
  OBVIOUS
<1> HIDE DEF S, s, t, u
<1>5. \A i \in 1 .. Len(s) : u[i] = s[i]
  BY <1>2, <1>3
<1>6. \A i \in 1 .. Len(t) : u[Len(s) + i] = t[i]
  BY <1>2, <1>4
<1>7. s \o t = u
  <2>1. Len(u) = Len(s) + Len(t)
    BY <1>2
  <2> QED
    BY ONLY <1>1, <1>5, <1>6, <2>1, Concatenation
<1> QED
  BY <1>7 DEF s, t, u

\* Another length.
LEMMA Concat21 ==
    ASSUME NEW a, NEW b, NEW c
    PROVE  <<a, b>> \o <<c>> = <<a, b, c>>
<1> DEFINE S == {a, b, c}
           s == <<a, b>>
           t == <<c>>
           u == <<a, b, c>>
<1>1. s \in Seq(S) /\ t \in Seq(S) /\ u \in Seq(S)
  OBVIOUS
<1>2. Len(s) = 2 /\ Len(t) = 1 /\ Len(u) = 3
  OBVIOUS
<1>3. s[1] = u[1] /\ s[2] = u[2]
  OBVIOUS
<1>4. t[1] = u[3]
  OBVIOUS
<1> HIDE DEF S, s, t, u
<1>5. \A i \in 1 .. Len(s) : u[i] = s[i]
  BY <1>2, <1>3
<1>6. \A i \in 1 .. Len(t) : u[Len(s) + i] = t[i]
  BY <1>2, <1>4
<1>7. s \o t = u
  <2>1. Len(u) = Len(s) + Len(t)
    BY <1>2
  <2> QED
    BY ONLY <1>1, <1>5, <1>6, <2>1, Concatenation
<1> QED
  BY <1>7 DEF s, t, u

\* Another length.
LEMMA Concat23 ==
    ASSUME NEW a, NEW b, NEW c, NEW d, NEW e
    PROVE  <<a, b>> \o <<c, d, e>> = <<a, b, c, d, e>>
<1> DEFINE S == {a, b, c, d, e}
           s == <<a, b>>
           t == <<c, d, e>>
           u == <<a, b, c, d, e>>
<1>1. s \in Seq(S) /\ t \in Seq(S) /\ u \in Seq(S)
  OBVIOUS
<1>2. Len(s) = 2 /\ Len(t) = 3 /\ Len(u) = 5
  OBVIOUS
<1>3. s[1] = u[1] /\ s[2] = u[2]
  OBVIOUS
<1>4. t[1] = u[3] /\ t[2] = u[4] /\ t[3] = u[5]
  OBVIOUS
<1> HIDE DEF S, s, t, u
<1>5. \A i \in 1 .. Len(s) : u[i] = s[i]
  BY <1>2, <1>3
<1>6. \A i \in 1 .. Len(t) : u[Len(s) + i] = t[i]
  BY <1>2, <1>4
<1>7. s \o t = u
  <2>1. Len(u) = Len(s) + Len(t)
    BY <1>2
  <2> QED
    BY ONLY <1>1, <1>5, <1>6, <2>1, Concatenation
<1> QED
  BY <1>7 DEF s, t, u

\* Another length.
LEMMA Concat51 ==
    ASSUME NEW a, NEW b, NEW c, NEW d, NEW e, NEW f
    PROVE  <<a, b, c, d, e>> \o <<f>> = <<a, b, c, d, e, f>>
<1> DEFINE S == {a, b, c, d, e, f}
           s == <<a, b, c, d, e>>
           t == <<f>>
           u == <<a, b, c, d, e, f>>
<1>1. s \in Seq(S) /\ t \in Seq(S) /\ u \in Seq(S)
  OBVIOUS
<1>2. Len(s) = 5 /\ Len(t) = 1 /\ Len(u) = 6
  OBVIOUS
<1>3. s[1] = u[1] /\ s[2] = u[2] /\ s[3] = u[3] /\ s[4] = u[4] /\ s[5] = u[5]
  OBVIOUS
<1>4. t[1] = u[6]
  OBVIOUS
<1> HIDE DEF S, s, t, u
<1>5. \A i \in 1 .. Len(s) : u[i] = s[i]
  BY <1>2, <1>3
<1>6. \A i \in 1 .. Len(t) : u[Len(s) + i] = t[i]
  BY <1>2, <1>4
<1>7. s \o t = u
  <2>1. Len(u) = Len(s) + Len(t)
    BY <1>2
  <2> QED
    BY ONLY <1>1, <1>5, <1>6, <2>1, Concatenation
<1> QED
  BY <1>7 DEF s, t, u

\* Another length.
LEMMA Concat31 ==
    ASSUME NEW a, NEW b, NEW c, NEW d
    PROVE  <<a, b, c>> \o <<d>> = <<a, b, c, d>>
<1> DEFINE S == {a, b, c, d}
           s == <<a, b, c>>
           t == <<d>>
           u == <<a, b, c, d>>
<1>1. s \in Seq(S) /\ t \in Seq(S) /\ u \in Seq(S)
  OBVIOUS
<1>2. Len(s) = 3 /\ Len(t) = 1 /\ Len(u) = 4
  OBVIOUS
<1>3. s[1] = u[1] /\ s[2] = u[2] /\ s[3] = u[3]
  OBVIOUS
<1>4. t[1] = u[4]
  OBVIOUS
<1> HIDE DEF S, s, t, u
<1>5. \A i \in 1 .. Len(s) : u[i] = s[i]
  BY <1>2, <1>3
<1>6. \A i \in 1 .. Len(t) : u[Len(s) + i] = t[i]
  BY <1>2, <1>4
<1>7. s \o t = u
  <2>1. Len(u) = Len(s) + Len(t)
    BY <1>2
  <2> QED
    BY ONLY <1>1, <1>5, <1>6, <2>1, Concatenation
<1> QED
  BY <1>7 DEF s, t, u

\* Another length.
LEMMA Concat22 ==
    ASSUME NEW a, NEW b, NEW c, NEW d
    PROVE  <<a, b>> \o <<c, d>> = <<a, b, c, d>>
<1> DEFINE S == {a, b, c, d}
           s == <<a, b>>
           t == <<c, d>>
           u == <<a, b, c, d>>
<1>1. s \in Seq(S) /\ t \in Seq(S) /\ u \in Seq(S)
  OBVIOUS
<1>2. Len(s) = 2 /\ Len(t) = 2 /\ Len(u) = 4
  OBVIOUS
<1>3. s[1] = u[1] /\ s[2] = u[2]
  OBVIOUS
<1>4. t[1] = u[3] /\ t[2] = u[4]
  OBVIOUS
<1> HIDE DEF S, s, t, u
<1>5. \A i \in 1 .. Len(s) : u[i] = s[i]
  BY <1>2, <1>3
<1>6. \A i \in 1 .. Len(t) : u[Len(s) + i] = t[i]
  BY <1>2, <1>4
<1>7. s \o t = u
  <2>1. Len(u) = Len(s) + Len(t)
    BY <1>2
  <2> QED
    BY ONLY <1>1, <1>5, <1>6, <2>1, Concatenation
<1> QED
  BY <1>7 DEF s, t, u

\* A list of three steps.
LEMMA ConcatThree ==
    ASSUME NEW a, NEW b, NEW c
    PROVE  (<<a>> \o <<b>>) \o <<c>> = <<a, b, c>>
<1> DEFINE x == <<a>> \o <<b>>
<1>1. x = <<a, b>>
  BY Concat11
<1>2. <<a, b>> \o <<c>> = <<a, b, c>>
  BY Concat21
<1> HIDE DEF x
<1>3. x \o <<c>> = <<a, b, c>>
  BY <1>1, <1>2
<1> QED
  BY <1>3 DEF x

\* Two steps, those of a call that ends the workflow, and `quit'.
LEMMA ConcatSix ==
    ASSUME NEW a, NEW b, NEW c
    PROVE  ((<<a>> \o <<b>>) \o <<c, "IndexCommit", "End">>) \o <<"quit">>
             = <<a, b, c, "IndexCommit", "End", "quit">>
<1> DEFINE x == <<a>> \o <<b>>
           y == x \o <<c, "IndexCommit", "End">>
<1>1. x = <<a, b>>
  BY Concat11
<1>2. <<a, b>> \o <<c, "IndexCommit", "End">>
        = <<a, b, c, "IndexCommit", "End">>
  BY Concat23
<1>3. <<a, b, c, "IndexCommit", "End">> \o <<"quit">>
        = <<a, b, c, "IndexCommit", "End", "quit">>
  BY Concat51
<1> HIDE DEF x
<1>4. y = <<a, b, c, "IndexCommit", "End">>
  BY <1>1, <1>2
<1> HIDE DEF y
<1>5. y \o <<"quit">> = <<a, b, c, "IndexCommit", "End", "quit">>
  BY <1>3, <1>4
<1> QED
  BY <1>5 DEF x, y

\* The next step and the remaining steps of an activity of nogfsoregd.
LEMMA RegdLists ==
    /\ Quit # <<>> /\ Head(Quit) = "quit" /\ Tail(Quit) = <<>>
    /\ B1 # <<>> /\ Head(B1) = "RegistryBegin" /\ Tail(B1) = B2
    /\ B2 # <<>> /\ Head(B2) = "ReposBegin" /\ Tail(B2) = B3
    /\ B3 # <<>> /\ Head(B3) = "BeginFiles" /\ Tail(B3) = <<>>
    /\ C1 # <<>> /\ Head(C1) = "ReposCommit" /\ Tail(C1) = C2
    /\ C2 # <<>> /\ Head(C2) = "RegistryCommit" /\ Tail(C2) = C3
    /\ C3 # <<>> /\ Head(C3) = "Commit" /\ Tail(C3) = E1
    /\ A1 # <<>> /\ Head(A1) = "ReposAbort" /\ Tail(A1) = A2
    /\ A2 # <<>> /\ Head(A2) = "RegistryAbort" /\ Tail(A2) = A3
    /\ A3 # <<>> /\ Head(A3) = "Abort" /\ Tail(A3) = E1
    /\ E1 # <<>> /\ Head(E1) = "IndexCommit" /\ Tail(E1) = E2
    /\ E2 # <<>> /\ Head(E2) = "End" /\ Tail(E2) = Quit
    /\ F1 # <<>> /\ Head(F1) = "ReposCommit" /\ Tail(F1) = F2
    /\ F2 # <<>> /\ Head(F2) = "RegistryCommit" /\ Tail(F2) = F3
    /\ F3 # <<>> /\ Head(F3) = "EndFiles" /\ Tail(F3) = <<>>
    /\ G1 # <<>> /\ Head(G1) = "ReposAbort" /\ Tail(G1) = G2
    /\ G2 # <<>> /\ Head(G2) = "RegistryAbort" /\ Tail(G2) = F3
BY DEF Quit, B1, B2, B3, C1, C2, C3, A1, A2, A3, E1, E2, F1, F2, F3, G1, G2

\* The next step and the remaining steps of an activity of nogfsostad.
LEMMA StadLists ==
    /\ H1 # <<>> /\ Head(H1) = "ChattrBegin" /\ Tail(H1) = H2
    /\ H2 # <<>> /\ Head(H2) = "ChattrEnd" /\ Tail(H2) = H3
    /\ H3 # <<>> /\ Head(H3) = "CommitFiles" /\ Tail(H3) = Quit
    /\ H4 # <<>> /\ Head(H4) = "AbortFiles" /\ Tail(H4) = Quit
    /\ P1 # <<>> /\ Head(P1) = "PollTartt" /\ Tail(P1) = P2
    /\ P2 # <<>> /\ Head(P2) = "CommitTartt" /\ Tail(P2) = P3
    /\ P3 # <<>> /\ Head(P3) = "MakePlaceholder" /\ Tail(P3) = P4
    /\ P4 # <<>> /\ Head(P4) = "BeginSwap" /\ Tail(P4) = <<>>
    /\ S1 # <<>> /\ Head(S1) = "SwapOut" /\ Tail(S1) = S2
    /\ S2 # <<>> /\ Head(S2) = "SwapIn" /\ Tail(S2) = S3
    /\ S3 # <<>> /\ Head(S3) = "ShadowArchive" /\ Tail(S3) = S4
    /\ S4 # <<>> /\ Head(S4) = "CommitFiles" /\ Tail(S4) = <<>>
    /\ S5 # <<>> /\ Head(S5) = "AbortFiles" /\ Tail(S5) = <<>>
    /\ U1 # <<>> /\ Head(U1) = "MakeRestore" /\ Tail(U1) = U2
    /\ U2 # <<>> /\ Head(U2) = "BeginTartt" /\ Tail(U2) = <<>>
    /\ V1 # <<>> /\ Head(V1) = "SetfaclChattr" /\ Tail(V1) = V2
    /\ V2 # <<>> /\ Head(V2) = "SwapOut" /\ Tail(V2) = V3
    /\ V3 # <<>> /\ Head(V3) = "SwapIn" /\ Tail(V3) = S4
    /\ Z1 # <<>> /\ Head(Z1) = "RemoveWorkingDir" /\ Tail(Z1) = Z2
    /\ Z2 # <<>> /\ Head(Z2) = "CommitGc" /\ Tail(Z2) = Quit
BY DEF Quit, H1, H2, H3, H4, P1, P2, P3, P4, S1, S2, S3, S4, S5, U1, U2, V1, V2, V3, Z1, Z2

\* The next step and the remaining steps of an activity of nogfsorstd.
LEMMA RstdLists ==
    /\ R1 # <<>> /\ Head(R1) = "TarttRestore" /\ Tail(R1) = R2
    /\ R2 # <<>> /\ Head(R2) = "CommitTartt" /\ Tail(R2) = Quit
    /\ R3 # <<>> /\ Head(R3) = "AbortTartt" /\ Tail(R3) = Quit
BY DEF Quit, R1, R2, R3

\* The step lists of the activities of nogfsoregd.
LEMMA RegdTables ==
    /\ FreezeRepoRegdBegin.steps = B1
    /\ UnfreezeRepoRegdBegin.steps = B1
    /\ ArchiveRepoRegdBegin.steps = B1
    /\ UnarchiveRepoRegdBegin.steps = B1
    /\ FreezeRepoRegdCommit = C1
    /\ UnfreezeRepoRegdCommit = C1
    /\ FreezeRepoRegdAbort = A1
    /\ UnfreezeRepoRegdAbort = A1
    /\ ArchiveRepoRegdAbort = A1
    /\ UnarchiveRepoRegdAbort = A1
    /\ ArchiveRepoRegdCommit.files = F1
    /\ UnarchiveRepoRegdCommit.files = F1
    /\ ArchiveRepoRegdCommit.workflow = C3
    /\ UnarchiveRepoRegdCommit.workflow = C3
    /\ ArchiveRepoRegdAbortFiles = G1
    /\ UnarchiveRepoRegdAbortFiles = G1
<1>1. /\ FreezeRepoRegdBegin.steps = B1
      /\ UnfreezeRepoRegdBegin.steps = B1
      /\ ArchiveRepoRegdBegin.steps = B1
      /\ UnarchiveRepoRegdBegin.steps = B1
  <2>1. (<<"RegistryBegin">> \o <<"ReposBegin">>) \o <<"BeginFiles">> = B1
    BY ConcatThree DEF B1
  <2>2. /\ FreezeRepoRegistry.Begin = <<"RegistryBegin">>
        /\ FreezeRepoRepos.Begin = <<"ReposBegin">>
        /\ FreezeRepoServer.BeginFiles = <<"BeginFiles">>
    BY DEF FreezeRepoRegistry, FreezeRepoRepos, FreezeRepoServer
  <2>3. /\ UnfreezeRepoRegistry.Begin = <<"RegistryBegin">>
        /\ UnfreezeRepoRepos.Begin = <<"ReposBegin">>
        /\ UnfreezeRepoServer.BeginFiles = <<"BeginFiles">>
    BY DEF UnfreezeRepoRegistry, UnfreezeRepoRepos, UnfreezeRepoServer
  <2>4. /\ ArchiveRepoRegistry.Begin = <<"RegistryBegin">>
        /\ ArchiveRepoRepos.Begin = <<"ReposBegin">>
        /\ ArchiveRepoServerFiles.BeginFiles = <<"BeginFiles">>
    BY DEF ArchiveRepoRegistry, ArchiveRepoRepos, ArchiveRepoServerFiles
  <2>5. /\ UnarchiveRepoRegistry.Begin = <<"RegistryBegin">>
        /\ UnarchiveRepoRepos.Begin = <<"ReposBegin">>
        /\ UnarchiveRepoServerFiles.BeginFiles = <<"BeginFiles">>
    BY DEF UnarchiveRepoRegistry, UnarchiveRepoRepos, UnarchiveRepoServerFiles
  <2> QED
    BY <2>1, <2>2, <2>3, <2>4, <2>5 DEF FreezeRepoRegdBegin,
       UnfreezeRepoRegdBegin, ArchiveRepoRegdBegin, UnarchiveRepoRegdBegin
<1>2. FreezeRepoRegdCommit = C1 /\ UnfreezeRepoRegdCommit = C1
  <2>1. ((<<"ReposCommit">> \o <<"RegistryCommit">>)
            \o <<"Commit", "IndexCommit", "End">>) \o <<"quit">> = C1
    BY ConcatSix DEF C1
  <2>2. /\ FreezeRepoRepos.Commit = <<"ReposCommit">>
        /\ FreezeRepoRegistry.Commit = <<"RegistryCommit">>
        /\ FreezeRepoServer.Commit = <<"Commit", "IndexCommit", "End">>
    BY DEF FreezeRepoRegistry, FreezeRepoRepos, FreezeRepoServer
  <2>3. /\ UnfreezeRepoRepos.Commit = <<"ReposCommit">>
        /\ UnfreezeRepoRegistry.Commit = <<"RegistryCommit">>
        /\ UnfreezeRepoServer.Commit = <<"Commit", "IndexCommit", "End">>
    BY DEF UnfreezeRepoRegistry, UnfreezeRepoRepos, UnfreezeRepoServer
  <2> QED
    BY <2>1, <2>2, <2>3
    DEF FreezeRepoRegdCommit, UnfreezeRepoRegdCommit, Quit
<1>3. /\ FreezeRepoRegdAbort = A1
      /\ UnfreezeRepoRegdAbort = A1
      /\ ArchiveRepoRegdAbort = A1
      /\ UnarchiveRepoRegdAbort = A1
  <2>1. ((<<"ReposAbort">> \o <<"RegistryAbort">>)
            \o <<"Abort", "IndexCommit", "End">>) \o <<"quit">> = A1
    BY ConcatSix DEF A1
  <2>2. /\ FreezeRepoRepos.Abort = <<"ReposAbort">>
        /\ FreezeRepoRegistry.Abort = <<"RegistryAbort">>
        /\ UnfreezeRepoRepos.Abort = <<"ReposAbort">>
        /\ UnfreezeRepoRegistry.Abort = <<"RegistryAbort">>
        /\ ArchiveRepoRepos.Abort = <<"ReposAbort">>
        /\ ArchiveRepoRegistry.Abort = <<"RegistryAbort">>
        /\ UnarchiveRepoRepos.Abort = <<"ReposAbort">>
        /\ UnarchiveRepoRegistry.Abort = <<"RegistryAbort">>
    BY DEF FreezeRepoRepos, FreezeRepoRegistry, UnfreezeRepoRepos,
       UnfreezeRepoRegistry, ArchiveRepoRepos, ArchiveRepoRegistry,
       UnarchiveRepoRepos, UnarchiveRepoRegistry
  <2> QED
    BY <2>1, <2>2 DEF FreezeRepoRegdAbort, UnfreezeRepoRegdAbort,
       ArchiveRepoRegdAbort, UnarchiveRepoRegdAbort, FreezeRepoServerAbort,
       UnfreezeRepoServerAbort, ArchiveRepoServerAbort,
       UnarchiveRepoServerAbort, Quit
<1>4. ArchiveRepoRegdCommit.files = F1 /\ UnarchiveRepoRegdCommit.files = F1
  <2>1. (<<"ReposCommit">> \o <<"RegistryCommit">>) \o <<"EndFiles">> = F1
    BY ConcatThree DEF F1
  <2>2. /\ ArchiveRepoRepos.Commit = <<"ReposCommit">>
        /\ ArchiveRepoRegistry.Commit = <<"RegistryCommit">>
        /\ ArchiveRepoServerEnd.EndFiles = <<"EndFiles">>
    BY DEF ArchiveRepoRepos, ArchiveRepoRegistry, ArchiveRepoServerEnd
  <2>3. /\ UnarchiveRepoRepos.Commit = <<"ReposCommit">>
        /\ UnarchiveRepoRegistry.Commit = <<"RegistryCommit">>
        /\ UnarchiveRepoServerEnd.EndFiles = <<"EndFiles">>
    BY DEF UnarchiveRepoRepos, UnarchiveRepoRegistry, UnarchiveRepoServerEnd
  <2> QED
    BY <2>1, <2>2, <2>3 DEF ArchiveRepoRegdCommit, UnarchiveRepoRegdCommit
<1>5. /\ ArchiveRepoRegdCommit.workflow = C3
      /\ UnarchiveRepoRegdCommit.workflow = C3
  <2>1. <<"Commit", "IndexCommit", "End">> \o <<"quit">> = C3
    BY Concat31 DEF C3
  <2>2. /\ ArchiveRepoServerEnd.Commit = <<"Commit", "IndexCommit", "End">>
        /\ UnarchiveRepoServerEnd.Commit = <<"Commit", "IndexCommit", "End">>
    BY DEF ArchiveRepoServerEnd, UnarchiveRepoServerEnd
  <2> QED
    BY <2>1, <2>2 DEF ArchiveRepoRegdCommit, UnarchiveRepoRegdCommit, Quit
<1>6. ArchiveRepoRegdAbortFiles = G1 /\ UnarchiveRepoRegdAbortFiles = G1
  <2>1. (<<"ReposAbort">> \o <<"RegistryAbort">>) \o <<"EndFiles">> = G1
    BY ConcatThree DEF G1
  <2>2. /\ ArchiveRepoRepos.Abort = <<"ReposAbort">>
        /\ ArchiveRepoRegistry.Abort = <<"RegistryAbort">>
        /\ ArchiveRepoServerEnd.EndFiles = <<"EndFiles">>
    BY DEF ArchiveRepoRepos, ArchiveRepoRegistry, ArchiveRepoServerEnd
  <2>3. /\ UnarchiveRepoRepos.Abort = <<"ReposAbort">>
        /\ UnarchiveRepoRegistry.Abort = <<"RegistryAbort">>
        /\ UnarchiveRepoServerEnd.EndFiles = <<"EndFiles">>
    BY DEF UnarchiveRepoRepos, UnarchiveRepoRegistry, UnarchiveRepoServerEnd
  <2> QED
    BY <2>1, <2>2, <2>3
    DEF ArchiveRepoRegdAbortFiles, UnarchiveRepoRegdAbortFiles
<1> QED
  BY <1>1, <1>2, <1>3, <1>4, <1>5, <1>6

\* The step lists of the activities of nogfsostad and nogfsorstd.
LEMMA StadTables ==
    /\ FreezeRepoStadFiles.steps = H1 /\ FreezeRepoStadFiles.abort = H4
    /\ UnfreezeRepoStadFiles.steps = H1 /\ UnfreezeRepoStadFiles.abort = H4
    /\ ArchiveRepoStadPoll = P1 /\ ArchiveRepoStadPrepare = P3
    /\ ArchiveRepoStadFiles.steps = S1 /\ ArchiveRepoStadFiles.abort = S5
    /\ ArchiveRepoStadGc = Z1 /\ UnarchiveRepoStadGc = Z1
    /\ UnarchiveRepoStadPrepare = U1
    /\ UnarchiveRepoStadFiles.steps = V1 /\ UnarchiveRepoStadFiles.abort = S5
    /\ UnarchiveRepoRstdRestore.steps = R1
    /\ UnarchiveRepoRstdRestore.abort = R3
<1>1. <<"ChattrBegin", "ChattrEnd", "CommitFiles">> \o <<"quit">> = H1
  BY Concat31 DEF H1
<1>2. <<"AbortFiles">> \o <<"quit">> = H4
  BY Concat11 DEF H4
<1>3. <<"PollTartt", "CommitTartt">> \o <<"MakePlaceholder", "BeginSwap">> = P1
  BY Concat22 DEF P1
<1>4. <<"RemoveWorkingDir", "CommitGc">> \o <<"quit">> = Z1
  BY Concat21 DEF Z1
<1>5. /\ <<"TarttRestore", "CommitTartt">> \o <<"quit">> = R1
      /\ <<"AbortTartt">> \o <<"quit">> = R3
  BY Concat21, Concat11 DEF R1, R3
<1>6. /\ FreezeRepoStadFiles.steps = H1 /\ FreezeRepoStadFiles.abort = H4
      /\ UnfreezeRepoStadFiles.steps = H1 /\ UnfreezeRepoStadFiles.abort = H4
  BY <1>1, <1>2 DEF FreezeRepoStadFiles, UnfreezeRepoStadFiles, Quit
<1>7. /\ ArchiveRepoStadPoll = P1 /\ ArchiveRepoStadPrepare = P3
      /\ UnarchiveRepoStadPrepare = U1
  BY <1>3 DEF ArchiveRepoStadPoll, ArchiveRepoStadPrepare, P3,
     UnarchiveRepoStadPrepare, U1
<1>8. /\ ArchiveRepoStadFiles.steps = S1 /\ ArchiveRepoStadFiles.abort = S5
      /\ UnarchiveRepoStadFiles.steps = V1 /\ UnarchiveRepoStadFiles.abort = S5
  BY DEF ArchiveRepoStadFiles, UnarchiveRepoStadFiles, S1, S5, V1
<1>9. ArchiveRepoStadGc = Z1 /\ UnarchiveRepoStadGc = Z1
  BY <1>4 DEF ArchiveRepoStadGc, UnarchiveRepoStadGc, Quit
<1>10. /\ UnarchiveRepoRstdRestore.steps = R1
       /\ UnarchiveRepoRstdRestore.abort = R3
  BY <1>5 DEF UnarchiveRepoRstdRestore, Quit
<1> QED
  BY <1>6, <1>7, <1>8, <1>9, <1>10

-----------------------------------------------------------------------------
(***************************************************************************)
(* The steps that an activity takes in a state depend on the state code;   *)
(* and each state code is left by one activity.                            *)
(***************************************************************************)

Short(w) == OpOf[w] \in {"freeze", "unfreeze"}
Long(w) == OpOf[w] \in {"archive", "unarchive"}

\* The operation of a workflow is one of four.
LEMMA OpCases ==
    ASSUME NEW w \in Workflows
    PROVE  /\ OpOf[w] \in {"freeze", "unfreeze", "archive", "unarchive"}
           /\ Short(w) \/ Long(w)
           /\ ~(Short(w) /\ Long(w))
BY StorageAssumption DEF Ops, Short, Long

\* The step lists that can follow the state code `c', by activity.
RegdSteps(w, c) ==
    CASE c = "Initialized" -> {B1}
      [] c = "FilesCompleted" -> {IF Short(w) THEN C1 ELSE F1}
      [] c = "FilesFailed" -> {IF Short(w) THEN A1 ELSE G1}
      [] c = "TarttFailed" /\ Long(w) -> {G1}
      [] c = "GcCompleted" /\ Long(w) -> {C3, A1}
      [] c \in {"Files", "Tartt", "TarttCompleted", "SwapStarted", "FilesEnded"}
            -> {<<>>}
      [] OTHER -> {Quit}

StadSteps(w, c) ==
    CASE Short(w) /\ c = "Files" -> {H1}
      [] OpOf[w] = "archive" /\ c = "Files" -> {P1}
      [] OpOf[w] = "archive" /\ c = "TarttCompleted" -> {P3}
      [] OpOf[w] = "archive" /\ c = "SwapStarted" -> {S1}
      [] OpOf[w] = "unarchive" /\ c = "Files" -> {U1}
      [] OpOf[w] = "unarchive" /\ c = "TarttCompleted" -> {V1}
      [] Long(w) /\ c = "FilesEnded" -> {Z1}
      [] OTHER -> {<<>>, Quit}

RstdSteps(w, c) == IF c = "Tartt" THEN {R1} ELSE {<<>>, Quit}

StepsAt(r, w, c) ==
    CASE r = "regd" -> RegdSteps(w, c)
      [] r = "stad" -> StadSteps(w, c)
      [] r = "rstd" -> RstdSteps(w, c)

\* The types of the events of a workflow.
EventTypes(w) ==
    IF Short(w)
    THEN {"Started2", "FilesStarted", "FilesCompleted", "Completed2",
          "Committed"}
    ELSE {"Started", "FilesStarted", "FilesCompleted", "FilesCommitted",
          "GcCompleted", "Completed", "Committed"}
         \cup IF OpOf[w] = "archive" THEN {"TarttCompleted", "SwapStarted"}
                                     ELSE {"TarttStarted", "TarttCompleted"}

\* The views of the activities and the aggregate agree on what an event leads
\* to, although each has its own code.
LEMMA LoadSteps ==
    ASSUME NEW w \in Workflows, NEW r \in RolesOf(w), NEW v, NEW s,
           NEW ev, ev[1] \in EventTypes(w)
    PROVE  Steps(r, w, Load(r, w, v, ev))
             \in StepsAt(r, w, Scode(Advance(w, s, ev)))
<1> USE DEF Steps, StepsAt, Load, Loaded, Advance, Advanced, Split, Scode
<1>1. CASE OpOf[w] = "freeze"
  <2>1. ev[1] \in {"Started2", "FilesStarted", "FilesCompleted", "Completed2",
                   "Committed"}
    BY <1>1 DEF EventTypes, Short
  <2>2. CASE r = "regd"
    BY <1>1, <2>1, <2>2, RegdTables DEF FreezeRepoRegd, FreezeRepoRegdLoad,
       FreezeRepoAdvance, RegdSteps, Short, Long
  <2>3. CASE r = "stad"
    BY <1>1, <2>1, <2>3, StadTables DEF FreezeRepoStad, FreezeRepoStadLoad,
       FreezeRepoAdvance, StadSteps, Short, Long
  <2> QED
    BY <1>1, <2>2, <2>3 DEF RolesOf
<1>2. CASE OpOf[w] = "unfreeze"
  <2>1. ev[1] \in {"Started2", "FilesStarted", "FilesCompleted", "Completed2",
                   "Committed"}
    BY <1>2 DEF EventTypes, Short
  <2>2. CASE r = "regd"
    BY <1>2, <2>1, <2>2, RegdTables DEF UnfreezeRepoRegd, UnfreezeRepoRegdLoad,
       UnfreezeRepoAdvance, RegdSteps, Short, Long
  <2>3. CASE r = "stad"
    BY <1>2, <2>1, <2>3, StadTables DEF UnfreezeRepoStad, UnfreezeRepoStadLoad,
       UnfreezeRepoAdvance, StadSteps, Short, Long
  <2> QED
    BY <1>2, <2>2, <2>3 DEF RolesOf
<1>3. CASE OpOf[w] = "archive"
  <2>1. ev[1] \in {"Started", "FilesStarted", "TarttCompleted", "SwapStarted",
                   "FilesCompleted", "FilesCommitted", "GcCompleted",
                   "Completed", "Committed"}
    BY <1>3 DEF EventTypes, Short
  <2>2. CASE r = "regd"
    BY <1>3, <2>1, <2>2, RegdTables DEF ArchiveRepoRegd, ArchiveRepoRegdLoad,
       ArchiveRepoAdvance, RegdSteps, Short, Long, StatusOk
  <2>3. CASE r = "stad"
    BY <1>3, <2>1, <2>3, StadTables DEF ArchiveRepoStad, ArchiveRepoStadLoad,
       ArchiveRepoAdvance, StadSteps, Short, Long
  <2> QED
    BY <1>3, <2>2, <2>3 DEF RolesOf
<1>4. CASE OpOf[w] = "unarchive"
  <2>1. ev[1] \in {"Started", "FilesStarted", "TarttStarted", "TarttCompleted",
                   "FilesCompleted", "FilesCommitted", "GcCompleted",
                   "Completed", "Committed"}
    BY <1>4 DEF EventTypes, Short
  <2>2. CASE r = "regd"
    BY <1>4, <2>1, <2>2, RegdTables DEF UnarchiveRepoRegd,
       UnarchiveRepoRegdLoad, UnarchiveRepoAdvance, RegdSteps, Short, Long, StatusOk
  <2>3. CASE r = "stad"
    BY <1>4, <2>1, <2>3, StadTables DEF UnarchiveRepoStad,
       UnarchiveRepoStadLoad, UnarchiveRepoAdvance, StadSteps, Short, Long
  <2>4. CASE r = "rstd"
    BY <1>4, <2>1, <2>4, StadTables DEF UnarchiveRepoRstd,
       UnarchiveRepoRstdLoad, UnarchiveRepoAdvance, RstdSteps
  <2> QED
    BY <1>4, <2>2, <2>3, <2>4 DEF RolesOf, Roles
<1> QED
  BY <1>1, <1>2, <1>3, <1>4, OpCases

-----------------------------------------------------------------------------
(***************************************************************************)
(* What the commands do.                                                   *)
(***************************************************************************)

\* Command `cmd' in state `s' leads to state code `to', in which it is
\* idempotent.
Leads(w, s, cmd, to) ==
    /\ Tell(w, cmd).ev[1] \in EventTypes(w)
    /\ Tell(w, cmd).again = {to}
    /\ Scode(Advance(w, s, Tell(w, cmd).ev)) = to

\* Command `cmd' is accepted only with status ok.
NeedsOk(w, s, cmd) == s \in Tell(w, cmd).from => StatusOk(s)

\* Command `cmd' in state `s' keeps the status, or makes it not ok.
Keeps(w, s, cmd) ==
    StatusOk(Advance(w, s, Tell(w, cmd).ev)) = StatusOk(s)
Spoils(w, s, cmd) ==
    StatusOk(Advance(w, s, Tell(w, cmd).ev)) = FALSE

\* A command as the tables give it, whatever the states it is accepted in.
LEMMA CmdLeads ==
    ASSUME NEW w, NEW s, NEW cmd, NEW in, NEW to, NEW type, NEW ok,
           Tell(w, cmd) = CmdIn(in, {to}, type, ok),
           type \in EventTypes(w),
           Scode(Advance(w, s, <<type, ok>>)) = to
    PROVE  Leads(w, s, cmd, to)
<1>1. Tell(w, cmd).ev = <<type, ok>>
  BY DEF CmdIn
<1>2. Tell(w, cmd).again = {to}
  BY DEF CmdIn
<1> QED
  BY <1>1, <1>2 DEF Leads

\* What a command does to the status.
LEMMA CmdKeeps ==
    ASSUME NEW w, NEW s, NEW cmd, NEW in, NEW to, NEW type, NEW ok,
           Tell(w, cmd) = CmdIn(in, {to}, type, ok),
           StatusOk(Advance(w, s, <<type, ok>>)) = StatusOk(s)
    PROVE  Keeps(w, s, cmd)
<1>1. Tell(w, cmd).ev = <<type, ok>>
  BY DEF CmdIn
<1> QED
  BY <1>1 DEF Keeps

\* A command whose event leaves a failed status spoils the workflow.
LEMMA CmdSpoils ==
    ASSUME NEW w, NEW s, NEW cmd, NEW in, NEW to, NEW type, NEW ok,
           Tell(w, cmd) = CmdIn(in, {to}, type, ok),
           StatusOk(Advance(w, s, <<type, ok>>)) = FALSE
    PROVE  Spoils(w, s, cmd)
<1>1. Tell(w, cmd).ev = <<type, ok>>
  BY DEF CmdIn
<1> QED
  BY <1>1 DEF Spoils

\* A commit of a workflow is accepted only with status ok.
LEMMA CmdFrom ==
    ASSUME NEW w, NEW cmd, NEW in, NEW to, NEW type, NEW ok,
           Tell(w, cmd) = CmdIn(in, {to}, type, ok)
    PROVE  Tell(w, cmd).from = in
BY DEF CmdIn

\* GcCompleted with a good status is a good status.
LEMMA OnlyOk ==
    ASSUME NEW s, s \in {<<"GcCompleted", TRUE>>}
    PROVE  StatusOk(s)
<1> DEFINE b == TRUE
<1>1. b
  OBVIOUS
<1>2. s \in {<<"GcCompleted", b>>}
  OBVIOUS
<1> HIDE DEF b
<1>3. s[2] = b
  BY ONLY <1>2
<1> QED
  BY <1>1, <1>3 DEF StatusOk

\* The commands of freeze-repo.
LEMMA FreezeCommands ==
    ASSUME NEW w \in Workflows, OpOf[w] = "freeze", NEW s
    PROVE  /\ Leads(w, s, "Init", "Initialized")
           /\ Leads(w, s, "BeginFiles", "Files")
           /\ Leads(w, s, "CommitFiles", "FilesCompleted")
           /\ Leads(w, s, "AbortFiles", "FilesFailed")
           /\ Leads(w, s, "Commit", "Completed")
           /\ Leads(w, s, "Abort", "Failed") /\ Spoils(w, s, "Abort")
           /\ Leads(w, s, "End", "Terminated") /\ Keeps(w, s, "End")
<1>1. /\ Scode(Advance(w, s, <<"Started2", TRUE>>)) = "Initialized"
      /\ Scode(Advance(w, s, <<"FilesStarted", TRUE>>)) = "Files"
      /\ Scode(Advance(w, s, <<"FilesCompleted", TRUE>>)) = "FilesCompleted"
      /\ Scode(Advance(w, s, <<"FilesCompleted", FALSE>>)) = "FilesFailed"
      /\ Scode(Advance(w, s, <<"Completed2", TRUE>>)) = "Completed"
      /\ Scode(Advance(w, s, <<"Completed2", FALSE>>)) = "Failed"
      /\ Scode(Advance(w, s, <<"Committed", TRUE>>)) = "Terminated"
  BY DEF Advance, FreezeRepoAdvance, Advanced, Split, Scode
<1>2. /\ "Started2" \in EventTypes(w)
      /\ "FilesStarted" \in EventTypes(w)
      /\ "FilesCompleted" \in EventTypes(w)
      /\ "Completed2" \in EventTypes(w)
      /\ "Committed" \in EventTypes(w)
  BY DEF EventTypes, Short
<1>3. Leads(w, s, "Init", "Initialized")
  <2> DEFINE in == {"Uninitialized"} \X BOOLEAN
  <2>1. Tell(w, "Init") = CmdIn(in, {"Initialized"}, "Started2", TRUE)
    BY DEF Tell, FreezeRepoTell, Cmd
  <2> HIDE DEF in
  <2> QED
    BY ONLY <1>1, <1>2, <2>1, CmdLeads
<1>4. Leads(w, s, "BeginFiles", "Files")
  <2> DEFINE in == {"Initialized"} \X BOOLEAN
  <2>1. Tell(w, "BeginFiles") = CmdIn(in, {"Files"}, "FilesStarted", TRUE)
    BY DEF Tell, FreezeRepoTell, Cmd
  <2> HIDE DEF in
  <2> QED
    BY ONLY <1>1, <1>2, <2>1, CmdLeads
<1>5. Leads(w, s, "CommitFiles", "FilesCompleted")
  <2> DEFINE in == {"Files"} \X BOOLEAN
  <2>1. Tell(w, "CommitFiles") = CmdIn(in, {"FilesCompleted"}, "FilesCompleted", TRUE)
    BY DEF Tell, FreezeRepoTell, Cmd
  <2> HIDE DEF in
  <2> QED
    BY ONLY <1>1, <1>2, <2>1, CmdLeads
<1>6. Leads(w, s, "AbortFiles", "FilesFailed")
  <2> DEFINE in == {"Files"} \X BOOLEAN
  <2>1. Tell(w, "AbortFiles") = CmdIn(in, {"FilesFailed"}, "FilesCompleted", FALSE)
    BY DEF Tell, FreezeRepoTell, Cmd
  <2> HIDE DEF in
  <2> QED
    BY ONLY <1>1, <1>2, <2>1, CmdLeads
<1>7. Leads(w, s, "Commit", "Completed")
  <2> DEFINE in == {"FilesCompleted"} \X BOOLEAN
  <2>1. Tell(w, "Commit") = CmdIn(in, {"Completed"}, "Completed2", TRUE)
    BY DEF Tell, FreezeRepoTell, Cmd
  <2> HIDE DEF in
  <2> QED
    BY ONLY <1>1, <1>2, <2>1, CmdLeads
<1>8. Leads(w, s, "Abort", "Failed") /\ Spoils(w, s, "Abort")
  <2> DEFINE in == {"Initialized", "FilesFailed", "FilesCompleted"} \X BOOLEAN
  <2>1. Tell(w, "Abort") = CmdIn(in, {"Failed"}, "Completed2", FALSE)
    BY DEF Tell, FreezeRepoTell, Cmd
  <2> HIDE DEF in
  <2>2. Leads(w, s, "Abort", "Failed")
    BY ONLY <1>1, <1>2, <2>1, CmdLeads
  <2>5. StatusOk(Advance(w, s, <<"Completed2", FALSE>>)) = FALSE
    BY DEF Advance, FreezeRepoAdvance, Advanced, StatusOk
  <2>6. Spoils(w, s, "Abort")
    BY ONLY <2>1, <2>5, CmdSpoils
  <2> QED
    BY <2>2, <2>6
<1>9. Leads(w, s, "End", "Terminated") /\ Keeps(w, s, "End")
  <2> DEFINE in == {"Completed", "Failed"} \X BOOLEAN
  <2>1. Tell(w, "End") = CmdIn(in, {"Terminated"}, "Committed", TRUE)
    BY DEF Tell, FreezeRepoTell, Cmd
  <2> HIDE DEF in
  <2>2. Leads(w, s, "End", "Terminated")
    BY ONLY <1>1, <1>2, <2>1, CmdLeads
  <2>5. StatusOk(Advance(w, s, <<"Committed", TRUE>>)) = StatusOk(s)
    BY DEF Advance, FreezeRepoAdvance, Advanced, StatusOk
  <2>6. Keeps(w, s, "End")
    BY ONLY <2>1, <2>5, CmdKeeps
  <2> QED
    BY <2>2, <2>6
<1> QED
  BY <1>3, <1>4, <1>5, <1>6, <1>7, <1>8, <1>9

\* The commands of unfreeze-repo.
LEMMA UnfreezeCommands ==
    ASSUME NEW w \in Workflows, OpOf[w] = "unfreeze", NEW s
    PROVE  /\ Leads(w, s, "Init", "Initialized")
           /\ Leads(w, s, "BeginFiles", "Files")
           /\ Leads(w, s, "CommitFiles", "FilesCompleted")
           /\ Leads(w, s, "AbortFiles", "FilesFailed")
           /\ Leads(w, s, "Commit", "Completed")
           /\ Leads(w, s, "Abort", "Failed") /\ Spoils(w, s, "Abort")
           /\ Leads(w, s, "End", "Terminated") /\ Keeps(w, s, "End")
<1>1. /\ Scode(Advance(w, s, <<"Started2", TRUE>>)) = "Initialized"
      /\ Scode(Advance(w, s, <<"FilesStarted", TRUE>>)) = "Files"
      /\ Scode(Advance(w, s, <<"FilesCompleted", TRUE>>)) = "FilesCompleted"
      /\ Scode(Advance(w, s, <<"FilesCompleted", FALSE>>)) = "FilesFailed"
      /\ Scode(Advance(w, s, <<"Completed2", TRUE>>)) = "Completed"
      /\ Scode(Advance(w, s, <<"Completed2", FALSE>>)) = "Failed"
      /\ Scode(Advance(w, s, <<"Committed", TRUE>>)) = "Terminated"
  BY DEF Advance, UnfreezeRepoAdvance, Advanced, Split, Scode
<1>2. /\ "Started2" \in EventTypes(w)
      /\ "FilesStarted" \in EventTypes(w)
      /\ "FilesCompleted" \in EventTypes(w)
      /\ "Completed2" \in EventTypes(w)
      /\ "Committed" \in EventTypes(w)
  BY DEF EventTypes, Short
<1>3. Leads(w, s, "Init", "Initialized")
  <2> DEFINE in == {"Uninitialized"} \X BOOLEAN
  <2>1. Tell(w, "Init") = CmdIn(in, {"Initialized"}, "Started2", TRUE)
    BY DEF Tell, UnfreezeRepoTell, Cmd
  <2> HIDE DEF in
  <2> QED
    BY ONLY <1>1, <1>2, <2>1, CmdLeads
<1>4. Leads(w, s, "BeginFiles", "Files")
  <2> DEFINE in == {"Initialized"} \X BOOLEAN
  <2>1. Tell(w, "BeginFiles") = CmdIn(in, {"Files"}, "FilesStarted", TRUE)
    BY DEF Tell, UnfreezeRepoTell, Cmd
  <2> HIDE DEF in
  <2> QED
    BY ONLY <1>1, <1>2, <2>1, CmdLeads
<1>5. Leads(w, s, "CommitFiles", "FilesCompleted")
  <2> DEFINE in == {"Files"} \X BOOLEAN
  <2>1. Tell(w, "CommitFiles") = CmdIn(in, {"FilesCompleted"}, "FilesCompleted", TRUE)
    BY DEF Tell, UnfreezeRepoTell, Cmd
  <2> HIDE DEF in
  <2> QED
    BY ONLY <1>1, <1>2, <2>1, CmdLeads
<1>6. Leads(w, s, "AbortFiles", "FilesFailed")
  <2> DEFINE in == {"Files"} \X BOOLEAN
  <2>1. Tell(w, "AbortFiles") = CmdIn(in, {"FilesFailed"}, "FilesCompleted", FALSE)
    BY DEF Tell, UnfreezeRepoTell, Cmd
  <2> HIDE DEF in
  <2> QED
    BY ONLY <1>1, <1>2, <2>1, CmdLeads
<1>7. Leads(w, s, "Commit", "Completed")
  <2> DEFINE in == {"FilesCompleted"} \X BOOLEAN
  <2>1. Tell(w, "Commit") = CmdIn(in, {"Completed"}, "Completed2", TRUE)
    BY DEF Tell, UnfreezeRepoTell, Cmd
  <2> HIDE DEF in
  <2> QED
    BY ONLY <1>1, <1>2, <2>1, CmdLeads
<1>8. Leads(w, s, "Abort", "Failed") /\ Spoils(w, s, "Abort")
  <2> DEFINE in == {"Initialized", "FilesFailed", "FilesCompleted"} \X BOOLEAN
  <2>1. Tell(w, "Abort") = CmdIn(in, {"Failed"}, "Completed2", FALSE)
    BY DEF Tell, UnfreezeRepoTell, Cmd
  <2> HIDE DEF in
  <2>2. Leads(w, s, "Abort", "Failed")
    BY ONLY <1>1, <1>2, <2>1, CmdLeads
  <2>5. StatusOk(Advance(w, s, <<"Completed2", FALSE>>)) = FALSE
    BY DEF Advance, UnfreezeRepoAdvance, Advanced, StatusOk
  <2>6. Spoils(w, s, "Abort")
    BY ONLY <2>1, <2>5, CmdSpoils
  <2> QED
    BY <2>2, <2>6
<1>9. Leads(w, s, "End", "Terminated") /\ Keeps(w, s, "End")
  <2> DEFINE in == {"Completed", "Failed"} \X BOOLEAN
  <2>1. Tell(w, "End") = CmdIn(in, {"Terminated"}, "Committed", TRUE)
    BY DEF Tell, UnfreezeRepoTell, Cmd
  <2> HIDE DEF in
  <2>2. Leads(w, s, "End", "Terminated")
    BY ONLY <1>1, <1>2, <2>1, CmdLeads
  <2>5. StatusOk(Advance(w, s, <<"Committed", TRUE>>)) = StatusOk(s)
    BY DEF Advance, UnfreezeRepoAdvance, Advanced, StatusOk
  <2>6. Keeps(w, s, "End")
    BY ONLY <2>1, <2>5, CmdKeeps
  <2> QED
    BY <2>2, <2>6
<1> QED
  BY <1>3, <1>4, <1>5, <1>6, <1>7, <1>8, <1>9

\* The commands of archive-repo.
LEMMA ArchiveCommands ==
    ASSUME NEW w \in Workflows, OpOf[w] = "archive", NEW s
    PROVE  /\ Leads(w, s, "Init", "Initialized")
           /\ Leads(w, s, "BeginFiles", "Files")
           /\ Leads(w, s, "CommitTartt", "TarttCompleted")
           /\ Leads(w, s, "BeginSwap", "SwapStarted")
           /\ Leads(w, s, "CommitFiles", "FilesCompleted")
           /\ Leads(w, s, "AbortFiles", "FilesFailed") /\ Spoils(w, s, "AbortFiles")
           /\ Leads(w, s, "EndFiles", "FilesEnded") /\ Keeps(w, s, "EndFiles")
           /\ Leads(w, s, "CommitGc", "GcCompleted") /\ Keeps(w, s, "CommitGc")
           /\ Leads(w, s, "Commit", "Completed") /\ NeedsOk(w, s, "Commit")
           /\ Leads(w, s, "Abort", "Failed") /\ Spoils(w, s, "Abort")
           /\ Leads(w, s, "End", "Terminated") /\ Keeps(w, s, "End")
<1>1. /\ Scode(Advance(w, s, <<"Started", TRUE>>)) = "Initialized"
      /\ Scode(Advance(w, s, <<"FilesStarted", TRUE>>)) = "Files"
      /\ Scode(Advance(w, s, <<"TarttCompleted", TRUE>>)) = "TarttCompleted"
      /\ Scode(Advance(w, s, <<"SwapStarted", TRUE>>)) = "SwapStarted"
      /\ Scode(Advance(w, s, <<"FilesCompleted", TRUE>>)) = "FilesCompleted"
      /\ Scode(Advance(w, s, <<"FilesCompleted", FALSE>>)) = "FilesFailed"
      /\ Scode(Advance(w, s, <<"FilesCommitted", TRUE>>)) = "FilesEnded"
      /\ Scode(Advance(w, s, <<"GcCompleted", TRUE>>)) = "GcCompleted"
      /\ Scode(Advance(w, s, <<"Completed", TRUE>>)) = "Completed"
      /\ Scode(Advance(w, s, <<"Completed", FALSE>>)) = "Failed"
      /\ Scode(Advance(w, s, <<"Committed", TRUE>>)) = "Terminated"
  BY DEF Advance, ArchiveRepoAdvance, Advanced, Split, Scode
<1>2. /\ "Started" \in EventTypes(w)
      /\ "FilesStarted" \in EventTypes(w)
      /\ "TarttCompleted" \in EventTypes(w)
      /\ "SwapStarted" \in EventTypes(w)
      /\ "FilesCompleted" \in EventTypes(w)
      /\ "FilesCommitted" \in EventTypes(w)
      /\ "GcCompleted" \in EventTypes(w)
      /\ "Completed" \in EventTypes(w)
      /\ "Committed" \in EventTypes(w)
  BY DEF EventTypes, Short
<1>3. Leads(w, s, "Init", "Initialized")
  <2> DEFINE in == {"Uninitialized"} \X BOOLEAN
  <2>1. Tell(w, "Init") = CmdIn(in, {"Initialized"}, "Started", TRUE)
    BY DEF Tell, ArchiveRepoTellFiles, ArchiveRepoTellEnd, Cmd
  <2> HIDE DEF in
  <2> QED
    BY ONLY <1>1, <1>2, <2>1, CmdLeads
<1>4. Leads(w, s, "BeginFiles", "Files")
  <2> DEFINE in == {"Initialized"} \X BOOLEAN
  <2>1. Tell(w, "BeginFiles") = CmdIn(in, {"Files"}, "FilesStarted", TRUE)
    BY DEF Tell, ArchiveRepoTellFiles, ArchiveRepoTellEnd, Cmd
  <2> HIDE DEF in
  <2> QED
    BY ONLY <1>1, <1>2, <2>1, CmdLeads
<1>5. Leads(w, s, "CommitTartt", "TarttCompleted")
  <2> DEFINE in == {"Files"} \X BOOLEAN
  <2>1. Tell(w, "CommitTartt") = CmdIn(in, {"TarttCompleted"}, "TarttCompleted", TRUE)
    BY DEF Tell, ArchiveRepoTellFiles, ArchiveRepoTellEnd, Cmd
  <2> HIDE DEF in
  <2> QED
    BY ONLY <1>1, <1>2, <2>1, CmdLeads
<1>6. Leads(w, s, "BeginSwap", "SwapStarted")
  <2> DEFINE in == {"TarttCompleted"} \X BOOLEAN
  <2>1. Tell(w, "BeginSwap") = CmdIn(in, {"SwapStarted"}, "SwapStarted", TRUE)
    BY DEF Tell, ArchiveRepoTellFiles, ArchiveRepoTellEnd, Cmd
  <2> HIDE DEF in
  <2> QED
    BY ONLY <1>1, <1>2, <2>1, CmdLeads
<1>7. Leads(w, s, "CommitFiles", "FilesCompleted")
  <2> DEFINE in == {"SwapStarted"} \X BOOLEAN
  <2>1. Tell(w, "CommitFiles") = CmdIn(in, {"FilesCompleted"}, "FilesCompleted", TRUE)
    BY DEF Tell, ArchiveRepoTellFiles, ArchiveRepoTellEnd, Cmd
  <2> HIDE DEF in
  <2> QED
    BY ONLY <1>1, <1>2, <2>1, CmdLeads
<1>8. Leads(w, s, "AbortFiles", "FilesFailed") /\ Spoils(w, s, "AbortFiles")
  <2> DEFINE in == {"Files", "TarttCompleted", "SwapStarted"} \X BOOLEAN
  <2>1. Tell(w, "AbortFiles") = CmdIn(in, {"FilesFailed"}, "FilesCompleted", FALSE)
    BY DEF Tell, ArchiveRepoTellFiles, ArchiveRepoTellEnd, Cmd
  <2> HIDE DEF in
  <2>2. Leads(w, s, "AbortFiles", "FilesFailed")
    BY ONLY <1>1, <1>2, <2>1, CmdLeads
  <2>5. StatusOk(Advance(w, s, <<"FilesCompleted", FALSE>>)) = FALSE
    BY DEF Advance, ArchiveRepoAdvance, Advanced, StatusOk
  <2>6. Spoils(w, s, "AbortFiles")
    BY ONLY <2>1, <2>5, CmdSpoils
  <2> QED
    BY <2>2, <2>6
<1>9. Leads(w, s, "EndFiles", "FilesEnded") /\ Keeps(w, s, "EndFiles")
  <2> DEFINE in == {"FilesCompleted", "FilesFailed"} \X BOOLEAN
  <2>1. Tell(w, "EndFiles") = CmdIn(in, {"FilesEnded"}, "FilesCommitted", TRUE)
    BY DEF Tell, ArchiveRepoTellFiles, ArchiveRepoTellEnd, Cmd
  <2> HIDE DEF in
  <2>2. Leads(w, s, "EndFiles", "FilesEnded")
    BY ONLY <1>1, <1>2, <2>1, CmdLeads
  <2>5. StatusOk(Advance(w, s, <<"FilesCommitted", TRUE>>)) = StatusOk(s)
    BY DEF Advance, ArchiveRepoAdvance, Advanced, StatusOk
  <2>6. Keeps(w, s, "EndFiles")
    BY ONLY <2>1, <2>5, CmdKeeps
  <2> QED
    BY <2>2, <2>6
<1>10. Leads(w, s, "CommitGc", "GcCompleted") /\ Keeps(w, s, "CommitGc")
  <2> DEFINE in == {"FilesEnded"} \X BOOLEAN
  <2>1. Tell(w, "CommitGc") = CmdIn(in, {"GcCompleted"}, "GcCompleted", TRUE)
    BY DEF Tell, ArchiveRepoTellFiles, ArchiveRepoTellEnd, Cmd
  <2> HIDE DEF in
  <2>2. Leads(w, s, "CommitGc", "GcCompleted")
    BY ONLY <1>1, <1>2, <2>1, CmdLeads
  <2>5. StatusOk(Advance(w, s, <<"GcCompleted", TRUE>>)) = StatusOk(s)
    BY DEF Advance, ArchiveRepoAdvance, Advanced, StatusOk
  <2>6. Keeps(w, s, "CommitGc")
    BY ONLY <2>1, <2>5, CmdKeeps
  <2> QED
    BY <2>2, <2>6
<1>11. Leads(w, s, "Commit", "Completed") /\ NeedsOk(w, s, "Commit")
  <2> DEFINE in == {<<"GcCompleted", TRUE>>}
  <2>1. Tell(w, "Commit") = CmdIn(in, {"Completed"}, "Completed", TRUE)
    BY DEF Tell, ArchiveRepoTellFiles, ArchiveRepoTellEnd, CmdIf
  <2>3. s \in in => StatusOk(s)
    BY OnlyOk
  <2> HIDE DEF in
  <2>2. Leads(w, s, "Commit", "Completed")
    BY ONLY <1>1, <1>2, <2>1, CmdLeads
  <2>4. Tell(w, "Commit").from = in
    BY ONLY <2>1, CmdFrom
  <2> QED
    BY <2>2, <2>3, <2>4 DEF NeedsOk
<1>12. Leads(w, s, "Abort", "Failed") /\ Spoils(w, s, "Abort")
  <2> DEFINE in == {"Initialized"} \X BOOLEAN \cup {<<"GcCompleted", FALSE>>}
  <2>1. Tell(w, "Abort") = CmdIn(in, {"Failed"}, "Completed", FALSE)
    BY DEF Tell, ArchiveRepoTellFiles, ArchiveRepoTellEnd, CmdIf
  <2> HIDE DEF in
  <2>2. Leads(w, s, "Abort", "Failed")
    BY ONLY <1>1, <1>2, <2>1, CmdLeads
  <2>5. StatusOk(Advance(w, s, <<"Completed", FALSE>>)) = FALSE
    BY DEF Advance, ArchiveRepoAdvance, Advanced, StatusOk
  <2>6. Spoils(w, s, "Abort")
    BY ONLY <2>1, <2>5, CmdSpoils
  <2> QED
    BY <2>2, <2>6
<1>13. Leads(w, s, "End", "Terminated") /\ Keeps(w, s, "End")
  <2> DEFINE in == {"Completed", "Failed"} \X BOOLEAN
  <2>1. Tell(w, "End") = CmdIn(in, {"Terminated"}, "Committed", TRUE)
    BY DEF Tell, ArchiveRepoTellFiles, ArchiveRepoTellEnd, Cmd
  <2> HIDE DEF in
  <2>2. Leads(w, s, "End", "Terminated")
    BY ONLY <1>1, <1>2, <2>1, CmdLeads
  <2>5. StatusOk(Advance(w, s, <<"Committed", TRUE>>)) = StatusOk(s)
    BY DEF Advance, ArchiveRepoAdvance, Advanced, StatusOk
  <2>6. Keeps(w, s, "End")
    BY ONLY <2>1, <2>5, CmdKeeps
  <2> QED
    BY <2>2, <2>6
<1> QED
  BY <1>3, <1>4, <1>5, <1>6, <1>7, <1>8, <1>9, <1>10, <1>11, <1>12, <1>13

\* The commands of unarchive-repo.
LEMMA UnarchiveCommands ==
    ASSUME NEW w \in Workflows, OpOf[w] = "unarchive", NEW s
    PROVE  /\ Leads(w, s, "Init", "Initialized")
           /\ Leads(w, s, "BeginFiles", "Files")
           /\ Leads(w, s, "BeginTartt", "Tartt")
           /\ Leads(w, s, "CommitTartt", "TarttCompleted")
           /\ Leads(w, s, "AbortTartt", "TarttFailed") /\ Spoils(w, s, "AbortTartt")
           /\ Leads(w, s, "CommitFiles", "FilesCompleted")
           /\ Leads(w, s, "AbortFiles", "FilesFailed") /\ Spoils(w, s, "AbortFiles")
           /\ Leads(w, s, "EndFiles", "FilesEnded") /\ Keeps(w, s, "EndFiles")
           /\ Leads(w, s, "CommitGc", "GcCompleted") /\ Keeps(w, s, "CommitGc")
           /\ Leads(w, s, "Commit", "Completed") /\ NeedsOk(w, s, "Commit")
           /\ Leads(w, s, "Abort", "Failed") /\ Spoils(w, s, "Abort")
           /\ Leads(w, s, "End", "Terminated") /\ Keeps(w, s, "End")
<1>1. /\ Scode(Advance(w, s, <<"Started", TRUE>>)) = "Initialized"
      /\ Scode(Advance(w, s, <<"FilesStarted", TRUE>>)) = "Files"
      /\ Scode(Advance(w, s, <<"TarttStarted", TRUE>>)) = "Tartt"
      /\ Scode(Advance(w, s, <<"TarttCompleted", TRUE>>)) = "TarttCompleted"
      /\ Scode(Advance(w, s, <<"TarttCompleted", FALSE>>)) = "TarttFailed"
      /\ Scode(Advance(w, s, <<"FilesCompleted", TRUE>>)) = "FilesCompleted"
      /\ Scode(Advance(w, s, <<"FilesCompleted", FALSE>>)) = "FilesFailed"
      /\ Scode(Advance(w, s, <<"FilesCommitted", TRUE>>)) = "FilesEnded"
      /\ Scode(Advance(w, s, <<"GcCompleted", TRUE>>)) = "GcCompleted"
      /\ Scode(Advance(w, s, <<"Completed", TRUE>>)) = "Completed"
      /\ Scode(Advance(w, s, <<"Completed", FALSE>>)) = "Failed"
      /\ Scode(Advance(w, s, <<"Committed", TRUE>>)) = "Terminated"
  BY DEF Advance, UnarchiveRepoAdvance, Advanced, Split, Scode
<1>2. /\ "Started" \in EventTypes(w)
      /\ "FilesStarted" \in EventTypes(w)
      /\ "TarttStarted" \in EventTypes(w)
      /\ "TarttCompleted" \in EventTypes(w)
      /\ "FilesCompleted" \in EventTypes(w)
      /\ "FilesCommitted" \in EventTypes(w)
      /\ "GcCompleted" \in EventTypes(w)
      /\ "Completed" \in EventTypes(w)
      /\ "Committed" \in EventTypes(w)
  BY DEF EventTypes, Short
<1>3. Leads(w, s, "Init", "Initialized")
  <2> DEFINE in == {"Uninitialized"} \X BOOLEAN
  <2>1. Tell(w, "Init") = CmdIn(in, {"Initialized"}, "Started", TRUE)
    BY DEF Tell, UnarchiveRepoTellFiles, UnarchiveRepoTellEnd, Cmd
  <2> HIDE DEF in
  <2> QED
    BY ONLY <1>1, <1>2, <2>1, CmdLeads
<1>4. Leads(w, s, "BeginFiles", "Files")
  <2> DEFINE in == {"Initialized"} \X BOOLEAN
  <2>1. Tell(w, "BeginFiles") = CmdIn(in, {"Files"}, "FilesStarted", TRUE)
    BY DEF Tell, UnarchiveRepoTellFiles, UnarchiveRepoTellEnd, Cmd
  <2> HIDE DEF in
  <2> QED
    BY ONLY <1>1, <1>2, <2>1, CmdLeads
<1>5. Leads(w, s, "BeginTartt", "Tartt")
  <2> DEFINE in == {"Files"} \X BOOLEAN
  <2>1. Tell(w, "BeginTartt") = CmdIn(in, {"Tartt"}, "TarttStarted", TRUE)
    BY DEF Tell, UnarchiveRepoTellFiles, UnarchiveRepoTellEnd, Cmd
  <2> HIDE DEF in
  <2> QED
    BY ONLY <1>1, <1>2, <2>1, CmdLeads
<1>6. Leads(w, s, "CommitTartt", "TarttCompleted")
  <2> DEFINE in == {"Tartt"} \X BOOLEAN
  <2>1. Tell(w, "CommitTartt") = CmdIn(in, {"TarttCompleted"}, "TarttCompleted", TRUE)
    BY DEF Tell, UnarchiveRepoTellFiles, UnarchiveRepoTellEnd, Cmd
  <2> HIDE DEF in
  <2> QED
    BY ONLY <1>1, <1>2, <2>1, CmdLeads
<1>7. Leads(w, s, "AbortTartt", "TarttFailed") /\ Spoils(w, s, "AbortTartt")
  <2> DEFINE in == {"Tartt"} \X BOOLEAN
  <2>1. Tell(w, "AbortTartt") = CmdIn(in, {"TarttFailed"}, "TarttCompleted", FALSE)
    BY DEF Tell, UnarchiveRepoTellFiles, UnarchiveRepoTellEnd, Cmd
  <2> HIDE DEF in
  <2>2. Leads(w, s, "AbortTartt", "TarttFailed")
    BY ONLY <1>1, <1>2, <2>1, CmdLeads
  <2>5. StatusOk(Advance(w, s, <<"TarttCompleted", FALSE>>)) = FALSE
    BY DEF Advance, UnarchiveRepoAdvance, Advanced, StatusOk
  <2>6. Spoils(w, s, "AbortTartt")
    BY ONLY <2>1, <2>5, CmdSpoils
  <2> QED
    BY <2>2, <2>6
<1>8. Leads(w, s, "CommitFiles", "FilesCompleted")
  <2> DEFINE in == {"TarttCompleted"} \X BOOLEAN
  <2>1. Tell(w, "CommitFiles") = CmdIn(in, {"FilesCompleted"}, "FilesCompleted", TRUE)
    BY DEF Tell, UnarchiveRepoTellFiles, UnarchiveRepoTellEnd, Cmd
  <2> HIDE DEF in
  <2> QED
    BY ONLY <1>1, <1>2, <2>1, CmdLeads
<1>9. Leads(w, s, "AbortFiles", "FilesFailed") /\ Spoils(w, s, "AbortFiles")
  <2> DEFINE in == {"Files", "TarttCompleted"} \X BOOLEAN
  <2>1. Tell(w, "AbortFiles") = CmdIn(in, {"FilesFailed"}, "FilesCompleted", FALSE)
    BY DEF Tell, UnarchiveRepoTellFiles, UnarchiveRepoTellEnd, Cmd
  <2> HIDE DEF in
  <2>2. Leads(w, s, "AbortFiles", "FilesFailed")
    BY ONLY <1>1, <1>2, <2>1, CmdLeads
  <2>5. StatusOk(Advance(w, s, <<"FilesCompleted", FALSE>>)) = FALSE
    BY DEF Advance, UnarchiveRepoAdvance, Advanced, StatusOk
  <2>6. Spoils(w, s, "AbortFiles")
    BY ONLY <2>1, <2>5, CmdSpoils
  <2> QED
    BY <2>2, <2>6
<1>10. Leads(w, s, "EndFiles", "FilesEnded") /\ Keeps(w, s, "EndFiles")
  <2> DEFINE in == {"TarttFailed", "FilesCompleted", "FilesFailed"} \X BOOLEAN
  <2>1. Tell(w, "EndFiles") = CmdIn(in, {"FilesEnded"}, "FilesCommitted", TRUE)
    BY DEF Tell, UnarchiveRepoTellFiles, UnarchiveRepoTellEnd, Cmd
  <2> HIDE DEF in
  <2>2. Leads(w, s, "EndFiles", "FilesEnded")
    BY ONLY <1>1, <1>2, <2>1, CmdLeads
  <2>5. StatusOk(Advance(w, s, <<"FilesCommitted", TRUE>>)) = StatusOk(s)
    BY DEF Advance, UnarchiveRepoAdvance, Advanced, StatusOk
  <2>6. Keeps(w, s, "EndFiles")
    BY ONLY <2>1, <2>5, CmdKeeps
  <2> QED
    BY <2>2, <2>6
<1>11. Leads(w, s, "CommitGc", "GcCompleted") /\ Keeps(w, s, "CommitGc")
  <2> DEFINE in == {"FilesEnded"} \X BOOLEAN
  <2>1. Tell(w, "CommitGc") = CmdIn(in, {"GcCompleted"}, "GcCompleted", TRUE)
    BY DEF Tell, UnarchiveRepoTellFiles, UnarchiveRepoTellEnd, Cmd
  <2> HIDE DEF in
  <2>2. Leads(w, s, "CommitGc", "GcCompleted")
    BY ONLY <1>1, <1>2, <2>1, CmdLeads
  <2>5. StatusOk(Advance(w, s, <<"GcCompleted", TRUE>>)) = StatusOk(s)
    BY DEF Advance, UnarchiveRepoAdvance, Advanced, StatusOk
  <2>6. Keeps(w, s, "CommitGc")
    BY ONLY <2>1, <2>5, CmdKeeps
  <2> QED
    BY <2>2, <2>6
<1>12. Leads(w, s, "Commit", "Completed") /\ NeedsOk(w, s, "Commit")
  <2> DEFINE in == {<<"GcCompleted", TRUE>>}
  <2>1. Tell(w, "Commit") = CmdIn(in, {"Completed"}, "Completed", TRUE)
    BY DEF Tell, UnarchiveRepoTellFiles, UnarchiveRepoTellEnd, CmdIf
  <2>3. s \in in => StatusOk(s)
    BY OnlyOk
  <2> HIDE DEF in
  <2>2. Leads(w, s, "Commit", "Completed")
    BY ONLY <1>1, <1>2, <2>1, CmdLeads
  <2>4. Tell(w, "Commit").from = in
    BY ONLY <2>1, CmdFrom
  <2> QED
    BY <2>2, <2>3, <2>4 DEF NeedsOk
<1>13. Leads(w, s, "Abort", "Failed") /\ Spoils(w, s, "Abort")
  <2> DEFINE in == {"Initialized"} \X BOOLEAN \cup {<<"GcCompleted", FALSE>>}
  <2>1. Tell(w, "Abort") = CmdIn(in, {"Failed"}, "Completed", FALSE)
    BY DEF Tell, UnarchiveRepoTellFiles, UnarchiveRepoTellEnd, CmdIf
  <2> HIDE DEF in
  <2>2. Leads(w, s, "Abort", "Failed")
    BY ONLY <1>1, <1>2, <2>1, CmdLeads
  <2>5. StatusOk(Advance(w, s, <<"Completed", FALSE>>)) = FALSE
    BY DEF Advance, UnarchiveRepoAdvance, Advanced, StatusOk
  <2>6. Spoils(w, s, "Abort")
    BY ONLY <2>1, <2>5, CmdSpoils
  <2> QED
    BY <2>2, <2>6
<1>14. Leads(w, s, "End", "Terminated") /\ Keeps(w, s, "End")
  <2> DEFINE in == {"Completed", "Failed"} \X BOOLEAN
  <2>1. Tell(w, "End") = CmdIn(in, {"Terminated"}, "Committed", TRUE)
    BY DEF Tell, UnarchiveRepoTellFiles, UnarchiveRepoTellEnd, Cmd
  <2> HIDE DEF in
  <2>2. Leads(w, s, "End", "Terminated")
    BY ONLY <1>1, <1>2, <2>1, CmdLeads
  <2>5. StatusOk(Advance(w, s, <<"Committed", TRUE>>)) = StatusOk(s)
    BY DEF Advance, UnarchiveRepoAdvance, Advanced, StatusOk
  <2>6. Keeps(w, s, "End")
    BY ONLY <2>1, <2>5, CmdKeeps
  <2> QED
    BY <2>2, <2>6
<1> QED
  BY <1>3, <1>4, <1>5, <1>6, <1>7, <1>8, <1>9, <1>10, <1>11, <1>12, <1>13,
     <1>14

-----------------------------------------------------------------------------
(***************************************************************************)
(* FlowInv: the history, the index entry and the activities of a workflow. *)
(*                                                                         *)
(* The steps that an activity has ahead fit the state code of the          *)
(* workflow, and the activity has seen the latest event.  The exception is *)
(* nogfsostad of an archive: after CommitTartt it goes on to prepare the   *)
(* swap, and the event of CommitTartt makes it prepare the swap once more. *)
(* It may then be behind, but then its version is too.                     *)
(***************************************************************************)

RegdTodo(w, t, c) ==
    \/ t \in {B1, B2, B3} /\ c = "Initialized"
    \/ t \in {C1, C2, C3} /\ Short(w) /\ c = "FilesCompleted"
    \/ t \in {F1, F2, F3} /\ Long(w) /\ c = "FilesCompleted"
    \/ t \in {G1, G2, F3} /\ Long(w) /\ c \in {"FilesFailed", "TarttFailed"}
    \/ t = C3 /\ Long(w) /\ c = "GcCompleted"
    \/ t \in {A1, A2, A3} /\ c = "Initialized"
    \/ t \in {A1, A2, A3} /\ Short(w) /\ c = "FilesFailed"
    \/ t \in {A1, A2, A3} /\ Long(w) /\ c = "GcCompleted"

StadTodo(w, t, c) ==
    \/ t \in {H1, H2, H3, H4} /\ Short(w) /\ c = "Files"
    \/ t \in {P1, P2} /\ OpOf[w] = "archive" /\ c = "Files"
    \/ t \in {S1, S2, S3, S4, S5} /\ OpOf[w] = "archive" /\ c = "SwapStarted"
    \/ t \in {U1, U2, S5} /\ OpOf[w] = "unarchive" /\ c = "Files"
    \/ t \in {V1, V2, V3, S4, S5} /\ OpOf[w] = "unarchive"
         /\ c = "TarttCompleted"
    \/ t \in {Z1, Z2} /\ Long(w) /\ c = "FilesEnded"

RstdTodo(w, t, c) == t \in {R1, R2, R3} /\ OpOf[w] = "unarchive" /\ c = "Tartt"

\* The steps of nogfsostad between CommitTartt and BeginSwap.
Prepares(w, t) == OpOf[w] = "archive" /\ t \in {P3, P4, S5}

\* The steps `t' of an activity in position `pos' with version `at' fit a
\* history of length `n' with state code `c'.
RegdFits(w, t, pos, c, n) ==
    \/ t \in {<<>>, Quit}
    \/ t \in {E1, E2} /\ c \in {"Completed", "Failed"}
    \/ RegdTodo(w, t, c) /\ pos = n

StadFits(w, t, pos, at, c, n) ==
    \/ t \in {<<>>, Quit}
    \/ StadTodo(w, t, c) /\ pos = n
    \/ Prepares(w, t) /\ at = n /\ c = "TarttCompleted"
    \/ Prepares(w, t) /\ at < n

RstdFits(w, t, pos, c, n) ==
    \/ t \in {<<>>, Quit}
    \/ RstdTodo(w, t, c) /\ pos = n

Fits(r, w, t, pos, at, c, n) ==
    CASE r = "regd" -> RegdFits(w, t, pos, c, n)
      [] r = "stad" -> StadFits(w, t, pos, at, c, n)
      [] r = "rstd" -> RstdFits(w, t, pos, c, n)

\* The steps that an activity may pass over.
Harmless(r, w) ==
    {<<>>, Quit} \cup IF r = "stad" /\ OpOf[w] = "archive" THEN {P3} ELSE {}

\* The state of a workflow with history `h'.
StateOf(h) == IF h = <<>> THEN New ELSE h[Len(h)].st
CodeOf(h) == Scode(StateOf(h))

GoodHist(w, h) ==
    /\ h \in Seq({h[i] : i \in DOMAIN h})
    /\ \A i \in 1 .. Len(h) : \A r \in RolesOf(w) :
          Steps(r, w, h[i].view[r]) \in StepsAt(r, w, Scode(h[i].st))

GoodIndex(h, i) ==
    /\ i = "completed" => CodeOf(h) \in {"Completed", "Failed", "Terminated"}
    /\ h = <<>> => i = "none"

\* Activity `a' of workflow `w' with history `h' and index entry `i'.
GoodAct(r, w, a, h, i) ==
    /\ a = [pos |-> a.pos, at |-> a.at, todo |-> a.todo, n |-> a.n]
    /\ a.pos \in 0 .. Len(h)
    /\ a.at \in 0 .. Len(h)
    /\ a.n \in Nat
    /\ Fits(r, w, a.todo, a.pos, a.at, CodeOf(h), Len(h))
    /\ a.pos > 0 /\ r \in RolesOf(w) =>
          \A q \in a.pos + 1 .. Len(h) - 1 :
              Steps(r, w, h[q].view[r]) \in Harmless(r, w)
    /\ a.todo # <<>> => i \in {"active", "completed"}
    /\ h = <<>> => a.todo = <<>>

FlowInv ==
    /\ hist = [w \in Workflows |-> hist[w]]
    /\ index = [w \in Workflows |-> index[w]]
    /\ act = [r \in Roles |-> [w \in Workflows |-> act[r][w]]]
    /\ \A w \in Workflows :
          /\ GoodHist(w, hist[w])
          /\ GoodIndex(hist[w], index[w])
          /\ \A r \in Roles : GoodAct(r, w, act[r][w], hist[w], index[w])

-----------------------------------------------------------------------------
\* The history after event `ev'.
Longer(w, h, ev) ==
    Append(h, [ev |-> ev, st |-> Advance(w, StateOf(h), ev),
               view |-> [r \in RolesOf(w) |->
                           Load(r, w, IF Len(h) = 0 THEN New
                                      ELSE h[Len(h)].view[r], ev)]])

\* State and code are those of the history.
LEMMA StateIs ==
    ASSUME NEW w
    PROVE  State(w) = StateOf(hist[w]) /\ Code(w) = CodeOf(hist[w])
BY DEF State, Code, StateOf, CodeOf

\* A command that is accepted makes the history longer.
LEMMA PostIs ==
    ASSUME NEW w, NEW ev, Post(w, ev)
    PROVE  hist' = [hist EXCEPT ![w] = Longer(w, hist[w], ev)]
BY DEF Post, Longer, State, StateOf, View

\* Appending to a sequence of whatever elements.
LEMMA AppendAny ==
    ASSUME NEW h, h \in Seq({h[i] : i \in DOMAIN h}), NEW e
    PROVE  /\ Append(h, e) \in Seq({Append(h, e)[i] : i \in DOMAIN Append(h, e)})
           /\ Len(h) \in Nat
           /\ Len(Append(h, e)) = Len(h) + 1
           /\ Append(h, e) # <<>>
           /\ \A i \in 1 .. Len(h) : Append(h, e)[i] = h[i]
           /\ Append(h, e)[Len(h) + 1] = e
<1> DEFINE S == {h[i] : i \in DOMAIN h} \cup {e}
           g == Append(h, e)
<1>1. h \in Seq(S) /\ e \in S
  <2>1. {h[i] : i \in DOMAIN h} \subseteq S
    OBVIOUS
  <2> HIDE DEF S
  <2>2. ASSUME NEW T, T \subseteq S, h \in Seq(T)
        PROVE  h \in Seq(S)
    <3>1. Len(h) \in Nat /\ DOMAIN h = 1 .. Len(h)
      BY <2>2
    <3>2. \A i \in 1 .. Len(h) : h[i] \in S
      BY <2>2, <3>1
    <3>3. h = [i \in 1 .. Len(h) |-> h[i]]
      BY <2>2
    <3> QED
      BY <3>1, <3>2, <3>3
  <2>3. e \in S
    BY DEF S
  <2> QED
    BY <2>1, <2>2, <2>3
<1> HIDE DEF S
<1>2. /\ g \in Seq(S)
      /\ g # <<>>
      /\ Len(g) = Len(h) + 1
      /\ \A i \in 1 .. Len(h) : g[i] = h[i]
      /\ g[Len(h) + 1] = e
  BY <1>1, AppendProperties
<1>3. Len(h) \in Nat
  BY <1>1
<1> HIDE DEF g
<1>4. g \in Seq({g[i] : i \in DOMAIN g})
  <2> DEFINE T == {g[i] : i \in DOMAIN g}
  <2>1. \A i \in DOMAIN g : g[i] \in T
    OBVIOUS
  <2> HIDE DEF T
  <2>2. Len(g) \in Nat /\ DOMAIN g = 1 .. Len(g) /\ g = [i \in 1 .. Len(g) |-> g[i]]
    BY <1>2
  <2>3. g \in Seq(T)
    BY <2>1, <2>2
  <2> QED
    BY <2>3 DEF T
<1> QED
  BY <1>2, <1>3, <1>4 DEF g

\* A history that is good remains so.
LEMMA GoodLonger ==
    ASSUME NEW w \in Workflows, NEW h, GoodHist(w, h),
           NEW ev, ev[1] \in EventTypes(w)
    PROVE  /\ GoodHist(w, Longer(w, h, ev))
           /\ Len(h) \in Nat
           /\ Len(Longer(w, h, ev)) = Len(h) + 1
           /\ Longer(w, h, ev) # <<>>
           /\ StateOf(Longer(w, h, ev)) = Advance(w, StateOf(h), ev)
           /\ \A i \in 1 .. Len(h) : Longer(w, h, ev)[i] = h[i]
<1> DEFINE e == [ev |-> ev, st |-> Advance(w, StateOf(h), ev),
                 view |-> [r \in RolesOf(w) |->
                             Load(r, w, IF Len(h) = 0 THEN New
                                        ELSE h[Len(h)].view[r], ev)]]
           g == Longer(w, h, ev)
<1>1. e.st = Advance(w, StateOf(h), ev)
  OBVIOUS
<1>2. ASSUME NEW r \in RolesOf(w)
      PROVE  Steps(r, w, e.view[r]) \in StepsAt(r, w, Scode(e.st))
  <2> DEFINE v == IF Len(h) = 0 THEN New ELSE h[Len(h)].view[r]
  <2>1. e.view[r] = Load(r, w, v, ev)
    OBVIOUS
  <2> HIDE DEF v, e
  <2> QED
    BY <1>1, <2>1, LoadSteps
<1>3. g = Append(h, e)
  BY DEF Longer
<1> HIDE DEF e, g
<1>4. /\ g \in Seq({g[i] : i \in DOMAIN g})
      /\ Len(h) \in Nat
      /\ Len(g) = Len(h) + 1
      /\ g # <<>>
      /\ \A i \in 1 .. Len(h) : g[i] = h[i]
      /\ g[Len(h) + 1] = e
  BY <1>3, AppendAny DEF GoodHist
<1>5. StateOf(g) = Advance(w, StateOf(h), ev)
  BY <1>1, <1>4 DEF StateOf
<1>6. GoodHist(w, g)
  <2>1. ASSUME NEW i \in 1 .. Len(g), NEW r \in RolesOf(w)
        PROVE  Steps(r, w, g[i].view[r]) \in StepsAt(r, w, Scode(g[i].st))
    <3>1. CASE i \in 1 .. Len(h)
      BY <1>4, <3>1 DEF GoodHist
    <3>2. CASE i = Len(h) + 1
      BY <1>2, <1>4, <3>2
    <3> QED
      BY <1>4, <3>1, <3>2
  <2> QED
    BY <1>4, <2>1 DEF GoodHist
<1> QED
  BY <1>4, <1>5, <1>6 DEF g

-----------------------------------------------------------------------------
(***************************************************************************)
(* What becomes of an activity.                                            *)
(***************************************************************************)

Leaves(r) ==
    CASE r = "regd" -> {"Initialized", "FilesCompleted", "FilesFailed",
                        "TarttFailed", "GcCompleted", "Completed", "Failed"}
      [] r = "stad" -> {"Files", "TarttCompleted", "SwapStarted", "FilesEnded"}
      [] r = "rstd" -> {"Tartt"}

\* An activity that starts over: doRetry(), or a restart.
Over(k) == [pos |-> 0, at |-> 0, todo |-> <<>>, n |-> k]

\* An activity that starts over is in a good state, whatever the workflow.
LEMMA GoodOver ==
    ASSUME NEW w, NEW r \in Roles, NEW h, NEW i, NEW k \in Nat, Len(h) \in Nat
    PROVE  GoodAct(r, w, Over(k), h, i)
<1>1. Fits(r, w, <<>>, 0, 0, CodeOf(h), Len(h))
  BY DEF Fits, RegdFits, StadFits, RstdFits, Roles
<1>2. /\ Over(k).pos = 0 /\ Over(k).at = 0 /\ Over(k).todo = <<>>
      /\ Over(k).n = k
      /\ Over(k) = [pos |-> 0, at |-> 0, todo |-> <<>>, n |-> k]
  BY DEF Over
<1> QED
  BY <1>1, <1>2 DEF GoodAct

\* An activity that goes on with other steps, or quits.
LEMMA GoodThen ==
    ASSUME NEW w, NEW r \in Roles, NEW h, NEW i, NEW a, NEW t,
           GoodAct(r, w, a, h, i), a.todo # <<>>, Len(h) \in Nat,
           Fits(r, w, t, a.pos, a.at, CodeOf(h), Len(h))
    PROVE  GoodAct(r, w, Then(a, t), h, i)
<1>1. CASE t = Quit
  <2>1. Then(a, t) = [pos |-> 0, at |-> 0, todo |-> Quit, n |-> 0]
    BY <1>1 DEF Then, Idle, Quit
  <2>2. Fits(r, w, Quit, 0, 0, CodeOf(h), Len(h))
    BY DEF Fits, RegdFits, StadFits, RstdFits, Roles
  <2> QED
    BY <2>1, <2>2 DEF GoodAct
<1>2. CASE t = <<>>
  <2>1. Then(a, t) = [pos |-> a.pos, at |-> 0, todo |-> <<>>, n |-> a.n]
    BY <1>2 DEF Then, Quit, GoodAct
  <2>2. Fits(r, w, <<>>, a.pos, 0, CodeOf(h), Len(h))
    BY DEF Fits, RegdFits, StadFits, RstdFits, Roles
  <2> QED
    BY <2>1, <2>2 DEF GoodAct
<1>3. CASE t # Quit /\ t # <<>>
  <2>1. Then(a, t) = [pos |-> a.pos, at |-> a.at, todo |-> t, n |-> a.n]
    BY <1>3 DEF Then, GoodAct
  <2> QED
    BY <2>1 DEF GoodAct
<1> QED
  BY <1>1, <1>2, <1>3

\* The activities that do not leave a state pass over it.
LEMMA OthersPassOver ==
    ASSUME NEW w \in Workflows, NEW r \in Roles, NEW x \in Roles, x # r,
           NEW c \in Leaves(x)
    PROVE  StepsAt(r, w, c) \subseteq Harmless(r, w)
<1>1. CASE r = "regd"
  BY <1>1 DEF StepsAt, RegdSteps, Harmless, Leaves, Roles
<1>2. CASE r = "stad"
  BY <1>2 DEF StepsAt, StadSteps, Harmless, Leaves, Roles
<1>3. CASE r = "rstd"
  BY <1>3 DEF StepsAt, RstdSteps, Harmless, Leaves, Roles
<1> QED
  BY <1>1, <1>2, <1>3 DEF Roles

\* What an activity has ahead fits only states that it leaves.
LEMMA FitsOnlyOwn ==
    ASSUME NEW w \in Workflows, NEW r \in Roles, NEW x \in Roles, x # r,
           NEW c \in Leaves(x), NEW d, NEW t, NEW pos, NEW at, NEW n \in Nat,
           at \in 0 .. n,
           Fits(r, w, t, pos, at, c, n)
    PROVE  Fits(r, w, t, pos, at, d, n + 1)
<1>1. CASE r = "regd"
  <2>1. t \in {<<>>, Quit}
    BY <1>1 DEF Fits, RegdFits, RegdTodo, Leaves, Roles
  <2> QED
    BY <1>1, <2>1 DEF Fits, RegdFits
<1>2. CASE r = "stad"
  <2>1. t \in {<<>>, Quit} \/ Prepares(w, t)
    BY <1>2 DEF Fits, StadFits, StadTodo, Leaves, Roles
  <2> QED
    BY <1>2, <2>1 DEF Fits, StadFits
<1>3. CASE r = "rstd"
  <2>1. t \in {<<>>, Quit}
    BY <1>3 DEF Fits, RstdFits, RstdTodo, Leaves, Roles
  <2> QED
    BY <1>3, <2>1 DEF Fits, RstdFits
<1> QED
  BY <1>1, <1>2, <1>3 DEF Roles

\* History `g' is one event longer than `h'.
OneMore(w, h, g) ==
    /\ GoodHist(w, h) /\ GoodHist(w, g)
    /\ Len(h) \in Nat /\ Len(g) = Len(h) + 1 /\ g # <<>>
    /\ \A i \in 1 .. Len(h) : g[i] = h[i]

\* Without new events unless they are harmless, an activity remains good.
LEMMA PassedOver ==
    ASSUME NEW w, NEW r \in RolesOf(w), NEW h, NEW g, OneMore(w, h, g),
           h # <<>> => StepsAt(r, w, CodeOf(h)) \subseteq Harmless(r, w),
           NEW pos \in 1 .. Len(h),
           \A q \in pos + 1 .. Len(h) - 1 :
               Steps(r, w, h[q].view[r]) \in Harmless(r, w)
    PROVE  \A q \in pos + 1 .. Len(g) - 1 :
               Steps(r, w, g[q].view[r]) \in Harmless(r, w)
<1> SUFFICES ASSUME NEW q \in pos + 1 .. Len(g) - 1
             PROVE  Steps(r, w, g[q].view[r]) \in Harmless(r, w)
  OBVIOUS
<1>1. q \in 1 .. Len(h) /\ g[q] = h[q] /\ Len(h) > 0
  BY DEF OneMore
<1>2. CASE q \in pos + 1 .. Len(h) - 1
  BY <1>1, <1>2
<1>3. CASE q = Len(h)
  <2>1. h # <<>>
    BY <1>1
  <2>2. Steps(r, w, h[q].view[r]) \in StepsAt(r, w, Scode(h[q].st))
    BY <1>1 DEF OneMore, GoodHist
  <2>3. Scode(h[q].st) = CodeOf(h)
    BY <1>3, <2>1 DEF CodeOf, StateOf
  <2> QED
    BY <1>1, <2>1, <2>2, <2>3
<1> QED
  BY <1>1, <1>2, <1>3 DEF OneMore

\* The event of another activity.
LEMMA GoodOther ==
    ASSUME NEW w \in Workflows, NEW r \in Roles, NEW x \in Roles, x # r,
           NEW h, NEW g, NEW i, NEW a,
           OneMore(w, h, g), CodeOf(h) \in Leaves(x), GoodAct(r, w, a, h, i)
    PROVE  GoodAct(r, w, a, g, i)
<1>1. Fits(r, w, a.todo, a.pos, a.at, CodeOf(g), Len(g))
  BY FitsOnlyOwn DEF GoodAct, OneMore
<1>2. ASSUME r \in RolesOf(w), a.pos > 0
      PROVE  \A q \in a.pos + 1 .. Len(g) - 1 :
                 Steps(r, w, g[q].view[r]) \in Harmless(r, w)
  <2>1. a.pos \in 1 .. Len(h)
    BY <1>2 DEF GoodAct, OneMore
  <2>2. \A q \in a.pos + 1 .. Len(h) - 1 :
            Steps(r, w, h[q].view[r]) \in Harmless(r, w)
    BY <1>2 DEF GoodAct
  <2>3. StepsAt(r, w, CodeOf(h)) \subseteq Harmless(r, w)
    BY OthersPassOver
  <2> QED
    BY <1>2, <2>1, <2>2, <2>3, PassedOver
<1>3. a.pos \in 0 .. Len(g) /\ a.at \in 0 .. Len(g)
  BY DEF GoodAct, OneMore
<1>4. g # <<>>
  BY DEF OneMore
<1> QED
  BY <1>1, <1>2, <1>3, <1>4 DEF GoodAct

\* The event of the activity itself: it has then seen all events, also if it
\* has yet to process the last one.
LEMMA GoodSelf ==
    ASSUME NEW w \in Workflows, NEW r \in RolesOf(w), NEW h, NEW g, NEW i,
           NEW a, NEW t,
           OneMore(w, h, g), GoodAct(r, w, a, h, i), a.todo # <<>>,
           a.pos = Len(h) \/ StepsAt(r, w, CodeOf(h)) \subseteq Harmless(r, w),
           Fits(r, w, t, a.pos, Len(g), CodeOf(g), Len(g))
    PROVE  GoodAct(r, w, Then([a EXCEPT !.at = Len(g)], t), g, i)
<1> DEFINE b == [pos |-> a.pos, at |-> Len(g), todo |-> a.todo, n |-> a.n]
<1>0. r \in Roles
  BY DEF RolesOf, Roles
<1>1. [a EXCEPT !.at = Len(g)] = b
  BY DEF GoodAct
<1>2. ASSUME a.pos > 0
      PROVE  \A q \in a.pos + 1 .. Len(g) - 1 :
                 Steps(r, w, g[q].view[r]) \in Harmless(r, w)
  <2>1. a.pos \in 1 .. Len(h)
    BY <1>2 DEF GoodAct, OneMore
  <2>2. \A q \in a.pos + 1 .. Len(h) - 1 :
            Steps(r, w, h[q].view[r]) \in Harmless(r, w)
    BY <1>2 DEF GoodAct
  <2>3. CASE a.pos = Len(h)
    BY <2>1, <2>3 DEF OneMore
  <2>4. CASE StepsAt(r, w, CodeOf(h)) \subseteq Harmless(r, w)
    BY <1>2, <2>1, <2>2, <2>4, PassedOver
  <2> QED
    BY <2>3, <2>4
<1>3. /\ a.pos \in 0 .. Len(g) /\ Len(g) \in 0 .. Len(g) /\ Len(g) \in Nat
      /\ a.n \in Nat /\ i \in {"active", "completed"} /\ g # <<>>
  BY DEF GoodAct, OneMore
<1>4. CASE t = Quit
  <2>1. Then(b, t) = [pos |-> 0, at |-> 0, todo |-> Quit, n |-> 0]
    BY <1>4 DEF Then, Idle, Quit
  <2>2. Fits(r, w, Quit, 0, 0, CodeOf(g), Len(g))
    BY <1>0 DEF Fits, RegdFits, StadFits, RstdFits, Roles
  <2> QED
    BY <1>1, <1>3, <2>1, <2>2 DEF GoodAct
<1>5. CASE t = <<>>
  <2>1. Then(b, t) = [pos |-> a.pos, at |-> 0, todo |-> <<>>, n |-> a.n]
    BY <1>5 DEF Then, Quit
  <2>2. Fits(r, w, <<>>, a.pos, 0, CodeOf(g), Len(g))
    BY <1>0 DEF Fits, RegdFits, StadFits, RstdFits, Roles
  <2> QED
    BY <1>1, <1>2, <1>3, <2>1, <2>2 DEF GoodAct
<1>6. CASE t # Quit /\ t # <<>>
  <2>1. Then(b, t) = [pos |-> a.pos, at |-> Len(g), todo |-> t, n |-> a.n]
    BY <1>6 DEF Then
  <2> QED
    BY <1>1, <1>2, <1>3, <2>1 DEF GoodAct
<1> QED
  BY <1>4, <1>5, <1>6

-----------------------------------------------------------------------------
(***************************************************************************)
(* Steps of an activity, with and without an event.                        *)
(***************************************************************************)

\* An activity of a workflow changes, and nothing else of the workflows.
LEMMA FlowMove ==
    ASSUME FlowInv, NEW w \in Workflows, NEW r \in Roles, NEW x,
           act' = [act EXCEPT ![r][w] = x], UNCHANGED <<hist, index>>,
           GoodAct(r, w, x, hist[w], index[w])
    PROVE  FlowInv'
<1>1. act' = [y \in Roles |-> [v \in Workflows |->
                IF y = r /\ v = w THEN x ELSE act[y][v]]]
  BY DEF FlowInv
<1>2. \A y \in Roles : \A v \in Workflows :
          act'[y][v] = IF y = r /\ v = w THEN x ELSE act[y][v]
  BY <1>1
<1>3. act' = [y \in Roles |-> [v \in Workflows |-> act'[y][v]]]
  BY <1>1
<1>4. ASSUME NEW v \in Workflows
      PROVE  /\ GoodHist(v, hist[v])
             /\ GoodIndex(hist[v], index[v])
             /\ \A y \in Roles : GoodAct(y, v, act'[y][v], hist[v], index[v])
  BY <1>2 DEF FlowInv
<1>5. /\ hist = [v \in Workflows |-> hist[v]]
      /\ index = [v \in Workflows |-> index[v]]
  BY DEF FlowInv
<1> QED
  BY <1>3, <1>4, <1>5 DEF FlowInv

\* What an activity has ahead when it waits, or has quit.
Resting == {<<>>, Quit}

\* What the steps do to an activity that has `t' ahead unless it is retried.
Moved(r, w, x, t) ==
    /\ act' = [act EXCEPT ![r][w] = x]
    /\ x.todo = <<>> \/ x.todo = t
    /\ x.pos \in {0, act[r][w].pos}
    /\ \/ x.todo \in Resting
       \/ x.at = act[r][w].at /\ x.pos = act[r][w].pos
    /\ GoodAct(r, w, x, hist[w], index[w])

MovesTo(r, w, t) == \E x : Moved(r, w, x, t)

\* What Then changes: the steps ahead, and the position only at the end.
LEMMA ThenFields ==
    ASSUME NEW a, NEW t,
           a = [pos |-> a.pos, at |-> a.at, todo |-> a.todo, n |-> a.n]
    PROVE  /\ Then(a, t).todo = t
           /\ Then(a, t).pos \in {0, a.pos}
           /\ \/ t \in Resting
              \/ Then(a, t).at = a.at /\ Then(a, t).pos = a.pos
<1>1. CASE t = Quit
  <2>1. Then(a, t) = [pos |-> 0, at |-> 0, todo |-> Quit, n |-> 0]
    BY <1>1 DEF Then, Idle, Quit
  <2> QED
    BY <1>1, <2>1 DEF Resting
<1>2. CASE t = <<>>
  <2>1. Then(a, t) = [pos |-> a.pos, at |-> 0, todo |-> <<>>, n |-> a.n]
    BY <1>2 DEF Then, Quit
  <2> QED
    BY <1>2, <2>1 DEF Resting
<1>3. CASE t # Quit /\ t # <<>>
  <2>1. Then(a, t) = [pos |-> a.pos, at |-> a.at, todo |-> t, n |-> a.n]
    BY <1>3 DEF Then
  <2> QED
    BY <2>1
<1> QED
  BY <1>1, <1>2, <1>3

\* An activity that goes on, with or without a new count of retries.
LEMMA MovedThen ==
    ASSUME FlowInv, NEW w \in Workflows, NEW r \in Roles, NEW t, NEW k \in Nat,
           act[r][w].todo # <<>>,
           Fits(r, w, t, act[r][w].pos, act[r][w].at, CodeOf(hist[w]),
                Len(hist[w])),
           act' = [act EXCEPT ![r][w] = Then([act[r][w] EXCEPT !.n = k], t)]
    PROVE  MovesTo(r, w, t)
<1> DEFINE a == act[r][w]
           b == [pos |-> a.pos, at |-> a.at, todo |-> a.todo, n |-> k]
<1>0. Len(hist[w]) \in Nat
  BY DEF FlowInv, GoodHist
<1>1. GoodAct(r, w, a, hist[w], index[w])
  BY DEF FlowInv
<1>2. [a EXCEPT !.n = k] = b
  BY <1>1 DEF GoodAct
<1>3. GoodAct(r, w, b, hist[w], index[w])
  BY <1>1 DEF GoodAct
<1>4. GoodAct(r, w, Then(b, t), hist[w], index[w])
  BY <1>0, <1>1, <1>3, GoodThen
<1>5. /\ Then(b, t).todo = t
      /\ Then(b, t).pos \in {0, b.pos}
      /\ \/ t \in Resting
         \/ Then(b, t).at = b.at /\ Then(b, t).pos = b.pos
  BY ThenFields
<1>6. Moved(r, w, Then(b, t), t)
  <2> DEFINE x == Then(b, t)
  <2>1. act' = [act EXCEPT ![r][w] = x]
    BY <1>2
  <2>2. /\ x.todo = t
        /\ x.pos \in {0, act[r][w].pos}
        /\ \/ t \in Resting
           \/ x.at = act[r][w].at /\ x.pos = act[r][w].pos
    BY <1>5
  <2> HIDE DEF x
  <2> QED
    BY <1>4, <2>1, <2>2 DEF Moved, x
<1> QED
  BY <1>6 DEF MovesTo

\* An activity that starts over.
LEMMA MovedOver ==
    ASSUME FlowInv, NEW w \in Workflows, NEW r \in Roles, NEW t, NEW k \in Nat,
           act' = [act EXCEPT ![r][w] = Over(k)]
    PROVE  MovesTo(r, w, t)
<1>1. Len(hist[w]) \in Nat
  BY DEF FlowInv, GoodHist
<1>2. GoodAct(r, w, Over(k), hist[w], index[w])
  BY <1>1, GoodOver
<1>3. Over(k).todo = <<>> /\ Over(k).pos = 0
  BY DEF Over
<1> DEFINE x == Over(k)
<1> HIDE DEF x
<1>4. Moved(r, w, x, t)
  <2>1. x.todo \in Resting
    BY <1>3 DEF Resting, x
  <2> QED
    BY <1>2, <1>3, <2>1 DEF Moved, x
<1> QED
  BY <1>4 DEF MovesTo

\* A record of an activity with three fields replaced.
LEMMA ThreeFields ==
    ASSUME NEW a, NEW e,
           a = [pos |-> a.pos, at |-> a.at, todo |-> a.todo, n |-> a.n]
    PROVE  [[[a EXCEPT !.todo = e] EXCEPT !.pos = 0] EXCEPT !.at = 0]
             = [pos |-> 0, at |-> 0, todo |-> e, n |-> a.n]
<1>1. [a EXCEPT !.todo = e]
        = [pos |-> a.pos, at |-> a.at, todo |-> e, n |-> a.n]
  OBVIOUS
<1>2. [[pos |-> a.pos, at |-> a.at, todo |-> e, n |-> a.n] EXCEPT !.pos = 0]
        = [pos |-> 0, at |-> a.at, todo |-> e, n |-> a.n]
  OBVIOUS
<1>3. [[pos |-> 0, at |-> a.at, todo |-> e, n |-> a.n] EXCEPT !.at = 0]
        = [pos |-> 0, at |-> 0, todo |-> e, n |-> a.n]
  OBVIOUS
<1> QED
  BY <1>1, <1>2, <1>3

\* A retry starts the activity over.
LEMMA RetryIs ==
    ASSUME FlowInv, NEW w \in Workflows, NEW r \in Roles, Retry(r, w)
    PROVE  /\ act[r][w].n \in Nat
           /\ act' = [act EXCEPT ![r][w] = Over(act[r][w].n)]
<1> DEFINE a == act[r][w]
<1>1. /\ a = [pos |-> a.pos, at |-> a.at, todo |-> a.todo, n |-> a.n]
      /\ a.n \in Nat
  BY DEF FlowInv, GoodAct
<1>2. act = [y \in Roles |-> [v \in Workflows |-> act[y][v]]]
  BY DEF FlowInv
<1>3. act' = [act EXCEPT ![r][w] = [[[@ EXCEPT !.todo = <<>>] EXCEPT !.pos = 0]
                                      EXCEPT !.at = 0]]
  BY <1>2 DEF Retry
<1>4. [[[a EXCEPT !.todo = <<>>] EXCEPT !.pos = 0] EXCEPT !.at = 0] = Over(a.n)
  BY <1>1, ThreeFields DEF Over
<1> QED
  BY <1>1, <1>3, <1>4

\* The steps by which an activity goes on to `t', or starts over.
LEMMA Moves ==
    ASSUME FlowInv, NEW w \in Workflows, NEW r \in Roles, NEW t,
           act[r][w].todo # <<>>,
           Fits(r, w, t, act[r][w].pos, act[r][w].at, CodeOf(hist[w]),
                Len(hist[w])),
           \/ Retry(r, w)
           \/ Todo(r, w, t)
           \/ t = Tail(act[r][w].todo)
                /\ (Done(r, w) \/ Next1(r, w) \/ Succeeded(r, w))
    PROVE  MovesTo(r, w, t)
<1> DEFINE a == act[r][w]
<1>1. /\ a = [pos |-> a.pos, at |-> a.at, todo |-> a.todo, n |-> a.n]
      /\ a.n \in Nat
  BY DEF FlowInv, GoodAct
<1>2. act = [y \in Roles |-> [v \in Workflows |-> act[y][v]]]
  BY DEF FlowInv
<1>3. CASE Retry(r, w)
  BY <1>3, RetryIs, MovedOver
<1>4. CASE act' = [act EXCEPT ![r][w] = Then(@, t)]
  <2>1. [a EXCEPT !.n = a.n] = a
    BY <1>1
  <2>2. act' = [act EXCEPT ![r][w] = Then([a EXCEPT !.n = a.n], t)]
    BY <1>2, <1>4, <2>1
  <2> QED
    BY <1>1, <2>2, MovedThen
<1>5. CASE t = Tail(a.todo) /\ Succeeded(r, w)
  <2>1. act' = [act EXCEPT ![r][w] = Then([a EXCEPT !.n = 0], t)]
    BY <1>2, <1>5 DEF Succeeded
  <2> QED
    BY <2>1, MovedThen
<1>6. CASE t = Tail(a.todo) /\ Next1(r, w)
  BY <1>4, <1>6 DEF Next1, Todo
<1>7. CASE t = Tail(a.todo) /\ Done(r, w)
  <2>1. CASE act' = [act EXCEPT ![r][w] = Then(@, Tail(@.todo))]
    BY <1>2, <1>4, <1>7, <2>1
  <2> QED
    BY <1>3, <1>7, <2>1 DEF Done
<1> QED
  BY <1>3, <1>4, <1>5, <1>6, <1>7 DEF Todo

\* What follows from a move for the invariant.
LEMMA MovesKeep ==
    ASSUME FlowInv, NEW w \in Workflows, NEW r \in Roles, NEW t,
           MovesTo(r, w, t), UNCHANGED <<hist, index>>
    PROVE  FlowInv'
<1>1. PICK x : Moved(r, w, x, t)
  BY DEF MovesTo
<1> QED
  BY <1>1, FlowMove DEF Moved

-----------------------------------------------------------------------------
(***************************************************************************)
(* The step that comes next tells what an activity has ahead and in which  *)
(* state the workflow is.                                                  *)
(***************************************************************************)

\* The state codes in which nogfsoregd aborts the workflow.
Aborts(w, c) ==
    \/ c = "Initialized"
    \/ Short(w) /\ c = "FilesFailed"
    \/ Long(w) /\ c = "GcCompleted"

\* The steps of nogfsoregd that come next.
LEMMA RegdHeads ==
    ASSUME NEW w \in Workflows, NEW t, NEW pos, NEW at, NEW c, NEW n \in Nat,
           RegdFits(w, t, pos, c, n), t # <<>>
    PROVE  /\ Head(t) = "RegistryBegin" =>
                  t = B1 /\ c = "Initialized" /\ pos = n
           /\ Head(t) = "ReposBegin" =>
                  t = B2 /\ c = "Initialized" /\ pos = n
           /\ Head(t) = "BeginFiles" =>
                  t = B3 /\ c = "Initialized" /\ pos = n
           /\ Head(t) = "ReposCommit" =>
                  /\ \/ t = C1 /\ Short(w)
                     \/ t = F1 /\ Long(w)
                  /\ c = "FilesCompleted" /\ pos = n
           /\ Head(t) = "RegistryCommit" =>
                  /\ \/ t = C2 /\ Short(w)
                     \/ t = F2 /\ Long(w)
                  /\ c = "FilesCompleted" /\ pos = n
           /\ Head(t) = "Commit" =>
                  /\ t = C3 /\ pos = n
                  /\ \/ Short(w) /\ c = "FilesCompleted"
                     \/ Long(w) /\ c = "GcCompleted"
           /\ Head(t) = "EndFiles" =>
                  /\ t = F3 /\ pos = n /\ Long(w)
                  /\ c \in {"FilesCompleted", "FilesFailed", "TarttFailed"}
           /\ Head(t) = "ReposAbort" =>
                  /\ \/ t = A1 /\ Aborts(w, c)
                     \/ t = G1 /\ Long(w) /\ c \in {"FilesFailed", "TarttFailed"}
                  /\ pos = n
           /\ Head(t) = "RegistryAbort" =>
                  /\ \/ t = A2 /\ Aborts(w, c)
                     \/ t = G2 /\ Long(w) /\ c \in {"FilesFailed", "TarttFailed"}
                  /\ pos = n
           /\ Head(t) = "Abort" =>
                  /\ t = A3 /\ pos = n
                  /\ Aborts(w, c)
           /\ Head(t) = "IndexCommit" =>
                  t = E1 /\ c \in {"Completed", "Failed"}
           /\ Head(t) = "End" =>
                  t = E2 /\ c \in {"Completed", "Failed"}
<1> USE DEF RegdFits, RegdTodo, Aborts, B1, B2, B3, C1, C2, C3, A1, A2, A3,
     E1, E2, F1, F2, F3, G1, G2, Quit
<1>1. Head(t) = "RegistryBegin" =>
          t = B1 /\ c = "Initialized" /\ pos = n
  BY OpCases
<1>2. Head(t) = "ReposBegin" =>
          t = B2 /\ c = "Initialized" /\ pos = n
  BY OpCases
<1>3. Head(t) = "BeginFiles" =>
          t = B3 /\ c = "Initialized" /\ pos = n
  BY OpCases
<1>4. Head(t) = "ReposCommit" =>
          /\ \/ t = C1 /\ Short(w)
             \/ t = F1 /\ Long(w)
          /\ c = "FilesCompleted" /\ pos = n
  BY OpCases
<1>5. Head(t) = "RegistryCommit" =>
          /\ \/ t = C2 /\ Short(w)
             \/ t = F2 /\ Long(w)
          /\ c = "FilesCompleted" /\ pos = n
  BY OpCases
<1>6. Head(t) = "Commit" =>
          /\ t = C3 /\ pos = n
          /\ \/ Short(w) /\ c = "FilesCompleted"
             \/ Long(w) /\ c = "GcCompleted"
  BY OpCases
<1>7. Head(t) = "EndFiles" =>
          /\ t = F3 /\ pos = n /\ Long(w)
          /\ c \in {"FilesCompleted", "FilesFailed", "TarttFailed"}
  BY OpCases
<1>8. Head(t) = "ReposAbort" =>
          /\ \/ t = A1 /\ Aborts(w, c)
             \/ t = G1 /\ Long(w) /\ c \in {"FilesFailed", "TarttFailed"}
          /\ pos = n
  BY OpCases
<1>9. Head(t) = "RegistryAbort" =>
          /\ \/ t = A2 /\ Aborts(w, c)
             \/ t = G2 /\ Long(w) /\ c \in {"FilesFailed", "TarttFailed"}
          /\ pos = n
  BY OpCases
<1>10. Head(t) = "Abort" =>
          /\ t = A3 /\ pos = n
          /\ Aborts(w, c)
  BY OpCases
<1>11. Head(t) = "IndexCommit" =>
          t = E1 /\ c \in {"Completed", "Failed"}
  BY OpCases
<1>12. Head(t) = "End" =>
          t = E2 /\ c \in {"Completed", "Failed"}
  BY OpCases
<1> HIDE DEF RegdFits, RegdTodo, Aborts, B1, B2, B3, C1, C2, C3, A1, A2, A3,
     E1, E2, F1, F2, F3, G1, G2, Quit
<1> QED
  BY <1>1, <1>2, <1>3, <1>4, <1>5, <1>6, <1>7, <1>8, <1>9, <1>10, <1>11,
     <1>12

\* The steps of nogfsostad that come next.
LEMMA StadHeads ==
    ASSUME NEW w \in Workflows, NEW t, NEW pos, NEW at, NEW c, NEW n \in Nat,
           StadFits(w, t, pos, at, c, n), t # <<>>
    PROVE  /\ Head(t) = "ChattrBegin" =>
                  t = H1 /\ Short(w) /\ c = "Files" /\ pos = n
           /\ Head(t) = "ChattrEnd" =>
                  t = H2 /\ Short(w) /\ c = "Files" /\ pos = n
           /\ Head(t) = "PollTartt" =>
                  t = P1 /\ OpOf[w] = "archive" /\ c = "Files" /\ pos = n
           /\ Head(t) = "CommitTartt" =>
                  t = P2 /\ OpOf[w] = "archive" /\ c = "Files" /\ pos = n
           /\ Head(t) = "MakePlaceholder" =>
                  /\ t = P3 /\ OpOf[w] = "archive"
                  /\ \/ at < n
                     \/ at = n /\ c = "TarttCompleted"
           /\ Head(t) = "BeginSwap" =>
                  /\ t = P4 /\ OpOf[w] = "archive"
                  /\ \/ at < n
                     \/ at = n /\ c = "TarttCompleted"
           /\ Head(t) = "SwapOut" =>
                  /\ pos = n
                  /\ \/ t = S1 /\ OpOf[w] = "archive" /\ c = "SwapStarted"
                     \/ t = V2 /\ OpOf[w] = "unarchive" /\ c = "TarttCompleted"
           /\ Head(t) = "SwapIn" =>
                  /\ pos = n
                  /\ \/ t = S2 /\ OpOf[w] = "archive" /\ c = "SwapStarted"
                     \/ t = V3 /\ OpOf[w] = "unarchive" /\ c = "TarttCompleted"
           /\ Head(t) = "ShadowArchive" =>
                  t = S3 /\ OpOf[w] = "archive" /\ c = "SwapStarted" /\ pos = n
           /\ Head(t) = "MakeRestore" =>
                  t = U1 /\ OpOf[w] = "unarchive" /\ c = "Files" /\ pos = n
           /\ Head(t) = "BeginTartt" =>
                  t = U2 /\ OpOf[w] = "unarchive" /\ c = "Files" /\ pos = n
           /\ Head(t) = "SetfaclChattr" =>
                  t = V1 /\ OpOf[w] = "unarchive" /\ c = "TarttCompleted" /\ pos = n
           /\ Head(t) = "CommitFiles" =>
                  /\ pos = n
                  /\ \/ t = H3 /\ Short(w) /\ c = "Files"
                     \/ t = S4 /\ OpOf[w] = "archive" /\ c = "SwapStarted"
                     \/ t = S4 /\ OpOf[w] = "unarchive" /\ c = "TarttCompleted"
           /\ Head(t) = "AbortFiles" =>
                  /\ \/ t = H4 /\ Short(w) /\ c = "Files" /\ pos = n
                     \/ t = S5 /\ OpOf[w] = "archive" /\ c = "SwapStarted" /\ pos = n
                     \/ t = S5 /\ OpOf[w] = "archive" /\ c = "TarttCompleted" /\ at = n
                     \/ t = S5 /\ OpOf[w] = "archive" /\ at < n
                     \/ t = S5 /\ OpOf[w] = "unarchive" /\ pos = n /\ c \in {"Files", "TarttCompleted"}
           /\ Head(t) = "RemoveWorkingDir" =>
                  t = Z1 /\ Long(w) /\ c = "FilesEnded" /\ pos = n
           /\ Head(t) = "CommitGc" =>
                  t = Z2 /\ Long(w) /\ c = "FilesEnded" /\ pos = n
<1> USE DEF StadFits, StadTodo, Prepares, H1, H2, H3, H4, P1, P2,
     P3, P4, S1, S2, S3, S4, S5, U1, U2, V1, V2, V3, Z1, Z2, Quit
<1>1. Head(t) = "ChattrBegin" =>
          t = H1 /\ Short(w) /\ c = "Files" /\ pos = n
  BY OpCases
<1>2. Head(t) = "ChattrEnd" =>
          t = H2 /\ Short(w) /\ c = "Files" /\ pos = n
  BY OpCases
<1>3. Head(t) = "PollTartt" =>
          t = P1 /\ OpOf[w] = "archive" /\ c = "Files" /\ pos = n
  BY OpCases
<1>4. Head(t) = "CommitTartt" =>
          t = P2 /\ OpOf[w] = "archive" /\ c = "Files" /\ pos = n
  BY OpCases
<1>5. Head(t) = "MakePlaceholder" =>
          /\ t = P3 /\ OpOf[w] = "archive"
          /\ \/ at < n
             \/ at = n /\ c = "TarttCompleted"
  BY OpCases
<1>6. Head(t) = "BeginSwap" =>
          /\ t = P4 /\ OpOf[w] = "archive"
          /\ \/ at < n
             \/ at = n /\ c = "TarttCompleted"
  BY OpCases
<1>7. Head(t) = "SwapOut" =>
          /\ pos = n
          /\ \/ t = S1 /\ OpOf[w] = "archive" /\ c = "SwapStarted"
             \/ t = V2 /\ OpOf[w] = "unarchive" /\ c = "TarttCompleted"
  BY OpCases
<1>8. Head(t) = "SwapIn" =>
          /\ pos = n
          /\ \/ t = S2 /\ OpOf[w] = "archive" /\ c = "SwapStarted"
             \/ t = V3 /\ OpOf[w] = "unarchive" /\ c = "TarttCompleted"
  BY OpCases
<1>9. Head(t) = "ShadowArchive" =>
          t = S3 /\ OpOf[w] = "archive" /\ c = "SwapStarted" /\ pos = n
  BY OpCases
<1>10. Head(t) = "MakeRestore" =>
          t = U1 /\ OpOf[w] = "unarchive" /\ c = "Files" /\ pos = n
  BY OpCases
<1>11. Head(t) = "BeginTartt" =>
          t = U2 /\ OpOf[w] = "unarchive" /\ c = "Files" /\ pos = n
  BY OpCases
<1>12. Head(t) = "SetfaclChattr" =>
          t = V1 /\ OpOf[w] = "unarchive" /\ c = "TarttCompleted" /\ pos = n
  BY OpCases
<1>13. Head(t) = "CommitFiles" =>
          /\ pos = n
          /\ \/ t = H3 /\ Short(w) /\ c = "Files"
             \/ t = S4 /\ OpOf[w] = "archive" /\ c = "SwapStarted"
             \/ t = S4 /\ OpOf[w] = "unarchive" /\ c = "TarttCompleted"
  BY OpCases
<1>14. Head(t) = "AbortFiles" =>
          /\ \/ t = H4 /\ Short(w) /\ c = "Files" /\ pos = n
             \/ t = S5 /\ OpOf[w] = "archive" /\ c = "SwapStarted" /\ pos = n
             \/ t = S5 /\ OpOf[w] = "archive" /\ c = "TarttCompleted" /\ at = n
             \/ t = S5 /\ OpOf[w] = "archive" /\ at < n
             \/ t = S5 /\ OpOf[w] = "unarchive" /\ pos = n /\ c \in {"Files", "TarttCompleted"}
  BY OpCases
<1>15. Head(t) = "RemoveWorkingDir" =>
          t = Z1 /\ Long(w) /\ c = "FilesEnded" /\ pos = n
  BY OpCases
<1>16. Head(t) = "CommitGc" =>
          t = Z2 /\ Long(w) /\ c = "FilesEnded" /\ pos = n
  BY OpCases
<1> HIDE DEF StadFits, StadTodo, Prepares, H1, H2, H3, H4, P1, P2,
     P3, P4, S1, S2, S3, S4, S5, U1, U2, V1, V2, V3, Z1, Z2, Quit
<1> QED
  BY <1>1, <1>2, <1>3, <1>4, <1>5, <1>6, <1>7, <1>8, <1>9, <1>10, <1>11,
     <1>12, <1>13, <1>14, <1>15, <1>16

\* The steps of nogfsorstd that come next.
LEMMA RstdHeads ==
    ASSUME NEW w \in Workflows, NEW t, NEW pos, NEW at, NEW c, NEW n \in Nat,
           RstdFits(w, t, pos, c, n), t # <<>>
    PROVE  /\ Head(t) = "TarttRestore" =>
                  t = R1 /\ OpOf[w] = "unarchive" /\ c = "Tartt" /\ pos = n
           /\ Head(t) = "CommitTartt" =>
                  t = R2 /\ OpOf[w] = "unarchive" /\ c = "Tartt" /\ pos = n
           /\ Head(t) = "AbortTartt" =>
                  t = R3 /\ OpOf[w] = "unarchive" /\ c = "Tartt" /\ pos = n
<1> USE DEF RstdFits, RstdTodo, R1, R2, R3, Quit
<1>1. Head(t) = "TarttRestore" =>
          t = R1 /\ OpOf[w] = "unarchive" /\ c = "Tartt" /\ pos = n
  OBVIOUS
<1>2. Head(t) = "CommitTartt" =>
          t = R2 /\ OpOf[w] = "unarchive" /\ c = "Tartt" /\ pos = n
  OBVIOUS
<1>3. Head(t) = "AbortTartt" =>
          t = R3 /\ OpOf[w] = "unarchive" /\ c = "Tartt" /\ pos = n
  OBVIOUS
<1> HIDE DEF RstdFits, RstdTodo, R1, R2, R3, Quit
<1> QED
  BY <1>1, <1>2, <1>3

-----------------------------------------------------------------------------
(***************************************************************************)
(* Commands to the workflow.                                               *)
(***************************************************************************)

\* Command `cmd' has posted its event.
Posted(w, cmd) ==
    /\ OneMore(w, hist[w], hist'[w])
    /\ StateOf(hist'[w]) = Advance(w, StateOf(hist[w]), Tell(w, cmd).ev)
    /\ hist' = [v \in Workflows |-> IF v = w THEN hist'[w] ELSE hist[v]]

\* A command that is told leaves its event as the last of the history.
LEMMA PostFacts ==
    ASSUME FlowInv, NEW w \in Workflows, NEW cmd, NEW to,
           Leads(w, StateOf(hist[w]), cmd, to),
           Post(w, Tell(w, cmd).ev)
    PROVE  Posted(w, cmd) /\ CodeOf(hist'[w]) = to
<1> DEFINE ev == Tell(w, cmd).ev
           h == hist[w]
<1>1. hist' = [hist EXCEPT ![w] = Longer(w, h, ev)]
  BY PostIs
<1>2. hist' = [v \in Workflows |->
                 IF v = w THEN Longer(w, h, ev) ELSE hist[v]]
  BY <1>1 DEF FlowInv
<1>3. hist'[w] = Longer(w, h, ev)
  BY <1>2
<1>4. hist' = [v \in Workflows |-> IF v = w THEN hist'[w] ELSE hist[v]]
  BY <1>2, <1>3
<1>5. ev[1] \in EventTypes(w) /\ Scode(Advance(w, StateOf(h), ev)) = to
  BY DEF Leads
<1>6. GoodHist(w, h)
  BY DEF FlowInv
<1> HIDE DEF ev
<1>7. /\ GoodHist(w, Longer(w, h, ev))
      /\ Len(h) \in Nat
      /\ Len(Longer(w, h, ev)) = Len(h) + 1
      /\ Longer(w, h, ev) # <<>>
      /\ StateOf(Longer(w, h, ev)) = Advance(w, StateOf(h), ev)
      /\ \A i \in 1 .. Len(h) : Longer(w, h, ev)[i] = h[i]
  BY <1>5, <1>6, GoodLonger
<1> QED
  BY <1>3, <1>4, <1>5, <1>6, <1>7 DEF Posted, OneMore, CodeOf, ev

\* An activity posts an event: the others remain as they are.
LEMMA FlowPost ==
    ASSUME FlowInv, NEW w \in Workflows, NEW r \in Roles, NEW cmd, NEW x,
           Posted(w, cmd), UNCHANGED index,
           CodeOf(hist[w]) \in Leaves(r),
           CodeOf(hist[w]) \in {"Completed", "Failed"} =>
               CodeOf(hist'[w]) = "Terminated",
           act' = [act EXCEPT ![r][w] = x],
           GoodAct(r, w, x, hist'[w], index[w])
    PROVE  FlowInv'
<1>1. act' = [y \in Roles |-> [v \in Workflows |->
                IF y = r /\ v = w THEN x ELSE act[y][v]]]
  BY DEF FlowInv
<1>2. \A y \in Roles : \A v \in Workflows :
          act'[y][v] = IF y = r /\ v = w THEN x ELSE act[y][v]
  BY <1>1
<1>3. act' = [y \in Roles |-> [v \in Workflows |-> act'[y][v]]]
  BY <1>1
<1>4. hist' = [v \in Workflows |-> hist'[v]]
  BY DEF Posted
<1>5. \A v \in Workflows : v # w => hist'[v] = hist[v]
  BY DEF Posted
<1>6. ASSUME NEW y \in Roles
      PROVE  GoodAct(y, w, act'[y][w], hist'[w], index[w])
  <2>1. CASE y = r
    BY <1>2, <2>1
  <2>2. CASE y # r
    <3>1. GoodAct(y, w, act[y][w], hist[w], index[w])
      BY DEF FlowInv
    <3>2. OneMore(w, hist[w], hist'[w])
      BY DEF Posted
    <3>3. GoodAct(y, w, act[y][w], hist'[w], index[w])
      BY <2>2, <3>1, <3>2, GoodOther
    <3> QED
      BY <1>2, <2>2, <3>3
  <2> QED
    BY <2>1, <2>2
<1>7. GoodHist(w, hist'[w])
  BY DEF Posted, OneMore
<1>8. GoodIndex(hist'[w], index[w])
  <2>1. GoodIndex(hist[w], index[w])
    BY DEF FlowInv
  <2>2. hist'[w] # <<>>
    BY DEF Posted, OneMore
  <2>3. "Terminated" \notin Leaves(r)
    BY DEF Leaves, Roles
  <2> QED
    BY <2>1, <2>2, <2>3 DEF GoodIndex
<1>9. ASSUME NEW v \in Workflows
      PROVE  /\ GoodHist(v, hist'[v])
             /\ GoodIndex(hist'[v], index[v])
             /\ \A y \in Roles : GoodAct(y, v, act'[y][v], hist'[v], index[v])
  <2>1. CASE v = w
    BY <1>6, <1>7, <1>8, <2>1
  <2>2. CASE v # w
    BY <1>2, <1>5, <2>2 DEF FlowInv
  <2> QED
    BY <2>1, <2>2
<1>10. index = [v \in Workflows |-> index[v]]
  BY DEF FlowInv
<1> QED
  BY <1>3, <1>4, <1>9, <1>10 DEF FlowInv

\* The activity after command `cmd' that goes on to `t' unless it is retried.
Took(r, w, cmd, t, to) ==
    /\ Posted(w, cmd)
    /\ CodeOf(hist'[w]) = to
    /\ StateOf(hist[w]) \in Tell(w, cmd).from
    /\ \E x : /\ act' = [act EXCEPT ![r][w] = x]
              /\ x.todo = <<>> \/ x.todo = t
              /\ x.pos \in {0, act[r][w].pos}
              /\ \/ x.todo \in Resting
                 \/ x.at = Len(hist'[w]) /\ x.pos = act[r][w].pos
              /\ GoodAct(r, w, x, hist'[w], index[w])

\* A command is accepted, or the activity starts over.
Outcome(r, w, cmd, t, to) ==
    \/ MovesTo(r, w, <<>>) /\ UNCHANGED <<hist, wtar>>
    \/ Took(r, w, cmd, t, to)

\* To retry is one of the outcomes of a step.
LEMMA RetryMoves ==
    ASSUME FlowInv, NEW w \in Workflows, NEW r \in Roles, NEW t, Retry(r, w)
    PROVE  MovesTo(r, w, t)
BY RetryIs, MovedOver

\* A command with a version that is not the latest is refused.
LEMMA Refused ==
    ASSUME FlowInv, NEW w \in Workflows, NEW r \in Roles, NEW cmds,
           WfCommand(r, w, cmds),
           act[r][w].at # Len(hist[w]), Head(act[r][w].todo) \notin NoVC(w)
    PROVE  MovesTo(r, w, <<>>) /\ UNCHANGED <<hist, wtar, index>> /\ FlowInv'
<1>1. Retry(r, w) /\ UNCHANGED <<hist, wtar, index>>
  BY DEF WfCommand
<1>2. MovesTo(r, w, <<>>)
  BY <1>1, RetryMoves
<1> QED
  BY <1>1, <1>2, MovesKeep

\* A command in a state that it does not lead to: it posts its event, or is
\* refused.
LEMMA Command ==
    ASSUME FlowInv, NEW w \in Workflows, NEW r \in RolesOf(w), NEW cmds,
           WfCommand(r, w, cmds),
           NEW cmd, cmd = Head(act[r][w].todo),
           NEW t, t = Tail(act[r][w].todo),
           NEW to,
           Leads(w, StateOf(hist[w]), cmd, to),
           CodeOf(hist[w]) # to,
           CodeOf(hist[w]) \in Leaves(r),
           CodeOf(hist[w]) \in {"Completed", "Failed"} => to = "Terminated",
           \/ act[r][w].pos = Len(hist[w])
           \/ StepsAt(r, w, CodeOf(hist[w])) \subseteq Harmless(r, w),
           Fits(r, w, t, act[r][w].pos, Len(hist[w]) + 1, to,
                Len(hist[w]) + 1)
    PROVE  Outcome(r, w, cmd, t, to) /\ FlowInv'
<1> DEFINE a == act[r][w]
           c == Tell(w, cmd)
           s == StateOf(hist[w])
<1>0. r \in Roles
  BY DEF RolesOf, Roles
<1>1. State(w) = s /\ Code(w) = CodeOf(hist[w])
  BY StateIs
<1>2. Scode(s) \notin c.again
  BY DEF Leads, CodeOf
<1>3. UNCHANGED index
  BY DEF WfCommand
<1>4. CASE Retry(r, w) /\ UNCHANGED <<hist, wtar>>
  <2>1. MovesTo(r, w, <<>>)
    BY <1>0, <1>4, RetryMoves
  <2> QED
    BY <1>0, <1>3, <1>4, <2>1, MovesKeep DEF Outcome
<1>5. CASE /\ s \in c.from
           /\ Post(w, c.ev)
           /\ \/ act' = [act EXCEPT ![r][w] =
                           Then([@ EXCEPT !.at = Len(hist'[w])], Tail(@.todo))]
              \/ Retry(r, w)
  <2>1. Posted(w, cmd) /\ CodeOf(hist'[w]) = to
    BY <1>5, PostFacts
  <2>2. OneMore(w, hist[w], hist'[w]) /\ Len(hist'[w]) = Len(hist[w]) + 1
    BY <2>1 DEF Posted, OneMore
  <2>3. GoodAct(r, w, a, hist[w], index[w])
    BY <1>0 DEF FlowInv
  <2>4. a.todo # <<>>
    BY DEF WfCommand
  <2>5. CASE Retry(r, w)
    <3> DEFINE x == Over(a.n)
    <3>1. a.n \in Nat /\ act' = [act EXCEPT ![r][w] = x]
      BY <1>0, <2>5, RetryIs
    <3>2. GoodAct(r, w, x, hist'[w], index[w])
      <4>1. Len(hist'[w]) \in Nat
        BY <2>2 DEF OneMore
      <4> QED
        BY <1>0, <3>1, <4>1, GoodOver
    <3>3. x.todo = <<>> /\ x.pos = 0
      BY DEF Over
    <3> HIDE DEF x
    <3>4. FlowInv'
      BY <1>0, <1>3, <2>1, <3>1, <3>2, FlowPost
    <3>5. x.todo \in Resting
      BY <3>3 DEF Resting
    <3>6. Took(r, w, cmd, t, to)
      BY <1>5, <2>1, <3>1, <3>2, <3>3, <3>5 DEF Took
    <3> QED
      BY <3>4, <3>6 DEF Outcome
  <2>6. CASE act' = [act EXCEPT ![r][w] =
                       Then([@ EXCEPT !.at = Len(hist'[w])], Tail(@.todo))]
    <3> DEFINE b == [a EXCEPT !.at = Len(hist'[w])]
               x == Then(b, t)
    <3>1. act' = [act EXCEPT ![r][w] = x]
      BY <1>0, <2>6 DEF FlowInv
    <3>2. GoodAct(r, w, x, hist'[w], index[w])
      BY <2>1, <2>2, <2>3, <2>4, GoodSelf
    <3>3. b = [pos |-> a.pos, at |-> Len(hist'[w]), todo |-> a.todo, n |-> a.n]
      BY <2>3 DEF GoodAct
    <3>4. b.pos = a.pos /\ b.at = Len(hist'[w])
          /\ b = [pos |-> b.pos, at |-> b.at, todo |-> b.todo, n |-> b.n]
      BY <3>3
    <3> HIDE DEF b
    <3>5. /\ x.todo = t
          /\ x.pos \in {0, b.pos}
          /\ \/ t \in Resting
             \/ x.at = b.at /\ x.pos = b.pos
      BY <3>4, ThenFields
    <3> HIDE DEF x
    <3>6. FlowInv'
      BY <1>0, <1>3, <2>1, <3>1, <3>2, FlowPost
    <3>7. Took(r, w, cmd, t, to)
      BY <1>5, <2>1, <3>1, <3>2, <3>4, <3>5 DEF Took
    <3> QED
      BY <3>6, <3>7 DEF Outcome
  <2> QED
    BY <1>5, <2>5, <2>6
<1> QED
  BY <1>1, <1>2, <1>4, <1>5 DEF WfCommand

\* The commands, by what they have in common.
LEMMA AllLead ==
    ASSUME NEW w \in Workflows, NEW s
    PROVE  /\ Leads(w, s, "Init", "Initialized")
           /\ Leads(w, s, "BeginFiles", "Files")
           /\ Leads(w, s, "CommitFiles", "FilesCompleted")
           /\ Leads(w, s, "AbortFiles", "FilesFailed")
           /\ Leads(w, s, "Commit", "Completed")
           /\ Leads(w, s, "Abort", "Failed") /\ Spoils(w, s, "Abort")
           /\ Leads(w, s, "End", "Terminated") /\ Keeps(w, s, "End")
           /\ Long(w) => /\ Spoils(w, s, "AbortFiles")
                         /\ Leads(w, s, "EndFiles", "FilesEnded")
                         /\ Keeps(w, s, "EndFiles")
                         /\ Leads(w, s, "CommitGc", "GcCompleted")
                         /\ Keeps(w, s, "CommitGc")
                         /\ NeedsOk(w, s, "Commit")
                         /\ Leads(w, s, "CommitTartt", "TarttCompleted")
           /\ OpOf[w] = "archive" => Leads(w, s, "BeginSwap", "SwapStarted")
           /\ OpOf[w] = "unarchive" => /\ Leads(w, s, "BeginTartt", "Tartt")
                                       /\ Leads(w, s, "AbortTartt", "TarttFailed")
                                       /\ Spoils(w, s, "AbortTartt")
<1>1. CASE OpOf[w] = "freeze"
  BY <1>1, FreezeCommands DEF Long
<1>2. CASE OpOf[w] = "unfreeze"
  BY <1>2, UnfreezeCommands DEF Long
<1>3. CASE OpOf[w] = "archive"
  BY <1>3, ArchiveCommands DEF Long
<1>4. CASE OpOf[w] = "unarchive"
  BY <1>4, UnarchiveCommands DEF Long
<1> QED
  BY <1>1, <1>2, <1>3, <1>4, OpCases

\* nogfsoregd: each command is given in a state that it does not lead to.
LEMMA RegdCommand ==
    ASSUME FlowInv, NEW w \in Workflows, WfCommand("regd", w, RegdCommands),
           NEW t, t = act["regd"][w].todo, NEW c, c = CodeOf(hist[w])
    PROVE  /\ FlowInv'
           /\ \/ /\ t = B3 /\ c = "Initialized"
                 /\ Outcome("regd", w, "BeginFiles", <<>>, "Files")
              \/ /\ t = F3 /\ Long(w)
                 /\ c \in {"FilesCompleted", "FilesFailed", "TarttFailed"}
                 /\ Outcome("regd", w, "EndFiles", <<>>, "FilesEnded")
              \/ /\ t = C3
                 /\ \/ Short(w) /\ c = "FilesCompleted"
                    \/ Long(w) /\ c = "GcCompleted"
                 /\ Outcome("regd", w, "Commit", E1, "Completed")
              \/ /\ t = A3 /\ Aborts(w, c)
                 /\ Outcome("regd", w, "Abort", E1, "Failed")
              \/ /\ t = E2 /\ c \in {"Completed", "Failed"}
                 /\ Outcome("regd", w, "End", Quit, "Terminated")
<1> DEFINE a == act["regd"][w]
           n == Len(hist[w])
           s == StateOf(hist[w])
<1>0. "regd" \in Roles /\ "regd" \in RolesOf(w)
  BY DEF Roles, RolesOf
<1>1. n \in Nat
  BY DEF FlowInv, GoodHist
<1>2. RegdFits(w, t, a.pos, c, n)
  BY <1>0 DEF FlowInv, GoodAct, Fits
<1>3. t # <<>> /\ Head(t) \in {"BeginFiles", "EndFiles", "Commit", "Abort", "End"}
  BY DEF WfCommand, RegdCommands
<1>4. CASE Head(t) = "BeginFiles"
  <2>1. t = B3 /\ c = "Initialized" /\ a.pos = n
    BY <1>1, <1>2, <1>3, <1>4, RegdHeads
  <2>2. Tail(t) = <<>>
    BY <2>1 DEF B3
  <2>3. Fits("regd", w, <<>>, a.pos, n + 1, "Files", n + 1)
    BY DEF Fits, RegdFits
  <2>4. Leads(w, s, "BeginFiles", "Files") /\ c \in Leaves("regd")
    BY <2>1, AllLead DEF Leaves
  <2> QED
    BY <1>0, <1>4, <2>1, <2>2, <2>3, <2>4, Command
<1>5. CASE Head(t) = "EndFiles"
  <2>1. /\ t = F3 /\ Long(w) /\ a.pos = n
        /\ c \in {"FilesCompleted", "FilesFailed", "TarttFailed"}
    BY <1>1, <1>2, <1>3, <1>5, RegdHeads
  <2>2. Tail(t) = <<>>
    BY <2>1 DEF F3
  <2>3. Fits("regd", w, <<>>, a.pos, n + 1, "FilesEnded", n + 1)
    BY DEF Fits, RegdFits
  <2>4. Leads(w, s, "EndFiles", "FilesEnded") /\ c \in Leaves("regd")
    BY <2>1, AllLead DEF Leaves
  <2> QED
    BY <1>0, <1>5, <2>1, <2>2, <2>3, <2>4, Command
<1>6. CASE Head(t) = "Commit"
  <2>1. /\ t = C3 /\ a.pos = n
        /\ \/ Short(w) /\ c = "FilesCompleted"
           \/ Long(w) /\ c = "GcCompleted"
    BY <1>1, <1>2, <1>3, <1>6, RegdHeads
  <2>2. Tail(t) = E1
    BY <2>1 DEF C3, E1
  <2>3. Fits("regd", w, E1, a.pos, n + 1, "Completed", n + 1)
    BY DEF Fits, RegdFits
  <2>4. Leads(w, s, "Commit", "Completed") /\ c \in Leaves("regd")
    BY <2>1, AllLead DEF Leaves
  <2> QED
    BY <1>0, <1>6, <2>1, <2>2, <2>3, <2>4, Command
<1>7. CASE Head(t) = "Abort"
  <2>1. t = A3 /\ a.pos = n /\ Aborts(w, c)
    BY <1>1, <1>2, <1>3, <1>7, RegdHeads
  <2>2. Tail(t) = E1
    BY <2>1 DEF A3, E1
  <2>3. Fits("regd", w, E1, a.pos, n + 1, "Failed", n + 1)
    BY DEF Fits, RegdFits
  <2>4. /\ Leads(w, s, "Abort", "Failed") /\ c \in Leaves("regd")
        /\ c \notin {"Completed", "Failed"}
    BY <2>1, AllLead DEF Leaves, Aborts
  <2> QED
    BY <1>0, <1>7, <2>1, <2>2, <2>3, <2>4, Command
<1>8. CASE Head(t) = "End"
  <2>1. t = E2 /\ c \in {"Completed", "Failed"}
    BY <1>1, <1>2, <1>3, <1>8, RegdHeads
  <2>2. Tail(t) = Quit
    BY <2>1 DEF E2, Quit
  <2>3. Fits("regd", w, Quit, a.pos, n + 1, "Terminated", n + 1)
    BY DEF Fits, RegdFits
  <2>4. Leads(w, s, "End", "Terminated") /\ c \in Leaves("regd")
    BY <2>1, AllLead DEF Leaves
  <2>5. StepsAt("regd", w, c) \subseteq Harmless("regd", w)
    BY <2>1 DEF StepsAt, RegdSteps, Harmless
  <2> QED
    BY <1>0, <1>8, <2>1, <2>2, <2>3, <2>4, <2>5, Command
<1> QED
  BY <1>3, <1>4, <1>5, <1>6, <1>7, <1>8

\* nogfsostad: each command is given in a state that it does not lead to, or is
\* refused because nogfsostad is behind.
LEMMA StadCommand ==
    ASSUME FlowInv, NEW w \in Workflows, WfCommand("stad", w, StadCommands),
           NEW t, t = act["stad"][w].todo, NEW c, c = CodeOf(hist[w])
    PROVE  /\ FlowInv'
           /\ \/ MovesTo("stad", w, <<>>) /\ UNCHANGED <<hist, wtar>>
              \/ /\ t = P2 /\ OpOf[w] = "archive" /\ c = "Files"
                 /\ Outcome("stad", w, "CommitTartt", P3, "TarttCompleted")
              \/ /\ t = P4 /\ OpOf[w] = "archive" /\ c = "TarttCompleted"
                 /\ Outcome("stad", w, "BeginSwap", <<>>, "SwapStarted")
              \/ /\ t = U2 /\ OpOf[w] = "unarchive" /\ c = "Files"
                 /\ Outcome("stad", w, "BeginTartt", <<>>, "Tartt")
              \/ /\ t = H3 /\ Short(w) /\ c = "Files"
                 /\ Outcome("stad", w, "CommitFiles", Quit, "FilesCompleted")
              \/ /\ t = S4
                 /\ \/ OpOf[w] = "archive" /\ c = "SwapStarted"
                    \/ OpOf[w] = "unarchive" /\ c = "TarttCompleted"
                 /\ Outcome("stad", w, "CommitFiles", <<>>, "FilesCompleted")
              \/ /\ t = H4 /\ Short(w) /\ c = "Files"
                 /\ Outcome("stad", w, "AbortFiles", Quit, "FilesFailed")
              \/ /\ t = S5 /\ Long(w)
                 /\ c \in {"Files", "TarttCompleted", "SwapStarted"}
                 /\ Outcome("stad", w, "AbortFiles", <<>>, "FilesFailed")
              \/ /\ t = Z2 /\ Long(w) /\ c = "FilesEnded"
                 /\ Outcome("stad", w, "CommitGc", Quit, "GcCompleted")
<1> DEFINE a == act["stad"][w]
           n == Len(hist[w])
           s == StateOf(hist[w])
<1>0. "stad" \in Roles /\ "stad" \in RolesOf(w)
  BY DEF Roles, RolesOf
<1>1. n \in Nat
  BY DEF FlowInv, GoodHist
<1>2. StadFits(w, t, a.pos, a.at, c, n)
  BY <1>0 DEF FlowInv, GoodAct, Fits
<1>3. /\ t # <<>>
      /\ Head(t) \in {"CommitTartt", "BeginSwap", "BeginTartt", "CommitFiles",
                      "AbortFiles", "CommitGc"}
  BY DEF WfCommand, StadCommands
<1>4. CASE a.at # n /\ Head(t) \notin NoVC(w)
  BY <1>0, <1>4, Refused
<1>5. CASE Head(t) = "CommitTartt"
  <2>1. t = P2 /\ OpOf[w] = "archive" /\ c = "Files" /\ a.pos = n
    BY <1>1, <1>2, <1>3, <1>5, StadHeads
  <2>2. Tail(t) = P3
    BY <2>1 DEF P2, P3
  <2>3. Fits("stad", w, P3, a.pos, n + 1, "TarttCompleted", n + 1)
    BY <2>1 DEF Fits, StadFits, Prepares
  <2>4. Leads(w, s, "CommitTartt", "TarttCompleted") /\ c \in Leaves("stad")
    BY <2>1, AllLead DEF Leaves, Long
  <2> QED
    BY <1>0, <1>5, <2>1, <2>2, <2>3, <2>4, Command
<1>6. CASE Head(t) = "BeginSwap" /\ a.at = n
  <2>1. t = P4 /\ OpOf[w] = "archive" /\ c = "TarttCompleted" /\ a.at = n
    BY <1>1, <1>2, <1>3, <1>6, StadHeads
  <2>2. Tail(t) = <<>>
    BY <2>1 DEF P4
  <2>3. Fits("stad", w, <<>>, a.pos, n + 1, "SwapStarted", n + 1)
    BY <2>1 DEF Fits, StadFits
  <2>4. Leads(w, s, "BeginSwap", "SwapStarted") /\ c \in Leaves("stad")
    BY <2>1, AllLead DEF Leaves, Long
  <2>5. StepsAt("stad", w, c) \subseteq Harmless("stad", w)
    BY <2>1 DEF StepsAt, StadSteps, Harmless, Short
  <2> QED
    BY <1>0, <1>6, <2>1, <2>2, <2>3, <2>4, <2>5, Command
<1>7. CASE Head(t) = "BeginTartt"
  <2>1. t = U2 /\ OpOf[w] = "unarchive" /\ c = "Files" /\ a.pos = n
    BY <1>1, <1>2, <1>3, <1>7, StadHeads
  <2>2. Tail(t) = <<>>
    BY <2>1 DEF U2
  <2>3. Fits("stad", w, <<>>, a.pos, n + 1, "Tartt", n + 1)
    BY <2>1 DEF Fits, StadFits
  <2>4. Leads(w, s, "BeginTartt", "Tartt") /\ c \in Leaves("stad")
    BY <2>1, AllLead DEF Leaves, Long
  <2> QED
    BY <1>0, <1>7, <2>1, <2>2, <2>3, <2>4, Command
<1>8. CASE Head(t) = "CommitFiles" /\ t = H3
  <2>0. H3 # S4
    BY DEF H3, S4
  <2>1. t = H3 /\ Short(w) /\ c = "Files" /\ a.pos = n
    BY <2>0, <1>1, <1>2, <1>3, <1>8, StadHeads
  <2>2. Tail(t) = Quit
    BY <2>1 DEF H3, Quit
  <2>3. Fits("stad", w, Quit, a.pos, n + 1, "FilesCompleted", n + 1)
    BY <2>1 DEF Fits, StadFits
  <2>4. Leads(w, s, "CommitFiles", "FilesCompleted") /\ c \in Leaves("stad")
    BY <2>1, AllLead DEF Leaves, Long
  <2> QED
    BY <1>0, <1>8, <2>1, <2>2, <2>3, <2>4, Command
<1>9. CASE Head(t) = "CommitFiles" /\ t # H3
  <2>1. /\ t = S4 /\ a.pos = n
        /\ \/ OpOf[w] = "archive" /\ c = "SwapStarted"
           \/ OpOf[w] = "unarchive" /\ c = "TarttCompleted"
    BY <1>1, <1>2, <1>3, <1>9, StadHeads
  <2>2. Tail(t) = <<>>
    BY <2>1 DEF S4
  <2>3. Fits("stad", w, <<>>, a.pos, n + 1, "FilesCompleted", n + 1)
    BY <2>1 DEF Fits, StadFits
  <2>4. Leads(w, s, "CommitFiles", "FilesCompleted") /\ c \in Leaves("stad")
    BY <2>1, AllLead DEF Leaves, Long
  <2> QED
    BY <1>0, <1>9, <2>1, <2>2, <2>3, <2>4, Command
<1>10. CASE Head(t) = "AbortFiles" /\ t = H4
  <2>0. H4 # S5
    BY DEF H4, S5
  <2>1. t = H4 /\ Short(w) /\ c = "Files" /\ a.pos = n
    BY <2>0, <1>1, <1>2, <1>3, <1>10, StadHeads
  <2>2. Tail(t) = Quit
    BY <2>1 DEF H4, Quit
  <2>3. Fits("stad", w, Quit, a.pos, n + 1, "FilesFailed", n + 1)
    BY <2>1 DEF Fits, StadFits
  <2>4. Leads(w, s, "AbortFiles", "FilesFailed") /\ c \in Leaves("stad")
    BY <2>1, AllLead DEF Leaves, Long
  <2> QED
    BY <1>0, <1>10, <2>1, <2>2, <2>3, <2>4, Command
<1>11. CASE Head(t) = "AbortFiles" /\ t # H4 /\ a.at = n
  <2>1. /\ t = S5 /\ Long(w) /\ c \in {"Files", "TarttCompleted", "SwapStarted"}
        /\ \/ a.pos = n
           \/ OpOf[w] = "archive" /\ c = "TarttCompleted"
    BY <1>1, <1>2, <1>3, <1>11, StadHeads DEF Long
  <2>2. Tail(t) = <<>>
    BY <2>1 DEF S5
  <2>3. Fits("stad", w, <<>>, a.pos, n + 1, "FilesFailed", n + 1)
    BY <2>1 DEF Fits, StadFits
  <2>4. Leads(w, s, "AbortFiles", "FilesFailed") /\ c \in Leaves("stad")
    BY <2>1, AllLead DEF Leaves, Long
  <2>5. a.pos = n \/ StepsAt("stad", w, c) \subseteq Harmless("stad", w)
    BY <2>1 DEF StepsAt, StadSteps, Harmless, Short
  <2> QED
    BY <1>0, <1>11, <2>1, <2>2, <2>3, <2>4, <2>5, Command
<1>12. CASE Head(t) = "CommitGc"
  <2>1. t = Z2 /\ Long(w) /\ c = "FilesEnded" /\ a.pos = n
    BY <1>1, <1>2, <1>3, <1>12, StadHeads
  <2>2. Tail(t) = Quit
    BY <2>1 DEF Z2, Quit
  <2>3. Fits("stad", w, Quit, a.pos, n + 1, "GcCompleted", n + 1)
    BY <2>1 DEF Fits, StadFits
  <2>4. Leads(w, s, "CommitGc", "GcCompleted") /\ c \in Leaves("stad")
    BY <2>1, AllLead DEF Leaves, Long
  <2> QED
    BY <1>0, <1>12, <2>1, <2>2, <2>3, <2>4, Command
<1>13. "BeginSwap" \notin NoVC(w) /\ "AbortFiles" \notin NoVC(w)
  BY OpCases DEF NoVC, FreezeRepoNoVC, UnfreezeRepoNoVC, ArchiveRepoNoVC,
     UnarchiveRepoNoVC
<1> QED
  BY <1>3, <1>4, <1>5, <1>6, <1>7, <1>8, <1>9, <1>10, <1>11, <1>12, <1>13

\* nogfsorstd: each command is given in a state that it does not lead to.
LEMMA RstdCommand ==
    ASSUME FlowInv, NEW w \in Workflows, WfCommand("rstd", w, RstdCommands),
           NEW t, t = act["rstd"][w].todo, NEW c, c = CodeOf(hist[w])
    PROVE  /\ FlowInv'
           /\ OpOf[w] = "unarchive" /\ c = "Tartt"
           /\ \/ /\ t = R2
                 /\ Outcome("rstd", w, "CommitTartt", Quit, "TarttCompleted")
              \/ /\ t = R3
                 /\ Outcome("rstd", w, "AbortTartt", Quit, "TarttFailed")
<1> DEFINE a == act["rstd"][w]
           n == Len(hist[w])
           s == StateOf(hist[w])
<1>1. n \in Nat
  BY DEF FlowInv, GoodHist
<1>2. RstdFits(w, t, a.pos, c, n)
  BY DEF FlowInv, GoodAct, Fits, Roles
<1>3. t # <<>> /\ Head(t) \in {"CommitTartt", "AbortTartt"}
  BY DEF WfCommand, RstdCommands
<1>4. OpOf[w] = "unarchive"
  BY <1>1, <1>2, <1>3, RstdHeads
<1>0. "rstd" \in Roles /\ "rstd" \in RolesOf(w)
  BY <1>4 DEF Roles, RolesOf
<1>5. CASE Head(t) = "CommitTartt"
  <2>1. t = R2 /\ OpOf[w] = "unarchive" /\ c = "Tartt" /\ a.pos = n
    BY <1>1, <1>2, <1>3, <1>5, RstdHeads
  <2>2. Tail(t) = Quit
    BY <2>1 DEF R2, Quit
  <2>3. Fits("rstd", w, Quit, a.pos, n + 1, "TarttCompleted", n + 1)
    BY <2>1 DEF Fits, RstdFits
  <2>4. Leads(w, s, "CommitTartt", "TarttCompleted") /\ c \in Leaves("rstd")
    BY <2>1, AllLead DEF Leaves, Long
  <2> QED
    BY <1>0, <1>5, <2>1, <2>2, <2>3, <2>4, Command
<1>6. CASE Head(t) = "AbortTartt"
  <2>1. t = R3 /\ OpOf[w] = "unarchive" /\ c = "Tartt" /\ a.pos = n
    BY <1>1, <1>2, <1>3, <1>6, RstdHeads
  <2>2. Tail(t) = Quit
    BY <2>1 DEF R3, Quit
  <2>3. Fits("rstd", w, Quit, a.pos, n + 1, "TarttFailed", n + 1)
    BY <2>1 DEF Fits, RstdFits
  <2>4. Leads(w, s, "AbortTartt", "TarttFailed") /\ c \in Leaves("rstd")
    BY <2>1, AllLead DEF Leaves, Long
  <2> QED
    BY <1>0, <1>6, <2>1, <2>2, <2>3, <2>4, Command
<1> QED
  BY <1>3, <1>4, <1>5, <1>6

-----------------------------------------------------------------------------
(***************************************************************************)
(* The steps of the activities, as what they have ahead.                   *)
(***************************************************************************)

\* processView() in the latest state.
LEMMA StepsFit ==
    ASSUME NEW w \in Workflows, NEW r \in RolesOf(w), NEW c, NEW n \in Nat,
           NEW t \in StepsAt(r, w, c)
    PROVE  Fits(r, w, t, n, n, c, n)
<1>1. CASE r = "regd"
  BY <1>1, OpCases DEF StepsAt, RegdSteps, Fits, RegdFits, RegdTodo
<1>2. CASE r = "stad"
  BY <1>2, OpCases DEF StepsAt, StadSteps, Fits, StadFits, StadTodo, Prepares,
     Short, Long
<1>3. CASE r = "rstd"
  <2>1. OpOf[w] = "unarchive"
    BY <1>3 DEF RolesOf
  <2> QED
    BY <1>3, <2>1 DEF StepsAt, RstdSteps, Fits, RstdFits, RstdTodo
<1> QED
  BY <1>1, <1>2, <1>3 DEF RolesOf, Roles

\* An activity that processes the view of event `p'.
Processes(r, w, p) ==
    /\ act[r][w].todo = <<>>
    /\ p \in act[r][w].pos + 1 .. Len(hist[w])
    /\ act[r][w].pos = 0 => p = Len(hist[w])
    /\ act' = [act EXCEPT ![r][w] =
                 Then([pos |-> p, at |-> p, n |-> act[r][w].n, todo |-> <<>>],
                      Steps(r, w, hist[w][p].view[r]))]

\* The view an activity processes next is the last one, or one with steps.
LEMMA ProcessViewIs ==
    ASSUME FlowInv, NEW w \in Workflows, NEW r \in RolesOf(w),
           ProcessView(r, w)
    PROVE  \E p \in 1 .. Len(hist[w]) :
               /\ Processes(r, w, p)
               /\ \/ p = Len(hist[w])
                  \/ Steps(r, w, hist[w][p].view[r]) # <<>>
<1> DEFINE a == act[r][w]
           last == Len(hist[w])
<1>0. r \in Roles
  BY DEF RolesOf, Roles
<1>1. last \in Nat
  BY DEF FlowInv, GoodHist
<1>2. a.pos \in 0 .. last
  BY <1>0 DEF FlowInv, GoodAct
<1>3. PICK p \in (IF a.pos = 0 THEN {last}
                  ELSE {q \in a.pos + 1 .. last :
                          Steps(r, w, View(r, w, q)) # <<>>}) :
          act' = [act EXCEPT ![r][w] =
                    Then([pos |-> p, at |-> p, n |-> a.n, todo |-> <<>>],
                         Steps(r, w, View(r, w, p)))]
  BY DEF ProcessView
<1>4. p \in 1 .. last /\ p \in a.pos + 1 .. last /\ (a.pos = 0 => p = last)
  BY <1>1, <1>2, <1>3 DEF ProcessView
<1>5. View(r, w, p) = hist[w][p].view[r]
  BY <1>4 DEF View
<1>6. p = last \/ Steps(r, w, hist[w][p].view[r]) # <<>>
  BY <1>3, <1>5
<1>7. Processes(r, w, p)
  BY <1>3, <1>4, <1>5 DEF ProcessView, Processes
<1> QED
  BY <1>4, <1>6, <1>7

\* Processing a view keeps FlowInv, and what it puts ahead fits the state.
LEMMA ProcessViewKeeps ==
    ASSUME FlowInv, NEW w \in Workflows, NEW r \in RolesOf(w),
           ProcessView(r, w)
    PROVE  /\ FlowInv'
           /\ \E x : /\ act' = [act EXCEPT ![r][w] = x]
                     /\ \/ x.todo \in Harmless(r, w)
                        \/ x.todo \in StepsAt(r, w, CodeOf(hist[w]))
                     /\ GoodAct(r, w, x, hist[w], index[w])
<1> DEFINE a == act[r][w]
           h == hist[w]
           n == Len(h)
           c == CodeOf(h)
<1>0. r \in Roles
  BY DEF RolesOf, Roles
<1>1. GoodHist(w, h) /\ GoodAct(r, w, a, h, index[w])
  BY <1>0 DEF FlowInv
<1>2. n \in Nat
  BY <1>1 DEF GoodHist
<1>3. PICK p \in 1 .. n : Processes(r, w, p)
  BY ProcessViewIs
<1> DEFINE T == Steps(r, w, h[p].view[r])
           b == [pos |-> p, at |-> p, n |-> a.n, todo |-> <<>>]
           x == Then(b, T)
<1>4. a.pos \in 0 .. n /\ a.n \in Nat
  BY <1>1 DEF GoodAct
<1>5. \A q \in p + 1 .. n - 1 :
          Steps(r, w, h[q].view[r]) \in Harmless(r, w)
  <2>1. CASE a.pos = 0
    BY <1>2, <1>3, <2>1 DEF Processes
  <2>2. CASE a.pos > 0
    <3>1. \A q \in a.pos + 1 .. n - 1 :
              Steps(r, w, h[q].view[r]) \in Harmless(r, w)
      BY <1>1, <2>2 DEF GoodAct
    <3>2. p > a.pos
      BY <1>3, <1>4 DEF Processes
    <3> QED
      BY <1>2, <1>4, <3>1, <3>2
  <2> QED
    BY <1>2, <1>4, <2>1, <2>2
<1>6. T \in StepsAt(r, w, Scode(h[p].st))
  BY <1>1 DEF GoodHist
<1>7. h # <<>> /\ index[w] = "active"
  BY <1>2, <1>3 DEF ProcessView
<1>8. /\ T \in Harmless(r, w) \/ T \in StepsAt(r, w, c)
      /\ Fits(r, w, T, p, p, c, n)
  <2>1. CASE p = n
    <3>1. Scode(h[p].st) = c
      BY <1>7, <2>1 DEF CodeOf, StateOf
    <3> QED
      BY <1>2, <1>6, <2>1, <3>1, StepsFit
  <2>2. CASE p < n
    <3>1. a.pos > 0
      BY <1>2, <1>3, <1>4, <2>2 DEF Processes
    <3>2. p \in a.pos + 1 .. n - 1
      BY <1>2, <1>3, <1>4, <2>2 DEF Processes
    <3>3. T \in Harmless(r, w)
      BY <1>1, <3>1, <3>2 DEF GoodAct
    <3>4. Fits(r, w, T, p, p, c, n)
      BY <1>0, <2>2, <3>3
      DEF Harmless, Fits, RegdFits, StadFits, RstdFits, Prepares, Roles
    <3> QED
      BY <3>3, <3>4
  <2> QED
    BY <1>2, <2>1, <2>2
<1>9. act' = [act EXCEPT ![r][w] = x]
  BY <1>3 DEF Processes
<1> HIDE DEF T
<1>10. x.todo = T /\ GoodAct(r, w, x, h, index[w])
  <2>1. CASE T = Quit
    <3>1. x = [pos |-> 0, at |-> 0, todo |-> Quit, n |-> 0]
      BY <2>1 DEF Then, Idle, Quit
    <3>2. Fits(r, w, Quit, 0, 0, c, n)
      BY <1>0 DEF Fits, RegdFits, StadFits, RstdFits, Roles
    <3> QED
      BY <1>2, <1>7, <2>1, <3>1, <3>2 DEF GoodAct
  <2>2. CASE T = <<>>
    <3>1. x = [pos |-> p, at |-> 0, todo |-> <<>>, n |-> a.n]
      BY <2>2 DEF Then, Quit
    <3>2. Fits(r, w, <<>>, p, 0, c, n)
      BY <1>0 DEF Fits, RegdFits, StadFits, RstdFits, Roles
    <3> QED
      BY <1>2, <1>4, <1>5, <1>7, <2>2, <3>1, <3>2 DEF GoodAct
  <2>3. CASE T # Quit /\ T # <<>>
    <3>1. x = [pos |-> p, at |-> p, todo |-> T, n |-> a.n]
      BY <2>3 DEF Then
    <3> QED
      BY <1>2, <1>4, <1>5, <1>7, <1>8, <3>1 DEF GoodAct
  <2> QED
    BY <2>1, <2>2, <2>3
<1> HIDE DEF x
<1>11. UNCHANGED <<hist, index>>
  BY DEF ProcessView, flow
<1>12. FlowInv'
  BY <1>0, <1>9, <1>10, <1>11, FlowMove
<1> QED
  BY <1>8, <1>9, <1>10, <1>12


-----------------------------------------------------------------------------
(***************************************************************************)
(* The other steps of the activities: in which state of the workflow they  *)
(* are taken, and what the activity has ahead after them.                  *)
(***************************************************************************)

\* An activity that has a step ahead.
LEMMA AtFits ==
    ASSUME FlowInv, NEW w \in Workflows, NEW r \in Roles, NEW step,
           At(r, w, step)
    PROVE  /\ Fits(r, w, act[r][w].todo, act[r][w].pos, act[r][w].at,
                   CodeOf(hist[w]), Len(hist[w]))
           /\ act[r][w].todo # <<>>
           /\ Head(act[r][w].todo) = step
           /\ Len(hist[w]) \in Nat
<1>1. GoodAct(r, w, act[r][w], hist[w], index[w]) /\ GoodHist(w, hist[w])
  BY DEF FlowInv
<1>2. Len(hist[w]) \in Nat
  BY <1>1 DEF GoodHist
<1> QED
  BY <1>1, <1>2 DEF GoodAct, At

\* What nogfsoregd has ahead fits the state of the workflow.
LEMMA RegdAt ==
    ASSUME FlowInv, NEW w \in Workflows, NEW step, At("regd", w, step)
    PROVE  /\ RegdFits(w, act["regd"][w].todo, act["regd"][w].pos,
                       CodeOf(hist[w]), Len(hist[w]))
           /\ act["regd"][w].todo # <<>>
           /\ Head(act["regd"][w].todo) = step
           /\ Len(hist[w]) \in Nat
BY AtFits DEF Roles, Fits

\* What nogfsostad has ahead fits the state of the workflow.
LEMMA StadAt ==
    ASSUME FlowInv, NEW w \in Workflows, NEW step, At("stad", w, step)
    PROVE  /\ StadFits(w, act["stad"][w].todo, act["stad"][w].pos,
                       act["stad"][w].at, CodeOf(hist[w]), Len(hist[w]))
           /\ act["stad"][w].todo # <<>>
           /\ Head(act["stad"][w].todo) = step
           /\ Len(hist[w]) \in Nat
BY AtFits DEF Roles, Fits

\* nogfsoregd goes on to `t', or starts over.
LEMMA RegdMoves ==
    ASSUME FlowInv, NEW w \in Workflows, NEW t, act["regd"][w].todo # <<>>,
           RegdFits(w, t, act["regd"][w].pos, CodeOf(hist[w]), Len(hist[w])),
           \/ Retry("regd", w)
           \/ Todo("regd", w, t)
           \/ t = Tail(act["regd"][w].todo) /\ Done("regd", w)
    PROVE  MovesTo("regd", w, t)
BY Moves DEF Roles, Fits

\* nogfsostad goes on to `t', or starts over.
LEMMA StadMoves ==
    ASSUME FlowInv, NEW w \in Workflows, NEW t, act["stad"][w].todo # <<>>,
           StadFits(w, t, act["stad"][w].pos, act["stad"][w].at,
                    CodeOf(hist[w]), Len(hist[w])),
           \/ Retry("stad", w)
           \/ Todo("stad", w, t)
           \/ /\ t = Tail(act["stad"][w].todo)
              /\ Next1("stad", w) \/ Succeeded("stad", w)
    PROVE  MovesTo("stad", w, t)
BY Moves DEF Roles, Fits

\* The steps by which nogfsoregd aborts.
LEMMA RegdAbortIs ==
    ASSUME NEW w \in Workflows
    PROVE  RegdAbort(w) = A1
BY RegdTables, OpCases DEF RegdAbort

\* And nogfsostad.
LEMMA StadAbortIs ==
    ASSUME NEW w \in Workflows
    PROVE  StadAbort(w) = IF Short(w) THEN H4 ELSE S5
BY StadTables, OpCases DEF StadAbort, Short

\* What RegistryBegin does: it takes the registry, or goes on to the abort.
LEMMA RegistryBeginIs ==
    ASSUME FlowInv, NEW w \in Workflows, RegistryBegin(w)
    PROVE  /\ act["regd"][w].todo = B1 /\ CodeOf(hist[w]) = "Initialized"
           /\ \/ /\ \/ registry.tier \in {RegOp(w).from, RegOp(w).failed}
                    \/ registry = [tier |-> RegOp(w).doing, wf |-> w]
                 /\ registry' = [tier |-> RegOp(w).doing, wf |-> w]
                 /\ MovesTo("regd", w, B2)
              \/ UNCHANGED registry /\ MovesTo("regd", w, A1)
           /\ UNCHANGED <<repo, vid, disk, flow>>
<1> DEFINE a == act["regd"][w]
           c == CodeOf(hist[w])
           n == Len(hist[w])
<1>1. At("regd", w, "RegistryBegin")
  BY DEF RegistryBegin
<1>2. a.todo = B1 /\ c = "Initialized" /\ a.pos = n /\ a.todo # <<>>
  BY <1>1, RegdAt, RegdHeads
<1>3. Tail(a.todo) = B2
  BY <1>2 DEF B1, B2
<1>4. RegdFits(w, B2, a.pos, c, n) /\ RegdFits(w, A1, a.pos, c, n)
  BY <1>2 DEF RegdFits, RegdTodo
<1>5. Done("regd", w) => MovesTo("regd", w, B2)
  BY <1>2, <1>3, <1>4, RegdMoves
<1>6. Todo("regd", w, RegdAbort(w)) => MovesTo("regd", w, A1)
  BY <1>2, <1>4, RegdMoves, RegdAbortIs
<1> QED
  BY <1>2, <1>5, <1>6 DEF RegistryBegin

\* What ReposBegin does: it takes the repo, or goes on to the abort.
LEMMA ReposBeginIs ==
    ASSUME FlowInv, NEW w \in Workflows, ReposBegin(w)
    PROVE  /\ act["regd"][w].todo = B2 /\ CodeOf(hist[w]) = "Initialized"
           /\ \/ /\ ReposBeginError(w) = "none"
                 /\ repo' = [repo EXCEPT !.tier = RepoOp(w).doing, !.wf = w]
                 /\ MovesTo("regd", w, B3)
              \/ UNCHANGED repo /\ MovesTo("regd", w, A1)
           /\ UNCHANGED <<registry, disk, flow>>
<1> DEFINE a == act["regd"][w]
           c == CodeOf(hist[w])
           n == Len(hist[w])
<1>1. At("regd", w, "ReposBegin")
  BY DEF ReposBegin
<1>2. a.todo = B2 /\ c = "Initialized" /\ a.pos = n /\ a.todo # <<>>
  BY <1>1, RegdAt, RegdHeads
<1>3. Tail(a.todo) = B3
  BY <1>2 DEF B2, B3
<1>4. RegdFits(w, B3, a.pos, c, n) /\ RegdFits(w, A1, a.pos, c, n)
  BY <1>2 DEF RegdFits, RegdTodo
<1>5. Done("regd", w) => MovesTo("regd", w, B3)
  BY <1>2, <1>3, <1>4, RegdMoves
<1>6. Todo("regd", w, RegdAbort(w)) \/ Retry("regd", w) => MovesTo("regd", w, A1)
  BY <1>2, <1>4, RegdMoves, RegdAbortIs
<1> QED
  BY <1>2, <1>5, <1>6 DEF ReposBegin, SetRepo

\* The steps that end an operation, and those after them.
Ends(w, t, u, c, first) ==
    \/ /\ c = "FilesCompleted"
       /\ \/ Short(w) /\ t = (IF first THEN C1 ELSE C2)
                      /\ u = (IF first THEN C2 ELSE C3)
          \/ Long(w) /\ t = (IF first THEN F1 ELSE F2)
                     /\ u = (IF first THEN F2 ELSE F3)

Undoes(w, t, u, c, first) ==
    \/ /\ Aborts(w, c)
       /\ t = (IF first THEN A1 ELSE A2)
       /\ u = (IF first THEN A2 ELSE A3)
    \/ /\ Long(w) /\ c \in {"FilesFailed", "TarttFailed"}
       /\ t = (IF first THEN G1 ELSE G2)
       /\ u = (IF first THEN G2 ELSE F3)

\* What remains of a list of nogfsoregd after its first step.
LEMMA RegdTails ==
    /\ Tail(C1) = C2 /\ Tail(C2) = C3 /\ Tail(F1) = F2 /\ Tail(F2) = F3
    /\ Tail(A1) = A2 /\ Tail(A2) = A3 /\ Tail(G1) = G2 /\ Tail(G2) = F3
<1>1. Tail(C1) = C2 /\ Tail(C2) = C3
  BY DEF C1, C2, C3
<1>2. Tail(F1) = F2 /\ Tail(F2) = F3
  BY DEF F1, F2, F3
<1>3. Tail(A1) = A2 /\ Tail(A2) = A3
  BY DEF A1, A2, A3
<1>4. Tail(G1) = G2 /\ Tail(G2) = F3
  BY DEF G1, G2, F3
<1> QED
  BY <1>1, <1>2, <1>3, <1>4

\* What a commit or an abort leaves ahead fits the state.
LEMMA EndsFit ==
    ASSUME NEW w \in Workflows, NEW t, NEW u, NEW c, NEW n, NEW first,
           Ends(w, t, u, c, first) \/ Undoes(w, t, u, c, first)
    PROVE  u = Tail(t) /\ RegdFits(w, u, n, c, n)
<1>1. u = Tail(t)
  BY RegdTails DEF Ends, Undoes
<1>2. RegdFits(w, u, n, c, n)
  BY OpCases DEF Ends, Undoes, RegdFits, RegdTodo, Aborts
<1> QED
  BY <1>1, <1>2

\* What ReposCommit does: it commits the repo, or the activity starts over.
LEMMA ReposCommitIs ==
    ASSUME FlowInv, NEW w \in Workflows, ReposCommit(w)
    PROVE  \E u :
           /\ Ends(w, act["regd"][w].todo, u, CodeOf(hist[w]), TRUE)
           /\ \/ /\ MayCommit(repo, RepoOp(w), w)
                 /\ repo' = IF repo.tier # RepoOp(w).doing THEN repo
                            ELSE [repo EXCEPT
                                    !.tier = RepoOp(w).done,
                                    !.tar = IF OpOf[w] = "archive" THEN wtar[w]
                                            ELSE @]
                 /\ MovesTo("regd", w, u)
              \/ UNCHANGED repo /\ MovesTo("regd", w, <<>>)
           /\ UNCHANGED <<registry, disk, flow>>
<1> DEFINE a == act["regd"][w]
           c == CodeOf(hist[w])
           n == Len(hist[w])
<1>1. At("regd", w, "ReposCommit")
  BY DEF ReposCommit
<1>2. /\ \/ a.todo = C1 /\ Short(w)
         \/ a.todo = F1 /\ Long(w)
      /\ c = "FilesCompleted" /\ a.pos = n /\ a.todo # <<>>
  BY <1>1, RegdAt, RegdHeads
<1>3. PICK u : Ends(w, a.todo, u, c, TRUE)
  BY <1>2 DEF Ends
<1>4. u = Tail(a.todo) /\ RegdFits(w, u, a.pos, c, n)
  BY <1>2, <1>3, EndsFit
<1>5. Done("regd", w) => MovesTo("regd", w, u)
  BY <1>2, <1>4, RegdMoves
<1>6. Retry("regd", w) => MovesTo("regd", w, <<>>)
  BY RetryMoves DEF Roles
<1>7. \/ /\ MayCommit(repo, RepoOp(w), w)
         /\ repo' = IF repo.tier # RepoOp(w).doing THEN repo
                    ELSE [repo EXCEPT
                            !.tier = RepoOp(w).done,
                            !.tar = IF OpOf[w] = "archive" THEN wtar[w]
                                    ELSE @]
         /\ Done("regd", w)
      \/ UNCHANGED repo /\ Retry("regd", w)
  BY DEF ReposCommit, SetRepo
<1>8. UNCHANGED <<registry, disk, flow>>
  BY DEF ReposCommit
<1> QED
  BY <1>3, <1>5, <1>6, <1>7, <1>8

\* What RegistryCommit does: it commits the registry, or the activity starts
\* over.
LEMMA RegistryCommitIs ==
    ASSUME FlowInv, NEW w \in Workflows, RegistryCommit(w)
    PROVE  \E u :
           /\ Ends(w, act["regd"][w].todo, u, CodeOf(hist[w]), FALSE)
           /\ \/ /\ MayCommit(registry, RegOp(w), w)
                 /\ registry' = [registry EXCEPT
                                   !.tier = IF @ = RegOp(w).doing
                                            THEN RegOp(w).done ELSE @]
                 /\ MovesTo("regd", w, u)
              \/ UNCHANGED registry /\ MovesTo("regd", w, <<>>)
           /\ UNCHANGED <<repo, disk, flow>>
<1> DEFINE a == act["regd"][w]
           c == CodeOf(hist[w])
           n == Len(hist[w])
<1>1. At("regd", w, "RegistryCommit")
  BY DEF RegistryCommit
<1>2. /\ \/ a.todo = C2 /\ Short(w)
         \/ a.todo = F2 /\ Long(w)
      /\ c = "FilesCompleted" /\ a.pos = n /\ a.todo # <<>>
  BY <1>1, RegdAt, RegdHeads
<1>3. PICK u : Ends(w, a.todo, u, c, FALSE)
  BY <1>2 DEF Ends
<1>4. u = Tail(a.todo) /\ RegdFits(w, u, a.pos, c, n)
  BY <1>2, <1>3, EndsFit
<1>5. Done("regd", w) => MovesTo("regd", w, u)
  BY <1>2, <1>4, RegdMoves
<1>6. Retry("regd", w) => MovesTo("regd", w, <<>>)
  BY RetryMoves DEF Roles
<1>7. \/ /\ MayCommit(registry, RegOp(w), w)
         /\ registry' = [registry EXCEPT
                           !.tier = IF @ = RegOp(w).doing
                                    THEN RegOp(w).done ELSE @]
         /\ Done("regd", w)
      \/ UNCHANGED registry /\ Retry("regd", w)
  BY DEF RegistryCommit
<1>8. UNCHANGED <<repo, disk, flow>>
  BY DEF RegistryCommit
<1> QED
  BY <1>3, <1>5, <1>6, <1>7, <1>8

\* What ReposAbort does: it aborts the repo if the repo is the workflow's to
\* abort, and goes on in any case.
LEMMA ReposAbortIs ==
    ASSUME FlowInv, NEW w \in Workflows, ReposAbort(w)
    PROVE  \E u :
           /\ Undoes(w, act["regd"][w].todo, u, CodeOf(hist[w]), TRUE)
           /\ \/ /\ MayAbort(repo, RepoOp(w), w)
                 /\ repo' = IF repo.tier = RepoOp(w).failed THEN repo
                            ELSE [repo EXCEPT !.tier = RepoOp(w).failed,
                                              !.error = TRUE]
              \/ ~MayAbort(repo, RepoOp(w), w) /\ UNCHANGED repo
           /\ MovesTo("regd", w, u)
           /\ UNCHANGED <<registry, disk, flow>>
<1> DEFINE a == act["regd"][w]
           c == CodeOf(hist[w])
           n == Len(hist[w])
<1>1. At("regd", w, "ReposAbort")
  BY DEF ReposAbort
<1>2. /\ \/ a.todo = A1 /\ Aborts(w, c)
         \/ a.todo = G1 /\ Long(w) /\ c \in {"FilesFailed", "TarttFailed"}
      /\ a.pos = n /\ a.todo # <<>>
  BY <1>1, RegdAt, RegdHeads
<1>3. PICK u : Undoes(w, a.todo, u, c, TRUE)
  BY <1>2 DEF Undoes
<1>4. u = Tail(a.todo) /\ RegdFits(w, u, a.pos, c, n)
  BY <1>2, <1>3, EndsFit
<1>5. Done("regd", w) \/ Todo("regd", w, u) => MovesTo("regd", w, u)
  BY <1>2, <1>4, RegdMoves
<1>6. \/ /\ MayAbort(repo, RepoOp(w), w)
         /\ repo' = IF repo.tier = RepoOp(w).failed THEN repo
                    ELSE [repo EXCEPT !.tier = RepoOp(w).failed,
                                      !.error = TRUE]
         /\ Done("regd", w)
      \/ /\ ~MayAbort(repo, RepoOp(w), w)
         /\ UNCHANGED repo /\ Todo("regd", w, u)
  BY <1>4 DEF ReposAbort, SetRepo
<1>7. UNCHANGED <<registry, disk, flow>>
  BY DEF ReposAbort
<1> QED
  BY <1>3, <1>5, <1>6, <1>7

\* What RegistryAbort does: it aborts the registry if it is the workflow's to
\* abort, and goes on in any case.
LEMMA RegistryAbortIs ==
    ASSUME FlowInv, NEW w \in Workflows, RegistryAbort(w)
    PROVE  \E u :
           /\ Undoes(w, act["regd"][w].todo, u, CodeOf(hist[w]), FALSE)
           /\ \/ /\ MayAbort(registry, RegOp(w), w)
                 /\ registry' = [registry EXCEPT !.tier = RegOp(w).failed]
              \/ ~MayAbort(registry, RegOp(w), w) /\ UNCHANGED registry
           /\ MovesTo("regd", w, u)
           /\ UNCHANGED <<repo, disk, flow>>
<1> DEFINE a == act["regd"][w]
           c == CodeOf(hist[w])
           n == Len(hist[w])
<1>1. At("regd", w, "RegistryAbort")
  BY DEF RegistryAbort
<1>2. /\ \/ a.todo = A2 /\ Aborts(w, c)
         \/ a.todo = G2 /\ Long(w) /\ c \in {"FilesFailed", "TarttFailed"}
      /\ a.pos = n /\ a.todo # <<>>
  BY <1>1, RegdAt, RegdHeads
<1>3. PICK u : Undoes(w, a.todo, u, c, FALSE)
  BY <1>2 DEF Undoes
<1>4. u = Tail(a.todo) /\ RegdFits(w, u, a.pos, c, n)
  BY <1>2, <1>3, EndsFit
<1>5. Done("regd", w) \/ Todo("regd", w, u) => MovesTo("regd", w, u)
  BY <1>2, <1>4, RegdMoves
<1>6. \/ /\ MayAbort(registry, RegOp(w), w)
         /\ registry' = [registry EXCEPT !.tier = RegOp(w).failed]
         /\ Done("regd", w)
      \/ /\ ~MayAbort(registry, RegOp(w), w)
         /\ UNCHANGED registry /\ Todo("regd", w, u)
  BY <1>4 DEF RegistryAbort
<1>7. UNCHANGED <<repo, disk, flow>>
  BY DEF RegistryAbort
<1> QED
  BY <1>3, <1>5, <1>6, <1>7

\* IndexCommit changes the entry of the workflow only.
LEMMA IndexCommitIs ==
    ASSUME FlowInv, NEW w \in Workflows, IndexCommit(w)
    PROVE  /\ act["regd"][w].todo = E1
           /\ CodeOf(hist[w]) \in {"Completed", "Failed"}
           /\ index' = [index EXCEPT ![w] = "completed"]
           /\ MovesTo("regd", w, E2)
           /\ UNCHANGED <<aggregates, disk, hist, wtar>>
           /\ FlowInv'
<1> DEFINE a == act["regd"][w]
           c == CodeOf(hist[w])
           n == Len(hist[w])
<1>1. At("regd", w, "IndexCommit") /\ Done("regd", w)
  BY DEF IndexCommit
<1>2. a.todo = E1 /\ c \in {"Completed", "Failed"} /\ a.todo # <<>>
  BY <1>1, RegdAt, RegdHeads
<1>3. Tail(a.todo) = E2
  BY <1>2 DEF E1, E2
<1>4. RegdFits(w, E2, a.pos, c, n)
  BY <1>2 DEF RegdFits
<1>5. MovesTo("regd", w, E2)
  BY <1>1, <1>2, <1>3, <1>4, RegdMoves
<1>6. /\ index' = [index EXCEPT ![w] = "completed"]
      /\ UNCHANGED <<aggregates, disk, hist, wtar>>
  BY DEF IndexCommit
<1>7. index' = [v \in Workflows |->
                  IF v = w THEN "completed" ELSE index[v]]
  BY <1>6 DEF FlowInv
<1>8. PICK x : Moved("regd", w, x, E2)
  BY <1>5 DEF MovesTo
<1>9. act' = [y \in Roles |-> [v \in Workflows |->
                IF y = "regd" /\ v = w THEN x ELSE act[y][v]]]
  <2>1. act = [y \in Roles |-> [v \in Workflows |-> act[y][v]]]
    BY DEF FlowInv
  <2>2. act' = [act EXCEPT !["regd"][w] = x]
    BY <1>8 DEF Moved
  <2> QED
    BY <2>1, <2>2 DEF Roles
<1>10. act' = [y \in Roles |-> [v \in Workflows |-> act'[y][v]]]
  BY <1>9
<1>11. ASSUME NEW v \in Workflows
       PROVE  /\ GoodHist(v, hist'[v])
              /\ GoodIndex(hist'[v], index'[v])
              /\ \A y \in Roles : GoodAct(y, v, act'[y][v], hist'[v], index'[v])
  <2>1. hist' = hist /\ GoodHist(v, hist[v]) /\ GoodIndex(hist[v], index[v])
    BY <1>6 DEF FlowInv
  <2>2. \A y \in Roles : GoodAct(y, v, act'[y][v], hist[v], index[v])
    BY <1>8, <1>9 DEF FlowInv, Moved
  <2>3. hist[w] # <<>>
    <3>1. GoodAct("regd", w, a, hist[w], index[w])
      BY DEF FlowInv, Roles
    <3> QED
      BY <1>2, <3>1 DEF GoodAct
  <2>4. CASE v = w
    <3>1. GoodIndex(hist'[v], index'[v])
      BY <1>2, <1>7, <2>1, <2>3, <2>4 DEF GoodIndex
    <3>2. \A y \in Roles : GoodAct(y, v, act'[y][v], hist[v], index'[v])
      BY <1>7, <2>2, <2>4 DEF GoodAct
    <3> QED
      BY <2>1, <3>1, <3>2
  <2>5. CASE v # w
    BY <1>7, <2>1, <2>2, <2>5
  <2> QED
    BY <2>4, <2>5
<1>12. hist' = [v \in Workflows |-> hist'[v]] /\ index' = [v \in Workflows |-> index'[v]]
  BY <1>6, <1>7 DEF FlowInv
<1> QED
  BY <1>2, <1>5, <1>6, <1>10, <1>11, <1>12 DEF FlowInv

\* nogfsostad after a failure: it tries again, or aborts.
LEMMA StadFailedMoves ==
    ASSUME FlowInv, NEW w \in Workflows, NEW t, t = StadAbort(w),
           act["stad"][w].todo # <<>>,
           StadFits(w, t, act["stad"][w].pos, act["stad"][w].at,
                    CodeOf(hist[w]), Len(hist[w])),
           StadFailed(w)
    PROVE  MovesTo("stad", w, t)
<1> DEFINE a == act["stad"][w]
<1>1. /\ a = [pos |-> a.pos, at |-> a.at, todo |-> a.todo, n |-> a.n]
      /\ a.n \in Nat
  BY DEF FlowInv, GoodAct, Roles
<1>2. act = [y \in Roles |-> [v \in Workflows |-> act[y][v]]]
  BY DEF FlowInv
<1>3. CASE a.n < MaxRetries
  <2>1. [Idle EXCEPT !.n = a.n + 1] = Over(a.n + 1)
    BY DEF Idle, Over
  <2>2. act' = [act EXCEPT !["stad"][w] = Over(a.n + 1)]
    BY <1>3, <2>1 DEF StadFailed
  <2>3. a.n + 1 \in Nat /\ "stad" \in Roles
    BY <1>1 DEF Roles
  <2> QED
    BY ONLY FlowInv, w \in Workflows, <2>2, <2>3, MovedOver
<1>4. CASE ~(a.n < MaxRetries)
  <2>1. [a EXCEPT !.todo = t] = Then(a, t)
    <3>1. t = H4 \/ t = S5
      BY StadAbortIs
    <3>2. t # Quit /\ t # <<>>
      BY <3>1 DEF H4, S5, Quit
    <3> QED
      BY <3>2 DEF Then
  <2>2. act' = [act EXCEPT !["stad"][w] = Then(@, t)]
    BY <1>2, <1>4, <2>1 DEF StadFailed, Roles
  <2> QED
    BY <2>2, StadMoves DEF Todo
<1> QED
  BY <1>3, <1>4

\* The files are being changed.
LEMMA ChattrBeginIs ==
    ASSUME FlowInv, NEW w \in Workflows, ChattrBegin(w)
    PROVE  /\ act["stad"][w].todo = H1 /\ Short(w)
           /\ CodeOf(hist[w]) = "Files"
           /\ host' \in {host, "mixed"}
           /\ MovesTo("stad", w, H2)
           /\ UNCHANGED <<aggregates, dir, tar, flow, lost>>
<1> DEFINE a == act["stad"][w]
           c == CodeOf(hist[w])
           n == Len(hist[w])
<1>1. At("stad", w, "ChattrBegin")
  BY DEF ChattrBegin
<1>2. a.todo = H1 /\ Short(w) /\ c = "Files" /\ a.pos = n /\ a.todo # <<>>
  BY <1>1, StadAt, StadHeads
<1>3. Tail(a.todo) = H2
  BY <1>2 DEF H1, H2
<1>4. StadFits(w, H2, a.pos, a.at, c, n)
  BY <1>2 DEF StadFits, StadTodo
<1>5. Next1("stad", w) => MovesTo("stad", w, H2)
  BY <1>2, <1>3, <1>4, StadMoves
<1> QED
  BY <1>2, <1>5 DEF ChattrBegin

\* The files have been changed, or it failed.
LEMMA ChattrEndIs ==
    ASSUME FlowInv, NEW w \in Workflows, ChattrEnd(w)
    PROVE  /\ act["stad"][w].todo = H2 /\ Short(w)
           /\ CodeOf(hist[w]) = "Files"
           /\ \/ /\ host' = FilesOf(w) /\ tar' = "none"
                 /\ MovesTo("stad", w, H3)
              \/ /\ host' \in {host, "mixed", FilesOf(w)} /\ UNCHANGED tar
                 /\ MovesTo("stad", w, H4)
           /\ UNCHANGED <<aggregates, dir, flow, lost>>
<1> DEFINE a == act["stad"][w]
           c == CodeOf(hist[w])
           n == Len(hist[w])
<1>1. At("stad", w, "ChattrEnd")
  BY DEF ChattrEnd
<1>2. a.todo = H2 /\ Short(w) /\ c = "Files" /\ a.pos = n /\ a.todo # <<>>
  BY <1>1, StadAt, StadHeads
<1>3. Tail(a.todo) = H3
  BY <1>2 DEF H2, H3
<1>4. StadFits(w, H3, a.pos, a.at, c, n) /\ StadFits(w, H4, a.pos, a.at, c, n)
  BY <1>2 DEF StadFits, StadTodo
<1>5. Succeeded("stad", w) => MovesTo("stad", w, H3)
  BY <1>2, <1>3, <1>4, StadMoves
<1>6. StadFailed(w) => MovesTo("stad", w, H4)
  BY <1>2, <1>4, StadFailedMoves, StadAbortIs
<1> QED
  BY <1>2, <1>5, <1>6 DEF ChattrEnd

\* nogfsostad polls for an archive.
LEMMA PollTarttIs ==
    ASSUME FlowInv, NEW w \in Workflows, PollTartt(w)
    PROVE  /\ act["stad"][w].todo = P1 /\ OpOf[w] = "archive"
           /\ CodeOf(hist[w]) = "Files"
           /\ \/ tar # "none" /\ MovesTo("stad", w, P2)
              \/ MovesTo("stad", w, <<>>)
           /\ UNCHANGED <<aggregates, disk, flow, lost>>
<1> DEFINE a == act["stad"][w]
           c == CodeOf(hist[w])
           n == Len(hist[w])
<1>1. At("stad", w, "PollTartt")
  BY DEF PollTartt
<1>2. a.todo = P1 /\ OpOf[w] = "archive" /\ c = "Files" /\ a.pos = n /\ a.todo # <<>>
  BY <1>1, StadAt, StadHeads
<1>3. Tail(a.todo) = P2
  BY <1>2 DEF P1, P2
<1>4. StadFits(w, P2, a.pos, a.at, c, n)
  BY <1>2 DEF StadFits, StadTodo
<1>5. Next1("stad", w) => MovesTo("stad", w, P2)
  BY <1>2, <1>3, <1>4, StadMoves
<1>6. Retry("stad", w) => MovesTo("stad", w, <<>>)
  BY RetryMoves DEF Roles
<1> QED
  BY <1>2, <1>5, <1>6 DEF PollTartt

\* The placeholder is made, also if nogfsostad is behind.
LEMMA MakePlaceholderIs ==
    ASSUME FlowInv, NEW w \in Workflows, MakePlaceholder(w)
    PROVE  /\ act["stad"][w].todo = P3 /\ OpOf[w] = "archive"
           /\ \/ act["stad"][w].at < Len(hist[w])
              \/ /\ act["stad"][w].at = Len(hist[w])
                 /\ CodeOf(hist[w]) = "TarttCompleted"
           /\ \/ /\ dir' = [dir EXCEPT ![w] =
                              [in |-> "placeholder", trash |-> "none"]]
                 /\ MovesTo("stad", w, P4)
              \/ UNCHANGED dir /\ MovesTo("stad", w, S5)
           /\ UNCHANGED <<aggregates, host, tar, flow, lost>>
<1> DEFINE a == act["stad"][w]
           c == CodeOf(hist[w])
           n == Len(hist[w])
<1>1. At("stad", w, "MakePlaceholder")
  BY DEF MakePlaceholder
<1>2. /\ a.todo = P3 /\ OpOf[w] = "archive" /\ a.todo # <<>>
      /\ \/ a.at < n
         \/ a.at = n /\ c = "TarttCompleted"
  BY <1>1, StadAt, StadHeads
<1>3. Tail(a.todo) = P4
  BY <1>2 DEF P3, P4
<1>4. StadFits(w, P4, a.pos, a.at, c, n) /\ StadFits(w, S5, a.pos, a.at, c, n)
  BY <1>2 DEF StadFits, Prepares
<1>5. Next1("stad", w) => MovesTo("stad", w, P4)
  BY <1>2, <1>3, <1>4, StadMoves
<1>6. Todo("stad", w, ArchiveRepoStadFiles.abort) \/ Retry("stad", w)
        => MovesTo("stad", w, S5)
  BY <1>2, <1>4, StadMoves, StadTables
<1> QED
  BY <1>2, <1>5, <1>6 DEF MakePlaceholder

\* The directory for the restore is made.
LEMMA MakeRestoreIs ==
    ASSUME FlowInv, NEW w \in Workflows, MakeRestore(w)
    PROVE  /\ act["stad"][w].todo = U1 /\ OpOf[w] = "unarchive"
           /\ CodeOf(hist[w]) = "Files"
           /\ \/ /\ dir' = [dir EXCEPT ![w] = [in |-> "empty", trash |-> "none"]]
                 /\ MovesTo("stad", w, U2)
              \/ UNCHANGED dir /\ MovesTo("stad", w, S5)
           /\ UNCHANGED <<aggregates, host, tar, flow, lost>>
<1> DEFINE a == act["stad"][w]
           c == CodeOf(hist[w])
           n == Len(hist[w])
<1>1. At("stad", w, "MakeRestore")
  BY DEF MakeRestore
<1>2. a.todo = U1 /\ OpOf[w] = "unarchive" /\ c = "Files" /\ a.pos = n /\ a.todo # <<>>
  BY <1>1, StadAt, StadHeads
<1>3. Tail(a.todo) = U2
  BY <1>2 DEF U1, U2
<1>4. StadFits(w, U2, a.pos, a.at, c, n) /\ StadFits(w, S5, a.pos, a.at, c, n)
  BY <1>2 DEF StadFits, StadTodo
<1>5. Next1("stad", w) => MovesTo("stad", w, U2)
  BY <1>2, <1>3, <1>4, StadMoves
<1>6. Todo("stad", w, UnarchiveRepoStadFiles.abort) => MovesTo("stad", w, S5)
  BY <1>2, <1>4, StadMoves, StadTables
<1> QED
  BY <1>2, <1>5, <1>6 DEF MakeRestore

\* The restored files get their attributes.
LEMMA SetfaclChattrIs ==
    ASSUME FlowInv, NEW w \in Workflows, SetfaclChattr(w)
    PROVE  /\ act["stad"][w].todo = V1 /\ OpOf[w] = "unarchive"
           /\ CodeOf(hist[w]) = "TarttCompleted"
           /\ \/ UNCHANGED dir /\ MovesTo("stad", w, <<>>)
              \/ /\ dir[w].in # "none"
                 /\ dir' = [dir EXCEPT ![w].in =
                              IF @ \in Data THEN "immutable" ELSE @]
                 /\ MovesTo("stad", w, V2)
           /\ UNCHANGED <<aggregates, host, tar, flow, lost>>
<1> DEFINE a == act["stad"][w]
           c == CodeOf(hist[w])
           n == Len(hist[w])
<1>1. At("stad", w, "SetfaclChattr")
  BY DEF SetfaclChattr
<1>2. a.todo = V1 /\ OpOf[w] = "unarchive" /\ c = "TarttCompleted" /\ a.pos = n /\ a.todo # <<>>
  BY <1>1, StadAt, StadHeads
<1>3. Tail(a.todo) = V2
  BY <1>2 DEF V1, V2
<1>4. StadFits(w, V2, a.pos, a.at, c, n)
  BY <1>2 DEF StadFits, StadTodo
<1>5. Next1("stad", w) => MovesTo("stad", w, V2)
  BY <1>2, <1>3, <1>4, StadMoves
<1>6. Retry("stad", w) => MovesTo("stad", w, <<>>)
  BY RetryMoves DEF Roles
<1> QED
  BY <1>2, <1>5, <1>6 DEF SetfaclChattr

\* The files are moved out of the way.
LEMMA SwapOutIs ==
    ASSUME FlowInv, NEW w \in Workflows, SwapOut(w)
    PROVE  /\ \/ /\ act["stad"][w].todo = S1 /\ OpOf[w] = "archive"
                 /\ CodeOf(hist[w]) = "SwapStarted"
                 /\ MovesTo("stad", w, S2)
              \/ /\ act["stad"][w].todo = V2 /\ OpOf[w] = "unarchive"
                 /\ CodeOf(hist[w]) = "TarttCompleted"
                 /\ MovesTo("stad", w, V3)
           /\ \/ /\ dir[w].trash = "none" /\ host # "none"
                 /\ dir' = [dir EXCEPT ![w].trash = host]
                 /\ host' = "none"
              \/ dir[w].trash # "none" /\ UNCHANGED <<dir, host>>
           /\ UNCHANGED <<aggregates, tar, flow, lost>>
<1> DEFINE a == act["stad"][w]
           c == CodeOf(hist[w])
           n == Len(hist[w])
<1>1. At("stad", w, "SwapOut")
  BY DEF SwapOut
<1>2. /\ \/ a.todo = S1 /\ OpOf[w] = "archive" /\ c = "SwapStarted"
         \/ a.todo = V2 /\ OpOf[w] = "unarchive" /\ c = "TarttCompleted"
      /\ a.pos = n /\ a.todo # <<>>
  BY <1>1, StadAt, StadHeads
<1>3. Next1("stad", w)
  BY DEF SwapOut
<1>4. CASE a.todo = S1
  <2>1. Tail(a.todo) = S2
    BY <1>4 DEF S1, S2
  <2>2. S1 # V2
    BY DEF S1, V2
  <2>3. StadFits(w, S2, a.pos, a.at, c, n)
    BY <1>2, <1>4, <2>2 DEF StadFits, StadTodo
  <2>4. MovesTo("stad", w, S2)
    BY <1>2, <1>3, <2>1, <2>3, StadMoves
  <2> QED
    BY <1>2, <1>4, <2>2, <2>4 DEF SwapOut
<1>5. CASE a.todo = V2
  <2>1. Tail(a.todo) = V3
    BY <1>5 DEF V2, V3
  <2>2. S1 # V2
    BY DEF S1, V2
  <2>3. StadFits(w, V3, a.pos, a.at, c, n)
    BY <1>2, <1>5, <2>2 DEF StadFits, StadTodo
  <2>4. MovesTo("stad", w, V3)
    BY <1>2, <1>3, <2>1, <2>3, StadMoves
  <2> QED
    BY <1>2, <1>5, <2>2, <2>4 DEF SwapOut
<1> QED
  BY <1>2, <1>4, <1>5

\* The placeholder or the restored files are moved in.
LEMMA SwapInIs ==
    ASSUME FlowInv, NEW w \in Workflows, SwapIn(w)
    PROVE  /\ \/ /\ act["stad"][w].todo = S2 /\ OpOf[w] = "archive"
                 /\ CodeOf(hist[w]) = "SwapStarted"
                 /\ MovesTo("stad", w, S3) \/ MovesTo("stad", w, S5)
              \/ /\ act["stad"][w].todo = V3 /\ OpOf[w] = "unarchive"
                 /\ CodeOf(hist[w]) = "TarttCompleted"
                 /\ MovesTo("stad", w, S4) \/ MovesTo("stad", w, S5)
           /\ \/ /\ host = "none" /\ dir[w].in # "none"
                 /\ host' = dir[w].in
                 /\ dir' = [dir EXCEPT ![w].in = "none"]
              \/ host # "none" /\ UNCHANGED <<dir, host>>
           /\ UNCHANGED <<aggregates, tar, flow, lost>>
<1> DEFINE a == act["stad"][w]
           c == CodeOf(hist[w])
           n == Len(hist[w])
<1>1. At("stad", w, "SwapIn")
  BY DEF SwapIn
<1>2. /\ \/ a.todo = S2 /\ OpOf[w] = "archive" /\ c = "SwapStarted"
         \/ a.todo = V3 /\ OpOf[w] = "unarchive" /\ c = "TarttCompleted"
      /\ a.pos = n /\ a.todo # <<>>
  BY <1>1, StadAt, StadHeads
<1>3. \/ OpOf[w] = "archive" /\ Next1("stad", w)
      \/ OpOf[w] = "unarchive" /\ Succeeded("stad", w)
      \/ StadFailed(w)
  BY DEF SwapIn
<1>4. StadFits(w, S5, a.pos, a.at, c, n)
  BY <1>2 DEF StadFits, StadTodo
<1>5. StadFailed(w) => MovesTo("stad", w, S5)
  BY <1>2, <1>4, StadFailedMoves, StadAbortIs DEF Short
<1>6. CASE a.todo = S2
  <2>1. Tail(a.todo) = S3
    BY <1>6 DEF S2, S3
  <2>2. S2 # V3
    BY DEF S2, V3
  <2>3. StadFits(w, S3, a.pos, a.at, c, n)
    BY <1>2, <1>6, <2>2 DEF StadFits, StadTodo
  <2>4. MovesTo("stad", w, S3) \/ MovesTo("stad", w, S5)
    BY <1>2, <1>3, <1>5, <2>1, <2>3, StadMoves
  <2> QED
    BY <1>2, <1>6, <2>2, <2>4 DEF SwapIn
<1>7. CASE a.todo = V3
  <2>1. Tail(a.todo) = S4
    BY <1>7 DEF V3, S4
  <2>2. S2 # V3
    BY DEF S2, V3
  <2>3. StadFits(w, S4, a.pos, a.at, c, n)
    BY <1>2, <1>7, <2>2 DEF StadFits, StadTodo
  <2>4. MovesTo("stad", w, S4) \/ MovesTo("stad", w, S5)
    BY <1>2, <1>3, <1>5, <2>1, <2>3, StadMoves
  <2> QED
    BY <1>2, <1>7, <2>2, <2>4 DEF SwapIn
<1> QED
  BY <1>2, <1>6, <1>7

\* The shadow repo is told of the swap.
LEMMA ShadowArchiveIs ==
    ASSUME FlowInv, NEW w \in Workflows, ShadowArchive(w)
    PROVE  /\ act["stad"][w].todo = S3 /\ OpOf[w] = "archive"
           /\ CodeOf(hist[w]) = "SwapStarted"
           /\ MovesTo("stad", w, S4)
           /\ UNCHANGED <<aggregates, disk, flow, lost>>
<1> DEFINE a == act["stad"][w]
           c == CodeOf(hist[w])
           n == Len(hist[w])
<1>1. At("stad", w, "ShadowArchive")
  BY DEF ShadowArchive
<1>2. a.todo = S3 /\ OpOf[w] = "archive" /\ c = "SwapStarted" /\ a.pos = n /\ a.todo # <<>>
  BY <1>1, StadAt, StadHeads
<1>3. Tail(a.todo) = S4
  BY <1>2 DEF S3, S4
<1>4. StadFits(w, S4, a.pos, a.at, c, n)
  BY <1>2 DEF StadFits, StadTodo
<1>5. Succeeded("stad", w) => MovesTo("stad", w, S4)
  BY <1>2, <1>3, <1>4, StadMoves
<1> QED
  BY <1>2, <1>5 DEF ShadowArchive

\* A step of the swap fails without an effect.
LEMMA SwapFailsIs ==
    ASSUME FlowInv, NEW w \in Workflows, SwapFails(w)
    PROVE  /\ MovesTo("stad", w, S5)
           /\ \/ OpOf[w] = "archive" /\ CodeOf(hist[w]) = "SwapStarted"
              \/ OpOf[w] = "unarchive" /\ CodeOf(hist[w]) = "TarttCompleted"
           /\ UNCHANGED <<aggregates, disk, flow, lost>>
<1> DEFINE a == act["stad"][w]
           c == CodeOf(hist[w])
           n == Len(hist[w])
<1>1. PICK step \in {"SwapOut", "SwapIn", "ShadowArchive"} : At("stad", w, step)
  BY DEF SwapFails
<1>2. /\ \/ OpOf[w] = "archive" /\ c = "SwapStarted"
         \/ OpOf[w] = "unarchive" /\ c = "TarttCompleted"
      /\ a.pos = n /\ a.todo # <<>>
  BY <1>1, StadAt, StadHeads
<1>3. StadFits(w, S5, a.pos, a.at, c, n)
  BY <1>2 DEF StadFits, StadTodo
<1>4. StadFailed(w) => MovesTo("stad", w, S5)
  BY <1>2, <1>3, StadFailedMoves, StadAbortIs DEF Short
<1> QED
  BY <1>2, <1>4 DEF SwapFails

\* The working directory is removed.
LEMMA RemoveWorkingDirIs ==
    ASSUME FlowInv, NEW w \in Workflows, RemoveWorkingDir(w)
    PROVE  /\ act["stad"][w].todo = Z1 /\ Long(w)
           /\ CodeOf(hist[w]) = "FilesEnded"
           /\ dir' = dir \/ dir' = [dir EXCEPT ![w] = NoDir]
           /\ MovesTo("stad", w, Z2)
           /\ UNCHANGED <<aggregates, host, tar, flow, lost>>
<1> DEFINE a == act["stad"][w]
           c == CodeOf(hist[w])
           n == Len(hist[w])
<1>1. At("stad", w, "RemoveWorkingDir")
  BY DEF RemoveWorkingDir
<1>2. a.todo = Z1 /\ Long(w) /\ c = "FilesEnded" /\ a.pos = n /\ a.todo # <<>>
  BY <1>1, StadAt, StadHeads
<1>3. Tail(a.todo) = Z2
  BY <1>2 DEF Z1, Z2
<1>4. StadFits(w, Z2, a.pos, a.at, c, n)
  BY <1>2 DEF StadFits, StadTodo
<1>5. Next1("stad", w) => MovesTo("stad", w, Z2)
  BY <1>2, <1>3, <1>4, StadMoves
<1> QED
  BY <1>2, <1>5 DEF RemoveWorkingDir

\* nogfsorstd restores the files, or fails.
LEMMA TarttRestoreIs ==
    ASSUME FlowInv, NEW w \in Workflows, TarttRestore(w)
    PROVE  /\ act["rstd"][w].todo = R1 /\ OpOf[w] = "unarchive"
           /\ CodeOf(hist[w]) = "Tartt"
           /\ \/ /\ dir[w].in = "empty"
                 /\ dir' = [dir EXCEPT ![w].in =
                              IF wtar[w] = "data" THEN "writable" ELSE wtar[w]]
                 /\ MovesTo("rstd", w, R2)
              \/ /\ dir' = [dir EXCEPT ![w].in = "partial"] \/ dir' = [dir EXCEPT ![w].in = dir[w].in]
                 /\ dir[w].in \notin {"empty"} => dir' = [dir EXCEPT ![w].in = dir[w].in]
                 /\ MovesTo("rstd", w, R3)
           /\ UNCHANGED <<aggregates, host, tar, flow, lost>>
<1> DEFINE a == act["rstd"][w]
           c == CodeOf(hist[w])
           n == Len(hist[w])
<1>0. "rstd" \in Roles
  BY DEF Roles
<1>1. At("rstd", w, "TarttRestore")
  BY DEF TarttRestore
<1>2. RstdFits(w, a.todo, a.pos, c, n) /\ n \in Nat /\ a.todo # <<>> /\ Head(a.todo) = "TarttRestore"
  BY <1>0, <1>1, AtFits DEF Fits
<1>3. a.todo = R1 /\ OpOf[w] = "unarchive" /\ c = "Tartt" /\ a.pos = n
  BY <1>2, RstdHeads
<1>4. Tail(a.todo) = R2 /\ R3 # Quit /\ R3 # <<>>
  BY <1>3 DEF R1, R2, R3, Quit
<1>5. /\ Fits("rstd", w, R2, a.pos, a.at, c, n)
      /\ Fits("rstd", w, R3, a.pos, a.at, c, n)
  BY <1>3 DEF Fits, RstdFits, RstdTodo
<1>6. Succeeded("rstd", w) => MovesTo("rstd", w, R2)
  BY <1>0, <1>2, <1>4, <1>5, Moves
<1>7. ASSUME act' = [act EXCEPT !["rstd"][w] =
                       IF a.n < MaxRetries THEN [Idle EXCEPT !.n = a.n + 1]
                       ELSE [a EXCEPT !.todo = UnarchiveRepoRstdRestore.abort]]
      PROVE  MovesTo("rstd", w, R3)
  <2>1. /\ a = [pos |-> a.pos, at |-> a.at, todo |-> a.todo, n |-> a.n]
        /\ a.n \in Nat
    BY <1>0 DEF FlowInv, GoodAct
  <2>2. act = [y \in Roles |-> [v \in Workflows |-> act[y][v]]]
    BY DEF FlowInv
  <2>3. UnarchiveRepoRstdRestore.abort = R3
    BY StadTables
  <2>4. CASE a.n < MaxRetries
    <3>1. [Idle EXCEPT !.n = a.n + 1] = Over(a.n + 1)
      BY DEF Idle, Over
    <3>2. act' = [act EXCEPT !["rstd"][w] = Over(a.n + 1)]
      BY <1>7, <2>4, <3>1
    <3>3. a.n + 1 \in Nat
      BY <2>1
    <3> QED
      BY ONLY FlowInv, w \in Workflows, <1>0, <3>2, <3>3, MovedOver
  <2>5. CASE ~(a.n < MaxRetries)
    <3>1. [a EXCEPT !.todo = R3] = Then(a, R3)
      BY <1>4 DEF Then
    <3>2. act' = [act EXCEPT !["rstd"][w] = Then(@, R3)]
      BY <1>0, <1>7, <2>2, <2>3, <2>5, <3>1
    <3> QED
      BY <1>0, <1>2, <1>5, <3>2, Moves DEF Todo
  <2> QED
    BY <2>4, <2>5
<1>8. \/ /\ dir[w].in = "empty"
         /\ dir' = [dir EXCEPT ![w].in =
                      IF wtar[w] = "data" THEN "writable" ELSE wtar[w]]
         /\ MovesTo("rstd", w, R2)
      \/ /\ \E d \in {dir[w].in} \cup
                     {"partial" : x \in {dir[w].in} \cap {"empty"}} :
               dir' = [dir EXCEPT ![w].in = d]
         /\ MovesTo("rstd", w, R3)
  BY <1>6, <1>7 DEF TarttRestore
<1>9. UNCHANGED <<aggregates, host, tar, flow, lost>>
  BY DEF TarttRestore
<1> QED
  BY <1>3, <1>8, <1>9

-----------------------------------------------------------------------------
(***************************************************************************)
(* The server, failures and restarts; and FlowInv is an invariant.         *)
(***************************************************************************)

\* A workflow starts: its history has one event.
LEMMA BeginRepoIs ==
    ASSUME FlowInv, NEW w \in Workflows, BeginRepo(w)
    PROVE  /\ hist[w] = <<>> /\ index[w] = "none"
           /\ Posted(w, "Init")
           /\ CodeOf(hist'[w]) = "Initialized"
           /\ \A r \in Roles : act[r][w].todo = <<>>
           /\ UNCHANGED <<registry, repo, disk, index, act, lost>>
           /\ FlowInv'
<1>1. hist[w] = <<>> /\ Post(w, Tell(w, "Init").ev)
  BY DEF BeginRepo
<1>2. UNCHANGED <<registry, repo, disk, index, act, lost>>
  BY DEF BeginRepo
<1>3. Leads(w, StateOf(hist[w]), "Init", "Initialized")
  BY AllLead
<1>4. Posted(w, "Init") /\ CodeOf(hist'[w]) = "Initialized"
  BY <1>1, <1>3, PostFacts
<1>5. \A v \in Workflows : v # w => hist'[v] = hist[v]
  BY <1>4 DEF Posted
<1>6. OneMore(w, hist[w], hist'[w]) /\ hist' = [v \in Workflows |-> hist'[v]]
  BY <1>4 DEF Posted
<1>7. index[w] = "none"
  BY <1>1 DEF FlowInv, GoodIndex
<1>8. ASSUME NEW r \in Roles
      PROVE  act[r][w].todo = <<>> /\ GoodAct(r, w, act[r][w], hist'[w], index[w])
  <2>1. GoodAct(r, w, act[r][w], hist[w], index[w])
    BY DEF FlowInv
  <2>2. act[r][w].todo = <<>>
    BY <1>1, <2>1 DEF GoodAct
  <2>3. Len(hist[w]) = 0 /\ Len(hist'[w]) = 1 /\ hist'[w] # <<>>
    BY <1>1, <1>6 DEF OneMore
  <2>4. act[r][w].pos = 0 /\ act[r][w].at = 0
    BY <2>1, <2>3 DEF GoodAct
  <2>5. Fits(r, w, <<>>, 0, 0, CodeOf(hist'[w]), 1)
    BY DEF Fits, RegdFits, StadFits, RstdFits, Roles
  <2> QED
    BY <2>1, <2>2, <2>3, <2>4, <2>5 DEF GoodAct
<1>9. GoodHist(w, hist'[w]) /\ GoodIndex(hist'[w], index[w])
  BY <1>6, <1>7 DEF OneMore, GoodIndex
<1>10. ASSUME NEW v \in Workflows
       PROVE  /\ GoodHist(v, hist'[v])
              /\ GoodIndex(hist'[v], index[v])
              /\ \A r \in Roles : GoodAct(r, v, act[r][v], hist'[v], index[v])
  <2>1. CASE v = w
    BY <1>8, <1>9, <2>1
  <2>2. CASE v # w
    BY <1>5, <2>2 DEF FlowInv
  <2> QED
    BY <2>1, <2>2
<1>11. FlowInv'
  BY <1>2, <1>6, <1>10 DEF FlowInv
<1> QED
  BY <1>1, <1>2, <1>4, <1>7, <1>8, <1>11

\* The index entry of a workflow that has started.
LEMMA BeginIndexIs ==
    ASSUME FlowInv, NEW w \in Workflows, BeginIndex(w) \/ BeginLost(w)
    PROVE  /\ index[w] = "none"
           /\ \E i \in {"active", "orphan"} : index' = [index EXCEPT ![w] = i]
           /\ UNCHANGED <<aggregates, disk, hist, wtar, act>>
           /\ FlowInv'
<1>1. /\ hist[w] # <<>>
      /\ index[w] = "none"
      /\ UNCHANGED <<aggregates, disk, hist, wtar, act>>
  BY DEF BeginIndex, BeginLost
<1>2. PICK i \in {"active", "orphan"} : index' = [index EXCEPT ![w] = i]
  BY DEF BeginIndex, BeginLost
<1>3. index' = [v \in Workflows |-> IF v = w THEN i ELSE index[v]]
  BY <1>2 DEF FlowInv
<1>4. ASSUME NEW v \in Workflows
      PROVE  /\ GoodHist(v, hist[v])
             /\ GoodIndex(hist[v], index'[v])
             /\ \A r \in Roles : GoodAct(r, v, act[r][v], hist[v], index'[v])
  <2>1. /\ GoodHist(v, hist[v])
        /\ GoodIndex(hist[v], index[v])
        /\ \A r \in Roles : GoodAct(r, v, act[r][v], hist[v], index[v])
    BY DEF FlowInv
  <2>2. CASE v = w
    BY <1>1, <1>3, <2>1, <2>2 DEF GoodAct, GoodIndex
  <2>3. CASE v # w
    BY <1>3, <2>1, <2>3
  <2> QED
    BY <2>2, <2>3
<1>5. FlowInv'
  BY <1>1, <1>3, <1>4 DEF FlowInv
<1> QED
  BY <1>1, <1>2, <1>5

\* A step that fails.
LEMMA FailsIs ==
    ASSUME FlowInv, NEW w \in Workflows, NEW r \in RolesOf(w), Fails(r, w)
    PROVE  MovesTo(r, w, <<>>) /\ UNCHANGED <<aggregates, disk, flow>>
BY RetryMoves DEF Fails, RolesOf, Roles

\* All activities of a daemon start over.
LEMMA RestartsIs ==
    ASSUME FlowInv, NEW r \in Roles, Restarts(r)
    PROVE  /\ act' = [x \in Roles |-> [w \in Workflows |->
                        IF x = r THEN Idle ELSE act[x][w]]]
           /\ UNCHANGED <<aggregates, disk, flow>>
           /\ FlowInv'
<1>1. act' = [act EXCEPT ![r] = [w \in Workflows |-> Idle]]
      /\ UNCHANGED <<aggregates, disk, flow>>
  BY DEF Restarts
<1>2. act' = [x \in Roles |-> [w \in Workflows |->
                IF x = r THEN Idle ELSE act[x][w]]]
  BY <1>1 DEF FlowInv
<1>3. UNCHANGED <<hist, index>>
  BY <1>1 DEF flow
<1>4. ASSUME NEW v \in Workflows
      PROVE  /\ GoodHist(v, hist[v])
             /\ GoodIndex(hist[v], index[v])
             /\ \A x \in Roles : GoodAct(x, v, act'[x][v], hist[v], index[v])
  <2>1. /\ GoodHist(v, hist[v])
        /\ GoodIndex(hist[v], index[v])
        /\ \A x \in Roles : GoodAct(x, v, act[x][v], hist[v], index[v])
    BY DEF FlowInv
  <2>2. Idle = Over(0) /\ Len(hist[v]) \in Nat
    BY <2>1 DEF Idle, Over, GoodHist
  <2>3. GoodAct(r, v, Idle, hist[v], index[v])
    BY <2>2, GoodOver
  <2> QED
    BY <1>2, <2>1, <2>3
<1>5. FlowInv'
  BY <1>2, <1>3, <1>4 DEF FlowInv
<1> QED
  BY <1>1, <1>2, <1>5

\* The disk and the aggregates are no part of FlowInv.
LEMMA FlowUnchanged ==
    ASSUME FlowInv, UNCHANGED <<hist, index, act>>
    PROVE  FlowInv'
BY DEF FlowInv

\* A step of an activity that is no command to the workflow.
Quiet(w) == \E r \in Roles : \E t : MovesTo(r, w, t) /\ UNCHANGED <<hist, index>>

\* The steps of the activities but for commands, ProcessView and IndexCommit.
LEMMA QuietSteps ==
    ASSUME FlowInv, NEW w \in Workflows,
           \/ RegistryBegin(w) \/ ReposBegin(w)
           \/ ReposCommit(w) \/ RegistryCommit(w)
           \/ ReposAbort(w) \/ RegistryAbort(w)
           \/ ChattrBegin(w) \/ ChattrEnd(w)
           \/ PollTartt(w) \/ MakePlaceholder(w) \/ MakeRestore(w)
           \/ SetfaclChattr(w)
           \/ SwapOut(w) \/ SwapIn(w) \/ ShadowArchive(w) \/ SwapFails(w)
           \/ RemoveWorkingDir(w)
           \/ TarttRestore(w)
           \/ \E r \in RolesOf(w) : Fails(r, w)
    PROVE  Quiet(w)
<1> USE DEF Quiet, flow, Roles
<1>1. CASE RegistryBegin(w)
  BY <1>1, RegistryBeginIs
<1>2. CASE ReposBegin(w)
  BY <1>2, ReposBeginIs
<1>3. CASE ReposCommit(w)
  BY <1>3, ReposCommitIs
<1>4. CASE RegistryCommit(w)
  BY <1>4, RegistryCommitIs
<1>5. CASE ReposAbort(w)
  BY <1>5, ReposAbortIs
<1>6. CASE RegistryAbort(w)
  BY <1>6, RegistryAbortIs
<1>7. CASE ChattrBegin(w)
  BY <1>7, ChattrBeginIs
<1>8. CASE ChattrEnd(w)
  BY <1>8, ChattrEndIs
<1>9. CASE PollTartt(w)
  BY <1>9, PollTarttIs
<1>10. CASE MakePlaceholder(w)
  BY <1>10, MakePlaceholderIs
<1>11. CASE MakeRestore(w)
  BY <1>11, MakeRestoreIs
<1>12. CASE SetfaclChattr(w)
  BY <1>12, SetfaclChattrIs
<1>13. CASE SwapOut(w)
  BY <1>13, SwapOutIs
<1>14. CASE SwapIn(w)
  BY <1>14, SwapInIs
<1>15. CASE ShadowArchive(w)
  BY <1>15, ShadowArchiveIs
<1>16. CASE SwapFails(w)
  BY <1>16, SwapFailsIs
<1>17. CASE RemoveWorkingDir(w)
  BY <1>17, RemoveWorkingDirIs
<1>18. CASE TarttRestore(w)
  BY <1>18, TarttRestoreIs
<1>19. CASE \E r \in RolesOf(w) : Fails(r, w)
  BY <1>19, FailsIs DEF RolesOf
<1> QED
  BY <1>1, <1>2, <1>3, <1>4, <1>5, <1>6, <1>7, <1>8, <1>9, <1>10, <1>11,
     <1>12, <1>13, <1>14, <1>15, <1>16, <1>17, <1>18, <1>19

\* A step of an activity that is no command keeps FlowInv.
LEMMA QuietKeeps ==
    ASSUME FlowInv, NEW w \in Workflows, Quiet(w)
    PROVE  FlowInv'
BY MovesKeep DEF Quiet

\* Every step keeps FlowInv.
LEMMA FlowNext ==
    ASSUME FlowInv, [Next]_vars
    PROVE  FlowInv'
<1>1. CASE UNCHANGED vars
  BY <1>1, FlowUnchanged DEF vars
<1>2. CASE \E w \in Workflows : BeginRepo(w)
  BY <1>2, BeginRepoIs
<1>3. CASE \E w \in Workflows : BeginIndex(w) \/ BeginLost(w)
  BY <1>3, BeginIndexIs
<1>4. ASSUME NEW w \in Workflows,
             RegdStep(w) \/ StadStep(w) \/ RstdStep(w)
               \/ \E r \in RolesOf(w) : Fails(r, w)
      PROVE  FlowInv'
  <2>1. CASE \E r \in RolesOf(w) : ProcessView(r, w)
    BY <2>1, ProcessViewKeeps
  <2>2. CASE IndexCommit(w)
    BY <2>2, IndexCommitIs
  <2>3. CASE WfCommand("regd", w, RegdCommands)
    BY <2>3, RegdCommand
  <2>4. CASE WfCommand("stad", w, StadCommands)
    BY <2>4, StadCommand
  <2>5. CASE WfCommand("rstd", w, RstdCommands)
    BY <2>5, RstdCommand
  <2>6. CASE Quiet(w)
    BY <2>6, QuietKeeps
  <2> QED
    BY <1>4, <2>1, <2>2, <2>3, <2>4, <2>5, <2>6, QuietSteps
    DEF RegdStep, StadStep, RstdStep, RolesOf, Roles
<1>5. CASE \E r \in Roles : Restarts(r)
  BY <1>5, RestartsIs
<1>6. CASE Nogfsotard \/ SetRepoError \/ ClearRepoError
  BY <1>6, FlowUnchanged DEF Nogfsotard, SetRepoError, ClearRepoError, flow
<1> QED
  BY <1>1, <1>2, <1>3, <1>4, <1>5, <1>6 DEF Next

\* FlowInv holds initially.
LEMMA FlowInit ==
    ASSUME Init
    PROVE  FlowInv
<1>1. /\ hist = [w \in Workflows |-> <<>>]
      /\ index = [w \in Workflows |-> "none"]
      /\ act = [r \in Roles |-> [w \in Workflows |-> Idle]]
  BY DEF Init
<1>2. ASSUME NEW w \in Workflows
      PROVE  GoodHist(w, <<>>) /\ GoodIndex(<<>>, "none")
  BY DEF GoodHist, GoodIndex
<1>3. ASSUME NEW w \in Workflows, NEW r \in Roles
      PROVE  GoodAct(r, w, Idle, <<>>, "none")
  <2>1. Idle = Over(0)
    BY DEF Idle, Over
  <2> QED
    BY <2>1, GoodOver
<1> QED
  BY <1>1, <1>2, <1>3 DEF FlowInv
-----------------------------------------------------------------------------
(***************************************************************************)
(* LockInv: the registry is a lock around the repo.                        *)
(*                                                                         *)
(* A workflow owns an aggregate when the aggregate is in the tier of its   *)
(* operation in progress and has its id.  The registry is acquired before  *)
(* and released after the repo, and both are held while nogfsostad and     *)
(* nogfsorstd work on the files.                                           *)
(***************************************************************************)

\* The next step of an activity that has `t' ahead.
First(t) == IF t = <<>> THEN "none" ELSE Head(t)

\* Workflow `w' owns aggregate `x'.
Owns(w, x) == x.wf = w /\ x.tier = RegOp(w).doing

Working == {"Files", "Tartt", "TarttCompleted", "SwapStarted"}
Released == {"FilesEnded", "GcCompleted", "Completed", "Failed", "Terminated"}
Doing == {"freezing", "unfreezing", "archiving", "unarchiving"}

CodesOf(w) ==
    {"Uninitialized", "Initialized", "Files", "FilesCompleted", "FilesFailed",
     "Completed", "Failed", "Terminated"}
    \cup (IF Long(w) THEN {"TarttCompleted", "FilesEnded", "GcCompleted"} ELSE {})
    \cup (IF OpOf[w] = "archive" THEN {"SwapStarted"} ELSE {})
    \cup (IF OpOf[w] = "unarchive" THEN {"Tartt", "TarttFailed"} ELSE {})

\* What holds for workflow `w' with next step `f' of nogfsoregd, state code `c',
\* status `ok' and index entry `i', and for registry `g' and repo `p'.
LockAt(w, f, c, ok, i, g, p) ==
    /\ c \in CodesOf(w)
    /\ c \in Working => Owns(w, g) /\ Owns(w, p)
    /\ f \in {"ReposBegin", "BeginFiles"} => Owns(w, g)
    /\ f = "BeginFiles" => Owns(w, p)
    /\ c \in Released => ~Owns(w, g) /\ ~Owns(w, p)
    /\ f \in {"RegistryCommit", "RegistryAbort", "Commit", "EndFiles", "Abort"} =>
          ~Owns(w, p)
    /\ f \in {"Commit", "EndFiles", "Abort"} => ~Owns(w, g)
    /\ c \in Released /\ ok => /\ g.wf = w => g.tier = RegOp(w).done
                               /\ p.wf = w => p.tier = RegOp(w).done
    /\ Long(w) /\ c \in {"FilesFailed", "TarttFailed"} => ~ok
    /\ c = "FilesCompleted" =>
          /\ g.wf = w => g.tier \in {RegOp(w).doing, RegOp(w).done}
          /\ p.wf = w => p.tier \in {RegOp(w).doing, RegOp(w).done}
    /\ f = "RegistryCommit" /\ Owns(w, g) => p.wf = w /\ p.tier = RegOp(w).done
    /\ Owns(w, g) =>
          /\ i = "active"
          /\ \/ Owns(w, p)
             \/ Settled(p.tier) = RegOp(w).from
             \/ p.wf = w /\ p.tier = RegOp(w).done /\ c = "FilesCompleted"

\* What holds for registry `g' and repo `p'.
Nested(g, p) ==
    /\ g.tier \in Doing => g.wf \in Workflows /\ Owns(g.wf, g)
    /\ p.tier \in Doing => p.wf \in Workflows /\ Owns(p.wf, p) /\ Owns(p.wf, g)
    /\ g.tier \notin Doing => Settled(g.tier) = Settled(p.tier)

LockOf(w, t, h, i, g, p) ==
    LockAt(w, First(t), CodeOf(h), StatusOk(StateOf(h)), i, g, p)

LockInv ==
    /\ registry = [tier |-> registry.tier, wf |-> registry.wf]
    /\ repo = [tier |-> repo.tier, wf |-> repo.wf, error |-> repo.error,
               tar |-> repo.tar]
    /\ Nested(registry, repo)
    /\ \A w \in Workflows :
          LockOf(w, act["regd"][w].todo, hist[w], index[w], registry, repo)

\* The registry and the repo have the same tiers for an operation.
LEMMA OpsAre ==
    ASSUME NEW w \in Workflows
    PROVE  /\ RepoOp(w).from = RegOp(w).from /\ RepoOp(w).doing = RegOp(w).doing
           /\ RepoOp(w).done = RegOp(w).done
           /\ RepoOp(w).failed = RegOp(w).failed
           /\ RegOp(w).doing \in Doing /\ RegOp(w).from \notin Doing
           /\ RegOp(w).done \notin Doing /\ RegOp(w).failed \notin Doing
           /\ RegOp(w).done # RegOp(w).doing /\ RegOp(w).failed # RegOp(w).doing
           /\ RegOp(w).from # RegOp(w).doing
           /\ Settled(RegOp(w).failed) = RegOp(w).from
           /\ Settled(RegOp(w).from) = RegOp(w).from
           /\ Settled(RegOp(w).done) = RegOp(w).done
           /\ RegOp(w).done # RegOp(w).from
<1> USE DEF RegOp, RepoOp, TierOp, Doing, Settled
<1>1. CASE OpOf[w] = "freeze"
  BY <1>1 DEF RegistryFreeze, RepoFreeze
<1>2. CASE OpOf[w] = "unfreeze"
  BY <1>2 DEF RegistryUnfreeze, RepoUnfreeze
<1>3. CASE OpOf[w] = "archive"
  BY <1>3 DEF RegistryArchive, RepoArchive
<1>4. CASE OpOf[w] = "unarchive"
  BY <1>4 DEF RegistryUnarchive, RepoUnarchive
<1> QED
  BY <1>1, <1>2, <1>3, <1>4, OpCases

\* The next steps.
LEMMA FirstsAre ==
    /\ First(<<>>) = "none" /\ First(Quit) = "quit"
    /\ First(B1) = "RegistryBegin" /\ First(B2) = "ReposBegin"
    /\ First(B3) = "BeginFiles"
    /\ First(C1) = "ReposCommit" /\ First(F1) = "ReposCommit"
    /\ First(C2) = "RegistryCommit" /\ First(F2) = "RegistryCommit"
    /\ First(C3) = "Commit" /\ First(F3) = "EndFiles"
    /\ First(A1) = "ReposAbort" /\ First(G1) = "ReposAbort"
    /\ First(A2) = "RegistryAbort" /\ First(G2) = "RegistryAbort"
    /\ First(A3) = "Abort" /\ First(E1) = "IndexCommit" /\ First(E2) = "End"
<1> USE DEF First
<1>1. First(<<>>) = "none" /\ First(Quit) = "quit"
  BY DEF Quit
<1>2. /\ First(B1) = "RegistryBegin" /\ First(B2) = "ReposBegin"
      /\ First(B3) = "BeginFiles"
  BY DEF B1, B2, B3
<1>3. First(C1) = "ReposCommit" /\ First(F1) = "ReposCommit"
  BY DEF C1, F1
<1>4. First(C2) = "RegistryCommit" /\ First(F2) = "RegistryCommit"
  BY DEF C2, F2
<1>5. First(C3) = "Commit" /\ First(F3) = "EndFiles"
  BY DEF C3, F3
<1>6. First(A1) = "ReposAbort" /\ First(G1) = "ReposAbort"
  BY DEF A1, G1
<1>7. First(A2) = "RegistryAbort" /\ First(G2) = "RegistryAbort"
  BY DEF A2, G2
<1>8. First(A3) = "Abort" /\ First(E1) = "IndexCommit" /\ First(E2) = "End"
  BY DEF A3, E1, E2
<1> QED
  BY <1>1, <1>2, <1>3, <1>4, <1>5, <1>6, <1>7, <1>8

\* An activity that starts over is bound to nothing by its next step.
LEMMA LockRests ==
    ASSUME NEW w, NEW f, NEW c, NEW ok, NEW i, NEW g, NEW p,
           LockAt(w, f, c, ok, i, g, p),
           NEW e \in {"none", "quit", "RegistryBegin", "ReposCommit",
                      "ReposAbort", "IndexCommit", "End"}
    PROVE  LockAt(w, e, c, ok, i, g, p)
BY DEF LockAt

\* Another workflow changes an aggregate that it owns, or nobody.
LEMMA LockOthers ==
    ASSUME NEW w, NEW f, NEW c, NEW ok, NEW i, NEW g, NEW p, NEW g1, NEW p1,
           LockAt(w, f, c, ok, i, g, p),
           ~Owns(w, g), ~Owns(w, g1), ~Owns(w, p), ~Owns(w, p1),
           g1.wf = w => g1.tier = g.tier /\ g.wf = w,
           p1.wf = w => p1.tier = p.tier /\ p.wf = w
    PROVE  LockAt(w, f, c, ok, i, g1, p1)
BY DEF LockAt

\* LockAt depends on the tier and the workflow id of the two aggregates only.
LEMMA LockSame ==
    ASSUME NEW w, NEW f, NEW c, NEW ok, NEW i, NEW g, NEW p, NEW g1, NEW p1,
           LockAt(w, f, c, ok, i, g, p),
           g1.wf = g.wf, g1.tier = g.tier, p1.wf = p.wf, p1.tier = p.tier
    PROVE  LockAt(w, f, c, ok, i, g1, p1)
BY DEF LockAt, Owns

-----------------------------------------------------------------------------
(***************************************************************************)
(* The steps of a workflow, for what they do to the locks.                 *)
(***************************************************************************)

\* RegistryBegin.
LEMMA LockRegistryBegin ==
    ASSUME NEW w \in Workflows, NEW c, NEW ok, NEW i, NEW g, NEW p, NEW g1,
           LockAt(w, "RegistryBegin", c, ok, i, g, p), Nested(g, p),
           c = "Initialized", i = "active",
           g.tier \in {RegOp(w).from, RegOp(w).failed} \/ Owns(w, g),
           Owns(w, g1)
    PROVE  /\ LockAt(w, "ReposBegin", c, ok, i, g1, p) /\ Nested(g1, p)
           /\ \A v \in Workflows : v # w => ~Owns(v, g) /\ ~Owns(v, p)
<1>1. CASE Owns(w, g)
  <2>1. g1.wf = g.wf /\ g1.tier = g.tier
    BY <1>1 DEF Owns
  <2>2. Nested(g1, p)
    BY <2>1 DEF Nested, Owns
  <2>3. LockAt(w, "ReposBegin", c, ok, i, g1, p)
    BY <1>1, <2>1 DEF LockAt, Owns, Working, Released
  <2>4. \A v \in Workflows : v # w => ~Owns(v, g) /\ ~Owns(v, p)
    BY <1>1, OpsAre DEF Nested, Owns
  <2> QED
    BY <2>2, <2>3, <2>4
<1>2. CASE g.tier \in {RegOp(w).from, RegOp(w).failed}
  <2>1. g.tier \notin Doing /\ Settled(p.tier) = RegOp(w).from
    BY <1>2, OpsAre DEF Nested
  <2>2. p.tier \notin Doing
    BY <2>1, OpsAre DEF Nested, Owns
  <2>3. Nested(g1, p)
    BY <2>2, OpsAre DEF Nested, Owns
  <2>4. LockAt(w, "ReposBegin", c, ok, i, g1, p)
    BY <2>1 DEF LockAt, Owns, Working, Released
  <2>5. \A v \in Workflows : v # w => ~Owns(v, g) /\ ~Owns(v, p)
    BY <2>1, <2>2, OpsAre DEF Owns
  <2> QED
    BY <2>3, <2>4, <2>5
<1> QED
  BY <1>1, <1>2

\* A workflow that owns an aggregate is the only one.
LEMMA OnlyOwner ==
    ASSUME NEW w \in Workflows, NEW g, NEW p, Nested(g, p),
           Owns(w, g) \/ Owns(w, p)
    PROVE  /\ Owns(w, g)
           /\ \A v \in Workflows : v # w => ~Owns(v, g) /\ ~Owns(v, p)
BY OpsAre DEF Nested, Owns

\* ReposBegin.
LEMMA LockReposBegin ==
    ASSUME NEW w \in Workflows, NEW c, NEW ok, NEW i, NEW g, NEW p, NEW p1,
           LockAt(w, "ReposBegin", c, ok, i, g, p), Nested(g, p),
           c = "Initialized", Owns(w, p1)
    PROVE  LockAt(w, "BeginFiles", c, ok, i, g, p1) /\ Nested(g, p1)
<1>1. Owns(w, g)
  BY DEF LockAt
<1>2. Nested(g, p1)
  BY <1>1, OpsAre DEF Nested, Owns
<1>3. LockAt(w, "BeginFiles", c, ok, i, g, p1)
  BY <1>1 DEF LockAt, Owns, Working, Released
<1> QED
  BY <1>2, <1>3

\* ReposCommit, unless the repo remains as it is.
LEMMA LockReposCommit ==
    ASSUME NEW w \in Workflows, NEW c, NEW ok, NEW i, NEW g, NEW p, NEW p1,
           LockAt(w, "ReposCommit", c, ok, i, g, p), Nested(g, p),
           c = "FilesCompleted", Owns(w, p), p1.wf = w,
           p1.tier = RegOp(w).done
    PROVE  LockAt(w, "RegistryCommit", c, ok, i, g, p1) /\ Nested(g, p1)
<1>1. Owns(w, g)
  BY OnlyOwner
<1>2. ~Owns(w, p1) /\ p1.tier \notin Doing
  BY OpsAre DEF Owns
<1>3. Nested(g, p1)
  BY <1>1, <1>2, OpsAre DEF Nested, Owns
<1>4. LockAt(w, "RegistryCommit", c, ok, i, g, p1)
  BY <1>1, <1>2, OpsAre DEF LockAt, Working, Released
<1> QED
  BY <1>3, <1>4

\* ReposCommit when the repo has been committed before.
LEMMA LockReposCommitted ==
    ASSUME NEW w \in Workflows, NEW c, NEW ok, NEW i, NEW g, NEW p,
           LockAt(w, "ReposCommit", c, ok, i, g, p), Nested(g, p),
           c = "FilesCompleted", p.wf = w, ~Owns(w, p)
    PROVE  LockAt(w, "RegistryCommit", c, ok, i, g, p)
<1>1. p.tier = RegOp(w).done
  BY DEF LockAt, Owns
<1> QED
  BY <1>1 DEF LockAt, Working, Released

\* RegistryCommit, of a short or a long operation.
LEMMA LockRegistryCommit ==
    ASSUME NEW w \in Workflows, NEW c, NEW ok, NEW i, NEW g, NEW p, NEW g1,
           NEW f \in {"Commit", "EndFiles"},
           LockAt(w, "RegistryCommit", c, ok, i, g, p), Nested(g, p),
           c = "FilesCompleted", Owns(w, g), g1.wf = w,
           g1.tier = RegOp(w).done
    PROVE  LockAt(w, f, c, ok, i, g1, p) /\ Nested(g1, p)
<1>1. p.wf = w /\ p.tier = RegOp(w).done
  BY DEF LockAt
<1>2. ~Owns(w, p) /\ p.tier \notin Doing
  BY <1>1, OpsAre DEF Owns
<1>3. ~Owns(w, g1) /\ g1.tier \notin Doing
  BY OpsAre DEF Owns
<1>4. Nested(g1, p)
  BY <1>1, <1>2, <1>3, OpsAre DEF Nested
<1>5. LockAt(w, f, c, ok, i, g1, p)
  BY <1>1, <1>2, <1>3 DEF LockAt, Working, Released
<1> QED
  BY <1>4, <1>5

\* RegistryCommit when the registry has been committed before.
LEMMA LockRegistryCommitted ==
    ASSUME NEW w \in Workflows, NEW c, NEW ok, NEW i, NEW g, NEW p,
           NEW f \in {"Commit", "EndFiles"},
           LockAt(w, "RegistryCommit", c, ok, i, g, p),
           c = "FilesCompleted", ~Owns(w, g)
    PROVE  LockAt(w, f, c, ok, i, g, p)
BY DEF LockAt, Working, Released

\* ReposAbort, when there is something to abort.
LEMMA LockReposAbort ==
    ASSUME NEW w \in Workflows, NEW c, NEW ok, NEW i, NEW g, NEW p, NEW p1,
           LockAt(w, "ReposAbort", c, ok, i, g, p), Nested(g, p),
           c \notin Working, c # "FilesCompleted", Owns(w, p), p1.wf = w,
           p1.tier = RegOp(w).failed
    PROVE  LockAt(w, "RegistryAbort", c, ok, i, g, p1) /\ Nested(g, p1)
<1>1. Owns(w, g)
  BY OnlyOwner
<1>2. ~Owns(w, p1) /\ p1.tier \notin Doing
  BY OpsAre DEF Owns
<1>3. Nested(g, p1)
  BY <1>1, <1>2, OpsAre DEF Nested, Owns
<1>4. LockAt(w, "RegistryAbort", c, ok, i, g, p1)
  BY <1>1, <1>2, OpsAre DEF LockAt
<1> QED
  BY <1>3, <1>4

\* ReposAbort when there is nothing to abort.
LEMMA LockReposAborted ==
    ASSUME NEW w \in Workflows, NEW c, NEW ok, NEW i, NEW g, NEW p,
           LockAt(w, "ReposAbort", c, ok, i, g, p), ~Owns(w, p)
    PROVE  LockAt(w, "RegistryAbort", c, ok, i, g, p)
BY DEF LockAt

\* RegistryAbort.
LEMMA LockRegistryAbort ==
    ASSUME NEW w \in Workflows, NEW c, NEW ok, NEW i, NEW g, NEW p, NEW g1,
           NEW f \in {"Abort", "EndFiles"},
           LockAt(w, "RegistryAbort", c, ok, i, g, p), Nested(g, p),
           c \notin Working, c # "FilesCompleted", Owns(w, g), g1.wf = w,
           g1.tier = RegOp(w).failed
    PROVE  LockAt(w, f, c, ok, i, g1, p) /\ Nested(g1, p)
<1>1. ~Owns(w, p) /\ Settled(p.tier) = RegOp(w).from
  BY DEF LockAt
<1>2. p.tier \notin Doing
  BY <1>1, OnlyOwner DEF Nested
<1>3. ~Owns(w, g1) /\ g1.tier \notin Doing
  BY OpsAre DEF Owns
<1>4. Nested(g1, p)
  BY <1>1, <1>2, <1>3, OpsAre DEF Nested
<1>5. LockAt(w, f, c, ok, i, g1, p)
  BY <1>1, <1>3 DEF LockAt
<1> QED
  BY <1>4, <1>5

\* RegistryAbort when there is nothing to abort.
LEMMA LockRegistryAborted ==
    ASSUME NEW w \in Workflows, NEW c, NEW ok, NEW i, NEW g, NEW p,
           NEW f \in {"Abort", "EndFiles"},
           LockAt(w, "RegistryAbort", c, ok, i, g, p), ~Owns(w, g)
    PROVE  LockAt(w, f, c, ok, i, g, p)
BY DEF LockAt

-----------------------------------------------------------------------------
(***************************************************************************)
(* LockInv is an invariant.                                                *)
(***************************************************************************)

\* What an activity and the others have ahead after a move.
LEMMA MovedTodo ==
    ASSUME FlowInv, NEW w \in Workflows, NEW r \in Roles, NEW t, MovesTo(r, w, t)
    PROVE  /\ act'[r][w].todo = <<>> \/ act'[r][w].todo = t
           /\ \A y \in Roles, v \in Workflows :
                 y # r \/ v # w => act'[y][v] = act[y][v]
<1>1. PICK x : Moved(r, w, x, t)
  BY DEF MovesTo
<1>2. act' = [y \in Roles |-> [v \in Workflows |->
                IF y = r /\ v = w THEN x ELSE act[y][v]]]
  <2>1. act = [y \in Roles |-> [v \in Workflows |-> act[y][v]]]
    BY DEF FlowInv
  <2>2. act' = [act EXCEPT ![r][w] = x]
    BY <1>1 DEF Moved
  <2> QED
    BY <2>1, <2>2
<1> QED
  BY <1>1, <1>2 DEF Moved

\* After a command.
LEMMA TookTodo ==
    ASSUME FlowInv, NEW w \in Workflows, NEW r \in Roles, NEW t, NEW cmd, NEW to,
           Took(r, w, cmd, t, to)
    PROVE  /\ act'[r][w].todo = <<>> \/ act'[r][w].todo = t
           /\ \A y \in Roles, v \in Workflows :
                 y # r \/ v # w => act'[y][v] = act[y][v]
           /\ \A v \in Workflows : v # w => hist'[v] = hist[v]
<1>1. PICK x : act' = [act EXCEPT ![r][w] = x] /\ (x.todo = <<>> \/ x.todo = t)
  BY DEF Took
<1>2. act' = [y \in Roles |-> [v \in Workflows |->
                IF y = r /\ v = w THEN x ELSE act[y][v]]]
  <2>1. act = [y \in Roles |-> [v \in Workflows |-> act[y][v]]]
    BY DEF FlowInv
  <2> QED
    BY <1>1, <2>1
<1>3. \A v \in Workflows : v # w => hist'[v] = hist[v]
  BY DEF Took, Posted
<1> QED
  BY <1>1, <1>2, <1>3

\* Registry and repo are records.
Shaped(g, p) ==
    /\ g = [tier |-> g.tier, wf |-> g.wf]
    /\ p = [tier |-> p.tier, wf |-> p.wf, error |-> p.error, tar |-> p.tar]

\* A step of workflow `w': the others keep what they have.
LEMMA LockStep ==
    ASSUME LockInv, NEW w \in Workflows,
           \A v \in Workflows : v # w =>
              /\ act'["regd"][v].todo = act["regd"][v].todo
              /\ hist'[v] = hist[v] /\ index'[v] = index[v],
           Shaped(registry', repo'), Nested(registry', repo'),
           LockOf(w, act'["regd"][w].todo, hist'[w], index'[w], registry', repo'),
           \/ UNCHANGED <<registry, repo>>
           \/ /\ \A v \in Workflows : v # w => ~Owns(v, registry) /\ ~Owns(v, repo)
              /\ registry' = registry \/ registry'.wf = w
              /\ repo' = repo \/ repo'.wf = w
    PROVE  LockInv'
<1>1. ASSUME NEW v \in Workflows
      PROVE  LockOf(v, act'["regd"][v].todo, hist'[v], index'[v], registry', repo')
  <2>1. CASE v = w
    BY <2>1
  <2>2. CASE v # w
    <3>1. LockOf(v, act["regd"][v].todo, hist[v], index[v], registry, repo)
      BY DEF LockInv
    <3>2. /\ act'["regd"][v].todo = act["regd"][v].todo
          /\ hist'[v] = hist[v] /\ index'[v] = index[v]
      BY <2>2
    <3>3. CASE UNCHANGED <<registry, repo>>
      BY <3>1, <3>2, <3>3
    <3>4. CASE /\ ~Owns(v, registry) /\ ~Owns(v, repo)
               /\ registry' = registry \/ registry'.wf = w
               /\ repo' = repo \/ repo'.wf = w
      <4>1. ~Owns(v, registry') /\ ~Owns(v, repo')
        BY <2>2, <3>4 DEF Owns
      <4>2. /\ registry'.wf = v => registry'.tier = registry.tier /\ registry.wf = v
            /\ repo'.wf = v => repo'.tier = repo.tier /\ repo.wf = v
        BY <2>2, <3>4
      <4> DEFINE f == First(act["regd"][v].todo)
                 c == CodeOf(hist[v])
                 ok == StatusOk(StateOf(hist[v]))
                 i == index[v]
                 g == registry
                 p == repo
                 g1 == registry'
                 p1 == repo'
      <4>3. LockAt(v, f, c, ok, i, g, p)
        BY <3>1 DEF LockOf
      <4> HIDE DEF f, c, ok, i
      <4>4. LockAt(v, f, c, ok, i, g1, p1)
        BY <3>4, <4>1, <4>2, <4>3, LockOthers
      <4> QED
        BY <3>2, <4>4 DEF LockOf, f, c, ok, i
    <3> QED
      BY <2>2, <3>3, <3>4
  <2> QED
    BY <2>1, <2>2
<1> QED
  BY <1>1 DEF LockInv, Shaped

\* A move of nogfsoregd.
LEMMA LockMoves ==
    ASSUME FlowInv, LockInv, NEW w \in Workflows, NEW u, MovesTo("regd", w, u),
           UNCHANGED <<hist, index>>,
           Shaped(registry', repo'), Nested(registry', repo'),
           LockAt(w, First(u), CodeOf(hist[w]), StatusOk(StateOf(hist[w])),
                  index[w], registry', repo'),
           \/ UNCHANGED <<registry, repo>>
           \/ /\ \A v \in Workflows : v # w => ~Owns(v, registry) /\ ~Owns(v, repo)
              /\ registry' = registry \/ registry'.wf = w
              /\ repo' = repo \/ repo'.wf = w
    PROVE  LockInv'
<1>1. /\ act'["regd"][w].todo = <<>> \/ act'["regd"][w].todo = u
      /\ \A v \in Workflows : v # w => act'["regd"][v] = act["regd"][v]
  BY MovedTodo DEF Roles
<1> DEFINE c == CodeOf(hist[w])
           ok == StatusOk(StateOf(hist[w]))
           i == index[w]
           g1 == registry'
           p1 == repo'
           f == First(u)
<1>2. LockAt(w, "none", c, ok, i, g1, p1)
  <2>1. LockAt(w, f, c, ok, i, g1, p1)
    OBVIOUS
  <2> HIDE DEF c, ok, i, g1, p1, f
  <2> QED
    BY <2>1, LockRests
<1>3. LockOf(w, act'["regd"][w].todo, hist[w], index[w], registry', repo')
  <2>1. CASE act'["regd"][w].todo = u
    BY <2>1 DEF LockOf
  <2>2. CASE act'["regd"][w].todo = <<>>
    BY <1>2, <2>2, FirstsAre DEF LockOf
  <2> QED
    BY <1>1, <2>1, <2>2
<1> QED
  BY <1>1, <1>3, LockStep

\* The state of nogfsoregd is all that matters of the activities.
LEMMA LockUnchanged ==
    ASSUME LockInv, UNCHANGED <<hist, index, registry, repo>>,
           \A w \in Workflows : act'["regd"][w].todo = act["regd"][w].todo
    PROVE  LockInv'
BY DEF LockInv

\* The other daemons.
LEMMA LockQuiet ==
    ASSUME FlowInv, LockInv, NEW w \in Workflows, NEW r \in {"stad", "rstd"},
           NEW t, MovesTo(r, w, t), UNCHANGED <<hist, index, registry, repo>>
    PROVE  LockInv'
<1>1. \A v \in Workflows : act'["regd"][v] = act["regd"][v]
  BY MovedTodo DEF Roles
<1> QED
  BY <1>1, LockUnchanged

\* What LockInv says of one workflow.
LEMMA LockIs ==
    ASSUME LockInv, NEW w \in Workflows
    PROVE  /\ Shaped(registry, repo) /\ Nested(registry, repo)
           /\ LockAt(w, First(act["regd"][w].todo), CodeOf(hist[w]),
                     StatusOk(StateOf(hist[w])), index[w], registry, repo)
BY DEF LockInv, LockOf, Shaped

\* The steps that take the registry and the repo keep LockInv.
LEMMA LockKeepsBegin ==
    ASSUME FlowInv, LockInv, NEW w \in Workflows,
           RegistryBegin(w) \/ ReposBegin(w)
    PROVE  LockInv'
<1> DEFINE c == CodeOf(hist[w])
           ok == StatusOk(StateOf(hist[w]))
           i == index[w]
           g == registry
           p == repo
<1>0. /\ Shaped(g, p) /\ Nested(g, p)
      /\ LockAt(w, First(act["regd"][w].todo), c, ok, i, g, p)
  BY LockIs
<1>1. CASE RegistryBegin(w)
  <2>1. /\ act["regd"][w].todo = B1 /\ c = "Initialized"
        /\ \/ /\ \/ registry.tier \in {RegOp(w).from, RegOp(w).failed}
                 \/ registry = [tier |-> RegOp(w).doing, wf |-> w]
              /\ registry' = [tier |-> RegOp(w).doing, wf |-> w]
              /\ MovesTo("regd", w, B2)
           \/ UNCHANGED registry /\ MovesTo("regd", w, A1)
        /\ UNCHANGED <<repo, hist, index>>
    BY <1>1, RegistryBeginIs DEF flow
  <2>2. First(B1) = "RegistryBegin" /\ First(B2) = "ReposBegin"
        /\ First(A1) = "ReposAbort"
    BY FirstsAre
  <2>3. CASE UNCHANGED registry /\ MovesTo("regd", w, A1)
    <3>1. LockAt(w, "ReposAbort", c, ok, i, g, p)
      BY <1>0, LockRests
    <3> QED
      BY <1>0, <2>1, <2>2, <2>3, <3>1, LockMoves
  <2>4. CASE /\ \/ registry.tier \in {RegOp(w).from, RegOp(w).failed}
                \/ registry = [tier |-> RegOp(w).doing, wf |-> w]
             /\ registry' = [tier |-> RegOp(w).doing, wf |-> w]
             /\ MovesTo("regd", w, B2)
    <3> DEFINE g1 == registry'
    <3>1. Owns(w, g1) /\ g1.wf = w /\ Shaped(g1, p)
      BY <1>0, <2>4 DEF Owns, Shaped
    <3>2. g.tier \in {RegOp(w).from, RegOp(w).failed} \/ Owns(w, g)
      BY <2>4 DEF Owns
    <3>3. i = "active"
      <4>1. GoodAct("regd", w, act["regd"][w], hist[w], i) /\ GoodIndex(hist[w], i)
        BY DEF FlowInv, Roles
      <4>2. B1 # <<>>
        BY DEF B1
      <4> QED
        BY <2>1, <4>1, <4>2 DEF GoodAct, GoodIndex
    <3> HIDE DEF c, ok, i, g1
    <3>4. /\ LockAt(w, "ReposBegin", c, ok, i, g1, p) /\ Nested(g1, p)
          /\ \A v \in Workflows : v # w => ~Owns(v, g) /\ ~Owns(v, p)
      BY <1>0, <2>1, <2>2, <3>1, <3>2, <3>3, LockRegistryBegin
    <3> QED
      BY <1>0, <2>1, <2>2, <2>4, <3>1, <3>4, LockMoves DEF c, ok, i, g1
  <2> QED
    BY <2>1, <2>3, <2>4
<1>2. CASE ReposBegin(w)
  <2>1. /\ act["regd"][w].todo = B2 /\ c = "Initialized"
        /\ \/ /\ repo' = [repo EXCEPT !.tier = RepoOp(w).doing, !.wf = w]
              /\ MovesTo("regd", w, B3)
           \/ UNCHANGED repo /\ MovesTo("regd", w, A1)
        /\ UNCHANGED <<registry, hist, index>>
    BY <1>2, ReposBeginIs DEF flow
  <2>2. First(B2) = "ReposBegin" /\ First(B3) = "BeginFiles"
        /\ First(A1) = "ReposAbort"
    BY FirstsAre
  <2>3. CASE UNCHANGED repo /\ MovesTo("regd", w, A1)
    <3>1. LockAt(w, "ReposAbort", c, ok, i, g, p)
      BY <1>0, LockRests
    <3> QED
      BY <1>0, <2>1, <2>2, <2>3, <3>1, LockMoves
  <2>4. CASE /\ repo' = [repo EXCEPT !.tier = RepoOp(w).doing, !.wf = w]
             /\ MovesTo("regd", w, B3)
    <3> DEFINE p1 == repo'
    <3>1. Owns(w, p1) /\ p1.wf = w /\ Shaped(g, p1)
      BY <1>0, <2>4, OpsAre DEF Owns, Shaped
    <3> HIDE DEF c, ok, i, p1
    <3>2. LockAt(w, "BeginFiles", c, ok, i, g, p1) /\ Nested(g, p1)
      BY <1>0, <2>1, <2>2, <3>1, LockReposBegin
    <3>3. Owns(w, g)
      BY <1>0, <2>1, <2>2 DEF LockAt
    <3>4. \A v \in Workflows : v # w => ~Owns(v, g) /\ ~Owns(v, p)
      BY <1>0, <3>3, OnlyOwner
    <3> QED
      BY <1>0, <2>1, <2>2, <2>4, <3>1, <3>2, <3>4, LockMoves DEF c, ok, i, p1
  <2> QED
    BY <2>1, <2>3, <2>4
<1> QED
  BY <1>1, <1>2

\* The steps that commit the repo and the registry keep LockInv.
LEMMA LockKeepsCommit ==
    ASSUME FlowInv, LockInv, NEW w \in Workflows,
           ReposCommit(w) \/ RegistryCommit(w)
    PROVE  LockInv'
<1> DEFINE c == CodeOf(hist[w])
           ok == StatusOk(StateOf(hist[w]))
           i == index[w]
           g == registry
           p == repo
           t == act["regd"][w].todo
<1>0. /\ Shaped(g, p) /\ Nested(g, p)
      /\ LockAt(w, First(t), c, ok, i, g, p)
  BY LockIs
<1>1. CASE ReposCommit(w)
  <2>1. PICK u :
        /\ Ends(w, t, u, c, TRUE)
        /\ \/ /\ MayCommit(repo, RepoOp(w), w)
              /\ repo' = IF repo.tier # RepoOp(w).doing THEN repo
                         ELSE [repo EXCEPT
                                 !.tier = RepoOp(w).done,
                                 !.tar = IF OpOf[w] = "archive" THEN wtar[w]
                                         ELSE @]
              /\ MovesTo("regd", w, u)
           \/ UNCHANGED repo /\ MovesTo("regd", w, <<>>)
        /\ UNCHANGED <<registry, hist, index>>
    BY <1>1, ReposCommitIs DEF flow
  <2>2. /\ First(t) = "ReposCommit" /\ First(u) = "RegistryCommit"
        /\ c = "FilesCompleted"
    BY <2>1, FirstsAre DEF Ends
  <2>3. CASE UNCHANGED repo /\ MovesTo("regd", w, <<>>)
    <3>1. LockAt(w, "none", c, ok, i, g, p)
      BY <1>0, LockRests
    <3> QED
      BY <1>0, <2>1, <2>3, <3>1, LockMoves, FirstsAre
  <2>4. CASE /\ MovesTo("regd", w, u) /\ p.wf = w
             /\ repo.tier = RepoOp(w).doing
             /\ repo' = [repo EXCEPT
                           !.tier = RepoOp(w).done,
                           !.tar = IF OpOf[w] = "archive" THEN wtar[w] ELSE @]
    <3> DEFINE p1 == repo'
    <3>1. Owns(w, p) /\ p1.wf = w /\ p1.tier = RegOp(w).done /\ Shaped(g, p1)
      BY <1>0, <2>4, OpsAre DEF Owns, Shaped
    <3> HIDE DEF c, ok, i, p1, t
    <3>2. LockAt(w, "RegistryCommit", c, ok, i, g, p1) /\ Nested(g, p1)
      BY <1>0, <2>2, <3>1, LockReposCommit
    <3>3. \A v \in Workflows : v # w => ~Owns(v, g) /\ ~Owns(v, p)
      BY <1>0, <3>1, OnlyOwner
    <3> QED
      BY <1>0, <2>1, <2>2, <2>4, <3>1, <3>2, <3>3, LockMoves DEF c, ok, i, p1
  <2>5. CASE /\ MovesTo("regd", w, u) /\ p.wf = w
             /\ repo.tier # RepoOp(w).doing /\ UNCHANGED repo
    <3>1. ~Owns(w, p)
      BY <2>5, OpsAre DEF Owns
    <3> HIDE DEF c, ok, i, t
    <3>2. LockAt(w, "RegistryCommit", c, ok, i, g, p)
      BY <1>0, <2>2, <2>5, <3>1, LockReposCommitted
    <3> QED
      BY <1>0, <2>1, <2>2, <2>5, <3>2, LockMoves DEF c, ok, i
  <2> QED
    BY <2>1, <2>3, <2>4, <2>5 DEF MayCommit
<1>2. CASE RegistryCommit(w)
  <2>1. PICK u :
        /\ Ends(w, t, u, c, FALSE)
        /\ \/ /\ MayCommit(registry, RegOp(w), w)
              /\ registry' = [registry EXCEPT
                                !.tier = IF @ = RegOp(w).doing
                                         THEN RegOp(w).done ELSE @]
              /\ MovesTo("regd", w, u)
           \/ UNCHANGED registry /\ MovesTo("regd", w, <<>>)
        /\ UNCHANGED <<repo, hist, index>>
    BY <1>2, RegistryCommitIs DEF flow
  <2>2. /\ First(t) = "RegistryCommit" /\ First(u) \in {"Commit", "EndFiles"}
        /\ c = "FilesCompleted"
    BY <2>1, FirstsAre DEF Ends
  <2>3. CASE UNCHANGED registry /\ MovesTo("regd", w, <<>>)
    <3>1. LockAt(w, "none", c, ok, i, g, p)
      BY <1>0, LockRests
    <3> QED
      BY <1>0, <2>1, <2>3, <3>1, LockMoves, FirstsAre
  <2>4. CASE /\ MayCommit(registry, RegOp(w), w)
             /\ registry' = [registry EXCEPT
                               !.tier = IF @ = RegOp(w).doing
                                        THEN RegOp(w).done ELSE @]
             /\ MovesTo("regd", w, u)
    <3> DEFINE g1 == registry'
               f == First(u)
    <3>1. /\ g1.wf = w /\ Shaped(g1, p)
          /\ IF g.tier = RegOp(w).doing THEN g1.tier = RegOp(w).done
             ELSE g1 = g
      BY <1>0, <2>4 DEF Shaped, MayCommit
    <3>2. f \in {"Commit", "EndFiles"}
      BY <2>2
    <3> HIDE DEF c, ok, i, g1, t, f
    <3>3. CASE Owns(w, g)
      <4>1. LockAt(w, f, c, ok, i, g1, p) /\ Nested(g1, p)
        BY <1>0, <2>2, <3>1, <3>2, <3>3, LockRegistryCommit DEF Owns
      <4>2. \A v \in Workflows : v # w => ~Owns(v, g) /\ ~Owns(v, p)
        BY <1>0, <3>3, OnlyOwner
      <4> QED
        BY <1>0, <2>1, <2>4, <3>1, <4>1, <4>2, LockMoves DEF c, ok, i, g1, f
    <3>4. CASE ~Owns(w, g)
      <4>1. g1 = g
        BY <2>4, <3>1, <3>4 DEF Owns, MayCommit
      <4>2. LockAt(w, f, c, ok, i, g, p)
        BY <1>0, <2>2, <3>2, <3>4, LockRegistryCommitted
      <4> QED
        BY <1>0, <2>1, <2>4, <4>1, <4>2, LockMoves DEF c, ok, i, g1, f
    <3> QED
      BY <3>3, <3>4
  <2> QED
    BY <2>1, <2>3, <2>4
<1> QED
  BY <1>1, <1>2

\* The steps that abort the repo and the registry keep LockInv.
LEMMA LockKeepsAbort ==
    ASSUME FlowInv, LockInv, NEW w \in Workflows,
           ReposAbort(w) \/ RegistryAbort(w)
    PROVE  LockInv'
<1> DEFINE c == CodeOf(hist[w])
           ok == StatusOk(StateOf(hist[w]))
           i == index[w]
           g == registry
           p == repo
           t == act["regd"][w].todo
<1>0. /\ Shaped(g, p) /\ Nested(g, p)
      /\ LockAt(w, First(t), c, ok, i, g, p)
  BY LockIs
<1>1. CASE ReposAbort(w)
  <2>1. PICK u :
        /\ Undoes(w, t, u, c, TRUE)
        /\ \/ /\ MayAbort(repo, RepoOp(w), w)
              /\ repo' = IF repo.tier = RepoOp(w).failed THEN repo
                         ELSE [repo EXCEPT !.tier = RepoOp(w).failed,
                                           !.error = TRUE]
           \/ ~MayAbort(repo, RepoOp(w), w) /\ UNCHANGED repo
        /\ MovesTo("regd", w, u)
        /\ UNCHANGED <<registry, hist, index>>
    BY <1>1, ReposAbortIs DEF flow
  <2>2. /\ First(t) = "ReposAbort" /\ First(u) = "RegistryAbort"
        /\ c \notin Working /\ c # "FilesCompleted"
    BY <2>1, FirstsAre DEF Undoes, Aborts, Working
  <2>3. CASE Owns(w, p)
    <3> DEFINE p1 == repo'
    <3>1. p1 = [repo EXCEPT !.tier = RepoOp(w).failed, !.error = TRUE]
      BY <2>1, <2>3, OpsAre DEF Owns, MayAbort
    <3>2. p1.wf = w /\ p1.tier = RegOp(w).failed /\ Shaped(g, p1)
      BY <1>0, <2>3, <3>1, OpsAre DEF Owns, Shaped
    <3> HIDE DEF c, ok, i, p1, t
    <3>3. LockAt(w, "RegistryAbort", c, ok, i, g, p1) /\ Nested(g, p1)
      BY <1>0, <2>2, <2>3, <3>2, LockReposAbort
    <3>4. \A v \in Workflows : v # w => ~Owns(v, g) /\ ~Owns(v, p)
      BY <1>0, <2>3, OnlyOwner
    <3> QED
      BY <1>0, <2>1, <2>2, <3>2, <3>3, <3>4, LockMoves DEF c, ok, i, p1
  <2>4. CASE ~Owns(w, p)
    <3>1. UNCHANGED repo
      BY <2>1, <2>4, OpsAre DEF Owns, MayAbort
    <3> HIDE DEF c, ok, i, t
    <3>2. LockAt(w, "RegistryAbort", c, ok, i, g, p)
      BY <1>0, <2>2, <2>4, LockReposAborted
    <3> QED
      BY <1>0, <2>1, <2>2, <3>1, <3>2, LockMoves DEF c, ok, i
  <2> QED
    BY <2>3, <2>4
<1>2. CASE RegistryAbort(w)
  <2>1. PICK u :
        /\ Undoes(w, t, u, c, FALSE)
        /\ \/ /\ MayAbort(registry, RegOp(w), w)
              /\ registry' = [registry EXCEPT !.tier = RegOp(w).failed]
           \/ ~MayAbort(registry, RegOp(w), w) /\ UNCHANGED registry
        /\ MovesTo("regd", w, u)
        /\ UNCHANGED <<repo, hist, index>>
    BY <1>2, RegistryAbortIs DEF flow
  <2>2. /\ First(t) = "RegistryAbort" /\ First(u) \in {"Abort", "EndFiles"}
        /\ c \notin Working /\ c # "FilesCompleted"
    BY <2>1, FirstsAre DEF Undoes, Aborts, Working
  <2> DEFINE f == First(u)
  <2>3. f \in {"Abort", "EndFiles"}
    BY <2>2
  <2>4. CASE Owns(w, g)
    <3> DEFINE g1 == registry'
    <3>1. g1.wf = w /\ g1.tier = RegOp(w).failed /\ Shaped(g1, p)
      BY <1>0, <2>1, <2>4 DEF Owns, Shaped, MayAbort
    <3> HIDE DEF c, ok, i, g1, t, f
    <3>2. LockAt(w, f, c, ok, i, g1, p) /\ Nested(g1, p)
      BY <1>0, <2>2, <2>3, <2>4, <3>1, LockRegistryAbort
    <3>3. \A v \in Workflows : v # w => ~Owns(v, g) /\ ~Owns(v, p)
      BY <1>0, <2>4, OnlyOwner
    <3> QED
      BY <1>0, <2>1, <3>1, <3>2, <3>3, LockMoves DEF c, ok, i, g1, f
  <2>5. CASE ~Owns(w, g)
    <3>1. registry' = registry
      BY <1>0, <2>1, <2>5 DEF Owns, MayAbort, Shaped
    <3> HIDE DEF c, ok, i, t, f
    <3>2. LockAt(w, f, c, ok, i, g, p)
      BY <1>0, <2>2, <2>3, <2>5, LockRegistryAborted
    <3> QED
      BY <1>0, <2>1, <3>1, <3>2, LockMoves DEF c, ok, i, f
  <2> QED
    BY <2>4, <2>5
<1> QED
  BY <1>1, <1>2

\* The index entry of a workflow that has ended, or begins.
LEMMA LockIndex ==
    ASSUME LockInv, NEW w \in Workflows, NEW j,
           index' = [index EXCEPT ![w] = j],
           index = [v \in Workflows |-> index[v]],
           ~Owns(w, registry),
           UNCHANGED <<hist, registry, repo>>,
           \A v \in Workflows : v # w =>
               act'["regd"][v].todo = act["regd"][v].todo,
           First(act'["regd"][w].todo) \in
               {First(act["regd"][w].todo), "none", "End"}
    PROVE  LockInv'
<1> DEFINE c == CodeOf(hist[w])
           ok == StatusOk(StateOf(hist[w]))
           i == index[w]
           f == First(act["regd"][w].todo)
           e == First(act'["regd"][w].todo)
<1>0. /\ Shaped(registry, repo) /\ Nested(registry, repo)
      /\ LockAt(w, f, c, ok, i, registry, repo)
  BY LockIs
<1>1. e \in {f, "none", "End"}
  OBVIOUS
<1>2. index'[w] = j /\ \A v \in Workflows : v # w => index'[v] = index[v]
  OBVIOUS
<1> HIDE DEF c, ok, i, f, e
<1>3. LockAt(w, f, c, ok, j, registry, repo)
  BY <1>0 DEF LockAt
<1>4. LockAt(w, e, c, ok, j, registry, repo)
  BY <1>1, <1>3, LockRests
<1>5. LockOf(w, act'["regd"][w].todo, hist'[w], index'[w], registry', repo')
  BY <1>2, <1>4 DEF LockOf, c, ok, e
<1> QED
  BY <1>0, <1>2, <1>5, LockStep

\* The steps on the workflow index keep LockInv.
LEMMA LockKeepsIndex ==
    ASSUME FlowInv, LockInv, NEW w \in Workflows,
           IndexCommit(w) \/ BeginIndex(w) \/ BeginLost(w)
    PROVE  LockInv'
<1>0. /\ index = [v \in Workflows |-> index[v]]
      /\ LockAt(w, First(act["regd"][w].todo), CodeOf(hist[w]),
                StatusOk(StateOf(hist[w])), index[w], registry, repo)
  BY LockIs DEF FlowInv
<1>1. CASE IndexCommit(w)
  <2>1. /\ act["regd"][w].todo = E1
        /\ CodeOf(hist[w]) \in {"Completed", "Failed"}
        /\ index' = [index EXCEPT ![w] = "completed"]
        /\ MovesTo("regd", w, E2)
        /\ UNCHANGED <<registry, repo, hist>>
    BY <1>1, IndexCommitIs DEF aggregates
  <2>2. ~Owns(w, registry)
    BY <1>0, <2>1 DEF LockAt, Released
  <2>3. /\ act'["regd"][w].todo = <<>> \/ act'["regd"][w].todo = E2
        /\ \A v \in Workflows : v # w => act'["regd"][v] = act["regd"][v]
    BY <2>1, MovedTodo DEF Roles
  <2>4. First(act'["regd"][w].todo) \in {"none", "End"}
    BY <2>3, FirstsAre
  <2> QED
    BY <1>0, <2>1, <2>2, <2>3, <2>4, LockIndex
<1>2. CASE BeginIndex(w) \/ BeginLost(w)
  <2>1. /\ index[w] = "none"
        /\ \E j \in {"active", "orphan"} : index' = [index EXCEPT ![w] = j]
        /\ UNCHANGED <<registry, repo, hist, act>>
    BY <1>2, BeginIndexIs DEF aggregates
  <2>2. ~Owns(w, registry)
    BY <1>0, <2>1 DEF LockAt
  <2> QED
    BY <1>0, <2>1, <2>2, LockIndex
<1> QED
  BY <1>1, <1>2

\* A command to the workflow that has been accepted.
LEMMA LockTook ==
    ASSUME FlowInv, LockInv, NEW w \in Workflows, NEW r \in Roles,
           NEW cmd, NEW t, NEW to, Took(r, w, cmd, t, to),
           UNCHANGED <<registry, repo, index>>,
           NEW e, e = First(IF r = "regd" THEN t ELSE act["regd"][w].todo),
           LockAt(w, e, to,
                  StatusOk(Advance(w, StateOf(hist[w]), Tell(w, cmd).ev)),
                  index[w], registry, repo)
    PROVE  LockInv'
<1>1. /\ act'[r][w].todo = <<>> \/ act'[r][w].todo = t
      /\ \A y \in Roles, v \in Workflows :
            y # r \/ v # w => act'[y][v] = act[y][v]
      /\ \A v \in Workflows : v # w => hist'[v] = hist[v]
  BY TookTodo
<1>2. /\ CodeOf(hist'[w]) = to
      /\ StateOf(hist'[w]) = Advance(w, StateOf(hist[w]), Tell(w, cmd).ev)
  BY DEF Took, Posted
<1> DEFINE ok == StatusOk(Advance(w, StateOf(hist[w]), Tell(w, cmd).ev))
           i == index[w]
<1>3. LockAt(w, e, to, ok, i, registry, repo)
  OBVIOUS
<1> HIDE DEF ok, i
<1>4. LockAt(w, "none", to, ok, i, registry, repo)
  BY <1>3, LockRests
<1>5. First(act'["regd"][w].todo) \in {e, "none"}
  <2>1. CASE r = "regd"
    BY <1>1, <2>1, FirstsAre
  <2>2. CASE r # "regd"
    BY <1>1, <2>2 DEF Roles
  <2> QED
    BY <2>1, <2>2
<1>6. LockOf(w, act'["regd"][w].todo, hist'[w], index'[w], registry', repo')
  BY <1>2, <1>3, <1>4, <1>5 DEF LockOf, ok, i
<1>7. Shaped(registry, repo) /\ Nested(registry, repo)
  BY LockIs
<1>8. \A v \in Workflows : v # w => act'["regd"][v].todo = act["regd"][v].todo
  BY <1>1 DEF Roles
<1> QED
  BY <1>1, <1>6, <1>7, <1>8, LockStep

\* What nogfsoregd has ahead while other activities act.
LEMMA RegdRests ==
    ASSUME FlowInv, NEW w \in Workflows,
           CodeOf(hist[w]) \in Working \cup {"FilesEnded"}
    PROVE  First(act["regd"][w].todo) \in {"none", "quit"}
<1>1. RegdFits(w, act["regd"][w].todo, act["regd"][w].pos, CodeOf(hist[w]),
               Len(hist[w]))
  BY DEF FlowInv, GoodAct, Fits, Roles
<1>2. act["regd"][w].todo \in {<<>>, Quit}
  BY <1>1 DEF RegdFits, RegdTodo, Working
<1> QED
  BY <1>2, FirstsAre

\* The commands of nogfsoregd.
LEMMA LockKeepsRegdCommand ==
    ASSUME FlowInv, LockInv, NEW w \in Workflows,
           WfCommand("regd", w, RegdCommands)
    PROVE  LockInv'
<1> DEFINE c == CodeOf(hist[w])
           s == StateOf(hist[w])
           ok == StatusOk(s)
           i == index[w]
           g == registry
           p == repo
           t == act["regd"][w].todo
           ok1(cmd) == StatusOk(Advance(w, s, Tell(w, cmd).ev))
<1>0. LockAt(w, First(t), c, ok, i, g, p) /\ Shaped(g, p) /\ Nested(g, p)
  BY LockIs
<1>1. UNCHANGED <<registry, repo, index>>
  BY DEF WfCommand, aggregates
<1>2. ASSUME MovesTo("regd", w, <<>>), UNCHANGED hist
      PROVE  LockInv'
  <2>1. LockAt(w, "none", c, ok, i, g, p)
    BY <1>0, LockRests
  <2> QED
    BY <1>0, <1>1, <1>2, <2>1, LockMoves, FirstsAre
<1>3. \/ MovesTo("regd", w, <<>>) /\ UNCHANGED hist
      \/ /\ t = B3 /\ c = "Initialized"
         /\ Took("regd", w, "BeginFiles", <<>>, "Files")
      \/ /\ t = F3 /\ Long(w)
         /\ c \in {"FilesCompleted", "FilesFailed", "TarttFailed"}
         /\ Took("regd", w, "EndFiles", <<>>, "FilesEnded")
      \/ /\ t = C3
         /\ \/ Short(w) /\ c = "FilesCompleted"
            \/ Long(w) /\ c = "GcCompleted"
         /\ Took("regd", w, "Commit", E1, "Completed")
      \/ /\ t = A3 /\ Aborts(w, c)
         /\ Took("regd", w, "Abort", E1, "Failed")
      \/ /\ t = E2 /\ c \in {"Completed", "Failed"}
         /\ Took("regd", w, "End", Quit, "Terminated")
  BY RegdCommand DEF Outcome
<1>4. /\ First(B3) = "BeginFiles" /\ First(F3) = "EndFiles"
      /\ First(C3) = "Commit" /\ First(A3) = "Abort" /\ First(E2) = "End"
      /\ First(<<>>) = "none" /\ First(E1) = "IndexCommit" /\ First(Quit) = "quit"
  BY FirstsAre
<1>5. CASE t = B3 /\ c = "Initialized"
             /\ Took("regd", w, "BeginFiles", <<>>, "Files")
  <2> HIDE DEF ok1
  <2>1. LockAt(w, "none", "Files", ok1("BeginFiles"), i, g, p)
    BY <1>0, <1>4, <1>5 DEF LockAt, CodesOf, Working, Released
  <2> QED
    BY <1>1, <1>4, <1>5, <2>1, LockTook DEF Roles, ok1
<1>6. CASE /\ t = F3 /\ Long(w)
           /\ c \in {"FilesCompleted", "FilesFailed", "TarttFailed"}
           /\ Took("regd", w, "EndFiles", <<>>, "FilesEnded")
  <2>1. ok1("EndFiles") = ok
    BY <1>6, AllLead DEF Keeps
  <2> HIDE DEF ok1, ok
  <2>2. LockAt(w, "none", "FilesEnded", ok1("EndFiles"), i, g, p)
    BY <1>0, <1>4, <1>6, <2>1 DEF LockAt, CodesOf, Working, Released, Owns
  <2> QED
    BY <1>1, <1>4, <1>6, <2>2, LockTook DEF Roles, ok1
<1>7. CASE /\ t = C3
           /\ \/ Short(w) /\ c = "FilesCompleted"
              \/ Long(w) /\ c = "GcCompleted"
           /\ Took("regd", w, "Commit", E1, "Completed")
  <2>1. Long(w) => ok
    BY <1>7, AllLead DEF NeedsOk, Took
  <2> HIDE DEF ok1, ok
  <2>2. LockAt(w, "IndexCommit", "Completed", ok1("Commit"), i, g, p)
    BY <1>0, <1>4, <1>7, <2>1, OpCases
    DEF LockAt, CodesOf, Working, Released, Owns
  <2> QED
    BY <1>1, <1>4, <1>7, <2>2, LockTook DEF Roles, ok1
<1>8. CASE /\ t = A3 /\ Aborts(w, c)
           /\ Took("regd", w, "Abort", E1, "Failed")
  <2>1. ok1("Abort") = FALSE
    BY AllLead DEF Spoils
  <2> HIDE DEF ok1
  <2>2. LockAt(w, "IndexCommit", "Failed", ok1("Abort"), i, g, p)
    BY <1>0, <1>4, <1>8, <2>1 DEF LockAt, CodesOf, Working, Released
  <2> QED
    BY <1>1, <1>4, <1>8, <2>2, LockTook DEF Roles, ok1
<1>9. CASE /\ t = E2 /\ c \in {"Completed", "Failed"}
           /\ Took("regd", w, "End", Quit, "Terminated")
  <2>1. ok1("End") = ok
    BY AllLead DEF Keeps
  <2> HIDE DEF ok1, ok
  <2>2. LockAt(w, "quit", "Terminated", ok1("End"), i, g, p)
    BY <1>0, <1>4, <1>9, <2>1 DEF LockAt, CodesOf, Working, Released
  <2> QED
    BY <1>1, <1>4, <1>9, <2>2, LockTook DEF Roles, ok1
<1> QED
  BY <1>2, <1>3, <1>5, <1>6, <1>7, <1>8, <1>9

\* The commands of nogfsostad and nogfsorstd, by what they do to the lock.
LEMMA LockFilesCommand ==
    ASSUME NEW w \in Workflows, NEW f \in {"none", "quit"}, NEW c, NEW ok, NEW i,
           NEW g, NEW p, NEW to, NEW ok1, LockAt(w, f, c, ok, i, g, p),
           to \in CodesOf(w),
           \/ /\ c \in Working
              /\ \/ to \in Working \cup {"FilesCompleted"}
                 \/ to \in {"FilesFailed", "TarttFailed"} /\ (Long(w) => ok1 = FALSE)
           \/ c = "FilesEnded" /\ to = "GcCompleted" /\ ok1 = ok
    PROVE  LockAt(w, f, to, ok1, i, g, p)
BY DEF LockAt, Owns, Working, Released

\* The commands of nogfsostad keep LockInv.
LEMMA LockKeepsStadCommand ==
    ASSUME FlowInv, LockInv, NEW w \in Workflows,
           WfCommand("stad", w, StadCommands)
    PROVE  LockInv'
<1> DEFINE c == CodeOf(hist[w])
           s == StateOf(hist[w])
           ok == StatusOk(s)
           i == index[w]
           g == registry
           p == repo
           f == First(act["regd"][w].todo)
           ok1(cmd) == StatusOk(Advance(w, s, Tell(w, cmd).ev))
<1>0. LockAt(w, f, c, ok, i, g, p)
  BY LockIs
<1>1. UNCHANGED <<registry, repo, index>>
  BY DEF WfCommand, aggregates
<1>2. \/ MovesTo("stad", w, <<>>) /\ UNCHANGED hist
      \/ \E cmd, t, to :
            /\ Took("stad", w, cmd, t, to)
            /\ to \in CodesOf(w)
            /\ \/ /\ c \in Working
                  /\ \/ to \in Working \cup {"FilesCompleted"}
                     \/ to = "FilesFailed" /\ (Long(w) => ok1(cmd) = FALSE)
               \/ c = "FilesEnded" /\ to = "GcCompleted" /\ ok1(cmd) = ok
  <2>1. /\ Long(w) => ok1("AbortFiles") = FALSE
        /\ Long(w) => ok1("CommitGc") = ok
    BY AllLead DEF Spoils, Keeps
  <2> HIDE DEF ok1, ok
  <2> QED
    BY <2>1, StadCommand DEF Outcome, CodesOf, Working, Long
<1>3. CASE MovesTo("stad", w, <<>>) /\ UNCHANGED hist
  BY <1>1, <1>3, LockQuiet
<1>4. ASSUME NEW cmd, NEW t, NEW to,
             /\ Took("stad", w, cmd, t, to)
             /\ to \in CodesOf(w)
             /\ \/ /\ c \in Working
                   /\ \/ to \in Working \cup {"FilesCompleted"}
                      \/ to = "FilesFailed" /\ (Long(w) => ok1(cmd) = FALSE)
                \/ c = "FilesEnded" /\ to = "GcCompleted" /\ ok1(cmd) = ok
      PROVE  LockInv'
  <2>1. f \in {"none", "quit"}
    BY <1>4, RegdRests
  <2> HIDE DEF ok1, ok, c, i, f
  <2>2. LockAt(w, f, to, ok1(cmd), i, g, p)
    BY <1>0, <1>4, <2>1, LockFilesCommand
  <2> QED
    BY <1>1, <1>4, <2>2, LockTook DEF Roles, ok1, i, f
<1> QED
  BY <1>2, <1>3, <1>4

\* The commands of nogfsorstd keep LockInv.
LEMMA LockKeepsRstdCommand ==
    ASSUME FlowInv, LockInv, NEW w \in Workflows,
           WfCommand("rstd", w, RstdCommands)
    PROVE  LockInv'
<1> DEFINE c == CodeOf(hist[w])
           s == StateOf(hist[w])
           ok == StatusOk(s)
           i == index[w]
           g == registry
           p == repo
           f == First(act["regd"][w].todo)
           ok1(cmd) == StatusOk(Advance(w, s, Tell(w, cmd).ev))
<1>0. LockAt(w, f, c, ok, i, g, p)
  BY LockIs
<1>1. UNCHANGED <<registry, repo, index>>
  BY DEF WfCommand, aggregates
<1>2. \/ MovesTo("rstd", w, <<>>) /\ UNCHANGED hist
      \/ \E cmd, t, to :
            /\ Took("rstd", w, cmd, t, to)
            /\ to \in CodesOf(w)
            /\ c \in Working
            /\ \/ to \in Working
               \/ to = "TarttFailed" /\ ok1(cmd) = FALSE
  <2>1. OpOf[w] = "unarchive" => ok1("AbortTartt") = FALSE
    BY AllLead DEF Spoils
  <2> HIDE DEF ok1, ok
  <2> QED
    BY <2>1, RstdCommand DEF Outcome, CodesOf, Working, Long
<1>3. CASE MovesTo("rstd", w, <<>>) /\ UNCHANGED hist
  BY <1>1, <1>3, LockQuiet
<1>4. ASSUME NEW cmd, NEW t, NEW to,
             /\ Took("rstd", w, cmd, t, to)
             /\ to \in CodesOf(w)
             /\ c \in Working
             /\ \/ to \in Working
                \/ to = "TarttFailed" /\ ok1(cmd) = FALSE
      PROVE  LockInv'
  <2>1. f \in {"none", "quit"}
    BY <1>4, RegdRests
  <2> HIDE DEF ok1, ok, c, i, f
  <2>2. LockAt(w, f, to, ok1(cmd), i, g, p)
    BY <1>0, <1>4, <2>1, LockFilesCommand
  <2> QED
    BY <1>1, <1>4, <2>2, LockTook DEF Roles, ok1, i, f
<1> QED
  BY <1>2, <1>3, <1>4

\* The steps that nogfsoregd takes up in a state.
LEMMA LockKeepsView ==
    ASSUME FlowInv, LockInv, NEW w \in Workflows, NEW r \in RolesOf(w),
           ProcessView(r, w)
    PROVE  LockInv'
<1> DEFINE c == CodeOf(hist[w])
           ok == StatusOk(StateOf(hist[w]))
           i == index[w]
           g == registry
           p == repo
           f == First(act["regd"][w].todo)
<1>0. r \in Roles
  BY DEF RolesOf, Roles
<1>1. PICK x : /\ act' = [act EXCEPT ![r][w] = x]
               /\ x.todo \in Harmless(r, w) \/ x.todo \in StepsAt(r, w, c)
  BY ProcessViewKeeps
<1>2. act' = [y \in Roles |-> [v \in Workflows |->
                IF y = r /\ v = w THEN x ELSE act[y][v]]]
  <2>1. act = [y \in Roles |-> [v \in Workflows |-> act[y][v]]]
    BY DEF FlowInv
  <2> QED
    BY <1>0, <1>1, <2>1
<1>3. UNCHANGED <<hist, index, registry, repo>>
  BY DEF ProcessView, flow, aggregates
<1>4. CASE r # "regd"
  <2>1. \A v \in Workflows : act'["regd"][v].todo = act["regd"][v].todo
    BY <1>2, <1>4 DEF Roles
  <2> QED
    BY <1>3, <2>1, LockUnchanged
<1>5. CASE r = "regd"
  <2>1. LockAt(w, f, c, ok, i, g, p) /\ Shaped(g, p) /\ Nested(g, p)
    BY LockIs
  <2>2. \/ First(x.todo) \in {"none", "quit", "RegistryBegin", "ReposCommit",
                              "ReposAbort"}
        \/ c = "GcCompleted" /\ First(x.todo) = "Commit"
    <3>1. \/ x.todo \in {<<>>, Quit, B1, C1, F1, A1, G1}
          \/ c = "GcCompleted" /\ x.todo = C3
      BY <1>1, <1>5 DEF Harmless, StepsAt, RegdSteps
    <3> QED
      BY <3>1, FirstsAre
  <2> DEFINE e == First(x.todo)
  <2>3. \/ e \in {"none", "quit", "RegistryBegin", "ReposCommit", "ReposAbort"}
        \/ c = "GcCompleted" /\ e = "Commit"
    BY <2>2
  <2> HIDE DEF c, ok, i, f, e
  <2>4. LockAt(w, e, c, ok, i, g, p)
    <3>1. CASE e \in {"none", "quit", "RegistryBegin", "ReposCommit", "ReposAbort"}
      BY <2>1, <3>1, LockRests
    <3>2. CASE c = "GcCompleted" /\ e = "Commit"
      BY <2>1, <3>2 DEF LockAt, Released, Working
    <3> QED
      BY <2>3, <3>1, <3>2
  <2>5. act'["regd"][w] = x
        /\ \A v \in Workflows : v # w => act'["regd"][v] = act["regd"][v]
    BY <1>2, <1>5 DEF Roles
  <2>6. LockOf(w, act'["regd"][w].todo, hist'[w], index'[w], registry', repo')
    BY <1>3, <2>4, <2>5 DEF LockOf, c, ok, i, e
  <2> QED
    BY <1>3, <2>1, <2>5, <2>6, LockStep
<1> QED
  BY <1>4, <1>5

\* A workflow starts.
LEMMA LockKeepsBeginRepo ==
    ASSUME FlowInv, LockInv, NEW w \in Workflows, BeginRepo(w)
    PROVE  LockInv'
<1>1. /\ hist[w] = <<>> /\ index[w] = "none"
      /\ Posted(w, "Init")
      /\ CodeOf(hist'[w]) = "Initialized"
      /\ act["regd"][w].todo = <<>>
      /\ UNCHANGED <<registry, repo, index, act>>
  BY BeginRepoIs DEF Roles
<1>2. \A v \in Workflows : v # w => hist'[v] = hist[v]
  BY <1>1 DEF Posted
<1> DEFINE c == CodeOf(hist[w])
           ok == StatusOk(StateOf(hist[w]))
           ok1 == StatusOk(StateOf(hist'[w]))
           g == registry
           p == repo
<1>3. LockAt(w, "none", c, ok, "none", g, p) /\ Shaped(g, p) /\ Nested(g, p)
  BY <1>1, LockIs, FirstsAre
<1> HIDE DEF c, ok, ok1
<1>4. LockAt(w, "none", "Initialized", ok1, "none", g, p)
  BY <1>3 DEF LockAt, CodesOf, Working, Released
<1>5. LockOf(w, act'["regd"][w].todo, hist'[w], index'[w], registry', repo')
  BY <1>1, <1>4, FirstsAre DEF LockOf, ok1
<1> QED
  BY <1>1, <1>2, <1>3, <1>5, LockStep

\* A daemon restarts.
LEMMA LockKeepsRestarts ==
    ASSUME FlowInv, LockInv, NEW r \in Roles, Restarts(r)
    PROVE  LockInv'
<1>1. /\ act' = [x \in Roles |-> [w \in Workflows |->
                   IF x = r THEN Idle ELSE act[x][w]]]
      /\ UNCHANGED <<hist, index, registry, repo>>
  BY RestartsIs DEF flow, aggregates
<1>2. ASSUME NEW w \in Workflows
      PROVE  LockOf(w, act'["regd"][w].todo, hist[w], index[w], registry, repo)
  <2>1. act'["regd"][w].todo = act["regd"][w].todo \/ act'["regd"][w].todo = <<>>
    BY <1>1 DEF Roles, Idle
  <2> DEFINE c == CodeOf(hist[w])
             ok == StatusOk(StateOf(hist[w]))
             i == index[w]
             f == First(act["regd"][w].todo)
  <2>2. LockAt(w, f, c, ok, i, registry, repo)
    BY LockIs
  <2>3. LockAt(w, "none", c, ok, i, registry, repo)
    <3> HIDE DEF c, ok, i, f
    <3> QED
      BY <2>2, LockRests
  <2> QED
    BY <2>1, <2>2, <2>3, FirstsAre DEF LockOf
<1> QED
  BY <1>1, <1>2 DEF LockInv

\* Errors are stored on the repo and cleared.
LEMMA LockKeepsErrors ==
    ASSUME LockInv, SetRepoError \/ ClearRepoError
    PROVE  LockInv'
<1>1. PICK e : repo' = [repo EXCEPT !.error = e]
  BY DEF SetRepoError, ClearRepoError, SetRepo
<1>2. UNCHANGED <<hist, index, registry, act>>
  BY DEF SetRepoError, ClearRepoError, flow
<1>3. Shaped(registry, repo) /\ Nested(registry, repo)
  BY DEF LockInv, Shaped
<1>4. /\ repo'.tier = repo.tier /\ repo'.wf = repo.wf
      /\ Shaped(registry, repo')
  BY <1>1, <1>3 DEF Shaped
<1>5. Nested(registry, repo')
  BY <1>3, <1>4 DEF Nested, Owns
<1>6. ASSUME NEW w \in Workflows
      PROVE  LockOf(w, act["regd"][w].todo, hist[w], index[w], registry, repo')
  <2>1. LockOf(w, act["regd"][w].todo, hist[w], index[w], registry, repo)
    BY DEF LockInv
  <2> DEFINE c == CodeOf(hist[w])
             ok == StatusOk(StateOf(hist[w]))
             i == index[w]
             f == First(act["regd"][w].todo)
             g == registry
             p == repo
             p1 == repo'
  <2>2. LockAt(w, f, c, ok, i, g, p)
    BY <2>1 DEF LockOf
  <2>3. LockAt(w, f, c, ok, i, g, p1)
    <3> HIDE DEF f, c, ok, i
    <3> QED
      BY <1>4, <2>2, LockSame
  <2> QED
    BY <2>3 DEF LockOf
<1> QED
  BY <1>2, <1>4, <1>5, <1>6 DEF LockInv, Shaped

\* The steps that leave aggregates, histories, index and nogfsoregd alone.
LEMMA LockKeepsFiles ==
    ASSUME FlowInv, LockInv, NEW w \in Workflows,
           \/ ChattrBegin(w) \/ ChattrEnd(w)
           \/ PollTartt(w) \/ MakePlaceholder(w) \/ MakeRestore(w)
           \/ SetfaclChattr(w)
           \/ SwapOut(w) \/ SwapIn(w) \/ ShadowArchive(w) \/ SwapFails(w)
           \/ RemoveWorkingDir(w)
           \/ TarttRestore(w)
    PROVE  LockInv'
<1> DEFINE Q == \E r \in {"stad", "rstd"} : \E t :
                   /\ MovesTo(r, w, t)
                   /\ UNCHANGED <<hist, index, registry, repo>>
<1> SUFFICES Q
  BY LockQuiet
<1> USE DEF flow, aggregates
<1>1. CASE ChattrBegin(w)
  BY <1>1, ChattrBeginIs
<1>2. CASE ChattrEnd(w)
  BY <1>2, ChattrEndIs
<1>3. CASE PollTartt(w)
  BY <1>3, PollTarttIs
<1>4. CASE MakePlaceholder(w)
  BY <1>4, MakePlaceholderIs
<1>5. CASE MakeRestore(w)
  BY <1>5, MakeRestoreIs
<1>6. CASE SetfaclChattr(w)
  BY <1>6, SetfaclChattrIs
<1>7. CASE SwapOut(w)
  BY <1>7, SwapOutIs
<1>8. CASE SwapIn(w)
  BY <1>8, SwapInIs
<1>9. CASE ShadowArchive(w)
  BY <1>9, ShadowArchiveIs
<1>10. CASE SwapFails(w)
  BY <1>10, SwapFailsIs
<1>11. CASE RemoveWorkingDir(w)
  BY <1>11, RemoveWorkingDirIs
<1>12. CASE TarttRestore(w)
  BY <1>12, TarttRestoreIs
<1> QED
  BY <1>1, <1>2, <1>3, <1>4, <1>5, <1>6, <1>7, <1>8, <1>9, <1>10, <1>11, <1>12

\* A failing activity keeps LockInv.
LEMMA LockKeepsFails ==
    ASSUME FlowInv, LockInv, NEW w \in Workflows, NEW r \in RolesOf(w),
           Fails(r, w)
    PROVE  LockInv'
<1>1. MovesTo(r, w, <<>>) /\ UNCHANGED <<hist, index, registry, repo>>
  BY FailsIs DEF flow, aggregates
<1>2. CASE r \in {"stad", "rstd"}
  BY <1>1, <1>2, LockQuiet
<1>3. CASE r = "regd"
  <2> DEFINE c == CodeOf(hist[w])
             ok == StatusOk(StateOf(hist[w]))
             i == index[w]
             f == First(act["regd"][w].todo)
  <2>1. /\ LockAt(w, f, c, ok, i, registry, repo)
        /\ Shaped(registry, repo) /\ Nested(registry, repo)
    BY LockIs
  <2>2. LockAt(w, "none", c, ok, i, registry, repo)
    <3> HIDE DEF c, ok, i, f
    <3> QED
      BY <2>1, LockRests
  <2> QED
    BY <1>1, <1>3, <2>1, <2>2, LockMoves, FirstsAre
<1> QED
  BY <1>2, <1>3 DEF RolesOf, Roles

\* Every step keeps LockInv.
LEMMA LockNext ==
    ASSUME FlowInv, LockInv, [Next]_vars
    PROVE  LockInv'
<1>1. CASE UNCHANGED vars
  BY <1>1, LockUnchanged DEF vars
<1>2. ASSUME NEW w \in Workflows,
             \/ BeginRepo(w) \/ BeginIndex(w) \/ BeginLost(w)
             \/ RegdStep(w) \/ StadStep(w) \/ RstdStep(w)
             \/ \E r \in RolesOf(w) : Fails(r, w)
      PROVE  LockInv'
  <2>1. CASE BeginRepo(w)
    BY <2>1, LockKeepsBeginRepo
  <2>2. CASE BeginIndex(w) \/ BeginLost(w)
    BY <2>2, LockKeepsIndex
  <2>3. CASE \E r \in RolesOf(w) : Fails(r, w)
    BY <2>3, LockKeepsFails
  <2>4. CASE RegdStep(w)
    <3>1. "regd" \in RolesOf(w)
      BY DEF RolesOf, Roles
    <3> QED
      BY <2>4, <3>1, LockKeepsView, LockKeepsBegin, LockKeepsCommit,
         LockKeepsAbort, LockKeepsIndex, LockKeepsRegdCommand DEF RegdStep
  <2>5. CASE StadStep(w)
    <3>1. "stad" \in RolesOf(w)
      BY DEF RolesOf, Roles
    <3> QED
      BY <2>5, <3>1, LockKeepsView, LockKeepsFiles, LockKeepsStadCommand
      DEF StadStep
  <2>6. CASE RstdStep(w)
    <3>1. OpOf[w] = "unarchive" => "rstd" \in RolesOf(w)
      BY DEF RolesOf, Roles
    <3> QED
      BY <2>6, <3>1, LockKeepsView, LockKeepsFiles, LockKeepsRstdCommand
      DEF RstdStep
  <2> QED
    BY <1>2, <2>1, <2>2, <2>3, <2>4, <2>5, <2>6
<1>3. CASE \E r \in Roles : Restarts(r)
  BY <1>3, LockKeepsRestarts
<1>4. CASE Nogfsotard
  BY <1>4, LockUnchanged DEF Nogfsotard, flow, aggregates
<1>5. CASE SetRepoError \/ ClearRepoError
  BY <1>5, LockKeepsErrors
<1> QED
  BY <1>1, <1>2, <1>3, <1>4, <1>5 DEF Next

\* Initially no workflow owns an aggregate.
LEMMA LockInit ==
    ASSUME Init
    PROVE  LockInv
<1>1. PICK t \in {"online", "frozen", "archived"} :
          /\ registry = [tier |-> t, wf |-> NoWorkflow]
          /\ repo = [tier |-> t, wf |-> NoWorkflow, error |-> FALSE,
                     tar |-> IF t = "archived" THEN "data" ELSE "none"]
  BY DEF Init
<1>2. /\ registry.tier = t /\ repo.tier = t /\ registry.wf = NoWorkflow
      /\ repo.wf = NoWorkflow
  BY <1>1
<1>3. /\ registry = [tier |-> registry.tier, wf |-> registry.wf]
      /\ repo = [tier |-> repo.tier, wf |-> repo.wf, error |-> repo.error,
                 tar |-> repo.tar]
  BY <1>1
<1>4. Nested(registry, repo)
  BY <1>2 DEF Nested, Doing
<1>5. ASSUME NEW w \in Workflows
      PROVE  LockOf(w, act["regd"][w].todo, hist[w], index[w], registry, repo)
  <2>1. /\ act["regd"][w].todo = <<>> /\ hist[w] = <<>> /\ index[w] = "none"
    BY DEF Init, Roles, Idle
  <2>2. CodeOf(<<>>) = "Uninitialized"
    BY DEF CodeOf, StateOf, New, Scode
  <2>3. ~Owns(w, registry) /\ ~Owns(w, repo)
    BY <1>2, StorageAssumption DEF Owns
  <2> DEFINE ok == StatusOk(StateOf(<<>>))
  <2> HIDE DEF ok
  <2>4. LockAt(w, "none", "Uninitialized", ok, "none", registry, repo)
    BY <2>3 DEF LockAt, CodesOf, Working, Released
  <2> QED
    BY <2>1, <2>2, <2>4, FirstsAre DEF LockOf, ok
<1> QED
  BY <1>3, <1>4, <1>5 DEF LockInv

-----------------------------------------------------------------------------
(***************************************************************************)
(* The theorems.                                                           *)
(***************************************************************************)

\* What an activity has ahead always fits the state of its workflow.
THEOREM FlowInvariant == Spec => []FlowInv
<1>1. Init => FlowInv
  BY FlowInit
<1>2. FlowInv /\ [Next]_vars => FlowInv'
  BY FlowNext
<1> QED
  BY <1>1, <1>2, PTL DEF Spec

\* The registry is a lock around the repo.
THEOREM LockInvariant == Spec => []LockInv
<1>1. Init => LockInv
  BY LockInit
<1>2. FlowInv /\ LockInv /\ [Next]_vars => LockInv'
  BY LockNext
<1> QED
  BY <1>1, <1>2, FlowInvariant, PTL DEF Spec

\* At most one workflow works on the files of the repo, and registry and repo
\* then name it.
THEOREM OneOwner == Spec => []FilesHaveOneOwner
<1>1. LockInv => FilesHaveOneOwner
  <2> SUFFICES ASSUME LockInv
               PROVE  FilesHaveOneOwner
    OBVIOUS
  <2>1. ASSUME NEW w \in Workflows, WorksOnFiles(w)
        PROVE  /\ Owns(w, registry) /\ Owns(w, repo)
               /\ registry = [tier |-> RegOp(w).doing, wf |-> w]
               /\ repo.tier = RepoOp(w).doing
               /\ repo.wf = w
    <3>1. CodeOf(hist[w]) \in Working
      BY <2>1, StateIs DEF WorksOnFiles, Working
    <3>2. Owns(w, registry) /\ Owns(w, repo)
      BY <3>1, LockIs DEF LockAt
    <3>3. registry = [tier |-> registry.tier, wf |-> registry.wf]
      BY DEF LockInv
    <3> QED
      BY <3>2, <3>3, OpsAre DEF Owns
  <2> DEFINE S == {w \in Workflows : WorksOnFiles(w)}
  <2>2. \A v \in S, w \in S : v = w
    BY <2>1 DEF Owns
  <2>3. Cardinality(S) <= 1
    <3>1. CASE S = {}
      BY <3>1, FS_EmptySet
    <3>2. CASE \E w \in S : TRUE
      <4>1. PICK w \in S : TRUE
        BY <3>2
      <4>2. S = {w}
        BY <2>2, <4>1
      <4>3. Cardinality({w}) = 1
        BY FS_Singleton
      <4>4. Cardinality(S) = 1
        BY ONLY <4>2, <4>3
      <4> QED
        BY ONLY <4>4
    <3> QED
      BY <3>1, <3>2
  <2> QED
    BY <2>1, <2>3 DEF FilesHaveOneOwner
<1> QED
  BY <1>1, LockInvariant, PTL

\* The answers to a client that waits.
LEMMA Reports ==
    ASSUME LockInv, NEW w \in Workflows
    PROVE  /\ Get(w) = "ok" => /\ CodeOf(hist[w]) \in Released
                               /\ StatusOk(StateOf(hist[w]))
           /\ Get(w) = "failed" => CodeOf(hist[w]) \in Released
<1> DEFINE c == CodeOf(hist[w])
           s == StateOf(hist[w])
<1>1. c \in CodesOf(w) /\ c = Scode(s)
  BY LockIs DEF LockAt, CodeOf
<1>2. State(w) = s
  BY StateIs
<1> HIDE DEF c, s
<1>3. CASE OpOf[w] = "freeze"
  BY <1>1, <1>2, <1>3
  DEF Get, GetFreezeRepo, Report, CodesOf, Released, Long, c, s
<1>4. CASE OpOf[w] = "unfreeze"
  BY <1>1, <1>2, <1>4
  DEF Get, GetUnfreezeRepo, Report, CodesOf, Released, Long, c, s
<1>5. CASE OpOf[w] = "archive"
  BY <1>1, <1>2, <1>5
  DEF Get, GetArchiveRepo, Report, CodesOf, Released, Long, c, s
<1>6. CASE OpOf[w] = "unarchive"
  BY <1>1, <1>2, <1>6
  DEF Get, GetUnarchiveRepo, Report, CodesOf, Released, Long, c, s
<1> QED
  BY <1>3, <1>4, <1>5, <1>6, OpCases

\* A workflow that is reported to have succeeded has been applied in both
\* aggregates.
THEOREM ReportIsApplied == Spec => []ReportedMeansApplied
<1>1. LockInv => ReportedMeansApplied
  BY LockIs, Reports, OpsAre DEF ReportedMeansApplied, LockAt
<1> QED
  BY <1>1, LockInvariant, PTL

\* Nothing is pending for a workflow that is reported to have failed.
THEOREM NothingPending == Spec => []FailedMeansNothingPending
<1>1. LockInv => FailedMeansNothingPending
  BY LockIs, Reports, OpsAre DEF FailedMeansNothingPending, LockAt, Owns
<1> QED
  BY <1>1, LockInvariant, PTL

\* Registry and repo agree on the tier when no workflow is running.
THEOREM TiersAgree == Spec => []AggregatesAgree
<1>1. LockInv => AggregatesAgree
  <2> SUFFICES ASSUME LockInv,
                      \A w \in Workflows : index[w] = "active" => Finished(w)
               PROVE  Settled(registry.tier) = Settled(repo.tier)
    BY DEF AggregatesAgree
  <2>1. CASE registry.tier \notin Doing
    BY <2>1 DEF LockInv, Nested
  <2>2. CASE registry.tier \in Doing
    <3> DEFINE w == registry.wf
    <3>1. w \in Workflows /\ Owns(w, registry)
      BY <2>2 DEF LockInv, Nested
    <3>2. index[w] = "active" /\ CodeOf(hist[w]) \notin Released
      BY <3>1, LockIs DEF LockAt
    <3>3. ~Finished(w)
      BY <3>2, StateIs DEF Finished, Released
    <3> QED
      BY <3>1, <3>2, <3>3
  <2> QED
    BY <2>1, <2>2
<1> QED
  BY <1>1, LockInvariant, PTL

-----------------------------------------------------------------------------
(***************************************************************************)
(* FilesInv: where the data are.                                           *)
(***************************************************************************)

Archiving(w) == OpOf[w] = "archive"
Unarchiving(w) == OpOf[w] = "unarchive"

\* nogfsostad, with state `a', may yet make the placeholder of an archive
\* workflow that has gone on since: it has not seen all events of history `h',
\* or it has the steps ahead that follow an earlier event.
Behind(w, a, h) ==
    /\ Archiving(w)
    /\ \/ /\ a.pos > 0
          /\ \E q \in a.pos + 1 .. Len(h) :
                Scode(h[q].st) \in {"TarttCompleted", "SwapStarted"}
       \/ a.todo \in {P3, P4} /\ a.at < Len(h)

\* What an archive workflow has done to the files and its directory `d' in state
\* SwapStarted.
SwapAt(f, b, h, d, t) ==
    /\ t # "none"
    /\ \/ d.in = "placeholder" /\ (d.trash = "none" \/ h = "none")
       \/ d.trash # "none" /\ h = "placeholder"
    /\ b => d.in = "placeholder"
    /\ f = "SwapIn" => d.trash # "none"
    /\ f \in {"ShadowArchive", "CommitFiles"} => h = "placeholder"

\* What an unarchive workflow has done in state TarttCompleted.
RestoreAt(f, h, d) ==
    /\ \/ d.in = "none" /\ h = "immutable"
       \/ d.in \in Data /\ (d.trash = "none" \/ h = "none")
    /\ f = "SwapOut" => d.in = "immutable"
    /\ f = "SwapIn" => d.in = "immutable" /\ h = "none"
    /\ f = "CommitFiles" => h = "immutable"

\* What holds for workflow `w' with next steps `f' of nogfsostad and `e' of
\* nogfsorstd, `b' if nogfsostad is behind, state code `c', `own' if it owns the
\* registry, files `h', directory `d', latest archive `t', recorded archive `wt',
\* and `pa' if a placeholder has been accepted.
DiskAt(w, f, e, b, c, own, h, d, t, wt, pa) ==
    /\ c = "Uninitialized" => wt = "none"
    /\ Archiving(w) /\ c \in {"Initialized", "Files"} => wt = "none"
    /\ Unarchiving(w) /\ c # "Uninitialized" => wt # "none"
    /\ Archiving(w) /\ c \in {"TarttCompleted", "SwapStarted", "FilesCompleted"} =>
          wt # "none"
    /\ c \in {"Uninitialized", "Initialized", "Files", "Tartt"} => d.trash = "none"
    /\ b => d.trash = "none"
    /\ c = "FilesCompleted" /\ own => h = HostOf(RegOp(w).done) \/ pa
    /\ Short(w) /\ c = "Files" /\ f = "CommitFiles" => h = FilesOf(w)
    /\ Archiving(w) /\ c = "Files" /\ f = "CommitTartt" => t # "none"
    /\ Archiving(w) /\ c = "TarttCompleted" =>
          /\ t # "none" /\ d.trash = "none"
          /\ f = "BeginSwap" => d.in = "placeholder"
    /\ Archiving(w) /\ c = "SwapStarted" => SwapAt(f, b, h, d, t)
    /\ Unarchiving(w) /\ c = "Tartt" /\ e = "CommitTartt" =>
          pa \/ d.in = "writable"
    /\ Unarchiving(w) /\ c = "TarttCompleted" => pa \/ RestoreAt(f, h, d)

\* What the tiers in registry `g' and repo `p' say about the files and the
\* archive.
Held(g, p, h, t, pa) ==
    /\ p.tier \in Tiers
    /\ g.tier \in {"online", "frozen", "archived"} => h = HostOf(g.tier) \/ pa
    /\ p.tier \in {"archived", "unarchiving", "unarchiveFailed"} => p.tar # "none"
    /\ p.tar = "placeholder" => pa
    /\ p.tier \in {"online", "freezing", "freezeFailed",
                   "frozen", "unfreezing", "unfreezeFailed"} => h \in Data \/ pa
    /\ p.tier \in {"archiving", "archiveFailed"} =>
          /\ h \in Data \/ t # "none" \/ pa
          /\ p.wf \in Workflows /\ Archiving(p.wf)

DiskOf(w, stad, rstd, h, own, d, wt, pa, files, t) ==
    DiskAt(w, First(stad.todo), First(rstd.todo), Behind(w, stad, h), CodeOf(h),
           own, files, d, t, wt, pa)

FilesInv ==
    /\ tar \in Archives /\ repo.tar \in Archives
    /\ wtar \in [Workflows -> Archives]
    /\ dir = [w \in Workflows |-> [in |-> dir[w].in, trash |-> dir[w].trash]]
    /\ Held(registry, repo, host, tar, PlaceholderAccepted)
    /\ \A w \in Workflows :
          DiskOf(w, act["stad"][w], act["rstd"][w], hist[w], Owns(w, registry),
                 dir[w], wtar[w], PlaceholderAccepted, host, tar)

\* The next steps that say nothing about the files.
Unbound == {"none", "quit", "ChattrBegin", "ChattrEnd", "PollTartt",
            "MakePlaceholder", "MakeRestore", "BeginTartt", "SetfaclChattr",
            "AbortFiles", "RemoveWorkingDir", "CommitGc"}

\* The next steps of nogfsostad and nogfsorstd.
LEMMA StadFirstsAre ==
    /\ First(H1) = "ChattrBegin" /\ First(H2) = "ChattrEnd"
    /\ First(H3) = "CommitFiles" /\ First(H4) = "AbortFiles"
    /\ First(P1) = "PollTartt" /\ First(P2) = "CommitTartt"
    /\ First(P3) = "MakePlaceholder" /\ First(P4) = "BeginSwap"
    /\ First(S1) = "SwapOut" /\ First(S2) = "SwapIn"
    /\ First(S3) = "ShadowArchive" /\ First(S4) = "CommitFiles"
    /\ First(S5) = "AbortFiles"
    /\ First(U1) = "MakeRestore" /\ First(U2) = "BeginTartt"
    /\ First(V1) = "SetfaclChattr" /\ First(V2) = "SwapOut"
    /\ First(V3) = "SwapIn"
    /\ First(Z1) = "RemoveWorkingDir" /\ First(Z2) = "CommitGc"
    /\ First(R1) = "TarttRestore" /\ First(R2) = "CommitTartt"
    /\ First(R3) = "AbortTartt"
    /\ First(<<>>) = "none" /\ First(Quit) = "quit"
<1> USE DEF First
<1>1. /\ First(H1) = "ChattrBegin" /\ First(H2) = "ChattrEnd"
      /\ First(H3) = "CommitFiles" /\ First(H4) = "AbortFiles"
  BY DEF H1, H2, H3, H4
<1>2. /\ First(P1) = "PollTartt" /\ First(P2) = "CommitTartt"
      /\ First(P3) = "MakePlaceholder" /\ First(P4) = "BeginSwap"
  BY DEF P1, P2, P3, P4
<1>3. First(S1) = "SwapOut" /\ First(S2) = "SwapIn"
  BY DEF S1, S2
<1>4. First(S3) = "ShadowArchive" /\ First(S4) = "CommitFiles"
  BY DEF S3, S4
<1>5. First(S5) = "AbortFiles"
  BY DEF S5
<1>6. First(U1) = "MakeRestore" /\ First(U2) = "BeginTartt"
  BY DEF U1, U2
<1>7. First(V1) = "SetfaclChattr" /\ First(V2) = "SwapOut" /\ First(V3) = "SwapIn"
  BY DEF V1, V2, V3
<1>8. First(Z1) = "RemoveWorkingDir" /\ First(Z2) = "CommitGc"
  BY DEF Z1, Z2
<1>9. /\ First(R1) = "TarttRestore" /\ First(R2) = "CommitTartt"
      /\ First(R3) = "AbortTartt"
  BY DEF R1, R2, R3
<1>10. First(<<>>) = "none" /\ First(Quit) = "quit"
  BY FirstsAre
<1> QED
  BY <1>1, <1>2, <1>3, <1>4, <1>5, <1>6, <1>7, <1>8, <1>9, <1>10

\* What another workflow does to the registry, the files and the archive leaves
\* a workflow alone that does not work on the files.
LEMMA DiskOthers ==
    ASSUME NEW w, NEW f, NEW e, NEW b, NEW c, NEW own, NEW h, NEW d, NEW t,
           NEW wt, NEW pa, DiskAt(w, f, e, b, c, own, h, d, t, wt, pa),
           NEW own1, NEW h1, NEW t1, NEW pa1,
           own1 => own, pa => pa1,
           \/ h1 = h /\ (t # "none" => t1 # "none")
           \/ c \notin Working /\ ~own
    PROVE  DiskAt(w, f, e, b, c, own1, h1, d, t1, wt, pa1)
BY DEF DiskAt, Working, SwapAt, RestoreAt

\* An activity that starts over or goes on to a step that is not bound by the
\* files.
LEMMA DiskRests ==
    ASSUME NEW w, NEW f, NEW e, NEW b, NEW c, NEW own, NEW h, NEW d, NEW t,
           NEW wt, NEW pa, DiskAt(w, f, e, b, c, own, h, d, t, wt, pa),
           NEW f1, NEW e1, NEW b1,
           f1 = f \/ f1 \in Unbound \/ (f1 = "SwapOut" /\ Archiving(w)),
           e1 = e \/ e1 # "CommitTartt",
           b1 => b
    PROVE  DiskAt(w, f1, e1, b1, c, own, h, d, t, wt, pa)
BY DEF DiskAt, SwapAt, RestoreAt, Unbound, Archiving, Unarchiving

-----------------------------------------------------------------------------
(***************************************************************************)
(* When nogfsostad is behind.                                              *)
(***************************************************************************)

\* An activity that has nothing ahead, and whose position is gone or the last.
LEMMA NotBehind ==
    ASSUME NEW w, NEW a, NEW h, Len(h) \in Nat,
           a.todo \notin {P3, P4}, a.pos = 0 \/ a.pos = Len(h)
    PROVE  ~Behind(w, a, h)
BY DEF Behind

\* The steps to prepare a swap are not the ones to rest.
LEMMA PrepareNotRest == P3 \notin Resting /\ P4 \notin Resting
<1>1. First(P3) # First(<<>>) /\ First(P3) # First(Quit)
      /\ First(P4) # First(<<>>) /\ First(P4) # First(Quit)
  BY StadFirstsAre
<1> QED
  BY <1>1 DEF Resting

\* An activity that works at the files has seen all events.
LEMMA InPosition ==
    ASSUME FlowInv, NEW w \in Workflows,
           act["stad"][w].todo \in {H1, H2, S1, S2, S3, S4, U1, V1, V2, V3, Z1}
    PROVE  ~Behind(w, act["stad"][w], hist[w])
<1> DEFINE a == act["stad"][w]
           t == act["stad"][w].todo
           c == CodeOf(hist[w])
           n == Len(hist[w])
<1>1. StadFits(w, t, a.pos, a.at, c, n) /\ n \in Nat
  <2>1. GoodAct("stad", w, a, hist[w], index[w]) /\ GoodHist(w, hist[w])
    BY DEF FlowInv, Roles
  <2>2. n \in Nat
    BY <2>1 DEF GoodHist
  <2> QED
    BY <2>1, <2>2 DEF GoodAct, Fits
<1>2. First(t) \notin {"none", "quit", "MakePlaceholder", "BeginSwap", "AbortFiles"}
  BY StadFirstsAre
<1>3. t \notin {<<>>, Quit, P3, P4, S5}
  BY <1>2, StadFirstsAre
<1>4. a.pos = n
  BY <1>1, <1>3 DEF StadFits, Prepares
<1> QED
  BY <1>1, <1>3, <1>4, NotBehind

\* An activity does not fall behind by its own moves.
LEMMA BehindMoved ==
    ASSUME FlowInv, NEW w \in Workflows, NEW t, MovesTo("stad", w, t),
           hist'[w] = hist[w],
           t \in {P3, P4} => act["stad"][w].todo \in {P3, P4},
           Behind(w, act'["stad"][w], hist'[w])
    PROVE  Behind(w, act["stad"][w], hist[w])
<1>1. PICK x : Moved("stad", w, x, t)
  BY DEF MovesTo
<1>2. act'["stad"][w] = x
  <2>1. act = [y \in Roles |-> [v \in Workflows |-> act[y][v]]]
    BY DEF FlowInv
  <2>2. act' = [act EXCEPT !["stad"][w] = x]
    BY <1>1 DEF Moved
  <2> QED
    BY <2>1, <2>2 DEF Roles
<1> DEFINE a == act["stad"][w]
           h == hist[w]
<1>3. /\ x.todo = <<>> \/ x.todo = t
      /\ x.pos \in {0, a.pos}
      /\ x.todo \in Resting \/ (x.at = a.at /\ x.pos = a.pos)
  BY <1>1 DEF Moved
<1>4. Behind(w, x, h)
  BY <1>2
<1> HIDE DEF a, h
<1>5. x.todo \in {P3, P4} => x.at = a.at /\ a.todo \in {P3, P4}
  BY <1>3, PrepareNotRest DEF Resting, a
<1>6. Behind(w, a, h)
  BY <1>3, <1>4, <1>5 DEF Behind
<1> QED
  BY <1>6 DEF a, h

-----------------------------------------------------------------------------
(***************************************************************************)
(* FilesInv is an invariant.                                               *)
(***************************************************************************)

\* FilesInv for one workflow.
LEMMA DiskIs ==
    ASSUME FilesInv, NEW w \in Workflows
    PROVE  DiskAt(w, First(act["stad"][w].todo), First(act["rstd"][w].todo),
                  Behind(w, act["stad"][w], hist[w]), CodeOf(hist[w]),
                  Owns(w, registry), host, dir[w], tar, wtar[w],
                  PlaceholderAccepted)
BY DEF FilesInv, DiskOf

\* A step of workflow `w': the others keep what they have.
LEMMA FilesStep ==
    ASSUME FilesInv, NEW w \in Workflows,
           \A v \in Workflows : v # w =>
              /\ act'["stad"][v] = act["stad"][v]
              /\ act'["rstd"][v] = act["rstd"][v]
              /\ hist'[v] = hist[v] /\ wtar'[v] = wtar[v] /\ dir'[v] = dir[v]
              /\ Owns(v, registry') => Owns(v, registry),
           tar' \in Archives, repo'.tar \in Archives,
           wtar' \in [Workflows -> Archives],
           dir' = [v \in Workflows |-> [in |-> dir'[v].in, trash |-> dir'[v].trash]],
           PlaceholderAccepted => PlaceholderAccepted',
           \/ host' = host /\ (tar # "none" => tar' # "none")
           \/ \A v \in Workflows : v # w =>
                 CodeOf(hist[v]) \notin Working /\ ~Owns(v, registry),
           Held(registry', repo', host', tar', PlaceholderAccepted'),
           DiskAt(w, First(act'["stad"][w].todo), First(act'["rstd"][w].todo),
                  Behind(w, act'["stad"][w], hist'[w]), CodeOf(hist'[w]),
                  Owns(w, registry'), host', dir'[w], tar', wtar'[w],
                  PlaceholderAccepted')
    PROVE  FilesInv'
<1>1. ASSUME NEW v \in Workflows
      PROVE  DiskOf(v, act'["stad"][v], act'["rstd"][v], hist'[v],
                    Owns(v, registry'), dir'[v], wtar'[v], PlaceholderAccepted',
                    host', tar')
  <2>1. CASE v = w
    BY <2>1 DEF DiskOf
  <2>2. CASE v # w
    <3> DEFINE f == First(act["stad"][v].todo)
               e == First(act["rstd"][v].todo)
               b == Behind(v, act["stad"][v], hist[v])
               c == CodeOf(hist[v])
               own == Owns(v, registry)
               own1 == Owns(v, registry')
               d == dir[v]
               wt == wtar[v]
               pa == PlaceholderAccepted
               pa1 == PlaceholderAccepted'
               h1 == host'
               t1 == tar'
    <3>1. DiskAt(v, f, e, b, c, own, host, d, tar, wt, pa)
      BY DiskIs
    <3>2. /\ own1 => own
          /\ pa => pa1
          /\ \/ h1 = host /\ (tar # "none" => t1 # "none")
             \/ c \notin Working /\ ~own
      BY <2>2
    <3>3. /\ act'["stad"][v] = act["stad"][v]
          /\ act'["rstd"][v] = act["rstd"][v]
          /\ hist'[v] = hist[v] /\ wtar'[v] = wtar[v] /\ dir'[v] = dir[v]
      BY <2>2
    <3>4. DiskAt(v, f, e, b, c, own1, h1, d, t1, wt, pa1)
      <4> HIDE DEF f, e, b, c, own, own1, d, wt, pa, pa1, h1, t1
      <4> QED
        BY <3>1, <3>2, DiskOthers
    <3> QED
      BY <3>3, <3>4 DEF DiskOf
  <2> QED
    BY <2>1, <2>2
<1> QED
  BY <1>1 DEF FilesInv

\* A workflow that works on the files is the only one.
LEMMA WorksAlone ==
    ASSUME LockInv, NEW w \in Workflows, CodeOf(hist[w]) \in Working
    PROVE  /\ Owns(w, registry) /\ Owns(w, repo)
           /\ \A v \in Workflows : v # w =>
                 CodeOf(hist[v]) \notin Working /\ ~Owns(v, registry)
<1>1. Owns(w, registry) /\ Owns(w, repo)
  BY LockIs DEF LockAt
<1>2. Nested(registry, repo)
  BY LockIs
<1>3. \A v \in Workflows : v # w => ~Owns(v, registry) /\ ~Owns(v, repo)
  BY <1>1, <1>2, OnlyOwner
<1>4. \A v \in Workflows : CodeOf(hist[v]) \in Working => Owns(v, registry)
  BY LockIs DEF LockAt
<1> QED
  BY <1>1, <1>3, <1>4

\* Changes of the working directory.
LEMMA DirIs ==
    ASSUME FilesInv, NEW w \in Workflows
    PROVE  /\ dir[w] = [in |-> dir[w].in, trash |-> dir[w].trash]
           /\ dir = [dir EXCEPT ![w] = dir[w]]
           /\ \A x : [dir EXCEPT ![w].in = x]
                       = [dir EXCEPT ![w] = [in |-> x, trash |-> dir[w].trash]]
           /\ \A x : [dir EXCEPT ![w].trash = x]
                       = [dir EXCEPT ![w] = [in |-> dir[w].in, trash |-> x]]
BY DEF FilesInv

\* The working directory after a change.
LEMMA DirSet ==
    ASSUME FilesInv, NEW w \in Workflows, NEW x, NEW y,
           dir' = [dir EXCEPT ![w] = [in |-> x, trash |-> y]]
    PROVE  /\ dir'[w].in = x /\ dir'[w].trash = y
           /\ dir'[w] = [in |-> dir'[w].in, trash |-> dir'[w].trash]
           /\ dir' = [dir EXCEPT ![w] = dir'[w]]
           /\ \A v \in Workflows : v # w => dir'[v] = dir[v]
           /\ dir' = [v \in Workflows |->
                       [in |-> dir'[v].in, trash |-> dir'[v].trash]]
<1>1. dir = [v \in Workflows |-> [in |-> dir[v].in, trash |-> dir[v].trash]]
  BY DEF FilesInv
<1>2. dir' = [v \in Workflows |-> IF v = w THEN [in |-> x, trash |-> y]
                                 ELSE [in |-> dir[v].in, trash |-> dir[v].trash]]
  BY <1>1
<1>3. /\ dir'[w] = [in |-> x, trash |-> y]
      /\ \A v \in Workflows : v # w => dir'[v] = dir[v]
  BY <1>1, <1>2
<1>4. dir' = [dir EXCEPT ![w] = dir'[w]]
  BY <1>3
<1>5. dir' = [v \in Workflows |->
                [in |-> dir'[v].in, trash |-> dir'[v].trash]]
  <2>1. \A v \in Workflows :
           dir'[v] = [in |-> dir'[v].in, trash |-> dir'[v].trash]
    BY <1>1, <1>3
  <2>2. dir' = [v \in Workflows |-> dir'[v]]
    BY <1>2
  <2> QED
    BY <2>1, <2>2
<1> QED
  BY <1>3, <1>4, <1>5

\* A step of nogfsostad on the files.
LEMMA FilesStad ==
    ASSUME FlowInv, LockInv, FilesInv, NEW w \in Workflows, NEW t,
           MovesTo("stad", w, t),
           t \in {P3, P4} => act["stad"][w].todo \in {P3, P4},
           UNCHANGED <<aggregates, flow>>,
           NEW d1, dir' = [dir EXCEPT ![w] = d1],
           d1 = [in |-> d1.in, trash |-> d1.trash],
           tar' \in Archives,
           \/ host' = host /\ (tar # "none" => tar' # "none")
           \/ CodeOf(hist[w]) \in Working,
           Held(registry, repo, host', tar', PlaceholderAccepted),
           DiskAt(w, First(t), First(act["rstd"][w].todo),
                  Behind(w, act["stad"][w], hist[w]), CodeOf(hist[w]),
                  Owns(w, registry), host', d1, tar', wtar[w],
                  PlaceholderAccepted)
    PROVE  FilesInv'
<1>1. /\ act'["stad"][w].todo = <<>> \/ act'["stad"][w].todo = t
      /\ \A v \in Workflows : v # w => act'["stad"][v] = act["stad"][v]
      /\ \A v \in Workflows : act'["rstd"][v] = act["rstd"][v]
  BY MovedTodo DEF Roles
<1>2. UNCHANGED <<registry, repo, hist, wtar>>
  BY DEF aggregates, flow
<1>3. PlaceholderAccepted' = PlaceholderAccepted
  BY <1>2 DEF PlaceholderAccepted
<1>4. /\ dir'[w] = d1
      /\ \A v \in Workflows : v # w => dir'[v] = dir[v]
      /\ dir' = [v \in Workflows |-> [in |-> dir'[v].in, trash |-> dir'[v].trash]]
  BY DEF FilesInv
<1> DEFINE f == First(t)
           f1 == First(act'["stad"][w].todo)
           e == First(act["rstd"][w].todo)
           b == Behind(w, act["stad"][w], hist[w])
           b1 == Behind(w, act'["stad"][w], hist'[w])
           c == CodeOf(hist[w])
           own == Owns(w, registry)
           wt == wtar[w]
           pa == PlaceholderAccepted
           h1 == host'
           t1 == tar'
<1>5. DiskAt(w, f, e, b, c, own, h1, d1, t1, wt, pa)
  OBVIOUS
<1>6. f1 = f \/ f1 = "none"
  BY <1>1, StadFirstsAre
<1>7. b1 => b
  BY <1>2, BehindMoved
<1>8. DiskAt(w, f1, e, b1, c, own, h1, d1, t1, wt, pa)
  <2> HIDE DEF f, f1, e, b, b1, c, own, wt, pa, h1, t1
  <2>1. f1 = f \/ f1 \in Unbound
    BY <1>6 DEF Unbound
  <2> QED
    BY ONLY <1>5, <1>7, <2>1, DiskRests
<1>9. DiskAt(w, First(act'["stad"][w].todo), First(act'["rstd"][w].todo),
             Behind(w, act'["stad"][w], hist'[w]), CodeOf(hist'[w]),
             Owns(w, registry'), host', dir'[w], tar', wtar'[w],
             PlaceholderAccepted')
  BY <1>1, <1>2, <1>3, <1>4, <1>8
<1>10. repo'.tar \in Archives /\ wtar' \in [Workflows -> Archives]
  BY <1>2 DEF FilesInv
<1>11. \/ host' = host /\ (tar # "none" => tar' # "none")
       \/ \A v \in Workflows : v # w =>
             CodeOf(hist[v]) \notin Working /\ ~Owns(v, registry)
  BY WorksAlone
<1>12. \A v \in Workflows : v # w =>
          /\ act'["stad"][v] = act["stad"][v]
          /\ act'["rstd"][v] = act["rstd"][v]
          /\ hist'[v] = hist[v] /\ wtar'[v] = wtar[v] /\ dir'[v] = dir[v]
          /\ Owns(v, registry') => Owns(v, registry)
  BY <1>1, <1>2, <1>4
<1>13. Held(registry', repo', host', tar', PlaceholderAccepted')
  BY <1>2, <1>3
<1>14. PlaceholderAccepted => PlaceholderAccepted'
  BY <1>3
<1> QED
  BY <1>4, <1>9, <1>10, <1>11, <1>12, <1>13, <1>14, FilesStep

-----------------------------------------------------------------------------
(***************************************************************************)
(* The steps on the files.                                                 *)
(***************************************************************************)

\* The tiers of the operations.
LEMMA TiersAre ==
    ASSUME NEW w \in Workflows
    PROVE  /\ Short(w) =>
                 /\ RegOp(w).doing \in {"freezing", "unfreezing"}
                 /\ RegOp(w).failed \in {"freezeFailed", "unfreezeFailed"}
                 /\ RegOp(w).from \in {"online", "frozen"}
                 /\ RegOp(w).done \in {"online", "frozen"}
                 /\ FilesOf(w) = HostOf(RegOp(w).done)
                 /\ FilesOf(w) \in Data
           /\ Archiving(w) =>
                 /\ RegOp(w).doing = "archiving" /\ RegOp(w).done = "archived"
                 /\ RegOp(w).from = "frozen" /\ RegOp(w).failed = "archiveFailed"
                 /\ HostOf(RegOp(w).done) = "placeholder"
           /\ Unarchiving(w) =>
                 /\ RegOp(w).doing = "unarchiving" /\ RegOp(w).done = "frozen"
                 /\ RegOp(w).from = "archived"
                 /\ RegOp(w).failed = "unarchiveFailed"
                 /\ HostOf(RegOp(w).done) = "immutable"
           /\ Short(w) \/ Archiving(w) \/ Unarchiving(w)
<1> USE DEF RegOp, TierOp, HostOf, Short, Archiving, Unarchiving
<1>1. CASE OpOf[w] = "freeze"
  BY <1>1 DEF RegistryFreeze, FilesOf, Data
<1>2. CASE OpOf[w] = "unfreeze"
  BY <1>2 DEF RegistryUnfreeze, FilesOf, Data
<1>3. CASE OpOf[w] = "archive"
  BY <1>3 DEF RegistryArchive
<1>4. CASE OpOf[w] = "unarchive"
  BY <1>4 DEF RegistryUnarchive
<1> QED
  BY <1>1, <1>2, <1>3, <1>4, OpCases

\* While a workflow works on the files, the tiers allow for what it does.
LEMMA HeldWorking ==
    ASSUME NEW w \in Workflows, NEW g, NEW p, NEW h, NEW t, NEW pa,
           Held(g, p, h, t, pa), Owns(w, g), Owns(w, p), NEW h1, NEW t1,
           Short(w) => h1 = h \/ h1 \in Data,
           Archiving(w) => t1 # "none"
    PROVE  Held(g, p, h1, t1, pa)
<1>1. CASE Short(w)
  BY <1>1, TiersAre DEF Held, Owns
<1>2. CASE Archiving(w)
  BY <1>2, TiersAre DEF Held, Owns
<1>3. CASE Unarchiving(w)
  BY <1>3, TiersAre DEF Held, Owns
<1> QED
  BY <1>1, <1>2, <1>3, TiersAre

\* Freeze and unfreeze change the files.
LEMMA DiskChattr ==
    ASSUME NEW w, Short(w), NEW f, NEW e, NEW b, NEW own, NEW h, NEW d, NEW t,
           NEW wt, NEW pa, DiskAt(w, f, e, b, "Files", own, h, d, t, wt, pa),
           NEW f1, NEW h1, NEW t1, f1 = "CommitFiles" => h1 = FilesOf(w)
    PROVE  DiskAt(w, f1, e, b, "Files", own, h1, d, t1, wt, pa)
BY DEF DiskAt, Short, Archiving, Unarchiving

\* An archive workflow has found an archive.
LEMMA DiskPolled ==
    ASSUME NEW w, Archiving(w), NEW f, NEW e, NEW b, NEW own, NEW h, NEW d,
           NEW t, NEW wt, NEW pa,
           DiskAt(w, f, e, b, "Files", own, h, d, t, wt, pa), t # "none"
    PROVE  DiskAt(w, "CommitTartt", e, b, "Files", own, h, d, t, wt, pa)
BY DEF DiskAt, Short, Archiving, Unarchiving

\* It makes the placeholder.
LEMMA DiskPlaceholder ==
    ASSUME NEW w, Archiving(w), NEW f, NEW e, NEW b, NEW c, NEW own, NEW h,
           NEW d, NEW t, NEW wt, NEW pa,
           DiskAt(w, f, e, b, c, own, h, d, t, wt, pa),
           b \/ c = "TarttCompleted",
           NEW d1, d1.in = "placeholder", d1.trash = "none"
    PROVE  /\ DiskAt(w, "BeginSwap", e, b, c, own, h, d1, t, wt, pa)
           /\ d.trash = "none"
BY DEF DiskAt, Short, Archiving, Unarchiving, SwapAt

\* An unarchive workflow makes the directory for the restore.
LEMMA DiskEmpty ==
    ASSUME NEW w, Unarchiving(w), NEW f, NEW e, NEW b, NEW own, NEW h, NEW d,
           NEW t, NEW wt, NEW pa,
           DiskAt(w, f, e, b, "Files", own, h, d, t, wt, pa),
           NEW d1, d1.trash = "none"
    PROVE  /\ DiskAt(w, "BeginTartt", e, b, "Files", own, h, d1, t, wt, pa)
           /\ d.trash = "none"
BY DEF DiskAt, Short, Archiving, Unarchiving

\* The restored files get their attributes.
LEMMA DiskSetfacl ==
    ASSUME NEW w, Unarchiving(w), NEW f, NEW e, NEW b, NEW own, NEW h, NEW d,
           NEW t, NEW wt, NEW pa,
           DiskAt(w, f, e, b, "TarttCompleted", own, h, d, t, wt, pa),
           d.in # "none",
           NEW d1, d1.in = (IF d.in \in Data THEN "immutable" ELSE d.in),
           d1.trash = d.trash
    PROVE  DiskAt(w, "SwapOut", e, b, "TarttCompleted", own, h, d1, t, wt, pa)
<1>1. pa \/ RestoreAt("SwapOut", h, d1)
  BY DEF DiskAt, RestoreAt, Data
<1> QED
  BY <1>1 DEF DiskAt, Short, Archiving, Unarchiving

\* The files are moved out, for an archive and an unarchive.
LEMMA DiskSwapOut ==
    ASSUME NEW w, NEW f, NEW e, NEW b, NEW c, NEW own, NEW h, NEW d,
           NEW t, NEW wt, NEW pa, DiskAt(w, f, e, b, c, own, h, d, t, wt, pa),
           ~b,
           \/ Archiving(w) /\ c = "SwapStarted"
           \/ Unarchiving(w) /\ c = "TarttCompleted" /\ f = "SwapOut",
           NEW d1, NEW h1, d1.in = d.in,
           \/ d.trash = "none" /\ h # "none" /\ d1.trash = h /\ h1 = "none"
           \/ d.trash # "none" /\ d1.trash = d.trash /\ h1 = h
    PROVE  DiskAt(w, "SwapIn", e, b, c, own, h1, d1, t, wt, pa)
<1>1. CASE Archiving(w) /\ c = "SwapStarted"
  <2>1. SwapAt("SwapIn", b, h1, d1, t)
    BY <1>1 DEF DiskAt, SwapAt
  <2> QED
    BY <1>1, <2>1 DEF DiskAt, Archiving, Unarchiving, Short
<1>2. CASE Unarchiving(w) /\ c = "TarttCompleted" /\ f = "SwapOut"
  <2>1. pa \/ RestoreAt("SwapIn", h1, d1)
    BY <1>2 DEF DiskAt, RestoreAt, Data
  <2> QED
    BY <1>2, <2>1 DEF DiskAt, Archiving, Unarchiving, Short
<1> QED
  BY <1>1, <1>2

\* The placeholder or the restored files are moved in.
LEMMA DiskSwapIn ==
    ASSUME NEW w, NEW e, NEW b, NEW c, NEW own, NEW h, NEW d, NEW t, NEW wt,
           NEW pa, DiskAt(w, "SwapIn", e, b, c, own, h, d, t, wt, pa), ~b,
           NEW f1,
           \/ Archiving(w) /\ c = "SwapStarted" /\ f1 = "ShadowArchive"
           \/ Unarchiving(w) /\ c = "TarttCompleted" /\ f1 = "CommitFiles",
           NEW d1, NEW h1, d1.trash = d.trash,
           \/ h = "none" /\ d.in # "none" /\ d1.in = "none" /\ h1 = d.in
           \/ h # "none" /\ d1.in = d.in /\ h1 = h
    PROVE  DiskAt(w, f1, e, b, c, own, h1, d1, t, wt, pa)
<1>1. CASE Archiving(w) /\ c = "SwapStarted" /\ f1 = "ShadowArchive"
  <2>1. SwapAt(f1, b, h1, d1, t)
    BY <1>1 DEF DiskAt, SwapAt
  <2> QED
    BY <1>1, <2>1 DEF DiskAt, Archiving, Unarchiving, Short
<1>2. CASE Unarchiving(w) /\ c = "TarttCompleted" /\ f1 = "CommitFiles"
  <2>1. pa \/ RestoreAt(f1, h1, d1)
    BY <1>2 DEF DiskAt, RestoreAt, Data
  <2> QED
    BY <1>2, <2>1 DEF DiskAt, Archiving, Unarchiving, Short
<1> QED
  BY <1>1, <1>2

\* The shadow repo is told.
LEMMA DiskShadow ==
    ASSUME NEW w, NEW e, NEW b, NEW own, NEW h, NEW d, NEW t, NEW wt, NEW pa,
           Archiving(w),
           DiskAt(w, "ShadowArchive", e, b, "SwapStarted", own, h, d, t, wt, pa)
    PROVE  DiskAt(w, "CommitFiles", e, b, "SwapStarted", own, h, d, t, wt, pa)
BY DEF DiskAt, SwapAt, Archiving, Unarchiving, Short

\* The working directory is removed.
LEMMA DiskRemoved ==
    ASSUME NEW w, NEW f, NEW e, NEW b, NEW own, NEW h, NEW d, NEW t, NEW wt,
           NEW pa, DiskAt(w, f, e, b, "FilesEnded", own, h, d, t, wt, pa),
           NEW f1, NEW d1, d1 = d \/ d1.trash = "none"
    PROVE  DiskAt(w, f1, e, b, "FilesEnded", own, h, d1, t, wt, pa)
BY DEF DiskAt

\* The files are restored.
LEMMA DiskRestored ==
    ASSUME NEW w, NEW f, NEW e, NEW b, NEW own, NEW h, NEW d, NEW t, NEW wt,
           NEW pa, Unarchiving(w),
           DiskAt(w, f, e, b, "Tartt", own, h, d, t, wt, pa),
           wt \in Archives, wt = "placeholder" => pa,
           NEW e1, NEW d1, d1.trash = d.trash,
           e1 = "CommitTartt" =>
              d1.in = (IF wt = "data" THEN "writable" ELSE wt)
    PROVE  DiskAt(w, f, e1, b, "Tartt", own, h, d1, t, wt, pa)
BY DEF DiskAt, Archiving, Unarchiving, Short, Archives

\* What the steps start from.
LEMMA FilesAre ==
    ASSUME FilesInv
    PROVE  /\ tar \in Archives /\ repo.tar \in Archives
           /\ wtar \in [Workflows -> Archives]
           /\ Held(registry, repo, host, tar, PlaceholderAccepted)
BY DEF FilesInv

\* A step of nogfsostad that changes the working directory only.
LEMMA FilesStadDir ==
    ASSUME FlowInv, LockInv, FilesInv, NEW w \in Workflows, NEW t,
           MovesTo("stad", w, t),
           t \in {P3, P4} => act["stad"][w].todo \in {P3, P4},
           UNCHANGED <<aggregates, host, tar, flow>>,
           NEW d1, dir' = [dir EXCEPT ![w] = d1],
           d1 = [in |-> d1.in, trash |-> d1.trash],
           NEW f, f = First(t),
           DiskAt(w, f, First(act["rstd"][w].todo),
                  Behind(w, act["stad"][w], hist[w]), CodeOf(hist[w]),
                  Owns(w, registry), host, d1, tar, wtar[w],
                  PlaceholderAccepted)
    PROVE  FilesInv'
<1>1. /\ host' = host /\ tar' = tar /\ tar \in Archives
      /\ UNCHANGED <<aggregates, flow>>
  BY FilesAre
<1>2. DiskAt(w, First(t), First(act["rstd"][w].todo),
             Behind(w, act["stad"][w], hist[w]), CodeOf(hist[w]),
             Owns(w, registry), host', d1, tar', wtar[w], PlaceholderAccepted)
  BY <1>1
<1>3. Held(registry, repo, host', tar', PlaceholderAccepted)
  BY <1>1, FilesAre
<1> QED
  BY <1>1, <1>2, <1>3, FilesStad

\* A step of nogfsostad that leaves the disk alone.
LEMMA FilesStadQuiet ==
    ASSUME FlowInv, LockInv, FilesInv, NEW w \in Workflows, NEW t,
           MovesTo("stad", w, t),
           t \in {P3, P4} => act["stad"][w].todo \in {P3, P4},
           UNCHANGED <<aggregates, disk, flow>>,
           NEW f, f = First(t),
           DiskAt(w, f, First(act["rstd"][w].todo),
                  Behind(w, act["stad"][w], hist[w]), CodeOf(hist[w]),
                  Owns(w, registry), host, dir[w], tar, wtar[w],
                  PlaceholderAccepted)
    PROVE  FilesInv'
<1> DEFINE d1 == dir[w]
<1>1. /\ dir' = [dir EXCEPT ![w] = d1]
      /\ d1 = [in |-> d1.in, trash |-> d1.trash]
      /\ UNCHANGED <<aggregates, host, tar, flow>>
  BY DirIs DEF disk
<1> HIDE DEF d1
<1> QED
  BY <1>1, FilesStadDir DEF d1

\* None of the lists but two prepares a swap.
LEMMA NotPrepared ==
    ASSUME NEW t \in {<<>>, H2, H3, H4, P2, S2, S3, S4, S5, U2, V2, V3, Z2}
    PROVE  t \notin {P3, P4}
<1>1. First(t) \notin {First(P3), First(P4)}
  BY StadFirstsAre
<1> QED
  BY <1>1

\* Freeze and unfreeze.
LEMMA FilesKeepsChattr ==
    ASSUME FlowInv, LockInv, FilesInv, NEW w \in Workflows,
           ChattrBegin(w) \/ ChattrEnd(w)
    PROVE  FilesInv'
<1> DEFINE f == First(act["stad"][w].todo)
           e == First(act["rstd"][w].todo)
           b == Behind(w, act["stad"][w], hist[w])
           own == Owns(w, registry)
           d == dir[w]
           wt == wtar[w]
           pa == PlaceholderAccepted
           h1 == host'
           t1 == tar'
<1>1. /\ CodeOf(hist[w]) = "Files" /\ Short(w)
      /\ UNCHANGED <<aggregates, dir, flow>>
      /\ h1 \in {host, "mixed", FilesOf(w)}
      /\ t1 = tar \/ t1 = "none"
      /\ \E u \in {H2, H3, H4} :
            MovesTo("stad", w, u) /\ (u = H3 => h1 = FilesOf(w))
  <2>1. H2 # H3 /\ H4 # H3
    BY StadFirstsAre
  <2>2. CASE ChattrBegin(w)
    BY <2>1, <2>2, ChattrBeginIs
  <2>3. CASE ChattrEnd(w)
    BY <2>1, <2>3, ChattrEndIs
  <2> QED
    BY <2>2, <2>3
<1>2. PICK u \in {H2, H3, H4} :
         MovesTo("stad", w, u) /\ (u = H3 => h1 = FilesOf(w))
  BY <1>1
<1>3. /\ CodeOf(hist[w]) \in Working
      /\ Owns(w, registry) /\ Owns(w, repo)
  BY <1>1, WorksAlone DEF Working
<1>4. Held(registry, repo, h1, t1, pa)
  <2>1. h1 = host \/ h1 \in Data
    BY <1>1, TiersAre DEF Data
  <2>2. ~Archiving(w)
    BY <1>1 DEF Short, Archiving
  <2> QED
    BY <1>3, <2>1, <2>2, FilesAre, HeldWorking
<1>5. DiskAt(w, f, e, b, "Files", own, host, d, tar, wt, pa)
  BY <1>1, DiskIs
<1>6. First(u) = "CommitFiles" => h1 = FilesOf(w)
  BY <1>2, StadFirstsAre
<1>7. DiskAt(w, First(u), e, b, "Files", own, h1, d, t1, wt, pa)
  <2> DEFINE f1 == First(u)
  <2> HIDE DEF f, f1, e, b, own, d, wt, pa, h1, t1
  <2> QED
    BY <1>1, <1>5, <1>6, DiskChattr DEF f1
<1>8. t1 \in Archives
  BY <1>1, FilesAre DEF Archives
<1>9. dir' = [dir EXCEPT ![w] = d] /\ d = [in |-> d.in, trash |-> d.trash]
  BY <1>1, DirIs
<1>10. u \notin {P3, P4}
  BY NotPrepared
<1>11. DiskAt(w, First(u), e, b, CodeOf(hist[w]), own, h1, d, t1, wt, pa)
  BY <1>1, <1>7
<1> HIDE DEF d
<1> QED
  BY <1>1, <1>2, <1>3, <1>4, <1>8, <1>9, <1>10, <1>11, FilesStad DEF d

\* An archive workflow polls for an archive.
LEMMA FilesKeepsPoll ==
    ASSUME FlowInv, LockInv, FilesInv, NEW w \in Workflows, PollTartt(w)
    PROVE  FilesInv'
<1> DEFINE f == First(act["stad"][w].todo)
           e == First(act["rstd"][w].todo)
           b == Behind(w, act["stad"][w], hist[w])
           own == Owns(w, registry)
           d == dir[w]
           wt == wtar[w]
           pa == PlaceholderAccepted
<1>1. /\ CodeOf(hist[w]) = "Files" /\ Archiving(w)
      /\ \/ tar # "none" /\ MovesTo("stad", w, P2)
         \/ MovesTo("stad", w, <<>>)
      /\ UNCHANGED <<aggregates, disk, flow>>
  BY PollTarttIs DEF Archiving
<1>2. DiskAt(w, f, e, b, "Files", own, host, d, tar, wt, pa)
  BY <1>1, DiskIs
<1>3. CASE tar # "none" /\ MovesTo("stad", w, P2)
  <2>1. DiskAt(w, "CommitTartt", e, b, "Files", own, host, d, tar, wt, pa)
    <3> HIDE DEF f, e, b, own, d, wt, pa
    <3> QED
      BY <1>1, <1>2, <1>3, DiskPolled
  <2>2. P2 \notin {P3, P4}
    BY NotPrepared
  <2> QED
    BY <1>1, <1>3, <2>1, <2>2, StadFirstsAre, FilesStadQuiet
<1>4. CASE MovesTo("stad", w, <<>>)
  <2>1. DiskAt(w, "none", e, b, "Files", own, host, d, tar, wt, pa)
    <3> HIDE DEF f, e, b, own, d, wt, pa
    <3> QED
      BY <1>2, DiskRests DEF Unbound
  <2>2. <<>> \notin {P3, P4}
    BY NotPrepared
  <2> QED
    BY <1>1, <1>4, <2>1, <2>2, StadFirstsAre, FilesStadQuiet
<1> QED
  BY <1>1, <1>3, <1>4

\* The placeholder is made.
LEMMA FilesKeepsPlaceholder ==
    ASSUME FlowInv, LockInv, FilesInv, NEW w \in Workflows, MakePlaceholder(w)
    PROVE  FilesInv' /\ dir[w].trash = "none"
<1> DEFINE f == First(act["stad"][w].todo)
           e == First(act["rstd"][w].todo)
           b == Behind(w, act["stad"][w], hist[w])
           c == CodeOf(hist[w])
           own == Owns(w, registry)
           d == dir[w]
           wt == wtar[w]
           pa == PlaceholderAccepted
           d1 == [in |-> "placeholder", trash |-> "none"]
<1>1. /\ act["stad"][w].todo = P3 /\ Archiving(w)
      /\ \/ act["stad"][w].at < Len(hist[w])
         \/ c = "TarttCompleted"
      /\ \/ dir' = [dir EXCEPT ![w] = d1] /\ MovesTo("stad", w, P4)
         \/ UNCHANGED dir /\ MovesTo("stad", w, S5)
      /\ UNCHANGED <<aggregates, host, tar, flow>>
  BY MakePlaceholderIs DEF Archiving
<1>2. DiskAt(w, f, e, b, c, own, host, d, tar, wt, pa)
  BY DiskIs
<1>3. b \/ c = "TarttCompleted"
  BY <1>1 DEF Behind
<1>4. /\ DiskAt(w, "BeginSwap", e, b, c, own, host, d1, tar, wt, pa)
      /\ d.trash = "none"
  <2>1. d1.in = "placeholder" /\ d1.trash = "none"
    OBVIOUS
  <2> HIDE DEF f, e, b, c, own, d, wt, pa, d1
  <2> QED
    BY <1>1, <1>2, <1>3, <2>1, DiskPlaceholder
<1>5. CASE dir' = [dir EXCEPT ![w] = d1] /\ MovesTo("stad", w, P4)
  <2>1. d1 = [in |-> d1.in, trash |-> d1.trash]
    OBVIOUS
  <2>2. First(P4) = "BeginSwap"
    BY StadFirstsAre
  <2> HIDE DEF d1
  <2> QED
    BY <1>1, <1>4, <1>5, <2>1, <2>2, FilesStadDir
<1>6. CASE UNCHANGED dir /\ MovesTo("stad", w, S5)
  <2>1. DiskAt(w, "AbortFiles", e, b, c, own, host, d, tar, wt, pa)
    <3> HIDE DEF f, e, b, c, own, d, wt, pa
    <3> QED
      BY <1>2, DiskRests DEF Unbound
  <2>2. S5 \notin {P3, P4} /\ "AbortFiles" = First(S5)
    BY NotPrepared, StadFirstsAre
  <2>3. UNCHANGED <<aggregates, disk, flow>>
    BY <1>1, <1>6 DEF disk
  <2> QED
    BY <1>1, <1>4, <1>6, <2>1, <2>2, <2>3, FilesStadQuiet
<1> QED
  BY <1>1, <1>4, <1>5, <1>6

\* The directory for the restore is made.
LEMMA FilesKeepsRestoreDir ==
    ASSUME FlowInv, LockInv, FilesInv, NEW w \in Workflows, MakeRestore(w)
    PROVE  FilesInv' /\ dir[w].trash = "none"
<1> DEFINE f == First(act["stad"][w].todo)
           e == First(act["rstd"][w].todo)
           b == Behind(w, act["stad"][w], hist[w])
           own == Owns(w, registry)
           d == dir[w]
           wt == wtar[w]
           pa == PlaceholderAccepted
           d1 == [in |-> "empty", trash |-> "none"]
<1>1. /\ Unarchiving(w) /\ CodeOf(hist[w]) = "Files"
      /\ \/ dir' = [dir EXCEPT ![w] = d1] /\ MovesTo("stad", w, U2)
         \/ UNCHANGED dir /\ MovesTo("stad", w, S5)
      /\ UNCHANGED <<aggregates, host, tar, flow>>
  BY MakeRestoreIs DEF Unarchiving
<1>2. DiskAt(w, f, e, b, "Files", own, host, d, tar, wt, pa)
  BY <1>1, DiskIs
<1>3. /\ DiskAt(w, "BeginTartt", e, b, "Files", own, host, d1, tar, wt, pa)
      /\ d.trash = "none"
  <2>1. d1.trash = "none"
    OBVIOUS
  <2> HIDE DEF f, e, b, own, d, wt, pa, d1
  <2> QED
    BY <1>1, <1>2, <2>1, DiskEmpty
<1>4. CASE dir' = [dir EXCEPT ![w] = d1] /\ MovesTo("stad", w, U2)
  <2>1. d1 = [in |-> d1.in, trash |-> d1.trash]
    OBVIOUS
  <2>2. First(U2) = "BeginTartt"
    BY StadFirstsAre
  <2>3. U2 \notin {P3, P4}
    BY NotPrepared
  <2> HIDE DEF d1
  <2> QED
    BY ZenonT(40), <1>1, <1>3, <1>4, <2>1, <2>2, <2>3, FilesStadDir
<1>5. CASE UNCHANGED dir /\ MovesTo("stad", w, S5)
  <2>1. DiskAt(w, "AbortFiles", e, b, "Files", own, host, d, tar, wt, pa)
    <3> HIDE DEF f, e, b, own, d, wt, pa
    <3> QED
      BY <1>2, DiskRests DEF Unbound
  <2>2. S5 \notin {P3, P4} /\ "AbortFiles" = First(S5)
    BY NotPrepared, StadFirstsAre
  <2>3. UNCHANGED <<aggregates, disk, flow>>
    BY <1>1, <1>5 DEF disk
  <2> QED
    BY <1>1, <1>3, <1>5, <2>1, <2>2, <2>3, FilesStadQuiet
<1> QED
  BY <1>1, <1>3, <1>4, <1>5

\* The restored files get their attributes.
LEMMA FilesKeepsSetfacl ==
    ASSUME FlowInv, LockInv, FilesInv, NEW w \in Workflows, SetfaclChattr(w)
    PROVE  FilesInv'
<1> DEFINE f == First(act["stad"][w].todo)
           e == First(act["rstd"][w].todo)
           b == Behind(w, act["stad"][w], hist[w])
           c == CodeOf(hist[w])
           own == Owns(w, registry)
           d == dir[w]
           wt == wtar[w]
           pa == PlaceholderAccepted
           d1 == [in |-> IF d.in \in Data THEN "immutable" ELSE d.in,
                  trash |-> d.trash]
<1>1. /\ Unarchiving(w) /\ c = "TarttCompleted"
      /\ \/ UNCHANGED dir /\ MovesTo("stad", w, <<>>)
         \/ /\ d.in # "none"
            /\ dir' = [dir EXCEPT ![w].in = IF @ \in Data THEN "immutable" ELSE @]
            /\ MovesTo("stad", w, V2)
      /\ UNCHANGED <<aggregates, host, tar, flow>>
  BY SetfaclChattrIs DEF Unarchiving
<1>2. DiskAt(w, f, e, b, c, own, host, d, tar, wt, pa)
  BY DiskIs
<1>3. CASE UNCHANGED dir /\ MovesTo("stad", w, <<>>)
  <2>1. DiskAt(w, "none", e, b, c, own, host, d, tar, wt, pa)
    <3> HIDE DEF f, e, b, c, own, d, wt, pa
    <3> QED
      BY <1>2, DiskRests DEF Unbound
  <2>2. <<>> \notin {P3, P4} /\ "none" = First(<<>>)
    BY NotPrepared, StadFirstsAre
  <2>3. UNCHANGED <<aggregates, disk, flow>>
    BY <1>1, <1>3 DEF disk
  <2> QED
    BY <1>3, <2>1, <2>2, <2>3, FilesStadQuiet
<1>4. CASE /\ d.in # "none"
           /\ dir' = [dir EXCEPT ![w].in = IF @ \in Data THEN "immutable" ELSE @]
           /\ MovesTo("stad", w, V2)
  <2>1. dir' = [dir EXCEPT ![w] = d1]
    BY ZenonT(40), <1>4, DirIs DEF FilesInv
  <2>2. /\ d1 = [in |-> d1.in, trash |-> d1.trash]
        /\ d1.in = (IF d.in \in Data THEN "immutable" ELSE d.in)
        /\ d1.trash = d.trash
    OBVIOUS
  <2>3. DiskAt(w, "SwapOut", e, b, c, own, host, d1, tar, wt, pa)
    <3> HIDE DEF f, e, b, c, own, d, wt, pa, d1
    <3> QED
      BY <1>1, <1>2, <1>4, <2>2, DiskSetfacl
  <2>4. V2 \notin {P3, P4} /\ "SwapOut" = First(V2)
    BY NotPrepared, StadFirstsAre
  <2> HIDE DEF d1
  <2> QED
    BY <1>1, <1>4, <2>1, <2>2, <2>3, <2>4, FilesStadDir
<1> QED
  BY <1>1, <1>3, <1>4

\* The files are moved out.
LEMMA FilesKeepsSwapOut ==
    ASSUME FlowInv, LockInv, FilesInv, NEW w \in Workflows, SwapOut(w)
    PROVE  /\ FilesInv'
           /\ dir'[w].trash # "none"
           /\ \A v \in Workflows : v # w => dir'[v] = dir[v]
<1> DEFINE f == First(act["stad"][w].todo)
           e == First(act["rstd"][w].todo)
           b == Behind(w, act["stad"][w], hist[w])
           c == CodeOf(hist[w])
           own == Owns(w, registry)
           d == dir[w]
           wt == wtar[w]
           pa == PlaceholderAccepted
           h1 == host'
           d1 == dir'[w]
<1>1. /\ \/ /\ act["stad"][w].todo = S1 /\ Archiving(w) /\ c = "SwapStarted"
            /\ MovesTo("stad", w, S2)
         \/ /\ act["stad"][w].todo = V2 /\ Unarchiving(w)
            /\ c = "TarttCompleted"
            /\ MovesTo("stad", w, V3)
      /\ \/ /\ d.trash = "none" /\ host # "none"
            /\ dir' = [dir EXCEPT ![w].trash = host]
            /\ h1 = "none"
         \/ d.trash # "none" /\ dir' = dir /\ h1 = host
      /\ UNCHANGED <<aggregates, flow>> /\ tar' = tar
  BY SwapOutIs DEF Archiving, Unarchiving
<1>2. DiskAt(w, f, e, b, c, own, host, d, tar, wt, pa)
  BY DiskIs
<1>3. ~b
  BY <1>1, InPosition
<1>4. Unarchiving(w) => f = "SwapOut"
  BY <1>1, StadFirstsAre DEF Archiving, Unarchiving
<1>5. /\ dir' = [dir EXCEPT ![w] = d1]
      /\ d1 = [in |-> d1.in, trash |-> d1.trash] /\ d1.in = d.in
      /\ \/ d.trash = "none" /\ host # "none" /\ d1.trash = host /\ h1 = "none"
         \/ d.trash # "none" /\ d1.trash = d.trash /\ h1 = host
      /\ \A v \in Workflows : v # w => dir'[v] = dir[v]
  <2>1. PICK x :
           /\ dir' = [dir EXCEPT ![w] = [in |-> dir[w].in, trash |-> x]]
           /\ \/ d.trash = "none" /\ host # "none" /\ x = host /\ h1 = "none"
              \/ d.trash # "none" /\ x = d.trash /\ h1 = host
    BY <1>1, DirIs
  <2>2. /\ d1.in = dir[w].in /\ d1.trash = x
        /\ d1 = [in |-> d1.in, trash |-> d1.trash]
        /\ dir' = [dir EXCEPT ![w] = d1]
        /\ \A v \in Workflows : v # w => dir'[v] = dir[v]
    BY ZenonT(40), <2>1, DirSet
  <2> HIDE DEF d1
  <2> QED
    BY <2>1, <2>2
<1>6. DiskAt(w, "SwapIn", e, b, c, own, h1, d1, tar, wt, pa)
  <2> HIDE DEF f, e, b, c, own, d, wt, pa, h1, d1
  <2> QED
    BY <1>1, <1>2, <1>3, <1>4, <1>5, DiskSwapOut
<1>7. c \in Working
  BY <1>1 DEF Working
<1>8. Archiving(w) => tar # "none"
  <2> HIDE DEF f, e, b, c, own, d, wt, pa
  <2> QED
    BY <1>1, <1>2 DEF DiskAt, SwapAt, Archiving, Unarchiving
<1>9. Held(registry, repo, h1, tar, pa)
  <2>1. Owns(w, registry) /\ Owns(w, repo)
    BY <1>7, WorksAlone
  <2>2. ~Short(w)
    BY <1>1 DEF Short, Archiving, Unarchiving
  <2> QED
    BY <1>8, <2>1, <2>2, FilesAre, HeldWorking
<1>10. PICK u \in {S2, V3} : MovesTo("stad", w, u)
  BY <1>1
<1>11. u \notin {P3, P4} /\ First(u) = "SwapIn"
  BY NotPrepared, StadFirstsAre
<1>12. /\ DiskAt(w, First(u), e, b, c, own, host', d1, tar', wt, pa)
       /\ Held(registry, repo, host', tar', pa)
       /\ tar' \in Archives
  BY <1>1, <1>6, <1>9, <1>11, FilesAre
<1>13. d1.trash # "none"
  BY <1>5
<1> HIDE DEF d1
<1>14. FilesInv'
  BY <1>1, <1>5, <1>7, <1>10, <1>11, <1>12, FilesStad
<1> QED
  BY <1>5, <1>13, <1>14 DEF d1

\* The placeholder or the restored files are moved in.
LEMMA FilesKeepsSwapIn ==
    ASSUME FlowInv, LockInv, FilesInv, NEW w \in Workflows, SwapIn(w)
    PROVE  /\ FilesInv'
           /\ dir'[w].trash = dir[w].trash
           /\ \A v \in Workflows : v # w => dir'[v] = dir[v]
<1> DEFINE f == First(act["stad"][w].todo)
           e == First(act["rstd"][w].todo)
           b == Behind(w, act["stad"][w], hist[w])
           c == CodeOf(hist[w])
           own == Owns(w, registry)
           d == dir[w]
           wt == wtar[w]
           pa == PlaceholderAccepted
           h1 == host'
           d1 == dir'[w]
<1>1. /\ \/ /\ act["stad"][w].todo = S2 /\ Archiving(w) /\ c = "SwapStarted"
            /\ MovesTo("stad", w, S3) \/ MovesTo("stad", w, S5)
         \/ /\ act["stad"][w].todo = V3 /\ Unarchiving(w)
            /\ c = "TarttCompleted"
            /\ MovesTo("stad", w, S4) \/ MovesTo("stad", w, S5)
      /\ \/ /\ host = "none" /\ d.in # "none"
            /\ h1 = d.in
            /\ dir' = [dir EXCEPT ![w].in = "none"]
         \/ host # "none" /\ dir' = dir /\ h1 = host
      /\ UNCHANGED <<aggregates, flow>> /\ tar' = tar
  BY SwapInIs DEF Archiving, Unarchiving
<1>2. DiskAt(w, f, e, b, c, own, host, d, tar, wt, pa)
  BY DiskIs
<1>3. ~b /\ f = "SwapIn"
  BY <1>1, InPosition, StadFirstsAre
<1>4. /\ dir' = [dir EXCEPT ![w] = d1]
      /\ d1 = [in |-> d1.in, trash |-> d1.trash] /\ d1.trash = d.trash
      /\ \/ host = "none" /\ d.in # "none" /\ d1.in = "none" /\ h1 = d.in
         \/ host # "none" /\ d1.in = d.in /\ h1 = host
      /\ \A v \in Workflows : v # w => dir'[v] = dir[v]
  <2>1. PICK x :
           /\ dir' = [dir EXCEPT ![w] = [in |-> x, trash |-> dir[w].trash]]
           /\ \/ host = "none" /\ d.in # "none" /\ x = "none" /\ h1 = d.in
              \/ host # "none" /\ x = d.in /\ h1 = host
    BY <1>1, DirIs
  <2>2. /\ d1.in = x /\ d1.trash = dir[w].trash
        /\ d1 = [in |-> d1.in, trash |-> d1.trash]
        /\ dir' = [dir EXCEPT ![w] = d1]
        /\ \A v \in Workflows : v # w => dir'[v] = dir[v]
    BY <2>1, DirSet
  <2> HIDE DEF d1
  <2> QED
    BY <2>1, <2>2
<1>5. PICK u \in {S3, S4, S5} :
         /\ MovesTo("stad", w, u)
         /\ \/ u = S5
            \/ u = S3 /\ Archiving(w) /\ c = "SwapStarted"
            \/ u = S4 /\ Unarchiving(w) /\ c = "TarttCompleted"
  BY <1>1
<1>6. \E x : /\ x = (IF Archiving(w) THEN "ShadowArchive" ELSE "CommitFiles")
             /\ \/ Archiving(w) /\ c = "SwapStarted" /\ x = "ShadowArchive"
                \/ Unarchiving(w) /\ c = "TarttCompleted" /\ x = "CommitFiles"
  BY <1>1 DEF Archiving, Unarchiving
<1>7. PICK x : /\ x = (IF Archiving(w) THEN "ShadowArchive" ELSE "CommitFiles")
               /\ \/ Archiving(w) /\ c = "SwapStarted" /\ x = "ShadowArchive"
                  \/ Unarchiving(w) /\ c = "TarttCompleted" /\ x = "CommitFiles"
  BY <1>6
<1>8. DiskAt(w, x, e, b, c, own, h1, d1, tar, wt, pa)
  <2>1. DiskAt(w, "SwapIn", e, b, c, own, host, d, tar, wt, pa)
    BY <1>2, <1>3
  <2> HIDE DEF f, e, b, c, own, d, wt, pa, h1, d1
  <2> QED
    BY <1>3, <1>4, <1>7, <2>1, DiskSwapIn
<1>9. u \notin {P3, P4} /\ (First(u) = x \/ First(u) = "AbortFiles")
  <2>1. u \notin {P3, P4}
    BY NotPrepared
  <2>2. CASE u = S5
    BY <2>1, <2>2, StadFirstsAre
  <2>3. CASE u = S3 /\ Archiving(w)
    BY <1>7, <2>1, <2>3, StadFirstsAre
  <2>4. CASE u = S4 /\ Unarchiving(w)
    BY <1>7, <2>1, <2>4, StadFirstsAre DEF Archiving, Unarchiving
  <2> QED
    BY <1>5, <2>2, <2>3, <2>4
<1>10. DiskAt(w, First(u), e, b, c, own, h1, d1, tar, wt, pa)
  <2> DEFINE y == First(u)
  <2>1. y = x \/ y \in Unbound
    BY <1>9 DEF Unbound
  <2> HIDE DEF f, e, b, c, own, d, wt, pa, h1, d1, y
  <2> QED
    BY <1>8, <2>1, DiskRests DEF y
<1>11. c \in Working
  BY <1>1 DEF Working
<1>12. Archiving(w) => tar # "none"
  <2> HIDE DEF f, e, b, c, own, d, wt, pa
  <2> QED
    BY <1>1, <1>2 DEF DiskAt, SwapAt, Archiving, Unarchiving
<1>13. Held(registry, repo, h1, tar, pa)
  <2>1. Owns(w, registry) /\ Owns(w, repo)
    BY <1>11, WorksAlone
  <2>2. ~Short(w)
    BY <1>1 DEF Short, Archiving, Unarchiving
  <2> QED
    BY <1>12, <2>1, <2>2, FilesAre, HeldWorking
<1>14. /\ DiskAt(w, First(u), e, b, c, own, host', d1, tar', wt, pa)
       /\ Held(registry, repo, host', tar', pa)
       /\ tar' \in Archives
  BY <1>1, <1>10, <1>13, FilesAre
<1> HIDE DEF d1
<1>15. FilesInv'
  BY <1>1, <1>4, <1>5, <1>9, <1>11, <1>14, FilesStad
<1> QED
  BY <1>4, <1>15 DEF d1

\* The shadow repo is told of the swap, or a step of the swap fails.
LEMMA FilesKeepsShadow ==
    ASSUME FlowInv, LockInv, FilesInv, NEW w \in Workflows,
           ShadowArchive(w) \/ SwapFails(w)
    PROVE  FilesInv'
<1> DEFINE f == First(act["stad"][w].todo)
           e == First(act["rstd"][w].todo)
           b == Behind(w, act["stad"][w], hist[w])
           c == CodeOf(hist[w])
           own == Owns(w, registry)
           d == dir[w]
           wt == wtar[w]
           pa == PlaceholderAccepted
<1>1. DiskAt(w, f, e, b, c, own, host, d, tar, wt, pa)
  BY DiskIs
<1>2. CASE ShadowArchive(w)
  <2>1. /\ act["stad"][w].todo = S3 /\ Archiving(w) /\ c = "SwapStarted"
        /\ MovesTo("stad", w, S4) /\ UNCHANGED <<aggregates, disk, flow>>
    BY <1>2, ShadowArchiveIs DEF Archiving
  <2>2. f = "ShadowArchive"
    BY <2>1, StadFirstsAre
  <2>3. DiskAt(w, "CommitFiles", e, b, c, own, host, d, tar, wt, pa)
    <3> HIDE DEF f, e, b, c, own, d, wt, pa
    <3> QED
      BY <1>1, <2>1, <2>2, DiskShadow
  <2>4. S4 \notin {P3, P4} /\ "CommitFiles" = First(S4)
    BY NotPrepared, StadFirstsAre
  <2> QED
    BY <2>1, <2>3, <2>4, FilesStadQuiet
<1>3. CASE SwapFails(w)
  <2>1. MovesTo("stad", w, S5) /\ UNCHANGED <<aggregates, disk, flow>>
    BY <1>3, SwapFailsIs
  <2>2. DiskAt(w, "AbortFiles", e, b, c, own, host, d, tar, wt, pa)
    <3> HIDE DEF f, e, b, c, own, d, wt, pa
    <3> QED
      BY <1>1, DiskRests DEF Unbound
  <2>3. S5 \notin {P3, P4} /\ "AbortFiles" = First(S5)
    BY NotPrepared, StadFirstsAre
  <2> QED
    BY <2>1, <2>2, <2>3, FilesStadQuiet
<1> QED
  BY <1>2, <1>3

\* The working directory is removed.
LEMMA FilesKeepsRemove ==
    ASSUME FlowInv, LockInv, FilesInv, NEW w \in Workflows, RemoveWorkingDir(w)
    PROVE  /\ FilesInv'
           /\ CodeOf(hist[w]) = "FilesEnded"
           /\ \A v \in Workflows : v # w => dir'[v] = dir[v]
<1> DEFINE f == First(act["stad"][w].todo)
           e == First(act["rstd"][w].todo)
           b == Behind(w, act["stad"][w], hist[w])
           c == CodeOf(hist[w])
           own == Owns(w, registry)
           d == dir[w]
           wt == wtar[w]
           pa == PlaceholderAccepted
           d1 == dir'[w]
<1>1. /\ c = "FilesEnded"
      /\ dir' = dir \/ dir' = [dir EXCEPT ![w] = NoDir]
      /\ MovesTo("stad", w, Z2)
      /\ UNCHANGED <<aggregates, host, tar, flow>>
  BY RemoveWorkingDirIs
<1>2. DiskAt(w, f, e, b, c, own, host, d, tar, wt, pa)
  BY DiskIs
<1>3. /\ dir' = [dir EXCEPT ![w] = d1]
      /\ d1 = [in |-> d1.in, trash |-> d1.trash]
      /\ d1 = d \/ d1.trash = "none"
      /\ \A v \in Workflows : v # w => dir'[v] = dir[v]
  <2>1. CASE dir' = dir
    BY <2>1, DirIs
  <2>2. CASE dir' = [dir EXCEPT ![w] = NoDir]
    BY <2>2, DirSet DEF NoDir
  <2> QED
    BY <1>1, <2>1, <2>2
<1>4. DiskAt(w, "CommitGc", e, b, c, own, host, d1, tar, wt, pa)
  <2> HIDE DEF f, e, b, c, own, d, wt, pa, d1
  <2> QED
    BY <1>1, <1>2, <1>3, DiskRemoved
<1>5. Z2 \notin {P3, P4} /\ "CommitGc" = First(Z2)
  BY NotPrepared, StadFirstsAre
<1> HIDE DEF d1
<1>6. FilesInv'
  BY <1>1, <1>3, <1>4, <1>5, FilesStadDir
<1> QED
  BY <1>1, <1>3, <1>6

\* The files are restored.
LEMMA FilesKeepsRestore ==
    ASSUME FlowInv, LockInv, FilesInv, NEW w \in Workflows, TarttRestore(w)
    PROVE  /\ FilesInv'
           /\ \A v \in Workflows : dir'[v].trash = dir[v].trash
<1> DEFINE f == First(act["stad"][w].todo)
           e == First(act["rstd"][w].todo)
           b == Behind(w, act["stad"][w], hist[w])
           c == CodeOf(hist[w])
           own == Owns(w, registry)
           d == dir[w]
           wt == wtar[w]
           pa == PlaceholderAccepted
           d1 == dir'[w]
           e1 == First(act'["rstd"][w].todo)
<1>1. /\ Unarchiving(w) /\ c = "Tartt"
      /\ \E u \in {R2, R3} : \E x :
            /\ MovesTo("rstd", w, u) /\ dir' = [dir EXCEPT ![w].in = x]
            /\ u = R2 => x = (IF wt = "data" THEN "writable" ELSE wt)
      /\ UNCHANGED <<aggregates, host, tar, flow>>
  <2>1. R3 # R2
    BY StadFirstsAre
  <2> HIDE DEF wt, d
  <2> QED
    BY <2>1, TarttRestoreIs DEF Unarchiving, wt
<1>2. PICK u \in {R2, R3} : \E x :
            /\ MovesTo("rstd", w, u) /\ dir' = [dir EXCEPT ![w].in = x]
            /\ u = R2 => x = (IF wt = "data" THEN "writable" ELSE wt)
  BY <1>1
<1>3. PICK x : /\ MovesTo("rstd", w, u) /\ dir' = [dir EXCEPT ![w].in = x]
               /\ u = R2 => x = (IF wt = "data" THEN "writable" ELSE wt)
  BY <1>2
<1>4. /\ act'["rstd"][w].todo = <<>> \/ act'["rstd"][w].todo = u
      /\ \A v \in Workflows : v # w => act'["rstd"][v] = act["rstd"][v]
      /\ \A v \in Workflows : act'["stad"][v] = act["stad"][v]
  BY <1>3, MovedTodo DEF Roles
<1>5. /\ d1.in = x /\ d1.trash = d.trash
      /\ \A v \in Workflows : v # w => dir'[v] = dir[v]
      /\ dir' = [v \in Workflows |-> [in |-> dir'[v].in, trash |-> dir'[v].trash]]
  <2>1. dir' = [dir EXCEPT ![w] = [in |-> x, trash |-> dir[w].trash]]
    BY <1>3, DirIs
  <2> QED
    BY <2>1, DirSet
<1>6. e1 = "CommitTartt" => u = R2
  BY <1>4, StadFirstsAre
<1>7. wt \in Archives /\ (wt = "placeholder" => pa)
  BY FilesAre DEF PlaceholderAccepted
<1>8. DiskAt(w, f, e, b, c, own, host, d, tar, wt, pa)
  BY DiskIs
<1>9. DiskAt(w, f, e1, b, c, own, host, d1, tar, wt, pa)
  <2> HIDE DEF f, e, b, c, own, d, wt, pa, d1, e1
  <2> QED
    BY <1>1, <1>3, <1>5, <1>6, <1>7, <1>8, DiskRestored
<1>10. UNCHANGED <<registry, repo, hist, wtar, host, tar>>
  BY <1>1 DEF aggregates, flow
<1>11. PlaceholderAccepted' = PlaceholderAccepted
  BY <1>10 DEF PlaceholderAccepted
<1>12. DiskAt(w, First(act'["stad"][w].todo), First(act'["rstd"][w].todo),
              Behind(w, act'["stad"][w], hist'[w]), CodeOf(hist'[w]),
              Owns(w, registry'), host', dir'[w], tar', wtar'[w],
              PlaceholderAccepted')
  BY <1>4, <1>9, <1>10, <1>11
<1>13. Held(registry', repo', host', tar', PlaceholderAccepted')
  BY <1>10, <1>11, FilesAre
<1>14. \A v \in Workflows : v # w =>
          /\ act'["stad"][v] = act["stad"][v]
          /\ act'["rstd"][v] = act["rstd"][v]
          /\ hist'[v] = hist[v] /\ wtar'[v] = wtar[v] /\ dir'[v] = dir[v]
          /\ Owns(v, registry') => Owns(v, registry)
  BY <1>4, <1>5, <1>10
<1>15. /\ tar' \in Archives /\ repo'.tar \in Archives
       /\ wtar' \in [Workflows -> Archives]
       /\ PlaceholderAccepted => PlaceholderAccepted'
       /\ host' = host /\ (tar # "none" => tar' # "none")
  BY <1>10, <1>11, FilesAre
<1>16. FilesInv'
  BY <1>5, <1>12, <1>13, <1>14, <1>15, FilesStep
<1> QED
  BY <1>5, <1>16

-----------------------------------------------------------------------------
(***************************************************************************)
(* The steps on registry and repo.                                         *)
(***************************************************************************)

\* Who owns the registry matters to a workflow whose files are completed.
LEMMA DiskOwn ==
    ASSUME NEW w, NEW f, NEW e, NEW b, NEW c, NEW own, NEW h, NEW d, NEW t,
           NEW wt, NEW pa, DiskAt(w, f, e, b, c, own, h, d, t, wt, pa),
           NEW own1, own1 /\ c = "FilesCompleted" => own
    PROVE  DiskAt(w, f, e, b, c, own1, h, d, t, wt, pa)
BY DEF DiskAt

\* A step that changes registry and repo only.
LEMMA FilesAggregates ==
    ASSUME FilesInv, UNCHANGED <<disk, hist, wtar>>,
           \A v \in Workflows :
              /\ act'["stad"][v] = act["stad"][v]
              /\ act'["rstd"][v] = act["rstd"][v]
              /\ Owns(v, registry') /\ CodeOf(hist[v]) = "FilesCompleted" =>
                    Owns(v, registry),
           repo'.tar \in Archives,
           Held(registry', repo', host, tar, PlaceholderAccepted)
    PROVE  FilesInv'
<1>1. UNCHANGED <<host, dir, tar, hist, wtar>>
  BY DEF disk
<1>2. PlaceholderAccepted' = PlaceholderAccepted
  BY <1>1 DEF PlaceholderAccepted
<1>3. ASSUME NEW v \in Workflows
      PROVE  DiskOf(v, act'["stad"][v], act'["rstd"][v], hist'[v],
                    Owns(v, registry'), dir'[v], wtar'[v], PlaceholderAccepted',
                    host', tar')
  <2> DEFINE f == First(act["stad"][v].todo)
             e == First(act["rstd"][v].todo)
             b == Behind(v, act["stad"][v], hist[v])
             c == CodeOf(hist[v])
             own == Owns(v, registry)
             own1 == Owns(v, registry')
             d == dir[v]
             wt == wtar[v]
             pa == PlaceholderAccepted
  <2>1. DiskAt(v, f, e, b, c, own, host, d, tar, wt, pa)
    BY DiskIs
  <2>2. own1 /\ c = "FilesCompleted" => own
    OBVIOUS
  <2>3. DiskAt(v, f, e, b, c, own1, host, d, tar, wt, pa)
    <3> HIDE DEF f, e, b, c, own, own1, d, wt, pa
    <3> QED
      BY <2>1, <2>2, DiskOwn
  <2> QED
    BY <1>1, <1>2, <2>3 DEF DiskOf
<1> QED
  BY <1>1, <1>2, <1>3 DEF FilesInv

\* The registry in progress or failed promises nothing.
LEMMA HeldRegistry ==
    ASSUME NEW g, NEW p, NEW h, NEW t, NEW pa, Held(g, p, h, t, pa), NEW g1,
           g1.tier \in {"online", "frozen", "archived"} =>
              h = HostOf(g1.tier) \/ pa
    PROVE  Held(g1, p, h, t, pa)
BY DEF Held

\* A repo that keeps tier, workflow and archive.
LEMMA HeldSame ==
    ASSUME NEW g, NEW p, NEW h, NEW t, NEW pa, Held(g, p, h, t, pa), NEW p1,
           p1.tier = p.tier, p1.wf = p.wf, p1.tar = p.tar
    PROVE  Held(g, p1, h, t, pa)
BY DEF Held

\* A repo begins an operation.
LEMMA HeldBegin ==
    ASSUME NEW w \in Workflows, NEW g, NEW p, NEW h, NEW t, NEW pa,
           Held(g, p, h, t, pa), NEW p1, p1.tar = p.tar, Owns(w, p1),
           p.tier \in {RegOp(w).from, RegOp(w).failed, RegOp(w).doing}
    PROVE  Held(g, p1, h, t, pa)
<1>1. CASE Short(w)
  BY <1>1, TiersAre DEF Held, Tiers, Owns
<1>2. CASE Archiving(w)
  BY <1>2, TiersAre DEF Held, Tiers, Owns
<1>3. CASE Unarchiving(w)
  BY <1>3, TiersAre DEF Held, Tiers, Owns
<1> QED
  BY <1>1, <1>2, <1>3, TiersAre

\* A repo aborts an operation.
LEMMA HeldAbort ==
    ASSUME NEW w \in Workflows, NEW g, NEW p, NEW h, NEW t, NEW pa,
           Held(g, p, h, t, pa), NEW p1, p1.tar = p.tar, p1.wf = p.wf,
           Owns(w, p), p1.tier = RegOp(w).failed
    PROVE  Held(g, p1, h, t, pa)
<1>1. CASE Short(w)
  BY <1>1, TiersAre DEF Held, Tiers, Owns
<1>2. CASE Archiving(w)
  BY <1>2, TiersAre DEF Held, Tiers, Owns
<1>3. CASE Unarchiving(w)
  BY <1>3, TiersAre DEF Held, Tiers, Owns
<1> QED
  BY <1>1, <1>2, <1>3, TiersAre

\* A repo commits an operation.
LEMMA HeldCommit ==
    ASSUME NEW w \in Workflows, NEW g, NEW p, NEW h, NEW t, NEW pa, NEW wt,
           Held(g, p, h, t, pa), Owns(w, p),
           h = HostOf(RegOp(w).done) \/ pa,
           Archiving(w) => wt # "none", wt = "placeholder" => pa,
           NEW p1, p1.tar = (IF Archiving(w) THEN wt ELSE p.tar),
           p1.tier = RegOp(w).done
    PROVE  Held(g, p1, h, t, pa)
<1>1. CASE Short(w)
  BY <1>1, TiersAre DEF Held, Tiers, Owns, Archiving, Short
<1>2. CASE Archiving(w)
  BY <1>2, TiersAre DEF Held, Tiers, Owns
<1>3. CASE Unarchiving(w)
  BY <1>3, TiersAre DEF Held, Tiers, Owns, Archiving, Unarchiving, Data
<1> QED
  BY <1>1, <1>2, <1>3, TiersAre

\* A step of nogfsoregd that is no command to the workflow.
LEMMA FilesRegd ==
    ASSUME FlowInv, FilesInv, NEW w \in Workflows, NEW u, MovesTo("regd", w, u),
           UNCHANGED <<disk, flow>>,
           \/ registry' = registry
           \/ registry'.wf = w /\ CodeOf(hist[w]) # "FilesCompleted"
           \/ registry'.wf = w /\ registry'.tier = RegOp(w).done,
           repo'.tar \in Archives,
           Held(registry', repo', host, tar, PlaceholderAccepted)
    PROVE  FilesInv'
<1>1. \A v \in Workflows :
         act'["stad"][v] = act["stad"][v] /\ act'["rstd"][v] = act["rstd"][v]
  BY MovedTodo DEF Roles
<1>2. UNCHANGED <<disk, hist, wtar>>
  BY DEF flow
<1>3. \A v \in Workflows :
         Owns(v, registry') /\ CodeOf(hist[v]) = "FilesCompleted" =>
            Owns(v, registry)
  BY OpsAre DEF Owns
<1> QED
  BY <1>1, <1>2, <1>3, FilesAggregates

\* The steps that take the registry and the repo.
LEMMA FilesKeepsBegin ==
    ASSUME FlowInv, LockInv, FilesInv, NEW w \in Workflows,
           RegistryBegin(w) \/ ReposBegin(w)
    PROVE  FilesInv'
<1> DEFINE pa == PlaceholderAccepted
<1>0. /\ Held(registry, repo, host, tar, pa) /\ repo.tar \in Archives
      /\ Shaped(registry, repo)
  BY FilesAre, LockIs
<1>1. CASE RegistryBegin(w)
  <2>1. /\ CodeOf(hist[w]) = "Initialized"
        /\ \/ registry' = [tier |-> RegOp(w).doing, wf |-> w]
           \/ registry' = registry
        /\ \E u : MovesTo("regd", w, u)
        /\ UNCHANGED <<repo, disk, flow>>
    BY <1>1, RegistryBeginIs
  <2>2. Held(registry', repo, host, tar, pa)
    <3>1. CASE registry' = [tier |-> RegOp(w).doing, wf |-> w]
      <4>1. registry'.tier \in Doing
        BY <3>1, OpsAre
      <4> QED
        BY <1>0, <4>1, HeldRegistry DEF Doing
    <3> QED
      BY <1>0, <2>1, <3>1
  <2>3. registry' = registry \/ registry'.wf = w
    BY <2>1
  <2>4. repo' = repo /\ UNCHANGED <<disk, flow>>
    BY <2>1
  <2>5. Held(registry', repo', host, tar, pa) /\ repo'.tar \in Archives
    BY <1>0, <2>2, <2>4
  <2> QED
    BY <2>1, <2>3, <2>4, <2>5, FilesRegd
<1>2. CASE ReposBegin(w)
  <2>1. /\ \/ /\ ReposBeginError(w) = "none"
              /\ repo' = [repo EXCEPT !.tier = RepoOp(w).doing, !.wf = w]
           \/ repo' = repo
        /\ \E u : MovesTo("regd", w, u)
        /\ registry' = registry /\ UNCHANGED <<disk, flow>>
    BY <1>2, ReposBeginIs
  <2>2. Held(registry, repo', host, tar, pa) /\ repo'.tar \in Archives
    <3>1. CASE /\ ReposBeginError(w) = "none"
               /\ repo' = [repo EXCEPT !.tier = RepoOp(w).doing, !.wf = w]
      <4>1. repo.tier \in {RegOp(w).from, RegOp(w).failed, RegOp(w).doing}
        BY <3>1, OpsAre DEF ReposBeginError
      <4>2. repo'.tar = repo.tar /\ Owns(w, repo')
        BY <1>0, <3>1, OpsAre DEF Owns, Shaped
      <4> DEFINE p1 == repo'
      <4>3. p1.tar = repo.tar /\ Owns(w, p1)
        BY <4>2
      <4> HIDE DEF p1
      <4>4. Held(registry, p1, host, tar, pa)
        BY <1>0, <4>1, <4>3, HeldBegin
      <4> QED
        BY <1>0, <4>2, <4>4 DEF p1
    <3> QED
      BY <1>0, <2>1, <3>1
  <2> QED
    BY <2>1, <2>2, FilesRegd
<1> QED
  BY <1>1, <1>2

\* The steps that commit the repo and the registry.
LEMMA FilesKeepsCommit ==
    ASSUME FlowInv, LockInv, FilesInv, NEW w \in Workflows,
           ReposCommit(w) \/ RegistryCommit(w)
    PROVE  FilesInv'
<1> DEFINE pa == PlaceholderAccepted
           wt == wtar[w]
           f == First(act["stad"][w].todo)
           e == First(act["rstd"][w].todo)
           b == Behind(w, act["stad"][w], hist[w])
           own == Owns(w, registry)
           d == dir[w]
<1>0. /\ Held(registry, repo, host, tar, pa) /\ repo.tar \in Archives
      /\ Shaped(registry, repo) /\ Nested(registry, repo)
      /\ wt \in Archives
      /\ wt = "placeholder" => pa
  BY FilesAre, LockIs DEF PlaceholderAccepted
<1>1. CASE CodeOf(hist[w]) = "FilesCompleted" =>
             /\ own => host = HostOf(RegOp(w).done) \/ pa
             /\ Archiving(w) => wt # "none"
  <2>1. CASE ReposCommit(w)
    <3>1. /\ CodeOf(hist[w]) = "FilesCompleted"
          /\ \/ /\ repo.wf = w /\ repo.tier = RepoOp(w).doing
                /\ repo' = [repo EXCEPT
                              !.tier = RepoOp(w).done,
                              !.tar = IF OpOf[w] = "archive" THEN wtar[w] ELSE @]
             \/ repo' = repo
          /\ \E u : MovesTo("regd", w, u)
          /\ registry' = registry /\ UNCHANGED <<disk, flow>>
      BY <2>1, ReposCommitIs DEF Ends, MayCommit
    <3>2. Held(registry, repo', host, tar, pa) /\ repo'.tar \in Archives
      <4>1. CASE /\ repo.wf = w /\ repo.tier = RepoOp(w).doing
                 /\ repo' = [repo EXCEPT
                               !.tier = RepoOp(w).done,
                               !.tar = IF OpOf[w] = "archive" THEN wtar[w] ELSE @]
        <5> DEFINE p1 == repo'
        <5>1. /\ p1.tar = (IF Archiving(w) THEN wt ELSE repo.tar)
              /\ p1.tier = RegOp(w).done
              /\ Owns(w, repo)
          BY <1>0, <4>1, OpsAre DEF Owns, Shaped, Archiving
        <5>2. Owns(w, registry)
          BY <1>0, <5>1, OnlyOwner
        <5>3. host = HostOf(RegOp(w).done) \/ pa
          BY <1>1, <3>1, <5>2
        <5> HIDE DEF p1, wt, pa
        <5>4. Held(registry, p1, host, tar, pa)
          BY <1>0, <1>1, <3>1, <5>1, <5>3, HeldCommit
        <5> QED
          BY <1>0, <5>1, <5>4 DEF p1
      <4> QED
        BY <1>0, <3>1, <4>1
    <3> QED
      BY <3>1, <3>2, FilesRegd
  <2>2. CASE RegistryCommit(w)
    <3>1. /\ CodeOf(hist[w]) = "FilesCompleted"
          /\ \/ /\ registry.wf = w /\ registry.tier = RegOp(w).doing
                /\ registry' = [registry EXCEPT !.tier = RegOp(w).done]
             \/ registry' = registry
          /\ \E u : MovesTo("regd", w, u)
          /\ repo' = repo /\ UNCHANGED <<disk, flow>>
      <4>1. registry.tier # RegOp(w).doing =>
               [registry EXCEPT !.tier = IF @ = RegOp(w).doing
                                         THEN RegOp(w).done ELSE @] = registry
        BY <1>0 DEF Shaped
      <4>2. registry.tier = RegOp(w).doing =>
               [registry EXCEPT !.tier = IF @ = RegOp(w).doing
                                         THEN RegOp(w).done ELSE @]
                 = [registry EXCEPT !.tier = RegOp(w).done]
        BY <1>0 DEF Shaped
      <4> QED
        BY <2>2, <4>1, <4>2, RegistryCommitIs DEF Ends, MayCommit
    <3>2. Held(registry', repo, host, tar, pa)
          /\ (registry' = registry
              \/ (registry'.wf = w /\ registry'.tier = RegOp(w).done))
      <4>1. CASE /\ registry.wf = w /\ registry.tier = RegOp(w).doing
                 /\ registry' = [registry EXCEPT !.tier = RegOp(w).done]
        <5> DEFINE g1 == registry'
        <5>1. g1.wf = w /\ g1.tier = RegOp(w).done /\ Owns(w, registry)
          BY <1>0, <4>1 DEF Owns, Shaped
        <5>2. host = HostOf(g1.tier) \/ pa
          BY <1>1, <3>1, <5>1
        <5> HIDE DEF g1, pa
        <5>3. Held(g1, repo, host, tar, pa)
          BY <1>0, <5>2, HeldRegistry
        <5> QED
          BY <5>1, <5>3 DEF g1
      <4> QED
        BY <1>0, <3>1, <4>1
    <3>3. Held(registry', repo', host, tar, pa) /\ repo'.tar \in Archives
      BY <1>0, <3>1, <3>2
    <3> QED
      BY <3>1, <3>2, <3>3, FilesRegd
  <2> QED
    BY <2>1, <2>2
<1>2. CodeOf(hist[w]) = "FilesCompleted" =>
         /\ own => host = HostOf(RegOp(w).done) \/ pa
         /\ Archiving(w) => wt # "none"
  <2>1. DiskAt(w, f, e, b, CodeOf(hist[w]), own, host, d, tar, wt, pa)
    BY DiskIs
  <2> HIDE DEF f, e, b, own, d, wt, pa
  <2> QED
    BY <2>1 DEF DiskAt
<1> QED
  BY <1>1, <1>2

\* The steps that abort the repo and the registry.
LEMMA FilesKeepsAbort ==
    ASSUME FlowInv, LockInv, FilesInv, NEW w \in Workflows,
           ReposAbort(w) \/ RegistryAbort(w)
    PROVE  FilesInv'
<1> DEFINE pa == PlaceholderAccepted
<1>0. /\ Held(registry, repo, host, tar, pa) /\ repo.tar \in Archives
      /\ Shaped(registry, repo)
  BY FilesAre, LockIs
<1>1. CASE ReposAbort(w)
  <2>1. /\ \/ /\ Owns(w, repo)
              /\ repo' = [repo EXCEPT !.tier = RepoOp(w).failed, !.error = TRUE]
           \/ repo' = repo
        /\ \E u : MovesTo("regd", w, u)
        /\ registry' = registry /\ UNCHANGED <<disk, flow>>
    BY <1>1, ReposAbortIs, OpsAre DEF MayAbort, Owns
  <2>2. Held(registry, repo', host, tar, pa) /\ repo'.tar \in Archives
    <3>1. CASE /\ Owns(w, repo)
               /\ repo' = [repo EXCEPT !.tier = RepoOp(w).failed, !.error = TRUE]
      <4> DEFINE p1 == repo'
      <4>1. p1.tar = repo.tar /\ p1.wf = repo.wf /\ p1.tier = RegOp(w).failed
        BY <1>0, <3>1, OpsAre DEF Shaped
      <4> HIDE DEF p1
      <4>2. Held(registry, p1, host, tar, pa)
        BY <1>0, <3>1, <4>1, HeldAbort
      <4> QED
        BY <1>0, <4>1, <4>2 DEF p1
    <3> QED
      BY <1>0, <2>1, <3>1
  <2> QED
    BY <2>1, <2>2, FilesRegd
<1>2. CASE RegistryAbort(w)
  <2>1. /\ CodeOf(hist[w]) # "FilesCompleted"
        /\ \/ registry.wf = w /\ registry' = [registry EXCEPT !.tier = RegOp(w).failed]
           \/ registry' = registry
        /\ \E u : MovesTo("regd", w, u)
        /\ repo' = repo /\ UNCHANGED <<disk, flow>>
    BY <1>2, RegistryAbortIs DEF MayAbort, Undoes, Aborts
  <2>2. Held(registry', repo, host, tar, pa)
        /\ (registry' = registry \/ registry'.wf = w)
    <3>1. CASE /\ registry.wf = w
               /\ registry' = [registry EXCEPT !.tier = RegOp(w).failed]
      <4> DEFINE g1 == registry'
      <4>1. g1.wf = w /\ g1.tier = RegOp(w).failed
        BY <1>0, <3>1 DEF Shaped
      <4>2. RegOp(w).failed \notin {"online", "frozen", "archived"}
        BY TiersAre
      <4> HIDE DEF g1
      <4>3. Held(g1, repo, host, tar, pa)
        BY <1>0, <4>1, <4>2, HeldRegistry
      <4> QED
        BY <4>1, <4>3 DEF g1
    <3> QED
      BY <1>0, <2>1, <3>1
  <2>3. Held(registry', repo', host, tar, pa) /\ repo'.tar \in Archives
    BY <1>0, <2>1, <2>2
  <2> QED
    BY <2>1, <2>2, <2>3, FilesRegd
<1> QED
  BY <1>1, <1>2

-----------------------------------------------------------------------------
(***************************************************************************)
(* The commands to the workflow.                                           *)
(***************************************************************************)

\* An event that does not announce a swap leaves nobody behind.
LEMMA BehindPosted ==
    ASSUME NEW w, NEW a, NEW a1, NEW h, NEW h1, NEW to,
           Len(h) \in Nat, Len(h1) = Len(h) + 1, a.pos \in Nat,
           \A i \in 1 .. Len(h) : h1[i] = h[i],
           h1 # <<>>, CodeOf(h1) = to, to \notin {"TarttCompleted", "SwapStarted"},
           a1.pos \in {0, a.pos},
           a1.todo \in {P3, P4} => a.todo \in {P3, P4} /\ a.at < Len(h),
           Behind(w, a1, h1)
    PROVE  Behind(w, a, h)
<1>1. Scode(h1[Len(h) + 1].st) = to
  BY DEF CodeOf, StateOf
<1>2. CASE a1.todo \in {P3, P4}
  BY <1>2 DEF Behind
<1>3. CASE a1.todo \notin {P3, P4}
  <2>1. PICK q \in a1.pos + 1 .. Len(h1) :
           Scode(h1[q].st) \in {"TarttCompleted", "SwapStarted"}
    BY <1>3 DEF Behind
  <2>2. a1.pos > 0 /\ Archiving(w)
    BY <1>3 DEF Behind
  <2>3. a1.pos = a.pos
    BY <2>2
  <2>4. q \in a.pos + 1 .. Len(h)
    BY <1>1, <2>1, <2>3
  <2>5. h1[q] = h[q]
    BY <2>4
  <2> QED
    BY <2>1, <2>2, <2>3, <2>4, <2>5 DEF Behind
<1> QED
  BY <1>2, <1>3

\* What nogfsostad has ahead while it has nothing to do with the files.
LEMMA StadRests ==
    ASSUME FlowInv, NEW w \in Workflows,
           CodeOf(hist[w]) \notin {"Files", "TarttCompleted", "SwapStarted",
                                   "FilesEnded"}
    PROVE  /\ First(act["stad"][w].todo) \in
                 {"none", "quit", "MakePlaceholder", "BeginSwap", "AbortFiles"}
           /\ Archiving(w) \/ First(act["stad"][w].todo) \in {"none", "quit"}
           /\ act["stad"][w].todo \in {P3, P4} =>
                 act["stad"][w].at < Len(hist[w])
<1> DEFINE a == act["stad"][w]
           c == CodeOf(hist[w])
           n == Len(hist[w])
<1>1. StadFits(w, a.todo, a.pos, a.at, c, n)
  <2>1. GoodAct("stad", w, a, hist[w], index[w])
    BY DEF FlowInv, Roles
  <2> QED
    BY <2>1 DEF GoodAct, Fits
<1>2. \/ a.todo \in {<<>>, Quit}
      \/ Archiving(w) /\ a.todo \in {P3, P4, S5} /\ a.at < n
  BY <1>1 DEF StadFits, StadTodo, Prepares, Archiving
<1>3. P3 \notin {<<>>, Quit} /\ P4 \notin {<<>>, Quit}
  BY PrepareNotRest DEF Resting
<1> QED
  BY <1>2, <1>3, StadFirstsAre

\* What nogfsorstd has ahead while it has nothing to do with the files.
LEMMA RstdRests ==
    ASSUME FlowInv, NEW w \in Workflows, CodeOf(hist[w]) # "Tartt"
    PROVE  First(act["rstd"][w].todo) \in {"none", "quit"}
<1>1. RstdFits(w, act["rstd"][w].todo, act["rstd"][w].pos, CodeOf(hist[w]),
               Len(hist[w]))
  <2>1. GoodAct("rstd", w, act["rstd"][w], hist[w], index[w])
    BY DEF FlowInv, Roles
  <2> QED
    BY <2>1 DEF GoodAct, Fits
<1>2. act["rstd"][w].todo \in {<<>>, Quit}
  BY <1>1 DEF RstdFits, RstdTodo
<1> QED
  BY <1>2, StadFirstsAre

\* A placeholder that has been accepted stays so.
LEMMA AcceptedStays ==
    ASSUME NEW w \in Workflows, NEW x, wtar \in [Workflows -> Archives],
           \/ wtar' = wtar
           \/ wtar' = [wtar EXCEPT ![w] = x] /\ x \in Archives /\ wtar[w] = "none"
    PROVE  /\ PlaceholderAccepted => PlaceholderAccepted'
           /\ wtar' \in [Workflows -> Archives]
           /\ \A v \in Workflows : v # w => wtar'[v] = wtar[v]
<1>1. wtar' \in [Workflows -> Archives]
  OBVIOUS
<1>2. \A v \in Workflows : v # w => wtar'[v] = wtar[v]
  OBVIOUS
<1>3. ASSUME PlaceholderAccepted
      PROVE  PlaceholderAccepted'
  <2>1. PICK v \in Workflows : wtar[v] = "placeholder"
    BY <1>3 DEF PlaceholderAccepted
  <2>2. wtar'[v] = "placeholder"
    BY <2>1, <1>2
  <2> QED
    BY <2>2 DEF PlaceholderAccepted
<1> QED
  BY <1>1, <1>2, <1>3

\* Once accepted, a placeholder excuses what it did before.
LEMMA HeldAccepted ==
    ASSUME NEW g, NEW p, NEW h, NEW t, NEW pa, Held(g, p, h, t, pa),
           NEW pa1, pa => pa1
    PROVE  Held(g, p, h, t, pa1)
BY DEF Held

\* A command that is accepted.
LEMMA FilesTook ==
    ASSUME FlowInv, FilesInv, NEW w \in Workflows, NEW r \in Roles,
           NEW cmd, NEW t, NEW to, Took(r, w, cmd, t, to),
           UNCHANGED <<aggregates, disk>>,
           \/ wtar' = wtar
           \/ wtar' = [wtar EXCEPT ![w] = tar] /\ wtar[w] = "none",
           NEW f, f = First(IF r = "stad" THEN t ELSE act["stad"][w].todo),
           NEW e, e = First(IF r = "rstd" THEN t ELSE act["rstd"][w].todo),
           DiskAt(w, f, e, Behind(w, act'["stad"][w], hist'[w]), to,
                  Owns(w, registry), host, dir[w], tar, wtar'[w],
                  PlaceholderAccepted')
    PROVE  FilesInv'
<1>1. /\ act'[r][w].todo = <<>> \/ act'[r][w].todo = t
      /\ \A y \in Roles, v \in Workflows :
            y # r \/ v # w => act'[y][v] = act[y][v]
      /\ \A v \in Workflows : v # w => hist'[v] = hist[v]
  BY TookTodo
<1>2. CodeOf(hist'[w]) = to
  BY DEF Took
<1>3. /\ UNCHANGED <<registry, repo, host, dir, tar>>
      /\ tar \in Archives /\ repo.tar \in Archives
      /\ wtar \in [Workflows -> Archives]
      /\ Held(registry, repo, host, tar, PlaceholderAccepted)
  BY FilesAre DEF aggregates, disk
<1>4. /\ PlaceholderAccepted => PlaceholderAccepted'
      /\ wtar' \in [Workflows -> Archives]
      /\ \A v \in Workflows : v # w => wtar'[v] = wtar[v]
  <2> DEFINE x == tar
  <2>1. \/ wtar' = wtar
        \/ wtar' = [wtar EXCEPT ![w] = x] /\ x \in Archives /\ wtar[w] = "none"
    BY <1>3
  <2> HIDE DEF x
  <2> QED
    BY <1>3, <2>1, AcceptedStays
<1> DEFINE f1 == First(act'["stad"][w].todo)
           e1 == First(act'["rstd"][w].todo)
           b1 == Behind(w, act'["stad"][w], hist'[w])
           own == Owns(w, registry)
           d == dir[w]
           wt1 == wtar'[w]
           pa == PlaceholderAccepted
           pa1 == PlaceholderAccepted'
<1>5. f1 \in {f, "none"} /\ e1 \in {e, "none"}
  <2>1. CASE r = "stad"
    BY <1>1, <2>1, StadFirstsAre DEF Roles
  <2>2. CASE r = "rstd"
    BY <1>1, <2>2, StadFirstsAre DEF Roles
  <2>3. CASE r = "regd"
    BY <1>1, <2>3 DEF Roles
  <2> QED
    BY <2>1, <2>2, <2>3 DEF Roles
<1>6. DiskAt(w, f, e, b1, to, own, host, d, tar, wt1, pa1)
  OBVIOUS
<1>7. DiskAt(w, f1, e1, b1, to, own, host, d, tar, wt1, pa1)
  <2> HIDE DEF f1, e1, b1, own, d, wt1, pa, pa1
  <2>1. f1 = f \/ f1 \in Unbound
    BY <1>5 DEF Unbound
  <2>2. e1 = e \/ e1 # "CommitTartt"
    BY <1>5
  <2> QED
    BY ONLY <1>6, <2>1, <2>2, DiskRests
<1>8. Held(registry, repo, host, tar, pa1)
  <2>1. pa => pa1
    BY <1>4
  <2>2. Held(registry, repo, host, tar, pa)
    BY <1>3
  <2> HIDE DEF pa, pa1
  <2> QED
    BY <2>1, <2>2, HeldAccepted
<1>9. DiskAt(w, First(act'["stad"][w].todo), First(act'["rstd"][w].todo),
             Behind(w, act'["stad"][w], hist'[w]), CodeOf(hist'[w]),
             Owns(w, registry'), host', dir'[w], tar', wtar'[w],
             PlaceholderAccepted')
  BY <1>2, <1>3, <1>7
<1>10. \A v \in Workflows : v # w =>
          /\ act'["stad"][v] = act["stad"][v]
          /\ act'["rstd"][v] = act["rstd"][v]
          /\ hist'[v] = hist[v] /\ wtar'[v] = wtar[v] /\ dir'[v] = dir[v]
          /\ Owns(v, registry') => Owns(v, registry)
  BY <1>1, <1>3, <1>4 DEF Roles
<1>11. dir' = [v \in Workflows |-> [in |-> dir'[v].in, trash |-> dir'[v].trash]]
  BY <1>3 DEF FilesInv
<1>12. tar' \in Archives /\ repo'.tar \in Archives /\ host' = host
       /\ (tar # "none" => tar' # "none")
       /\ Held(registry', repo', host', tar', PlaceholderAccepted')
  BY <1>3, <1>8
<1> QED
  BY <1>4, <1>9, <1>10, <1>11, <1>12, FilesStep

\* A command of nogfsoregd.
LEMMA DiskRegd ==
    ASSUME NEW w, NEW f, NEW e, NEW b, NEW c, NEW own, NEW h, NEW d, NEW t,
           NEW wt, NEW pa, DiskAt(w, f, e, b, c, own, h, d, t, wt, pa),
           f \in {"none", "quit", "MakePlaceholder", "BeginSwap", "AbortFiles"},
           NEW b1, b1 => b, NEW to,
           \/ c = "Initialized" /\ to = "Files"
           \/ c # "Uninitialized"
              /\ to \in {"FilesEnded", "Completed", "Failed", "Terminated"}
    PROVE  DiskAt(w, f, e, b1, to, own, h, d, t, wt, pa)
BY DEF DiskAt

\* CommitTartt of nogfsostad: there is an archive, which is recorded.
LEMMA DiskTarttArchived ==
    ASSUME NEW w, Archiving(w), NEW e, NEW b, NEW own, NEW h, NEW d, NEW t,
           NEW wt, NEW pa,
           DiskAt(w, "CommitTartt", e, b, "Files", own, h, d, t, wt, pa),
           NEW b1, NEW pa1
    PROVE  DiskAt(w, "MakePlaceholder", e, b1, "TarttCompleted", own, h, d, t, t, pa1)
BY DEF DiskAt, Archiving, Unarchiving

\* BeginSwap: the placeholder has been made.
LEMMA DiskSwapBegun ==
    ASSUME NEW w, Archiving(w), NEW e, NEW b, NEW own, NEW h, NEW d, NEW t,
           NEW wt, NEW pa,
           DiskAt(w, "BeginSwap", e, b, "TarttCompleted", own, h, d, t, wt, pa),
           NEW b1
    PROVE  DiskAt(w, "none", e, b1, "SwapStarted", own, h, d, t, wt, pa)
BY DEF DiskAt, SwapAt, Archiving, Unarchiving

\* BeginTartt: nogfsorstd has not begun.
LEMMA DiskTarttBegun ==
    ASSUME NEW w, Unarchiving(w), NEW f, NEW e, e # "CommitTartt", NEW b, NEW own,
           NEW h, NEW d, NEW t, NEW wt, NEW pa,
           DiskAt(w, f, e, b, "Files", own, h, d, t, wt, pa), NEW b1, b1 => b
    PROVE  DiskAt(w, "none", e, b1, "Tartt", own, h, d, t, wt, pa)
BY DEF DiskAt, Archiving, Unarchiving

\* CommitTartt of nogfsorstd: the data have been restored, or a placeholder.
LEMMA DiskTarttRestored ==
    ASSUME NEW w, Unarchiving(w), NEW f, f \in {"none", "quit"}, NEW b, NEW own,
           NEW h, NEW d, NEW t, NEW wt, NEW pa,
           DiskAt(w, f, "CommitTartt", b, "Tartt", own, h, d, t, wt, pa),
           NEW b1, b1 => b
    PROVE  DiskAt(w, f, "quit", b1, "TarttCompleted", own, h, d, t, wt, pa)
BY DEF DiskAt, RestoreAt, Archiving, Unarchiving, Data

\* CommitFiles: the files are those of the target tier.
LEMMA DiskCompleted ==
    ASSUME NEW w \in Workflows, NEW e, NEW b, NEW c, NEW own, NEW h, NEW d, NEW t,
           NEW wt, NEW pa,
           DiskAt(w, "CommitFiles", e, b, c, own, h, d, t, wt, pa),
           \/ Short(w) /\ c = "Files"
           \/ Archiving(w) /\ c = "SwapStarted"
           \/ Unarchiving(w) /\ c = "TarttCompleted",
           NEW f1, f1 \in {"none", "quit"}, NEW b1, b1 => b
    PROVE  DiskAt(w, f1, e, b1, "FilesCompleted", own, h, d, t, wt, pa)
<1>1. h = HostOf(RegOp(w).done) \/ pa
  BY TiersAre DEF DiskAt, SwapAt, RestoreAt
<1> QED
  BY <1>1 DEF DiskAt, Archiving, Unarchiving, Short

\* AbortFiles, AbortTartt and CommitGc promise nothing about the files.
LEMMA DiskEnded ==
    ASSUME NEW w, NEW f, NEW e, NEW b, NEW c, NEW own, NEW h, NEW d, NEW t,
           NEW wt, NEW pa, DiskAt(w, f, e, b, c, own, h, d, t, wt, pa),
           c # "Uninitialized", NEW f1, NEW e1, NEW b1, b1 => b,
           NEW to, to \in {"FilesFailed", "TarttFailed", "GcCompleted"}
    PROVE  DiskAt(w, f1, e1, b1, to, own, h, d, t, wt, pa)
BY DEF DiskAt

\* The archive that a workflow records.
LEMMA Recorded ==
    ASSUME NEW r, NEW w, NEW cmds, WfCommand(r, w, cmds)
    PROVE  /\ UNCHANGED <<aggregates, disk, index>>
           /\ act[r][w].todo # <<>>
           /\ \/ wtar' = wtar
              \/ /\ First(act[r][w].todo) = "CommitTartt" /\ Archiving(w)
                 /\ wtar' = [wtar EXCEPT ![w] = tar]
           /\ \/ hist' = hist
              \/ First(act[r][w].todo) = "CommitTartt" /\ Archiving(w) =>
                    wtar' = [wtar EXCEPT ![w] = tar]
BY DEF WfCommand, First, Archiving

\* What a command that is accepted does to the place of nogfsostad.
LEMMA BehindTook ==
    ASSUME FlowInv, NEW w \in Workflows, NEW r \in Roles,
           NEW cmd, NEW t, NEW to, Took(r, w, cmd, t, to),
           to \notin {"TarttCompleted", "SwapStarted"},
           \/ r = "stad" /\ t \notin {P3, P4}
           \/ r # "stad" /\ (act["stad"][w].todo \in {P3, P4} =>
                                act["stad"][w].at < Len(hist[w])),
           Behind(w, act'["stad"][w], hist'[w])
    PROVE  Behind(w, act["stad"][w], hist[w])
<1> DEFINE a == act["stad"][w]
           a1 == act'["stad"][w]
           h == hist[w]
           h1 == hist'[w]
<1>1. /\ Len(h) \in Nat /\ Len(h1) = Len(h) + 1
      /\ \A i \in 1 .. Len(h) : h1[i] = h[i]
      /\ h1 # <<>> /\ CodeOf(h1) = to
  <2>1. OneMore(w, h, h1) /\ CodeOf(h1) = to
    BY DEF Took, Posted
  <2>2. GoodHist(w, h)
    BY DEF FlowInv
  <2> HIDE DEF h, h1
  <2> QED
    BY <2>1, <2>2 DEF OneMore, GoodHist
<1>2. a.pos \in Nat
  <2>1. GoodAct("stad", w, a, hist[w], index[w])
    BY DEF FlowInv, Roles
  <2> QED
    BY <1>1, <2>1 DEF GoodAct
<1>3. /\ a1.pos \in {0, a.pos}
      /\ a1.todo \in {P3, P4} => a.todo \in {P3, P4} /\ a.at < Len(h)
  <2>1. CASE r = "stad"
    <3>1. PICK x : /\ act' = [act EXCEPT !["stad"][w] = x]
                   /\ x.todo = <<>> \/ x.todo = t
                   /\ x.pos \in {0, act["stad"][w].pos}
      BY <2>1 DEF Took
    <3>2. act'["stad"][w] = x
      <4>1. act = [y \in Roles |-> [v \in Workflows |-> act[y][v]]]
        BY DEF FlowInv
      <4> QED
        BY <3>1, <4>1 DEF Roles
    <3>3. <<>> \notin {P3, P4}
      BY NotPrepared
    <3> QED
      BY <2>1, <3>1, <3>2, <3>3
  <2>2. CASE r # "stad"
    <3>1. act'["stad"][w] = act["stad"][w]
      BY <2>2, TookTodo DEF Roles
    <3> QED
      BY <2>2, <3>1
  <2> QED
    BY <2>1, <2>2
<1>4. Behind(w, a1, h1)
  OBVIOUS
<1> HIDE DEF a, a1, h, h1
<1>5. Behind(w, a, h)
  BY <1>1, <1>2, <1>3, <1>4, BehindPosted
<1> QED
  BY <1>5 DEF a, h

\* A step that changes nothing but what the activities have ahead, to steps that
\* the files do not bind.
LEMMA FilesQuiet ==
    ASSUME FilesInv, UNCHANGED <<aggregates, disk, hist, wtar>>,
           \A v \in Workflows :
              LET f1 == First(act'["stad"][v].todo)
                  e1 == First(act'["rstd"][v].todo)
              IN  /\ \/ f1 = First(act["stad"][v].todo)
                     \/ f1 \in Unbound
                     \/ f1 = "SwapOut" /\ Archiving(v)
                  /\ e1 = First(act["rstd"][v].todo) \/ e1 # "CommitTartt"
                  /\ Behind(v, act'["stad"][v], hist[v]) =>
                        Behind(v, act["stad"][v], hist[v])
    PROVE  FilesInv'
<1>1. UNCHANGED <<registry, repo, host, dir, tar, hist, wtar>>
  BY DEF aggregates, disk
<1>2. PlaceholderAccepted' = PlaceholderAccepted
  BY <1>1 DEF PlaceholderAccepted
<1>3. ASSUME NEW v \in Workflows
      PROVE  DiskOf(v, act'["stad"][v], act'["rstd"][v], hist'[v],
                    Owns(v, registry'), dir'[v], wtar'[v], PlaceholderAccepted',
                    host', tar')
  <2> DEFINE f == First(act["stad"][v].todo)
             e == First(act["rstd"][v].todo)
             b == Behind(v, act["stad"][v], hist[v])
             f1 == First(act'["stad"][v].todo)
             e1 == First(act'["rstd"][v].todo)
             b1 == Behind(v, act'["stad"][v], hist[v])
             c == CodeOf(hist[v])
             own == Owns(v, registry)
             d == dir[v]
             wt == wtar[v]
             pa == PlaceholderAccepted
  <2>1. DiskAt(v, f, e, b, c, own, host, d, tar, wt, pa)
    BY DiskIs
  <2>2. /\ f1 = f \/ f1 \in Unbound \/ (f1 = "SwapOut" /\ Archiving(v))
        /\ e1 = e \/ e1 # "CommitTartt"
        /\ b1 => b
    OBVIOUS
  <2>3. DiskAt(v, f1, e1, b1, c, own, host, d, tar, wt, pa)
    <3> HIDE DEF f, e, b, f1, e1, b1, c, own, d, wt, pa
    <3> QED
      BY ONLY <2>1, <2>2, DiskRests
  <2> QED
    BY <1>1, <1>2, <2>3 DEF DiskOf
<1> QED
  BY <1>1, <1>2, <1>3 DEF FilesInv

\* A command that is not accepted, or a step that fails.
LEMMA FilesRefused ==
    ASSUME FlowInv, FilesInv, NEW w \in Workflows, NEW r \in Roles,
           MovesTo(r, w, <<>>), UNCHANGED <<aggregates, disk, hist, wtar>>
    PROVE  FilesInv'
<1>1. /\ act'[r][w].todo = <<>>
      /\ \A y \in Roles, v \in Workflows :
            y # r \/ v # w => act'[y][v] = act[y][v]
  BY MovedTodo
<1>2. ASSUME NEW v \in Workflows
      PROVE  /\ First(act'["stad"][v].todo) \in {First(act["stad"][v].todo), "none"}
             /\ First(act'["rstd"][v].todo) \in {First(act["rstd"][v].todo), "none"}
             /\ Behind(v, act'["stad"][v], hist[v]) =>
                   Behind(v, act["stad"][v], hist[v])
  <2>1. CASE r = "stad" /\ v = w
    <3>1. <<>> \notin {P3, P4}
      BY NotPrepared
    <3>2. Behind(w, act'["stad"][w], hist'[w]) => Behind(w, act["stad"][w], hist[w])
      BY <2>1, <3>1, BehindMoved
    <3> QED
      BY <1>1, <2>1, <3>2, StadFirstsAre DEF Roles
  <2>2. CASE r = "rstd" /\ v = w
    BY <1>1, <2>2, StadFirstsAre DEF Roles
  <2>3. CASE r = "regd" \/ v # w
    BY <1>1, <2>3 DEF Roles
  <2> QED
    BY <2>1, <2>2, <2>3 DEF Roles
<1> QED
  BY <1>2, FilesQuiet DEF Unbound

\* The commands of nogfsoregd.
LEMMA FilesKeepsRegdCommand ==
    ASSUME FlowInv, LockInv, FilesInv, NEW w \in Workflows,
           WfCommand("regd", w, RegdCommands)
    PROVE  FilesInv'
<1> DEFINE f == First(act["stad"][w].todo)
           e == First(act["rstd"][w].todo)
           b == Behind(w, act["stad"][w], hist[w])
           b1 == Behind(w, act'["stad"][w], hist'[w])
           c == CodeOf(hist[w])
           own == Owns(w, registry)
           d == dir[w]
           wt == wtar[w]
           pa == PlaceholderAccepted
<1>1. \/ MovesTo("regd", w, <<>>) /\ UNCHANGED <<hist, wtar>>
      \/ \E cmd, t, to :
            /\ Took("regd", w, cmd, t, to)
            /\ \/ c = "Initialized" /\ to = "Files"
               \/ /\ c \in {"Initialized", "FilesCompleted", "FilesFailed",
                            "TarttFailed", "GcCompleted", "Completed", "Failed"}
                  /\ to \in {"FilesEnded", "Completed", "Failed", "Terminated"}
  BY RegdCommand DEF Outcome, Aborts
<1>2. /\ UNCHANGED <<aggregates, disk>>
      /\ First(act["regd"][w].todo) # "CommitTartt" => wtar' = wtar
  BY Recorded
<1>3. CASE MovesTo("regd", w, <<>>) /\ UNCHANGED <<hist, wtar>>
  BY <1>2, <1>3, FilesRefused DEF Roles
<1>4. ASSUME NEW cmd, NEW t, NEW to,
             /\ Took("regd", w, cmd, t, to)
             /\ \/ c = "Initialized" /\ to = "Files"
                \/ /\ c \in {"Initialized", "FilesCompleted", "FilesFailed",
                             "TarttFailed", "GcCompleted", "Completed", "Failed"}
                   /\ to \in {"FilesEnded", "Completed", "Failed", "Terminated"}
      PROVE  FilesInv'
  <2>1. c \notin {"Files", "TarttCompleted", "SwapStarted", "FilesEnded"}
    BY <1>4
  <2>2. /\ f \in {"none", "quit", "MakePlaceholder", "BeginSwap", "AbortFiles"}
        /\ act["stad"][w].todo \in {P3, P4} => act["stad"][w].at < Len(hist[w])
    BY <2>1, StadRests
  <2>3. wtar' = wtar
    BY <1>2 DEF WfCommand, RegdCommands, First
  <2>4. PlaceholderAccepted' = pa
    BY <2>3 DEF PlaceholderAccepted
  <2>5. b1 => b
    BY <1>4, <2>2, BehindTook DEF Roles
  <2>6. DiskAt(w, f, e, b, c, own, host, d, tar, wt, pa)
    BY DiskIs
  <2>7. DiskAt(w, f, e, b1, to, own, host, d, tar, wt, pa)
    <3> HIDE DEF f, e, b, b1, c, own, d, wt, pa
    <3> QED
      BY <1>4, <2>2, <2>5, <2>6, DiskRegd
  <2>8. DiskAt(w, f, e, b1, to, own, host, d, tar, wtar'[w], PlaceholderAccepted')
    BY <2>3, <2>4, <2>7
  <2>9. /\ f = First(IF "regd" = "stad" THEN t ELSE act["stad"][w].todo)
        /\ e = First(IF "regd" = "rstd" THEN t ELSE act["rstd"][w].todo)
        /\ "regd" \in Roles
    BY DEF Roles
  <2> HIDE DEF f, e
  <2> QED
    BY <1>2, <1>4, <2>3, <2>8, <2>9, FilesTook
<1> QED
  BY <1>1, <1>3, <1>4

\* The commands of nogfsorstd.
LEMMA FilesKeepsRstdCommand ==
    ASSUME FlowInv, LockInv, FilesInv, NEW w \in Workflows,
           WfCommand("rstd", w, RstdCommands)
    PROVE  FilesInv'
<1> DEFINE f == First(act["stad"][w].todo)
           e == First(act["rstd"][w].todo)
           b == Behind(w, act["stad"][w], hist[w])
           b1 == Behind(w, act'["stad"][w], hist'[w])
           c == CodeOf(hist[w])
           own == Owns(w, registry)
           d == dir[w]
           wt == wtar[w]
           pa == PlaceholderAccepted
<1>1. /\ Unarchiving(w) /\ c = "Tartt"
      /\ \/ MovesTo("rstd", w, <<>>) /\ UNCHANGED <<hist, wtar>>
         \/ e = "CommitTartt" /\ Took("rstd", w, "CommitTartt", Quit, "TarttCompleted")
         \/ Took("rstd", w, "AbortTartt", Quit, "TarttFailed")
  BY RstdCommand, StadFirstsAre DEF Outcome, Unarchiving
<1>2. UNCHANGED <<aggregates, disk>> /\ wtar' = wtar
  BY <1>1, Recorded DEF Archiving, Unarchiving
<1>3. CASE MovesTo("rstd", w, <<>>) /\ UNCHANGED <<hist, wtar>>
  BY <1>2, <1>3, FilesRefused DEF Roles
<1>4. PlaceholderAccepted' = pa
  BY <1>2 DEF PlaceholderAccepted
<1>5. f \in {"none", "quit"}
  <2>1. ~Archiving(w)
    BY <1>1 DEF Archiving, Unarchiving
  <2> QED
    BY <1>1, <2>1, StadRests
<1>6. b1 => b
  BY <1>1 DEF Behind, Archiving, Unarchiving
<1>7. DiskAt(w, f, e, b, c, own, host, d, tar, wt, pa)
  BY DiskIs
<1>8. f = First(IF "rstd" = "stad" THEN Quit ELSE act["stad"][w].todo)
      /\ "quit" = First(IF "rstd" = "rstd" THEN Quit ELSE act["rstd"][w].todo)
      /\ "rstd" \in Roles
  BY StadFirstsAre DEF Roles
<1>9. CASE e = "CommitTartt" /\ Took("rstd", w, "CommitTartt", Quit, "TarttCompleted")
  <2>1. DiskAt(w, f, "quit", b1, "TarttCompleted", own, host, d, tar, wt, pa)
    <3> HIDE DEF f, e, b, b1, c, own, d, wt, pa
    <3> QED
      BY <1>1, <1>5, <1>6, <1>7, <1>9, DiskTarttRestored
  <2>2. DiskAt(w, f, "quit", b1, "TarttCompleted", own, host, d, tar, wtar'[w],
               PlaceholderAccepted')
    BY <1>2, <1>4, <2>1
  <2> HIDE DEF f, e
  <2> QED
    BY <1>2, <1>8, <1>9, <2>2, FilesTook
<1>10. CASE Took("rstd", w, "AbortTartt", Quit, "TarttFailed")
  <2>1. DiskAt(w, f, "quit", b1, "TarttFailed", own, host, d, tar, wt, pa)
    <3> HIDE DEF f, e, b, b1, c, own, d, wt, pa
    <3> QED
      BY <1>1, <1>6, <1>7, DiskEnded
  <2>2. DiskAt(w, f, "quit", b1, "TarttFailed", own, host, d, tar, wtar'[w],
               PlaceholderAccepted')
    BY <1>2, <1>4, <2>1
  <2> HIDE DEF f, e
  <2> QED
    BY <1>2, <1>8, <1>10, <2>2, FilesTook
<1> QED
  BY <1>1, <1>3, <1>9, <1>10

\* The commands of nogfsostad but for the one that records the archive.
LEMMA FilesStadTook ==
    ASSUME FlowInv, FilesInv, NEW w \in Workflows, NEW cmd, NEW t, NEW to,
           Took("stad", w, cmd, t, to), UNCHANGED <<aggregates, disk>>,
           wtar' = wtar, NEW f, f = First(t),
           DiskAt(w, f, First(act["rstd"][w].todo),
                  Behind(w, act'["stad"][w], hist'[w]), to,
                  Owns(w, registry), host, dir[w], tar, wtar[w],
                  PlaceholderAccepted)
    PROVE  FilesInv'
<1> DEFINE e == First(act["rstd"][w].todo)
<1>1. PlaceholderAccepted' = PlaceholderAccepted
  BY DEF PlaceholderAccepted
<1>2. /\ f = First(IF "stad" = "stad" THEN t ELSE act["stad"][w].todo)
      /\ e = First(IF "stad" = "rstd" THEN t ELSE act["rstd"][w].todo)
      /\ "stad" \in Roles
  BY DEF Roles
<1>3. DiskAt(w, f, e, Behind(w, act'["stad"][w], hist'[w]), to,
             Owns(w, registry), host, dir[w], tar, wtar'[w],
             PlaceholderAccepted')
  BY <1>1
<1> HIDE DEF e
<1> QED
  BY <1>2, <1>3, FilesTook

\* The commands of nogfsostad.
LEMMA FilesKeepsStadCommand ==
    ASSUME FlowInv, LockInv, FilesInv, NEW w \in Workflows,
           WfCommand("stad", w, StadCommands)
    PROVE  FilesInv'
<1> DEFINE f == First(act["stad"][w].todo)
           e == First(act["rstd"][w].todo)
           b == Behind(w, act["stad"][w], hist[w])
           b1 == Behind(w, act'["stad"][w], hist'[w])
           c == CodeOf(hist[w])
           own == Owns(w, registry)
           d == dir[w]
           wt == wtar[w]
           pa == PlaceholderAccepted
           pa1 == PlaceholderAccepted'
<1>1. \/ MovesTo("stad", w, <<>>) /\ UNCHANGED <<hist, wtar>>
      \/ /\ f = "CommitTartt" /\ Archiving(w) /\ c = "Files"
         /\ Took("stad", w, "CommitTartt", P3, "TarttCompleted")
      \/ /\ f = "BeginSwap" /\ Archiving(w) /\ c = "TarttCompleted"
         /\ Took("stad", w, "BeginSwap", <<>>, "SwapStarted")
      \/ /\ f = "BeginTartt" /\ Unarchiving(w) /\ c = "Files"
         /\ Took("stad", w, "BeginTartt", <<>>, "Tartt")
      \/ /\ f = "CommitFiles"
         /\ \/ Short(w) /\ c = "Files"
            \/ Archiving(w) /\ c = "SwapStarted"
            \/ Unarchiving(w) /\ c = "TarttCompleted"
         /\ \E t \in {<<>>, Quit} : Took("stad", w, "CommitFiles", t, "FilesCompleted")
      \/ /\ f \in {"AbortFiles", "CommitGc"} /\ c # "Uninitialized"
         /\ \E t \in {<<>>, Quit} : \E to \in {"FilesFailed", "GcCompleted"} :
               \E cmd : Took("stad", w, cmd, t, to)
  <2>1. \/ MovesTo("stad", w, <<>>) /\ UNCHANGED <<hist, wtar>>
        \/ /\ f = "CommitTartt" /\ Archiving(w) /\ c = "Files"
           /\ Took("stad", w, "CommitTartt", P3, "TarttCompleted")
        \/ /\ f = "BeginSwap" /\ Archiving(w) /\ c = "TarttCompleted"
           /\ Took("stad", w, "BeginSwap", <<>>, "SwapStarted")
        \/ /\ f = "BeginTartt" /\ Unarchiving(w) /\ c = "Files"
           /\ Took("stad", w, "BeginTartt", <<>>, "Tartt")
        \/ /\ f = "CommitFiles" /\ Short(w) /\ c = "Files"
           /\ Took("stad", w, "CommitFiles", Quit, "FilesCompleted")
        \/ /\ f = "CommitFiles"
           /\ \/ Archiving(w) /\ c = "SwapStarted"
              \/ Unarchiving(w) /\ c = "TarttCompleted"
           /\ Took("stad", w, "CommitFiles", <<>>, "FilesCompleted")
        \/ /\ f = "AbortFiles" /\ c = "Files"
           /\ Took("stad", w, "AbortFiles", Quit, "FilesFailed")
        \/ /\ f = "AbortFiles" /\ c \in {"Files", "TarttCompleted", "SwapStarted"}
           /\ Took("stad", w, "AbortFiles", <<>>, "FilesFailed")
        \/ /\ f = "CommitGc" /\ c = "FilesEnded"
           /\ Took("stad", w, "CommitGc", Quit, "GcCompleted")
    BY StadCommand, StadFirstsAre DEF Outcome, Archiving, Unarchiving
  <2> HIDE DEF f, c
  <2> QED
    BY <2>1
<1>2. /\ UNCHANGED <<aggregates, disk>>
      /\ f # "CommitTartt" \/ ~Archiving(w) => wtar' = wtar
      /\ \/ hist' = hist
         \/ f = "CommitTartt" /\ Archiving(w) => wtar' = [wtar EXCEPT ![w] = tar]
  BY Recorded
<1>3. DiskAt(w, f, e, b, c, own, host, d, tar, wt, pa)
  BY DiskIs
<1>4. CASE MovesTo("stad", w, <<>>) /\ UNCHANGED <<hist, wtar>>
  BY <1>2, <1>4, FilesRefused DEF Roles
<1>5. CASE /\ f = "CommitTartt" /\ Archiving(w) /\ c = "Files"
           /\ Took("stad", w, "CommitTartt", P3, "TarttCompleted")
  <2>1. wtar' = [wtar EXCEPT ![w] = tar]
    <3>1. CodeOf(hist'[w]) = "TarttCompleted"
      BY <1>5 DEF Took
    <3>2. hist' # hist
      BY <1>5, <3>1
    <3> QED
      BY <1>2, <1>5, <3>2
  <2>2. wtar \in [Workflows -> Archives]
    BY FilesAre
  <2>3. wtar'[w] = tar
    BY <2>1, <2>2
  <2>4. wt = "none" /\ DiskAt(w, "MakePlaceholder", e, b1, "TarttCompleted", own,
                              host, d, tar, tar, pa1)
    <3> HIDE DEF f, e, b, b1, c, own, d, wt, pa, pa1
    <3>1. DiskAt(w, "CommitTartt", e, b, "Files", own, host, d, tar, wt, pa)
      BY <1>3, <1>5
    <3>2. wt = "none"
      BY <1>5, <3>1 DEF DiskAt
    <3> QED
      BY <1>5, <3>1, <3>2, DiskTarttArchived
  <2>5. DiskAt(w, "MakePlaceholder", e, b1, "TarttCompleted", own, host, d, tar,
               wtar'[w], pa1)
    BY <2>3, <2>4
  <2>6. /\ "MakePlaceholder" = First(IF "stad" = "stad" THEN P3
                                     ELSE act["stad"][w].todo)
        /\ e = First(IF "stad" = "rstd" THEN P3 ELSE act["rstd"][w].todo)
        /\ "stad" \in Roles
    BY StadFirstsAre DEF Roles
  <2>7. wtar[w] = "none"
    BY <2>4
  <2> HIDE DEF e
  <2> QED
    BY ZenonT(40), <1>2, <1>5, <2>1, <2>5, <2>6, <2>7, FilesTook
<1>6. CASE /\ f = "BeginSwap" /\ Archiving(w) /\ c = "TarttCompleted"
           /\ Took("stad", w, "BeginSwap", <<>>, "SwapStarted")
  <2>1. DiskAt(w, "none", e, b1, "SwapStarted", own, host, d, tar, wt, pa)
    <3> HIDE DEF f, e, b, b1, c, own, d, wt, pa, pa1
    <3> QED
      BY <1>3, <1>6, DiskSwapBegun
  <2>2. wtar' = wtar /\ "none" = First(<<>>)
    BY <1>2, <1>6, StadFirstsAre
  <2> QED
    BY <1>2, <1>6, <2>1, <2>2, FilesStadTook
<1>7. CASE /\ f = "BeginTartt" /\ Unarchiving(w) /\ c = "Files"
           /\ Took("stad", w, "BeginTartt", <<>>, "Tartt")
  <2>1. e # "CommitTartt"
    BY <1>7, RstdRests
  <2>2. b1 => b
    BY <1>7 DEF Behind, Archiving, Unarchiving
  <2>3. DiskAt(w, "none", e, b1, "Tartt", own, host, d, tar, wt, pa)
    <3> HIDE DEF f, e, b, b1, c, own, d, wt, pa, pa1
    <3> QED
      BY <1>3, <1>7, <2>1, <2>2, DiskTarttBegun
  <2>4. wtar' = wtar /\ "none" = First(<<>>)
    BY <1>2, <1>7, StadFirstsAre
  <2> QED
    BY <1>2, <1>7, <2>3, <2>4, FilesStadTook
<1>8. ASSUME NEW t \in {<<>>, Quit}
      PROVE  t \notin {P3, P4} /\ First(t) \in {"none", "quit"}
  BY StadFirstsAre, PrepareNotRest DEF Resting
<1>9. CASE /\ f = "CommitFiles"
           /\ \/ Short(w) /\ c = "Files"
              \/ Archiving(w) /\ c = "SwapStarted"
              \/ Unarchiving(w) /\ c = "TarttCompleted"
           /\ \E t \in {<<>>, Quit} : Took("stad", w, "CommitFiles", t, "FilesCompleted")
  <2>1. PICK t \in {<<>>, Quit} : Took("stad", w, "CommitFiles", t, "FilesCompleted")
    BY <1>9
  <2> DEFINE f1 == First(t)
  <2>2. t \notin {P3, P4} /\ f1 \in {"none", "quit"}
    BY <1>8
  <2>3. b1 => b
    BY <2>1, <2>2, BehindTook DEF Roles
  <2> HIDE DEF f1
  <2>4. DiskAt(w, f1, e, b1, "FilesCompleted", own, host, d, tar, wt, pa)
    <3> HIDE DEF f, e, b, b1, c, own, d, wt, pa, pa1
    <3> QED
      BY <1>3, <1>9, <2>2, <2>3, DiskCompleted
  <2>5. wtar' = wtar
    BY <1>2, <1>9
  <2> QED
    BY <1>2, <2>1, <2>4, <2>5, FilesStadTook DEF f1
<1>10. CASE /\ f \in {"AbortFiles", "CommitGc"} /\ c # "Uninitialized"
            /\ \E t \in {<<>>, Quit} : \E to \in {"FilesFailed", "GcCompleted"} :
                  \E cmd : Took("stad", w, cmd, t, to)
  <2>1. PICK t \in {<<>>, Quit} : \E to \in {"FilesFailed", "GcCompleted"} :
                                    \E cmd : Took("stad", w, cmd, t, to)
    BY <1>10
  <2>2. PICK to \in {"FilesFailed", "GcCompleted"} :
                \E cmd : Took("stad", w, cmd, t, to)
    BY <2>1
  <2>3. PICK cmd : Took("stad", w, cmd, t, to)
    BY <2>2
  <2> DEFINE f1 == First(t)
  <2>4. t \notin {P3, P4}
    BY <1>8
  <2>5. b1 => b
    BY <2>3, <2>4, BehindTook DEF Roles
  <2> HIDE DEF f1
  <2>6. DiskAt(w, f1, e, b1, to, own, host, d, tar, wt, pa)
    <3> HIDE DEF f, e, b, b1, c, own, d, wt, pa, pa1
    <3> QED
      BY <1>3, <1>10, <2>5, DiskEnded
  <2>7. wtar' = wtar
    BY <1>2, <1>10
  <2> QED
    BY <1>2, <2>3, <2>6, <2>7, FilesStadTook DEF f1
<1> QED
  BY <1>1, <1>4, <1>5, <1>6, <1>7, <1>9, <1>10

-----------------------------------------------------------------------------
(***************************************************************************)
(* The server, the views, failures and the environment.                    *)
(***************************************************************************)

\* nogfsostad takes up the steps of a view.
LEMMA BehindView ==
    ASSUME FlowInv, NEW w \in Workflows, NEW p, Processes("stad", w, p),
           hist'[w] = hist[w],
           Behind(w, act'["stad"][w], hist'[w])
    PROVE  Behind(w, act["stad"][w], hist[w])
<1> DEFINE a == act["stad"][w]
           h == hist[w]
           n == Len(hist[w])
           T == Steps("stad", w, hist[w][p].view["stad"])
           x == act'["stad"][w]
<1>1. /\ GoodHist(w, h) /\ n \in Nat /\ a.pos \in 0 .. n
  <2>1. GoodHist(w, h) /\ GoodAct("stad", w, a, hist[w], index[w])
    BY DEF FlowInv, Roles
  <2>2. n \in Nat
    BY <2>1 DEF GoodHist
  <2> QED
    BY <2>1, <2>2 DEF GoodAct
<1>2. p \in a.pos + 1 .. n /\ (a.pos = 0 => p = n) /\ p \in 1 .. n
  BY <1>1 DEF Processes
<1>3. x = Then([pos |-> p, at |-> p, n |-> a.n, todo |-> <<>>], T)
  <2>1. act = [y \in Roles |-> [v \in Workflows |-> act[y][v]]]
    BY DEF FlowInv
  <2> QED
    BY <2>1 DEF Processes, Roles
<1>4. Archiving(w)
  BY DEF Behind
<1>5. T \in StadSteps(w, Scode(h[p].st))
  <2>1. "stad" \in RolesOf(w)
    BY DEF RolesOf, Roles
  <2> QED
    BY <1>1, <1>2, <2>1 DEF GoodHist, StepsAt
<1>6. T \in {P3, P4} => Scode(h[p].st) = "TarttCompleted"
  <2>1. First(P1) \notin {First(P3), First(P4)}
        /\ First(S1) \notin {First(P3), First(P4)}
        /\ First(Z1) \notin {First(P3), First(P4)}
        /\ P3 \notin {<<>>, Quit} /\ P4 \notin {<<>>, Quit}
    BY StadFirstsAre, PrepareNotRest DEF Resting
  <2>2. P1 \notin {P3, P4} /\ S1 \notin {P3, P4} /\ Z1 \notin {P3, P4}
    BY <2>1
  <2>3. ~Short(w) /\ OpOf[w] # "unarchive"
    BY <1>4 DEF Archiving, Short
  <2> HIDE DEF T
  <2> QED
    BY <1>4, <1>5, <2>1, <2>2, <2>3 DEF StadSteps, Archiving
<1>7. /\ x.pos = 0 \/ x.pos = p
      /\ x.todo \in {P3, P4} => x.todo = T /\ x.at = p /\ x.pos = p
  <2>1. P3 \notin {<<>>, Quit} /\ P4 \notin {<<>>, Quit}
    BY PrepareNotRest DEF Resting
  <2> HIDE DEF T
  <2>2. CASE T = Quit
    BY <1>3, <2>1, <2>2 DEF Then, Idle
  <2>3. CASE T # Quit /\ T = <<>>
    BY <1>3, <2>1, <2>3 DEF Then
  <2>4. CASE T # Quit /\ T # <<>>
    BY <1>3, <2>1, <2>4 DEF Then
  <2> QED
    BY <2>2, <2>3, <2>4
<1>8. Behind(w, x, h)
  OBVIOUS
<1> HIDE DEF a, h, n, T, x
<1>9. Behind(w, a, h)
  <2>1. CASE x.todo \in {P3, P4}
    <3>1. x.at = p /\ x.pos = p /\ Scode(h[p].st) = "TarttCompleted"
      BY <1>6, <1>7, <2>1
    <3>2. p < n
      BY <1>1, <1>2, <1>8, <3>1 DEF Behind, n, h
    <3>3. a.pos > 0
      BY <1>1, <1>2, <3>2
    <3> QED
      BY <1>2, <1>4, <3>1, <3>3 DEF Behind, n, h
  <2>2. CASE x.todo \notin {P3, P4}
    <3>1. /\ x.pos > 0
          /\ \E q \in x.pos + 1 .. Len(h) :
                Scode(h[q].st) \in {"TarttCompleted", "SwapStarted"}
      BY <1>8, <2>2 DEF Behind
    <3>2. x.pos = p
      BY <1>7, <3>1
    <3>3. PICK q \in p + 1 .. Len(h) :
             Scode(h[q].st) \in {"TarttCompleted", "SwapStarted"}
      BY <3>1, <3>2
    <3>4. p < n /\ Len(h) = n
      BY <1>1, <1>2, <3>3 DEF n, h
    <3>5. a.pos > 0
      BY <1>1, <1>2, <3>4
    <3>6. q \in a.pos + 1 .. Len(h)
      BY <1>1, <1>2, <3>3, <3>4
    <3> QED
      BY <1>4, <3>3, <3>5, <3>6 DEF Behind
  <2> QED
    BY <2>1, <2>2
<1> QED
  BY <1>9 DEF a, h

\* An activity takes up the steps of a view.
LEMMA FilesKeepsView ==
    ASSUME FlowInv, FilesInv, NEW w \in Workflows, NEW r \in RolesOf(w),
           ProcessView(r, w)
    PROVE  FilesInv'
<1>0. r \in Roles
  BY DEF RolesOf, Roles
<1>1. UNCHANGED <<aggregates, disk, hist, wtar>>
  BY DEF ProcessView, flow
<1>2. PICK x : /\ act' = [act EXCEPT ![r][w] = x]
               /\ \/ x.todo \in Harmless(r, w)
                  \/ x.todo \in StepsAt(r, w, CodeOf(hist[w]))
  BY ProcessViewKeeps
<1>3. act' = [y \in Roles |-> [v \in Workflows |->
                IF y = r /\ v = w THEN x ELSE act[y][v]]]
  <2>1. act = [y \in Roles |-> [v \in Workflows |-> act[y][v]]]
    BY DEF FlowInv
  <2> QED
    BY <1>0, <1>2, <2>1
<1>4. ASSUME NEW v \in Workflows
      PROVE  /\ \/ First(act'["stad"][v].todo) = First(act["stad"][v].todo)
                \/ First(act'["stad"][v].todo) \in Unbound
                \/ First(act'["stad"][v].todo) = "SwapOut" /\ Archiving(v)
             /\ \/ First(act'["rstd"][v].todo) = First(act["rstd"][v].todo)
                \/ First(act'["rstd"][v].todo) # "CommitTartt"
             /\ Behind(v, act'["stad"][v], hist[v]) =>
                   Behind(v, act["stad"][v], hist[v])
  <2>1. CASE r = "stad" /\ v = w
    <3>1. x.todo \in {<<>>, Quit, H1, P1, P3, U1, V1, Z1}
          \/ (x.todo = S1 /\ Archiving(w))
      BY <1>2, <2>1 DEF Harmless, StepsAt, StadSteps, Archiving
    <3>2. First(x.todo) \in Unbound \/ (First(x.todo) = "SwapOut" /\ Archiving(w))
      BY <3>1, StadFirstsAre DEF Unbound
    <3>3. act'["stad"][w] = x /\ act'["rstd"][w] = act["rstd"][w]
      BY <1>3, <2>1 DEF Roles
    <3>4. Behind(w, act'["stad"][w], hist'[w]) => Behind(w, act["stad"][w], hist[w])
      <4>1. PICK p \in 1 .. Len(hist[w]) : Processes("stad", w, p)
        BY <2>1, ProcessViewIs
      <4> QED
        BY <1>1, <4>1, BehindView
    <3> QED
      BY <1>1, <2>1, <3>2, <3>3, <3>4
  <2>2. CASE r = "rstd" /\ v = w
    <3>1. x.todo \in {<<>>, Quit, R1}
      BY <1>2, <2>2 DEF Harmless, StepsAt, RstdSteps
    <3>2. First(x.todo) # "CommitTartt"
      BY <3>1, StadFirstsAre
    <3>3. act'["rstd"][w] = x /\ act'["stad"][w] = act["stad"][w]
      BY <1>3, <2>2 DEF Roles
    <3> QED
      BY <2>2, <3>2, <3>3
  <2>3. CASE r = "regd" \/ v # w
    BY <1>3, <2>3 DEF Roles
  <2> QED
    BY <1>0, <2>1, <2>2, <2>3 DEF Roles
<1> QED
  BY <1>1, <1>4, FilesQuiet

\* A daemon restarts.
LEMMA FilesKeepsRestarts ==
    ASSUME FlowInv, FilesInv, NEW r \in Roles, Restarts(r)
    PROVE  FilesInv'
<1>1. /\ act' = [x \in Roles |-> [w \in Workflows |->
                   IF x = r THEN Idle ELSE act[x][w]]]
      /\ UNCHANGED <<aggregates, disk, hist, wtar>>
  BY RestartsIs DEF flow
<1>2. ASSUME NEW v \in Workflows
      PROVE  /\ First(act'["stad"][v].todo) \in {First(act["stad"][v].todo), "none"}
             /\ First(act'["rstd"][v].todo) \in {First(act["rstd"][v].todo), "none"}
             /\ Behind(v, act'["stad"][v], hist[v]) =>
                   Behind(v, act["stad"][v], hist[v])
  <2>1. /\ act'["stad"][v] = Idle \/ act'["stad"][v] = act["stad"][v]
        /\ act'["rstd"][v] = Idle \/ act'["rstd"][v] = act["rstd"][v]
    BY <1>1 DEF Roles
  <2>2. Idle.todo = <<>> /\ Idle.pos = 0
    BY DEF Idle
  <2>3. Len(hist[v]) \in Nat
    BY DEF FlowInv, GoodHist
  <2>4. ~Behind(v, Idle, hist[v])
    <3>1. <<>> \notin {P3, P4}
      BY NotPrepared
    <3> QED
      BY <2>2, <2>3, <3>1, NotBehind
  <2> QED
    BY <2>1, <2>2, <2>4, StadFirstsAre
<1> QED
  BY <1>1, <1>2, FilesQuiet DEF Unbound

\* The index entry is no part of FilesInv.
LEMMA FilesKeepsIndex ==
    ASSUME FlowInv, FilesInv, NEW w \in Workflows,
           BeginIndex(w) \/ BeginLost(w) \/ IndexCommit(w)
    PROVE  FilesInv'
<1>1. /\ UNCHANGED <<aggregates, disk, hist, wtar>>
      /\ \A v \in Workflows :
            act'["stad"][v] = act["stad"][v] /\ act'["rstd"][v] = act["rstd"][v]
  <2>1. CASE BeginIndex(w) \/ BeginLost(w)
    BY <2>1 DEF BeginIndex, BeginLost
  <2>2. CASE IndexCommit(w)
    BY <2>2, IndexCommitIs, MovedTodo DEF Roles
  <2> QED
    BY <2>1, <2>2
<1> QED
  BY <1>1, FilesQuiet

\* An activity fails.
LEMMA FilesKeepsFails ==
    ASSUME FlowInv, FilesInv, NEW w \in Workflows, NEW r \in RolesOf(w),
           Fails(r, w)
    PROVE  FilesInv'
<1>1. MovesTo(r, w, <<>>) /\ UNCHANGED <<aggregates, disk, hist, wtar>> /\ r \in Roles
  BY FailsIs DEF flow, RolesOf, Roles
<1> QED
  BY <1>1, FilesRefused

\* nogfsotard makes an archive.
LEMMA FilesKeepsNogfsotard ==
    ASSUME FilesInv, Nogfsotard
    PROVE  FilesInv'
<1>1. /\ tar' # "none" /\ tar' \in Archives
      /\ UNCHANGED <<registry, repo, host, dir, hist, wtar, act>>
  BY DEF Nogfsotard, aggregates, flow, Archives
<1>2. PlaceholderAccepted' = PlaceholderAccepted
  BY <1>1 DEF PlaceholderAccepted
<1> DEFINE t1 == tar'
           pa == PlaceholderAccepted
<1>3. Held(registry, repo, host, t1, pa)
  <2>1. Held(registry, repo, host, tar, pa) /\ t1 # "none"
    BY <1>1, FilesAre
  <2> HIDE DEF t1, pa
  <2> QED
    BY <2>1 DEF Held
<1>4. ASSUME NEW v \in Workflows
      PROVE  DiskOf(v, act["stad"][v], act["rstd"][v], hist[v],
                    Owns(v, registry), dir[v], wtar[v], pa, host, t1)
  <2> DEFINE f == First(act["stad"][v].todo)
             e == First(act["rstd"][v].todo)
             b == Behind(v, act["stad"][v], hist[v])
             c == CodeOf(hist[v])
             own == Owns(v, registry)
             d == dir[v]
             wt == wtar[v]
  <2>1. DiskAt(v, f, e, b, c, own, host, d, tar, wt, pa) /\ t1 # "none"
    BY <1>1, DiskIs
  <2>2. DiskAt(v, f, e, b, c, own, host, d, t1, wt, pa)
    <3> HIDE DEF f, e, b, c, own, d, wt, pa, t1
    <3> QED
      BY <2>1, DiskOthers
  <2> QED
    BY <2>2 DEF DiskOf
<1> QED
  BY <1>1, <1>2, <1>3, <1>4 DEF FilesInv

\* An error is stored on the repo or cleared.
LEMMA FilesKeepsErrors ==
    ASSUME LockInv, FilesInv, SetRepoError \/ ClearRepoError
    PROVE  FilesInv'
<1>1. PICK e : repo' = [repo EXCEPT !.error = e]
  BY DEF SetRepoError, ClearRepoError, SetRepo
<1>2. UNCHANGED <<disk, hist, wtar, registry, act>>
  BY DEF SetRepoError, ClearRepoError, flow
<1>3. Shaped(registry, repo)
  BY DEF LockInv, Shaped
<1> DEFINE p1 == repo'
           pa == PlaceholderAccepted
<1>4. p1.tier = repo.tier /\ p1.wf = repo.wf /\ p1.tar = repo.tar
  BY <1>1, <1>3 DEF Shaped
<1>5. Held(registry, repo, host, tar, pa) /\ repo.tar \in Archives
  BY FilesAre
<1>6. Held(registry, p1, host, tar, pa)
  <2> HIDE DEF p1, pa
  <2> QED
    BY <1>4, <1>5, HeldSame
<1>7. Held(registry', repo', host, tar, PlaceholderAccepted)
      /\ repo'.tar \in Archives
  BY <1>2, <1>4, <1>5, <1>6
<1>8. \A v \in Workflows :
         /\ act'["stad"][v] = act["stad"][v]
         /\ act'["rstd"][v] = act["rstd"][v]
         /\ Owns(v, registry') => Owns(v, registry)
  BY <1>2
<1> QED
  BY <1>2, <1>7, <1>8, FilesAggregates

\* A repo that may be unarchived has an archive.
LEMMA UnarchiveHasArchive ==
    ASSUME LockInv, FilesInv, NEW w \in Workflows, BeginRepo(w), Unarchiving(w)
    PROVE  repo.tar # "none"
<1>1. BeginUnarchiveRepoOk
  BY DEF BeginRepo, Unarchiving
<1>2. registry.tier \in {"archived", "unarchiveFailed"}
  BY <1>1 DEF BeginUnarchiveRepoOk
<1>3. Settled(registry.tier) = "archived" /\ registry.tier \notin Doing
  BY <1>2 DEF Settled, Doing
<1>4. Settled(repo.tier) = "archived"
  BY <1>3, LockIs DEF Nested
<1>5. repo.tier \in {"archived", "unarchiveFailed"}
  BY <1>4 DEF Settled
<1> QED
  BY <1>5, FilesAre DEF Held

\* A workflow starts.
LEMMA DiskStarts ==
    ASSUME NEW w, NEW f, NEW e, NEW b, NEW own, NEW h, NEW d, NEW t,
           NEW wt, NEW pa, DiskAt(w, f, e, b, "Uninitialized", own, h, d, t, wt, pa),
           NEW wt1, NEW pa1, Archiving(w) => wt1 = wt, Unarchiving(w) => wt1 # "none"
    PROVE  DiskAt(w, f, e, FALSE, "Initialized", own, h, d, t, wt1, pa1)
BY DEF DiskAt

\* A workflow starts.
LEMMA FilesKeepsBeginRepo ==
    ASSUME FlowInv, LockInv, FilesInv, NEW w \in Workflows, BeginRepo(w)
    PROVE  FilesInv'
<1>1. /\ hist[w] = <<>> /\ Posted(w, "Init")
      /\ CodeOf(hist'[w]) = "Initialized"
      /\ \A r \in Roles : act[r][w].todo = <<>>
      /\ UNCHANGED <<registry, repo, disk, act>>
  BY BeginRepoIs
<1>2. UNCHANGED <<registry, repo, host, dir, tar, act>>
  BY <1>1 DEF disk
<1> DEFINE f == First(act["stad"][w].todo)
           e == First(act["rstd"][w].todo)
           b == Behind(w, act["stad"][w], hist[w])
           b1 == Behind(w, act["stad"][w], hist'[w])
           own == Owns(w, registry)
           d == dir[w]
           wt == wtar[w]
           wt1 == wtar'[w]
           pa == PlaceholderAccepted
           pa1 == PlaceholderAccepted'
<1>3. CodeOf(hist[w]) = "Uninitialized"
  BY <1>1 DEF CodeOf, StateOf, New, Scode
<1>4. DiskAt(w, f, e, b, "Uninitialized", own, host, d, tar, wt, pa)
  BY <1>3, DiskIs
<1>5. wt = "none"
  <2> HIDE DEF f, e, b, own, d, wt, pa
  <2> QED
    BY <1>4 DEF DiskAt
<1>6. /\ wtar \in [Workflows -> Archives] /\ tar \in Archives
      /\ repo.tar \in Archives /\ Held(registry, repo, host, tar, pa)
  BY FilesAre
<1>7. wtar' = [wtar EXCEPT ![w] = IF Unarchiving(w) THEN repo.tar ELSE wt]
  BY DEF BeginRepo, Unarchiving
<1>8. /\ wt1 = (IF Unarchiving(w) THEN repo.tar ELSE wt)
      /\ Unarchiving(w) => wt1 # "none"
      /\ Archiving(w) => wt1 = wt
  BY <1>6, <1>7, UnarchiveHasArchive DEF Archiving, Unarchiving
<1>9. /\ pa => pa1
      /\ wtar' \in [Workflows -> Archives]
      /\ \A v \in Workflows : v # w => wtar'[v] = wtar[v]
  <2> DEFINE x == IF Unarchiving(w) THEN repo.tar ELSE wt
  <2>1. wtar' = [wtar EXCEPT ![w] = x] /\ x \in Archives /\ wtar[w] = "none"
    BY <1>5, <1>6, <1>7 DEF Archives
  <2> HIDE DEF x
  <2> QED
    BY <1>6, <2>1, AcceptedStays
<1>10. b1 = FALSE
  <2>1. OneMore(w, hist[w], hist'[w])
    BY <1>1 DEF Posted
  <2>2. Len(hist'[w]) \in Nat
    BY <2>1 DEF OneMore
  <2>3. act["stad"][w].todo = <<>> /\ act["stad"][w].pos = 0
    <3>1. GoodAct("stad", w, act["stad"][w], hist[w], index[w])
      BY DEF FlowInv, Roles
    <3>2. Len(hist[w]) = 0
      BY <1>1
    <3>3. act["stad"][w].pos = 0
      BY <3>1, <3>2 DEF GoodAct
    <3> QED
      BY <1>1, <3>3 DEF Roles
  <2>4. <<>> \notin {P3, P4}
    BY NotPrepared
  <2>5. ~Behind(w, act["stad"][w], hist'[w])
    BY <2>2, <2>3, <2>4, NotBehind
  <2> QED
    BY <2>5
<1>11. DiskAt(w, f, e, b1, "Initialized", own, host, d, tar, wt1, pa1)
  <2> HIDE DEF f, e, b, b1, own, d, wt, wt1, pa, pa1
  <2>1. DiskAt(w, f, e, FALSE, "Initialized", own, host, d, tar, wt1, pa1)
    BY <1>4, <1>8, DiskStarts
  <2> QED
    BY <1>10, <2>1
<1>12. Held(registry, repo, host, tar, pa1)
  <2> HIDE DEF pa, pa1
  <2> QED
    BY <1>6, <1>9, HeldAccepted
<1>13. DiskAt(w, First(act'["stad"][w].todo), First(act'["rstd"][w].todo),
              Behind(w, act'["stad"][w], hist'[w]), CodeOf(hist'[w]),
              Owns(w, registry'), host', dir'[w], tar', wtar'[w],
              PlaceholderAccepted')
  BY <1>1, <1>2, <1>11
<1>14. \A v \in Workflows : v # w =>
          /\ act'["stad"][v] = act["stad"][v]
          /\ act'["rstd"][v] = act["rstd"][v]
          /\ hist'[v] = hist[v] /\ wtar'[v] = wtar[v] /\ dir'[v] = dir[v]
          /\ Owns(v, registry') => Owns(v, registry)
  BY <1>1, <1>2, <1>9 DEF Posted
<1>15. dir' = [v \in Workflows |-> [in |-> dir'[v].in, trash |-> dir'[v].trash]]
  BY <1>2 DEF FilesInv
<1>16. /\ tar' \in Archives /\ repo'.tar \in Archives /\ host' = host
       /\ (tar # "none" => tar' # "none")
       /\ Held(registry', repo', host', tar', PlaceholderAccepted')
  BY <1>2, <1>6, <1>12
<1> QED
  BY <1>9, <1>13, <1>14, <1>15, <1>16, FilesStep

\* Every step keeps FilesInv.
LEMMA FilesNext ==
    ASSUME FlowInv, LockInv, FilesInv, [Next]_vars
    PROVE  FilesInv'
<1>1. CASE UNCHANGED vars
  <2>1. UNCHANGED <<aggregates, disk, hist, wtar, act>>
    BY <1>1 DEF vars, aggregates, disk
  <2> QED
    BY <2>1, FilesQuiet
<1>2. ASSUME NEW w \in Workflows,
             \/ BeginRepo(w) \/ BeginIndex(w) \/ BeginLost(w)
             \/ RegdStep(w) \/ StadStep(w) \/ RstdStep(w)
             \/ \E r \in RolesOf(w) : Fails(r, w)
      PROVE  FilesInv'
  <2>1. CASE BeginRepo(w)
    BY <2>1, FilesKeepsBeginRepo
  <2>2. CASE BeginIndex(w) \/ BeginLost(w)
    BY <2>2, FilesKeepsIndex
  <2>3. CASE \E r \in RolesOf(w) : Fails(r, w)
    BY <2>3, FilesKeepsFails
  <2>4. CASE RegdStep(w)
    <3>1. "regd" \in RolesOf(w)
      BY DEF RolesOf, Roles
    <3> QED
      BY <2>4, <3>1, FilesKeepsView, FilesKeepsBegin, FilesKeepsCommit,
         FilesKeepsAbort, FilesKeepsIndex, FilesKeepsRegdCommand DEF RegdStep
  <2>5. CASE StadStep(w)
    <3>1. "stad" \in RolesOf(w)
      BY DEF RolesOf, Roles
    <3> QED
      BY <2>5, <3>1, FilesKeepsView, FilesKeepsChattr, FilesKeepsPoll,
         FilesKeepsPlaceholder, FilesKeepsRestoreDir, FilesKeepsSetfacl,
         FilesKeepsSwapOut, FilesKeepsSwapIn, FilesKeepsShadow,
         FilesKeepsRemove, FilesKeepsStadCommand
      DEF StadStep
  <2>6. CASE RstdStep(w)
    <3>1. OpOf[w] = "unarchive" => "rstd" \in RolesOf(w)
      BY DEF RolesOf, Roles
    <3> QED
      BY <2>6, <3>1, FilesKeepsView, FilesKeepsRestore, FilesKeepsRstdCommand
      DEF RstdStep
  <2> QED
    BY <1>2, <2>1, <2>2, <2>3, <2>4, <2>5, <2>6
<1>3. CASE \E r \in Roles : Restarts(r)
  BY <1>3, FilesKeepsRestarts
<1>4. CASE Nogfsotard
  BY <1>4, FilesKeepsNogfsotard
<1>5. CASE SetRepoError \/ ClearRepoError
  BY <1>5, FilesKeepsErrors
<1> QED
  BY <1>1, <1>2, <1>3, <1>4, <1>5 DEF Next

\* FilesInv holds initially.
LEMMA FilesInit ==
    ASSUME Init
    PROVE  FilesInv
<1>1. PICK t \in {"online", "frozen", "archived"} :
          /\ registry = [tier |-> t, wf |-> NoWorkflow]
          /\ repo = [tier |-> t, wf |-> NoWorkflow, error |-> FALSE,
                     tar |-> IF t = "archived" THEN "data" ELSE "none"]
          /\ host = HostOf(t)
          /\ tar = IF t = "archived" THEN "data" ELSE "none"
  BY DEF Init
<1>2. /\ registry.tier = t /\ repo.tier = t
      /\ repo.tar = IF t = "archived" THEN "data" ELSE "none"
  BY <1>1
<1>3. host \in Data \/ t = "archived"
  BY <1>1 DEF HostOf, Data
<1> DEFINE pa == PlaceholderAccepted
<1>4. Held(registry, repo, host, tar, pa)
  <2>1. /\ t \in {"online", "frozen", "archived"} /\ host = HostOf(t)
        /\ t = "archived" => repo.tar = "data"
        /\ t # "archived" => repo.tar = "none"
    BY <1>1, <1>2
  <2> HIDE DEF pa
  <2> QED
    BY <1>2, <1>3, <2>1 DEF Held, Tiers
<1>5. tar \in Archives /\ repo.tar \in Archives
  BY <1>1, <1>2 DEF Archives
<1>6. wtar \in [Workflows -> Archives]
  BY DEF Init, Archives
<1>7. dir = [w \in Workflows |-> [in |-> dir[w].in, trash |-> dir[w].trash]]
  BY DEF Init, NoDir
<1>8. ASSUME NEW w \in Workflows
      PROVE  DiskOf(w, act["stad"][w], act["rstd"][w], hist[w],
                    Owns(w, registry), dir[w], wtar[w], pa, host, tar)
  <2>1. /\ act["stad"][w] = Idle /\ act["rstd"][w] = Idle /\ hist[w] = <<>>
        /\ wtar[w] = "none" /\ dir[w].trash = "none"
    BY DEF Init, Roles, NoDir
  <2>2. CodeOf(<<>>) = "Uninitialized" /\ Idle.todo = <<>> /\ Idle.pos = 0
    BY DEF CodeOf, StateOf, New, Scode, Idle
  <2>3. ~Behind(w, Idle, <<>>)
    <3>1. <<>> \notin {P3, P4}
      BY NotPrepared
    <3>2. Len(<<>>) \in Nat
      OBVIOUS
    <3> QED
      BY <2>2, <3>1, <3>2, NotBehind
  <2> DEFINE own == Owns(w, registry)
             d == dir[w]
             b == Behind(w, Idle, <<>>)
  <2>4. d.trash = "none" /\ ~b
    BY <2>1, <2>3
  <2> HIDE DEF own, d, b, pa
  <2>5. DiskAt(w, "none", "none", b, "Uninitialized", own, host, d, tar, "none", pa)
    BY <2>4 DEF DiskAt
  <2> QED
    BY <2>1, <2>2, <2>5, StadFirstsAre DEF DiskOf, own, d, b
<1> QED
  BY <1>4, <1>5, <1>6, <1>7, <1>8 DEF FilesInv

-----------------------------------------------------------------------------
(***************************************************************************)
(* The theorems.                                                           *)
(***************************************************************************)

\* The directories, the files at the path of the repo and the archives always
\* are what the state of each workflow says, whatever is interrupted.
THEOREM FilesInvariant == Spec => []FilesInv
<1>1. Init => FilesInv
  BY FilesInit
<1>2. FlowInv /\ LockInv /\ FilesInv /\ [Next]_vars => FilesInv'
  BY FilesNext
<1> QED
  BY <1>1, <1>2, FlowInvariant, LockInvariant, PTL DEF Spec

\* FilesMatchTier: the tier that the registry promises is the one of the files.
THEOREM TierIsTrue == Spec => []FilesMatchTier
<1>1. FilesInv => FilesMatchTier
  <2> SUFFICES ASSUME FilesInv PROVE FilesMatchTier
    OBVIOUS
  <2> DEFINE pa == PlaceholderAccepted
  <2>1. Held(registry, repo, host, tar, pa)
    BY FilesAre
  <2> HIDE DEF pa
  <2>2. registry.tier \in {"online", "frozen", "archived"} =>
           host = HostOf(registry.tier) \/ pa
    BY <2>1 DEF Held
  <2> QED
    BY <2>2 DEF FilesMatchTier, pa
<1> QED
  BY <1>1, FilesInvariant, PTL

\* There are data, or a placeholder has taken their place.
LEMMA DataAre ==
    ASSUME LockInv, FilesInv
    PROVE  DataExists \/ PlaceholderAccepted \/ PlaceholderPending
<1> DEFINE pa == PlaceholderAccepted
<1>1. /\ Held(registry, repo, host, tar, pa)
      /\ tar \in Archives /\ repo.tar \in Archives
      /\ wtar \in [Workflows -> Archives]
  BY FilesAre
<1>2. CASE pa
  BY <1>2
<1>3. CASE ~pa
  <2>1. CASE repo.tier \in {"archived", "unarchiving", "unarchiveFailed"}
    <3>1. repo.tar # "none" /\ repo.tar # "placeholder"
      <4> HIDE DEF pa
      <4> QED
        BY <1>1, <1>3, <2>1 DEF Held
    <3>2. repo.tar = "data"
      BY <1>1, <3>1 DEF Archives
    <3> QED
      BY <2>1, <3>2 DEF DataExists
  <2>2. CASE repo.tier \in {"archiving", "archiveFailed"}
    <3>1. /\ host \in Data \/ tar # "none"
          /\ repo.wf \in Workflows /\ Archiving(repo.wf)
      <4> HIDE DEF pa
      <4> QED
        BY <1>1, <1>3, <2>2 DEF Held
    <3>2. CASE host \in Data \/ tar = "data"
      BY <3>2 DEF DataExists
    <3>3. CASE tar = "placeholder"
      <4>1. wtar[repo.wf] \in {"none", "data", "placeholder"}
        BY <1>1, <3>1 DEF Archives
      <4>2. CASE wtar[repo.wf] = "none"
        BY <2>2, <3>3, <4>2 DEF PlaceholderPending
      <4>3. CASE wtar[repo.wf] = "data"
        BY <3>1, <4>3 DEF DataExists, Archiving
      <4>4. CASE wtar[repo.wf] = "placeholder"
        BY <3>1, <4>4 DEF PlaceholderAccepted
      <4> QED
        BY <4>1, <4>2, <4>3, <4>4
    <3> QED
      BY <1>1, <3>1, <3>2, <3>3 DEF Archives
  <2>3. CASE repo.tier \in {"online", "freezing", "freezeFailed",
                            "frozen", "unfreezing", "unfreezeFailed"}
    <3>1. host \in Data
      <4> HIDE DEF pa
      <4> QED
        BY <1>1, <1>3, <2>3 DEF Held
    <3> QED
      BY <3>1 DEF DataExists
  <2>4. repo.tier \in Tiers
    <3> HIDE DEF pa
    <3> QED
      BY <1>1 DEF Held
  <2> QED
    BY <2>1, <2>2, <2>3, <2>4 DEF Tiers
<1> QED
  BY <1>2, <1>3

\* The steps that leave the trash of every workflow alone.
LEMMA TrashSame ==
    ASSUME FlowInv, LockInv, FilesInv, NEW w \in Workflows,
           SetfaclChattr(w) \/ SwapIn(w) \/ TarttRestore(w)
    PROVE  \A v \in Workflows : dir'[v].trash = dir[v].trash
<1>1. CASE SetfaclChattr(w)
  <2>1. CASE UNCHANGED dir
    BY <2>1
  <2>2. CASE dir' = [dir EXCEPT ![w].in = IF @ \in Data THEN "immutable" ELSE @]
    <3> DEFINE x == IF dir[w].in \in Data THEN "immutable" ELSE dir[w].in
               y == dir[w].trash
    <3>1. dir' = [dir EXCEPT ![w] = [in |-> x, trash |-> y]]
      BY <2>2, DirIs
    <3> HIDE DEF x, y
    <3>2. /\ dir'[w].trash = y
          /\ \A v \in Workflows : v # w => dir'[v] = dir[v]
      BY <3>1, DirSet
    <3> QED
      BY <3>2 DEF y
  <2> QED
    BY <1>1, <2>1, <2>2 DEF SetfaclChattr
<1>2. CASE SwapIn(w)
  BY <1>2, FilesKeepsSwapIn
<1>3. CASE TarttRestore(w)
  BY <1>3, FilesKeepsRestore
<1> QED
  BY <1>1, <1>2, <1>3

\* Trash vanishes when the workflow does not own registry and repo anymore.
LEMMA TrashIsKept ==
    ASSUME FlowInv, LockInv, FilesInv, [Next]_vars, NEW v \in Workflows,
           dir[v].trash # "none", dir'[v].trash = "none"
    PROVE  ~Owns(v, registry) /\ ~Owns(v, repo)
<1>1. CASE UNCHANGED dir
  BY <1>1
<1>2. ASSUME NEW w \in Workflows,
             \/ MakePlaceholder(w) \/ MakeRestore(w)
             \/ SetfaclChattr(w) \/ SwapOut(w) \/ SwapIn(w)
             \/ RemoveWorkingDir(w) \/ TarttRestore(w)
      PROVE  ~Owns(v, registry) /\ ~Owns(v, repo)
  <2>1. CASE SetfaclChattr(w) \/ SwapIn(w) \/ TarttRestore(w)
    BY <2>1, TrashSame
  <2>2. CASE SwapOut(w)
    BY <2>2, FilesKeepsSwapOut
  <2>3. CASE MakePlaceholder(w)
    <3>1. dir[w].trash = "none"
      BY <2>3, FilesKeepsPlaceholder
    <3>2. \A u \in Workflows : u # w => dir'[u] = dir[u]
      BY <2>3 DEF MakePlaceholder, FilesInv
    <3> QED
      BY <3>1, <3>2
  <2>4. CASE MakeRestore(w)
    <3>1. dir[w].trash = "none"
      BY <2>4, FilesKeepsRestoreDir
    <3>2. \A u \in Workflows : u # w => dir'[u] = dir[u]
      BY <2>4 DEF MakeRestore, FilesInv
    <3> QED
      BY <3>1, <3>2
  <2>5. CASE RemoveWorkingDir(w)
    <3>1. /\ CodeOf(hist[w]) = "FilesEnded"
          /\ \A u \in Workflows : u # w => dir'[u] = dir[u]
      BY <2>5, FilesKeepsRemove
    <3>2. v = w
      BY <3>1
    <3>3. ~Owns(w, registry) /\ ~Owns(w, repo)
      BY <3>1, LockIs DEF LockAt, Released
    <3> QED
      BY <3>2, <3>3
  <2> QED
    BY <1>2, <2>1, <2>2, <2>3, <2>4, <2>5
<1>3. \/ UNCHANGED dir
      \/ \E w \in Workflows :
            \/ MakePlaceholder(w) \/ MakeRestore(w)
            \/ SetfaclChattr(w) \/ SwapOut(w) \/ SwapIn(w)
            \/ RemoveWorkingDir(w) \/ TarttRestore(w)
  <2>1. CASE UNCHANGED vars
    BY <2>1 DEF vars
  <2>2. ASSUME NEW w \in Workflows, RegdStep(w)
        PROVE  UNCHANGED dir
    BY <2>2 DEF RegdStep, ProcessView, RegistryBegin, ReposBegin, ReposCommit,
       RegistryCommit, ReposAbort, RegistryAbort, IndexCommit, WfCommand, disk
  <2>3. ASSUME NEW w \in Workflows, StadStep(w)
        PROVE  \/ UNCHANGED dir
               \/ MakePlaceholder(w) \/ MakeRestore(w)
               \/ SetfaclChattr(w) \/ SwapOut(w) \/ SwapIn(w)
               \/ RemoveWorkingDir(w)
    BY <2>3 DEF StadStep, ProcessView, ChattrBegin, ChattrEnd, PollTartt,
       ShadowArchive, SwapFails, WfCommand, disk
  <2>4. ASSUME NEW w \in Workflows, RstdStep(w)
        PROVE  UNCHANGED dir \/ TarttRestore(w)
    BY <2>4 DEF RstdStep, ProcessView, WfCommand, disk
  <2>5. ASSUME NEW w \in Workflows,
               \/ BeginRepo(w) \/ BeginIndex(w) \/ BeginLost(w)
               \/ \E r \in RolesOf(w) : Fails(r, w)
        PROVE  UNCHANGED dir
    BY <2>5 DEF BeginRepo, BeginIndex, BeginLost, Fails, disk
  <2>6. CASE (\E r \in Roles : Restarts(r)) \/ Nogfsotard \/ SetRepoError
               \/ ClearRepoError
    BY <2>6 DEF Restarts, Nogfsotard, SetRepoError, ClearRepoError, disk
  <2> QED
    BY <2>1, <2>2, <2>3, <2>4, <2>5, <2>6 DEF Next
<1> QED
  BY <1>1, <1>2, <1>3

\* DataIsKept: at no step are the data lost, and what a workflow has moved out of
\* the way is kept until registry and repo have recorded how it ended.
THEOREM DataKept == Spec => DataIsKept
<1>1. LockInv /\ FilesInv =>
         DataExists \/ PlaceholderAccepted \/ PlaceholderPending
  BY DataAre
<1>2. ASSUME FlowInv, LockInv, FilesInv, [Next]_vars,
             DataExists' \/ PlaceholderAccepted' \/ PlaceholderPending'
      PROVE  [/\ DataExists' \/ PlaceholderAccepted' \/ PlaceholderPending'
              /\ \A w \in Workflows :
                    dir[w].trash # "none" /\ dir'[w].trash = "none" =>
                        /\ registry # [tier |-> RegOp(w).doing, wf |-> w]
                        /\ ~(repo.tier = RepoOp(w).doing /\ repo.wf = w)
             ]_vars
  <2>1. ASSUME NEW w \in Workflows, dir[w].trash # "none", dir'[w].trash = "none"
        PROVE  /\ registry # [tier |-> RegOp(w).doing, wf |-> w]
               /\ ~(repo.tier = RepoOp(w).doing /\ repo.wf = w)
    <3>1. ~Owns(w, registry) /\ ~Owns(w, repo)
      BY <1>2, <2>1, TrashIsKept
    <3> QED
      BY <3>1, OpsAre DEF Owns
  <2> QED
    BY <1>2, <2>1
<1> QED
  BY <1>1, <1>2, FlowInvariant, LockInvariant, FilesInvariant, PTL
  DEF Spec, DataIsKept
=============================================================================
