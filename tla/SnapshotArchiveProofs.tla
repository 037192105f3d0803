----------------------- MODULE SnapshotArchiveProofs -----------------------
(***************************************************************************)
(* What the two snapshot requests answer, for any number of analyses that  *)
(* are written while they read.                                            *)
(***************************************************************************)
EXTENDS SnapshotArchive, AnalysisSessionProofs

(* The session goes on as if nobody read its files.                        *)
LEMMA ArchiveStepIsSessionStep == [ArchiveNext]_archiveVars => [Next]_vars
<1> SUFFICES ASSUME [ArchiveNext]_archiveVars PROVE [Next]_vars
  OBVIOUS
<1>1. CASE UNCHANGED archiveVars
  BY <1>1 DEF archiveVars
<1>2. CASE RestartArchive
  BY <1>2 DEF RestartArchive, Next
<1>3. CASE Reader
  BY <1>3 DEF Reader, StartList, ParseNext, FinishList, StartLoad, FinishLoad
<1>4. CASE \E a \in Analyses : Handler(a) \/ Thread(a)
  BY <1>4 DEF Next
<1> QED BY <1>1, <1>2, <1>3, <1>4 DEF ArchiveNext

(* No step of any thread, and no restart, takes a whole snapshot back:     *)
(* only the run that owns the file opens it, before it is whole.           *)
LEMMA WholeStaysWhole ==
  ASSUME IInv, [Next]_vars, NEW a \in Analyses, snapshot[a] = "whole"
  PROVE  snapshot'[a] = "whole"
<1>1. TypeOK /\ pc[a] \in Over \cup {"lost"}
  BY DEF IInv, Local, FilesByPlace
<1>2. CASE UNCHANGED vars
  BY <1>2 DEF vars, disk
<1>3. CASE Restart
  BY <1>3 DEF Restart, disk
<1>4. ASSUME NEW b \in Analyses, Handler(b) \/ Thread(b)
      PROVE  snapshot'[a] = "whole"
  <2>1. CASE b # a
    BY <1>1, <1>4, <2>1, StepFrame DEF Untouching
  <2>2. CASE b = a /\ OpenSnapshot(b)
    BY <1>1, <2>2 DEF OpenSnapshot, Over, Finished
  <2>3. CASE b = a /\ FillSnapshot(b)
    BY <1>1, <2>3 DEF FillSnapshot, Over, Finished
  <2>4. CASE b = a /\ ~OpenSnapshot(b) /\ ~FillSnapshot(b)
    <3>1. snapshot' = snapshot
      BY <1>4, <2>4
      DEF Handler, Thread, Try, Except, Finally, disk, CreateAnalysis,
          OpenKubeconfig, StoreKubeconfig, StoreKubeconfigFails, StartRun, Connect, Prepare,
          EndNode, FailInTry, SetReport, SetCompleted, EmitCompleted,
          SetFailed, SetError, EmitFailed, CloseClient, UnlinkKubeconfig
    <3> QED BY <3>1
  <2> QED BY <2>1, <2>2, <2>3, <2>4
<1> QED BY <1>2, <1>3, <1>4 DEF Next

(* What a client was told is complete has a whole file.                    *)
LEMMA SettledIsWhole ==
  ASSUME IInv
  PROVE  \A a \in Settled : a \in Analyses /\ snapshot[a] = "whole"
BY DEF IInv, Local, Verdict, Over, Finished, Settled

(* The invariant of the readers.                                           *)
LEMMA ArchiveStep == IInv /\ ArchiveInv /\ [ArchiveNext]_archiveVars => ArchiveInv'
<1> SUFFICES ASSUME IInv, ArchiveInv, [ArchiveNext]_archiveVars PROVE ArchiveInv'
  OBVIOUS
<1> USE DEF ArchiveInv, ListIsComplete, SettledLoads
<1>1. \A a \in Analyses : snapshot[a] = "whole" => snapshot'[a] = "whole"
  BY ArchiveStepIsSessionStep, WholeStaysWhole
<1>2. CASE UNCHANGED readerVars
  BY <1>1, <1>2 DEF readerVars
<1>3. CASE RestartArchive
  BY <1>1, <1>3 DEF RestartArchive
<1>4. CASE StartList
  BY <1>1, <1>4, SettledIsWhole DEF StartList, Files, vars, disk
<1>5. CASE ParseNext
  <2>1. UNCHANGED <<snapshot, due, subject, loaded>> /\ job = "listing"
    BY <1>5 DEF ParseNext, vars, disk
  <2>2. PICK a \in todo :
          IF snapshot[a] = "whole"
          THEN /\ todo' = todo \ {a} /\ rows' = rows \cup {a}
               /\ UNCHANGED <<job, listed>>
          ELSE /\ job' = "idle" /\ listed' = "error"
               /\ todo' = {} /\ UNCHANGED rows
    BY <1>5, Zenon DEF ParseNext
  <2> QED BY <2>1, <2>2
<1>6. CASE FinishList
  BY <1>1, <1>6 DEF FinishList, vars, disk
<1>7. ASSUME NEW a \in Analyses, StartLoad(a)
      PROVE  ArchiveInv'
  <2>1. /\ UNCHANGED <<snapshot, rows, todo>>
        /\ subject' = a /\ due' = Settled /\ listed' = "none" /\ job = "idle"
    BY <1>7 DEF StartLoad, vars, disk
  <2>2. a \in Settled => a \in Files
    BY SettledIsWhole DEF Files
  <2>3. CASE a \in Files
    <3>1. job' = "loading" /\ loaded' = "none" BY <1>7, <2>3 DEF StartLoad
    <3> QED BY <2>1, <3>1, SettledIsWhole
  <2>4. CASE a \notin Files
    <3>1. job' = "idle" /\ loaded' = "missing" BY <1>7, <2>1, <2>4 DEF StartLoad
    <3> QED BY <2>1, <2>2, <2>4, <3>1, SettledIsWhole
  <2> QED BY <2>3, <2>4
<1>8. CASE FinishLoad
  BY <1>1, <1>8 DEF FinishLoad, vars, disk
<1> QED
  BY <1>2, <1>3, <1>4, <1>5, <1>6, <1>7, <1>8
  DEF ArchiveNext, Reader, archiveVars

(* The readers do not disturb the runs.                                    *)
THEOREM ArchiveUsesSession == ArchiveSpec => Spec
BY ArchiveStepIsSessionStep, PTL DEF ArchiveSpec, Spec

(* What the two requests have read and have to find is in whole files.     *)
THEOREM ArchiveInvariance == ArchiveSpec => []ArchiveInv
<1>1. ArchiveSpec => []IInv
  BY ArchiveUsesSession, Invariance, PTL
<1>2. ArchiveInit => ArchiveInv
  BY DEF ArchiveInit, ArchiveInv, ListIsComplete, SettledLoads
<1> QED BY <1>1, <1>2, ArchiveStep, PTL DEF ArchiveSpec

(* A list that list_snapshots answers is complete, however many threads    *)
(* write snapshots while it reads.                                         *)
THEOREM AnsweredListIsComplete == ArchiveSpec => []ListIsComplete
<1>1. ArchiveInv => ListIsComplete BY DEF ArchiveInv
<1> QED BY <1>1, ArchiveInvariance, PTL

(* load_snapshot finds every settled result, at every moment.              *)
THEOREM SettledResultLoads == ArchiveSpec => []SettledLoads
<1>1. ArchiveInv => SettledLoads BY DEF ArchiveInv
<1> QED BY <1>1, ArchiveInvariance, PTL
=============================================================================
