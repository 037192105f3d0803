------------------------ MODULE AnalysisSessionProofs ------------------------
(***************************************************************************)
(* The safety of AnalysisSession for any number of analyses, nodes and     *)
(* threads and every set of faults, and that it implements                 *)
(* AnalysisContract: each write of the event loop or of a thread is one    *)
(* step of the contract, or changes nothing that a client can see.         *)
(***************************************************************************)
EXTENDS AnalysisSession, SequenceTheorems, TLAPS

(* Appending to a log: what SMT needs to know about it.                    *)
LEMMA AppendFacts ==
  ASSUME NEW S, NEW s \in Seq(S), NEW e \in S
  PROVE  /\ Append(s, e) \in Seq(S)
         /\ Len(s) \in Nat
         /\ Len(Append(s, e)) = Len(s) + 1
         /\ DOMAIN s = 1..Len(s)
         /\ DOMAIN Append(s, e) = 1..(Len(s) + 1)
         /\ \A i \in 1..Len(s) : Append(s, e)[i] = s[i]
         /\ Append(s, e)[Len(s) + 1] = e
  OBVIOUS

(* Taking the oldest item of a queue.                                      *)
LEMMA HeadTailFacts ==
  ASSUME NEW S, NEW s \in Seq(S), s # <<>>
  PROVE  /\ Len(s) \in Nat \ {0}
         /\ Head(s) = s[1] /\ Head(s) \in S
         /\ Tail(s) \in Seq(S)
         /\ DOMAIN s = 1..Len(s)
         /\ DOMAIN Tail(s) = 1..(Len(s) - 1)
         /\ \A i \in 1..(Len(s) - 1) : Tail(s)[i] = s[i + 1]
  OBVIOUS

(* The events run_analysis builds are events.                            *)
LEMMA EventTypes ==
  /\ Connection \in Event /\ Completed \in Event /\ Failed \in Event
  /\ \A n \in 1..NumNodes : NodeEnd(n) \in Event
  BY ConstantsAssumption DEF Event, Connection, Completed, Failed, NodeEnd

(* Type correctness needs more than TypeOK in one place only: EndNode      *)
(* numbers its event after the length of the log.                          *)
LEMMA TypeStep ==
  ASSUME IInv, [Next]_vars
  PROVE  TypeOK'
<1> USE DEF IInv, TypeOK, memory, disk, Goto, Move, Places, Ended, Finished, Alive,
            InThread, InTry, InExcept, InFinally
<1>1. CASE UNCHANGED vars
  BY <1>1 DEF vars
<1>2. CASE Restart
  BY <1>2 DEF Restart
<1>3. ASSUME NEW a \in Analyses, Handler(a)
      PROVE  TypeOK'
  <2>1. CASE CreateAnalysis(a)
    <3>1. queue' \in Seq(Analyses)
      <4>1. queue' = Append(queue, a) \/ queue' = queue
        BY <2>1, Zenon DEF CreateAnalysis, Submit
      <4>2. CASE queue' = Append(queue, a) BY <4>2
      <4>3. CASE queue' = queue BY <4>3
      <4> QED BY <4>1, <4>2, <4>3
    <3>2. real' \in [Analyses -> BOOLEAN]
      <4>1. \E b \in BOOLEAN : real' = [real EXCEPT ![a] = b]
        BY <2>1, Zenon DEF CreateAnalysis
      <4> QED BY <4>1
    <3>3. pc' \in [Analyses -> Places]
      <4>1. \E p \in {"queued", "rejected", "uploading"} :
              pc' = [pc EXCEPT ![a] = p]
        BY <2>1, Zenon DEF CreateAnalysis, Submit
      <4> QED BY <4>1
    <3>4. known' \subseteq Analyses
      BY <2>1 DEF CreateAnalysis
    <3>5. UNCHANGED <<status, events, report, error, client, disk>>
      BY <2>1, Zenon DEF CreateAnalysis
    <3> QED BY <3>1, <3>2, <3>3, <3>4, <3>5
  <2>2. CASE OpenKubeconfig(a)
    BY <2>2 DEF OpenKubeconfig
  <2>3. CASE StoreKubeconfig(a)
    BY <2>3 DEF StoreKubeconfig, Submit
  <2>4. CASE StoreKubeconfigFails(a)
    BY <2>4 DEF StoreKubeconfigFails
  <2> QED BY <1>3, <2>1, <2>2, <2>3, <2>4 DEF Handler
<1>4. ASSUME NEW a \in Analyses, Thread(a)
      PROVE  TypeOK'
  <2>1. CASE StartRun(a)
    <3>1. queue' \in Seq(Analyses)
      BY <2>1, HeadTailFacts DEF StartRun
    <3>2. events' \in [Analyses -> Seq(Event)]
      <4>1. events' = [events EXCEPT ![a] = Append(@, Connection)]
            \/ events' = events
        BY <2>1, Zenon DEF StartRun, emit
      <4>2. CASE events' = [events EXCEPT ![a] = Append(@, Connection)]
        BY <4>2, EventTypes
      <4>3. CASE events' = events BY <4>3
      <4> QED BY <4>1, <4>2, <4>3
    <3> QED BY <2>1, <3>1, <3>2, ZenonT(30) DEF StartRun
  <2>2. CASE Connect(a)
    BY <2>2 DEF Connect
  <2>3. CASE Prepare(a)
    BY <2>3 DEF Prepare
  <2>4. CASE EndNode(a)
    <3>1. Len(events[a]) \in 1..NumNodes
      BY <2>4, ConstantsAssumption DEF EndNode, Local, LogByPlace
    <3> QED BY <2>4, <3>1, EventTypes, AppendFacts DEF EndNode, emit
  <2>5. CASE FailInTry(a)
    BY <2>5 DEF FailInTry
  <2>6. CASE SetReport(a)
    BY <2>6 DEF SetReport
  <2>7. CASE SetCompleted(a)
    BY <2>7 DEF SetCompleted, Statuses
  <2>8. CASE EmitCompleted(a)
    BY <2>8, EventTypes, AppendFacts DEF EmitCompleted, emit
  <2>9. CASE OpenSnapshot(a)
    BY <2>9 DEF OpenSnapshot
  <2>10. CASE FillSnapshot(a)
    BY <2>10 DEF FillSnapshot
  <2>11. CASE SetFailed(a)
    BY <2>11 DEF SetFailed, Statuses
  <2>12. CASE SetError(a)
    BY <2>12 DEF SetError
  <2>13. CASE EmitFailed(a)
    BY <2>13, EventTypes, AppendFacts DEF EmitFailed, emit
  <2>14. CASE CloseClient(a)
    BY <2>14 DEF CloseClient
  <2>15. CASE UnlinkKubeconfig(a)
    BY <2>15 DEF UnlinkKubeconfig
  <2> QED
    BY <1>4, <2>1, <2>2, <2>3, <2>4, <2>5, <2>6, <2>7, <2>8, <2>9, <2>10,
       <2>11, <2>12, <2>13, <2>14, <2>15
    DEF Thread, Try, Except, Finally
<1> QED BY <1>1, <1>2, <1>3, <1>4 DEF Next

----------------------------------------------------------------------------
(* A step of one analysis leaves what is known of the others alone.        *)

Untouching(b) ==
  /\ pc'[b] = pc[b] /\ status'[b] = status[b] /\ events'[b] = events[b]
  /\ report'[b] = report[b] /\ error'[b] = error[b] /\ real'[b] = real[b]
  /\ client'[b] = client[b] /\ kubeconfig'[b] = kubeconfig[b]
  /\ snapshot'[b] = snapshot[b]

(* What Local says of an analysis is kept while its state is.            *)
LEMMA LocalFrame ==
  ASSUME NEW b \in Analyses, Local(b), Untouching(b)
  PROVE  Local(b)'
<1> USE DEF Untouching
<1>1. StatusByPlace(b)' BY DEF Local, StatusByPlace
<1>2. LogByPlace(b)' BY DEF Local, LogByPlace, Announced
<1>3. OrderOfLog(b)' BY DEF Local, OrderOfLog
<1>4. FilesByPlace(b)' BY DEF Local, FilesByPlace
<1>5. Verdict(b)' BY DEF Local, Verdict
<1> QED BY <1>1, <1>2, <1>3, <1>4, <1>5 DEF Local

(* A handler or a thread writes to its own analysis only.                *)
LEMMA StepFrame ==
  ASSUME TypeOK, NEW a \in Analyses, Handler(a) \/ Thread(a),
         NEW b \in Analyses, b # a
  PROVE  Untouching(b)
<1> USE DEF TypeOK, Untouching, memory, disk, Goto, Move
<1>1. CASE CreateAnalysis(a) BY <1>1 DEF CreateAnalysis, Submit
<1>2. CASE OpenKubeconfig(a) \/ StoreKubeconfig(a)
  BY <1>2 DEF OpenKubeconfig, StoreKubeconfig, Submit
<1>3. CASE StoreKubeconfigFails(a) BY <1>3 DEF StoreKubeconfigFails
<1>4. CASE StartRun(a) BY <1>4 DEF StartRun, emit
<1>5. CASE Connect(a) \/ Prepare(a) \/ FailInTry(a)
  BY <1>5 DEF Connect, Prepare, FailInTry
<1>6. CASE EndNode(a) \/ EmitCompleted(a) \/ EmitFailed(a)
  BY <1>6 DEF EndNode, EmitCompleted, EmitFailed, emit
<1>7. CASE SetReport(a) \/ SetCompleted(a) \/ SetFailed(a) \/ SetError(a)
  BY <1>7 DEF SetReport, SetCompleted, SetFailed, SetError
<1>8. CASE OpenSnapshot(a) \/ FillSnapshot(a)
  BY <1>8 DEF OpenSnapshot, FillSnapshot
<1>9. CASE CloseClient(a) \/ UnlinkKubeconfig(a)
  BY <1>9 DEF CloseClient, UnlinkKubeconfig
<1> QED
  BY <1>1, <1>2, <1>3, <1>4, <1>5, <1>6, <1>7, <1>8, <1>9
  DEF Handler, Thread, Try, Except, Finally

(* What one step does to its own analysis, by conjunct of Local.           *)
LEMMA StatusStep ==
  ASSUME IInv, NEW a \in Analyses, Handler(a) \/ Thread(a)
  PROVE  StatusByPlace(a)'
<1> USE DEF IInv, TypeOK, Local, StatusByPlace, memory, disk, Goto, Move,
            Untouched, Deciding, Saving
<1>1. CASE CreateAnalysis(a) BY <1>1 DEF CreateAnalysis, Submit
<1>2. CASE OpenKubeconfig(a) \/ StoreKubeconfig(a)
  BY <1>2 DEF OpenKubeconfig, StoreKubeconfig, Submit
<1>3. CASE StoreKubeconfigFails(a) BY <1>3 DEF StoreKubeconfigFails
<1>4. CASE StartRun(a) BY <1>4 DEF StartRun, QueueOK
<1>5. CASE Connect(a) \/ Prepare(a) \/ FailInTry(a)
  BY <1>5 DEF Connect, Prepare, FailInTry
<1>6. CASE EndNode(a) \/ EmitCompleted(a) \/ EmitFailed(a)
  BY <1>6 DEF EndNode, EmitCompleted, EmitFailed
<1>7. CASE SetReport(a) \/ SetCompleted(a) \/ SetFailed(a) \/ SetError(a)
  BY <1>7 DEF SetReport, SetCompleted, SetFailed, SetError
<1>8. CASE OpenSnapshot(a) \/ FillSnapshot(a)
  BY <1>8 DEF OpenSnapshot, FillSnapshot
<1>9. CASE CloseClient(a) \/ UnlinkKubeconfig(a)
  BY <1>9 DEF CloseClient, UnlinkKubeconfig
<1> QED
  BY <1>1, <1>2, <1>3, <1>4, <1>5, <1>6, <1>7, <1>8, <1>9
  DEF Handler, Thread, Try, Except, Finally

(* Only four actions write a log; the others keep it.                     *)
Emitting(a) == StartRun(a) \/ EndNode(a) \/ EmitCompleted(a) \/ EmitFailed(a)

(* A step that is not one of these four writes no log.                   *)
LEMMA QuietStep ==
  ASSUME NEW a \in Analyses, Handler(a) \/ Thread(a), ~Emitting(a)
  PROVE  events' = events
BY DEF Handler, Thread, Try, Except, Finally, Emitting, memory, disk,
       CreateAnalysis, OpenKubeconfig, StoreKubeconfig, StoreKubeconfigFails, Connect, Prepare,
       FailInTry, SetReport, SetCompleted, SetFailed, SetError, OpenSnapshot,
       FillSnapshot, CloseClient, UnlinkKubeconfig

(* The log after a step that emits e: the old events, then e.              *)
LEMMA EmitStep ==
  ASSUME TypeOK, NEW a \in Analyses, NEW e \in Event, emit(a, e)
  PROVE  /\ Len(events[a]) \in Nat
         /\ DOMAIN events[a] = 1..Len(events[a])
         /\ Len(events'[a]) = Len(events[a]) + 1
         /\ DOMAIN events'[a] = 1..(Len(events[a]) + 1)
         /\ \A i \in 1..Len(events[a]) : events'[a][i] = events[a][i]
         /\ events'[a][Len(events[a]) + 1] = e
<1>1. events[a] \in Seq(Event) /\ events'[a] = Append(events[a], e)
  BY DEF TypeOK, emit
<1> QED BY <1>1, AppendFacts

(* What a step that emits e has announced: e and what was announced.       *)
LEMMA AnnounceStep ==
  ASSUME TypeOK, NEW a \in Analyses, NEW e \in Event, emit(a, e)
  PROVE  \A f : Announced(a, f)' <=> Announced(a, f) \/ f = e
  BY EmitStep, SMTT(30) DEF Announced

(* The four kinds of event can be told apart.                            *)
LEMMA EventsDiffer ==
  /\ Connection # Completed /\ Connection # Failed /\ Completed # Failed
  /\ \A n : NodeEnd(n) \notin {Connection, Completed, Failed}
  /\ NodeEnd(0).stage = "NODE" /\ \A n : NodeEnd(n).stage = "NODE"
  /\ Connection.stage # "NODE" /\ Completed.stage # "NODE"
  /\ Failed.stage # "NODE"
  BY DEF Connection, Completed, Failed, NodeEnd

(* The log stays one pass of the pipeline, in order.                     *)
LEMMA OrderStep ==
  ASSUME IInv, NEW a \in Analyses, Handler(a) \/ Thread(a)
  PROVE  OrderOfLog(a)'
<1> USE DEF IInv, Local, Untouched, Deciding, Saving, Over, Finished, InExcept
<1>1. CASE ~Emitting(a)
  BY <1>1, QuietStep DEF OrderOfLog
<1>2. CASE StartRun(a)
  <2>1. Len(events[a]) = 0
    BY <1>2 DEF StartRun, QueueOK, LogByPlace
  <2>2. CASE emit(a, Connection)
    BY <2>1, <2>2, EmitStep, EventTypes, EventsDiffer DEF OrderOfLog
  <2>3. CASE events' = events
    BY <2>3 DEF OrderOfLog
  <2> QED BY <1>2, <2>2, <2>3, Zenon DEF StartRun
<1>3. CASE EndNode(a)
  <2>1. Len(events[a]) \in 1..NumNodes /\ ~Announced(a, Failed)
    BY <1>3 DEF EndNode, LogByPlace, InThread, Ended, Finished
  <2> DEFINE e == NodeEnd(Len(events[a]))
  <2>2. emit(a, e) /\ e \in Event
    BY <1>3, <2>1, EventTypes, ConstantsAssumption DEF EndNode
  <2> DEFINE n == Len(events[a])
  <2>3. /\ n \in Nat /\ DOMAIN events[a] = 1..n /\ DOMAIN events'[a] = 1..(n + 1)
        /\ Len(events'[a]) = n + 1
        /\ \A i \in 1..n : events'[a][i] = events[a][i]
        /\ events'[a][n + 1] = NodeEnd(n)
    BY <2>2, EmitStep
  <2>4. ASSUME NEW i \in 1..(n + 1)
        PROVE  LET f == events'[a][i] IN
               /\ f = Connection <=> i = 1
               /\ f.stage = "NODE" => f = NodeEnd(i - 1)
               /\ f = Completed => i = NumNodes + 2
               /\ f = Failed => i = Len(events'[a])
    <3>1. CASE i = n + 1
      <4>1. i - 1 = n /\ i # 1 BY <3>1, <2>1
      <4> QED BY <3>1, <4>1, <2>3, EventsDiffer
    <3>2. CASE i \in 1..n
      <4>1. events[a][i] # Failed BY <3>2, <2>1, <2>3 DEF Announced
      <4> QED BY <3>2, <4>1, <2>3 DEF OrderOfLog
    <3> QED BY <3>1, <3>2, <2>3
  <2> QED BY <2>3, <2>4 DEF OrderOfLog
<1>4. CASE EmitCompleted(a)
  <2>1. Len(events[a]) = NumNodes + 1 /\ ~Announced(a, Failed)
    BY <1>4 DEF EmitCompleted, Move, LogByPlace
  <2>2. emit(a, Completed)
    BY <1>4 DEF EmitCompleted
  <2> QED
    BY <2>1, <2>2, EmitStep, EventTypes, EventsDiffer, ConstantsAssumption, SMTT(30)
    DEF OrderOfLog, Announced
<1>5. CASE EmitFailed(a)
  <2>1. Len(events[a]) >= 1 /\ ~Announced(a, Failed)
    BY <1>5 DEF EmitFailed, Move, LogByPlace
  <2>2. emit(a, Failed)
    BY <1>5 DEF EmitFailed
  <2> QED
    BY <2>1, <2>2, EmitStep, EventTypes, EventsDiffer DEF OrderOfLog, Announced
<1> QED BY <1>1, <1>2, <1>3, <1>4, <1>5 DEF Emitting

(* The length and the last event of the log match the place reached.     *)
LEMMA LogStep ==
  ASSUME IInv, NEW a \in Analyses, Handler(a) \/ Thread(a)
  PROVE  LogByPlace(a)'
<1> USE DEF IInv, TypeOK, Local, StatusByPlace, Goto, Move, memory, disk,
            Untouched, Deciding, Saving, Over, Finished, InExcept
<1>1. CASE ~Emitting(a)
  <2>1. events' = events /\ \A e : Announced(a, e)' <=> Announced(a, e)
    BY <1>1, QuietStep DEF Announced
  <2>2. CASE CreateAnalysis(a)
    BY <2>1, <2>2 DEF LogByPlace, CreateAnalysis, Submit
  <2>3. CASE OpenKubeconfig(a) \/ StoreKubeconfig(a) \/ StoreKubeconfigFails(a)
    BY <2>1, <2>3
    DEF LogByPlace, OpenKubeconfig, StoreKubeconfig, StoreKubeconfigFails, Submit
  <2>4. CASE Connect(a) \/ Prepare(a) \/ FailInTry(a)
    <3>1. pc[a] \in {"connect", "prepare", "graph", "report"}
      BY <2>4 DEF Connect, Prepare, FailInTry
    <3>2. pc'[a] \in {"prepare", "graph", "failing"}
      BY <2>4 DEF Connect, Prepare, FailInTry
    <3>3. Len(events[a]) >= 1
      <4>1. LogByPlace(a) /\ NumNodes \in Nat \ {0}
        BY ConstantsAssumption
      <4> HIDE DEF IInv, TypeOK, Local, StatusByPlace
      <4> QED BY <3>1, <4>1 DEF LogByPlace
    <3>4. pc'[a] \in {"prepare", "graph"} => Len(events[a]) = 1
      BY <2>4 DEF LogByPlace, Connect, Prepare, FailInTry
    <3>5. ~Announced(a, Completed) /\ ~Announced(a, Failed)
      BY <3>1 DEF LogByPlace
    <3>6. ~Announced(a, Completed)' /\ ~Announced(a, Failed)'
      BY <2>1, <3>5
    <3>7. Len(events'[a]) = Len(events[a])
      BY <2>1
    <3> HIDE DEF IInv, TypeOK, Local, StatusByPlace
    <3>8. CASE pc'[a] = "prepare" BY <3>8, <3>4, <3>6, <3>7 DEF LogByPlace
    <3>9. CASE pc'[a] = "graph"
      <4>1. 1 \in 1..NumNodes BY ConstantsAssumption
      <4> QED BY <4>1, <3>9, <3>4, <3>6, <3>7 DEF LogByPlace
    <3>10. CASE pc'[a] = "failing" BY <3>10, <3>3, <3>6, <3>7 DEF LogByPlace
    <3> QED BY <3>2, <3>8, <3>9, <3>10
  <2>5. CASE SetReport(a) \/ SetCompleted(a)
    BY <2>1, <2>5 DEF LogByPlace, SetReport, SetCompleted
  <2>6. CASE SetFailed(a)
    BY <2>1, <2>6 DEF LogByPlace, SetFailed
  <2>9. CASE SetError(a)
    BY <2>1, <2>9 DEF LogByPlace, SetError
  <2>7. CASE OpenSnapshot(a) \/ FillSnapshot(a)
    BY <2>1, <2>7, ConstantsAssumption DEF LogByPlace, OpenSnapshot, FillSnapshot
  <2>8. CASE CloseClient(a) \/ UnlinkKubeconfig(a)
    BY <2>1, <2>8 DEF LogByPlace, CloseClient, UnlinkKubeconfig
  <2> QED
    BY <1>1, <2>2, <2>3, <2>4, <2>5, <2>6, <2>7, <2>8, <2>9
    DEF Emitting, Handler, Thread, Try, Except, Finally
<1>2. CASE StartRun(a)
  <2>1. pc[a] = "queued"
    BY <1>2 DEF StartRun, QueueOK
  <2>2. CASE emit(a, Connection) /\ Goto(a, "connect")
    <3>1. Len(events[a]) = 0 /\ \A f : ~Announced(a, f)
      BY <2>1 DEF LogByPlace, Announced
    <3>2. Len(events'[a]) = 1
      <4>1. Connection \in Event BY EventTypes
      <4>2. Len(events'[a]) = Len(events[a]) + 1 BY <4>1, <2>2, EmitStep
      <4> QED BY <3>1, <4>2
    <3>3. ~Announced(a, Completed)' /\ ~Announced(a, Failed)'
      BY <3>1, <2>2, AnnounceStep, EventTypes, EventsDiffer
    <3> QED BY <2>2, <3>2, <3>3 DEF LogByPlace
  <2>3. CASE events' = events /\ Goto(a, "aborted")
    <3>1. \A e : Announced(a, e)' <=> Announced(a, e)
      BY <2>3 DEF Announced
    <3> QED BY <1>2, <2>1, <2>3, <3>1 DEF LogByPlace, StartRun
  <2> QED BY <1>2, <2>2, <2>3, Zenon DEF StartRun
<1>3. CASE EndNode(a)
  <2>1. Len(events[a]) \in 1..NumNodes
    BY <1>3 DEF EndNode, LogByPlace
  <2>2. emit(a, NodeEnd(Len(events[a]))) /\ NodeEnd(Len(events[a])) \in Event
    BY <1>3, <2>1, EventTypes, ConstantsAssumption DEF EndNode
  <2>3. Len(events'[a]) = Len(events[a]) + 1
    BY <2>2, EmitStep
  <2>4. ~Announced(a, Completed)' /\ ~Announced(a, Failed)'
    <3>1. ~Announced(a, Completed) /\ ~Announced(a, Failed)
      BY <1>3 DEF EndNode, LogByPlace
    <3> QED BY <3>1, <2>2, AnnounceStep, EventsDiffer
  <2> QED
    BY <1>3, <2>1, <2>3, <2>4, ConstantsAssumption DEF LogByPlace, EndNode
<1>4. CASE EmitCompleted(a)
  <2>1. Len(events'[a]) = NumNodes + 2
    BY <1>4, EmitStep, EventTypes, ConstantsAssumption DEF LogByPlace, EmitCompleted
  <2>2. ~Announced(a, Failed)'
    <3>1. ~Announced(a, Failed) BY <1>4 DEF LogByPlace, EmitCompleted
    <3> QED BY <3>1, <1>4, AnnounceStep, EventTypes, EventsDiffer DEF EmitCompleted
  <2> QED BY <1>4, <2>1, <2>2 DEF LogByPlace, EmitCompleted
<1>5. CASE EmitFailed(a)
  <2>1. Len(events'[a]) >= 1
    BY <1>5, EmitStep, EventTypes DEF EmitFailed
  <2> QED BY <1>5, <2>1 DEF LogByPlace, EmitFailed
<1> QED BY <1>1, <1>2, <1>3, <1>4, <1>5 DEF Emitting

(* The client and the two files match the place reached.                 *)
LEMMA FilesStep ==
  ASSUME IInv, NEW a \in Analyses, Handler(a) \/ Thread(a)
  PROVE  FilesByPlace(a)'
<1> USE DEF IInv, TypeOK, Local, FilesByPlace, memory, disk, Goto, Move,
            InThread, InTry, InExcept, InFinally, Over, Finished
<1>1. CASE CreateAnalysis(a) BY <1>1, ZenonT(30) DEF CreateAnalysis, Submit
<1>2. CASE OpenKubeconfig(a) \/ StoreKubeconfig(a)
  BY <1>2 DEF OpenKubeconfig, StoreKubeconfig, Submit
<1>3. CASE StoreKubeconfigFails(a) BY <1>3 DEF StoreKubeconfigFails
<1>4. CASE StartRun(a)
  <2>1. pc[a] = "queued" BY <1>4 DEF StartRun, QueueOK
  <2>2. pc'[a] \in {"connect", "aborted"} BY <1>4 DEF StartRun
  <2>3. UNCHANGED <<real, client, kubeconfig, snapshot>>
    BY <1>4, Zenon DEF StartRun
  <2> QED BY <2>1, <2>2, <2>3
<1>5. CASE Connect(a) \/ Prepare(a) \/ FailInTry(a)
  BY <1>5 DEF Connect, Prepare, FailInTry
<1>6. CASE EndNode(a) \/ EmitCompleted(a) \/ EmitFailed(a)
  BY <1>6 DEF EndNode, EmitCompleted, EmitFailed
<1>7. CASE SetReport(a) \/ SetCompleted(a) \/ SetFailed(a) \/ SetError(a)
  BY <1>7, ZenonT(30) DEF SetReport, SetCompleted, SetFailed, SetError
<1>8. CASE OpenSnapshot(a) \/ FillSnapshot(a)
  BY <1>8, ZenonT(30) DEF OpenSnapshot, FillSnapshot
<1>9. CASE CloseClient(a) \/ UnlinkKubeconfig(a)
  BY <1>9 DEF CloseClient, UnlinkKubeconfig
<1> QED
  BY <1>1, <1>2, <1>3, <1>4, <1>5, <1>6, <1>7, <1>8, <1>9
  DEF Handler, Thread, Try, Except, Finally

(* From the save on, the last event, the status and the snapshot agree.  *)
LEMMA VerdictStep ==
  ASSUME IInv, NEW a \in Analyses, Handler(a) \/ Thread(a)
  PROVE  Verdict(a)'
<1> USE DEF TypeOK, memory, disk, Goto, Move, Saving, Over, Finished
<1>0. /\ TypeOK /\ StatusByPlace(a) /\ LogByPlace(a) /\ FilesByPlace(a)
      /\ Verdict(a)
  BY DEF IInv, Local
<1>1. CASE EmitCompleted(a)
  <2>1. events'[a][Len(events'[a])] = Completed
    BY <1>0, <1>1, EmitStep, EventTypes DEF EmitCompleted
  <2> QED BY <1>0, <1>1, <2>1 DEF Verdict, EmitCompleted
<1>2. CASE EmitFailed(a)
  <2>1. Len(events'[a]) > 0 /\ events'[a][Len(events'[a])] = Failed
    BY <1>0, <1>2, EmitStep, EventTypes DEF EmitFailed
  <2> QED
    BY <1>0, <1>2, <2>1 DEF Verdict, EmitFailed, StatusByPlace, FilesByPlace
<1>3. CASE OpenSnapshot(a)
  BY <1>0, <1>3 DEF Verdict, OpenSnapshot
<1>4. CASE FillSnapshot(a)
  <2>1. Len(events[a]) > 0
    BY <1>0, <1>4, ConstantsAssumption DEF FillSnapshot, LogByPlace
  <2> QED BY <1>0, <1>4, <2>1 DEF Verdict, FillSnapshot, StatusByPlace
<1>5. CASE CloseClient(a) \/ UnlinkKubeconfig(a)
  BY <1>0, <1>5 DEF Verdict, CloseClient, UnlinkKubeconfig
<1>6. CASE Handler(a) \/ StartRun(a)
  <2>1. pc'[a] \notin Saving \cup Over
    BY <1>0, <1>6 DEF Handler, CreateAnalysis, OpenKubeconfig, StoreKubeconfig,
       StoreKubeconfigFails, Submit, StartRun
  <2> QED BY <2>1 DEF Verdict
<1>7. CASE Connect(a) \/ Prepare(a) \/ FailInTry(a) \/ EndNode(a)
  <2>1. pc'[a] \notin Saving \cup Over
    BY <1>0, <1>7 DEF Connect, Prepare, FailInTry, EndNode
  <2> QED BY <2>1 DEF Verdict
<1>8. CASE SetReport(a) \/ SetCompleted(a) \/ SetFailed(a) \/ SetError(a)
  <2>1. pc'[a] \notin Saving \cup Over
    BY <1>0, <1>8 DEF SetReport, SetCompleted, SetFailed, SetError
  <2> QED BY <2>1 DEF Verdict
<1> QED
  BY <1>1, <1>2, <1>3, <1>4, <1>5, <1>6, <1>7, <1>8
  DEF Thread, Try, Except, Finally

(* An analysis leaves the queue by StartRun and enters it by Submit, from  *)
(* a place where it was not queued.                                        *)
LEMMA SubmitStep ==
  ASSUME TypeOK, QueueOK, NEW a \in Analyses, pc[a] # "queued", Submit(a)
  PROVE  QueueOK'
<1>1. /\ queue' = Append(queue, a) /\ Len(queue) \in Nat
      /\ DOMAIN queue = 1..Len(queue) /\ DOMAIN queue' = 1..(Len(queue) + 1)
      /\ \A i \in 1..Len(queue) : queue'[i] = queue[i] /\ queue[i] \in Analyses
      /\ queue'[Len(queue) + 1] = a
  BY AppendFacts DEF TypeOK, Submit
<1>2. \A i \in 1..Len(queue) : queue[i] # a
  BY <1>1 DEF QueueOK
<1>3. /\ pc'[a] = "queued"
      /\ \A b \in Analyses : b # a => pc'[b] = pc[b]
  BY DEF TypeOK, Submit, Goto
<1>4. \A i \in DOMAIN queue' : pc'[queue'[i]] = "queued"
  BY <1>1, <1>2, <1>3 DEF QueueOK
<1>5. \A i, j \in DOMAIN queue' : queue'[i] = queue'[j] => i = j
  BY <1>1, <1>2 DEF QueueOK
<1> QED BY <1>4, <1>5 DEF QueueOK

(* A step of a thread or a request that is not queued keeps QueueOK.     *)
LEMMA UnqueuedStep ==
  ASSUME TypeOK, QueueOK, NEW a \in Analyses, pc[a] # "queued", queue' = queue,
         \A b \in Analyses : b # a => pc'[b] = pc[b]
  PROVE  QueueOK'
<1>1. \A i \in DOMAIN queue : queue[i] \in Analyses
  BY DEF TypeOK
<1> QED BY <1>1 DEF QueueOK

(* No step puts an analysis into the queue twice or runs a queued one.   *)
LEMMA QueueStep ==
  ASSUME IInv, NEW a \in Analyses, Handler(a) \/ Thread(a)
  PROVE  QueueOK'
<1>0. TypeOK /\ QueueOK BY DEF IInv
<1> USE DEF Goto, Move, memory, disk
<1>1. CASE CreateAnalysis(a)
  <2>1. pc[a] = "none" /\ (Submit(a) \/ (queue' = queue /\ \E p : Goto(a, p)))
    BY <1>1, Zenon DEF CreateAnalysis
  <2>2. CASE Submit(a) BY <1>0, <2>1, <2>2, SubmitStep
  <2>3. CASE queue' = queue /\ \E p : Goto(a, p)
    <3>1. \A b \in Analyses : b # a => pc'[b] = pc[b]
      BY <1>0, <2>3 DEF TypeOK
    <3> QED BY <1>0, <2>1, <2>3, <3>1, UnqueuedStep
  <2> QED BY <2>1, <2>2, <2>3
<1>2. CASE StoreKubeconfig(a)
  BY <1>0, <1>2, SubmitStep DEF StoreKubeconfig
<1>3. CASE StartRun(a)
  <2>1. /\ queue' = Tail(queue) /\ a = queue[1] /\ Len(queue) \in Nat \ {0}
        /\ DOMAIN queue = 1..Len(queue) /\ DOMAIN queue' = 1..(Len(queue) - 1)
        /\ \A i \in 1..(Len(queue) - 1) : queue'[i] = queue[i + 1]
        /\ \A i \in 1..Len(queue) : queue[i] \in Analyses
    <3>1. queue \in Seq(Analyses) /\ queue # <<>> BY <1>0, <1>3 DEF TypeOK, StartRun
    <3> QED BY <1>3, <3>1, HeadTailFacts DEF StartRun
  <2>2. \A i \in DOMAIN queue' : i + 1 \in DOMAIN queue /\ queue'[i] # a
    BY <1>0, <2>1 DEF QueueOK
  <2>3. \A b \in Analyses : b # a => pc'[b] = pc[b]
    BY <1>0, <1>3 DEF TypeOK, StartRun
  <2>4. \A i \in DOMAIN queue' : pc'[queue'[i]] = "queued"
    BY <1>0, <2>1, <2>2, <2>3 DEF QueueOK
  <2>5. \A i, j \in DOMAIN queue' : queue'[i] = queue'[j] => i = j
    BY <1>0, <2>1, <2>2 DEF QueueOK
  <2> QED BY <2>4, <2>5 DEF QueueOK
<1>4. CASE \/ OpenKubeconfig(a) \/ StoreKubeconfigFails(a)
         \/ Try(a) \/ Except(a) \/ Finally(a)
  <2>1. pc[a] # "queued" /\ queue' = queue
    BY <1>4 DEF OpenKubeconfig, StoreKubeconfigFails, Try, Except, Finally, Connect, Prepare,
       EndNode, FailInTry, SetReport, SetCompleted, EmitCompleted, OpenSnapshot,
       FillSnapshot, SetFailed, SetError, EmitFailed, CloseClient,
       UnlinkKubeconfig
  <2>2. \A b \in Analyses : b # a => pc'[b] = pc[b]
    BY <1>0, <1>4, StepFrame DEF Untouching, Handler, Thread
  <2> QED BY <1>0, <2>1, <2>2, UnqueuedStep
<1> QED BY <1>1, <1>2, <1>3, <1>4 DEF Handler, Thread

----------------------------------------------------------------------------
(* Nothing has happened yet: no log, no file, no thread.                   *)
LEMMA InitIInv == Init => IInv
<1> SUFFICES ASSUME Init PROVE IInv
  OBVIOUS
<1>1. TypeOK
  BY DEF Init, TypeOK, Statuses, Places
<1>2. QueueOK
  BY DEF Init, QueueOK
<1>3. ASSUME NEW a \in Analyses
      PROVE  Local(a)
  <2>1. /\ status[a] = "RUNNING" /\ events[a] = <<>> /\ pc[a] = "none"
        /\ client[a] = "none" /\ snapshot[a] = "absent"
        /\ kubeconfig[a] = "absent"
    BY DEF Init
  <2>2. Len(events[a]) = 0 /\ DOMAIN events[a] = {}
    BY <2>1
  <2>3. \A e : ~Announced(a, e)
    BY <2>2 DEF Announced
  <2> QED
    BY <2>1, <2>2, <2>3
    DEF Local, StatusByPlace, LogByPlace, OrderOfLog, FilesByPlace, Verdict,
        Untouched, Deciding, Saving, Over, Finished, InThread, InTry, InExcept, InFinally
<1> QED BY <1>1, <1>2, <1>3 DEF IInv

(* A restart moves whoever was alive to "lost", where nothing is claimed   *)
(* but what the log and the report already showed.                         *)
LEMMA RestartStep ==
  ASSUME IInv, Restart
  PROVE  QueueOK' /\ \A a \in Analyses : Local(a)'
<1>1. QueueOK'
  BY DEF Restart, QueueOK
<1>2. ASSUME NEW a \in Analyses
      PROVE  Local(a)'
  <2>1. /\ UNCHANGED <<real, status, events, report, error, kubeconfig, snapshot>>
        /\ pc'[a] = IF pc[a] \in Alive THEN "lost" ELSE pc[a]
        /\ client'[a] = IF client[a] = "open" THEN "closed" ELSE client[a]
    BY DEF Restart, disk
  <2>2. Local(a) /\ TypeOK
    BY DEF IInv
  <2>3. \A e : Announced(a, e)' <=> Announced(a, e)
    BY <2>1 DEF Announced
  <2>4. OrderOfLog(a)'
    BY <2>1, <2>2 DEF Local, OrderOfLog
  <2>5. client'[a] # "open"
    BY <2>1
  <2>6. CASE pc[a] \in Alive
    <3>1. pc'[a] = "lost"
      BY <2>1, <2>6
    <3>2. StatusByPlace(a)'
      BY <2>1, <2>2, <3>1 DEF Local, StatusByPlace, Untouched, Deciding, Saving
    <3>3. LogByPlace(a)'
      BY <2>1, <2>2, <2>3, <3>1
      DEF Local, LogByPlace, Untouched, Deciding, Saving, Over, Finished, InExcept
    <3>4. FilesByPlace(a)' /\ Verdict(a)'
      BY <2>5, <3>1
        DEF FilesByPlace, Verdict, Over, Finished, Saving, InThread, InTry, InExcept,
          InFinally
    <3> QED BY <2>4, <3>2, <3>3, <3>4 DEF Local
  <2>7. CASE pc[a] \notin Alive
    <3>1. pc'[a] = pc[a]
      BY <2>1, <2>7
    <3>2. StatusByPlace(a)'
      BY <2>1, <2>2, <3>1 DEF Local, StatusByPlace
    <3>3. LogByPlace(a)'
      BY <2>1, <2>2, <2>3, <3>1 DEF Local, LogByPlace
    <3>4. FilesByPlace(a)' /\ Verdict(a)'
      BY <2>1, <2>2, <2>5, <3>1 DEF Local, FilesByPlace, Verdict
    <3> QED BY <2>4, <3>2, <3>3, <3>4 DEF Local
  <2> QED BY <2>6, <2>7
<1> QED BY <1>1, <1>2

(* Every step of the event loop, of a thread and of the supervisor keeps   *)
(* the inductive invariant.                                                *)
LEMMA IInvStep == IInv /\ [Next]_vars => IInv'
<1> SUFFICES ASSUME IInv, [Next]_vars PROVE IInv'
  OBVIOUS
<1>1. TypeOK'
  BY TypeStep
<1>2. CASE UNCHANGED vars
  <2>1. QueueOK'
    BY <1>2 DEF vars, IInv, QueueOK
  <2>2. \A a \in Analyses : Local(a)'
    BY <1>2, LocalFrame DEF vars, memory, disk, IInv, Untouching
  <2> QED BY <1>1, <2>1, <2>2 DEF IInv
<1>3. CASE Restart
  BY <1>1, <1>3, RestartStep DEF IInv
<1>4. ASSUME NEW a \in Analyses, Handler(a) \/ Thread(a)
      PROVE  IInv'
  <2>1. Local(a)'
    BY <1>4, StatusStep, LogStep, OrderStep, FilesStep, VerdictStep DEF Local
  <2>2. ASSUME NEW b \in Analyses, b # a
        PROVE  Local(b)'
    <3>1. TypeOK /\ Local(b)
      BY DEF IInv
    <3>2. Untouching(b)
      BY <1>4, <2>2, <3>1, StepFrame
    <3> QED BY <3>1, <3>2, LocalFrame
  <2>3. QueueOK'
    BY <1>4, QueueStep
  <2> QED BY <1>1, <2>1, <2>2, <2>3 DEF IInv
<1> QED BY <1>2, <1>3, <1>4 DEF Next

----------------------------------------------------------------------------
(* In every reachable state, under every fault, the place of a thread      *)
(* tells what run_analysis has written so far.                             *)
THEOREM Invariance == Spec => []IInv
<1>1. Init => IInv BY InitIInv
<1>2. IInv /\ [Next]_vars => IInv' BY IInvStep
<1> QED BY <1>1, <1>2, PTL DEF Spec

(* The variables keep their types; the events keep their numbers, because  *)
(* the graph never reports a node it does not have.                        *)
THEOREM TypeCorrect == Spec => []TypeOK
<1>1. IInv => TypeOK BY DEF IInv
<1> QED BY <1>1, Invariance, PTL

(* No request can meet a COMPLETED session without its report              *)
(* (analysis_service.py:112-113, routes.py:113-114).                       *)
THEOREM ReportFirst == Spec => []ReportBeforeCompleted
<1>1. IInv => ReportBeforeCompleted
  BY DEF IInv, Local, StatusByPlace, ReportBeforeCompleted
<1> QED BY <1>1, Invariance, PTL

(* finally closes the client before it deletes the file the client reads   *)
(* (analysis_service.py:122-127).                                          *)
THEOREM ClientSafe == Spec => []ClientHasKubeconfig
<1>1. IInv => ClientHasKubeconfig
  BY DEF IInv, Local, FilesByPlace, ClientHasKubeconfig
<1> QED BY <1>1, Invariance, PTL

(* A run that reached the end of its finally has deleted the kubeconfig    *)
(* (analysis_service.py:125-127) unless the unlink raised; what a failed   *)
(* or interrupted upload, a failing audit log or a restart leaves is       *)
(* nothing else.                                                           *)
THEOREM KubeconfigIsDeleted == Spec => []KubeconfigDeleted
<1>1. IInv => KubeconfigDeleted
  BY DEF IInv, Local, FilesByPlace, KubeconfigDeleted
<1> QED BY <1>1, Invariance, PTL

(* However the run ends, its log is one ordered pass of the pipeline, for  *)
(* any number of nodes.                                                    *)
THEOREM LogIsOnePass == Spec => []PipelineOrder
<1>1. IInv => PipelineOrder
  BY DEF IInv, Local, PipelineOrder
<1> QED BY <1>1, Invariance, PTL

(* A client that reacts to FAILED finds the status and the error.          *)
THEOREM FailureIsExplained == Spec => []FailureExplained
<1>1. IInv => FailureExplained
  BY DEF IInv, Local, LogByPlace, FailureExplained
<1> QED BY <1>1, Invariance, PTL

(* Every thread that runs to its end leaves the outcome as the last event. *)
THEOREM EndIsAnnounced == Spec => []EndAnnounced
<1>1. IInv => EndAnnounced
  <2> SUFFICES ASSUME IInv, NEW a \in Analyses, pc[a] \in Finished
               PROVE  /\ events[a] # <<>>
                      /\ events[a][Len(events[a])].stage = status[a]
    BY DEF EndAnnounced, OutcomeTold
  <2>1. Verdict(a) BY DEF IInv, Local
  <2> QED BY <2>1 DEF Verdict, Over, Finished, Completed, Failed
<1> QED BY <1>1, Invariance, PTL

(* A failed save takes COMPLETED back, and only a completed run leaves a   *)
(* whole snapshot (analysis_service.py:113-121).                           *)
THEOREM OutcomeIsOnDisk == Spec => []OutcomeMatchesDisk
<1>1. IInv => OutcomeMatchesDisk
  BY DEF IInv, Local, Verdict, Over, Finished, OutcomeMatchesDisk
<1> QED BY <1>1, Invariance, PTL

----------------------------------------------------------------------------
(* Who is in the store                                                     *)

(* A request puts its session into the store before anything else happens, *)
(* and nothing but a restart takes it out.                                 *)
LEMMA StoredStep == IInv /\ StoredByPlace /\ [Next]_vars => StoredByPlace'
<1> SUFFICES ASSUME IInv, StoredByPlace, [Next]_vars PROVE StoredByPlace'
  OBVIOUS
<1>1. TypeOK
  BY DEF IInv
<1>2. CASE UNCHANGED vars
  BY <1>2 DEF vars, memory, StoredByPlace
<1>3. CASE Restart
  <2>1. \A a \in Analyses : pc'[a] \notin Alive
    BY <1>3 DEF Restart, Alive, InThread, InTry, InExcept, InFinally
  <2> QED BY <1>3, <2>1 DEF Restart, StoredByPlace
<1>4. ASSUME NEW a \in Analyses, Handler(a) \/ Thread(a)
      PROVE  StoredByPlace'
  <2>1. CASE CreateAnalysis(a)
    <3>1. known' = known \cup {a} /\ pc'[a] # "none"
      BY <1>1, <2>1 DEF CreateAnalysis, Submit, Goto, TypeOK
    <3>2. \A b \in Analyses : b # a => pc'[b] = pc[b]
      BY <1>1, <1>4, StepFrame DEF Untouching
    <3> QED BY <3>1, <3>2 DEF StoredByPlace
  <2>2. CASE ~CreateAnalysis(a)
    <3>1. known' = known /\ pc[a] \in Alive /\ pc'[a] # "none"
      BY <1>1, <1>4, <2>2
      DEF Handler, Thread, Try, Except, Finally, TypeOK, memory, Goto, Move,
          OpenKubeconfig, StoreKubeconfig, StoreKubeconfigFails, Submit, StartRun, Connect,
          Prepare, EndNode, FailInTry, SetReport, SetCompleted, EmitCompleted,
          OpenSnapshot, FillSnapshot, SetFailed, SetError, EmitFailed,
          CloseClient, UnlinkKubeconfig, Alive, InThread, InTry, InExcept,
          InFinally, IInv, QueueOK
    <3>2. \A b \in Analyses : b # a => pc'[b] = pc[b]
      BY <1>1, <1>4, StepFrame DEF Untouching
    <3> QED BY <3>1, <3>2 DEF StoredByPlace
  <2> QED BY <2>1, <2>2
<1> QED BY <1>2, <1>3, <1>4 DEF Next

(* The store holds exactly the sessions whose request has come.            *)
THEOREM StoredInvariance == Spec => []StoredByPlace
<1>1. Init => StoredByPlace
  BY DEF Init, StoredByPlace, Alive, InThread, InTry, InExcept, InFinally
<1> QED BY <1>1, StoredStep, Invariance, PTL DEF Spec

----------------------------------------------------------------------------
(* The abstract view                                                       *)

Stages == {"CLUSTER_CONNECTION", "NODE", "COMPLETED", "FAILED"}

StagesOf(s) == [i \in DOMAIN s |-> s[i].stage]

Outcome == [a \in Analyses |-> IF a \in known THEN status[a] ELSE "absent"]
Log     == [a \in Analyses |-> IF a \in known THEN StagesOf(events[a]) ELSE <<>>]

(* The stages of a log to which e was appended.                            *)
LEMMA StagesAppend ==
  ASSUME NEW s \in Seq(Event), NEW e \in Event
  PROVE  StagesOf(Append(s, e)) = Append(StagesOf(s), e.stage)
<1>1. /\ Append(s, e) \in Seq(Event) /\ Len(s) \in Nat
      /\ DOMAIN s = 1..Len(s) /\ DOMAIN Append(s, e) = 1..(Len(s) + 1)
      /\ \A i \in 1..Len(s) : Append(s, e)[i] = s[i]
      /\ Append(s, e)[Len(s) + 1] = e
  BY AppendFacts
<1>2. \A i \in 1..Len(s) : s[i] \in Event
  BY ElementOfSeq
<1>3. \A x \in Event : x.stage \in Stages
  BY DEF Event, Stages
<1>4. StagesOf(s) \in Seq(Stages) /\ Len(StagesOf(s)) = Len(s)
  BY <1>1, <1>2, <1>3 DEF StagesOf
<1>5. StagesOf(Append(s, e)) \in Seq(Stages)
      /\ Len(StagesOf(Append(s, e))) = Len(s) + 1
  BY <1>1, <1>2, <1>3 DEF StagesOf
<1>6. /\ Append(StagesOf(s), e.stage) \in Seq(Stages)
      /\ Len(Append(StagesOf(s), e.stage)) = Len(s) + 1
      /\ \A i \in 1..Len(s) : Append(StagesOf(s), e.stage)[i] = StagesOf(s)[i]
      /\ Append(StagesOf(s), e.stage)[Len(s) + 1] = e.stage
  BY <1>1, <1>3, <1>4, AppendProperties
<1>7. \A i \in 1..(Len(s) + 1) :
        StagesOf(Append(s, e))[i] = Append(StagesOf(s), e.stage)[i]
  BY <1>1, <1>6 DEF StagesOf
<1> QED BY <1>5, <1>6, <1>7, SeqEqual

(* An outcome shows in the abstract log only as its own event.             *)
LEMMA StageIsEvent ==
  ASSUME TypeOK, NEW a \in Analyses, NEW i \in DOMAIN events[a]
  PROVE  /\ StagesOf(events[a])[i] = "COMPLETED" => Announced(a, Completed)
         /\ StagesOf(events[a])[i] = "FAILED" => Announced(a, Failed)
<1>1. events[a][i] \in Event /\ StagesOf(events[a])[i] = events[a][i].stage
  BY ElementOfSeq, LenProperties DEF TypeOK, StagesOf
<1>2. /\ events[a][i].stage = "COMPLETED" => events[a][i] = Completed
      /\ events[a][i].stage = "FAILED" => events[a][i] = Failed
  BY <1>1 DEF Event, Completed, Failed
<1> QED BY <1>1, <1>2 DEF Announced

(* What a step of one analysis that stays in the store does to the view.   *)
LEMMA ViewOfEmit ==
  ASSUME TypeOK, NEW a \in Analyses, a \in known, NEW e \in Event, emit(a, e),
         known' = known, status' = status
  PROVE  /\ Outcome' = Outcome
         /\ Log' = [Log EXCEPT ![a] = Append(@, e.stage)]
<1>1. events' = [events EXCEPT ![a] = Append(events[a], e)]
      /\ events[a] \in Seq(Event)
  BY DEF TypeOK, emit
<1>2. StagesOf(events'[a]) = Append(StagesOf(events[a]), e.stage)
  BY <1>1, StagesAppend DEF TypeOK
<1>3. \A b \in Analyses : b # a => events'[b] = events[b]
  BY <1>1 DEF TypeOK
<1> QED BY <1>2, <1>3 DEF Outcome, Log

(* A step that sets the status is seen as one change of the outcome.       *)
LEMMA ViewOfStatus ==
  ASSUME TypeOK, NEW a \in Analyses, a \in known, NEW s,
         status' = [status EXCEPT ![a] = s], known' = known, events' = events
  PROVE  Log' = Log /\ Outcome' = [Outcome EXCEPT ![a] = s]
BY DEF Log, Outcome, TypeOK

(* The actions of the contract, in terms of the view.                      *)
LEMMA ContractActions ==
  ASSUME NEW a \in Analyses
  PROVE  /\ Contract!Accept(a) <=>
              /\ Outcome[a] = "absent"
              /\ Outcome' = [Outcome EXCEPT ![a] = "RUNNING"] /\ Log' = Log
         /\ Contract!Advance(a) <=>
              /\ Outcome[a] = "RUNNING" /\ Outcome' = Outcome
              /\ \E s \in Stages \ {"COMPLETED", "FAILED"} :
                   Log' = [Log EXCEPT ![a] = Append(@, s)]
         /\ Contract!Decide(a) <=>
              /\ Log' = Log
              /\ \/ /\ Outcome[a] = "RUNNING"
                    /\ Outcome' = [Outcome EXCEPT ![a] = "COMPLETED"]
                 \/ /\ Outcome[a] \in {"RUNNING", "COMPLETED"}
                    /\ Outcome' = [Outcome EXCEPT ![a] = "FAILED"]
         /\ Contract!Announce(a) <=>
              /\ Outcome[a] \in {"COMPLETED", "FAILED"} /\ Outcome' = Outcome
              /\ \A i \in DOMAIN Log[a] : Log[a][i] # Outcome[a]
              /\ Log' = [Log EXCEPT ![a] = Append(@, Outcome[a])]
<1> USE DEF Outcome, Log, Stages, StagesOf, Contract!Terminal
<1>1. Contract!Accept(a) <=>
        /\ Outcome[a] = "absent"
        /\ Outcome' = [Outcome EXCEPT ![a] = "RUNNING"] /\ Log' = Log
  BY Zenon DEF Contract!Accept
<1>2. Contract!Advance(a) <=>
        /\ Outcome[a] = "RUNNING" /\ Outcome' = Outcome
        /\ \E s \in Stages \ {"COMPLETED", "FAILED"} :
             Log' = [Log EXCEPT ![a] = Append(@, s)]
  BY Zenon DEF Contract!Advance
<1>3. Contract!Decide(a) <=>
        /\ Log' = Log
        /\ \/ /\ Outcome[a] = "RUNNING"
              /\ Outcome' = [Outcome EXCEPT ![a] = "COMPLETED"]
           \/ /\ Outcome[a] \in {"RUNNING", "COMPLETED"}
              /\ Outcome' = [Outcome EXCEPT ![a] = "FAILED"]
  BY Zenon DEF Contract!Decide
<1>4. Contract!Announce(a) <=>
        /\ Outcome[a] \in {"COMPLETED", "FAILED"} /\ Outcome' = Outcome
        /\ \A i \in DOMAIN Log[a] : Log[a][i] # Outcome[a]
        /\ Log' = [Log EXCEPT ![a] = Append(@, Outcome[a])]
  BY Zenon DEF Contract!Announce
<1> QED BY <1>1, <1>2, <1>3, <1>4

----------------------------------------------------------------------------
(* Every step maps to a step of the contract or to a stutter               *)

Seen(a) ==
  \/ Contract!Accept(a) \/ Contract!Advance(a) \/ Contract!Decide(a)
  \/ Contract!Announce(a) \/ (Outcome' = Outcome /\ Log' = Log)

(* A step of a thread, by what it shows to clients.                        *)
LEMMA ThreadIsSeen ==
  ASSUME IInv, StoredByPlace, NEW a \in Analyses, Thread(a)
  PROVE  Seen(a)
<1>1. TypeOK /\ Local(a)
  BY DEF IInv
<1>2. a \in known /\ pc[a] \in Alive
  <2>1. pc[a] \in Alive
    BY DEF Thread, Try, Except, Finally, Move, StartRun, Connect, Prepare,
           EndNode, FailInTry, SetReport, SetCompleted, EmitCompleted,
           OpenSnapshot, FillSnapshot, SetFailed, SetError, EmitFailed,
           CloseClient, UnlinkKubeconfig, Alive, InThread, InTry, InExcept,
           InFinally, IInv, QueueOK, TypeOK
  <2> QED BY <2>1 DEF StoredByPlace
<1>3. Outcome[a] = status[a] /\ Log[a] = StagesOf(events[a])
      /\ DOMAIN Log[a] = DOMAIN events[a]
  BY <1>2 DEF Outcome, Log, StagesOf
<1>4. CASE UNCHANGED <<known, status, events>>
  BY <1>4 DEF Seen, Outcome, Log
<1>5. CASE StartRun(a) /\ emit(a, Connection)
  <2>1. status[a] = "RUNNING"
    BY <1>1, <1>5 DEF Local, StatusByPlace, StartRun, Untouched, IInv, QueueOK, TypeOK
  <2>2. known' = known /\ status' = status
    BY <1>5 DEF StartRun
  <2>3. Outcome' = Outcome /\ Log' = [Log EXCEPT ![a] = Append(@, Connection.stage)]
    BY <1>1, <1>2, <1>5, <2>2, EventTypes, ViewOfEmit
  <2>4. Connection.stage \in Stages \ {"COMPLETED", "FAILED"}
    BY DEF Connection, Stages
  <2> QED BY <1>3, <2>1, <2>3, <2>4, ContractActions DEF Seen
<1>6. CASE EndNode(a)
  <2>1. status[a] = "RUNNING" /\ Len(events[a]) \in 1..NumNodes
    BY <1>1, <1>6 DEF Local, StatusByPlace, LogByPlace, EndNode, Deciding
  <2>2. known' = known /\ status' = status /\ emit(a, NodeEnd(Len(events[a])))
    BY <1>6 DEF EndNode
  <2>3. Outcome' = Outcome
        /\ Log' = [Log EXCEPT ![a] = Append(@, NodeEnd(Len(events[a])).stage)]
    BY <1>1, <1>2, <2>1, <2>2, EventTypes, ViewOfEmit
  <2>4. NodeEnd(Len(events[a])).stage \in Stages \ {"COMPLETED", "FAILED"}
    BY DEF NodeEnd, Stages
  <2> QED BY <1>3, <2>1, <2>3, <2>4, ContractActions DEF Seen
<1>7. CASE SetCompleted(a)
  <2>1. status[a] = "RUNNING"
    BY <1>1, <1>7 DEF Local, StatusByPlace, SetCompleted, Move, Deciding
  <2>2. Log' = Log /\ Outcome' = [Outcome EXCEPT ![a] = "COMPLETED"]
    BY <1>1, <1>2, <1>7, ViewOfStatus DEF SetCompleted
  <2> QED BY <1>3, <2>1, <2>2, ContractActions DEF Seen
<1>8. CASE SetFailed(a)
  <2>1. Log' = Log /\ Outcome' = [Outcome EXCEPT ![a] = "FAILED"]
    BY <1>1, <1>2, <1>8, ViewOfStatus DEF SetFailed
  <2>2. CASE status[a] \in {"RUNNING", "COMPLETED"}
    BY <1>3, <2>1, <2>2, ContractActions DEF Seen
  <2>3. CASE status[a] = "FAILED"
    <3>1. Outcome' = Outcome
      BY <1>3, <2>1, <2>3 DEF Outcome
    <3> QED BY <2>1, <3>1 DEF Seen
  <2> QED BY <1>1, <2>2, <2>3 DEF TypeOK, Statuses
<1>9. CASE EmitCompleted(a)
  <2>1. status[a] = "COMPLETED" /\ ~Announced(a, Completed)
    BY <1>1, <1>9 DEF Local, StatusByPlace, LogByPlace, EmitCompleted, Move
  <2>2. known' = known /\ status' = status /\ emit(a, Completed)
    BY <1>9 DEF EmitCompleted
  <2>3. Outcome' = Outcome /\ Log' = [Log EXCEPT ![a] = Append(@, Completed.stage)]
    BY <1>1, <1>2, <2>2, EventTypes, ViewOfEmit
  <2>4. \A i \in DOMAIN Log[a] : Log[a][i] # "COMPLETED"
    BY <1>1, <1>3, <2>1, StageIsEvent
  <2>5. Completed.stage = Outcome[a] /\ Outcome[a] = "COMPLETED"
    BY <1>3, <2>1 DEF Completed
  <2>6. Contract!Announce(a)
    BY <2>3, <2>4, <2>5, ContractActions
  <2> QED BY <2>6 DEF Seen
<1>10. CASE EmitFailed(a)
  <2>1. status[a] = "FAILED" /\ ~Announced(a, Failed)
    BY <1>1, <1>10
    DEF Local, StatusByPlace, LogByPlace, EmitFailed, Move, Over, Finished
  <2>2. known' = known /\ status' = status /\ emit(a, Failed)
    BY <1>10 DEF EmitFailed
  <2>3. Outcome' = Outcome /\ Log' = [Log EXCEPT ![a] = Append(@, Failed.stage)]
    BY <1>1, <1>2, <2>2, EventTypes, ViewOfEmit
  <2>4. \A i \in DOMAIN Log[a] : Log[a][i] # "FAILED"
    BY <1>1, <1>3, <2>1, StageIsEvent
  <2>5. Failed.stage = Outcome[a] /\ Outcome[a] = "FAILED"
    BY <1>3, <2>1 DEF Failed
  <2>6. Contract!Announce(a)
    BY <2>3, <2>4, <2>5, ContractActions
  <2> QED BY <2>6 DEF Seen
<1> QED
  BY <1>4, <1>5, <1>6, <1>7, <1>8, <1>9, <1>10
  DEF Thread, Try, Except, Finally, memory, StartRun, Connect, Prepare,
      FailInTry, SetReport, OpenSnapshot, FillSnapshot, SetError, CloseClient,
      UnlinkKubeconfig

(* A request is accepted when its session is stored.                       *)
LEMMA HandlerIsSeen ==
  ASSUME IInv, StoredByPlace, NEW a \in Analyses, Handler(a)
  PROVE  Seen(a)
<1>1. TypeOK /\ Local(a)
  BY DEF IInv
<1>2. CASE CreateAnalysis(a)
  <2>1. pc[a] = "none" /\ a \notin known
    BY <1>2 DEF CreateAnalysis, StoredByPlace
  <2>2. status[a] = "RUNNING" /\ Len(events[a]) = 0
    BY <1>1, <2>1 DEF Local, StatusByPlace, LogByPlace, Untouched
  <2>3. events[a] = <<>>
    BY <1>1, <2>2, EmptySeq DEF TypeOK
  <2>4. known' = known \cup {a} /\ status' = status /\ events' = events
    BY <1>2 DEF CreateAnalysis
  <2>5. StagesOf(<<>>) = <<>>
    BY DEF StagesOf
  <2>6. Outcome' = [Outcome EXCEPT ![a] = "RUNNING"] /\ Outcome[a] = "absent"
    BY <2>1, <2>2, <2>4 DEF Outcome
  <2>7. Log' = Log
    BY <2>1, <2>3, <2>4, <2>5 DEF Log
  <2> QED BY <2>6, <2>7, ContractActions DEF Seen
<1>3. CASE OpenKubeconfig(a) \/ StoreKubeconfig(a) \/ StoreKubeconfigFails(a)
  <2>1. UNCHANGED <<known, status, events>>
    BY <1>3 DEF OpenKubeconfig, StoreKubeconfig, StoreKubeconfigFails, memory
  <2> QED BY <2>1 DEF Seen, Outcome, Log
<1> QED BY <1>2, <1>3 DEF Handler

(* The step simulation of the refinement.                                  *)
LEMMA SessionIsContractStep ==
  IInv /\ StoredByPlace /\ [Next]_vars => [Contract!CNext]_(Contract!cvars)
<1> SUFFICES ASSUME IInv, StoredByPlace, [Next]_vars
             PROVE  [Contract!CNext]_(Contract!cvars)
  OBVIOUS
<1>1. Outcome' = Outcome /\ Log' = Log => UNCHANGED Contract!cvars
  BY Zenon DEF Contract!cvars, Outcome, Log, StagesOf
<1>2. CASE UNCHANGED vars
  BY <1>1, <1>2 DEF vars, memory, Outcome, Log
<1>3. CASE Restart
  <2>1. known' = {}
    BY <1>3 DEF Restart
  <2>2. Contract!Forget
    BY <2>1 DEF Contract!Forget
  <2> QED BY <2>2 DEF Contract!CNext
<1>4. ASSUME NEW a \in Analyses, Handler(a) \/ Thread(a)
      PROVE  [Contract!CNext]_(Contract!cvars)
  <2>1. Seen(a)
    BY <1>4, HandlerIsSeen, ThreadIsSeen
  <2> QED BY <1>1, <2>1 DEF Seen, Contract!CNext
<1> QED BY <1>2, <1>3, <1>4 DEF Next

(* Whatever fails, the clients of the API see what AnalysisContract        *)
(* promises them: an outcome that is decided before it is announced, is    *)
(* announced at most once, and only ever turns from success to failure.    *)
THEOREM ImplementsContract == Spec => ContractSpec
<1>1. Init => Contract!CInit
  BY DEF Init, Contract!CInit
<1> QED
  BY <1>1, SessionIsContractStep, Invariance, StoredInvariance, PTL
  DEF Spec, ContractSpec, Contract!CSpec
=============================================================================
