------------------------- MODULE ProgressPageProofs -------------------------
(***************************************************************************)
(* The safety of a page and its session together, for any number of        *)
(* analyses, nodes, threads and cuts of the network and every set of       *)
(* faults.  The page only reads the session, so the session's invariant    *)
(* carries over, and the page's own stands on it.                          *)
(***************************************************************************)
EXTENDS ProgressPage, AnalysisSessionProofs

----------------------------------------------------------------------------
(* The session under the page                                              *)

(* Every step of the composition is a step of the session, or one that it  *)
(* does not see.                                                           *)
LEMMA PageStepIsSessionStep == [PageNext]_allVars => [Next]_vars
<1> SUFFICES ASSUME [PageNext]_allVars PROVE [Next]_vars
  OBVIOUS
<1>1. CASE UNCHANGED allVars
  BY <1>1 DEF allVars
<1>2. CASE RestartServer
  BY <1>2 DEF RestartServer, Next
<1>3. ASSUME NEW a \in Analyses, Handler(a) \/ Thread(a)
      PROVE  [Next]_vars
  BY <1>3 DEF Next
<1>4. ASSUME NEW a \in Analyses, Page(a)
      PROVE  UNCHANGED vars
  BY <1>4 DEF Page, OpenPage, StallAbort, Unmount, Reset
<1>5. ASSUME NEW a \in Analyses, Subscription(a)
      PROVE  UNCHANGED vars
  BY <1>5 DEF Subscription, ConnectStream, HandleEvent, Drain, CheckStatus
<1>6. ASSUME NEW a \in Analyses, GetReport(a)
      PROVE  UNCHANGED vars
  BY <1>6 DEF GetReport, FirstStatusRead, SecondStatusRead, LastRead
<1>7. ASSUME NEW a \in Analyses, Drop(a) \/ LoseReport(a)
      PROVE  UNCHANGED vars
  BY <1>7 DEF Drop, LoseReport
<1> QED BY <1>1, <1>2, <1>3, <1>4, <1>5, <1>6, <1>7 DEF PageNext

(* What the page relies on: a log only grows, a report stays, a request    *)
(* that was made is not made again, and a session that a restart took does *)
(* not come back.                                                          *)
Grows(a) ==
  /\ Len(events[a]) <= Len(events'[a])
  /\ \A e : Announced(a, e) => Announced(a, e)'
  /\ report[a] => report'[a]
  /\ pc[a] # "none" => pc'[a] # "none"
  /\ pc[a] # "none" /\ a \notin known => a \notin known'

(* A handler or thread of the analysis itself.                             *)
LEMMA OwnStepGrows ==
  ASSUME IInv, NEW a \in Analyses, Handler(a) \/ Thread(a)
  PROVE  Grows(a)
<1> USE DEF IInv, TypeOK, memory, disk, Goto, Move
<1>1. Len(events[a]) <= Len(events'[a])
      /\ \A e : Announced(a, e) => Announced(a, e)'
  <2>1. CASE ~Emitting(a)
    <3>1. events' = events BY <2>1, QuietStep
    <3>2. Len(events[a]) \in Nat
      BY LenProperties
    <3> QED BY <3>1, <3>2 DEF Announced
  <2>2. CASE Emitting(a)
    <3>1. events' = events \/ \E e \in Event : emit(a, e)
      <4>1. CASE StartRun(a) BY <4>1, EventTypes, Zenon DEF StartRun
      <4>2. CASE EndNode(a)
        <5>1. Len(events[a]) \in 1..NumNodes
          BY <4>2, ConstantsAssumption DEF EndNode, Local, LogByPlace
        <5> QED BY <4>2, <5>1, EventTypes DEF EndNode
      <4>3. CASE EmitCompleted(a) BY <4>3, EventTypes DEF EmitCompleted
      <4>4. CASE EmitFailed(a) BY <4>4, EventTypes DEF EmitFailed
      <4> QED BY <2>2, <4>1, <4>2, <4>3, <4>4 DEF Emitting
    <3>2. CASE events' = events
      BY <3>2, LenProperties DEF Announced
    <3>3. ASSUME NEW e \in Event, emit(a, e)
          PROVE  Len(events[a]) <= Len(events'[a])
                 /\ \A f : Announced(a, f) => Announced(a, f)'
      BY <3>3, EmitStep, AnnounceStep
    <3> QED BY <3>1, <3>2, <3>3
  <2> QED BY <2>1, <2>2
<1>2. /\ report[a] => report'[a]
      /\ pc[a] # "none" => pc'[a] # "none"
      /\ pc[a] # "none" /\ a \notin known => a \notin known'
  <2>1. CASE CreateAnalysis(a) BY <2>1 DEF CreateAnalysis, Submit
  <2>2. CASE OpenKubeconfig(a) \/ StoreKubeconfig(a)
    BY <2>2 DEF OpenKubeconfig, StoreKubeconfig, Submit
  <2>3. CASE StoreKubeconfigFails(a) BY <2>3 DEF StoreKubeconfigFails
  <2>4. CASE StartRun(a) BY <2>4 DEF StartRun
  <2>5. CASE Connect(a) \/ Prepare(a) \/ FailInTry(a)
    BY <2>5 DEF Connect, Prepare, FailInTry
  <2>6. CASE EndNode(a) \/ EmitCompleted(a) \/ EmitFailed(a)
    BY <2>6 DEF EndNode, EmitCompleted, EmitFailed
  <2>7. CASE SetReport(a) \/ SetCompleted(a) \/ SetFailed(a) \/ SetError(a)
    BY <2>7 DEF SetReport, SetCompleted, SetFailed, SetError
  <2>8. CASE OpenSnapshot(a) \/ FillSnapshot(a)
    BY <2>8 DEF OpenSnapshot, FillSnapshot
  <2>9. CASE CloseClient(a) \/ UnlinkKubeconfig(a)
    BY <2>9 DEF CloseClient, UnlinkKubeconfig
  <2> QED
    BY <2>1, <2>2, <2>3, <2>4, <2>5, <2>6, <2>7, <2>8, <2>9
    DEF Handler, Thread, Try, Except, Finally
<1> QED BY <1>1, <1>2 DEF Grows

(* Only the request of an analysis puts it into the store.                 *)
LEMMA OthersStayUnknown ==
  ASSUME NEW a \in Analyses, Handler(a) \/ Thread(a),
         NEW b \in Analyses, b # a, b \notin known
  PROVE  b \notin known'
BY DEF Handler, Thread, Try, Except, Finally, memory, CreateAnalysis,
       OpenKubeconfig, StoreKubeconfig, StoreKubeconfigFails, StartRun, Connect, Prepare,
       EndNode, FailInTry, SetReport, SetCompleted, EmitCompleted,
       OpenSnapshot, FillSnapshot, SetFailed, SetError, EmitFailed,
       CloseClient, UnlinkKubeconfig

(* Every step of the session lets every session only grow.                 *)
LEMMA SessionGrows ==
  ASSUME IInv, [Next]_vars, NEW a \in Analyses
  PROVE  Grows(a)
<1>1. TypeOK /\ Len(events[a]) \in Nat
  BY LenProperties DEF IInv, TypeOK
<1>2. CASE UNCHANGED vars
  BY <1>1, <1>2 DEF vars, memory, Grows, Announced
<1>3. CASE Restart
  <2>1. events' = events /\ report' = report /\ known' = {}
    BY <1>3 DEF Restart
  <2>2. pc'[a] = IF pc[a] \in Alive THEN "lost" ELSE pc[a]
    BY <1>3 DEF Restart
  <2> QED BY <1>1, <2>1, <2>2 DEF Grows, Announced
<1>4. ASSUME NEW b \in Analyses, Handler(b) \/ Thread(b)
      PROVE  Grows(a)
  <2>1. CASE b = a
    BY <1>4, <2>1, OwnStepGrows
  <2>2. CASE b # a
    <3>1. Untouching(a) BY <1>1, <1>4, <2>2, StepFrame
    <3>2. a \notin known => a \notin known'
      BY <1>4, <2>2, OthersStayUnknown
    <3> QED BY <1>1, <3>1, <3>2 DEF Untouching, Grows, Announced
  <2> QED BY <2>1, <2>2
<1> QED BY <1>2, <1>3, <1>4 DEF Next

----------------------------------------------------------------------------
(* The page                                                                *)

(* A step that leaves the page of an analysis alone.                       *)
Unseen(a) ==
  /\ view'[a] = view[a] /\ finished'[a] = finished[a]
  /\ stream'[a] = stream[a] /\ asked'[a] = asked[a] /\ fetch'[a] = fetch[a]

(* What is known of a page survives whatever its session does.             *)
LEMMA PageFrame ==
  ASSUME NEW a \in Analyses, PageLocal(a), Grows(a), Unseen(a)
  PROVE  PageLocal(a)'
BY DEF PageLocal, Grows, Unseen

(* One more failure of the network, or none, stays within the bound.       *)
LEMMA DropsStayBounded ==
  ASSUME drops \in [Analyses -> 0..MaxDrops], NEW a \in Analyses,
         \/ drops' = drops
         \/ drops[a] < MaxDrops /\ drops' = [drops EXCEPT ![a] = @ + 1]
  PROVE  drops' \in [Analyses -> 0..MaxDrops]
<1>1. CASE drops' = drops BY <1>1
<1>2. CASE drops[a] < MaxDrops /\ drops' = [drops EXCEPT ![a] = @ + 1]
  <2>1. drops[a] + 1 \in 0..MaxDrops BY <1>2, PageAssumption
  <2> QED BY <1>2, <2>1
<1> QED BY <1>1, <1>2

(* So does the generator's index.                                          *)
LEMMA SentIsIndex ==
  ASSUME sent \in [Analyses -> Nat], NEW a \in Analyses,
         \/ sent' = sent
         \/ sent' = [sent EXCEPT ![a] = @ + 1]
  PROVE  sent' \in [Analyses -> Nat]
<1>1. CASE sent' = sent BY <1>1
<1>2. CASE sent' = [sent EXCEPT ![a] = @ + 1]
  <2>1. sent[a] + 1 \in Nat OBVIOUS
  <2> QED BY <1>2, <2>1
<1> QED BY <1>1, <1>2

(* The cursors of a page stay within a log that only grows.                *)
LEMMA PageTypeStep ==
  ASSUME IInv, PageTypeOK, [PageNext]_allVars
  PROVE  PageTypeOK'
<1>1. /\ view \in [Analyses -> Views]
      /\ finished \in [Analyses -> BOOLEAN]
      /\ stream \in [Analyses -> {"down", "open", "dead"}]
      /\ gen \in [Analyses -> {"drain", "check"}]
      /\ sent \in [Analyses -> Nat] /\ recv \in [Analyses -> Nat]
      /\ fetch \in [Analyses -> {"idle", "asked", "ended", "succeeded", "failed"}]
      /\ asked \in [Analyses -> Nat]
      /\ drops \in [Analyses -> 0..MaxDrops]
  BY DEF PageTypeOK
<1> USE <1>1, PageAssumption DEF Show, Views, Outcomes
<1>C. \A a \in Analyses :
        /\ Len(events[a]) \in Nat
        /\ recv[a] <= sent[a] /\ sent[a] <= Len(events[a])
  BY LenProperties DEF IInv, TypeOK, PageTypeOK
<1>2. \A a \in Analyses :
        Len(events'[a]) \in Nat /\ Len(events[a]) <= Len(events'[a])
  <2>1. IInv' BY PageStepIsSessionStep, IInvStep
  <2>2. \A a \in Analyses : Len(events'[a]) \in Nat
    BY <2>1, LenProperties DEF IInv, TypeOK
  <2> QED BY <2>2, PageStepIsSessionStep, SessionGrows DEF Grows
<1>3. CASE UNCHANGED pageVars
  <2>1. UNCHANGED <<view, finished, stream, gen, sent, recv, fetch, asked, drops>>
    BY <1>3 DEF pageVars
  <2>2. ASSUME NEW a \in Analyses
        PROVE  recv'[a] <= sent'[a] /\ sent'[a] <= Len(events'[a])
    <3>1. recv[a] \in Nat /\ sent[a] \in Nat
      BY <1>1
    <3> HIDE <1>1
    <3> QED BY <1>C, <1>2, <2>1, <3>1
  <2> QED BY <2>1, <2>2 DEF PageTypeOK
<1>4. CASE RestartServer
  <2>1. /\ UNCHANGED <<finished, gen, sent, recv, asked, drops>>
        /\ fetch' = [a \in Analyses |-> "idle"]
    BY <1>4 DEF RestartServer
  <2>2. stream' \in [Analyses -> {"down", "open", "dead"}]
    BY <1>4 DEF RestartServer
  <2>3. view' \in [Analyses -> Views]
    BY <1>4 DEF RestartServer
  <2>4. ASSUME NEW a \in Analyses
        PROVE  recv'[a] <= sent'[a] /\ sent'[a] <= Len(events'[a])
    <3>1. recv[a] \in Nat /\ sent[a] \in Nat
      BY <1>1
    <3> HIDE <1>1
    <3> QED BY <1>C, <1>2, <2>1, <3>1
  <2> QED BY <2>1, <2>2, <2>3, <2>4 DEF PageTypeOK
<1>5. ASSUME NEW a \in Analyses, Page(a)
      PROVE  PageTypeOK'
  <2>1. UNCHANGED <<events, sent, recv, gen, fetch, asked, drops>>
    BY <1>5 DEF Page, OpenPage, StallAbort, Unmount, Reset, vars, memory
  <2>2. /\ view' \in [Analyses -> Views]
        /\ finished' \in [Analyses -> BOOLEAN]
        /\ stream' \in [Analyses -> {"down", "open", "dead"}]
    BY <1>5 DEF Page, OpenPage, StallAbort, Unmount, Reset
  <2> QED BY <2>1, <2>2 DEF PageTypeOK
<1>6. ASSUME NEW a \in Analyses, ConnectStream(a)
      PROVE  PageTypeOK'
  <2>1. UNCHANGED <<events, view, finished, fetch, asked, drops>>
    BY <1>6 DEF ConnectStream, vars, memory
  <2>2. stream' \in [Analyses -> {"down", "open", "dead"}]
    BY <1>6 DEF ConnectStream
  <2>3. \/ UNCHANGED <<gen, sent, recv>>
        \/ /\ gen' = [gen EXCEPT ![a] = "drain"]
           /\ sent' = [sent EXCEPT ![a] = 0] /\ recv' = [recv EXCEPT ![a] = 0]
    BY <1>6 DEF ConnectStream
  <2>4. /\ gen' \in [Analyses -> {"drain", "check"}]
        /\ sent' \in [Analyses -> Nat] /\ recv' \in [Analyses -> Nat]
    <3>1. CASE UNCHANGED <<gen, sent, recv>>
      BY <3>1
    <3>2. CASE /\ gen' = [gen EXCEPT ![a] = "drain"]
               /\ sent' = [sent EXCEPT ![a] = 0]
               /\ recv' = [recv EXCEPT ![a] = 0]
      BY <3>2
    <3> QED BY <2>3, <3>1, <3>2
  <2>5. \A b \in Analyses : recv'[b] <= sent'[b] /\ sent'[b] <= Len(events'[b])
    BY <1>C, <2>1, <2>3
  <2> QED BY <2>1, <2>2, <2>4, <2>5 DEF PageTypeOK
<1>7. ASSUME NEW a \in Analyses, HandleEvent(a)
      PROVE  PageTypeOK'
  <2>1. UNCHANGED <<events, sent, stream, gen, drops>>
        /\ recv' = [recv EXCEPT ![a] = @ + 1] /\ recv[a] < sent[a]
    BY <1>7, Zenon DEF HandleEvent, vars, memory
  <2>2. \/ UNCHANGED <<view, finished, fetch, asked>>
        \/ /\ finished' = [finished EXCEPT ![a] = TRUE]
           /\ \/ /\ fetch' = [fetch EXCEPT ![a] = "asked"]
                 /\ asked' = [asked EXCEPT ![a] = @ + 1]
                 /\ UNCHANGED view
              \/ /\ view' = [view EXCEPT ![a] = "failed"]
                 /\ UNCHANGED <<fetch, asked>>
    BY <1>7 DEF HandleEvent
  <2>3. \A b \in Analyses : recv'[b] <= sent'[b] /\ sent'[b] <= Len(events'[b])
    BY <1>C, <2>1
  <2>4. /\ sent' \in [Analyses -> Nat] /\ recv' \in [Analyses -> Nat]
        /\ stream' \in [Analyses -> {"down", "open", "dead"}]
        /\ gen' \in [Analyses -> {"drain", "check"}]
        /\ drops' \in [Analyses -> 0..MaxDrops]
    BY <2>1
  <2>5. /\ view' \in [Analyses -> Views]
        /\ finished' \in [Analyses -> BOOLEAN]
        /\ fetch' \in [Analyses -> {"idle", "asked", "ended", "succeeded", "failed"}]
        /\ asked' \in [Analyses -> Nat]
    <3>1. CASE UNCHANGED <<view, finished, fetch, asked>>
      BY <3>1
    <3>2. CASE finished' = [finished EXCEPT ![a] = TRUE]
               /\ fetch' = [fetch EXCEPT ![a] = "asked"]
               /\ asked' = [asked EXCEPT ![a] = @ + 1] /\ view' = view
      BY <3>2
    <3>3. CASE finished' = [finished EXCEPT ![a] = TRUE]
               /\ view' = [view EXCEPT ![a] = "failed"]
               /\ fetch' = fetch /\ asked' = asked
      BY <3>3
    <3> QED BY <2>2, <3>1, <3>2, <3>3
  <2> QED BY <2>3, <2>4, <2>5 DEF PageTypeOK
<1>8. ASSUME NEW a \in Analyses, Drain(a) \/ CheckStatus(a) \/ Drop(a)
      PROVE  PageTypeOK'
  <2>1. UNCHANGED <<events, view, finished, recv, fetch, asked>>
    BY <1>8 DEF Drain, CheckStatus, Drop, vars, memory
  <2>2. /\ stream' \in [Analyses -> {"down", "open", "dead"}]
        /\ gen' \in [Analyses -> {"drain", "check"}]
    BY <1>8 DEF Drain, CheckStatus, Drop
  <2>3. drops' \in [Analyses -> 0..MaxDrops]
    <3>1. \/ drops' = drops
          \/ drops[a] < MaxDrops /\ drops' = [drops EXCEPT ![a] = @ + 1]
      BY <1>8, Zenon DEF Drain, CheckStatus, Drop
    <3> QED BY <3>1, DropsStayBounded
  <2>4. \/ sent' = sent
        \/ sent[a] < Len(events[a]) /\ sent' = [sent EXCEPT ![a] = @ + 1]
    BY <1>8 DEF Drain, CheckStatus, Drop
  <2>5. /\ sent' \in [Analyses -> Nat]
        /\ \A b \in Analyses : recv'[b] <= sent'[b] /\ sent'[b] <= Len(events'[b])
    <3>1. CASE sent' = sent
      <4>1. sent' \in [Analyses -> Nat]
        BY <3>1
      <4>2. \A b \in Analyses : recv'[b] <= sent'[b] /\ sent'[b] <= Len(events'[b])
        BY <1>C, <2>1, <3>1
      <4> QED BY <4>1, <4>2
    <3>2. CASE sent[a] < Len(events[a]) /\ sent' = [sent EXCEPT ![a] = @ + 1]
      <4>1. sent' \in [Analyses -> Nat]
        BY <3>2, SentIsIndex
      <4>2. ASSUME NEW b \in Analyses
            PROVE  recv'[b] <= sent'[b] /\ sent'[b] <= Len(events'[b])
        BY <1>C, <2>1, <3>2
      <4> QED BY <4>1, <4>2
    <3> QED BY <2>4, <3>1, <3>2
  <2> QED BY <2>1, <2>2, <2>3, <2>5 DEF PageTypeOK
<1>9. ASSUME NEW a \in Analyses, GetReport(a) \/ LoseReport(a)
      PROVE  PageTypeOK'
  <2>1. UNCHANGED <<events, finished, stream, gen, sent, recv, asked>>
    BY <1>9 DEF GetReport, FirstStatusRead, SecondStatusRead, LastRead,
                LoseReport, vars, memory
  <2>2. \/ view' = view
        \/ \E v \in Outcomes : view' = [view EXCEPT ![a] = v]
    BY <1>9 DEF GetReport, FirstStatusRead, SecondStatusRead, LastRead,
                LoseReport, Answer, Proceed
  <2>3. \E f \in {"idle", "asked", "ended", "succeeded", "failed"} :
          fetch' = [fetch EXCEPT ![a] = f]
    BY <1>9 DEF GetReport, FirstStatusRead, SecondStatusRead, LastRead,
                LoseReport, Answer, Proceed
  <2>4. drops' \in [Analyses -> 0..MaxDrops]
    <3>1. \/ drops' = drops
          \/ drops[a] < MaxDrops /\ drops' = [drops EXCEPT ![a] = @ + 1]
      BY <1>9, Zenon DEF GetReport, FirstStatusRead, SecondStatusRead,
                         LastRead, LoseReport
    <3> QED BY <3>1, DropsStayBounded
  <2>5. view' \in [Analyses -> Views] BY <2>2
  <2>6. fetch' \in [Analyses -> {"idle", "asked", "ended", "succeeded", "failed"}] BY <2>3
  <2> QED BY <2>1, <2>4, <2>5, <2>6 DEF PageTypeOK
<1> HIDE <1>1
<1> QED
  BY <1>3, <1>4, <1>5, <1>6, <1>7, <1>8, <1>9
  DEF PageNext, Subscription, allVars

(* What the handler of GET /report has read so far: the page asks after    *)
(* COMPLETED only, so the session is not RUNNING, and unless it failed it  *)
(* holds its report.                                                       *)
LEMMA AskedAfterTheEnd ==
  ASSUME IInv, NEW a \in Analyses, Announced(a, Completed)
  PROVE  /\ status[a] # "RUNNING"
         /\ status[a] # "FAILED" => report[a]
BY DEF IInv, TypeOK, Statuses, Local, LogByPlace, StatusByPlace

(* A step of the page of one analysis, or of its connection.               *)
PageStep(a) == Page(a) \/ Subscription(a) \/ GetReport(a) \/ Drop(a) \/ LoseReport(a)

(* It is the page of that analysis only.                                   *)
LEMMA PageStepFrame ==
  ASSUME PageTypeOK, NEW a \in Analyses, PageStep(a),
         NEW b \in Analyses, b # a
  PROVE  Unseen(b)
<1> USE DEF PageTypeOK, Unseen, Show
<1>1. CASE Page(a)
  BY <1>1 DEF Page, OpenPage, StallAbort, Unmount, Reset
<1>2. CASE ConnectStream(a) \/ Drain(a) \/ CheckStatus(a) \/ Drop(a)
  BY <1>2 DEF ConnectStream, Drain, CheckStatus, Drop
<1>3. CASE HandleEvent(a)
  BY <1>3 DEF HandleEvent
<1>4. CASE GetReport(a) \/ LoseReport(a)
  BY <1>4 DEF GetReport, FirstStatusRead, SecondStatusRead, LastRead,
              LoseReport, Answer, Proceed
<1> QED BY <1>1, <1>2, <1>3, <1>4 DEF PageStep, Subscription

(* What it does to its own page.                                           *)
LEMMA OwnPageStep ==
  ASSUME IInv, PageInv, NEW a \in Analyses, PageStep(a)
  PROVE  PageLocal(a)'
<1> USE DEF PageInv, PageTypeOK, PageLocal, Show
<1>1. /\ UNCHANGED <<pc, known, report>>
      /\ \A e : Announced(a, e)' <=> Announced(a, e)
  <2>1. UNCHANGED vars
    BY DEF PageStep, Page, OpenPage, StallAbort, Unmount, Reset, Subscription,
           ConnectStream, HandleEvent, Drain, CheckStatus, Drop, GetReport,
           FirstStatusRead, SecondStatusRead, LastRead, LoseReport
  <2> QED BY <2>1 DEF vars, memory, Announced
<1>2. CASE OpenPage(a)
  BY <1>1, <1>2 DEF OpenPage, Finished, InThread, InTry, InExcept, InFinally
<1>3. CASE StallAbort(a)
  BY <1>1, <1>3 DEF StallAbort
<1>4. CASE Unmount(a) \/ Reset(a)
  BY <1>1, <1>4 DEF Unmount, Reset, Outcomes
<1>5. CASE ConnectStream(a) \/ Drain(a) \/ CheckStatus(a) \/ Drop(a)
  BY <1>1, <1>5 DEF ConnectStream, Drain, CheckStatus, Drop
<1>6. CASE HandleEvent(a)
  <2>1. view[a] # "connect" /\ recv[a] + 1 \in DOMAIN events[a]
    <3>1. recv[a] < sent[a] /\ sent[a] <= Len(events[a]) /\ stream[a] = "open"
      BY <1>6 DEF HandleEvent
    <3>2. Len(events[a]) \in Nat /\ DOMAIN events[a] = 1..Len(events[a])
      BY LenProperties DEF IInv, TypeOK
    <3> QED BY <3>1, <3>2
  <2>2. Announced(a, events[a][recv[a] + 1])
    BY <2>1 DEF Announced
  <2>3. CASE ~finished[a] /\ events[a][recv[a] + 1] = Completed
    BY <1>1, <1>6, <2>1, <2>2, <2>3 DEF HandleEvent
  <2>4. CASE ~finished[a] /\ events[a][recv[a] + 1] = Failed
    <3>1. Completed # Failed BY EventsDiffer
    <3> QED BY <1>1, <1>6, <2>1, <2>2, <2>4, <3>1 DEF HandleEvent
  <2>5. CASE finished[a] \/ events[a][recv[a] + 1] \notin {Completed, Failed}
    BY <1>1, <1>6, <2>1, <2>5 DEF HandleEvent
  <2> QED BY <2>3, <2>4, <2>5
<1>7. CASE FirstStatusRead(a)
  BY <1>1, <1>7, AskedAfterTheEnd DEF FirstStatusRead, Answer, Proceed
<1>8. CASE SecondStatusRead(a)
  BY <1>1, <1>8, AskedAfterTheEnd DEF SecondStatusRead, Proceed
<1>9. CASE LastRead(a)
  BY <1>1, <1>9 DEF LastRead, Answer
<1>10. CASE LoseReport(a)
  BY <1>1, <1>10 DEF LoseReport, Answer
<1> QED
  BY <1>2, <1>3, <1>4, <1>5, <1>6, <1>7, <1>8, <1>9, <1>10
  DEF PageStep, Page, Subscription, GetReport

(* No analysis has a page before its id was returned.                      *)
LEMMA InitPage == Init /\ PageInit => PageInv
<1> SUFFICES ASSUME Init, PageInit PROVE PageInv
  OBVIOUS
<1>1. PageTypeOK
  <2>1. \A a \in Analyses : events[a] = <<>>
    BY DEF Init
  <2> QED BY <2>1, PageAssumption DEF PageInit, PageTypeOK, Views
<1>2. \A a \in Analyses : PageLocal(a)
  BY DEF PageInit, PageLocal
<1> QED BY <1>1, <1>2 DEF PageInv

(* A restart refuses the requests under way, and takes their sessions.     *)
LEMMA RestartKeepsPage ==
  ASSUME IInv, PageInv, RestartServer, NEW a \in Analyses
  PROVE  PageLocal(a)'
<1>1. Grows(a)
  BY SessionGrows DEF RestartServer, Next
<1>2. known' = {}
  BY DEF RestartServer, Restart
<1>3. /\ stream'[a] = IF stream[a] = "open" THEN "down" ELSE stream[a]
      /\ view'[a] = IF fetch[a] # "idle" THEN "refused" ELSE view[a]
      /\ fetch'[a] = "idle" /\ finished'[a] = finished[a] /\ asked'[a] = asked[a]
  BY DEF RestartServer
<1>4. PageLocal(a)
  BY DEF PageInv
<1> QED BY <1>1, <1>2, <1>3, <1>4 DEF PageLocal, Grows

(* Every step of the session, of the page and of the network keeps the     *)
(* invariant of the page.                                                  *)
LEMMA PageInvStep == IInv /\ PageInv /\ [PageNext]_allVars => PageInv'
<1> SUFFICES ASSUME IInv, PageInv, [PageNext]_allVars PROVE PageInv'
  OBVIOUS
<1>1. PageTypeOK'
  BY PageTypeStep DEF PageInv
<1>2. ASSUME NEW a \in Analyses
      PROVE  PageLocal(a) /\ Grows(a)
  BY PageStepIsSessionStep, SessionGrows DEF PageInv
<1>3. CASE UNCHANGED pageVars
  BY <1>1, <1>2, <1>3, PageFrame DEF PageInv, Unseen, pageVars
<1>4. CASE RestartServer
  BY <1>1, <1>4, RestartKeepsPage DEF PageInv
<1>5. ASSUME NEW a \in Analyses, PageStep(a)
      PROVE  PageInv'
  <2>1. PageLocal(a)'
    BY <1>5, OwnPageStep
  <2>2. ASSUME NEW b \in Analyses, b # a
        PROVE  PageLocal(b)'
    BY <1>2, <1>5, <2>2, PageStepFrame, PageFrame DEF PageInv
  <2> QED BY <1>1, <2>1, <2>2 DEF PageInv
<1> QED BY <1>3, <1>4, <1>5 DEF PageNext, PageStep, allVars

(* What a page that has ended may still become.                            *)
LEMMA EndedPageStep ==
  ASSUME PageInv, [PageNext]_allVars, NEW a \in Analyses,
         view[a] \in Outcomes \cup {"left"}
  PROVE  view'[a] \in {view[a], "left"}
<1>1. finished[a] /\ fetch[a] = "idle" /\ view[a] \notin {"connect", "progress"}
  BY DEF PageInv, PageLocal, Outcomes
<1>2. PageTypeOK
  BY DEF PageInv
<1>3. CASE UNCHANGED pageVars
  BY <1>3 DEF pageVars
<1>4. CASE RestartServer
  BY <1>1, <1>4 DEF RestartServer
<1>5. ASSUME NEW b \in Analyses, b # a, PageStep(b)
      PROVE  view'[a] = view[a]
  BY <1>2, <1>5, PageStepFrame DEF Unseen
<1>6. CASE Page(a)
  BY <1>1, <1>2, <1>6
  DEF Page, OpenPage, StallAbort, Unmount, Reset, Show, PageTypeOK
<1>7. CASE Subscription(a)
  BY <1>1, <1>7
  DEF Subscription, ConnectStream, HandleEvent, Drain, CheckStatus
<1>8. CASE GetReport(a)
  BY <1>1, <1>8 DEF GetReport, FirstStatusRead, SecondStatusRead, LastRead
<1>9. CASE Drop(a) \/ LoseReport(a)
  BY <1>1, <1>9 DEF Drop, LoseReport
<1> QED
  BY <1>3, <1>4, <1>5, <1>6, <1>7, <1>8, <1>9 DEF PageNext, PageStep, allVars

----------------------------------------------------------------------------
(* A session with a page keeps all that was proved of the session alone:   *)
(* watching a run does not disturb it.                                     *)
THEOREM PageUsesSession == PageSpec => Spec
BY PageStepIsSessionStep, PTL DEF PageSpec, Spec

(* In every reachable state, under every fault and cut, what a page shows  *)
(* tells what it has read of its session.                                  *)
THEOREM PageInvariance == PageSpec => []PageInv
<1>1. PageSpec => []IInv
  BY PageUsesSession, Invariance, PTL
<1> QED
  BY <1>1, InitPage, PageInvStep, PTL DEF PageSpec

(* The page's variables keep their types, and its cursors stay within the  *)
(* log (routes.py:81-87).                                                  *)
THEOREM PageTypeCorrect == PageSpec => []PageTypeOK
<1>1. PageInv => PageTypeOK BY DEF PageInv
<1> QED BY <1>1, PageInvariance, PTL

(* No page that was told COMPLETED meets a session still RUNNING or one    *)
(* without its report (routes.py:104-114); only a restart refuses it.      *)
THEOREM ToldMeansReady == PageSpec => []ReportReadyWhenTold
<1>1. PageInv => ReportReadyWhenTold
  BY DEF PageInv, PageLocal, ReportReadyWhenTold
<1> QED BY <1>1, PageInvariance, PTL

(* finishedRef keeps any number of replays from asking twice               *)
(* (AnalysisProgressPage.tsx).                                             *)
THEOREM ReportAskedOnce == PageSpec => []AskedOnce
<1>1. PageInv => AskedOnce
  BY DEF PageInv, PageLocal, AskedOnce
<1> QED BY <1>1, PageInvariance, PTL

(* A page that shows FAILED or a report shows what its session holds.      *)
THEOREM PageIsTruthful == PageSpec => []PageTellsTheTruth
<1>1. PageSpec => []IInv
  BY PageUsesSession, Invariance, PTL
<1>2. IInv /\ PageInv => PageTellsTheTruth
  BY DEF IInv, Local, LogByPlace, PageInv, PageLocal, PageTellsTheTruth
<1> QED BY <1>1, <1>2, PageInvariance, PTL

(* No late event, answer, timer or restart replaces the outcome that a     *)
(* page has shown.                                                         *)
THEOREM OutcomeStays == PageSpec => OutcomeIsFinal
<1>1. PageInv /\ [PageNext]_allVars =>
        [\A a \in Analyses :
           view[a] \in Outcomes \cup {"left"} => view'[a] \in {view[a], "left"}]_allVars
  BY EndedPageStep
<1> QED BY <1>1, PageInvariance, PTL DEF PageSpec, OutcomeIsFinal
=============================================================================
