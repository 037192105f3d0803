-------------------------- MODULE StallTimerProofs --------------------------
(***************************************************************************)
(* The timeouts of RealMCPClient fit together for every choice of limits,  *)
(* as long as the caller waits a little longer than the loop.  The client  *)
(* inside a run is the client of McpClient, so what is proved of it here   *)
(* holds there; and the page is patient enough for any script and any      *)
(* limits that PatienceAssumption allows.                                  *)
(***************************************************************************)
EXTENDS StallTimer, FiniteSetTheorems, TLAPS

----------------------------------------------------------------------------
(* RealMCPClient                                                           *)

(* The constructor has just started the thread.                            *)
LEMMA InitIInv == Init => IInv
<1> SUFFICES ASSUME Init PROVE IInv
  OBVIOUS
<1> USE LimitsAssumption DEF Init
<1>1. TypeOK
  <2>1. requests \in Seq(CallIds \cup {Close})
    OBVIOUS
  <2>2. /\ answer \in [CallIds -> {"none", "result", "exception"}]
        /\ outcome \in [CallIds -> {"none", "result", "exception", "timeout"}]
    OBVIOUS
  <2>3. issued \in 0..Calls /\ left \in Nat /\ wait \in Nat
    OBVIOUS
  <2>4. ready \in BOOLEAN /\ refused \in BOOLEAN /\ broken \in BOOLEAN
    OBVIOUS
  <2> QED
    BY <2>1, <2>2, <2>3, <2>4 DEF TypeOK, Waiting
<1>2. LoopFacts
  BY DEF LoopFacts
<1>3. CallerFacts
  BY DEF CallerFacts
<1>4. FutureFacts
  BY DEF FutureFacts
<1> QED
  BY <1>1, <1>2, <1>3, <1>4 DEF IInv

(* A step of the background thread keeps the invariant.                    *)
LEMMA LoopKeeps ==
  ASSUME IInv, LoopStep
  PROVE  IInv'
<1> USE LimitsAssumption
    DEF IInv, TypeOK, LoopFacts, CallerFacts, FutureFacts, Pending, CallIds,
        Close, Waiting, Gone, callerVars
<1>1. CASE Spawn BY <1>1 DEF Spawn
<1>2. CASE Connect BY <1>2 DEF Connect
<1>3. CASE ConnectFails BY <1>3 DEF ConnectFails
<1>4. CASE Leave BY <1>4 DEF Leave
<1>5. CASE Dequeue
  <2> USE <1>5 DEF Dequeue
  <2>1. /\ Head(requests) \in 0..Calls
        /\ requests' \in Seq(CallIds \cup {Close})
    OBVIOUS
  <2>2. TypeOK'
    BY <2>1
  <2>3. ASSUME loop' = "calling"
        PROVE  /\ caller = "waiting" /\ answer[issued] = "none"
               /\ requests = <<issued>> /\ wait = CallLimit + Slack
    BY <2>3
  <2>4. LoopFacts'
    BY <2>3
  <2>5. CallerFacts'
    BY <2>3
  <2>6. FutureFacts'
    OBVIOUS
  <2> QED
    BY <2>2, <2>4, <2>5, <2>6
<1>6. CASE Answer BY <1>6 DEF Answer
<1>7. CASE CallTimesOut BY <1>7 DEF CallTimesOut
<1>8. CASE Break BY <1>8 DEF Break
<1> QED
  BY <1>1, <1>2, <1>3, <1>4, <1>5, <1>6, <1>7, <1>8 DEF LoopStep

(* A step of the worker thread keeps the invariant.                        *)
LEMMA CallerKeeps ==
  ASSUME IInv, CallerStep
  PROVE  IInv'
<1> USE LimitsAssumption
    DEF IInv, TypeOK, LoopFacts, CallerFacts, FutureFacts, Pending, CallIds,
        Close, Waiting, Gone, loopVars
<1>1. CASE Constructed BY <1>1 DEF Constructed
<1>2. CASE ConstructorTimesOut BY <1>2 DEF ConstructorTimesOut
<1>3. CASE CallKubectl
  <2> USE <1>3 DEF CallKubectl
  <2>1. issued' \in CallIds /\ requests' \in Seq(CallIds \cup {Close})
    OBVIOUS
  <2>2. TypeOK'
    BY <2>1
  <2>3. ~broken => loop = "waiting" /\ requests' = <<issued'>>
    OBVIOUS
  <2>4. LoopFacts'
    BY <2>3
  <2>5. CallerFacts'
    BY <2>1, <2>3
  <2>6. FutureFacts'
    OBVIOUS
  <2> QED
    BY <2>2, <2>4, <2>5, <2>6
<1>4. CASE Return BY <1>4 DEF Return
<1>5. CASE GiveUp BY <1>5 DEF GiveUp
<1>6. CASE StartClose
  <2> USE <1>6 DEF StartClose
  <2>1. requests' \in Seq(CallIds \cup {Close})
    OBVIOUS
  <2>2. ~broken => requests' = <<Close>>
    OBVIOUS
  <2>3. LoopFacts'
    OBVIOUS
  <2>4. CallerFacts'
    BY <2>2
  <2> QED
    BY <2>1, <2>3, <2>4
<1>7. CASE Joined BY <1>7 DEF Joined
<1> QED
  BY <1>1, <1>2, <1>3, <1>4, <1>5, <1>6, <1>7 DEF CallerStep

(* Time passes for both sides alike, so the caller keeps its head start.   *)
LEMMA TickKeeps ==
  ASSUME IInv, Tick
  PROVE  IInv'
<1> USE LimitsAssumption
    DEF IInv, TypeOK, LoopFacts, CallerFacts, FutureFacts, CallIds, Close,
        Waiting, Gone, Tick, LessOne
<1>1. TypeOK'
  OBVIOUS
<1>2. LoopFacts'
  OBVIOUS
<1>3. Pending => Pending'
  <2>1. CASE loop = "waiting" /\ requests = <<issued>>
    BY <2>1 DEF Urgent
  <2>2. CASE loop = "calling" /\ left + Slack <= wait
    BY <2>2 DEF Urgent, Pending
  <2> QED
    BY <2>1, <2>2 DEF Pending
<1>4. CallerFacts'
  BY <1>3
<1>5. FutureFacts'
  OBVIOUS
<1> QED
  BY <1>1, <1>2, <1>4, <1>5

(* Every step keeps the invariant.                                         *)
LEMMA StepIInv == IInv /\ [Next]_vars => IInv'
<1> SUFFICES ASSUME IInv, [Next]_vars PROVE IInv'
  OBVIOUS
<1>1. CASE LoopStep BY <1>1, LoopKeeps
<1>2. CASE CallerStep BY <1>2, CallerKeeps
<1>3. CASE Tick BY <1>3, TickKeeps
<1>4. CASE UNCHANGED vars
  BY <1>4
  DEF vars, loopVars, callerVars, IInv, TypeOK, LoopFacts, CallerFacts,
      FutureFacts, Pending
<1> QED
  BY <1>1, <1>2, <1>3, <1>4 DEF Next

(* The inductive invariant holds in every state, for any number of calls   *)
(* and any limits.                                                         *)
THEOREM Invariance == Spec => []IInv
BY InitIInv, StepIInv, PTL DEF Spec

(* Type correctness of the client.                                         *)
THEOREM TypeCorrect == Spec => []TypeOK
<1>1. IInv => TypeOK
  BY DEF IInv
<1> QED
  BY <1>1, Invariance, PTL

(* A caller times out only on a loop whose scope was cancelled: the        *)
(* 5 seconds it waits beyond the limit of the loop are enough, whatever    *)
(* that limit is.                                                          *)
THEOREM TimeoutMeansBroken == Spec => []GivesUpOnlyOnBroken
<1>1. IInv => GivesUpOnlyOnBroken
  BY DEF IInv, FutureFacts, GivesUpOnlyOnBroken
<1> QED
  BY <1>1, Invariance, PTL

(* No Future is completed after its caller gave up.                        *)
THEOREM NoAnswerTooLate == Spec => []NoLateAnswer
<1>1. IInv => NoLateAnswer
  BY DEF IInv, FutureFacts, NoLateAnswer
<1> QED
  BY <1>1, Invariance, PTL

(* A thread that outlives its caller is between two calls: this needs that *)
(* the loop gives up on a call before its caller does (Pending), that      *)
(* close() comes after the last answer and that a broken loop serves no    *)
(* request it still finds in the queue.                                    *)
THEOREM CallsHaveCallers == Spec => []NoCallForNobody
<1>1. IInv => NoCallForNobody
  BY DEF IInv, LoopFacts, NoCallForNobody
<1> QED
  BY <1>1, Invariance, PTL

----------------------------------------------------------------------------
(* The client inside a run                                                 *)

(* Every step of the run, the page and the clock is a step of the client,  *)
(* or one the client does not see.                                         *)
LEMMA StepIsClientStep == [TimedNext]_timedVars => [Next]_vars
<1> SUFFICES ASSUME [TimedNext]_timedVars PROVE [Next]_vars
  OBVIOUS
<1> USE DEF Next, CallerStep
<1>1. CASE Pass BY <1>1 DEF Pass
<1>2. CASE StallAbort BY <1>2 DEF StallAbort
<1>3. CASE EndConstruction BY <1>3 DEF EndConstruction
<1>4. CASE StartCall BY <1>4 DEF StartCall
<1>5. CASE EndCall BY <1>5 DEF EndCall
<1>6. CASE StartAside BY <1>6 DEF StartAside
<1>7. CASE EndAside BY <1>7 DEF EndAside
<1>8. CASE Emit BY <1>8 DEF Emit
<1>9. CASE Complete BY <1>9 DEF Complete
<1>10. CASE CloseClient BY <1>10 DEF CloseClient
<1>11. CASE Unnoticed(LoopStep) BY <1>11 DEF Unnoticed
<1>12. CASE Unnoticed(Joined) BY <1>12 DEF Unnoticed
<1>13. CASE UNCHANGED timedVars BY <1>13 DEF timedVars
<1> QED
  BY <1>1, <1>2, <1>3, <1>4, <1>5, <1>6, <1>7, <1>8, <1>9, <1>10, <1>11,
     <1>12, <1>13 DEF TimedNext

(* A run with its page implements the client: run_analysis calls it only   *)
(* in ways its specification allows.                                       *)
THEOREM RunUsesClient == TimedSpec => Spec
<1>1. TimedInit => Init
  BY DEF TimedInit
<1> QED
  BY <1>1, StepIsClientStep, PTL DEF TimedSpec, Spec

(* Inside a run, too, a caller times out only on a loop whose scope was    *)
(* cancelled.                                                              *)
THEOREM TimeoutInRunMeansBroken == TimedSpec => []GivesUpOnlyOnBroken
BY RunUsesClient, TimeoutMeansBroken, PTL

----------------------------------------------------------------------------
(* The page                                                                *)

(* The longest limit is a number, and no limit is longer.                  *)
LEMMA LongestBounds ==
  /\ Longest \in Nat
  /\ ConnectLimit + Slack <= Longest
  /\ CallLimit + Slack <= Longest
  /\ ScanLimit <= Longest
  /\ LlmLimit <= Longest
<1>1. Limits \subseteq Nat
  BY LimitsAssumption, ScriptAssumption DEF Limits
<1>2. \A p, q, r, s \in Nat :
        \E d \in {p, q, r, s} : p <= d /\ q <= d /\ r <= d /\ s <= d
  OBVIOUS
<1>3. \E d \in Limits : \A e \in Limits : e <= d
  BY <1>2, LimitsAssumption, ScriptAssumption DEF Limits
<1>4. Longest \in Limits /\ \A e \in Limits : e <= Longest
  BY <1>3 DEF Longest
<1> QED
  BY <1>1, <1>4 DEF Limits

(* A product of natural numbers is one.                                    *)
LEMMA ProductIsNat == \A c, d \in Nat : c * d \in Nat
OBVIOUS

(* One more step makes one more limit.                                     *)
LEMMA OneMore == \A c, d \in Nat : (c + 1) * d = c * d + d
OBVIOUS

(* A silence that is longer than so many steps took more of them.          *)
LEMMA LongerTakesMore ==
  \A b, c, d, m, n \in Nat : b * d < m /\ m <= n /\ n <= c * d => b < c
<1> SUFFICES ASSUME NEW b \in Nat, NEW c \in Nat, NEW d \in Nat,
                    NEW m \in Nat, NEW n \in Nat,
                    b * d < m, m <= n, n <= c * d, c <= b
             PROVE  FALSE
  OBVIOUS
<1>1. b - c \in Nat /\ b * d = c * d + (b - c) * d
  OBVIOUS
<1>2. b * d \in Nat /\ c * d \in Nat /\ (b - c) * d \in Nat
  BY <1>1, ProductIsNat
<1> QED
  BY <1>1, <1>2

(* The run has just begun to connect.                                      *)
LEMMA InitTimed == TimedInit => TimedInv
<1> SUFFICES ASSUME TimedInit PROVE TimedInv
  OBVIOUS
<1> USE DEF TimedInit, Init
<1>1. IsFiniteSet(waits)
  BY FS_EmptySet
<1>2. ConnectLimit + Slack <= Longest /\ Longest \in Nat
  BY LongestBounds
<1>3. RunFacts
  BY <1>1 DEF RunFacts
<1>4. Budget
  <2>1. Cardinality(waits) = 0
    BY FS_EmptySet
  <2> QED
    BY <2>1, <1>2 DEF Budget, Rest, UnderWay
<1>5. GivesUpOnlyOnSlowSteps
  BY DEF GivesUpOnlyOnSlowSteps
<1> QED
  BY <1>3, <1>4, <1>5 DEF TimedInv

(* Time passes: one more step may have been seen to take time, and its     *)
(* budget covers what is left of it.                                       *)
LEMMA PassKeeps ==
  ASSUME TypeOK, TimedInv, Pass
  PROVE  TimedInv'
<1> USE DEF TimedInv
<1> DEFINE C == Cardinality(waits)
<1>1. /\ wait \in Nat /\ Longest \in Nat /\ C \in Nat
      /\ spare \in Nat /\ silence \in Nat /\ at \in Nat
  BY LongestBounds, FS_CardinalityType DEF TypeOK, RunFacts
<1>2. /\ UNCHANGED <<run, at, busy, page, caller>>
      /\ spare' = LessOne(spare) /\ wait' = LessOne(wait)
  BY DEF Pass, Tick
<1>3. CASE page # "watching"
  <2>1. UNCHANGED <<silence, waits>>
    BY <1>3 DEF Pass
  <2>2. RunFacts'
    BY <1>1, <1>2, <2>1 DEF RunFacts, LessOne
  <2> QED
    BY <1>2, <1>3, <2>1, <2>2 DEF Budget, GivesUpOnlyOnSlowSteps
<1>4. CASE page = "watching"
  <2>1. silence' = silence + 1 /\ waits' = waits \cup {at}
    BY <1>4 DEF Pass
  <2>2. run \in {"connecting", "running"}
    BY <1>4 DEF RunFacts
  <2>3. UnderWay
    BY <2>2 DEF UnderWay, Pass, Prompt, RunFacts
  <2>4. Rest \in Nat \ {0}
    BY <1>1, <2>2, <2>3
    DEF Rest, UnderWay, Pass, Prompt, Tick, Urgent, RunFacts
  <2>5. Rest' = Rest - 1
    BY <1>1, <1>2, <2>4 DEF Rest, LessOne
  <2>6. IsFiniteSet(waits')
        /\ Cardinality(waits') = IF at \in waits THEN C ELSE C + 1
    BY <2>1, FS_AddElement DEF RunFacts
  <2>7. RunFacts'
    <3>1. UnderWay => ~(run = "running" /\ caller = "idle" /\ ~busy)
      BY DEF UnderWay
    <3> QED
      BY <1>1, <1>2, <2>1, <2>3, <2>6, <3>1 DEF RunFacts, LessOne
  <2>8. Budget'
    <3>1. at' \in waits'
      BY <1>2, <2>1
    <3>2. CASE at \in waits
      <4>1. silence + Rest <= C * Longest
        BY <1>4, <3>2 DEF Budget
      <4>2. silence' + Rest' = silence + Rest
        BY <1>1, <2>1, <2>4, <2>5
      <4>3. Cardinality(waits') = C
        BY <2>6, <3>2
      <4> QED
        BY <3>1, <4>1, <4>2, <4>3 DEF Budget
    <3>3. CASE at \notin waits
      <4>1. silence <= C * Longest /\ Rest <= Longest
        BY <1>4, <2>3, <3>3 DEF Budget
      <4>2. C * Longest \in Nat
        BY <1>1
      <4>3. silence' + Rest' <= C * Longest + Longest
        BY <1>1, <2>1, <2>4, <2>5, <4>1, <4>2
      <4>4. Cardinality(waits') * Longest = C * Longest + Longest
        BY <1>1, <2>6, <3>3, OneMore
      <4> QED
        BY <3>1, <4>3, <4>4 DEF Budget
    <3> QED
      BY <3>2, <3>3
  <2>9. GivesUpOnlyOnSlowSteps'
    BY <1>2, <1>4 DEF GivesUpOnlyOnSlowSteps
  <2> QED
    BY <2>7, <2>8, <2>9
<1> QED
  BY <1>3, <1>4

(* Whatever the run is doing, its page has been silent for no longer than  *)
(* the steps it saw pass may last.                                         *)
LEMMA SilenceIsBounded ==
  ASSUME TypeOK, RunFacts, Budget, page = "watching"
  PROVE  silence <= Cardinality(waits) * Longest
<1>1. Cardinality(waits) * Longest \in Nat /\ silence \in Nat /\ Rest \in Nat
  <2>1. Cardinality(waits) \in Nat /\ Longest \in Nat
    BY LongestBounds, FS_CardinalityType DEF RunFacts
  <2> QED
    BY <2>1 DEF RunFacts, TypeOK, Rest
<1> QED
  BY <1>1 DEF Budget

(* The page gives up: so long a silence takes more than Patience steps.    *)
LEMMA StallAbortKeeps ==
  ASSUME TypeOK, TimedInv, StallAbort
  PROVE  TimedInv'
<1>1. /\ page = "watching" /\ silence >= AbortAfter /\ page' = "gave up"
      /\ UNCHANGED <<run, at, busy, spare, silence, waits, caller>>
  BY DEF StallAbort, vars, callerVars
<1>2. RunFacts'
  BY <1>1 DEF TimedInv, RunFacts
<1>3. Cardinality(waits) > Patience
  <2>1. Cardinality(waits) \in Nat /\ Longest \in Nat /\ Patience \in Nat
        /\ AbortAfter \in Nat /\ silence \in Nat
    BY LongestBounds, FS_CardinalityType, ScriptAssumption
    DEF TimedInv, RunFacts
  <2>2. silence <= Cardinality(waits) * Longest
    BY <1>1, SilenceIsBounded DEF TimedInv
  <2> QED
    BY <1>1, <2>1, <2>2, LongerTakesMore, PatienceAssumption
<1> QED
  BY <1>1, <1>2, <1>3 DEF TimedInv, Budget, GivesUpOnlyOnSlowSteps

(* The run begins a call, a scan or a summary: its limit is within one     *)
(* share of the budget.                                                    *)
LEMMA StartKeeps ==
  ASSUME TypeOK, TimedInv, StartCall \/ StartAside
  PROVE  TimedInv'
<1> USE DEF TimedInv
<1>1. UNCHANGED <<run, at, page, silence, waits>>
  BY DEF StartCall, StartAside, runVars
<1>2. run = "running" /\ caller = "idle" /\ ~busy
  BY DEF StartCall, StartAside, Doing
<1>3. at \notin waits
  BY <1>2 DEF RunFacts
<1>4. Rest' \in Nat /\ Rest' <= Longest /\ spare' \in Nat /\ busy' \in BOOLEAN
      /\ caller' \in {"idle", "waiting"} /\ (busy' => caller' = "idle")
      /\ (caller' = "idle" => busy')
  <2>1. CASE StartCall
    BY <1>2, <2>1, LongestBounds, LimitsAssumption
    DEF StartCall, CallKubectl, runVars, Rest, RunFacts
  <2>2. CASE StartAside
    BY <1>2, <2>2, LongestBounds, ScriptAssumption
    DEF StartAside, vars, callerVars, Rest
  <2> QED
    BY <2>1, <2>2
<1>5. RunFacts'
  BY <1>1, <1>2, <1>4 DEF RunFacts
<1>6. Budget'
  BY <1>1, <1>3, <1>4 DEF Budget
<1>7. GivesUpOnlyOnSlowSteps'
  BY <1>1 DEF GivesUpOnlyOnSlowSteps
<1> QED
  BY <1>5, <1>6, <1>7

(* The run goes on to the next step, in which no time has passed yet.      *)
LEMMA GoingOnKeeps ==
  ASSUME TypeOK, TimedInv, at' = at + 1,
         run' = "running", caller' = "idle", busy' = FALSE,
         spare' = spare, page' = page, silence' = silence, waits' = waits
  PROVE  TimedInv'
<1> USE DEF TimedInv
<1>1. at' \notin waits' /\ waits' \subseteq 0..at'
  BY DEF RunFacts
<1>2. RunFacts'
  <2>1. at' \in Nat /\ spare' \in Nat /\ silence' \in Nat
    BY DEF RunFacts
  <2>2. IsFiniteSet(waits')
    BY DEF RunFacts
  <2>3. busy' \in BOOLEAN /\ ~busy'
    OBVIOUS
  <2> QED
    BY <1>1, <2>1, <2>2, <2>3 DEF RunFacts
<1>3. Budget'
  <2>1. ~UnderWay'
    BY DEF UnderWay
  <2>2. page' = "watching" => silence <= Cardinality(waits) * Longest
    BY SilenceIsBounded
  <2>3. page' = "watching" => silence' <= Cardinality(waits') * Longest
    BY <2>2
  <2> QED
    BY <1>1, <2>1, <2>3 DEF Budget
<1> QED
  BY <1>2, <1>3 DEF GivesUpOnlyOnSlowSteps

(* The run is over, and the page knows or had given up before.             *)
LEMMA TellKeeps ==
  ASSUME TimedInv, NEW end \in {"completed", "failed"}, Tell(end),
         busy' = FALSE, caller' \notin {"constructing", "waiting"},
         UNCHANGED <<at, spare, silence, waits>>
  PROVE  TimedInv'
<1> USE DEF TimedInv, Tell
<1>1. page' # "watching" /\ (page' = "gave up" => page = "gave up")
  OBVIOUS
<1>2. RunFacts'
  BY <1>1 DEF RunFacts
<1> QED
  BY <1>1, <1>2 DEF Budget, GivesUpOnlyOnSlowSteps

(* Every step of a run with its page keeps the invariant.                  *)
LEMMA StepTimed == IInv /\ TimedInv /\ [TimedNext]_timedVars => TimedInv'
<1> SUFFICES ASSUME IInv, TimedInv, [TimedNext]_timedVars PROVE TimedInv'
  OBVIOUS
<1>1. TypeOK
  BY DEF IInv
<1>2. CASE Pass BY <1>1, <1>2, PassKeeps
<1>3. CASE StallAbort BY <1>1, <1>3, StallAbortKeeps
<1>4. CASE StartCall \/ StartAside BY <1>1, <1>4, StartKeeps
<1>5. CASE EndConstruction
  <2>1. /\ caller = "constructing" /\ run = "connecting"
        /\ at = 0 /\ busy = FALSE
    BY <1>5
    DEF EndConstruction, Constructed, ConstructorTimesOut, TimedInv, RunFacts
  <2>2. UNCHANGED <<busy, spare, silence, waits>>
    BY <1>5 DEF EndConstruction
  <2>3. CASE caller' = "idle"
    <3>1. run' = "running" /\ at' = at + 1 /\ UNCHANGED page
      BY <1>5, <2>1, <2>3 DEF EndConstruction
    <3> QED
      BY <1>1, <2>1, <2>2, <2>3, <3>1, GoingOnKeeps
  <2>4. CASE caller' # "idle"
    <3>1. Tell("failed") /\ UNCHANGED at
      BY <1>5, <2>4 DEF EndConstruction
    <3>2. caller' \notin {"constructing", "waiting"}
      BY <1>5 DEF EndConstruction, Constructed, ConstructorTimesOut
    <3> QED
      BY <2>1, <2>2, <3>1, <3>2, TellKeeps
  <2> QED
    BY <2>3, <2>4
<1>6. CASE EndCall
  <2>1. caller = "waiting" /\ caller' = "idle"
        /\ UNCHANGED <<busy, spare, silence, waits>>
    BY <1>6 DEF EndCall, Return, GiveUp
  <2>2. run = "running" /\ busy = FALSE
    BY <2>1 DEF TimedInv, RunFacts
  <2>3. CASE at' = at + 1 /\ UNCHANGED <<run, page>>
    BY <1>1, <2>1, <2>2, <2>3, GoingOnKeeps
  <2>4. CASE Tell("failed") /\ UNCHANGED at
    BY <2>1, <2>2, <2>4, TellKeeps
  <2> QED
    BY <1>6, <2>3, <2>4 DEF EndCall
<1>7. CASE EndAside
  <2>1. /\ busy /\ busy' = FALSE /\ at' = at + 1
        /\ UNCHANGED <<caller, run, spare, page, silence, waits>>
    BY <1>7 DEF EndAside, vars, callerVars
  <2>2. run = "running" /\ caller = "idle"
    BY <2>1 DEF TimedInv, RunFacts
  <2> QED
    BY <1>1, <2>1, <2>2, GoingOnKeeps
<1>8. CASE Emit
  <2>1. /\ run = "running" /\ caller = "idle" /\ busy = FALSE /\ at' = at + 1
        /\ UNCHANGED <<caller, run, busy, spare, page>>
    BY <1>8 DEF Emit, Doing, vars, callerVars, TimedInv, RunFacts
  <2>2. CASE page = "watching"
    <3>1. silence' = 0 /\ waits' = {}
      BY <1>8, <2>2 DEF Emit
    <3>2. IsFiniteSet(waits') /\ Cardinality(waits') = 0
      BY <3>1, FS_EmptySet
    <3>3. RunFacts'
      BY <2>1, <3>1, <3>2 DEF TimedInv, RunFacts
    <3> QED
      BY <2>1, <2>2, <3>1, <3>2, <3>3, LongestBounds
      DEF TimedInv, Budget, UnderWay, GivesUpOnlyOnSlowSteps
  <2>3. CASE page # "watching"
    <3>1. UNCHANGED <<silence, waits>>
      BY <1>8, <2>3 DEF Emit
    <3> QED
      BY <1>1, <2>1, <3>1, GoingOnKeeps
  <2> QED
    BY <2>2, <2>3
<1>9. CASE Complete
  <2>1. /\ caller = "idle" /\ busy = FALSE /\ Tell("completed")
        /\ UNCHANGED <<caller, at, busy, spare, silence, waits>>
    BY <1>9 DEF Complete, vars, callerVars, TimedInv, RunFacts
  <2> QED
    BY <2>1, TellKeeps
<1>10. CASE CloseClient \/ Unnoticed(Joined)
  <2>1. UNCHANGED <<run, at, busy, spare, page, silence, waits>>
    BY <1>10 DEF CloseClient, Unnoticed, runVars
  <2>2. run \in {"completed", "failed"} \/ caller = "joining"
    BY <1>10 DEF CloseClient, Unnoticed, Joined
  <2>3. /\ run \notin {"connecting", "running"}
        /\ caller' \notin {"constructing", "waiting"}
    BY <1>10, <2>2
    DEF CloseClient, StartClose, Unnoticed, Joined, TimedInv, RunFacts
  <2> QED
    BY <2>1, <2>3 DEF TimedInv, RunFacts, Budget, GivesUpOnlyOnSlowSteps
<1>11. CASE Unnoticed(LoopStep) \/ UNCHANGED timedVars
  <2>1. UNCHANGED <<callerVars, runVars>>
    BY <1>11
    DEF Unnoticed, LoopStep, Spawn, Connect, ConnectFails, Leave, Dequeue,
        Answer, CallTimesOut, Break, timedVars, vars
  <2> QED
    BY <2>1
    DEF callerVars, runVars, TimedInv, RunFacts, Budget, Rest, UnderWay,
        GivesUpOnlyOnSlowSteps
<1> QED
  BY <1>2, <1>3, <1>4, <1>5, <1>6, <1>7, <1>8, <1>9, <1>10, <1>11
  DEF TimedNext

(* While the page watches, the time it has waited is covered by the limits *)
(* of the steps it saw time pass in.                                       *)
THEOREM TimedInvariance == TimedSpec => []TimedInv
<1>1. TimedSpec => []IInv
  BY RunUsesClient, Invariance, PTL
<1> QED
  BY <1>1, InitTimed, StepTimed, PTL DEF TimedSpec

(* For any script and any limits: when so many steps of the longest kind   *)
(* are shorter than the page's patience, it gives up only after more of    *)
(* them in a row without an event.                                         *)
THEOREM PageIsPatient == TimedSpec => []GivesUpOnlyOnSlowSteps
<1>1. TimedInv => GivesUpOnlyOnSlowSteps
  BY DEF TimedInv
<1> QED
  BY <1>1, TimedInvariance, PTL
=============================================================================
