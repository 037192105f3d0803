----------------------------- MODULE StallTimer -----------------------------
(***************************************************************************)
(* The clock of a run against the clock of the page that watches it.       *)
(*                                                                         *)
(* run_analysis drives RealMCPClient through the calls of the graph nodes, *)
(* runs pluto and asks the LLM, and tells the page about a node only when  *)
(* the node has ended.  The page gives up after AbortAfter without news.   *)
(* The client is McpClient as it is; this module adds the run that calls   *)
(* it and the page, and lets all of them live in one time.  A message is   *)
(* delivered within less than a unit of it.                                *)
(***************************************************************************)
EXTENDS McpClient, FiniteSets

CONSTANTS
  Script,     \* what the run does once it is connected, in order
  ScanLimit,  \* _TIMEOUT_SECONDS of pluto
  LlmLimit,   \* DEFAULT_TIMEOUT_SECONDS
  AbortAfter, \* STALL_ABORT_SECONDS
  Patience    \* how many slow steps in a row the page can wait for

\* A call of kubectl that ends the run when it fails, one whose failure is
\* swallowed, pluto, a summary by the LLM, and the event at a node's end.
Steps == {"strict", "lenient", "scan", "summary", "event"}

IsCall(i) == Script[i] \in {"strict", "lenient"}

ASSUME ScriptAssumption ==
  /\ Script \in Seq(Steps)
  /\ Cardinality({i \in DOMAIN Script : IsCall(i)}) = Calls
  /\ {ScanLimit, LlmLimit, AbortAfter, Patience} \subseteq Nat

\* How long one step can last, and the longest of them.
Limits  == {ConnectLimit + Slack, CallLimit + Slack, ScanLimit, LlmLimit}
Longest == CHOOSE d \in Limits : \A e \in Limits : e <= d

\* 90 seconds are more than two steps of at most 35.
ASSUME PatienceAssumption == Patience * Longest < AbortAfter

VARIABLES
  run,     \* "connecting", "running", "completed" or "failed"
  at,      \* the step of Script that comes next or is being done
  busy,    \* pluto or the LLM is being waited for
  spare,   \* time before that wait ends
  page,    \* "watching", "told" the outcome, or "gave up"
  silence, \* time since the page's last event (lastEventAtRef)
  waits    \* history: the steps in which that time passed; 0 is connecting

runVars   == <<run, at, busy, spare, page, silence, waits>>
timedVars == <<vars, runVars>>

\* run_analysis has emitted CLUSTER_CONNECTION and constructs the client.
TimedInit ==
  /\ Init
  /\ run = "connecting" /\ at = 0 /\ busy = FALSE /\ spare = 0
  /\ page = "watching" /\ silence = 0 /\ waits = {}

----------------------------------------------------------------------------
(* The run                                                                 *)

Doing(S) == run = "running" /\ caller = "idle" /\ ~busy
            /\ at \in DOMAIN Script /\ Script[at] \in S

\* The terminal event, for a page that still listens.
Tell(end) ==
  /\ run' = end
  /\ page' = IF page = "watching" THEN "told" ELSE page

\* create_mcp_client returns or raises.
EndConstruction ==
  /\ Constructed \/ ConstructorTimesOut
  /\ IF caller' = "idle"
     THEN run' = "running" /\ at' = 1 /\ UNCHANGED page
     ELSE Tell("failed") /\ UNCHANGED at
  /\ UNCHANGED <<busy, spare, silence, waits>>

StartCall ==
  /\ Doing({"strict", "lenient"})
  /\ CallKubectl
  /\ UNCHANGED runVars

\* Seeded fault: a failed call is made again.
EndCallAgain ==
  /\ Return \/ GiveUp
  /\ at' = IF outcome'[issued] = "result" THEN at + 1 ELSE at
  /\ UNCHANGED <<run, page, busy, spare, silence, waits>>

\* A failed call ends the run with FAILED, unless its node swallows it.
EndCall ==
  /\ Return \/ GiveUp
  /\ IF outcome'[issued] = "result" \/ Script[at] = "lenient"
     THEN at' = at + 1 /\ UNCHANGED <<run, page>>
     ELSE Tell("failed") /\ UNCHANGED at
  /\ UNCHANGED <<busy, spare, silence, waits>>

\* pluto and the LLM have a limit of their own, and never raise.
StartAside ==
  /\ Doing({"scan", "summary"})
  /\ busy' = TRUE
  /\ spare' = IF Script[at] = "scan" THEN ScanLimit ELSE LlmLimit
  /\ UNCHANGED <<vars, run, at, page, silence, waits>>

EndAside ==
  /\ busy
  /\ busy' = FALSE
  /\ at' = at + 1
  /\ UNCHANGED <<vars, run, spare, page, silence, waits>>

\* A node has ended: its event reaches the page, which starts to count anew.
Emit ==
  /\ Doing({"event"})
  /\ at' = at + 1
  /\ silence' = IF page = "watching" THEN 0 ELSE silence
  /\ waits' = IF page = "watching" THEN {} ELSE waits
  /\ UNCHANGED <<vars, run, busy, spare, page>>

Complete ==
  /\ run = "running" /\ caller = "idle" /\ ~busy /\ at = Len(Script) + 1
  /\ Tell("completed")
  /\ UNCHANGED <<vars, at, busy, spare, silence, waits>>

\* finally: a client that was constructed is closed.
CloseClient ==
  /\ run \in {"completed", "failed"}
  /\ StartClose
  /\ UNCHANGED runVars

----------------------------------------------------------------------------
(* The page, and time                                                      *)

\* Seeded fault: the page is only as patient as its warning.
StallAbortAtWarning ==
  /\ page = "watching" /\ 3 * silence >= AbortAfter
  /\ page' = "gave up"
  /\ UNCHANGED <<vars, run, at, busy, spare, silence, waits>>

StallAbort ==
  /\ page = "watching" /\ silence >= AbortAfter
  /\ page' = "gave up"
  /\ UNCHANGED <<vars, run, at, busy, spare, silence, waits>>

\* The run has something to do that takes no time, or the page has.
Prompt ==
  \/ caller = "idle" /\ ~busy
  \/ busy /\ spare = 0
  \/ page = "watching" /\ silence >= AbortAfter

Pass ==
  /\ ~Prompt /\ Tick
  /\ spare' = LessOne(spare)
  /\ silence' = IF page = "watching" THEN silence + 1 ELSE silence
  /\ waits' = IF page = "watching" THEN waits \cup {at} ELSE waits
  /\ UNCHANGED <<run, at, busy, page>>

\* A step of the client that the run does not notice.
Unnoticed(A) == A /\ UNCHANGED runVars

TimedNext ==
  \/ Pass \/ StallAbort
  \/ EndConstruction \/ StartCall \/ EndCall \/ StartAside \/ EndAside
  \/ Emit \/ Complete \/ CloseClient
  \/ Unnoticed(LoopStep) \/ Unnoticed(Joined)

\* As in McpClient: time passes, and whoever can go on without the server,
\* pluto or the LLM does.
TimedFairness ==
  /\ WF_timedVars(Pass) /\ WF_timedVars(StallAbort)
  /\ WF_timedVars(Unnoticed(Dequeue)) /\ WF_timedVars(Unnoticed(CallTimesOut))
  /\ WF_timedVars(loop = "connecting" /\ left = 0 /\ Unnoticed(ConnectFails))
  /\ WF_timedVars(EndConstruction \/ StartCall \/ EndCall \/ StartAside
                  \/ Emit \/ Complete \/ CloseClient \/ Unnoticed(Joined))
  /\ WF_timedVars(spare = 0 /\ EndAside)

TimedSpec     == TimedInit /\ [][TimedNext]_timedVars
TimedFairSpec == TimedSpec /\ TimedFairness

----------------------------------------------------------------------------
(* Properties                                                              *)

(* The page gives up only after more than Patience steps that took time    *)
(* and told it nothing: a server that hangs in one call, after a slow      *)
(* connection, is still reported as FAILED with its cause                  *)
(* (README.md:171-173), before the page says that it does not know         *)
(* (AnalysisProgressPage.tsx:20-23).                                       *)
GivesUpOnlyOnSlowSteps == page = "gave up" => Cardinality(waits) > Patience

(* Whatever kubectl-ai, pluto and the LLM do or fail to do, the run comes  *)
(* to an outcome (README.md:171-173).                                      *)
RunEnds == <>(run \in {"completed", "failed"})

(* An LLM that fails or is slow costs a summary and nothing else           *)
(* (README.md:220-221): the page gives up on no run whose calls and scans  *)
(* were all answered at once.                                              *)
LlmIsOptional ==
  page = "gave up" => \E i \in waits : i = 0 \/ Script[i] # "summary"

----------------------------------------------------------------------------
(* The inductive invariant: the page has waited no longer than the steps   *)
(* it has seen pass may last, and the step that is being done has only the *)
(* rest of its limit left.                                                 *)

RunFacts ==
  /\ at \in Nat /\ spare \in Nat /\ silence \in Nat /\ busy \in BOOLEAN
  /\ waits \subseteq 0..at /\ IsFiniteSet(waits)
  /\ run = "connecting" <=> caller = "constructing"
  /\ run = "connecting" => at = 0
  /\ run = "running" => caller \in {"idle", "waiting"}
  /\ caller = "waiting" => run = "running"
  /\ run \notin {"connecting", "running"} => page # "watching"
  /\ busy => run = "running" /\ caller = "idle"
  /\ run = "running" /\ caller = "idle" /\ ~busy => at \notin waits

UnderWay == busy \/ caller \in {"constructing", "waiting"}
Rest     == IF busy THEN spare ELSE wait

Budget ==
  page = "watching" =>
    IF at \in waits THEN silence + Rest <= Cardinality(waits) * Longest
    ELSE /\ silence <= Cardinality(waits) * Longest
         /\ UnderWay => Rest <= Longest

TimedInv == RunFacts /\ Budget /\ GivesUpOnlyOnSlowSteps
=============================================================================
