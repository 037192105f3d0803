----------------------------- MODULE McpClient -----------------------------
(***************************************************************************)
(* RealMCPClient: a worker thread that makes blocking calls, and the       *)
(* background thread that owns the one MCP session and serves them from a  *)
(* queue.  Each side has timeouts of its own, and the property at stake is *)
(* how they fit together.                                                  *)
(*                                                                         *)
(* Time is discrete.  Tick lets one unit pass, and does not let it pass    *)
(* before a thread that has something to do has done it: a thread reacts,  *)
(* and parses an answer, within less than Slack.                           *)
(***************************************************************************)
EXTENDS Naturals, Sequences

CONSTANTS
  Calls,        \* how many calls of _call_kubectl this instance makes
  ConnectLimit, \* _CONNECT_TIMEOUT_SECONDS
  CallLimit,    \* _CALL_TIMEOUT_SECONDS
  Slack         \* the 5 seconds a caller waits beyond the limit of the loop

ASSUME LimitsAssumption ==
  /\ Calls \in Nat
  /\ ConnectLimit \in Nat /\ CallLimit \in Nat
  /\ Slack \in Nat \ {0}

VARIABLES
  loop,     \* where the background thread stands
  ready,    \* _ready is set
  refused,  \* _connect_error is not None
  broken,   \* a task of the session crashed: the loop's scope is cancelled
  requests, \* _request_q: numbers of calls, or Close
  answer,   \* answer[c]: what the Future of call c holds
  caller,   \* where the worker thread stands
  issued,   \* how many calls it has made; issued is also the latest call
  outcome,  \* outcome[c]: how _call_kubectl ended
  left,     \* time before the fail_after of the loop fires
  wait      \* time before the caller stops waiting

loopVars   == <<loop, ready, refused, broken, left>>
callerVars == <<caller, issued, outcome, wait>>
vars       == <<loopVars, callerVars, requests, answer>>

CallIds == 1..Calls
Close   == 0   \* the None that close() puts into the queue

Waiting == {"constructing", "waiting", "joining"}
Gone    == {"refused", "expired", "closed", "warned"}

TypeOK ==
  /\ loop \in {"spawning", "connecting", "waiting", "calling", "leaving", "dead"}
  /\ ready \in BOOLEAN /\ refused \in BOOLEAN /\ broken \in BOOLEAN
  /\ requests \in Seq(CallIds \cup {Close})
  /\ answer \in [CallIds -> {"none", "result", "exception"}]
  /\ caller \in {"idle"} \cup Waiting \cup Gone
  /\ issued \in 0..Calls
  /\ outcome \in [CallIds -> {"none", "result", "exception", "timeout"}]
  /\ left \in Nat /\ wait \in Nat

\* The constructor has started the thread and waits for _ready.
Init ==
  /\ loop = "spawning" /\ ready = FALSE /\ refused = FALSE /\ broken = FALSE
  /\ requests = <<>>
  /\ answer = [c \in CallIds |-> "none"]
  /\ caller = "constructing"
  /\ issued = 0
  /\ outcome = [c \in CallIds |-> "none"]
  /\ left = 0
  /\ wait = ConnectLimit + Slack

----------------------------------------------------------------------------
(* The background thread: _loop_main                                       *)

\* stdio_client has started the server.  Nothing limits how long it takes.
Spawn ==
  /\ loop = "spawning"
  /\ loop' = "connecting"
  /\ left' = ConnectLimit
  /\ UNCHANGED <<ready, refused, broken, callerVars, requests, answer>>

\* session.initialize() returns.
Connect ==
  /\ loop = "connecting"
  /\ loop' = "waiting"
  /\ ready' = TRUE
  /\ UNCHANGED <<refused, broken, left, callerVars, requests, answer>>

\* The server cannot be started, initialize() raises, or its time is up.
ConnectFails ==
  /\ loop \in {"spawning", "connecting"}
  /\ loop' = "leaving"
  /\ UNCHANGED <<ready, refused, broken, left, callerVars, requests, answer>>

\* Both async with blocks have been left, which the server's shutdown may
\* delay; only then is a failed connection reported.
Leave ==
  /\ loop = "leaving"
  /\ loop' = "dead"
  /\ ready' = TRUE
  /\ refused' = (refused \/ ~ready)
  /\ UNCHANGED <<broken, left, callerVars, requests, answer>>

\* Seeded fault: the limit of a call is no shorter than the caller's.
DequeueGenerously ==
  /\ loop = "waiting" /\ requests # <<>>
  /\ requests' = Tail(requests)
  /\ loop' = IF Head(requests) = Close \/ broken THEN "leaving" ELSE "calling"
  /\ left' = CallLimit + Slack + 1
  /\ UNCHANGED <<ready, refused, broken, callerVars, answer>>

\* Seeded fault: None is taken for a request that needs no answer.
DequeueOnAndOn ==
  /\ loop = "waiting" /\ requests # <<>>
  /\ requests' = Tail(requests)
  /\ loop' = IF broken THEN "leaving"
             ELSE IF Head(requests) = Close THEN "waiting" ELSE "calling"
  /\ left' = CallLimit
  /\ UNCHANGED <<ready, refused, broken, callerVars, answer>>

\* _request_q.get returns in its helper thread.  When the scope was
\* cancelled meanwhile, the item is lost: CancelledError is no Exception,
\* and its Future is never completed.
Dequeue ==
  /\ loop = "waiting" /\ requests # <<>>
  /\ requests' = Tail(requests)
  /\ loop' = IF Head(requests) = Close \/ broken THEN "leaving" ELSE "calling"
  /\ left' = CallLimit
  /\ UNCHANGED <<ready, refused, broken, callerVars, answer>>

\* call_tool answers in time: set_result, or set_exception for an error of
\* the tool, of kubectl or of the parser.
Answer ==
  /\ loop = "calling"
  /\ loop' = "waiting"
  /\ \E kind \in {"result", "exception"} :
       answer' = [answer EXCEPT ![issued] = kind]
  /\ UNCHANGED <<ready, refused, broken, left, callerVars, requests>>

\* Seeded fault: the timeout is handed over as a value of its own kind.
CallTimesOutAsValue ==
  /\ loop = "calling" /\ left = 0
  /\ loop' = "waiting"
  /\ answer' = [answer EXCEPT ![issued] = "timeout"]
  /\ UNCHANGED <<ready, refused, broken, left, callerVars, requests>>

\* fail_after(_CALL_TIMEOUT_SECONDS) fires.
CallTimesOut ==
  /\ loop = "calling" /\ left = 0
  /\ loop' = "waiting"
  /\ answer' = [answer EXCEPT ![issued] = "exception"]
  /\ UNCHANGED <<ready, refused, broken, left, callerVars, requests>>

\* A task that bridges the pipes crashes, say because the server is gone.
\* A call in progress is cancelled; a blocked get is not.
Break ==
  /\ loop \in {"waiting", "calling"} /\ ~broken
  /\ broken' = TRUE
  /\ loop' = IF loop = "calling" THEN "leaving" ELSE loop
  /\ UNCHANGED <<ready, refused, left, callerVars, requests, answer>>

----------------------------------------------------------------------------
(* The worker thread: __init__, _call_kubectl, close                       *)

\* _ready.wait returned: __init__ ends, or raises what the loop reported.
Constructed ==
  /\ caller = "constructing" /\ ready
  /\ caller' = IF refused THEN "refused" ELSE "idle"
  /\ UNCHANGED <<loopVars, issued, outcome, wait, requests, answer>>

ConstructorTimesOut ==
  /\ caller = "constructing" /\ ~ready /\ wait = 0
  /\ caller' = "expired"
  /\ UNCHANGED <<loopVars, issued, outcome, wait, requests, answer>>

\* Seeded fault: the caller waits no longer than the loop does.
CallKubectlWithoutSlack ==
  /\ caller = "idle" /\ issued < Calls
  /\ caller' = "waiting"
  /\ issued' = issued + 1
  /\ requests' = Append(requests, issued + 1)
  /\ wait' = CallLimit
  /\ UNCHANGED <<loopVars, outcome, answer>>

\* _call_kubectl: the request goes into the queue, then the caller waits.
CallKubectl ==
  /\ caller = "idle" /\ issued < Calls
  /\ caller' = "waiting"
  /\ issued' = issued + 1
  /\ requests' = Append(requests, issued + 1)
  /\ wait' = CallLimit + Slack
  /\ UNCHANGED <<loopVars, outcome, answer>>

\* future.result returns or raises what the loop put there.
Return ==
  /\ caller = "waiting" /\ answer[issued] # "none"
  /\ caller' = "idle"
  /\ outcome' = [outcome EXCEPT ![issued] = answer[issued]]
  /\ UNCHANGED <<loopVars, issued, wait, requests, answer>>

\* Seeded fault: future.result() without a timeout.
WaitOn == FALSE

\* future.result(timeout=...) expires: TimeoutError.
GiveUp ==
  /\ caller = "waiting" /\ answer[issued] = "none" /\ wait = 0
  /\ caller' = "idle"
  /\ outcome' = [outcome EXCEPT ![issued] = "timeout"]
  /\ UNCHANGED <<loopVars, issued, wait, requests, answer>>

\* close(), from the finally of run_analysis, in the thread that called.
StartClose ==
  /\ caller = "idle"
  /\ caller' = "joining"
  /\ requests' = Append(requests, Close)
  /\ wait' = ConnectLimit
  /\ UNCHANGED <<loopVars, issued, outcome, answer>>

\* The join returns; a thread that is still alive gets a warning.
Joined ==
  /\ caller = "joining"
  /\ \/ loop = "dead" /\ caller' = "closed"
     \/ loop # "dead" /\ wait = 0 /\ caller' = "warned"
  /\ UNCHANGED <<loopVars, issued, outcome, wait, requests, answer>>

----------------------------------------------------------------------------
\* A thread that has something to do before time may pass.
Urgent ==
  \/ loop \in {"connecting", "calling"} /\ left = 0
  \/ loop = "waiting" /\ requests # <<>>
  \/ caller = "constructing" /\ (ready \/ wait = 0)
  \/ caller = "waiting" /\ (answer[issued] # "none" \/ wait = 0)
  \/ caller = "joining" /\ (loop = "dead" \/ wait = 0)

LessOne(n) == IF n = 0 THEN 0 ELSE n - 1

Tick ==
  /\ ~Urgent
  /\ left' = LessOne(left)
  /\ wait' = LessOne(wait)
  /\ UNCHANGED <<loop, ready, refused, broken, caller, issued, outcome,
                 requests, answer>>

LoopStep ==
  \/ Spawn \/ Connect \/ ConnectFails \/ Leave
  \/ Dequeue \/ Answer \/ CallTimesOut \/ Break

CallerStep ==
  \/ Constructed \/ ConstructorTimesOut \/ CallKubectl \/ Return \/ GiveUp
  \/ StartClose \/ Joined

Next == LoopStep \/ CallerStep \/ Tick

\* Time passes and threads run.  Nothing is assumed of the server: it need
\* not start, connect, answer or shut down.
Fairness ==
  /\ WF_vars(Tick)
  /\ WF_vars(Dequeue) /\ WF_vars(CallTimesOut)
  /\ WF_vars(loop = "connecting" /\ left = 0 /\ ConnectFails)
  /\ WF_vars(Constructed \/ ConstructorTimesOut \/ Return \/ GiveUp \/ Joined)

Spec     == Init /\ [][Next]_vars
FairSpec == Spec /\ Fairness

----------------------------------------------------------------------------
(* Properties                                                              *)

(* The caller's own timeout is a last resort: it fires only when the loop  *)
(* was cancelled, never because a live loop was about to answer.           *)
GivesUpOnlyOnBroken ==
  \A c \in CallIds : outcome[c] = "timeout" => broken

(* A Future whose caller has gone is never completed afterwards: no answer *)
(* is computed for nobody, and none was a moment too late.                 *)
NoLateAnswer ==
  \A c \in CallIds : outcome[c] = "timeout" => answer[c] = "none"

(* Nobody's call is never run.  The loop may outlive whoever used it: the  *)
(* constructor that gave up (client.py:173) has no close(), and a close()  *)
(* whose join ran out (client.py:240) leaves the thread as it is.  Neither *)
(* leaves a call running, and nor does a caller whose own timeout fired:   *)
(* the cluster is asked only while somebody waits for the answer.          *)
NoCallForNobody == loop = "calling" => caller = "waiting"

(* Whatever the server does, the worker thread gets on: the constructor,   *)
(* every call and close() come to an end (client.py:159-160).              *)
CallerNeverHangs ==
  caller \in Waiting ~> caller \in {"idle"} \cup Gone

(* None reaches the loop wherever it stands, and makes it leave.           *)
CloseEndsLoop == caller = "joining" ~> loop \in {"leaving", "dead"}

\* The request of a caller that waits: still in the queue, or in the hands
\* of the loop with more time for the caller than for the loop.
Pending ==
  \/ /\ loop = "waiting" /\ requests = <<issued>>
     /\ wait = CallLimit + Slack
  \/ /\ loop = "calling" /\ left + Slack <= wait

LoopFacts ==
  /\ loop \in {"spawning", "connecting"} =>
       ~ready /\ ~broken /\ caller \in {"constructing", "expired"}
  /\ loop \in {"waiting", "calling"} => ready
  /\ loop = "calling" =>
       ~broken /\ caller = "waiting" /\ answer[issued] = "none" /\ requests = <<>>
  /\ loop \in {"leaving", "dead"} /\ ~broken => caller \notin {"idle", "waiting"}
  /\ refused => loop = "dead"

CallerFacts ==
  /\ ~ready => caller \in {"constructing", "expired"}
  /\ caller \in {"constructing", "expired"} => requests = <<>> /\ issued = 0
  /\ caller = "constructing" /\ loop = "leaving" => ~ready
  /\ caller = "constructing" /\ loop = "dead" => refused
  /\ caller \in {"refused", "closed"} => loop = "dead"
  /\ caller \in {"joining", "warned"} /\ loop = "waiting" /\ ~broken =>
       requests = <<Close>>
  /\ caller = "waiting" => issued > 0 /\ outcome[issued] = "none"
  /\ caller = "idle" /\ ~broken => loop = "waiting" /\ requests = <<>>
  /\ caller = "waiting" /\ ~broken =>
       IF answer[issued] = "none" THEN Pending
       ELSE loop = "waiting" /\ requests = <<>>

FutureFacts ==
  \A c \in CallIds :
    /\ c > issued => answer[c] = "none" /\ outcome[c] = "none"
    /\ outcome[c] = "timeout" => broken /\ answer[c] = "none"

(* The inductive invariant: while the loop is not cancelled, a call that   *)
(* has no answer is Pending, and a caller that does not wait has left      *)
(* nothing behind.                                                         *)
IInv == TypeOK /\ LoopFacts /\ CallerFacts /\ FutureFacts
=============================================================================
