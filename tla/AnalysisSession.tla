-------------------------- MODULE AnalysisSession --------------------------
(***************************************************************************)
(* One analysis from POST /analysis to the end of its worker thread.       *)
(*                                                                         *)
(* Three actors share the session object and the disk without any lock:    *)
(* the event loop (create_analysis and the readers of the modules that     *)
(* extend this one), the worker threads of the default executor            *)
(* (run_analysis), and a supervisor that may restart the process.  A step  *)
(* is one write that another actor can see; purely local work is folded    *)
(* into the step of the write that follows it.                             *)
(***************************************************************************)
EXTENDS Naturals, Sequences, FiniteSets

CONSTANTS
  Analyses,   \* analysis ids; uuid4, so none is ever used twice
  NumNodes,   \* number of LangGraph nodes that emit an event (10 in the code)
  Workers,    \* max_workers of the default executor behind asyncio.to_thread
  Faults      \* which faults of the environment this instance includes

FaultKinds ==
  { "audit",     \* get_audit_logger cannot create or open the audit log
    "upload",    \* create_analysis cannot store the uploaded kubeconfig
    "snapshot",  \* _save_snapshot cannot open or fill its file
    "unlink",    \* the kubeconfig cannot be deleted
    "restart" }  \* the process dies and is started again

ASSUME ConstantsAssumption ==
  /\ NumNodes \in Nat \ {0}
  /\ Workers \in Nat \ {0}
  /\ Faults \subseteq FaultKinds

VARIABLES
  known,      \* keys of SessionStore._sessions
  real,       \* real[a]: not session.mock_mode
  status,     \* session.status
  events,     \* session.events, append-only
  report,     \* session.report is not None
  error,      \* session.error is not None
  pc,         \* where the request handler or the worker thread of a stands
  queue,      \* work items of the executor that no thread has picked up
  client,     \* the MCP client of the run: "none", "open" or "closed"
  kubeconfig, \* the uploaded file: "absent", "partial" or "stored"
  snapshot    \* snapshot_dir/<a>.json: "absent", "torn" or "whole"

memory == <<known, real, status, events, report, error, client>>
disk   == <<kubeconfig, snapshot>>
vars   == <<memory, disk, pc, queue>>

Statuses == {"RUNNING", "COMPLETED", "FAILED"}

\* An AnalysisEvent keeps its stage; node is its index in _NODE_ORDER, else 0.
Event ==
  [stage : {"CLUSTER_CONNECTION", "COMPLETED", "FAILED"}, node : {0}]
    \cup [stage : {"NODE"}, node : 1..NumNodes]

Connection == [stage |-> "CLUSTER_CONNECTION", node |-> 0]
NodeEnd(n) == [stage |-> "NODE", node |-> n]
Completed  == [stage |-> "COMPLETED", node |-> 0]
Failed     == [stage |-> "FAILED", node |-> 0]

\* The states of pc.  "rejected": the POST answered with an error.
\* "aborted": the thread died before its try.  "leftover": it died in its
\* finally, of the unlink.  "lost": killed by a restart.
InTry     == {"connect", "prepare", "graph", "report", "complete",
              "announce", "save", "write"}
InExcept  == {"failing", "blame", "announceFailure"}
InFinally == {"close", "unlink"}
InThread  == InTry \cup InExcept \cup InFinally
Finished  == {"done", "leftover"}
Ended     == {"rejected", "aborted", "lost"} \cup Finished
Alive     == {"uploading", "storing", "queued"} \cup InThread
Places    == {"none"} \cup Alive \cup Ended

TypeOK ==
  /\ known \subseteq Analyses
  /\ real \in [Analyses -> BOOLEAN]
  /\ status \in [Analyses -> Statuses]
  /\ events \in [Analyses -> Seq(Event)]
  /\ report \in [Analyses -> BOOLEAN]
  /\ error \in [Analyses -> BOOLEAN]
  /\ pc \in [Analyses -> Places]
  /\ queue \in Seq(Analyses)
  /\ client \in [Analyses -> {"none", "open", "closed"}]
  /\ kubeconfig \in [Analyses -> {"absent", "partial", "stored"}]
  /\ snapshot \in [Analyses -> {"absent", "torn", "whole"}]

Init ==
  /\ known = {}
  /\ real = [a \in Analyses |-> FALSE]
  /\ status = [a \in Analyses |-> "RUNNING"]
  /\ events = [a \in Analyses |-> <<>>]
  /\ report = [a \in Analyses |-> FALSE]
  /\ error = [a \in Analyses |-> FALSE]
  /\ pc = [a \in Analyses |-> "none"]
  /\ queue = <<>>
  /\ client = [a \in Analyses |-> "none"]
  /\ kubeconfig = [a \in Analyses |-> "absent"]
  /\ snapshot = [a \in Analyses |-> "absent"]

Goto(a, place) == pc' = [pc EXCEPT ![a] = place]
Move(a, from, to) == pc[a] = from /\ Goto(a, to)

\* AnalysisSession.emit
emit(a, e) == events' = [events EXCEPT ![a] = Append(@, e)]

----------------------------------------------------------------------------
(* The event loop: create_analysis                                         *)

\* Nothing is awaited between the two steps of write_bytes: the event loop
\* handles no other request there.  The threads run on.
LoopFree == \A a \in Analyses : pc[a] # "storing"

\* asyncio.create_task(asyncio.to_thread(run_analysis, ...))
Submit(a) ==
  /\ Goto(a, "queued")
  /\ queue' = Append(queue, a)

\* The session is stored before the request is checked: a real request
\* without a kubeconfig is answered with 400 and leaves its session behind.
CreateAnalysis(a) ==
  /\ pc[a] = "none" /\ LoopFree
  /\ known' = known \cup {a}
  /\ \/ /\ real' = [real EXCEPT ![a] = FALSE]
        /\ Submit(a)
     \/ /\ real' = [real EXCEPT ![a] = TRUE]
        /\ Goto(a, "rejected")
        /\ UNCHANGED queue
     \/ /\ real' = [real EXCEPT ![a] = TRUE]
        /\ Goto(a, "uploading")
        /\ UNCHANGED queue
  /\ UNCHANGED <<status, events, report, error, client, disk>>

\* After the await of kubeconfig.read(): write_bytes creates the file empty.
OpenKubeconfig(a) ==
  /\ LoopFree
  /\ Move(a, "uploading", "storing")
  /\ kubeconfig' = [kubeconfig EXCEPT ![a] = "partial"]
  /\ UNCHANGED <<memory, snapshot, queue>>

\* It fills the file; then the task is created.
StoreKubeconfig(a) ==
  /\ pc[a] = "storing"
  /\ kubeconfig' = [kubeconfig EXCEPT ![a] = "stored"]
  /\ Submit(a)
  /\ UNCHANGED <<memory, snapshot>>

\* mkdir, the open or the write raises: 500, and whatever was written stays.
StoreKubeconfigFails(a) ==
  /\ "upload" \in Faults
  /\ Move(a, "uploading", "rejected") \/ Move(a, "storing", "rejected")
  /\ UNCHANGED <<memory, disk, queue>>

----------------------------------------------------------------------------
(* A worker thread: run_analysis                                           *)

\* Seeded fault: a finished run never gives its thread back.
BusyForEver == {a \in Analyses : pc[a] \in InThread \cup Finished}

Busy == {a \in Analyses : pc[a] \in InThread}

\* A free thread takes the oldest work item, opens the audit log and emits
\* the first event.  All of this comes before the try.
StartRun(a) ==
  /\ queue # <<>> /\ a = Head(queue)
  /\ Cardinality(Busy) < Workers
  /\ queue' = Tail(queue)
  /\ \/ /\ emit(a, Connection)
        /\ Goto(a, "connect")
     \/ /\ "audit" \in Faults
        /\ Goto(a, "aborted")
        /\ UNCHANGED events
  /\ UNCHANGED <<known, real, status, report, error, client, disk>>

\* create_mcp_client.  When it raises, client is still None.
Connect(a) ==
  /\ pc[a] = "connect"
  /\ \/ /\ client' = [client EXCEPT ![a] = "open"]
        /\ Goto(a, "prepare")
     \/ /\ Goto(a, "failing")
        /\ UNCHANGED client
  /\ UNCHANGED <<known, real, status, events, report, error, disk, queue>>

\* get_rag, LLMClient and build_graph; each may raise.
Prepare(a) ==
  /\ pc[a] = "prepare"
  /\ Goto(a, "graph") \/ Goto(a, "failing")
  /\ UNCHANGED <<memory, disk, queue>>

\* Seeded fault: the node's position is counted one too far.
EndNodeOffByOne(a) ==
  /\ pc[a] = "graph"
  /\ emit(a, NodeEnd(Len(events[a]) + 1))
  /\ Goto(a, IF Len(events[a]) = NumNodes THEN "report" ELSE "graph")
  /\ UNCHANGED <<known, real, status, report, error, client, disk, queue>>

\* Seeded fault: the position is taken from a list that starts at zero.
EndNodeFromZero(a) ==
  /\ pc[a] = "graph"
  /\ emit(a, NodeEnd(Len(events[a]) - 1))
  /\ Goto(a, IF Len(events[a]) = NumNodes THEN "report" ELSE "graph")
  /\ UNCHANGED <<known, real, status, report, error, client, disk, queue>>

\* One update of graph.stream: the node's event.  events holds the
\* connection event and one event per finished node at this point.
EndNode(a) ==
  /\ pc[a] = "graph"
  /\ emit(a, NodeEnd(Len(events[a])))
  /\ Goto(a, IF Len(events[a]) = NumNodes THEN "report" ELSE "graph")
  /\ UNCHANGED <<known, real, status, report, error, client, disk, queue>>

\* A node raises, or the summary and UpgradeReport(...) do.
FailInTry(a) ==
  /\ pc[a] \in {"graph", "report"}
  /\ Goto(a, "failing")
  /\ UNCHANGED <<memory, disk, queue>>

\* Seeded fault: the status is set where the report should be.
SetStatusFirst(a) ==
  /\ Move(a, "report", "complete")
  /\ status' = [status EXCEPT ![a] = "COMPLETED"]
  /\ UNCHANGED <<known, real, events, report, error, client, disk, queue>>

SetReport(a) ==
  /\ Move(a, "report", "complete")
  /\ report' = [report EXCEPT ![a] = TRUE]
  /\ UNCHANGED <<known, real, status, events, error, client, disk, queue>>

SetCompleted(a) ==
  /\ Move(a, "complete", "announce")
  /\ status' = [status EXCEPT ![a] = "COMPLETED"]
  /\ UNCHANGED <<known, real, events, report, error, client, disk, queue>>

EmitCompleted(a) ==
  /\ Move(a, "announce", "save")
  /\ emit(a, Completed)
  /\ UNCHANGED <<known, real, status, report, error, client, disk, queue>>

\* _save_snapshot: write_text truncates the file, then fills it.
OpenSnapshot(a) ==
  /\ pc[a] = "save"
  /\ \/ /\ snapshot' = [snapshot EXCEPT ![a] = "torn"]
        /\ Goto(a, "write")
     \/ /\ "snapshot" \in Faults
        /\ Goto(a, "failing")
        /\ UNCHANGED snapshot
  /\ UNCHANGED <<memory, kubeconfig, queue>>

\* Seeded fault: a failed write is swallowed.
FillSnapshotQuietly(a) ==
  /\ pc[a] = "write"
  /\ \/ snapshot' = [snapshot EXCEPT ![a] = "whole"]
     \/ "snapshot" \in Faults /\ UNCHANGED snapshot
  /\ Goto(a, "close")
  /\ UNCHANGED <<memory, kubeconfig, queue>>

FillSnapshot(a) ==
  /\ pc[a] = "write"
  /\ \/ /\ snapshot' = [snapshot EXCEPT ![a] = "whole"]
        /\ Goto(a, "close")
     \/ /\ "snapshot" \in Faults
        /\ Goto(a, "failing")
        /\ UNCHANGED snapshot
  /\ UNCHANGED <<memory, kubeconfig, queue>>

\* Seeded fault: the handler leaves the status as it was.
SetFailedForgotten(a) ==
  /\ Move(a, "failing", "blame")
  /\ UNCHANGED <<memory, disk, queue>>

\* Seeded fault: the handler announces the failure before naming it.
SetFailedOnly(a) ==
  /\ Move(a, "failing", "announceFailure")
  /\ status' = [status EXCEPT ![a] = "FAILED"]
  /\ UNCHANGED <<known, real, events, report, error, client, disk, queue>>

\* except Exception: three separate writes.
SetFailed(a) ==
  /\ Move(a, "failing", "blame")
  /\ status' = [status EXCEPT ![a] = "FAILED"]
  /\ UNCHANGED <<known, real, events, report, error, client, disk, queue>>

\* Seeded fault: no event follows the error.
SetErrorSilently(a) ==
  /\ Move(a, "blame", "close")
  /\ error' = [error EXCEPT ![a] = TRUE]
  /\ UNCHANGED <<known, real, status, events, report, client, disk, queue>>

SetError(a) ==
  /\ Move(a, "blame", "announceFailure")
  /\ error' = [error EXCEPT ![a] = TRUE]
  /\ UNCHANGED <<known, real, status, events, report, client, disk, queue>>

EmitFailed(a) ==
  /\ Move(a, "announceFailure", "close")
  /\ emit(a, Failed)
  /\ UNCHANGED <<known, real, status, report, error, client, disk, queue>>

\* Seeded fault: the file is deleted before the client is closed.
UnlinkBeforeClose(a) ==
  /\ Move(a, "close", "unlink")
  /\ kubeconfig' = [kubeconfig EXCEPT ![a] = "absent"]
  /\ UNCHANGED <<memory, snapshot, queue>>

\* Seeded fault: the file is deleted on the successful path only.
UnlinkOnSuccess(a) ==
  /\ Move(a, "unlink", "done")
  /\ kubeconfig' = [kubeconfig EXCEPT ![a] =
                      IF status[a] = "COMPLETED" THEN "absent" ELSE @]
  /\ UNCHANGED <<memory, snapshot, queue>>

\* finally: the client is closed only when it was assigned, and the file is
\* deleted only when there is one.
CloseClient(a) ==
  /\ Move(a, "close", "unlink")
  /\ client' = [client EXCEPT ![a] = IF @ = "open" THEN "closed" ELSE @]
  /\ UNCHANGED <<known, real, status, events, report, error, disk, queue>>

\* When the unlink raises, nobody asks the task for its exception.
UnlinkKubeconfig(a) ==
  /\ pc[a] = "unlink"
  /\ \/ /\ kubeconfig' = [kubeconfig EXCEPT ![a] = "absent"]
        /\ Goto(a, "done")
     \/ /\ "unlink" \in Faults /\ kubeconfig[a] # "absent"
        /\ Goto(a, "leftover")
        /\ UNCHANGED kubeconfig
  /\ UNCHANGED <<memory, snapshot, queue>>

----------------------------------------------------------------------------
(* The supervisor                                                          *)

\* The sessions, the executor's queue and every thread and client are gone;
\* the files stay as the crash left them.
Restart ==
  /\ "restart" \in Faults
  /\ known' = {}
  /\ queue' = <<>>
  /\ pc' = [a \in Analyses |-> IF pc[a] \in Alive THEN "lost" ELSE pc[a]]
  /\ client' = [a \in Analyses |->
                  IF client[a] = "open" THEN "closed" ELSE client[a]]
  /\ UNCHANGED <<real, status, events, report, error, disk>>

----------------------------------------------------------------------------
Handler(a) ==
  \/ CreateAnalysis(a)
  \/ OpenKubeconfig(a) \/ StoreKubeconfig(a) \/ StoreKubeconfigFails(a)

Try(a) ==
  \/ Connect(a) \/ Prepare(a) \/ EndNode(a) \/ FailInTry(a)
  \/ SetReport(a) \/ SetCompleted(a) \/ EmitCompleted(a)
  \/ OpenSnapshot(a) \/ FillSnapshot(a)

Except(a)  == SetFailed(a) \/ SetError(a) \/ EmitFailed(a)
Finally(a) == CloseClient(a) \/ UnlinkKubeconfig(a)
Thread(a)  == StartRun(a) \/ Try(a) \/ Except(a) \/ Finally(a)

Next == Restart \/ \E a \in Analyses : Handler(a) \/ Thread(a)

\* The executor keeps running the threads it has, and every call of the
\* pipeline has a timeout, so no thread stands still for ever.  Requests and
\* restarts come when they come.
Fairness ==
  \A a \in Analyses : /\ WF_vars(OpenKubeconfig(a) \/ StoreKubeconfig(a))
                      /\ WF_vars(Thread(a))

Spec     == Init /\ [][Next]_vars
FairSpec == Spec /\ Fairness

----------------------------------------------------------------------------
(* Properties                                                              *)

Announced(a, e) == \E i \in DOMAIN events[a] : events[a][i] = e

(* GET /report answers a session that is neither RUNNING nor FAILED with   *)
(* its report and asserts that there is one: no reader may catch the       *)
(* thread between the two writes.                                          *)
ReportBeforeCompleted ==
  \A a \in Analyses : status[a] = "COMPLETED" => report[a]

(* The kubectl-ai subprocess of a real run reads the uploaded kubeconfig   *)
(* by path whenever it is called: the file outlives the client.            *)
ClientHasKubeconfig ==
  \A a \in Analyses :
    client[a] = "open" /\ real[a] => kubeconfig[a] = "stored"

OrderOfLog(a) ==
  \A i \in DOMAIN events[a] :
    LET e == events[a][i] IN
    /\ e = Connection <=> i = 1
    /\ e.stage = "NODE" => e = NodeEnd(i - 1)
    /\ e = Completed => i = NumNodes + 2
    /\ e = Failed => i = Len(events[a])

(* The log a subscriber replays is one pass of the pipeline: connection,   *)
(* the nodes in order, COMPLETED only after all of them, FAILED at any     *)
(* point but nothing after it.                                             *)
PipelineOrder == \A a \in Analyses : OrderOfLog(a)

(* Whoever has read the FAILED event finds the status and its cause set.   *)
FailureExplained ==
  \A a \in Analyses :
    Announced(a, Failed) => status[a] = "FAILED" /\ error[a]

\* The last event is the status.
OutcomeTold(a) ==
  events[a] # <<>> /\ events[a][Len(events[a])].stage = status[a]

(* A run that reached the end of its finally has told its outcome: a page  *)
(* waiting for it is released.                                             *)
EndAnnounced == \A a \in Analyses : pc[a] \in Finished => OutcomeTold(a)

(* After a run, COMPLETED and a whole snapshot mean the same: a failed     *)
(* save takes the success back, and a failed run leaves no snapshot that   *)
(* could be taken for a result.                                            *)
OutcomeMatchesDisk ==
  \A a \in Analyses : pc[a] \in Finished =>
    (status[a] = "COMPLETED" <=> snapshot[a] = "whole")

(* An uploaded kubeconfig is on disk only while some step still to come    *)
(* deletes it (routes.py:3-5, README.md:226-227).                          *)
KubeconfigOwned ==
  \A a \in Analyses :
    kubeconfig[a] # "absent" => pc[a] \in {"storing", "queued"} \cup InThread

(* What really happens to the file.  A run that came to its end has        *)
(* deleted it, whether it completed or failed, unless the unlink itself    *)
(* raised.  Otherwise a whole one is left by an audit log that fails and   *)
(* by a restart; a part of one by a write that fails and by a restart in   *)
(* the middle of the write.                                                *)
KubeconfigDeleted ==
  \A a \in Analyses :
    /\ kubeconfig[a] = "partial" => pc[a] \in {"storing", "rejected", "lost"}
    /\ kubeconfig[a] = "stored" =>
         pc[a] \in {"queued", "aborted", "leftover", "lost"} \cup InThread

(* Every analysis whose id was returned runs and ends with an outcome      *)
(* that it announces, however many others wait for the executor's threads, *)
(* unless it ends before its try or the process does.                      *)
EveryAcceptedRunEnds ==
  \A a \in Analyses :
    pc[a] = "queued" ~> \/ pc[a] \in Finished /\ OutcomeTold(a)
                       \/ pc[a] \in {"aborted", "lost"}

----------------------------------------------------------------------------
(* Where the thread stands determines what it has written so far.  The     *)
(* conjunction over all analyses is inductive and implies the invariants   *)
(* above that hold under every fault.                                      *)

Untouched == {"none", "uploading", "storing", "rejected", "queued", "aborted"}
Deciding  == {"connect", "prepare", "graph", "report", "complete"}
Saving    == {"save", "write"}
Over      == {"close", "unlink"} \cup Finished

StatusByPlace(a) ==
  /\ pc[a] \in Untouched \cup Deciding => status[a] = "RUNNING"
  /\ pc[a] \in {"announce"} \cup Saving => status[a] = "COMPLETED"
  /\ pc[a] \in {"blame", "announceFailure"} => status[a] = "FAILED"
  /\ pc[a] = "announceFailure" => error[a]
  /\ pc[a] = "complete" \/ status[a] = "COMPLETED" => report[a]

LogByPlace(a) ==
  LET n == Len(events[a]) IN
  /\ pc[a] \in Untouched => n = 0
  /\ pc[a] \in {"connect", "prepare"} => n = 1
  /\ pc[a] = "graph" => n \in 1..NumNodes
  /\ pc[a] \in {"report", "complete", "announce"} => n = NumNodes + 1
  /\ pc[a] \in Saving => n = NumNodes + 2
  /\ pc[a] \in InExcept => n >= 1
  /\ pc[a] \in Deciding \cup {"announce"} => ~Announced(a, Completed)
  /\ pc[a] \notin Over \cup {"lost"} => ~Announced(a, Failed)
  /\ Announced(a, Failed) => status[a] = "FAILED" /\ error[a]
  /\ Announced(a, Completed) => status[a] # "RUNNING"

FilesByPlace(a) ==
  /\ client[a] = "open" => pc[a] \in InThread \ {"connect", "unlink"}
  /\ real[a] /\ pc[a] \in {"queued"} \cup InThread => kubeconfig[a] = "stored"
  /\ kubeconfig[a] = "partial" => pc[a] \in {"storing", "rejected", "lost"}
  /\ kubeconfig[a] = "stored" =>
       pc[a] \in {"queued", "aborted", "leftover", "lost"} \cup InThread
  /\ pc[a] \notin Over \cup {"lost"} => snapshot[a] # "whole"

Verdict(a) ==
  LET last == events[a][Len(events[a])] IN
  /\ pc[a] \in Saving => last = Completed
  /\ pc[a] \in Over =>
       /\ Len(events[a]) > 0
       /\ \/ /\ status[a] = "COMPLETED" /\ last = Completed
             /\ snapshot[a] = "whole"
          \/ /\ status[a] = "FAILED" /\ last = Failed
             /\ snapshot[a] # "whole"

Local(a) ==
  /\ StatusByPlace(a)
  /\ LogByPlace(a)
  /\ OrderOfLog(a)
  /\ FilesByPlace(a)
  /\ Verdict(a)

\* A work item is queued once, and no thread has its analysis yet.
QueueOK ==
  /\ \A i \in DOMAIN queue : pc[queue[i]] = "queued"
  /\ \A i, j \in DOMAIN queue : queue[i] = queue[j] => i = j

(* The inductive invariant of the session.                                 *)
IInv == TypeOK /\ QueueOK /\ \A a \in Analyses : Local(a)

\* The store holds every session whose request or thread is under way, and
\* none before its request.
StoredByPlace ==
  \A a \in Analyses : /\ pc[a] = "none" => a \notin known
                      /\ pc[a] \in Alive => a \in known

(* The abstract view: a session that is not in the store is absent.        *)
Contract ==
  INSTANCE AnalysisContract WITH
    Stages  <- {"CLUSTER_CONNECTION", "NODE", "COMPLETED", "FAILED"},
    outcome <- [a \in Analyses |-> IF a \in known THEN status[a] ELSE "absent"],
    log     <- [a \in Analyses |->
                 IF a \in known
                 THEN [i \in DOMAIN events[a] |-> events[a][i].stage]
                 ELSE <<>>]

(* The server keeps what AnalysisContract promises its clients.            *)
ContractSpec == Contract!CSpec
=============================================================================
