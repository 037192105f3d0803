# A formal model of the Kubernetes Upgrade Assistant

The program reads a Kubernetes cluster through kubectl-ai, judges what an
upgrade to a chosen version would meet, and shows a plan. This directory holds
TLA+ modules that model it, TLC configurations that check them on small
instances, and proofs that TLAPS checks for all instances. Every definition is
translated from the code; `PROJECT.json` maps each one to its lines.

## The system

| part | code | state it keeps | operations |
|---|---|---|---|
| session and worker thread | `services/analysis_service.py`, `services/session_store.py` | one `AnalysisSession` per id: status, events, report, error; the uploaded kubeconfig; the snapshot file | `create_analysis`, `run_analysis` |
| REST and SSE API | `api/routes.py` | one generator with an index per subscriber | `POST /analysis`, `GET .../events`, `GET .../report`, `GET /snapshots`, `GET /snapshots/{id}` |
| progress page | `AnalysisProgressPage.tsx`, `App.tsx`, `api/client.ts` | the view, `finishedRef`, the time of the last event, an `EventSource` | event callback, stall timer, report request, unmount |
| MCP client | `mcp/client.py` | a loop thread, a request queue, one Future per call | constructor, `_call_kubectl`, `close` |
| collectors | `collectors/*.py` and the first four graph nodes | `KubernetesCollector._nodes`, the graph's `AgentState` | one kubectl call after the other |
| RAG documents | `rag/ingestion.py`, `rag/retriever.py` | one index, made on first use | parsing, two lookups, search, list of versions |
| assessment | `agents/compatibility.py`, `deprecated_api.py`, `risk.py`, `collectors/pluto_scan.py` | `AgentState` | the graph nodes that judge |
| planner | `agents/planner.py` | none | path, phases, commands |
| LLM client | `llm/client.py` | none | `summarize`, which answers within its limit or returns `None` |
| connection and report pages, mock client, settings, deployment | | | not modelled, see below |

How they interact. The event loop creates a session and hands it to a thread of
the default executor. That thread owns the session until it ends and writes it
without a lock; the event loop reads it at the same time, for the event stream,
for the status and for the report. The thread calls the cluster through the MCP
client, which has a thread of its own and a queue in between. The browser learns
of progress through an event stream that ends, breaks and is opened again, each
time from the first event. Results go to files that other requests read while
they are written. A restart forgets the sessions and keeps the files.

What is hard about it, and where it is checked, is the list `hazards` in
`PROJECT.json`. The repository has no tests of its own, so the list names what
only an interleaving, a failure between two writes, a boundary or a long run
would show.

## The modules

| module | models | state and actions, in terms of the code |
|---|---|---|
| `AnalysisSession` | one analysis from `POST /analysis` to the end of its thread | `pc[a]` is the line that `create_analysis` or `run_analysis` is at; each write that another actor can see is one action (`SetReport`, `SetCompleted`, `EmitCompleted`, `OpenSnapshot`, ...); `FailInTry` and the second disjuncts are the places that may raise; `write_bytes` of the upload (`OpenKubeconfig`, `StoreKubeconfig`) and `write_text` of the snapshot (`OpenSnapshot`, `FillSnapshot`) are two steps each, in which a crash or a failure leaves a part of the file; `UnlinkKubeconfig` may raise, and the thread then ends at `leftover` instead of `done`; `queue` and `Busy` are the executor |
| `AnalysisContract` | what a client of the API relies on | an outcome and a log of stages per analysis; `AnalysisSession` implements it (`ContractSpec`) |
| `ProgressPage` (extends `AnalysisSession`) | the browser and the two handlers it talks to | `stream`, `gen`, `sent`, `recv` are the `EventSource` and the generator; `fetch` splits `GET /report` at its reads |
| `SnapshotArchive` (extends `AnalysisSession`) | the readers of the snapshot directory | `ParseNext` reads one file while threads write |
| `StallTimer` (extends `McpClient`) | a run in time, and the page that watches it | `Script` is what `run_analysis` does once connected: calls that end the run when they fail, calls that swallow it, pluto, LLM, the event at a node's end; `silence` is the page's `lastEventAtRef`; time is that of the client |
| `McpClient` | `RealMCPClient`, both threads | `loop` and `caller` are the places of the two threads, `left` and `wait` their timeouts in discrete time |
| `ClusterCollection` | the collecting graph nodes | one action per call; the cluster changes between calls; calls fail |
| `UpgradePlanner` | `compute_upgrade_path` and the command builders | pure operators |
| `PlanExecution` (extends `UpgradePlanner`) | what the plan does to a cluster | an operator runs command by command; the effect of kubeadm, packages and kubelets is external; nodes reboot |
| `Lists` | the list comprehensions, the dicts with one element per key, the sums | `Keep`, `KeepBest`, `KeepFirst`, `Total`; the next three modules use them |
| `ClusterInference` (extends `Lists`) | what the collectors conclude: software behind images, differences between nodes, custom flags, etcd | pure operators over the objects that were read |
| `RagDocuments` (extends `Lists`) | ingestion and retrieval, from the files to the answers | pure operators; a file keeps what the parser takes from it |
| `UpgradeAssessment` (extends `UpgradePlanner`, `ClusterInference`, `RagDocuments`) | `get_rag` and the judging graph nodes | one action per node over `AgentState`; files, cluster and target are chosen in `Init` |
| `AnalysisSessionProofs`, `ProgressPageProofs`, `SnapshotArchiveProofs`, `StallTimerProofs`, `PlanExecutionProofs`, `ClusterCollectionProofs`, `ListsProofs`, `UpgradeAssessmentProofs` | proofs | each extends the module it is named after; the second and the third build on the first, the last on `ListsProofs`. The contract's refinement is proved in `AnalysisSessionProofs`, the client alone in `StallTimerProofs` |
| `MC*` | instances for TLC | |

Definitions that begin with the comment "Seeded fault" are mutations of the
definition below them. No specification uses them; replacing the definition by
its fault shows that a property can fail.

### What the modules leave out on purpose

* Texts, times and formatting. An event keeps its stage and the index of its
  node, a report is there or not, a snapshot file is absent, torn or whole.
* `AnalysisSession`: local work is folded into the step of the next visible
  write. The steps of the graph that the page cannot see are inside `EndNode`.
  `GET /analysis/{id}` only reads. The logger of the audit log and the RAG index are made on first use without a lock; two threads
  may make two, which costs a duplicate line or a second parse and is not
  modelled.
* `ProgressPage`: one page per analysis; the second mount that React's strict
  mode makes during development is left out. A restart during the report
  request gives the page an error.
* `StallTimer`: the connection to the page loses nothing and takes no time (its
  faults are in `ProgressPage`), and answers of the program's own code take less
  than a unit. The 30 seconds of the LLM are taken for the whole request,
  although the limit of httpx is one per operation on the socket: a server that
  sends a little now and then may take longer, so `GivesUpOnlyOnSlowSteps`
  speaks of servers that are silent or answer as a whole.
* `McpClient`: one caller, as in the code: a client belongs to one run. A Future
  holds a result or an exception.
* `ClusterCollection`: of an answer, only what two calls can disagree about or
  what a failed call hides. `CollectRest` and `CollectInventory` are calls whose
  answers are used once.
* `UpgradeAssessment`: one resource stands for a (kind, apiVersion, name,
  namespace). Of a summary it is kept by whom it is and from which document.
* `RagDocuments`: the regular expressions are their outcome (a frontmatter or
  none, the sections, the blocks). `Begins` gives the versions that begin with a
  pattern, and `Score` the TF-IDF similarity of a section to a query, with the
  values that the shipped documents have.
* `ClusterInference`: the regular expressions are their outcome: the curated
  name found in an image or none, the last two segments of its path, its tag,
  the parsed system of a node. Of the flag tables there is one flag for each
  rule that treats flags differently.
* `AnalysisSession`, the event loop: `write_bytes` does not await, so no other
  handler runs between its two steps (`LoopFree`); threads and restarts do.
* `PlanExecution`: the kubelets of all nodes start at most `MaxLag` minors
  behind, 3 in the runs, which is what the policy allows. The plan and the risks
  do not look at them. Which of several API servers a kubelet talks to is in
  neither code nor documents, so every kubelet is held against each of them.

## What the runs show

| run | module | question | bounds |
|---|---|---|---|
| `safety` | `MCAnalysisSession` | do session, log and files agree at every moment, under every fault, does every accepted run end and say so, where can its kubeconfig stay, and is the session an implementation of `AnalysisContract`? | 2 analyses, 1 worker thread so that one waits, 3 nodes so that there is a first, a middle and a last |
| `audit` | `MCAnalysisSession` | is the kubeconfig deleted after every run, also one whose audit log cannot be opened? violated | 1 analysis |
| `races` | `MCProgressPage` | does the page end, once, with the truth, and does a completed run reach it? | 1 analysis, 2 nodes, 2 cuts or lost requests, all faults, stall timer |
| `reading` | `MCSnapshotArchive` | are lists and loads right while files are written? | 2 analyses on 2 threads, failing saves, restarts |
| `poisoned` | `MCSnapshotArchive` | do completed results stay in the list? violated | 2 analyses |
| `timeouts` | `MCStallTimer` | do the timeouts of the two threads fit together, does every run end, and when does the page give up on one? | a script of 13 steps with 4 calls of both kinds, pluto and 3 LLM requests; 20, 30, 5 and 90 seconds as 4, 6, 1 and 18 units |
| `slow_llm` | `MCStallTimer` | does a slow LLM cost no more than a summary? violated | 1 call, 3 phases |
| `skew` | `MCPlanExecution` | do the API servers stay in the version skew policy after every command, when do kubelets leave it, and does the plan get through? | 3 control plane nodes (first, middle, last), 2 workers, 3 phases (first, middle, last), kubelets up to 3 minors behind |
| `lagging` | `MCPlanExecution` | does the plan keep kubelets in the policy that start in it? violated | 1 control plane node, 1 worker, 1 phase, kubelets up to 3 minors behind |
| `verdicts` | `MCUpgradeAssessment` | are findings looked up, judged, merged, summarized, scored and assigned to phases consistently? | either 2 resources with guide entries around the boundaries, in one or two documents or twice in one, at most one of them a stage before the release, and 3 minors, or 3 clusters with up to two matrix blocks at each of 2 minors, one that itself says UNKNOWN, and targets out of reach, or libraries with a defect, or the five release notes that are shipped |
| `churn` | `MCClusterCollection` | what holds of the collected data while the cluster changes? | 3 nodes, 2 kinds, 2 changes |
| `silence` | `MCClusterCollection` | does an unanswered call end the run? violated | no change |

The bounds are in the `.cfg` files. They are enough in the sense that every
action occurs and every pair of actors that share state meets in every order;
where a length matters (nodes, phases, files) there are at least three or the
proofs cover all. Ids are symmetric in `reading` and `churn`, which check
invariants only. In `timeouts` the script is one that `run_analysis` can follow;
`PageIsPatient` is proved for every script.

Deadlock is checked in `timeouts`, `slow_llm`, `skew` and `lagging`, where a state without
a step would be a thread that hangs or an operator who is stuck (time may
always pass and nodes may always reboot, so `CallerNeverHangs`, `RunEnds` and
`PlanCompletes` are the stronger checks there). Elsewhere a finished
system has no step, and the cfg says so.

### Fairness

* `AnalysisSession`, `ProgressPage`: a thread that runs goes on
  (`WF(Thread(a))`), because every call it makes has a timeout: the MCP client's
  are modelled in `McpClient`, pluto has 30 seconds, the LLM 30 seconds.
  The fairness of the upload (`OpenKubeconfig`, `StoreKubeconfig`) stands for one that arrives. Requests, faults
  and restarts are never forced. The page's own steps and the generator are fair
  because the browser and the event loop run; `StallAbort` is fair only when no
  event will ever come (`Silent`), where the timer does fire after 90 seconds.
  Since it is not forced while the server knows the session, `PageConcludes` and
  `CompletedReachesPage` show that the replay of the log is enough by itself.
* `McpClient`, `StallTimer`: time passes and both threads run; whoever has
  something to do that needs neither the server nor pluto nor the LLM does it,
  and those two are left alone when their limit is over. Nothing is assumed of
  the server; even its shutdown (`Leave`) may never end.
* `PlanExecution`: the operator goes on.

### Findings

Five runs end in a counterexample on purpose. Each checks one sentence of the
repository's own documentation: `audit` and `poisoned` (the promises about the
kubeconfig and about results on disk), `silence` (the clear error for an
unanswered call), `slow_llm` (an LLM whose failure costs nothing but a summary)
and `lagging` (a kubelet is at most three minors behind the API server).
`PROJECT.json` quotes them. They leave the rest standing: `ScanIsCompleteOrMissed` tells when a scan
can be trusted, `SettledLoads` says that a single result loads whatever happened
to other files, `KubeconfigDeleted` that every run which reaches its `finally`
deletes its file unless the unlink itself raises, `KubeletSkew` that no kubelet
but one that came at the limit is ever too old, and only in the first phase, and
`GivesUpOnlyOnSlowSteps` how many slow steps the page stands.

Things seen while modelling, which no run is spent on:

* The nodes are read twice (`kubernetes.py` keeps its own reading, `node.py:67`
  asks again), although `kubernetes.py:3-5` counts on a cache in the client. A
  node that changes in between is planned twice or not at all;
  `StableNodesPlannedOnce` limits the damage to such nodes.
* On control plane nodes the plan restarts a new kubelet without a drain
  (`planner.py:178-187`), unlike the guide that ships with the program
  (`kubeadm-upgrade-guide.md:28-36`). `WorkersUpgradeDrained` speaks of workers
  only.
* With several control plane nodes the plan restarts the first one's new kubelet
  while the other API servers are still old (`planner.py:186`, before the other
  nodes' `kubeadm upgrade node`), although the policy says that no kubelet is
  newer than an API server (`version-skew-policy.md:19`). Whether it talks to an
  old one is not in the code; `KubeletSkew` bounds the state: one minor, on an
  upgraded control plane node, before any worker is touched.
* The excerpt that stands for a phase's release notes is the best section of the
  notes of all versions (`planner.py:103-108`): with the shipped documents the
  phase to 1.34 gets one of 1.32 (similarity 0.198, against 0.195 for its own),
  although the README speaks of each phase's notes (`README.md:216-219`). The run
  `verdicts` reaches that state; no property speaks of it.
* A request that is answered with 400 or 500 leaves a RUNNING session behind, and
  with it what its upload had written. Nothing deletes a kubeconfig that an
  earlier process left, whole or half written. An unlink that raises in the
  `finally` leaves the file too, and its exception goes to a task that nobody
  awaits; the outcome was announced before and stands.
* A constructor that gives up (`client.py:173`) and a `close()` whose join runs
  out (`client.py:240`) both leave the loop's thread and its process behind, with
  a warning at most. `NoCallForNobody` shows that no kubectl call is running or
  will run there.
* COMPLETED is announced before the snapshot is written
  (`analysis_service.py:114-115`): a restart in between loses a result that
  clients were told of and that `session_store.py:3-4` says is on disk.
* The report is asked for once; when that request is lost the page shows an
  error, and no page of the program reads the snapshots.
* `reference_material`, for which `search_rag` searches, is read by nothing. The
  excerpt of the phase to 1.36 is the list of sources at the end of its notes.
* One document without a frontmatter, or one entry that is about no component,
  fails every run.
* Sessions, their events and reports are never removed from the store
  (`session_store.py:52`).
* pluto is asked about the final version only. `kubeadm upgrade plan` comes
  before the upgrade of the kubeadm package.
* Two versions of one software give one verdict, about the version that is met
  first (`addon.py:136`, `compatibility.py:34`). Of the nodes the first one is
  judged, since differing nodes get a risk of their own; but a node without a
  value is not counted as different (`node.py:99`), so a first node without one
  leaves the others' value unjudged and unmentioned.
* `--service-account-issuer` is in the list of flags that need attention and in
  the list of kubeadm's defaults, so it is never reported.
* In a compatibility matrix an entry without a version pattern that stands first
  hides a more specific one, and a pattern is a prefix of characters: `0.1`
  (`gitjob.md:19`) also reaches `0.13`.

## What is proved

All theorems hold for every value of the constants, under the named assumptions
(`ConstantsAssumption`, `PageAssumption`, `PlanAssumption`, `LimitsAssumption`,
`ScriptAssumption`, `PatienceAssumption`, `InputAssumption`,
`LibraryAssumption`). TLC evaluates each on the runs. Every safety property that
a run expects to hold is stated by a theorem.

`AnalysisSessionProofs`. The invariants that the run `safety` checks are not
inductive: that a COMPLETED session has its report, say, depends on the place
the thread has reached. `IInv` adds, for each analysis, what each place implies:
the status (`StatusByPlace`), the length of the log and what was announced
(`LogByPlace`), the client and the files (`FilesByPlace`), and, from the save
on, that the last event, the status and the snapshot agree (`Verdict`); and that
the executor's queue holds an analysis once and only while it is queued
(`QueueOK`), without which two threads could run one session. The proof shows
that a step changes its own analysis only (`StepFrame`), one lemma per conjunct
for that analysis, and the restart apart. `Invariance` is `Spec => []IInv`;
`TypeCorrect`, `ReportFirst`, `ClientSafe`, `LogIsOnePass`,
`FailureIsExplained`, `EndIsAnnounced`, `OutcomeIsOnDisk` and
`KubeconfigIsDeleted` follow from it, for any number of analyses, graph nodes and
threads and any set of the modelled faults. `KubeconfigIsDeleted` does not claim
that the file is always gone: it names every place where one can stay, and
`done`, the end of a `finally` whose unlink did not raise, is none of them.
`EndIsAnnounced` is the safety half of what `EveryAcceptedRunEnds` checks.

There too, `ImplementsContract` is the refinement that the run `safety` checks as the property `ContractSpec`. Under the mapping in
`AnalysisSession` each write maps to one step of `AnalysisContract`: storing the
session is `Accept`, an event before the end `Advance`, a status `Decide`, a
terminal event `Announce`, a restart `Forget`; every other write is a stutter
(`ThreadIsSeen`, `HandlerIsSeen`), also the status that an exception sets on a run that
is FAILED already. `IInv` gives most guards of the contract; that a session is
in the store before its thread starts is an invariant of its own
(`StoredByPlace`), and that an announced stage stands for its own event needs the
type of the log (`StageIsEvent`).

`ProgressPageProofs`. The page reads the session and never writes it, so the
composition implements `Spec` (`PageUsesSession`) and `IInv` holds in it.
`PageInv` adds what the page has learned: before finishedRef is set nothing was
asked, a request is under way only after COMPLETED was read and before the
outcome is shown, and a page that was refused belongs to a session that a
restart has taken. What the page relies on across the session's steps is
`Grows`: the log only grows, a report stays, a lost session does not come back.
`ToldMeansReady`, `ReportAskedOnce`, `PageIsTruthful` and the action property
`OutcomeStays` follow, for any number of cuts and replays.

`SnapshotArchiveProofs`. `WholeStaysWhole` says that no step takes a whole file
back: only the run that owns it opens it, and `IInv` says that the file is not
whole then. So a file that was whole when a request came still is when its turn
comes (`ArchiveInv`), which is why `AnsweredListIsComplete` and
`SettledResultLoads` hold with any number of threads writing.

`StallTimerProofs`, the client alone. `IInv` says that, as long as the session has not crashed, a
call without an answer is still in the queue with the caller's full time left,
or in the hands of the loop with the caller `Slack` behind (`Pending`), and that
a caller that does not wait has left nothing in the queue. From it follow
`TimeoutMeansBroken` and `NoAnswerTooLate` for any limits and any positive
slack, `TypeCorrect`, and `CallsHaveCallers` (`NoCallForNobody`): a thread may
outlive whoever used it, but while it is in a kubectl call somebody waits for the
answer. That needs the whole of it: the loop gives up on a call before its
caller does, the word to close is queued behind the last answer, and a crashed
loop serves no request that it still finds in the queue.

`StallTimerProofs`, the run. `RunUsesClient` shows that a run with its page implements the
specification of the client: every step of it is a step of the client or leaves
it alone, so the invariants of the client hold inside a run
(`TimeoutInRunMeansBroken`). `TimedInv` says that the page's silence is paid for:
while it watches, the time it has waited, and the time the current step may
still take, are together at most as many times the longest limit as there are
steps it has seen time pass in (`Budget`). Passing time keeps it because a step
that has begun has less left by one unit; the end of a step keeps it because
nothing is left to pay; an event clears it. It needs to know which step is under
way and that time never passes between two (`RunFacts`). With
`PatienceAssumption`, which says that `Patience` such steps are shorter than
`AbortAfter`, `PageIsPatient` follows: the page gives up only after more than
`Patience` slow steps without an event, for every script and every limit. With
the limits of the code, two: 90 seconds against twice 35.

`PlanExecutionProofs`. The operators of `UpgradePlanner` build sequences of any
length, so the proof begins with what they contain: the path rises by one minor
at a time (`PathRises`), the steps are the control plane nodes and then the
workers, no node twice (`StepsInOrder`, `OneStepEach`), and every step has the
same four commands, after one more on the first node and the workers
(`CommandsInOrder`). `PlanInv` then says that the operator's position determines
the version of every component: `ApiByPosition` and `KubeletByPosition` give it
by the commands that were run in this phase (`Ran`), up to the lag of the first
phase and to a reboot between the package and the restart. The end of a phase
keeps it because every node is then at the version where the next one starts.
From it follow `ApisAgree`, `KubeadmAccepts`, `WorkersAreDrained`,
`KubeletsLeaveSkewOnlySo` and `EndIsTarget`, the safety half of `PlanCompletes`.
That kubelets stay within the policy is false for `MaxLag = 3` (the run
`lagging`); what holds for every `MaxLag`, and is proved, is that they leave it
in two ways only: `LeadIsBounded` (a lead of one minor, on an upgraded control
plane node, while another one's turn is to come) and `LagComesFromTheStart` (a
kubelet that started at the limit, in the first phase). The effects of the commands are those assumed of kubeadm and
the packages; what is proved is that the plan uses them in a safe order.

`ClusterCollectionProofs`. `CollectInv` says that every reading, cached or new,
is right about the nodes that have not changed since the run began
(`StableNodesHaveOneStep`), and that the kinds asked for are those the server
has, or all of them (`ScanFindsAll`).

`ListsProofs`. The judging code is made of loops over lists, so its theorems need
what a loop computes for a list of any length. The library's induction theorems
take an operator, which the provers cannot instantiate; `Induction` is therefore
stated about a set of naturals, and proved from the library's fact that the
strict subsets of a finite set are well-founded (`Least`). `FoldExists` gives the
function that the community modules' fold chooses, and from it each loop is a
sequence of states (`BestOfStates`, `FlattenStates`). By induction over them,
`BestOfFacts`: a dict that is filled with the best element per key ends with one
element per key, the earliest of the highest rank, in the order in which the keys
were first met. `FlattenFacts` says that nested loops append every element once
and in order, `KeepInFacts` that a condition keeps the order, `TotalFacts` that a
sum is at least each summand.

`UpgradeAssessmentProofs`. The graph is sequential, so the inductive invariant
(`Invariant`) says that what each node has written is the value of its operators
at the inputs and at what earlier nodes wrote. That
pluto may fail is in it as a choice: the findings are merged with its list or
with the empty one.
The rest is about the operators:

* `SummariesAreRight` (`SummaryIsFirstWorst`). A summary keeps per name the
  earliest element of the worst status. That this is also the earliest *version*
  needs the findings of a resource to stand in rising order of versions
  (`Ascends`). For compatibility that is the order of the loops (`CompatFacts`). For
  APIs it has to survive the second scanner, which looks at the final version
  only and whose findings come last: `MergeFacts` shows that the merge keeps the
  place of the first finding per resource and version, and `AllFindings` that
  these first places ascend.
* `RemovedBlocks` (`RemovedLiveObjectBlocks`). The first document that knows an
  API decides it (`LookupDeprecated`, `FirstToldFacts`); `FindingsFacts` gives a
  blocker at every version from the removal on, `MergeFacts` says that no other
  finding replaces it by a lesser one, `ApiSummaryFacts` carries it to the risks,
  and `BlockersCount` to the score.
* `VerdictsHaveEvidence` (`NoVerdictWithoutEvidence`) on the one side,
  `MatricesAreUsed` (`CompatEvidenceIsUsed`) and `GuidesAreUsed`
  (`ApiEvidenceIsUsed`) on the other are the two directions of
  `LookupCompatibility` and `LookupDeprecated`, over `IndexCompat`, which says that the index holds the
  entries of every matrix block of every document and nothing else.
* `SoftwareIsJudged` (`InstalledSoftwareIsJudged`). Of the images, the inventory
  keeps one element per name and namespace and the components one per name
  (`ComponentsFacts`, from `FirstPerKey`), and each component has one verdict per
  version, so exactly one verdict is left for any software and version.
* `RisksAreShown` (`RisksReachTheirPhase`). A risk with a step comes from an
  element of a summary, so from one of the findings (`RisksFacts`), whose version
  is one of the path's and so that of a phase (`PhasesFacts`).

They assume of the inputs that lists are lists and that versions are versions,
and of a guide's entry that its two versions are naturals
(`LibraryAssumption`): an entry that names no version is given one that no
cluster has, as the code never compares it. Which documents exist, what they say,
in which order, and how often they say it is not restricted; the two readings
`Removed` (every entry of the deciding document) and `SaidRemoved` (one of them)
tell such documents apart. `CompatEvidenceIsUsed` allows for a document that itself
gives the status UNKNOWN. The run `verdicts` has documents of both kinds.

Only model-checked: liveness (`EveryAcceptedRunEnds`, `PageConcludes`,
`CompletedReachesPage`, `CallerNeverHangs`, `CloseEndsLoop`, `RunEnds`,
`PlanCompletes`), because the prover does not handle fairness and ENABLED. The
ranking of the search (`SetToSortSeq`) is left to TLC, too: no safety property of
the verdicts depends on it. What the five runs that end in a counterexample check
is false and has no theorem.

## What is not modelled

The words of the documents and their ranking by TF-IDF, the texts of the LLM,
the connection form, the report pages, the mock client, settings, data models
and the deployment scripts: they have no state that an order of steps could
disturb, or are data. Of the collectors, the names of CNI, CSI, ingress and CRD
owners and the certificate dates, which are shown and judged by nobody. Of the
plan, the checks before a phase, which advise and change nothing.

## Plan

Done: the session with its contract, the page, the archive, the MCP client, a
run and its page in time, the collection with its inferences, the documents, the
assessment and the plan; proofs of every safety property that the runs check. In
order of importance, still to do:

1. Theorems beyond the runs' properties: that the search returns at most `top_k`
   sections, best first, and that the list of versions misses none; that a
   further risk never raises the score.
2. The composition of `ClusterCollection` with `UpgradeAssessment` and
   `McpClient`, so that failed calls reach the report.
3. The connection page with its submit guard, and two pages of one analysis.
