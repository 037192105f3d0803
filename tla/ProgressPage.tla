---------------------------- MODULE ProgressPage ----------------------------
(***************************************************************************)
(* The browser's side of an analysis composed with the server's: the SSE   *)
(* generator of routes.py, the EventSource that reconnects and replays,    *)
(* AnalysisProgressPage with its finishedRef and stall timer, and the      *)
(* report request it makes when it sees COMPLETED.                         *)
(*                                                                         *)
(* Every analysis has at most one page.  The events in flight need no      *)
(* variable: the log is append-only, so they are events[recv+1..sent].     *)
(***************************************************************************)
EXTENDS AnalysisSession

CONSTANTS
  MaxDrops   \* bound: how often the network fails one page

ASSUME PageAssumption == MaxDrops \in Nat

VARIABLES
  view,      \* what App shows for this analysis
  finished,  \* finishedRef.current
  stream,    \* the EventSource: "down" (connecting), "open" or "dead"
  gen,       \* event_generator: "drain" (inner while) or "check" (status)
  sent,      \* the generator's index into session.events
  recv,      \* events of this connection that the page has handled
  fetch,     \* GET /report: "idle" or how far the handler has come
  asked,     \* history: report requests this page has made
  drops      \* history: cuts and lost requests so far

pageVars == <<view, finished, stream, gen, sent, recv, fetch, asked, drops>>
allVars  == <<vars, pageVars>>

\* "connect" before the id arrives; "progress"; then how the page ended, and
\* "left".  "refused" is a 409 or 404, "crashed" a failed assertion,
\* "explained" a 500 that carries session.error, "unexplained" one that
\* carries None, "lost" a request without an answer.
Outcomes == {"report", "failed", "refused", "explained", "unexplained",
             "crashed", "lost", "stalled"}
Views    == {"connect", "progress", "left"} \cup Outcomes

PageTypeOK ==
  /\ view \in [Analyses -> Views]
  /\ finished \in [Analyses -> BOOLEAN]
  /\ stream \in [Analyses -> {"down", "open", "dead"}]
  /\ gen \in [Analyses -> {"drain", "check"}]
  /\ sent \in [Analyses -> Nat] /\ recv \in [Analyses -> Nat]
  /\ \A a \in Analyses : recv[a] <= sent[a] /\ sent[a] <= Len(events[a])
  /\ fetch \in [Analyses -> {"idle", "asked", "ended", "succeeded", "failed"}]
  /\ asked \in [Analyses -> Nat]
  /\ drops \in [Analyses -> 0..MaxDrops]

PageInit ==
  /\ view = [a \in Analyses |-> "connect"]
  /\ finished = [a \in Analyses |-> FALSE]
  /\ stream = [a \in Analyses |-> "down"]
  /\ gen = [a \in Analyses |-> "drain"]
  /\ sent = [a \in Analyses |-> 0]
  /\ recv = [a \in Analyses |-> 0]
  /\ fetch = [a \in Analyses |-> "idle"]
  /\ asked = [a \in Analyses |-> 0]
  /\ drops = [a \in Analyses |-> 0]

Show(a, v) == view' = [view EXCEPT ![a] = v]

----------------------------------------------------------------------------
(* The page                                                                *)

\* The POST has returned the id: onStarted mounts the progress page.
OpenPage(a) ==
  /\ view[a] = "connect"
  /\ pc[a] \in {"queued", "aborted"} \cup Finished \cup InThread
  /\ Show(a, "progress")
  /\ UNCHANGED <<vars, finished, stream, gen, sent, recv, fetch, asked, drops>>

\* Seeded fault: a subscriber is attached to what comes after it only, as
\* it would be to a queue that others have already emptied.
ConnectAtEnd(a) ==
  /\ view[a] # "connect" /\ stream[a] = "down"
  /\ IF a \in known
     THEN /\ stream' = [stream EXCEPT ![a] = "open"]
          /\ gen' = [gen EXCEPT ![a] = "drain"]
          /\ sent' = [sent EXCEPT ![a] = Len(events[a])]
          /\ recv' = [recv EXCEPT ![a] = Len(events[a])]
     ELSE /\ stream' = [stream EXCEPT ![a] = "dead"]
          /\ UNCHANGED <<gen, sent, recv>>
  /\ UNCHANGED <<vars, view, finished, fetch, asked, drops>>

\* Seeded fault: the server replays, and the page counts on.
ConnectCountingOn(a) ==
  /\ view[a] # "connect" /\ stream[a] = "down"
  /\ IF a \in known
     THEN /\ stream' = [stream EXCEPT ![a] = "open"]
          /\ gen' = [gen EXCEPT ![a] = "drain"]
          /\ sent' = [sent EXCEPT ![a] = 0]
          /\ UNCHANGED recv
     ELSE /\ stream' = [stream EXCEPT ![a] = "dead"]
          /\ UNCHANGED <<gen, sent, recv>>
  /\ UNCHANGED <<vars, view, finished, fetch, asked, drops>>

\* The EventSource (re)connects: a new generator replays from the start.  A
\* 404 ends it for good.
ConnectStream(a) ==
  /\ view[a] # "connect" /\ stream[a] = "down"
  /\ IF a \in known
     THEN /\ stream' = [stream EXCEPT ![a] = "open"]
          /\ gen' = [gen EXCEPT ![a] = "drain"]
          /\ sent' = [sent EXCEPT ![a] = 0]
          /\ recv' = [recv EXCEPT ![a] = 0]
     ELSE /\ stream' = [stream EXCEPT ![a] = "dead"]
          /\ UNCHANGED <<gen, sent, recv>>
  /\ UNCHANGED <<vars, view, finished, fetch, asked, drops>>

\* Seeded fault: no finishedRef; every replay of COMPLETED asks again.
HandleEventUnguarded(a) ==
  /\ stream[a] = "open" /\ recv[a] < sent[a]
  /\ recv' = [recv EXCEPT ![a] = @ + 1]
  /\ LET e == events[a][recv[a] + 1] IN
     CASE e = Completed ->
            /\ finished' = [finished EXCEPT ![a] = TRUE]
            /\ fetch' = [fetch EXCEPT ![a] = "asked"]
            /\ asked' = [asked EXCEPT ![a] = @ + 1]
            /\ UNCHANGED view
       [] e = Failed ->
            /\ finished' = [finished EXCEPT ![a] = TRUE]
            /\ Show(a, "failed")
            /\ UNCHANGED <<fetch, asked>>
       [] OTHER -> UNCHANGED <<view, finished, fetch, asked>>
  /\ UNCHANGED <<vars, stream, gen, sent, drops>>

\* onmessage: the callback of AnalysisProgressPage.
HandleEvent(a) ==
  /\ stream[a] = "open" /\ recv[a] < sent[a]
  /\ recv' = [recv EXCEPT ![a] = @ + 1]
  /\ LET e == events[a][recv[a] + 1] IN
     CASE ~finished[a] /\ e = Completed ->
            /\ finished' = [finished EXCEPT ![a] = TRUE]
            /\ fetch' = [fetch EXCEPT ![a] = "asked"]
            /\ asked' = [asked EXCEPT ![a] = @ + 1]
            /\ UNCHANGED view
       [] ~finished[a] /\ e = Failed ->
            /\ finished' = [finished EXCEPT ![a] = TRUE]
            /\ Show(a, "failed")
            /\ UNCHANGED <<fetch, asked>>
       [] OTHER -> UNCHANGED <<view, finished, fetch, asked>>
  /\ UNCHANGED <<vars, stream, gen, sent, drops>>

\* Seeded fault: the timer does not look at finishedRef.
StallAbortUnguarded(a) ==
  /\ view[a] = "progress"
  /\ finished' = [finished EXCEPT ![a] = TRUE]
  /\ Show(a, "stalled")
  /\ UNCHANGED <<vars, stream, gen, sent, recv, fetch, asked, drops>>

\* Seeded fault: the timer is armed by the first event.
StallAbortAfterEvent(a) ==
  /\ view[a] = "progress" /\ ~finished[a] /\ recv[a] > 0
  /\ finished' = [finished EXCEPT ![a] = TRUE]
  /\ Show(a, "stalled")
  /\ UNCHANGED <<vars, stream, gen, sent, recv, fetch, asked, drops>>

\* The one-second timer finds 90 seconds without an event.  Time is not
\* modelled: any silence may turn out to be that long.
StallAbort(a) ==
  /\ view[a] = "progress" /\ ~finished[a]
  /\ finished' = [finished EXCEPT ![a] = TRUE]
  /\ Show(a, "stalled")
  /\ UNCHANGED <<vars, stream, gen, sent, recv, fetch, asked, drops>>

\* React unmounts the page some time after App left the progress view; the
\* effect's cleanup closes the EventSource.
Unmount(a) ==
  /\ view[a] \in Outcomes /\ stream[a] # "dead"
  /\ stream' = [stream EXCEPT ![a] = "dead"]
  /\ UNCHANGED <<vars, view, finished, gen, sent, recv, fetch, asked, drops>>

\* reset: the user goes back to the first page, by a button of the render
\* that unmounted this one.
Reset(a) ==
  /\ view[a] \in Outcomes /\ stream[a] = "dead"
  /\ Show(a, "left")
  /\ UNCHANGED <<vars, finished, stream, gen, sent, recv, fetch, asked, drops>>

----------------------------------------------------------------------------
(* The event loop: stream_analysis_events and get_analysis_report          *)

\* The inner while: yield the next event, or leave it when all are sent.
Drain(a) ==
  /\ stream[a] = "open" /\ gen[a] = "drain"
  /\ IF sent[a] < Len(events[a])
     THEN sent' = [sent EXCEPT ![a] = @ + 1] /\ UNCHANGED gen
     ELSE gen' = [gen EXCEPT ![a] = "check"] /\ UNCHANGED sent
  /\ UNCHANGED <<vars, view, finished, stream, recv, fetch, asked, drops>>

\* The status is read after the log was drained, so a status set in between
\* ends the stream before its terminal event.  What is under way arrives
\* before the browser sees the end and reconnects.
CheckStatus(a) ==
  /\ stream[a] = "open" /\ gen[a] = "check"
  /\ IF status[a] = "RUNNING"
     THEN gen' = [gen EXCEPT ![a] = "drain"] /\ UNCHANGED stream
     ELSE /\ recv[a] = sent[a]
          /\ stream' = [stream EXCEPT ![a] = "down"]
          /\ UNCHANGED gen
  /\ UNCHANGED <<vars, view, finished, sent, recv, fetch, asked, drops>>

\* The network cuts the connection, events under way included.
Drop(a) ==
  /\ stream[a] = "open" /\ drops[a] < MaxDrops
  /\ drops' = [drops EXCEPT ![a] = @ + 1]
  /\ stream' = [stream EXCEPT ![a] = "down"]
  /\ UNCHANGED <<vars, view, finished, gen, sent, recv, fetch, asked>>

Answer(a, v) == Show(a, v) /\ fetch' = [fetch EXCEPT ![a] = "idle"]
Proceed(a, to) == fetch' = [fetch EXCEPT ![a] = to] /\ UNCHANGED view

\* GET /report reads session.status twice, then the error or the report;
\* the worker thread runs in between.
FirstStatusRead(a) ==
  /\ fetch[a] = "asked"
  /\ IF a \notin known \/ status[a] = "RUNNING"
     THEN Answer(a, "refused") ELSE Proceed(a, "ended")
  /\ UNCHANGED <<vars, finished, stream, gen, sent, recv, asked, drops>>

SecondStatusRead(a) ==
  /\ fetch[a] = "ended"
  /\ Proceed(a, IF status[a] = "FAILED" THEN "failed" ELSE "succeeded")
  /\ UNCHANGED <<vars, finished, stream, gen, sent, recv, asked, drops>>

LastRead(a) ==
  /\ \/ /\ fetch[a] = "failed"
        /\ Answer(a, IF error[a] THEN "explained" ELSE "unexplained")
     \/ /\ fetch[a] = "succeeded"
        /\ Answer(a, IF report[a] THEN "report" ELSE "crashed")
  /\ UNCHANGED <<vars, finished, stream, gen, sent, recv, asked, drops>>

\* The request or its answer is lost: fetch rejects, and nobody asks again.
LoseReport(a) ==
  /\ fetch[a] # "idle" /\ drops[a] < MaxDrops
  /\ Answer(a, "lost")
  /\ drops' = [drops EXCEPT ![a] = @ + 1]
  /\ UNCHANGED <<vars, finished, stream, gen, sent, recv, asked>>

----------------------------------------------------------------------------
Page(a) == OpenPage(a) \/ StallAbort(a) \/ Unmount(a) \/ Reset(a)

Subscription(a) ==
  ConnectStream(a) \/ HandleEvent(a) \/ Drain(a) \/ CheckStatus(a)

GetReport(a) == FirstStatusRead(a) \/ SecondStatusRead(a) \/ LastRead(a)

\* A restart cuts every connection; a report request under way fails.
RestartServer ==
  /\ Restart
  /\ stream' = [a \in Analyses |->
                  IF stream[a] = "open" THEN "down" ELSE stream[a]]
  /\ view' = [a \in Analyses |->
                IF fetch[a] # "idle" THEN "refused" ELSE view[a]]
  /\ fetch' = [a \in Analyses |-> "idle"]
  /\ UNCHANGED <<finished, gen, sent, recv, asked, drops>>

PageNext ==
  \/ RestartServer
  \/ \E a \in Analyses :
       \/ (Handler(a) \/ Thread(a)) /\ UNCHANGED pageVars
       \/ Page(a) \/ Subscription(a) \/ GetReport(a)
       \/ Drop(a) \/ LoseReport(a)

\* No event will come any more: only the timer can end this wait.
Silent(a) == stream[a] = "dead" \/ (pc[a] = "aborted" /\ recv[a] = Len(events[a]))

PageFairness ==
  \A a \in Analyses :
    /\ WF_allVars((OpenKubeconfig(a) \/ StoreKubeconfig(a)) /\ UNCHANGED pageVars)
    /\ WF_allVars(Thread(a) /\ UNCHANGED pageVars)
    /\ WF_allVars(ConnectStream(a))
    /\ WF_allVars(HandleEvent(a))
    /\ WF_allVars(Drain(a))
    /\ WF_allVars(CheckStatus(a))
    /\ WF_allVars(GetReport(a))
    /\ WF_allVars(Silent(a) /\ StallAbort(a))

PageSpec     == Init /\ PageInit /\ [][PageNext]_allVars
FairPageSpec == PageSpec /\ PageFairness

----------------------------------------------------------------------------
(* Properties                                                              *)

(* The COMPLETED event is the page's licence to fetch: by the time it      *)
(* arrives the report is there, and the request never meets a session      *)
(* that is still RUNNING nor trips the handler's assertion.  Only a        *)
(* restart may refuse it.                                                  *)
ReportReadyWhenTold ==
  \A a \in Analyses :
    /\ view[a] # "crashed"
    /\ view[a] = "refused" => a \notin known

(* However often the log is replayed, the report is asked for once.        *)
AskedOnce == \A a \in Analyses : asked[a] <= 1

(* A page that shows FAILED shows the end of that run: the session has     *)
(* failed and says why; a report on screen is one the session holds.       *)
PageTellsTheTruth ==
  \A a \in Analyses :
    /\ view[a] = "failed" => status[a] = "FAILED" /\ error[a]
    /\ view[a] = "report" => report[a] /\ Announced(a, Completed)

(* What App shows at the end is final: no late event, late answer or timer *)
(* replaces a report by an error or an error by a report, nor brings a     *)
(* page back that the user has left, over the one that came after it.      *)
OutcomeIsFinal ==
  [][\A a \in Analyses :
       view[a] \in Outcomes \cup {"left"} => view'[a] \in {view[a], "left"}]_allVars

(* A page that waits comes to an end, by the report, by an error or, when  *)
(* nothing more will come, by the stall timer: the race in CheckStatus and *)
(* the cuts of the network are healed by the replay.                       *)
PageConcludes ==
  \A a \in Analyses : view[a] = "progress" ~> view[a] \in Outcomes

(* The page of a run that completed and was not taken back ends with its   *)
(* report, unless the one request for it was lost, the stall timer had     *)
(* given up or a restart took the session; the timer is never forced while *)
(* the session is known, so the replay alone has to bring the report.      *)
CompletedReachesPage ==
  \A a \in Analyses :
    (view[a] = "progress" /\ pc[a] \in Finished /\ status[a] = "COMPLETED")
      ~> (view[a] \in {"report", "lost", "stalled"} \/ a \notin known)

----------------------------------------------------------------------------
(* What the page has done tells what it has read.                          *)

\* finishedRef is set by the first outcome the page learns of, and a report
\* request is under way only between COMPLETED and the outcome.
PageLocal(a) ==
  /\ view[a] = "connect" => stream[a] = "down" /\ ~finished[a]
  /\ view[a] # "connect" => pc[a] # "none"
  /\ ~finished[a] => view[a] \in {"connect", "progress"} /\ asked[a] = 0
  /\ asked[a] <= 1
  /\ fetch[a] # "idle" =>
       view[a] = "progress" /\ finished[a] /\ Announced(a, Completed)
  /\ fetch[a] = "succeeded" => report[a]
  /\ view[a] # "crashed"
  /\ view[a] = "refused" => a \notin known
  /\ view[a] = "failed" => Announced(a, Failed)
  /\ view[a] = "report" => report[a] /\ Announced(a, Completed)

(* With the invariant of the session it is inductive.                      *)
PageInv == PageTypeOK /\ \A a \in Analyses : PageLocal(a)
=============================================================================
