-------------------------- MODULE AnalysisContract --------------------------
(***************************************************************************)
(* What the REST and SSE API lets a client rely on about an analysis,      *)
(* without threads, files or clients: an outcome and an append-only log of *)
(* stages.  AnalysisSession implements it.                                 *)
(***************************************************************************)
EXTENDS Naturals, Sequences

CONSTANTS Analyses, Stages

VARIABLES
  outcome,  \* "absent", "RUNNING", "COMPLETED" or "FAILED"
  log       \* the stages announced so far

cvars == <<outcome, log>>

Terminal == {"COMPLETED", "FAILED"}

CInit ==
  /\ outcome = [a \in Analyses |-> "absent"]
  /\ log = [a \in Analyses |-> <<>>]

Accept(a) ==
  /\ outcome[a] = "absent"
  /\ outcome' = [outcome EXCEPT ![a] = "RUNNING"]
  /\ UNCHANGED log

\* Progress is announced only while the analysis runs.
Advance(a) ==
  /\ outcome[a] = "RUNNING"
  /\ \E s \in Stages \ Terminal : log' = [log EXCEPT ![a] = Append(@, s)]
  /\ UNCHANGED outcome

\* A running analysis completes or fails; a completed one may still fail.
Decide(a) ==
  /\ \/ outcome[a] = "RUNNING" /\ outcome' = [outcome EXCEPT ![a] = "COMPLETED"]
     \/ /\ outcome[a] \in {"RUNNING", "COMPLETED"}
        /\ outcome' = [outcome EXCEPT ![a] = "FAILED"]
  /\ UNCHANGED log

\* An outcome is announced only once it is decided, and only once.
Announce(a) ==
  /\ outcome[a] \in Terminal
  /\ \A i \in DOMAIN log[a] : log[a][i] # outcome[a]
  /\ log' = [log EXCEPT ![a] = Append(@, outcome[a])]
  /\ UNCHANGED outcome

\* A restart forgets every analysis.
Forget ==
  /\ outcome' = [a \in Analyses |-> "absent"]
  /\ log' = [a \in Analyses |-> <<>>]

CNext ==
  \/ Forget
  \/ \E a \in Analyses : Accept(a) \/ Advance(a) \/ Decide(a) \/ Announce(a)

CSpec == CInit /\ [][CNext]_cvars
=============================================================================
