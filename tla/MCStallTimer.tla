---------------------------- MODULE MCStallTimer ----------------------------
(***************************************************************************)
(* Limits in units of 5 seconds: 20, 30 and 5 for the client, 30 for pluto *)
(* and the LLM, 90 for the page.                                           *)
(***************************************************************************)
EXTENDS StallTimer

\* Two nodes that call kubectl and swallow the failure of their last call,
\* one that does not call, pluto's, and a plan of two phases with an LLM.
ScriptDef ==
  <<"strict", "strict", "lenient", "event", "event", "lenient", "event",
    "scan", "event", "summary", "summary", "event", "summary">>

\* A plan of three phases.
ThreePhases ==
  <<"strict", "event", "summary", "summary", "summary", "event", "summary">>
=============================================================================
