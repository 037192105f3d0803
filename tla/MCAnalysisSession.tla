------------------------- MODULE MCAnalysisSession -------------------------
(***************************************************************************)
(* Instances of AnalysisSession for TLC: one to three analyses with few    *)
(* threads, and the faults that each question asks about.                  *)
(***************************************************************************)
EXTENDS AnalysisSession
=============================================================================
