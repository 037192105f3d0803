--------------------------- MODULE MCProgressPage ---------------------------
(***************************************************************************)
(* Instances of ProgressPage for TLC.                                      *)
(***************************************************************************)
EXTENDS ProgressPage
=============================================================================
