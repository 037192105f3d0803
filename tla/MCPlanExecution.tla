-------------------------- MODULE MCPlanExecution --------------------------
(***************************************************************************)
(* Instances of PlanExecution for TLC: a cluster with several nodes of     *)
(* both kinds, and a small one for the way out of the skew policy.         *)
(***************************************************************************)
EXTENDS PlanExecution
ControlPlaneDef == <<"cp1", "cp2", "cp3">>
WorkersDef == <<"w1", "w2">>
SingleControlPlane == <<"cp1">>
OneWorker == <<"w1">>
=============================================================================
