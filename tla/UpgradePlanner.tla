--------------------------- MODULE UpgradePlanner ---------------------------
(***************************************************************************)
(* agents/planner.py: the upgrade path and the steps of each phase.        *)
(* A version keeps its major and minor number; the commands of a phase     *)
(* name nothing finer.  A command keeps its kind; its node is the step's.  *)
(***************************************************************************)
EXTENDS Naturals, Sequences

Version == [major : Nat, minor : Nat]

\* compute_upgrade_path raises ValueError for any other pair.
Upgradable(current, target) ==
  /\ target.major = current.major
  /\ target.minor > current.minor

\* The current version, every minor strictly between, and the target.
compute_upgrade_path(current, target) ==
  <<current>>
  \o [i \in 1..(target.minor - current.minor - 1)
        |-> [current EXCEPT !.minor = @ + i]]
  \o <<target>>

\* Seeded fault: the kubelet comes before kubeadm's own step.
ControlPlaneKubeletFirst(idx) ==
  <<"kubelet", "restart", "kubeadm">>
  \o IF idx = 1 THEN <<"apply">> ELSE <<"node">>

\* Seeded fault: kubeadm upgrade node is forgotten.
ControlPlaneFirstOnly(idx) ==
  (IF idx = 1 THEN <<"plan", "kubeadm", "apply">> ELSE <<"kubeadm">>)
  \o <<"kubelet", "restart">>

\* The first node in order applies the new version, the others follow it.
ControlPlaneCommands(idx) ==
  (IF idx = 1 THEN <<"plan", "kubeadm", "apply">> ELSE <<"kubeadm", "node">>)
  \o <<"kubelet", "restart">>

\* Seeded fault: the kubelet is forgotten.
WorkerKubeletForgotten == <<"drain", "kubeadm", "node", "uncordon">>

\* Seeded fault: no uncordon at the end.
WorkerStaysCordoned == <<"drain", "kubeadm", "node", "kubelet", "restart">>

\* Seeded fault: the node is given back before its kubelet restarts.
WorkerUncordonsEarly ==
  <<"drain", "kubeadm", "node", "uncordon", "kubelet", "restart">>

WorkerCommands ==
  <<"drain", "kubeadm", "node", "kubelet", "restart", "uncordon">>

\* Seeded fault: the workers come first.
WorkersFirst(cp, workers) ==
  [i \in 1..Len(workers) |-> [node |-> workers[i], commands |-> WorkerCommands]]
  \o [i \in 1..Len(cp) |-> [node |-> cp[i], commands |-> ControlPlaneCommands(i)]]

\* The steps of one phase, in the order in which the report shows them.
PhaseSteps(cp, workers) ==
  [i \in 1..Len(cp) |-> [node |-> cp[i], commands |-> ControlPlaneCommands(i)]]
  \o [i \in 1..Len(workers) |-> [node |-> workers[i], commands |-> WorkerCommands]]

\* build_upgrade_plan: is_final, for the phase that ends at path[i + 1].
IsFinal(path, i) == i = Len(path) - 1
=============================================================================
