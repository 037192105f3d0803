---------------------------- MODULE PlanExecution ----------------------------
(***************************************************************************)
(* What the plan of UpgradePlanner does to a cluster.  The program never   *)
(* runs it: an operator does, command by command in the order of the       *)
(* report, and repeats a command that failed.  kubeadm, the packages and   *)
(* the kubelets are external and modelled by the effect of the commands    *)
(* the plan names.  A node may reboot between any two commands.            *)
(***************************************************************************)
EXTENDS UpgradePlanner, Integers

CONSTANTS
  ControlPlane, \* the control plane nodes, sorted by name
  WorkerNodes,  \* the worker nodes, sorted by name
  Current,      \* the minor version of the cluster
  Target,       \* the minor version asked for
  MaxLag        \* how far a kubelet may be behind at the start

NodesOf(s) == {s[i] : i \in DOMAIN s}
CpNodes == NodesOf(ControlPlane)
Nodes   == CpNodes \cup NodesOf(WorkerNodes)

Distinct(s) == \A i, j \in DOMAIN s : s[i] = s[j] => i = j

\* The names of nodes are distinct.
ASSUME PlanAssumption ==
  /\ ControlPlane \in Seq(CpNodes) /\ Distinct(ControlPlane)
  /\ WorkerNodes \in Seq(NodesOf(WorkerNodes)) /\ Distinct(WorkerNodes)
  /\ ControlPlane # <<>>
  /\ Current \in Nat /\ Target \in Nat /\ Current < Target
  /\ MaxLag \in Nat /\ MaxLag <= Current
  /\ CpNodes \cap NodesOf(WorkerNodes) = {}

VARIABLES
  phase,    \* number of the phase the operator is in
  step,     \* number of the step in the phase
  command,  \* number of the command in the step
  api,      \* api[n]: minor of the static pods on control plane node n
  config,   \* minor that the cluster's kubeadm configuration names
  kubeadm,  \* kubeadm[n]: minor of the installed kubeadm
  package,  \* package[n]: minor of the installed kubelet
  kubelet,  \* kubelet[n]: minor of the running kubelet
  cordoned, \* the nodes that are drained
  extended  \* extended[n]: the certificates of n have their long lifetime

position == <<phase, step, command>>
vars == <<position, api, config, kubeadm, package, kubelet, cordoned, extended>>

Path == compute_upgrade_path([major |-> 1, minor |-> Current],
                             [major |-> 1, minor |-> Target])
Phases == Len(Path) - 1
Steps  == PhaseSteps(ControlPlane, WorkerNodes)

\* The kubelets of a cluster may lag behind; the rest is at one version.
Init ==
  /\ phase = 1 /\ step = 1 /\ command = 1
  /\ api = [n \in CpNodes |-> Current]
  /\ config = Current
  /\ kubeadm = [n \in Nodes |-> Current]
  /\ package \in [Nodes -> (Current - MaxLag)..Current]
  /\ kubelet = package
  /\ cordoned = {}
  /\ extended = [n \in CpNodes |-> TRUE]

To == Path[phase + 1].minor

\* The operator is about to run command c on node n.
At(n, c) ==
  /\ phase <= Phases /\ step <= Len(Steps)
  /\ Steps[step].node = n
  /\ Steps[step].commands[command] = c

Advance ==
  /\ phase' = phase
  /\ IF command < Len(Steps[step].commands)
     THEN command' = command + 1 /\ step' = step
     ELSE command' = 1 /\ step' = step + 1

----------------------------------------------------------------------------
(* kubeadm upgrade plan only prints.                                       *)
UpgradePlan(n) ==
  /\ At(n, "plan") /\ Advance
  /\ UNCHANGED <<api, config, kubeadm, package, kubelet, cordoned, extended>>

\* dnf install -y kubeadm-<minor>*
InstallKubeadm(n) ==
  /\ At(n, "kubeadm") /\ Advance
  /\ kubeadm' = [kubeadm EXCEPT ![n] = To]
  /\ UNCHANGED <<api, config, package, kubelet, cordoned, extended>>

\* What kubeadm demands before it upgrades the first node, and any other.
AcceptsApply(n) == kubeadm[n] = To /\ config <= To /\ To <= config + 1
AcceptsNode(n)  == kubeadm[n] = To /\ config = To

\* kubeadm upgrade apply v<minor>.0: new static pods, new configuration and
\* certificates of one year.
UpgradeApply(n) ==
  /\ At(n, "apply") /\ AcceptsApply(n) /\ Advance
  /\ api' = [api EXCEPT ![n] = To]
  /\ config' = To
  /\ extended' = [extended EXCEPT ![n] = FALSE]
  /\ UNCHANGED <<kubeadm, package, kubelet, cordoned>>

\* kubeadm upgrade node: on a control plane node as apply, without the
\* configuration; on a worker only the kubelet's configuration.
UpgradeNode(n) ==
  /\ At(n, "node") /\ AcceptsNode(n) /\ Advance
  /\ IF n \in CpNodes
     THEN /\ api' = [api EXCEPT ![n] = To]
          /\ extended' = [extended EXCEPT ![n] = FALSE]
     ELSE UNCHANGED <<api, extended>>
  /\ UNCHANGED <<config, kubeadm, package, kubelet, cordoned>>

\* dnf install -y kubelet-<minor>* kubectl-<minor>*
InstallKubelet(n) ==
  /\ At(n, "kubelet") /\ Advance
  /\ package' = [package EXCEPT ![n] = To]
  /\ UNCHANGED <<api, config, kubeadm, kubelet, cordoned, extended>>

RestartKubelet(n) ==
  /\ At(n, "restart") /\ Advance
  /\ kubelet' = [kubelet EXCEPT ![n] = package[n]]
  /\ UNCHANGED <<api, config, kubeadm, package, cordoned, extended>>

Drain(n) ==
  /\ At(n, "drain") /\ Advance
  /\ cordoned' = cordoned \cup {n}
  /\ UNCHANGED <<api, config, kubeadm, package, kubelet, extended>>

Uncordon(n) ==
  /\ At(n, "uncordon") /\ Advance
  /\ cordoned' = cordoned \ {n}
  /\ UNCHANGED <<api, config, kubeadm, package, kubelet, extended>>

\* The post-checks end a phase.  Those of the last one have the operator
\* extend the certificates again.
EndPhase ==
  /\ phase <= Phases /\ step = Len(Steps) + 1
  /\ phase' = phase + 1 /\ step' = 1 /\ command' = 1
  /\ extended' = IF IsFinal(Path, phase)
                 THEN [n \in CpNodes |-> TRUE] ELSE extended
  /\ UNCHANGED <<api, config, kubeadm, package, kubelet, cordoned>>

\* A reboot starts whatever kubelet is installed.
Reboot(n) ==
  /\ kubelet' = [kubelet EXCEPT ![n] = package[n]]
  /\ UNCHANGED <<position, api, config, kubeadm, package, cordoned, extended>>

Command(n) ==
  \/ UpgradePlan(n) \/ InstallKubeadm(n) \/ UpgradeApply(n) \/ UpgradeNode(n)
  \/ InstallKubelet(n) \/ RestartKubelet(n) \/ Drain(n) \/ Uncordon(n)

Operator == EndPhase \/ \E n \in Nodes : Command(n)

Next == Operator \/ \E n \in Nodes : Reboot(n)

\* The operator follows the plan to its end.
Spec     == Init /\ [][Next]_vars
FairSpec == Spec /\ WF_vars(Operator)

----------------------------------------------------------------------------
(* Properties                                                              *)

(* The API servers of a highly available control plane never differ by     *)
(* more than one minor (version-skew-policy.md:17-18).                     *)
ApiSkew == \A m, n \in CpNodes : api[m] <= api[n] + 1

\* The policy for kubelets (version-skew-policy.md:19-21).  It speaks of the
\* API server, and nothing in the code or in the documents says which one
\* of several a kubelet talks to: every kubelet is held against each.

(* No kubelet is more than three minors older than an API server.          *)
KubeletNotTooOld == \A n \in Nodes, m \in CpNodes : api[m] <= kubelet[n] + 3

(* Where a kubelet does get ahead of an API server, whatever reboots when: *)
(* it runs on a control plane node that has its new API server already, it *)
(* is one minor ahead of a node whose turn is still to come, and no worker *)
(* has been touched in this phase.                                         *)
KubeletLead ==
  \A n \in Nodes, m \in CpNodes :
    kubelet[n] > api[m] =>
      /\ n \in CpNodes /\ kubelet[n] <= api[n]
      /\ kubelet[n] = api[m] + 1
      /\ step <= Len(ControlPlane)

(* Where a kubelet is too old: it came into the plan at the limit of the   *)
(* policy, and the first phase is not over.  The plan lets no kubelet fall *)
(* behind that was not.                                                    *)
KubeletLag ==
  \A n \in Nodes, m \in CpNodes :
    api[m] > kubelet[n] + 3 => phase = 1 /\ kubelet[n] + 3 <= Current

(* The plan leaves the policy for kubelets in these two ways only, and for *)
(* a start without a lag in the first one only.                            *)
KubeletSkew == KubeletLead /\ KubeletLag

(* kubeadm never refuses a command of the plan: its own version and the    *)
(* cluster's configuration are right when the command is reached.          *)
CommandsAccepted ==
  \A n \in Nodes : /\ At(n, "apply") => AcceptsApply(n)
                   /\ At(n, "node") => AcceptsNode(n)

(* A worker's kubelet changes its minor version only while it is drained.  *)
WorkersUpgradeDrained ==
  [][\A n \in NodesOf(WorkerNodes) : kubelet'[n] # kubelet[n] => n \in cordoned]_vars

AtTarget ==
  /\ config = Target
  /\ \A n \in CpNodes : api[n] = Target /\ extended[n]
  /\ \A n \in Nodes : kubelet[n] = Target
  /\ cordoned = {}

(* No command of the plan stops the operator for good, and the end of the  *)
(* plan is the target: every component, no node left drained, every        *)
(* certificate extended again.                                             *)
PlanCompletes == <>(phase > Phases /\ AtTarget)

----------------------------------------------------------------------------
(* The position in the plan determines the cluster, but for the kubelets   *)
(* that lag and those that a reboot has restarted early.                   *)

Cps   == Len(ControlPlane)
Total == Cps + Len(WorkerNodes)

NodeAt(k) == IF k <= Cps THEN ControlPlane[k] ELSE WorkerNodes[k - Cps]

\* Every step installs kubeadm, upgrades, installs the kubelet and restarts
\* it, after at most one command of its own (plan or drain); a worker's ends
\* with uncordon.
Before(k)   == IF 1 < k /\ k <= Cps THEN 0 ELSE 1
Commands(k) == Before(k) + 4 + (IF k <= Cps THEN 0 ELSE 1)

\* Command c of step k was run in this phase.
Ran(k, c) == step > k \/ (step = k /\ command > c)

From == Current + phase - 1

PositionOK ==
  /\ phase \in 1..(Target - Current + 1)
  /\ step \in 1..(Total + 1)
  /\ command \in 1..(IF step <= Total THEN Commands(step) ELSE 1)
  /\ phase = Target - Current + 1 => step = 1 /\ command = 1

ApiByPosition ==
  /\ DOMAIN api = CpNodes
  /\ \A k \in 1..Cps :
       api[NodeAt(k)] = IF Ran(k, Before(k) + 2) THEN From + 1 ELSE From
  /\ config = IF Ran(1, 3) THEN From + 1 ELSE From

\* Only a node of the first phase may lag; a kubelet differs from its package
\* only between the two commands that install and restart it.
KubeletByPosition(k) ==
  LET n == NodeAt(k) IN
  /\ step = k /\ command > Before(k) + 1 => kubeadm[n] = From + 1
  /\ package[n] \in Int /\ kubelet[n] \in Int
  /\ IF Ran(k, Before(k) + 3)
     THEN package[n] = From + 1
     ELSE /\ package[n] <= From /\ From - MaxLag <= package[n]
          /\ phase > 1 => package[n] = From
  /\ From - MaxLag <= kubelet[n] /\ kubelet[n] <= package[n]
  /\ phase > 1 => From <= kubelet[n]
  /\ kubelet[n] # package[n] => step = k /\ command = Before(k) + 4

DrainByPosition ==
  /\ cordoned \subseteq NodesOf(WorkerNodes)
  /\ \A k \in (Cps + 1)..Total :
       NodeAt(k) \in cordoned <=> step = k /\ command > 1

(* The inductive invariant of the plan.                                    *)
PlanInv ==
  /\ PositionOK
  /\ ApiByPosition
  /\ DOMAIN kubeadm = Nodes /\ DOMAIN package = Nodes /\ DOMAIN kubelet = Nodes
  /\ DOMAIN extended = CpNodes
  /\ \A k \in 1..Total : KubeletByPosition(k)
  /\ DrainByPosition
  /\ phase > Target - Current => \A n \in CpNodes : extended[n]
=============================================================================
