------------------------ MODULE PlanExecutionProofs ------------------------
(***************************************************************************)
(* The plan is safe for any number of control plane nodes and workers, any *)
(* distance between the versions, and reboots at any time.                 *)
(***************************************************************************)
EXTENDS PlanExecution, SequenceTheorems, TLAPS

----------------------------------------------------------------------------
(* The path                                                                *)

(* Concatenation, as SMT uses it.                                          *)
LEMMA ConcatFacts ==
  ASSUME NEW S, NEW s \in Seq(S), NEW t \in Seq(S)
  PROVE  /\ s \o t \in Seq(S)
         /\ Len(s) \in Nat /\ Len(t) \in Nat
         /\ Len(s \o t) = Len(s) + Len(t)
         /\ \A i \in 1..Len(s) : (s \o t)[i] = s[i]
         /\ \A i \in 1..Len(t) : (s \o t)[Len(s) + i] = t[i]
OBVIOUS

(* compute_upgrade_path goes up one minor at a time, from the current one  *)
(* to the target.                                                          *)
LEMMA PathRises ==
  /\ Phases = Target - Current
  /\ \A p \in 1..(Target - Current + 1) : Path[p].minor = Current + p - 1
<1> DEFINE cur == [major |-> 1, minor |-> Current]
           tgt == [major |-> 1, minor |-> Target]
           mid == [i \in 1..(Target - Current - 1) |-> [cur EXCEPT !.minor = @ + i]]
           M   == Target - Current - 1
<1>1. cur \in Version /\ tgt \in Version /\ M \in Nat
  BY PlanAssumption DEF Version
<1>2. \A i \in 1..M : mid[i] \in Version /\ mid[i].minor = Current + i
  BY PlanAssumption DEF Version
<1>3. mid \in Seq(Version) /\ Len(mid) = M
  BY <1>1, <1>2
<1>4. /\ <<cur>> \in Seq(Version) /\ Len(<<cur>>) = 1 /\ <<cur>>[1] = cur
      /\ <<tgt>> \in Seq(Version) /\ Len(<<tgt>>) = 1 /\ <<tgt>>[1] = tgt
  BY <1>1
<1>5. /\ <<cur>> \o mid \in Seq(Version) /\ Len(<<cur>> \o mid) = M + 1
      /\ (<<cur>> \o mid)[1] = cur
      /\ \A i \in 1..M : (<<cur>> \o mid)[1 + i] = mid[i]
  <2> HIDE DEF mid, cur, M
  <2> QED BY <1>1, <1>3, <1>4, ConcatFacts
<1>6. /\ Len((<<cur>> \o mid) \o <<tgt>>) = M + 2
      /\ \A i \in 1..(M + 1) : ((<<cur>> \o mid) \o <<tgt>>)[i] = (<<cur>> \o mid)[i]
      /\ ((<<cur>> \o mid) \o <<tgt>>)[M + 2] = tgt
  <2> HIDE DEF mid, cur, tgt, M
  <2> QED BY <1>1, <1>4, <1>5, ConcatFacts
<1>7. Path = (<<cur>> \o mid) \o <<tgt>>
  BY DEF Path, compute_upgrade_path
<1>8. Phases = Target - Current
  BY <1>6, <1>7, PlanAssumption DEF Phases
<1>9. ASSUME NEW p \in 1..(Target - Current + 1)
      PROVE  Path[p].minor = Current + p - 1
  <2>1. CASE p = 1
    BY <1>1, <1>5, <1>6, <1>7, <2>1, PlanAssumption
  <2>2. CASE p \in 2..(M + 1)
    <3>1. p - 1 \in 1..M /\ p = 1 + (p - 1) /\ p \in 1..(M + 1)
      BY <1>1, <2>2
    <3>2. Path[p] = mid[p - 1]
      <4> HIDE DEF mid, cur, tgt, M
      <4> QED BY <1>5, <1>6, <1>7, <3>1
    <3>3. mid[p - 1].minor = Current + (p - 1)
      BY <1>2, <3>1
    <3> QED BY <3>1, <3>2, <3>3, PlanAssumption
  <2>3. CASE p = M + 2
    BY <1>6, <1>7, <2>3, PlanAssumption
  <2> QED BY <1>1, <2>1, <2>2, <2>3, PlanAssumption
<1> QED BY <1>8, <1>9

----------------------------------------------------------------------------
(* The steps of a phase                                                    *)

(* The command lists, written out.                                         *)
LEMMA CommandLists ==
  /\ ControlPlaneCommands(1) = <<"plan", "kubeadm", "apply", "kubelet", "restart">>
  /\ \A k : k # 1 => ControlPlaneCommands(k) =
                       <<"kubeadm", "node", "kubelet", "restart">>
<1> DEFINE Names == {"plan", "kubeadm", "apply", "node", "kubelet", "restart"}
           tail  == <<"kubelet", "restart">>
           first == <<"plan", "kubeadm", "apply">>
           other == <<"kubeadm", "node">>
           whole == <<"plan", "kubeadm", "apply", "kubelet", "restart">>
           rest  == <<"kubeadm", "node", "kubelet", "restart">>
<1>1. first \o tail = whole
  <2>1. first \o tail \in Seq(Names) /\ whole \in Seq(Names)
    OBVIOUS
  <2>2. Len(first \o tail) = 5 /\ Len(whole) = 5
    OBVIOUS
  <2>3. \A i \in 1..5 : (first \o tail)[i] = whole[i]
    <3>1. \A i \in 1..5 : i \in {1, 2, 3, 4, 5} OBVIOUS
    <3> QED BY <3>1
  <2> HIDE DEF first, tail, whole, Names
  <2> QED BY <2>1, <2>2, <2>3, SeqEqual
<1>2. other \o tail = rest
  <2>1. other \o tail \in Seq(Names) /\ rest \in Seq(Names)
    OBVIOUS
  <2>2. Len(other \o tail) = 4 /\ Len(rest) = 4
    OBVIOUS
  <2>3. \A i \in 1..4 : (other \o tail)[i] = rest[i]
    <3>1. \A i \in 1..4 : i \in {1, 2, 3, 4} OBVIOUS
    <3> QED BY <3>1
  <2> HIDE DEF other, tail, rest, Names
  <2> QED BY <2>1, <2>2, <2>3, SeqEqual
<1> QED BY <1>1, <1>2, Zenon DEF ControlPlaneCommands

(* Control plane nodes first, then workers, each with its commands.        *)
LEMMA StepsInOrder ==
  /\ Cps \in Nat \ {0} /\ Total \in Nat /\ Len(WorkerNodes) \in Nat
  /\ Total = Cps + Len(WorkerNodes)
  /\ Len(Steps) = Total
  /\ \A k \in 1..Total :
       Steps[k] = [node     |-> NodeAt(k),
                   commands |-> IF k <= Cps THEN ControlPlaneCommands(k)
                                ELSE WorkerCommands]
<1> DEFINE C == [i \in 1..Cps |-> [node |-> ControlPlane[i], commands |-> ControlPlaneCommands(i)]]
           W == [i \in 1..Len(WorkerNodes) |-> [node |-> WorkerNodes[i], commands |-> WorkerCommands]]
           S == {C[i] : i \in 1..Cps} \cup {W[i] : i \in 1..Len(WorkerNodes)}
<1>1. Cps \in Nat \ {0} /\ Len(WorkerNodes) \in Nat
  BY PlanAssumption, EmptySeq, LenProperties DEF Cps
<1>2. Len(C) = Cps /\ Len(W) = Len(WorkerNodes)
  BY <1>1
<1>3. C \in Seq(S) /\ W \in Seq(S)
  BY <1>1
<1>4. Steps = C \o W
  BY DEF Steps, PhaseSteps, Cps
<1>5. /\ Len(C \o W) = Cps + Len(WorkerNodes)
      /\ \A i \in 1..Cps : (C \o W)[i] = C[i]
      /\ \A i \in 1..Len(WorkerNodes) : (C \o W)[Cps + i] = W[i]
  <2> HIDE DEF C, W, S
  <2>1. /\ Len(C \o W) = Len(C) + Len(W)
        /\ \A i \in 1..Len(C) : (C \o W)[i] = C[i]
        /\ \A i \in 1..Len(W) : (C \o W)[Len(C) + i] = W[i]
    BY <1>3, ConcatFacts
  <2> QED BY <1>2, <2>1
<1>6. ASSUME NEW k \in 1..Total
      PROVE  Steps[k] = [node     |-> NodeAt(k),
                         commands |-> IF k <= Cps THEN ControlPlaneCommands(k)
                                      ELSE WorkerCommands]
  <2>1. CASE k <= Cps
    BY <1>1, <1>4, <1>5, <2>1 DEF Total, NodeAt
  <2>2. CASE k > Cps
    <3>1. k - Cps \in 1..Len(WorkerNodes) /\ k = Cps + (k - Cps)
      BY <1>1, <2>2 DEF Total
    <3>2. Steps[k] = W[k - Cps]
      <4> HIDE DEF C, W, S
      <4> QED BY <1>4, <1>5, <3>1
    <3>3. ~(k <= Cps)
      BY <1>1, <2>2
    <3> QED BY <3>1, <3>2, <3>3 DEF NodeAt
  <2> QED BY <1>1, <2>1, <2>2 DEF Total
<1> QED BY <1>1, <1>4, <1>5, <1>6 DEF Total

(* No node has two steps, and every node has one.                          *)
LEMMA OneStepEach ==
  /\ \A j, k \in 1..Total : NodeAt(j) = NodeAt(k) => j = k
  /\ \A k \in 1..Cps : NodeAt(k) \in CpNodes
  /\ \A k \in (Cps + 1)..Total : NodeAt(k) \in NodesOf(WorkerNodes)
  /\ \A k \in 1..Total : NodeAt(k) \in Nodes
  /\ \A n \in CpNodes : \E k \in 1..Cps : n = NodeAt(k)
  /\ \A n \in NodesOf(WorkerNodes) : \E k \in (Cps + 1)..Total : n = NodeAt(k)
<1>1. /\ DOMAIN ControlPlane = 1..Cps
      /\ DOMAIN WorkerNodes = 1..Len(WorkerNodes)
  BY PlanAssumption, LenProperties DEF Cps
<1>2. Cps \in Nat /\ Len(WorkerNodes) \in Nat /\ Total = Cps + Len(WorkerNodes)
  BY StepsInOrder
<1>3. \A k \in 1..Cps : NodeAt(k) = ControlPlane[k] /\ NodeAt(k) \in CpNodes
  BY <1>1, <1>2, SMTT(30) DEF NodeAt, CpNodes, NodesOf
<1>4. \A k \in (Cps + 1)..Total :
        /\ k - Cps \in 1..Len(WorkerNodes)
        /\ NodeAt(k) = WorkerNodes[k - Cps] /\ NodeAt(k) \in NodesOf(WorkerNodes)
  BY <1>1, <1>2 DEF NodeAt, NodesOf
<1>5. ASSUME NEW n \in CpNodes
      PROVE  \E k \in 1..Cps : n = NodeAt(k)
  BY <1>1, <1>3 DEF CpNodes, NodesOf
<1>6. ASSUME NEW n \in NodesOf(WorkerNodes)
      PROVE  \E k \in (Cps + 1)..Total : n = NodeAt(k)
  <2>1. PICK i \in 1..Len(WorkerNodes) : n = WorkerNodes[i]
    BY <1>1 DEF NodesOf
  <2>2. Cps + i \in (Cps + 1)..Total /\ (Cps + i) - Cps = i
    BY <1>2
  <2> QED BY <1>4, <2>1, <2>2
<1>7. ASSUME NEW j \in 1..Total, NEW k \in 1..Total, NodeAt(j) = NodeAt(k)
      PROVE  j = k
  <2>1. CASE j \in 1..Cps /\ k \in 1..Cps
    BY <1>1, <1>3, <1>7, <2>1, PlanAssumption DEF Distinct
  <2>2. CASE j \in (Cps + 1)..Total /\ k \in (Cps + 1)..Total
    <3>1. j - Cps = k - Cps
      BY <1>1, <1>4, <1>7, <2>2, PlanAssumption DEF Distinct
    <3> QED BY <1>2, <3>1
  <2>3. CASE (j \in 1..Cps) # (k \in 1..Cps)
    BY <1>2, <1>3, <1>4, <1>7, <2>3, PlanAssumption
  <2> QED BY <1>2, <2>1, <2>2, <2>3
<1>8. \A k \in 1..Total : NodeAt(k) \in Nodes
  BY <1>2, <1>3, <1>4 DEF Nodes
<1> QED BY <1>3, <1>4, <1>5, <1>6, <1>7, <1>8

(* Which command stands where in a step.                                   *)
CommandName(k, m) ==
  CASE m = Before(k) + 1 -> "kubeadm"
    [] m = Before(k) + 2 -> IF k = 1 THEN "apply" ELSE "node"
    [] m = Before(k) + 3 -> "kubelet"
    [] m = Before(k) + 4 -> "restart"
    [] m = Before(k) -> IF k <= Cps THEN "plan" ELSE "drain"
    [] OTHER -> "uncordon"

(* Every step has the same commands, one later where it has its own first. *)
LEMMA CommandsInOrder ==
  ASSUME NEW k \in 1..Total
  PROVE  /\ Len(Steps[k].commands) = Commands(k)
         /\ \A m \in 1..Commands(k) : Steps[k].commands[m] = CommandName(k, m)
<1>1. Cps \in Nat \ {0} /\ Total \in Nat /\ k \in Nat
  BY StepsInOrder
<1>2. CASE k = 1
  <2>1. Before(k) = 1 /\ Commands(k) = 5 /\ k <= Cps
    BY <1>1, <1>2 DEF Before, Commands
  <2>2. Steps[k].commands = <<"plan", "kubeadm", "apply", "kubelet", "restart">>
    BY <1>2, <2>1, StepsInOrder, CommandLists
  <2>3. \A m \in 1..5 : m \in {1, 2, 3, 4, 5} OBVIOUS
  <2> QED BY <1>2, <2>1, <2>2, <2>3 DEF CommandName
<1>3. CASE k # 1 /\ k <= Cps
  <2>1. Before(k) = 0 /\ Commands(k) = 4
    BY <1>1, <1>3 DEF Before, Commands
  <2>2. Steps[k].commands = <<"kubeadm", "node", "kubelet", "restart">>
    BY <1>3, StepsInOrder, CommandLists
  <2>3. \A m \in 1..4 : m \in {1, 2, 3, 4} OBVIOUS
  <2> QED BY <1>3, <2>1, <2>2, <2>3 DEF CommandName
<1>4. CASE ~(k <= Cps)
  <2>1. Before(k) = 1 /\ Commands(k) = 6 /\ k # 1
    BY <1>1, <1>4 DEF Before, Commands
  <2>2. Steps[k].commands =
          <<"drain", "kubeadm", "node", "kubelet", "restart", "uncordon">>
    BY <1>4, StepsInOrder DEF WorkerCommands
  <2>3. \A m \in 1..6 : m \in {1, 2, 3, 4, 5, 6} OBVIOUS
  <2> QED BY <1>4, <2>1, <2>2, <2>3 DEF CommandName
<1> QED BY <1>2, <1>3, <1>4

----------------------------------------------------------------------------
(* The operator's position                                                 *)

(* Where the operator is when command c of node n comes next.              *)
LEMMA Reached ==
  ASSUME PositionOK, NEW n, NEW c, At(n, c)
  PROVE  /\ phase \in 1..(Target - Current) /\ step \in 1..Total
         /\ n = NodeAt(step) /\ To = From + 1
         /\ command \in 1..Commands(step) /\ Commands(step) \in {4, 5, 6}
         /\ Len(Steps[step].commands) = Commands(step)
         /\ c = "plan" => step <= Cps /\ command = Before(step) /\ step = 1
         /\ c = "kubeadm" => command = Before(step) + 1
         /\ c = "apply" => step = 1 /\ command = 3
         /\ c = "node" => step # 1 /\ command = Before(step) + 2
         /\ c = "kubelet" => command = Before(step) + 3
         /\ c = "restart" => command = Before(step) + 4
         /\ c = "drain" => step > Cps /\ command = 1
         /\ c = "uncordon" => step > Cps /\ command = 6
<1>1. Cps \in Nat \ {0} /\ Total \in Nat /\ Current \in Nat /\ Target \in Nat
  BY StepsInOrder, PlanAssumption
<1>2. phase \in 1..(Target - Current) /\ step \in 1..Total
  BY <1>1, PathRises, StepsInOrder DEF At, PositionOK
<1>3. n = NodeAt(step)
  BY <1>2, StepsInOrder DEF At
<1>4. To = From + 1
  BY <1>1, <1>2, PathRises DEF To, From
<1>5. command \in 1..Commands(step) /\ Commands(step) \in {4, 5, 6}
  BY <1>1, <1>2 DEF PositionOK, Commands, Before
<1>6. Len(Steps[step].commands) = Commands(step) /\ c = CommandName(step, command)
  BY <1>2, <1>5, CommandsInOrder DEF At
<1>7. Before(step) = IF 1 < step /\ step <= Cps THEN 0 ELSE 1
  BY DEF Before
<1>8. Commands(step) = Before(step) + 4 + (IF step <= Cps THEN 0 ELSE 1)
  BY DEF Commands
<1>9. /\ c = "plan" => step <= Cps /\ command = Before(step) /\ step = 1
      /\ c = "kubeadm" => command = Before(step) + 1
      /\ c = "apply" => step = 1 /\ command = 3
      /\ c = "node" => step # 1 /\ command = Before(step) + 2
      /\ c = "kubelet" => command = Before(step) + 3
      /\ c = "restart" => command = Before(step) + 4
      /\ c = "drain" => step > Cps /\ command = 1
      /\ c = "uncordon" => step > Cps /\ command = 6
  <2>1. CASE step = 1
    <3>1. Before(step) = 1 /\ step <= Cps /\ command \in 1..5
      BY <1>1, <1>5, <1>7, <1>8, <2>1
    <3> QED BY <1>6, <2>1, <3>1 DEF CommandName
  <2>2. CASE 1 < step /\ step <= Cps
    <3>1. Before(step) = 0 /\ command \in 1..4 /\ step # 1
      BY <1>1, <1>2, <1>5, <1>7, <1>8, <2>2
    <3> QED BY <1>6, <2>2, <3>1 DEF CommandName
  <2>3. CASE step > Cps
    <3>1. Before(step) = 1 /\ command \in 1..6 /\ step # 1 /\ ~(step <= Cps)
      BY <1>1, <1>2, <1>5, <1>7, <1>8, <2>3
    <3> QED BY <1>6, <2>3, <3>1 DEF CommandName
  <2> QED BY <1>1, <1>2, <2>1, <2>2, <2>3
<1> QED BY <1>2, <1>3, <1>4, <1>5, <1>6, <1>9

(* Going on marks exactly the command that was reached.                    *)
LEMMA GoingOn ==
  ASSUME PositionOK, NEW n, NEW c, At(n, c), Advance
  PROVE  /\ PositionOK' /\ phase' = phase
         /\ \A k \in 1..Total : \A m \in 1..Commands(k) :
              Ran(k, m)' <=> Ran(k, m) \/ (k = step /\ m = command)
         /\ \A k \in 1..Total : \A m \in 1..6 :
              step' = k /\ command' > m <=>
                /\ step = k /\ command >= m /\ command < Commands(step)
         /\ \A k \in 1..Total :
              step' = k /\ command' = Before(k) + 4 <=>
                step = k /\ command = Before(k) + 3
<1>1. Cps \in Nat \ {0} /\ Total \in Nat /\ Current \in Nat /\ Target \in Nat
  BY StepsInOrder, PlanAssumption
<1>2. /\ phase \in 1..(Target - Current) /\ step \in 1..Total
      /\ command \in 1..Commands(step) /\ Len(Steps[step].commands) = Commands(step)
  BY Reached
<1>3. \A k \in 1..Total :
        Before(k) \in {0, 1} /\ Commands(k) \in {Before(k) + 4, Before(k) + 5}
        /\ Commands(k) \in {4, 5, 6}
  BY <1>1 DEF Commands, Before
<1>4. CASE command < Commands(step)
  <2>1. phase' = phase /\ command' = command + 1 /\ step' = step
    BY <1>2, <1>4 DEF Advance
  <2>2. PositionOK'
    BY <1>1, <1>2, <1>3, <1>4, <2>1 DEF PositionOK, Commands, Before
  <2> QED BY <1>1, <1>2, <1>3, <1>4, <2>1, <2>2 DEF Ran
<1>5. CASE command = Commands(step)
  <2>1. phase' = phase /\ command' = 1 /\ step' = step + 1
    BY <1>2, <1>3, <1>5 DEF Advance
  <2>2. PositionOK'
    BY <1>1, <1>2, <1>3, <1>5, <2>1 DEF PositionOK, Commands, Before
  <2>3. \A k \in 1..Total : \A m \in 1..Commands(k) :
          Ran(k, m)' <=> Ran(k, m) \/ (k = step /\ m = command)
    BY <1>1, <1>2, <1>3, <1>5, <2>1 DEF Ran
  <2>4. \A k \in 1..Total : \A m \in 1..6 :
          step' = k /\ command' > m <=>
            step = k /\ command >= m /\ command < Commands(step)
    BY <1>1, <1>2, <1>3, <1>5, <2>1
  <2>5. \A k \in 1..Total :
          step' = k /\ command' = Before(k) + 4 <=>
            step = k /\ command = Before(k) + 3
    BY <1>1, <1>2, <1>3, <1>5, <2>1
  <2> QED BY <2>1, <2>2, <2>3, <2>4, <2>5
<1> QED BY <1>2, <1>3, <1>4, <1>5

----------------------------------------------------------------------------
(* What a command changes                                                  *)

\* The name of the command that Command(n) runs.
Running(n, c) == At(n, c) /\ Advance

(* The next command of a node is one of the plan's eight.                  *)
LEMMA CommandRuns ==
  ASSUME NEW n, Command(n)
  PROVE  \E c : Running(n, c)
BY DEF Command, UpgradePlan, InstallKubeadm, UpgradeApply, UpgradeNode,
       InstallKubelet, RestartKubelet, Drain, Uncordon, Running

(* Only apply and node touch an API server, apply the configuration too,   *)
(* each on its own node.                                                   *)
LEMMA ApiStep ==
  ASSUME PlanInv, NEW n \in Nodes, Command(n)
  PROVE  ApiByPosition'
<1>1. /\ Cps \in Nat \ {0} /\ Cps <= Total /\ Total \in Nat
      /\ Current \in Nat /\ Len(WorkerNodes) \in Nat
  BY StepsInOrder, PlanAssumption
<1>2. PositionOK /\ ApiByPosition
  BY DEF PlanInv
<1>3. \A k \in 1..Total : Before(k) \in {0, 1} /\ Before(k) + 2 \in 1..Commands(k)
  BY <1>1 DEF Commands, Before
<1>4. Before(1) = 1 /\ 1 \in 1..Total /\ 1 \in 1..Cps
  BY <1>1 DEF Before
<1>5. ASSUME NEW c, Running(n, c)
      PROVE  /\ phase' = phase /\ From' = From /\ To = From + 1
             /\ step \in 1..Total /\ n = NodeAt(step)
             /\ \A k \in 1..Total :
                  Ran(k, Before(k) + 2)' <=>
                    Ran(k, Before(k) + 2) \/ (k = step /\ command = Before(k) + 2)
             /\ Ran(1, 3)' <=> Ran(1, 3) \/ (step = 1 /\ command = 3)
  <2>1. PositionOK /\ At(n, c) /\ Advance
    BY <1>2, <1>5 DEF Running
  <2>2. /\ phase' = phase
        /\ \A k \in 1..Total : \A m \in 1..Commands(k) :
             Ran(k, m)' <=> Ran(k, m) \/ (k = step /\ m = command)
    BY <2>1, GoingOn
  <2>3. step \in 1..Total /\ n = NodeAt(step) /\ To = From + 1
    BY <2>1, Reached
  <2>4. \A k \in 1..Total :
          Ran(k, Before(k) + 2)' <=>
            Ran(k, Before(k) + 2) \/ (k = step /\ command = Before(k) + 2)
    BY <1>3, <2>2
  <2>5. Ran(1, 3)' <=> Ran(1, 3) \/ (step = 1 /\ command = 3)
    BY <1>4, <2>2, <1>3
  <2>6. From' = From
    BY <2>2 DEF From
  <2> QED BY <2>2, <2>3, <2>4, <2>5, <2>6
<1>6. ASSUME NEW c \in {"plan", "kubeadm", "kubelet", "restart", "drain", "uncordon"},
             Running(n, c), UNCHANGED <<api, config>>
      PROVE  ApiByPosition'
  <2>1. command # Before(step) + 2 /\ ~(step = 1 /\ command = 3)
    <3>1. PositionOK /\ At(n, c)
      BY <1>2, <1>6 DEF Running
    <3>2. step \in 1..Total
      BY <3>1, Reached
    <3>3. CASE c \in {"plan", "kubeadm"}
      BY <1>1, <1>3, <1>4, <3>1, <3>2, <3>3, Reached
    <3>4. CASE c \in {"kubelet", "restart"}
      BY <1>1, <1>3, <1>4, <3>1, <3>2, <3>4, Reached
    <3>5. CASE c \in {"drain", "uncordon"}
      <4>1. step > Cps /\ command \in {1, 6}
        BY <3>1, <3>5, Reached
      <4>2. Before(step) = 1 /\ step # 1
        BY <1>1, <3>2, <4>1 DEF Before
      <4> QED BY <4>1, <4>2
    <3> QED BY <3>3, <3>4, <3>5
  <2> QED BY <1>1, <1>2, <1>5, <1>6, <2>1 DEF ApiByPosition
<1>7. CASE UpgradeApply(n)
  <2>1. Running(n, "apply")
    BY <1>7 DEF UpgradeApply, Running
  <2>2. step = 1 /\ command = 3
    BY <1>2, <2>1, Reached DEF Running
  <2>3. api' = [api EXCEPT ![n] = From + 1] /\ config' = From + 1
    BY <1>5, <1>7, <2>1 DEF UpgradeApply
  <2>4. n = NodeAt(1) /\ n \in CpNodes
    BY <1>4, <1>5, <2>1, <2>2, OneStepEach
  <2>5. \A k \in 1..Cps : k # 1 => NodeAt(k) # n
    BY <1>1, <1>4, <2>4, OneStepEach
  <2>6. ASSUME NEW k \in 1..Cps
        PROVE  api'[NodeAt(k)] =
                 (IF Ran(k, Before(k) + 2) THEN From + 1 ELSE From)'
    <3>1. k \in 1..Total /\ NodeAt(k) \in CpNodes
      BY <1>1, OneStepEach
    <3>2. CASE k = 1
      BY <1>2, <1>4, <1>5, <2>1, <2>2, <2>3, <2>4, <3>2 DEF ApiByPosition
    <3>3. CASE k # 1
      <4>1. api'[NodeAt(k)] = api[NodeAt(k)]
        BY <1>2, <2>3, <2>5, <3>1, <3>3 DEF ApiByPosition
      <4>2. Ran(k, Before(k) + 2)' <=> Ran(k, Before(k) + 2)
        BY <1>5, <2>1, <2>2, <3>1, <3>3
      <4> QED BY <1>2, <1>5, <2>1, <4>1, <4>2 DEF ApiByPosition
    <3> QED BY <3>2, <3>3
  <2>7. DOMAIN api' = CpNodes
    BY <1>2, <2>3 DEF ApiByPosition
  <2>8. config' = (IF Ran(1, 3) THEN From + 1 ELSE From)'
    BY <1>5, <2>1, <2>2, <2>3
  <2> QED BY <2>6, <2>7, <2>8 DEF ApiByPosition
<1>8. CASE UpgradeNode(n)
  <2>1. Running(n, "node")
    BY <1>8 DEF UpgradeNode, Running
  <2>2. step # 1 /\ command = Before(step) + 2 /\ step \in 1..Total /\ n = NodeAt(step)
    BY <1>2, <2>1, Reached DEF Running
  <2>3. config' = config
        /\ api' = IF n \in CpNodes THEN [api EXCEPT ![n] = From + 1] ELSE api
    BY <1>5, <1>8, <2>1 DEF UpgradeNode
  <2>4. ASSUME NEW k \in 1..Cps
        PROVE  api'[NodeAt(k)] =
                 (IF Ran(k, Before(k) + 2) THEN From + 1 ELSE From)'
    <3>1. k \in 1..Total /\ NodeAt(k) \in CpNodes
      BY <1>1, OneStepEach
    <3>2. CASE k = step
      <4>1. Ran(k, Before(k) + 2)'
        BY <1>5, <2>1, <2>2, <3>1, <3>2
      <4>2. api'[NodeAt(k)] = From + 1
        BY <1>2, <2>2, <2>3, <3>1, <3>2 DEF ApiByPosition
      <4> QED BY <1>5, <2>1, <4>1, <4>2
    <3>3. CASE k # step
      <4>1. NodeAt(k) # n
        BY <2>2, <3>1, <3>3, OneStepEach
      <4>2. api'[NodeAt(k)] = api[NodeAt(k)]
        BY <1>2, <2>3, <3>1, <4>1 DEF ApiByPosition
      <4>3. Ran(k, Before(k) + 2)' <=> Ran(k, Before(k) + 2)
        BY <1>5, <2>1, <3>1, <3>3
      <4> QED BY <1>2, <1>5, <2>1, <4>2, <4>3 DEF ApiByPosition
    <3> QED BY <3>2, <3>3
  <2>5. DOMAIN api' = CpNodes
    BY <1>2, <2>3 DEF ApiByPosition
  <2>6. config' = (IF Ran(1, 3) THEN From + 1 ELSE From)'
    BY <1>2, <1>5, <2>1, <2>2, <2>3 DEF ApiByPosition
  <2> QED BY <2>4, <2>5, <2>6 DEF ApiByPosition
<1>9. CASE UpgradePlan(n) \/ InstallKubeadm(n) \/ InstallKubelet(n)
           \/ RestartKubelet(n) \/ Drain(n) \/ Uncordon(n)
  BY <1>6, <1>9
  DEF UpgradePlan, InstallKubeadm, InstallKubelet, RestartKubelet, Drain,
      Uncordon, Running
<1> QED BY <1>7, <1>8, <1>9 DEF Command

(* Drain and uncordon bracket the commands of a worker between them.       *)
LEMMA DrainStep ==
  ASSUME PlanInv, NEW n \in Nodes, Command(n)
  PROVE  DrainByPosition'
<1>1. /\ Cps \in Nat \ {0} /\ Total \in Nat
  BY StepsInOrder
<1>2. PositionOK /\ DrainByPosition
  BY DEF PlanInv
<1>3. \A k \in (Cps + 1)..Total : k \in 1..Total /\ Commands(k) = 6 /\ Before(k) = 1
  BY <1>1 DEF Commands, Before
<1>4. ASSUME NEW c, Running(n, c)
      PROVE  /\ step \in 1..Total /\ n = NodeAt(step) /\ command \in 1..Commands(step)
             /\ \A k \in (Cps + 1)..Total :
                  step' = k /\ command' > 1 <=> step = k /\ command < 6
  <2>1. PositionOK /\ At(n, c) /\ Advance
    BY <1>2, <1>4 DEF Running
  <2>2. \A k \in 1..Total : \A m \in 1..6 :
          step' = k /\ command' > m <=>
            /\ step = k /\ command >= m /\ command < Commands(step)
    BY <2>1, GoingOn
  <2>3. step \in 1..Total /\ n = NodeAt(step) /\ command \in 1..Commands(step)
    BY <2>1, Reached
  <2> QED BY <1>1, <1>3, <2>2, <2>3
<1>5. CASE Drain(n)
  <2>1. Running(n, "drain") /\ cordoned' = cordoned \cup {n}
    BY <1>5 DEF Drain, Running
  <2>2. step > Cps /\ command = 1
    BY <1>2, <2>1, Reached DEF Running
  <2>3. step \in (Cps + 1)..Total /\ n \in NodesOf(WorkerNodes)
    BY <1>1, <1>4, <2>1, <2>2, OneStepEach
  <2>4. ASSUME NEW k \in (Cps + 1)..Total
        PROVE  NodeAt(k) \in cordoned' <=> step' = k /\ command' > 1
    <3>1. NodeAt(k) = n <=> k = step
      BY <1>3, <1>4, <2>1, OneStepEach
    <3> QED BY <1>2, <1>4, <2>1, <2>2, <3>1 DEF DrainByPosition
  <2> QED BY <1>2, <2>1, <2>3, <2>4 DEF DrainByPosition
<1>6. CASE Uncordon(n)
  <2>1. Running(n, "uncordon") /\ cordoned' = cordoned \ {n}
    BY <1>6 DEF Uncordon, Running
  <2>2. step > Cps /\ command = 6
    BY <1>2, <2>1, Reached DEF Running
  <2>3. ASSUME NEW k \in (Cps + 1)..Total
        PROVE  NodeAt(k) \in cordoned' <=> step' = k /\ command' > 1
    <3>1. NodeAt(k) = n <=> k = step
      BY <1>3, <1>4, <2>1, OneStepEach
    <3> QED BY <1>2, <1>4, <2>1, <2>2, <3>1 DEF DrainByPosition
  <2> QED BY <1>2, <2>1, <2>3 DEF DrainByPosition
<1>7. ASSUME NEW c \in {"plan", "kubeadm", "apply", "node", "kubelet", "restart"},
             Running(n, c), UNCHANGED cordoned
      PROVE  DrainByPosition'
  <2>1. step \in (Cps + 1)..Total => command > 1 /\ command < 6
    <3>1. PositionOK /\ At(n, c)
      BY <1>2, <1>7 DEF Running
    <3> SUFFICES ASSUME step \in (Cps + 1)..Total
                 PROVE  command > 1 /\ command < 6
      OBVIOUS
    <3>2. Before(step) = 1 /\ ~(step <= Cps) /\ step # 1
      BY <1>1, <1>3
    <3>3. CASE c = "plan" BY <3>1, <3>2, <3>3, Reached
    <3>4. CASE c = "kubeadm" BY <3>1, <3>2, <3>4, Reached
    <3>5. CASE c = "apply" BY <3>1, <3>2, <3>5, Reached
    <3>6. CASE c = "node" BY <3>1, <3>2, <3>6, Reached
    <3>7. CASE c = "kubelet" BY <3>1, <3>2, <3>7, Reached
    <3>8. CASE c = "restart" BY <3>1, <3>2, <3>8, Reached
    <3> QED BY <3>3, <3>4, <3>5, <3>6, <3>7, <3>8
  <2> QED BY <1>1, <1>2, <1>4, <1>7, <2>1 DEF DrainByPosition
<1>8. CASE UpgradePlan(n) \/ InstallKubeadm(n) \/ UpgradeApply(n) \/ UpgradeNode(n)
           \/ InstallKubelet(n) \/ RestartKubelet(n)
  BY <1>7, <1>8
  DEF UpgradePlan, InstallKubeadm, UpgradeApply, UpgradeNode, InstallKubelet,
      RestartKubelet, Running
<1> QED BY <1>5, <1>6, <1>8 DEF Command

(* On the node of the step, kubeadm, the package and the kubelet change in *)
(* this order; on every other node nothing does.                           *)
LEMMA KubeletStep ==
  ASSUME PlanInv, NEW n \in Nodes, Command(n), NEW k \in 1..Total
  PROVE  KubeletByPosition(k)'
<1>1. /\ Cps \in Nat \ {0} /\ Total \in Nat /\ Current \in Nat /\ Target \in Nat
      /\ MaxLag \in Nat
  BY StepsInOrder, PlanAssumption
<1>2. PositionOK /\ KubeletByPosition(k) /\ NodeAt(k) \in Nodes
  BY OneStepEach DEF PlanInv
<1>3. DOMAIN kubeadm = Nodes /\ DOMAIN package = Nodes /\ DOMAIN kubelet = Nodes
  BY DEF PlanInv
<1>4. /\ Before(k) \in {0, 1} /\ Before(k) + 1 \in 1..6
      /\ Before(k) + 3 \in 1..Commands(k) /\ Commands(k) \in {4, 5, 6}
      /\ Before(k) + 4 <= Commands(k)
  BY <1>1 DEF Commands, Before
<1>5. PICK c : Running(n, c)
  BY CommandRuns
<1>6. At(n, c) /\ Advance
  BY <1>5 DEF Running
<1>7. /\ phase \in 1..(Target - Current) /\ phase' = phase /\ From' = From
      /\ From \in Int /\ To = From + 1
      /\ step \in 1..Total /\ n = NodeAt(step) /\ command \in Nat
      /\ Ran(k, Before(k) + 3)' <=>
           Ran(k, Before(k) + 3) \/ (k = step /\ command = Before(k) + 3)
      /\ step' = k /\ command' > Before(k) + 1 <=>
           step = k /\ command >= Before(k) + 1 /\ command < Commands(step)
      /\ step' = k /\ command' = Before(k) + 4 <=>
           step = k /\ command = Before(k) + 3
  <2>1. /\ phase' = phase
        /\ Ran(k, Before(k) + 3)' <=>
             Ran(k, Before(k) + 3) \/ (k = step /\ command = Before(k) + 3)
        /\ step' = k /\ command' > Before(k) + 1 <=>
             step = k /\ command >= Before(k) + 1 /\ command < Commands(step)
        /\ step' = k /\ command' = Before(k) + 4 <=>
             step = k /\ command = Before(k) + 3
    BY <1>2, <1>4, <1>6, GoingOn
  <2>2. /\ phase \in 1..(Target - Current) /\ step \in 1..Total
        /\ n = NodeAt(step) /\ To = From + 1 /\ command \in 1..Commands(step)
        /\ Commands(step) \in {4, 5, 6}
    BY <1>2, <1>6, Reached
  <2>3. From \in Int /\ From' = From /\ command \in Nat
    BY <1>1, <2>1, <2>2 DEF From
  <2> QED BY <2>1, <2>2, <2>3
<1> DEFINE m == NodeAt(k)
<1>8. m = n <=> k = step
  BY <1>7, OneStepEach
<1>9. CASE InstallKubeadm(n)
  <2>1. command = Before(step) + 1
    <3>1. At(n, "kubeadm") BY <1>9 DEF InstallKubeadm
    <3> QED BY <1>2, <3>1, Reached
  <2>2. package' = package /\ kubelet' = kubelet /\ kubeadm' = [kubeadm EXCEPT ![n] = To]
    BY <1>9 DEF InstallKubeadm
  <2>3. step' = k /\ command' > Before(k) + 1 => kubeadm'[m] = From + 1
    BY <1>2, <1>3, <1>7, <1>8, <2>2
  <2> QED BY <1>2, <1>4, <1>7, <2>1, <2>2, <2>3 DEF KubeletByPosition
<1>10. CASE InstallKubelet(n)
  <2>1. command = Before(step) + 3
    <3>1. At(n, "kubelet") BY <1>10 DEF InstallKubelet
    <3> QED BY <1>2, <3>1, Reached
  <2>2. kubeadm' = kubeadm /\ kubelet' = kubelet /\ package' = [package EXCEPT ![n] = To]
    BY <1>10 DEF InstallKubelet
  <2>3. CASE k = step
    <3>1. package'[m] = From + 1 /\ kubelet'[m] = kubelet[m] /\ Ran(k, Before(k) + 3)'
      BY <1>2, <1>3, <1>7, <1>8, <2>1, <2>2, <2>3
    <3>2. ~Ran(k, Before(k) + 3)
      BY <1>4, <1>7, <2>1, <2>3 DEF Ran
    <3>3. kubelet[m] \in Int /\ kubelet[m] <= From /\ From - MaxLag <= kubelet[m]
          /\ kubeadm[m] = From + 1 /\ (phase > 1 => From <= kubelet[m])
      BY <1>1, <1>2, <1>4, <1>7, <2>1, <2>3, <3>2 DEF KubeletByPosition
    <3>4. step' = k /\ command' = Before(k) + 4
      BY <1>7, <2>1, <2>3
    <3> QED BY <1>1, <1>7, <2>2, <3>1, <3>3, <3>4 DEF KubeletByPosition
  <2>4. CASE k # step
    <3>1. package'[m] = package[m]
      BY <1>2, <1>3, <1>8, <2>2, <2>4
    <3> QED BY <1>2, <1>7, <2>2, <2>4, <3>1 DEF KubeletByPosition
  <2> QED BY <2>3, <2>4
<1>11. CASE RestartKubelet(n)
  <2>1. command = Before(step) + 4
    <3>1. At(n, "restart") BY <1>11 DEF RestartKubelet
    <3> QED BY <1>2, <3>1, Reached
  <2>2. kubeadm' = kubeadm /\ package' = package
        /\ kubelet' = [kubelet EXCEPT ![n] = package[n]]
    BY <1>11 DEF RestartKubelet
  <2>3. CASE k = step
    <3>1. kubelet'[m] = package[m] /\ package'[m] = package[m]
      BY <1>2, <1>3, <1>8, <2>2, <2>3
    <3>2. Ran(k, Before(k) + 3) /\ Ran(k, Before(k) + 3)'
      BY <1>4, <1>7, <2>1, <2>3 DEF Ran
    <3>3. package[m] = From + 1 /\ kubeadm[m] = From + 1
      BY <1>2, <1>4, <1>7, <2>1, <2>3, <3>2 DEF KubeletByPosition
    <3> QED BY <1>1, <1>7, <2>2, <3>1, <3>2, <3>3 DEF KubeletByPosition
  <2>4. CASE k # step
    <3>1. kubelet'[m] = kubelet[m]
      BY <1>2, <1>3, <1>8, <2>2, <2>4
    <3> QED BY <1>2, <1>7, <2>2, <2>4, <3>1 DEF KubeletByPosition
  <2> QED BY <2>3, <2>4
<1>12. ASSUME NEW d \in {"plan", "apply", "node", "drain", "uncordon"}, At(n, d),
              UNCHANGED <<kubeadm, package, kubelet>>
       PROVE  KubeletByPosition(k)'
  <2>1. k = step => /\ command # Before(k) + 3 /\ command # Before(k) + 4
                    /\ command # Before(k) + 1
    <3> SUFFICES ASSUME k = step
                 PROVE  /\ command # Before(k) + 3 /\ command # Before(k) + 4
                        /\ command # Before(k) + 1
      OBVIOUS
    <3>1. CASE d = "plan"
      BY <1>2, <1>4, <1>12, <3>1, Reached
    <3>2. CASE d = "apply"
      <4>1. step = 1 /\ command = 3 BY <1>2, <1>12, <3>2, Reached
      <4> QED BY <1>1, <4>1 DEF Before
    <3>3. CASE d = "node"
      BY <1>2, <1>4, <1>12, <3>3, Reached
    <3>4. CASE d \in {"drain", "uncordon"}
      <4>1. step > Cps /\ command \in {1, 6} BY <1>2, <1>12, <3>4, Reached
      <4>2. Before(k) = 1 BY <1>1, <1>7, <4>1 DEF Before
      <4> QED BY <4>1, <4>2
    <3> QED BY <3>1, <3>2, <3>3, <3>4
  <2> QED BY <1>2, <1>4, <1>7, <1>12, <2>1 DEF KubeletByPosition
<1>13. CASE UpgradePlan(n) \/ UpgradeApply(n) \/ UpgradeNode(n) \/ Drain(n) \/ Uncordon(n)
  BY <1>12, <1>13 DEF UpgradePlan, UpgradeApply, UpgradeNode, Drain, Uncordon
<1> QED BY <1>9, <1>10, <1>11, <1>13 DEF Command

(* The rest of the invariant: what a command never changes.                *)
LEMMA CommandStep ==
  ASSUME PlanInv, NEW n \in Nodes, Command(n)
  PROVE  PlanInv'
<1>1. PICK c : Running(n, c)
  BY CommandRuns
<1>2. PositionOK' /\ phase' = phase /\ phase \in 1..(Target - Current)
  BY <1>1, GoingOn, Reached DEF Running, PlanInv
<1>3. /\ DOMAIN kubeadm' = Nodes /\ DOMAIN package' = Nodes
      /\ DOMAIN kubelet' = Nodes /\ DOMAIN extended' = CpNodes
  BY DEF PlanInv, Command, UpgradePlan, InstallKubeadm, UpgradeApply,
         UpgradeNode, InstallKubelet, RestartKubelet, Drain, Uncordon
<1>4. ~(phase' > Target - Current)
  BY <1>2, PlanAssumption
<1> QED
  BY <1>2, <1>3, <1>4, ApiStep, KubeletStep, DrainStep DEF PlanInv

(* A reboot starts the installed kubelet, in the middle of a step or at    *)
(* any other time.                                                         *)
LEMMA RebootStep ==
  ASSUME PlanInv, NEW n \in Nodes, Reboot(n)
  PROVE  PlanInv'
<1>1. /\ UNCHANGED <<phase, step, command, api, config, kubeadm, package,
                     cordoned, extended>>
      /\ kubelet' = [kubelet EXCEPT ![n] = package[n]]
  BY DEF Reboot, position
<1>2. PositionOK' /\ ApiByPosition' /\ DrainByPosition'
  BY <1>1 DEF PlanInv, PositionOK, ApiByPosition, DrainByPosition, Ran, From
<1>3. ASSUME NEW k \in 1..Total
      PROVE  KubeletByPosition(k)'
  <2>1. KubeletByPosition(k) /\ NodeAt(k) \in Nodes /\ DOMAIN kubelet = Nodes
    BY OneStepEach DEF PlanInv
  <2>2. kubelet'[NodeAt(k)] \in {kubelet[NodeAt(k)], package[NodeAt(k)]}
    BY <1>1, <2>1
  <2>3. From \in Int /\ MaxLag \in Nat
    BY PlanAssumption DEF PlanInv, PositionOK, From
  <2>4. From' = From /\ (Ran(k, Before(k) + 3)' <=> Ran(k, Before(k) + 3))
    BY <1>1 DEF From, Ran
  <2> QED BY <1>1, <2>1, <2>2, <2>3, <2>4 DEF KubeletByPosition
<1> QED BY <1>1, <1>2, <1>3 DEF PlanInv

(* At the end of a phase every component is at its version, which is where *)
(* the next phase starts.                                                  *)
LEMMA EndPhaseStep ==
  ASSUME PlanInv, EndPhase
  PROVE  PlanInv'
<1>1. /\ Cps \in Nat \ {0} /\ Total \in Nat /\ Cps <= Total
      /\ Current \in Nat /\ Target \in Nat /\ Current < Target /\ MaxLag \in Nat
  BY StepsInOrder, PlanAssumption
<1>2. /\ phase \in 1..(Target - Current) /\ step = Total + 1
      /\ phase' = phase + 1 /\ step' = 1 /\ command' = 1
      /\ UNCHANGED <<api, config, kubeadm, package, kubelet, cordoned>>
  BY <1>1, PathRises, StepsInOrder DEF EndPhase, PlanInv, PositionOK
<1>3. From \in Int /\ From' = From + 1
  BY <1>1, <1>2 DEF From
<1>4. \A k \in 1..Total : \A m \in 1..6 : Ran(k, m) /\ ~Ran(k, m)'
  BY <1>1, <1>2 DEF Ran
<1>5. \A k \in 1..Total : Before(k) \in {0, 1} /\ Commands(k) \in {4, 5, 6}
  BY <1>1 DEF Before, Commands
<1>6. PositionOK'
  BY <1>1, <1>2, <1>5 DEF PositionOK
<1>7. ApiByPosition'
  BY <1>1, <1>2, <1>3, <1>4, <1>5 DEF PlanInv, ApiByPosition
<1>8. ASSUME NEW k \in 1..Total
      PROVE  KubeletByPosition(k)'
  <2>1. KubeletByPosition(k) /\ Ran(k, Before(k) + 3) /\ ~Ran(k, Before(k) + 3)'
    BY <1>4, <1>5 DEF PlanInv
  <2>2. package[NodeAt(k)] = From + 1 /\ kubelet[NodeAt(k)] = From + 1
    <3>1. step # k BY <1>1, <1>2
    <3> QED BY <2>1, <3>1 DEF KubeletByPosition
  <2>3. ~(command' > Before(k) + 1) /\ command' # Before(k) + 4
    BY <1>2, <1>5
  <2> QED BY <1>1, <1>2, <1>3, <2>1, <2>2, <2>3 DEF KubeletByPosition
<1>9. DrainByPosition'
  BY <1>1, <1>2 DEF PlanInv, DrainByPosition
<1>10. /\ DOMAIN extended' = CpNodes
       /\ phase' > Target - Current => \A n \in CpNodes : extended'[n]
  <2>1. Len(Path) - 1 = Target - Current
    BY PathRises DEF Phases
  <2>2. phase' > Target - Current => phase = Target - Current
    BY <1>1, <1>2
  <2> QED BY <2>1, <2>2 DEF EndPhase, IsFinal, PlanInv
<1> QED BY <1>2, <1>6, <1>7, <1>8, <1>9, <1>10 DEF PlanInv

(* The plan starts on a cluster at one version, but for lagging kubelets.  *)
LEMMA InitPlan == Init => PlanInv
<1> SUFFICES ASSUME Init PROVE PlanInv
  OBVIOUS
<1>1. /\ Cps \in Nat \ {0} /\ Total \in Nat /\ Cps <= Total
      /\ Current \in Nat /\ Target \in Nat /\ Current < Target
      /\ MaxLag \in Nat /\ MaxLag <= Current
  BY StepsInOrder, PlanAssumption
<1>2. phase = 1 /\ step = 1 /\ command = 1 /\ From = Current
  BY <1>1 DEF Init, From
<1>3. \A k \in 1..Total : Before(k) \in {0, 1} /\ Commands(k) \in {4, 5, 6}
  BY <1>1 DEF Before, Commands
<1>4. \A k \in 1..Total : \A m \in 1..6 : ~Ran(k, m)
  BY <1>2 DEF Ran
<1>5. PositionOK
  BY <1>1, <1>2, <1>3 DEF PositionOK
<1>6. ApiByPosition
  BY <1>1, <1>2, <1>3, <1>4, OneStepEach DEF Init, ApiByPosition
<1>7. ASSUME NEW k \in 1..Total
      PROVE  KubeletByPosition(k)
  <2>1. NodeAt(k) \in Nodes /\ ~Ran(k, Before(k) + 3)
    BY <1>3, <1>4, OneStepEach
  <2>2. package[NodeAt(k)] \in (Current - MaxLag)..Current /\ kubelet = package
    BY <2>1 DEF Init
  <2>3. ~(command > Before(k) + 1)
    BY <1>2, <1>3
  <2> QED BY <1>1, <1>2, <2>1, <2>2, <2>3 DEF KubeletByPosition
<1>8. DrainByPosition
  BY <1>2 DEF Init, DrainByPosition
<1>9. /\ DOMAIN kubeadm = Nodes /\ DOMAIN package = Nodes
      /\ DOMAIN kubelet = Nodes /\ DOMAIN extended = CpNodes
  BY DEF Init
<1>10. ~(phase > Target - Current)
  BY <1>1, <1>2
<1> QED BY <1>5, <1>6, <1>7, <1>8, <1>9, <1>10 DEF PlanInv

(* Every step of the operator and every reboot keeps the invariant.        *)
LEMMA PlanStep == PlanInv /\ [Next]_vars => PlanInv'
<1> SUFFICES ASSUME PlanInv, [Next]_vars PROVE PlanInv'
  OBVIOUS
<1>1. CASE UNCHANGED vars
  BY <1>1
  DEF vars, position, PlanInv, PositionOK, ApiByPosition, KubeletByPosition,
      DrainByPosition, Ran, From
<1> QED BY <1>1, EndPhaseStep, CommandStep, RebootStep DEF Next, Operator

----------------------------------------------------------------------------
(* Whatever reboots when, the operator's position in the plan tells the    *)
(* version of every component.                                             *)
THEOREM PlanInvariance == Spec => []PlanInv
BY InitPlan, PlanStep, PTL DEF Spec

(* The steps of a phase (planner.py) keep the API servers of any control   *)
(* plane within one minor of each other.                                   *)
THEOREM ApisAgree == Spec => []ApiSkew
<1>1. PlanInv => ApiSkew
  <2> SUFFICES ASSUME PlanInv, NEW m \in CpNodes, NEW n \in CpNodes
               PROVE  api[m] <= api[n] + 1
    BY DEF ApiSkew
  <2>1. PICK j \in 1..Cps : m = NodeAt(j) BY OneStepEach
  <2>2. PICK k \in 1..Cps : n = NodeAt(k) BY OneStepEach
  <2>3. From \in Int
    BY PlanAssumption DEF PlanInv, PositionOK, From
  <2>4. api[m] \in {From, From + 1} /\ api[n] \in {From, From + 1}
    BY <2>1, <2>2 DEF PlanInv, ApiByPosition
  <2> QED BY <2>3, <2>4
<1> QED BY <1>1, PlanInvariance, PTL

(* What the position says of one kubelet and one API server.               *)
LEMMA KubeletAndServer ==
  ASSUME PlanInv, NEW n \in Nodes, NEW m \in CpNodes
  PROVE  /\ From \in Int /\ kubelet[n] \in Int
         /\ api[m] \in {From, From + 1}
         /\ kubelet[n] <= From + 1
         /\ phase > 1 => From <= kubelet[n]
         /\ kubelet[n] > From /\ n \in CpNodes => api[n] = From + 1
         /\ kubelet[n] > From /\ n \notin CpNodes => api[m] = From + 1
         /\ step > Len(ControlPlane) => api[m] = From + 1
<1>1. /\ From \in Int /\ MaxLag \in Nat /\ step \in Nat /\ command \in Nat
      /\ Cps \in Nat \ {0} /\ Cps <= Total /\ Total \in Nat
  BY StepsInOrder, PlanAssumption DEF PlanInv, PositionOK, From
<1>2. PICK k \in 1..Total : n = NodeAt(k) /\ (n \in CpNodes <=> k <= Cps)
  <2>1. CASE n \in CpNodes
    <3>1. PICK k \in 1..Cps : n = NodeAt(k) BY <2>1, OneStepEach
    <3> QED BY <1>1, <2>1, <3>1
  <2>2. CASE n \notin CpNodes
    <3>1. n \in NodesOf(WorkerNodes) BY <2>2 DEF Nodes
    <3>2. PICK k \in (Cps + 1)..Total : n = NodeAt(k) BY <3>1, OneStepEach
    <3> QED BY <1>1, <2>2, <3>2
  <2> QED BY <2>1, <2>2
<1>3. PICK j \in 1..Cps : m = NodeAt(j)
  BY OneStepEach
<1>4. KubeletByPosition(k)
  BY DEF PlanInv
<1>5. \A i \in 1..Cps :
        api[NodeAt(i)] = IF Ran(i, Before(i) + 2) THEN From + 1 ELSE From
  BY DEF PlanInv, ApiByPosition
<1>6. \A i \in 1..Total : Before(i) \in {0, 1}
  BY DEF Before
<1>7. kubelet[n] \in Int /\ kubelet[n] <= From + 1 /\ (phase > 1 => From <= kubelet[n])
  BY <1>1, <1>2, <1>4 DEF KubeletByPosition
<1>8. kubelet[n] > From => Ran(k, Before(k) + 3)
  BY <1>1, <1>2, <1>4 DEF KubeletByPosition
<1>9. kubelet[n] > From /\ n \in CpNodes => api[n] = From + 1
  BY <1>1, <1>2, <1>5, <1>6, <1>8 DEF Ran
<1>10. kubelet[n] > From /\ n \notin CpNodes => step > Cps
  BY <1>1, <1>2, <1>6, <1>8 DEF Ran
<1>11. step > Cps => api[m] = From + 1
  BY <1>1, <1>3, <1>5 DEF Ran
<1>12. api[m] \in {From, From + 1}
  BY <1>3, <1>5
<1> QED BY <1>1, <1>7, <1>9, <1>10, <1>11, <1>12 DEF Cps

(* A kubelet is ahead of an API server for the rest of the control plane's *)
(* turn only, by one minor and on an upgraded control plane node, in any   *)
(* cluster and from any kubelets at the start.                             *)
THEOREM LeadIsBounded == Spec => []KubeletLead
<1>1. PlanInv => KubeletLead
  <2> SUFFICES ASSUME PlanInv, NEW n \in Nodes, NEW m \in CpNodes,
                      kubelet[n] > api[m]
               PROVE  /\ n \in CpNodes /\ kubelet[n] <= api[n]
                      /\ kubelet[n] = api[m] + 1
                      /\ step <= Len(ControlPlane)
    BY DEF KubeletLead
  <2>1. From \in Int /\ kubelet[n] \in Int /\ step \in Nat /\ Len(ControlPlane) \in Nat
    BY KubeletAndServer, StepsInOrder DEF PlanInv, PositionOK, Cps
  <2>2. kubelet[n] = From + 1 /\ api[m] = From
    BY <2>1, KubeletAndServer
  <2>3. n \in CpNodes /\ api[n] = From + 1 /\ ~(step > Len(ControlPlane))
    BY <2>1, <2>2, KubeletAndServer
  <2> QED BY <2>1, <2>2, <2>3
<1> QED BY <1>1, PlanInvariance, PTL

(* Only a kubelet that started at the limit of the policy is ever too old, *)
(* and only in the first phase, however far kubelets lag at the start.     *)
THEOREM LagComesFromTheStart == Spec => []KubeletLag
<1>1. PlanInv => KubeletLag
  <2> SUFFICES ASSUME PlanInv, NEW n \in Nodes, NEW m \in CpNodes,
                      api[m] > kubelet[n] + 3
               PROVE  phase = 1 /\ kubelet[n] + 3 <= Current
    BY DEF KubeletLag
  <2>1. From \in Int /\ kubelet[n] \in Int /\ api[m] \in {From, From + 1}
    BY KubeletAndServer
  <2>2. phase \in Nat \ {0} /\ Current \in Nat
    BY PlanAssumption DEF PlanInv, PositionOK
  <2>3. ~(phase > 1)
    BY <2>1, KubeletAndServer
  <2>4. From = Current
    BY <2>2, <2>3 DEF From
  <2> QED BY <2>1, <2>2, <2>3, <2>4
<1> QED BY <1>1, PlanInvariance, PTL

(* The plan leaves the skew policy for kubelets in these two ways only,    *)
(* for any cluster, any distance and any kubelets at the start             *)
(* (version-skew-policy.md:19-21).                                         *)
THEOREM KubeletsLeaveSkewOnlySo == Spec => []KubeletSkew
BY LeadIsBounded, LagComesFromTheStart, PTL DEF KubeletSkew

(* kubeadm accepts every command of the plan when it is reached: the step  *)
(* has installed its version, and the first node has set the configuration.*)
THEOREM KubeadmAccepts == Spec => []CommandsAccepted
<1>1. PlanInv => CommandsAccepted
  <2> SUFFICES ASSUME PlanInv, NEW n \in Nodes
               PROVE  /\ At(n, "apply") => AcceptsApply(n)
                      /\ At(n, "node") => AcceptsNode(n)
    BY DEF CommandsAccepted
  <2>1. /\ PositionOK /\ Cps \in Nat \ {0} /\ Total \in Nat /\ From \in Int
        /\ config = IF Ran(1, 3) THEN From + 1 ELSE From
    BY StepsInOrder, PlanAssumption
    DEF PlanInv, PositionOK, ApiByPosition, From
  <2>2. ASSUME At(n, "apply")
        PROVE  AcceptsApply(n)
    <3>1. /\ step = 1 /\ command = 3 /\ step \in 1..Total /\ n = NodeAt(step)
          /\ To = From + 1
      BY <2>1, <2>2, Reached
    <3>2. Before(1) = 1 /\ ~Ran(1, 3)
      BY <3>1 DEF Before, Ran
    <3>3. kubeadm[n] = From + 1
      BY <3>1, <3>2 DEF PlanInv, KubeletByPosition
    <3> QED BY <2>1, <3>1, <3>2, <3>3 DEF AcceptsApply
  <2>3. ASSUME At(n, "node")
        PROVE  AcceptsNode(n)
    <3>1. /\ step # 1 /\ command = Before(step) + 2 /\ step \in 1..Total
          /\ n = NodeAt(step) /\ To = From + 1
      BY <2>1, <2>3, Reached
    <3>2. Before(step) \in {0, 1} /\ Ran(1, 3)
      BY <2>1, <3>1 DEF Before, Ran
    <3>3. kubeadm[n] = From + 1
      BY <3>1, <3>2 DEF PlanInv, KubeletByPosition
    <3> QED BY <2>1, <3>1, <3>2, <3>3 DEF AcceptsNode
  <2> QED BY <2>2, <2>3
<1> QED BY <1>1, PlanInvariance, PTL

(* No worker's kubelet changes its version outside of its drain, not even  *)
(* by a reboot between the package and the restart.                        *)
THEOREM WorkersAreDrained == Spec => WorkersUpgradeDrained
<1>1. PlanInv /\ [Next]_vars =>
        [\A n \in NodesOf(WorkerNodes) : kubelet'[n] # kubelet[n] => n \in cordoned]_vars
  <2> SUFFICES ASSUME PlanInv, Next, NEW n \in NodesOf(WorkerNodes),
                      kubelet'[n] # kubelet[n]
               PROVE  n \in cordoned
    OBVIOUS
  <2>1. PICK k \in (Cps + 1)..Total : n = NodeAt(k)
    BY OneStepEach
  <2>2. /\ Cps \in Nat \ {0} /\ Total \in Nat /\ k \in 1..Total
        /\ n \in Nodes /\ DOMAIN kubelet = Nodes
    BY <2>1, StepsInOrder DEF PlanInv, Nodes
  <2>3. Before(k) = 1 /\ KubeletByPosition(k) /\ PositionOK
    BY <2>1, <2>2 DEF Before, PlanInv
  <2>4. step = k /\ command > 1
    <3>1. CASE \E b \in Nodes : Reboot(b)
      <4>1. kubelet'[n] \in {kubelet[n], package[n]}
        BY <2>2, <3>1 DEF Reboot
      <4> QED BY <2>1, <2>3, <4>1 DEF KubeletByPosition
    <3>2. CASE \E b \in Nodes : RestartKubelet(b)
      <4>1. PICK b \in Nodes : RestartKubelet(b) BY <3>2
      <4>2. b = n
        BY <2>2, <4>1 DEF RestartKubelet
      <4>3. step \in 1..Total /\ n = NodeAt(step) /\ command = Before(step) + 4
        BY <2>3, <4>1, <4>2, Reached DEF RestartKubelet
      <4>4. step = k
        BY <2>1, <2>2, <4>3, OneStepEach
      <4> QED BY <2>3, <4>3, <4>4
    <3>3. CASE UNCHANGED kubelet
      BY <3>3
    <3> QED
      BY <3>1, <3>2, <3>3
      DEF Next, Operator, EndPhase, Command, UpgradePlan, InstallKubeadm,
          UpgradeApply, UpgradeNode, InstallKubelet, Drain, Uncordon
  <2> QED BY <2>1, <2>4 DEF PlanInv, DrainByPosition
<1> QED BY <1>1, PlanInvariance, PTL DEF Spec, WorkersUpgradeDrained

(* An operator who has reached the end of the plan has a cluster at the    *)
(* target: every component, no node drained, every certificate extended.   *)
THEOREM EndIsTarget == Spec => [](phase > Phases => AtTarget)
<1>1. PlanInv => (phase > Phases => AtTarget)
  <2> SUFFICES ASSUME PlanInv, phase > Phases PROVE AtTarget
    OBVIOUS
  <2>1. /\ Cps \in Nat \ {0} /\ Total \in Nat /\ Current \in Nat
        /\ Target \in Nat /\ Cps <= Total
    BY StepsInOrder, PlanAssumption
  <2>2. /\ phase = Target - Current + 1 /\ step = 1 /\ command = 1
        /\ phase > Target - Current /\ phase > 1 /\ From = Target
    BY <2>1, PathRises, PlanAssumption DEF PlanInv, PositionOK, From
  <2>3. \A k \in 1..Total : Before(k) \in {0, 1}
    BY DEF Before
  <2>4. \A k \in 1..Total : \A c \in 1..6 : ~Ran(k, c)
    BY <2>1, <2>2 DEF Ran
  <2>5. config = Target /\ \A k \in 1..Cps : api[NodeAt(k)] = Target
    BY <2>1, <2>2, <2>3, <2>4 DEF PlanInv, ApiByPosition
  <2>6. \A k \in 1..Total : kubelet[NodeAt(k)] = Target
    <3> SUFFICES ASSUME NEW k \in 1..Total PROVE kubelet[NodeAt(k)] = Target
      OBVIOUS
    <3>1. KubeletByPosition(k) /\ ~Ran(k, Before(k) + 3) /\ command # Before(k) + 4
      BY <2>2, <2>3, <2>4 DEF PlanInv
    <3> QED BY <2>2, <3>1 DEF KubeletByPosition
  <2>7. cordoned = {}
    <3>1. \A k \in (Cps + 1)..Total : NodeAt(k) \notin cordoned
      BY <2>2 DEF PlanInv, DrainByPosition
    <3> QED BY <3>1, OneStepEach DEF PlanInv, DrainByPosition
  <2>8. \A n \in CpNodes : api[n] = Target /\ extended[n]
    BY <2>2, <2>5, OneStepEach DEF PlanInv
  <2>9. \A n \in Nodes : kubelet[n] = Target
    <3>1. \A n \in Nodes : \E k \in 1..Total : n = NodeAt(k)
      BY <2>1, OneStepEach DEF Nodes
    <3> QED BY <2>6, <3>1
  <2> QED BY <2>5, <2>7, <2>8, <2>9 DEF AtTarget
<1> QED BY <1>1, PlanInvariance, PTL
=============================================================================
