----------------------- MODULE UpgradeAssessmentProofs -----------------------
(***************************************************************************)
(* The verdicts of UpgradeAssessment, for every cluster, every library of  *)
(* documents and every target.  The graph is sequential: the inductive     *)
(* invariant says that the state at each node is the value of the pure     *)
(* operators at the inputs, and the rest is about these operators.         *)
(***************************************************************************)
EXTENDS UpgradeAssessment, ListsProofs

----------------------------------------------------------------------------
(* The inductive invariant                                                 *)

Nodes == {"get_rag", "search_rag", "check_compatibility", "check_deprecated_api",
          "analyze_risk", "generate_upgrade_path", "generate_upgrade_plan", "end",
          "failed"}

Unloaded   == {"get_rag", "failed"}
Unchecked  == Unloaded \cup {"search_rag", "check_compatibility"}
Unscanned  == Unchecked \cup {"check_deprecated_api"}
Unanalyzed == Unscanned \cup {"analyze_risk"}

InputInv ==
  /\ target \in Targets /\ files \in Libraries /\ cluster \in Clusters
  /\ pluto \in [ToSet(Resources) -> {"fine", "deprecated", "removed"}]
  /\ where \in [ToSet(Resources) -> SUBSET {"live", "helm"}]
  /\ node \in Nodes

RagInv == node \notin Unloaded => rag = build_index(files)

CompatInv ==
  IF node \in Unchecked THEN compat = <<>>
  ELSE /\ Upgradable(Current, target)
       /\ path = compute_upgrade_path(Current, target)
       /\ compat = evaluate_compatibility(TargetMinors)
       /\ \A r \in ToSet(compat) : r.status # "raises"

ApisInv ==
  IF node \in Unscanned THEN apis = <<>>
  ELSE \E scanned \in {scan_with_pluto, <<>>} :
         apis = merge_findings(evaluate_deprecated_apis(TargetMinors) \o scanned)

RiskInv ==
  node \notin Unanalyzed =>
    /\ compatSummary = summarize_compatibility(compat)
    /\ apiSummary = summarize_deprecated_apis(apis)
    /\ risks = build_risk_findings(compatSummary, apiSummary)
    /\ readiness = from_findings(risks)

PlanInv ==
  node = "end" =>
    \E generated : phases = [i \in 1..(Len(path) - 1) |-> Phase(i, generated[i])]

IInv == InputInv /\ RagInv /\ CompatInv /\ ApisInv /\ RiskInv /\ PlanInv

(* Every step computes what its node promises, and leaves alone what the   *)
(* earlier nodes have computed.                                            *)
LEMMA Inductive == IInv /\ [Next]_vars => IInv'
<1> SUFFICES ASSUME IInv, [Next]_vars PROVE IInv'
  OBVIOUS
<1> USE DEF Unloaded, Unchecked, Unscanned, Unanalyzed
<1>1. CASE GetRag
  <2>1. InputInv' BY <1>1 DEF IInv, InputInv, GetRag, input, Nodes
  <2>2. RagInv' BY <1>1 DEF IInv, RagInv, GetRag, input
  <2>3. CompatInv' BY <1>1 DEF IInv, CompatInv, GetRag, input
  <2>4. ApisInv' BY <1>1 DEF IInv, ApisInv, GetRag, input
  <2>5. RiskInv' /\ PlanInv' BY <1>1 DEF RiskInv, PlanInv, GetRag
  <2> QED BY <2>1, <2>2, <2>3, <2>4, <2>5 DEF IInv
<1>2. CASE SearchRag
  <2>1. InputInv' BY <1>2 DEF IInv, InputInv, SearchRag, input, Nodes
  <2>2. RagInv' BY <1>2 DEF IInv, RagInv, SearchRag, input
  <2>3. CompatInv' BY <1>2 DEF IInv, CompatInv, SearchRag, input
  <2>4. ApisInv' BY <1>2 DEF IInv, ApisInv, SearchRag, input
  <2>5. RiskInv' /\ PlanInv' BY <1>2 DEF RiskInv, PlanInv, SearchRag
  <2> QED BY <2>1, <2>2, <2>3, <2>4, <2>5 DEF IInv
<1>3. CASE CheckCompatibility
  <2> DEFINE new == compute_upgrade_path(Current, target)
             results == evaluate_compatibility(MinorsAfterFirst(new))
             fails == \/ ~ Upgradable(Current, target)
                      \/ \E r \in ToSet(results) : r.status = "raises"
  <2>1. InputInv' BY <1>3 DEF IInv, InputInv, CheckCompatibility, input, Nodes
  <2>2. RagInv' BY <1>3 DEF IInv, RagInv, CheckCompatibility, input
  <2>3. CompatInv'
    <3>1. CASE fails
      BY <1>3, <3>1 DEF IInv, CompatInv, CheckCompatibility
    <3>2. CASE ~ fails
      <4>1. /\ node' = "check_deprecated_api" /\ path' = new /\ compat' = results
            /\ UNCHANGED <<input, rag>>
        BY <1>3, <3>2 DEF CheckCompatibility
      <4>2. evaluate_compatibility(TargetMinors)' = results
        BY <4>1 DEF evaluate_compatibility, TargetMinors, input
      <4>3. Upgradable(Current, target)' /\ path' = compute_upgrade_path(Current, target')
        BY <3>2, <4>1 DEF input
      <4> QED BY <3>2, <4>1, <4>2, <4>3 DEF CompatInv
    <3> QED BY <3>1, <3>2
  <2>4. ApisInv' BY <1>3 DEF IInv, ApisInv, CheckCompatibility
  <2>5. RiskInv' /\ PlanInv' BY <1>3 DEF RiskInv, PlanInv, CheckCompatibility
  <2> QED BY <2>1, <2>2, <2>3, <2>4, <2>5 DEF IInv
<1> DEFINE Kept == UNCHANGED <<input, rag, path, compat>>
<1>4. ASSUME Kept
      PROVE  /\ scan_with_pluto' = scan_with_pluto
             /\ evaluate_deprecated_apis(TargetMinors)' = evaluate_deprecated_apis(TargetMinors)
  <2>1. scan_with_pluto' = scan_with_pluto
    BY <1>4 DEF scan_with_pluto, Gathered, input, Keep
  <2>2. evaluate_deprecated_apis(TargetMinors)' = evaluate_deprecated_apis(TargetMinors)
    BY <1>4 DEF evaluate_deprecated_apis, FindingsOf, Gathered, TargetMinors, input,
                Keep
  <2> QED BY <2>1, <2>2
<1>5. ASSUME UNCHANGED <<input, rag, path, compat>>, node \notin Unchecked,
             node' \notin Unchecked, node' \in Nodes
      PROVE  InputInv' /\ RagInv' /\ CompatInv'
  <2>1. InputInv' BY <1>5 DEF IInv, InputInv, input
  <2>2. RagInv' BY <1>5 DEF IInv, RagInv, input
  <2>3. CompatInv'
    BY <1>5 DEF IInv, CompatInv, input, evaluate_compatibility, TargetMinors
  <2> QED BY <2>1, <2>2, <2>3
<1>6. CASE CheckDeprecatedApi
  <2>1. /\ node = "check_deprecated_api" /\ node' = "analyze_risk"
        /\ UNCHANGED <<input, rag, path, compat>>
    BY <1>6 DEF CheckDeprecatedApi
  <2>2. PICK scanned \in {scan_with_pluto, <<>>} :
          apis' = merge_findings(evaluate_deprecated_apis(TargetMinors) \o scanned)
    BY <1>6 DEF CheckDeprecatedApi
  <2>3. ApisInv' BY <1>4, <2>1, <2>2 DEF ApisInv
  <2>4. RiskInv' /\ PlanInv' BY <2>1 DEF RiskInv, PlanInv
  <2> QED BY <1>5, <2>1, <2>3, <2>4 DEF IInv, Nodes
<1>7. ASSUME Kept, UNCHANGED apis, node \notin Unscanned, node' \notin Unscanned,
             node' \in Nodes
      PROVE  InputInv' /\ RagInv' /\ CompatInv' /\ ApisInv'
  <2>1. ApisInv' BY <1>4, <1>7 DEF IInv, ApisInv
  <2> QED BY <1>5, <1>7, <2>1
<1>8. CASE AnalyzeRisk
  <2>1. /\ Kept /\ UNCHANGED apis
        /\ node = "analyze_risk" /\ node' = "generate_upgrade_path"
        /\ compatSummary' = summarize_compatibility(compat)
        /\ apiSummary' = summarize_deprecated_apis(apis)
        /\ risks' = build_risk_findings(compatSummary', apiSummary')
        /\ readiness' = from_findings(risks')
    BY <1>8 DEF AnalyzeRisk
  <2>2. RiskInv'
    BY <2>1 DEF RiskInv, build_risk_findings, StructureRisks, CustomConfigRisks,
                EtcdRisks, CgroupNotice, input, Keep
  <2> QED BY <1>7, <2>1, <2>2 DEF IInv, PlanInv, Nodes
<1>9. ASSUME UNCHANGED <<input, compat, apis, compatSummary, apiSummary, risks, readiness>>,
             node \notin Unanalyzed
      PROVE  RiskInv'
  BY <1>9 DEF IInv, RiskInv, build_risk_findings, StructureRisks, CustomConfigRisks,
              EtcdRisks, CgroupNotice, input, Keep
<1>10. CASE GenerateUpgradePath
  <2>1. /\ Kept /\ UNCHANGED apis
        /\ node = "generate_upgrade_path" /\ node' = "generate_upgrade_plan"
    BY <1>10 DEF GenerateUpgradePath
  <2>2. RiskInv' BY <1>9, <1>10 DEF GenerateUpgradePath
  <2> QED BY <1>7, <2>1, <2>2 DEF IInv, PlanInv, Nodes
<1>11. CASE GenerateUpgradePlan
  <2>1. /\ Kept /\ UNCHANGED <<apis, risks>>
        /\ node = "generate_upgrade_plan" /\ node' = "end"
    BY <1>11 DEF GenerateUpgradePlan
  <2>2. RiskInv' BY <1>9, <1>11 DEF GenerateUpgradePlan
  <2>3. PICK generated : phases' = [i \in 1..(Len(path) - 1) |-> Phase(i, generated[i])]
    BY <1>11 DEF GenerateUpgradePlan
  <2>4. PlanInv'
    <3>1. \A i, g : Phase(i, g)' = Phase(i, g)
      BY <2>1 DEF Phase, Summary, input, Keep
    <3>2. phases' = [i \in 1..(Len(path') - 1) |-> Phase(i, generated[i])']
      BY <2>1, <2>3, <3>1
    <3> QED BY <3>2 DEF PlanInv
  <2> QED BY <1>7, <2>1, <2>2, <2>4 DEF IInv, Nodes
<1>12. CASE UNCHANGED vars
  <2>1. Kept /\ UNCHANGED <<apis, node, phases, risks>> BY <1>12 DEF vars
  <2>2. InputInv' /\ RagInv' BY <2>1 DEF IInv, InputInv, RagInv, input
  <2>3. CompatInv'
    BY <2>1 DEF IInv, CompatInv, input, evaluate_compatibility, TargetMinors
  <2>4. ApisInv' BY <1>4, <2>1 DEF IInv, ApisInv
  <2>5. RiskInv'
    <3>1. CASE node \in Unanalyzed BY <2>1, <3>1 DEF RiskInv
    <3>2. CASE node \notin Unanalyzed BY <1>9, <1>12, <3>2 DEF vars
    <3> QED BY <3>1, <3>2
  <2>6. PlanInv'
    <3>1. \A i, g : Phase(i, g)' = Phase(i, g)
      BY <2>1 DEF Phase, Summary, input, Keep
    <3>2. CASE node = "end"
      <4>1. PICK generated : phases = [i \in 1..(Len(path) - 1) |-> Phase(i, generated[i])]
        BY <3>2 DEF IInv, PlanInv
      <4>2. phases' = [i \in 1..(Len(path') - 1) |-> Phase(i, generated[i])']
        BY <2>1, <3>1, <4>1
      <4> QED BY <4>2 DEF PlanInv
    <3> QED BY <2>1, <3>2 DEF PlanInv
  <2> QED BY <2>2, <2>3, <2>4, <2>5, <2>6 DEF IInv
<1> QED
  BY <1>1, <1>2, <1>3, <1>6, <1>8, <1>10, <1>11, <1>12 DEF Next

(* In every state each result is the value of its operators at the inputs, *)
(* whatever the documents, the cluster and the target are                  *)
(* (upgrade_agent.py:129-213).                                             *)
THEOREM Invariant == Spec => []IInv
<1>1. Init => IInv
  BY DEF Init, IInv, InputInv, RagInv, CompatInv, ApisInv, RiskInv, PlanInv, Nodes,
         Unloaded, Unchecked, Unscanned, Unanalyzed
<1> QED BY <1>1, Inductive, PTL DEF Spec

----------------------------------------------------------------------------
(* The versions on the way                                                 *)

Ahead == target.minor - Current.minor

LEMMA PathFacts ==
  ASSUME target \in Targets, Upgradable(Current, target),
         NEW p, p = compute_upgrade_path(Current, target)
  PROVE  /\ Current.minor \in Nat /\ Ahead \in Nat \ {0}
         /\ target.minor = Current.minor + Ahead
         /\ Len(p) = Ahead + 1
         /\ \A i \in 1..(Ahead + 1) : p[i].minor = Current.minor + (i - 1)
<1>1. Current \in Version /\ target \in Version BY InputAssumption
<1>2. Current.minor \in Nat /\ target.minor \in Nat /\ target.minor > Current.minor
  BY <1>1 DEF Version, Upgradable
<1>3. Ahead \in Nat \ {0} /\ target.minor = Current.minor + Ahead BY <1>2 DEF Ahead
<1> HIDE DEF Ahead
<1> DEFINE mid == [i \in 1..(target.minor - Current.minor - 1)
                     |-> [Current EXCEPT !.minor = @ + i]]
           head == <<Current>> \o mid
<1>4. target.minor - Current.minor - 1 = Ahead - 1 /\ Ahead - 1 \in Nat
  BY <1>2, <1>3
<1>5. /\ mid \in Seq(Version) /\ Len(mid) = Ahead - 1
      /\ \A i \in 1..(Ahead - 1) : mid[i].minor = Current.minor + i
  <2>1. mid = [i \in 1..(Ahead - 1) |-> mid[i]] BY <1>4
  <2>2. ASSUME NEW i \in 1..(Ahead - 1)
        PROVE  mid[i] \in Version /\ mid[i].minor = Current.minor + i
    <3>1. mid[i] = [Current EXCEPT !.minor = @ + i] BY <1>4
    <3> QED BY <1>1, <1>2, <3>1 DEF Version
  <2> HIDE DEF mid
  <2>3. mid \in [1..(Ahead - 1) -> Version] BY <2>1, <2>2
  <2> QED BY <1>4, <2>2, <2>3, SeqDef, LenProperties
<1> HIDE DEF mid
<1>6. /\ head \in Seq(Version) /\ Len(head) = Ahead
      /\ head[1] = Current /\ \A i \in 1..(Ahead - 1) : head[1 + i] = mid[i]
  <2>1. <<Current>> \in Seq(Version) /\ Len(<<Current>>) = 1 /\ <<Current>>[1] = Current
    BY <1>1
  <2> QED BY <1>3, <1>4, <1>5, <2>1, ConcatProperties
<1> HIDE DEF head
<1>7. p = head \o <<target>>
  BY DEF compute_upgrade_path, head, mid
<1>8. /\ Len(p) = Ahead + 1
      /\ \A i \in 1..Ahead : p[i] = head[i] /\ p[Ahead + 1] = target
  <2>1. <<target>> \in Seq(Version) /\ Len(<<target>>) = 1 /\ <<target>>[1] = target
    BY <1>1
  <2> QED BY <1>3, <1>6, <1>7, <2>1, ConcatProperties
<1>9. ASSUME NEW i \in 1..(Ahead + 1)
      PROVE  p[i].minor = Current.minor + (i - 1)
  <2>1. CASE i = 1
    <3>1. p[1] = Current BY <1>3, <1>6, <1>8
    <3> QED BY <1>2, <2>1, <3>1
  <2>2. CASE i = Ahead + 1
    <3>1. p[i] = target BY <1>3, <1>8, <2>2
    <3> QED BY <1>2, <1>3, <2>2, <3>1
  <2>3. CASE i # 1 /\ i # Ahead + 1
    <3>1. i \in 1..Ahead /\ i - 1 \in 1..(Ahead - 1) /\ i = 1 + (i - 1) BY <1>3, <2>3
    <3>2. p[i] = mid[i - 1] BY <1>6, <1>8, <3>1
    <3> QED BY <1>5, <3>1, <3>2
  <2> QED BY <2>1, <2>2, <2>3
<1> QED BY <1>2, <1>3, <1>8, <1>9

(* The minors that are judged: every one after the current one.            *)
LEMMA MinorsFacts ==
  ASSUME target \in Targets, Upgradable(Current, target),
         path = compute_upgrade_path(Current, target)
  PROVE  /\ IsSeq(TargetMinors) /\ Len(TargetMinors) = Ahead /\ Ahead \in Nat \ {0}
         /\ \A i \in 1..Ahead : /\ TargetMinors[i] = Current.minor + i
                                /\ TargetMinors[i] \in Nat \ {0}
                                /\ TargetMinors[i] = path[i + 1].minor
         /\ \A i, j \in 1..Ahead : i < j => TargetMinors[i] < TargetMinors[j]
         /\ TargetMinors[Ahead] = target.minor
         /\ \A i \in 1..Ahead : TargetMinors[i] <= target.minor
<1>1. /\ Current.minor \in Nat /\ Ahead \in Nat \ {0}
      /\ target.minor = Current.minor + Ahead
      /\ Len(path) = Ahead + 1
      /\ \A i \in 1..(Ahead + 1) : path[i].minor = Current.minor + (i - 1)
  BY PathFacts
<1> HIDE DEF Ahead
<1>2. TargetMinors = [i \in 1..Ahead |-> path[i + 1].minor]
  <2>1. Len(path) - 1 = Ahead BY <1>1
  <2> QED BY <2>1 DEF TargetMinors, MinorsAfterFirst
<1>3. ASSUME NEW i \in 1..Ahead
      PROVE  TargetMinors[i] = Current.minor + i /\ TargetMinors[i] = path[i + 1].minor
  <2>1. i + 1 \in 1..(Ahead + 1) /\ (i + 1) - 1 = i BY <1>1
  <2> QED BY <1>1, <1>2, <2>1
<1>4. TargetMinors = [i \in 1..Ahead |-> TargetMinors[i]] BY <1>2
<1>5. IsSeq(TargetMinors) /\ Len(TargetMinors) = Ahead
  <2> HIDE DEF TargetMinors
  <2> QED BY <1>1, <1>4, FunctionIsSeq
<1>6. ASSUME NEW i \in 1..Ahead
      PROVE  TargetMinors[i] \in Nat \ {0} /\ TargetMinors[i] <= target.minor
  <2>1. TargetMinors[i] = Current.minor + i BY <1>3
  <2>2. i \in Nat \ {0} /\ i <= Ahead BY <1>1
  <2>3. target.minor = Current.minor + Ahead /\ Current.minor \in Nat /\ Ahead \in Nat
    BY <1>1
  <2> QED BY <2>1, <2>2, <2>3
<1>7. ASSUME NEW i \in 1..Ahead, NEW j \in 1..Ahead, i < j
      PROVE  TargetMinors[i] < TargetMinors[j]
  <2>1. TargetMinors[i] = Current.minor + i /\ TargetMinors[j] = Current.minor + j
    BY <1>3
  <2>2. i \in Nat /\ j \in Nat /\ Current.minor \in Nat BY <1>1
  <2> QED BY <1>7, <2>1, <2>2
<1>8. TargetMinors[Ahead] = target.minor BY <1>1, <1>3
<1> QED BY <1>1, <1>3, <1>5, <1>6, <1>7, <1>8

----------------------------------------------------------------------------
(* The index                                                               *)

LEMMA DocumentsFacts ==
  ASSUME files \in Libraries
  PROVE  /\ IsSeq(Documents(files))
         /\ \A d \in ToSet(Documents(files)) :
              IsSeq(d.blocks) /\ \A b \in ToSet(d.blocks) : IsSeq(b.entries)
         /\ \A d \in ToSet(Documents(files)) : \A b \in ToSet(d.blocks) :
              b.kind = "deprecated_api_guide" =>
                \A e \in ToSet(b.entries) : e.deprecated \in Nat /\ e.removed \in Nat
<1>1. IsSeq(files) BY LibraryAssumption
<1> DEFINE T == {f \in ToSet(files) : ~ f.readme}
<1>2. Documents(files) = KeepIn(files, T) BY DEF Documents, Keep
<1>3. IsSeq(KeepIn(files, T)) /\ ToSet(KeepIn(files, T)) = ToSet(files) \cap T
  <2> HIDE DEF T
  <2> QED BY <1>1, KeptList
<1> QED BY <1>2, <1>3, LibraryAssumption

LEMMA BlocksFacts ==
  ASSUME NEW d, IsSeq(d.blocks), NEW kind
  PROVE  /\ IsSeq(Blocks(d, kind))
         /\ ToSet(Blocks(d, kind)) = {b \in ToSet(d.blocks) : b.kind = kind}
<1> DEFINE T == {b \in ToSet(d.blocks) : b.kind = kind}
<1>1. Blocks(d, kind) = KeepIn(d.blocks, T) BY DEF Blocks, Keep
<1>2. IsSeq(KeepIn(d.blocks, T)) /\ ToSet(KeepIn(d.blocks, T)) = ToSet(d.blocks) \cap T
  <2> HIDE DEF T
  <2> QED BY KeptList
<1> QED BY <1>1, <1>2

\* The entry of the index that a document makes of an entry of a block.
CompatEntry(d, b, e) ==
  [component |-> IF b.component = NoComponent THEN d.component ELSE b.component,
   pattern |-> b.pattern, minor |-> e.minor, status |-> e.status, doc |-> d.id]

Matrices(d) == {b \in ToSet(d.blocks) : b.kind = "compatibility_matrix"}

LEMMA DocumentCompat ==
  ASSUME NEW d, IsSeq(d.blocks), \A b \in ToSet(d.blocks) : IsSeq(b.entries)
  PROVE  /\ IsSeq(extract_compatibility_entries(d))
         /\ \A x \in ToSet(extract_compatibility_entries(d)) :
              \E b \in Matrices(d) : \E e \in ToSet(b.entries) : x = CompatEntry(d, b, e)
         /\ \A b \in Matrices(d) : \A e \in ToSet(b.entries) :
              CompatEntry(d, b, e) \in ToSet(extract_compatibility_entries(d))
<1> DEFINE m == Blocks(d, "compatibility_matrix")
           EntriesOf(b) == [i \in DOMAIN b.entries |-> CompatEntry(d, b, b.entries[i])]
           seqs == [i \in DOMAIN m |-> EntriesOf(m[i])]
           F == FlattenSeq(seqs)
<1>1. extract_compatibility_entries(d) = F
  BY DEF extract_compatibility_entries, CompatEntry
<1>2. IsSeq(m) /\ ToSet(m) = Matrices(d) BY BlocksFacts DEF Matrices
<1>3. Len(m) \in Nat /\ DOMAIN m = 1..Len(m) /\ \A i \in 1..Len(m) : m[i] \in Matrices(d)
  BY <1>2, ListFacts
<1>4. ASSUME NEW b \in Matrices(d)
      PROVE  /\ IsSeq(b.entries) /\ DOMAIN b.entries = 1..Len(b.entries)
             /\ IsSeq(EntriesOf(b)) /\ Len(EntriesOf(b)) = Len(b.entries)
  <2>1. IsSeq(b.entries) BY DEF Matrices
  <2>2. Len(b.entries) \in Nat /\ DOMAIN b.entries = 1..Len(b.entries) BY <2>1, ListFacts
  <2>3. EntriesOf(b) = [i \in 1..Len(b.entries) |-> EntriesOf(b)[i]] BY <2>2
  <2> HIDE DEF EntriesOf
  <2> QED BY <2>1, <2>2, <2>3, FunctionIsSeq
<1> HIDE DEF m
<1>5. IsSeq(seqs) /\ Len(seqs) = Len(m) /\ \A i \in 1..Len(m) : seqs[i] = EntriesOf(m[i])
  <2> HIDE DEF EntriesOf
  <2>1. seqs = [i \in 1..Len(m) |-> seqs[i]] BY <1>3
  <2>2. \A i \in 1..Len(m) : seqs[i] = EntriesOf(m[i]) BY <1>3
  <2> HIDE DEF seqs
  <2> QED BY <1>3, <2>1, <2>2, FunctionIsSeq
<1> HIDE DEF seqs
<1>6. \A i \in 1..Len(seqs) : IsSeq(seqs[i])
  <2> HIDE DEF EntriesOf
  <2> QED BY <1>3, <1>4, <1>5
<1>7. /\ IsSeq(F)
      /\ \A x \in ToSet(F) :
           \E i \in 1..Len(seqs) : \E j \in 1..Len(seqs[i]) : x = seqs[i][j]
      /\ \A i \in 1..Len(seqs) : \A j \in 1..Len(seqs[i]) : seqs[i][j] \in ToSet(F)
  BY <1>5, <1>6, FlattenedList
<1> HIDE DEF F
<1>8. ASSUME NEW b \in Matrices(d), NEW j \in 1..Len(b.entries)
      PROVE  /\ EntriesOf(b)[j] = CompatEntry(d, b, b.entries[j])
             /\ b.entries[j] \in ToSet(b.entries)
  BY <1>4, ListFacts
<1> HIDE DEF EntriesOf
<1>9. ASSUME NEW x \in ToSet(F)
      PROVE  \E b \in Matrices(d) : \E e \in ToSet(b.entries) : x = CompatEntry(d, b, e)
  <2>1. PICK i \in 1..Len(seqs) : \E j \in 1..Len(seqs[i]) : x = seqs[i][j] BY <1>7
  <2>2. m[i] \in Matrices(d) /\ seqs[i] = EntriesOf(m[i]) BY <1>3, <1>5
  <2>3. PICK j \in 1..Len(m[i].entries) : x = EntriesOf(m[i])[j] BY <1>4, <2>1, <2>2
  <2> QED BY <1>8, <2>2, <2>3
<1>10. ASSUME NEW b \in Matrices(d), NEW e \in ToSet(b.entries)
       PROVE  CompatEntry(d, b, e) \in ToSet(F)
  <2>1. PICK i \in 1..Len(m) : m[i] = b BY <1>2, ListFacts
  <2>2. PICK j \in 1..Len(b.entries) : b.entries[j] = e BY <1>4, ListFacts
  <2>3. i \in 1..Len(seqs) /\ seqs[i] = EntriesOf(b) /\ j \in 1..Len(seqs[i])
    BY <1>4, <1>5, <2>1
  <2>4. seqs[i][j] = CompatEntry(d, b, e) BY <1>8, <2>2, <2>3
  <2> QED BY <1>7, <2>3, <2>4
<1> QED BY <1>1, <1>7, <1>9, <1>10

LEMMA IndexCompat ==
  ASSUME files \in Libraries, rag = build_index(files)
  PROVE  /\ IsSeq(rag.compat)
         /\ \A x \in ToSet(rag.compat) :
              \E d \in ToSet(Documents(files)) : \E b \in Matrices(d) :
                \E e \in ToSet(b.entries) : x = CompatEntry(d, b, e)
         /\ \A d \in ToSet(Documents(files)) : \A b \in Matrices(d) :
              \A e \in ToSet(b.entries) : CompatEntry(d, b, e) \in ToSet(rag.compat)
<1> DEFINE docs == Documents(files)
           seqs == [i \in DOMAIN docs |-> extract_compatibility_entries(docs[i])]
<1>1. rag.compat = FlattenSeq(seqs) BY DEF build_index
<1>2. /\ IsSeq(docs)
      /\ \A d \in ToSet(docs) : IsSeq(d.blocks) /\ \A b \in ToSet(d.blocks) : IsSeq(b.entries)
  BY DocumentsFacts
<1> HIDE DEF docs
<1>3. Len(docs) \in Nat /\ DOMAIN docs = 1..Len(docs) /\ \A i \in 1..Len(docs) : docs[i] \in ToSet(docs)
  BY <1>2, ListFacts
<1>4. /\ IsSeq(seqs) /\ Len(seqs) = Len(docs)
      /\ \A i \in 1..Len(docs) : seqs[i] = extract_compatibility_entries(docs[i])
  <2>1. seqs = [i \in 1..Len(docs) |-> seqs[i]] BY <1>3
  <2>2. \A i \in 1..Len(docs) : seqs[i] = extract_compatibility_entries(docs[i]) BY <1>3
  <2> HIDE DEF seqs
  <2> QED BY <1>3, <2>1, <2>2, FunctionIsSeq
<1> HIDE DEF seqs
<1>5. ASSUME NEW i \in 1..Len(docs)
      PROVE  /\ IsSeq(seqs[i])
             /\ \A x \in ToSet(seqs[i]) : \E b \in Matrices(docs[i]) :
                  \E e \in ToSet(b.entries) : x = CompatEntry(docs[i], b, e)
             /\ \A b \in Matrices(docs[i]) : \A e \in ToSet(b.entries) :
                  CompatEntry(docs[i], b, e) \in ToSet(seqs[i])
  <2>1. IsSeq(docs[i].blocks) /\ \A b \in ToSet(docs[i].blocks) : IsSeq(b.entries)
    BY <1>2, <1>3
  <2> QED BY <1>4, <2>1, DocumentCompat
<1>6. /\ IsSeq(FlattenSeq(seqs))
      /\ \A x \in ToSet(FlattenSeq(seqs)) :
           \E i \in 1..Len(seqs) : \E j \in 1..Len(seqs[i]) : x = seqs[i][j]
      /\ \A i \in 1..Len(seqs) : \A j \in 1..Len(seqs[i]) :
           seqs[i][j] \in ToSet(FlattenSeq(seqs))
  BY <1>4, <1>5, FlattenedList
<1>7. ASSUME NEW x \in ToSet(FlattenSeq(seqs))
      PROVE  \E d \in ToSet(docs) : \E b \in Matrices(d) :
               \E e \in ToSet(b.entries) : x = CompatEntry(d, b, e)
  <2>1. PICK i \in 1..Len(docs) : \E j \in 1..Len(seqs[i]) : x = seqs[i][j] BY <1>4, <1>6
  <2>2. x \in ToSet(seqs[i]) BY <1>5, <2>1, ListFacts
  <2> QED BY <1>3, <1>5, <2>2
<1>8. ASSUME NEW d \in ToSet(docs), NEW b \in Matrices(d), NEW e \in ToSet(b.entries)
      PROVE  CompatEntry(d, b, e) \in ToSet(FlattenSeq(seqs))
  <2>1. PICK i \in 1..Len(docs) : docs[i] = d BY <1>2, ListFacts
  <2>2. CompatEntry(d, b, e) \in ToSet(seqs[i]) BY <1>5, <2>1
  <2>3. PICK j \in 1..Len(seqs[i]) : seqs[i][j] = CompatEntry(d, b, e)
    BY <1>5, <2>2, ListFacts
  <2> QED BY <1>4, <1>6, <2>3
<1> QED BY <1>1, <1>6, <1>7, <1>8 DEF docs

LEMMA DocumentDeprecated ==
  ASSUME NEW d, IsSeq(d.blocks), \A b \in ToSet(d.blocks) : IsSeq(b.entries)
  PROVE  /\ IsSeq(extract_deprecated_api_entries(d))
         /\ \A api : Tells(d, api) = {e \in ToSet(extract_deprecated_api_entries(d)) :
                                        e.api = api}
<1> DEFINE g == Blocks(d, "deprecated_api_guide")
           guides == {b \in ToSet(d.blocks) : b.kind = "deprecated_api_guide"}
           seqs == [i \in DOMAIN g |-> g[i].entries]
           F == FlattenSeq(seqs)
<1>1. extract_deprecated_api_entries(d) = F
  BY DEF extract_deprecated_api_entries
<1>2. IsSeq(g) /\ ToSet(g) = guides BY BlocksFacts
<1>3. \A b \in guides : IsSeq(b.entries) OBVIOUS
<1> DEFINE all == UNION {ToSet(b.entries) : b \in guides}
<1>4. \A api : Tells(d, api) = {e \in all : e.api = api} BY DEF Tells
<1> HIDE DEF g, guides
<1>5. Len(g) \in Nat /\ DOMAIN g = 1..Len(g) /\ \A i \in 1..Len(g) : g[i] \in guides
  BY <1>2, ListFacts
<1>6. IsSeq(seqs) /\ Len(seqs) = Len(g) /\ \A i \in 1..Len(g) : seqs[i] = g[i].entries
  <2>1. seqs = [i \in 1..Len(g) |-> seqs[i]] BY <1>5
  <2>2. \A i \in 1..Len(g) : seqs[i] = g[i].entries BY <1>5
  <2> HIDE DEF seqs
  <2> QED BY <1>5, <2>1, <2>2, FunctionIsSeq
<1> HIDE DEF seqs
<1>7. \A i \in 1..Len(seqs) : IsSeq(seqs[i]) BY <1>3, <1>5, <1>6
<1>8. /\ IsSeq(F)
      /\ \A x \in ToSet(F) :
           \E i \in 1..Len(seqs) : \E j \in 1..Len(seqs[i]) : x = seqs[i][j]
      /\ \A i \in 1..Len(seqs) : \A j \in 1..Len(seqs[i]) : seqs[i][j] \in ToSet(F)
  BY <1>6, <1>7, FlattenedList
<1> HIDE DEF F
<1>9. ToSet(F) = all
  <2>1. ASSUME NEW x \in ToSet(F) PROVE x \in all
    <3>1. PICK i \in 1..Len(seqs) : \E j \in 1..Len(seqs[i]) : x = seqs[i][j] BY <1>8
    <3>2. x \in ToSet(seqs[i]) BY <1>7, <3>1, ListFacts
    <3> QED BY <1>5, <1>6, <3>2
  <2>2. ASSUME NEW b \in guides, NEW x \in ToSet(b.entries) PROVE x \in ToSet(F)
    <3>1. PICK i \in 1..Len(g) : g[i] = b BY <1>2, ListFacts
    <3>2. PICK j \in 1..Len(seqs[i]) : seqs[i][j] = x BY <1>3, <1>6, <3>1, ListFacts
    <3> QED BY <1>6, <1>8, <3>2
  <2> QED BY <2>1, <2>2
<1> QED BY <1>1, <1>4, <1>8, <1>9

(* The guide answers with an entry of the first document that knows the    *)
(* API, and answers nothing only if no document knows it.                  *)
LEMMA LookupDeprecated ==
  ASSUME files \in Libraries, rag = build_index(files), NEW r
  PROVE  \/ /\ lookup_deprecated_api(rag, ApiOf[r]) = {}
            /\ \A d \in ToSet(Documents(files)) : Tells(d, ApiOf[r]) = {}
            /\ FirstTold(r) = {}
         \/ \E e \in FirstTold(r) : lookup_deprecated_api(rag, ApiOf[r]) = {e}
<1> DEFINE docs == Documents(files)
           api == ApiOf[r]
           seqs == [i \in DOMAIN docs |-> extract_deprecated_api_entries(docs[i])]
           F == FlattenSeq(seqs)
           T == {e \in ToSet(F) : e.api = api}
           hits == KeepIn(F, T)
           knowing == {i \in DOMAIN docs : Tells(docs[i], api) # {}}
<1>1. rag.deprecated = F BY DEF build_index
<1>2. lookup_deprecated_api(rag, api) = IF hits = <<>> THEN {} ELSE {hits[1]}
  BY <1>1 DEF lookup_deprecated_api, Keep
<1>3. FirstTold(r) = UNION {Tells(docs[i], api) : i \in {i \in knowing : \A j \in knowing : i <= j}}
  BY DEF FirstTold
<1>4. /\ IsSeq(docs)
      /\ \A d \in ToSet(docs) : IsSeq(d.blocks) /\ \A b \in ToSet(d.blocks) : IsSeq(b.entries)
  BY DocumentsFacts
<1> HIDE DEF docs, api
<1>5. Len(docs) \in Nat /\ DOMAIN docs = 1..Len(docs) /\ \A i \in 1..Len(docs) : docs[i] \in ToSet(docs)
  BY <1>4, ListFacts
<1>6. /\ IsSeq(seqs) /\ Len(seqs) = Len(docs)
      /\ \A i \in 1..Len(docs) : seqs[i] = extract_deprecated_api_entries(docs[i])
  <2>1. seqs = [i \in 1..Len(docs) |-> seqs[i]] BY <1>5
  <2>2. \A i \in 1..Len(docs) : seqs[i] = extract_deprecated_api_entries(docs[i]) BY <1>5
  <2> HIDE DEF seqs
  <2> QED BY <1>5, <2>1, <2>2, FunctionIsSeq
<1> HIDE DEF seqs
<1>7. ASSUME NEW i \in 1..Len(docs)
      PROVE  IsSeq(seqs[i]) /\ Tells(docs[i], api) = {e \in ToSet(seqs[i]) : e.api = api}
  <2>1. IsSeq(docs[i].blocks) /\ \A b \in ToSet(docs[i].blocks) : IsSeq(b.entries)
    BY <1>4, <1>5
  <2> QED BY <1>6, <2>1, DocumentDeprecated
<1>8. IsSeq(F) BY <1>6, <1>7, FlattenedList
<1>9. PICK row, col : IsFlat(F, seqs, Len(docs), row, col) BY <1>6, <1>7, FlattenedList
<1> HIDE DEF F
<1>10. IsSeq(hits) /\ ToSet(hits) = ToSet(F) \cap T
  <2> HIDE DEF T
  <2> QED BY <1>8, KeptList
<1>11. PICK at : IsKept(hits, F, T, at)
  <2> HIDE DEF T
  <2> QED BY <1>8, KeptList
<1>12. ASSUME NEW k \in 1..Len(F)
       PROVE  /\ row[k] \in 1..Len(docs) /\ F[k] \in ToSet(F)
              /\ F[k].api = api => F[k] \in Tells(docs[row[k]], api)
  <2>1. /\ row[k] \in 1..Len(docs) /\ col[k] \in 1..Len(seqs[row[k]])
        /\ F[k] = seqs[row[k]][col[k]]
    BY <1>9 DEF IsFlat
  <2>2. F[k] \in ToSet(seqs[row[k]]) BY <1>7, <2>1, ListFacts
  <2> QED BY <1>7, <1>8, <2>1, <2>2, ListFacts
<1>13. ASSUME NEW i \in knowing
       PROVE  \E k \in 1..Len(F) : row[k] = i /\ F[k] \in T
  <2>1. i \in 1..Len(docs) BY <1>5
  <2>2. PICK e \in ToSet(seqs[i]) : e.api = api BY <1>7, <2>1
  <2>3. PICK j \in 1..Len(seqs[i]) : seqs[i][j] = e BY <1>7, <2>1, <2>2, ListFacts
  <2>4. PICK k \in 1..Len(F) : row[k] = i /\ col[k] = j BY <1>9, <2>1, <2>3 DEF IsFlat
  <2>5. F[k] = e BY <1>9, <2>3, <2>4 DEF IsFlat
  <2> QED BY <1>12, <2>2, <2>4, <2>5
<1> HIDE DEF T, hits
<1>14. CASE hits = <<>>
  <2>1. Len(hits) = 0 BY <1>14, EmptySeq
  <2>2. \A k \in 1..Len(F) : F[k] \notin T BY <1>11, <2>1 DEF IsKept
  <2>3. knowing = {} BY <1>13, <2>2
  <2>4. ASSUME NEW d \in ToSet(docs) PROVE Tells(d, api) = {}
    <3>1. PICK i \in 1..Len(docs) : docs[i] = d BY <1>4, ListFacts
    <3> QED BY <1>5, <2>3, <3>1
  <2>5. FirstTold(r) = {} BY <1>3, <2>3
  <2> QED BY <1>2, <1>14, <2>4, <2>5 DEF docs, api
<1>15. CASE hits # <<>>
  <2>1. Len(hits) \in Nat /\ Len(hits) # 0 BY <1>10, <1>15, EmptySeq, ListFacts DEF IsSeq
  <2>2. 1 \in 1..Len(hits) BY <2>1
  <2>3. /\ at[1] \in 1..Len(F) /\ hits[1] = F[at[1]] /\ hits[1] \in T
        /\ \A k \in 1..Len(hits) : at[1] <= at[k] /\ at[k] \in Nat
    <3>1. ASSUME NEW k \in 1..Len(hits) PROVE at[1] <= at[k] /\ at[k] \in Nat
      <4>1. at[k] \in 1..Len(F) /\ Len(F) \in Nat BY <1>8, <1>11, ListFacts DEF IsKept
      <4>2. CASE k = 1 BY <4>1, <4>2
      <4>3. CASE k # 1
        <5>1. 1 < k BY <2>1, <4>3
        <5>2. at[1] < at[k] BY <1>11, <2>2, <5>1 DEF IsKept
        <5>3. at[1] \in 1..Len(F) BY <1>11, <2>2 DEF IsKept
        <5> QED BY <4>1, <5>2, <5>3
      <4> QED BY <4>2, <4>3
    <3> QED BY <1>11, <2>2, <3>1 DEF IsKept
  <2> DEFINE i == row[at[1]]
  <2>4. i \in 1..Len(docs) /\ hits[1] \in Tells(docs[i], api)
    BY <1>12, <2>3 DEF T
  <2>5. ASSUME NEW j \in knowing PROVE i <= j
    <3>1. PICK k \in 1..Len(F) : row[k] = j /\ F[k] \in T BY <1>13
    <3>2. PICK l \in 1..Len(hits) : at[l] = k BY <1>11, <3>1 DEF IsKept
    <3>3. at[1] <= k BY <2>3, <3>2
    <3>4. CASE at[1] = k BY <1>5, <2>4, <3>1, <3>4
    <3>5. CASE at[1] < k
      <4>1. row[at[1]] < row[k] \/ row[at[1]] = row[k] BY <1>9, <2>3, <3>5 DEF IsFlat
      <4>2. row[k] \in 1..Len(docs) BY <1>12
      <4> QED BY <1>5, <2>4, <3>1, <4>1, <4>2
    <3>6. at[1] = k \/ at[1] < k
      <4>1. at[1] \in Nat /\ k \in Nat BY <2>2, <2>3
      <4> QED BY <3>3, <4>1
    <3> QED BY <3>4, <3>5, <3>6
  <2>6. i \in knowing BY <1>5, <2>4
  <2>7. hits[1] \in FirstTold(r)
    <3> HIDE DEF i, knowing
    <3> QED BY <1>3, <2>4, <2>5, <2>6
  <2>8. lookup_deprecated_api(rag, api) = {hits[1]} BY <1>2, <1>15
  <2> QED BY <2>7, <2>8 DEF api
<1> QED BY <1>14, <1>15

(* A status is that of a block about the component, its version and the    *)
(* minor; UNKNOWN is said if there is none, or by such a block itself.     *)
Answered(r) ==
  /\ r.status \in CompatibilityStatus \cup {"raises"}
  /\ r.status \notin {"UNKNOWN", "raises"} =>
       \E d \in ToSet(Documents(files)) : d.id = r.source /\
         \E b \in Answering(d, r) : \E e \in ToSet(b.entries) :
           e.minor = r.minor /\ e.status = r.status
  /\ r.status = "UNKNOWN" =>
       \/ \A d \in ToSet(Documents(files)) : Answering(d, r) = {}
       \/ \E d \in ToSet(Documents(files)) : \E b \in Answering(d, r) :
            \E e \in ToSet(b.entries) : e.minor = r.minor /\ e.status = "UNKNOWN"

LEMMA LookupCompatibility ==
  ASSUME files \in Libraries, rag = build_index(files), NEW c, NEW v, NEW m, NEW r,
         r = lookup_compatibility(rag, c, v, m)
  PROVE  r.about = c /\ r.version = v /\ r.minor = m /\ Answered(r)
<1> DEFINE T == {x \in ToSet(rag.compat) : x.component = c /\ x.minor = m /\ Applies(x, v)}
           matches == KeepIn(rag.compat, T)
           Answer(status, source) ==
             [about |-> c, version |-> v, minor |-> m, status |-> status, source |-> source]
           docs == Documents(files)
<1>1. \/ r = Answer("raises", Absent)
      \/ matches = <<>> /\ r = Answer("UNKNOWN", Absent)
      \/ /\ matches # <<>>
         /\ r = Answer(IF matches[1].status \in CompatibilityStatus
                       THEN matches[1].status ELSE "raises", matches[1].doc)
  BY DEF lookup_compatibility, Keep
<1>2. /\ IsSeq(rag.compat)
      /\ \A x \in ToSet(rag.compat) : \E d \in ToSet(docs) : \E b \in Matrices(d) :
           \E e \in ToSet(b.entries) : x = CompatEntry(d, b, e)
      /\ \A d \in ToSet(docs) : \A b \in Matrices(d) : \A e \in ToSet(b.entries) :
           CompatEntry(d, b, e) \in ToSet(rag.compat)
  BY IndexCompat
<1>3. IsSeq(matches) /\ ToSet(matches) = ToSet(rag.compat) \cap T
  <2> HIDE DEF T
  <2> QED BY <1>2, KeptList
<1>4. r.about = c /\ r.version = v /\ r.minor = m /\ r.status \in CompatibilityStatus \cup {"raises"}
  BY <1>1 DEF CompatibilityStatus
<1> HIDE DEF matches, docs
<1>5. ASSUME NEW x \in T
      PROVE  \E d \in ToSet(docs) : \E b \in Answering(d, r) : \E e \in ToSet(b.entries) :
               d.id = x.doc /\ e.minor = r.minor /\ e.status = x.status
  <2>1. PICK d \in ToSet(docs) : \E b \in Matrices(d) : \E e \in ToSet(b.entries) :
          x = CompatEntry(d, b, e)
    BY <1>2
  <2>2. PICK b \in Matrices(d) : \E e \in ToSet(b.entries) : x = CompatEntry(d, b, e)
    BY <2>1
  <2>3. PICK e \in ToSet(b.entries) : x = CompatEntry(d, b, e)
    BY <2>2
  <2>4. /\ x.component = (IF b.component = NoComponent THEN d.component ELSE b.component)
        /\ x.pattern = b.pattern /\ x.minor = e.minor /\ x.status = e.status
        /\ x.doc = d.id
    BY <2>3 DEF CompatEntry
  <2>5. x.component = c /\ x.minor = m /\ Applies(x, v) OBVIOUS
  <2>6. b \in Answering(d, r) BY <1>4, <2>4, <2>5 DEF Answering, Matrices, Applies
  <2> QED BY <1>4, <2>4, <2>5, <2>6
<1>6. ASSUME NEW d \in ToSet(docs), NEW b \in Answering(d, r)
      PROVE  T # {}
  <2>1. PICK e \in ToSet(b.entries) : e.minor = r.minor BY DEF Answering
  <2>2. b \in Matrices(d) BY DEF Answering, Matrices
  <2>3. CompatEntry(d, b, e) \in ToSet(rag.compat) BY <1>2, <2>2
  <2>4. Applies(CompatEntry(d, b, e), v) BY <1>4 DEF Answering, Applies, CompatEntry
  <2>5. CompatEntry(d, b, e).component = c /\ CompatEntry(d, b, e).minor = m
    BY <1>4, <2>1 DEF Answering, CompatEntry
  <2> QED BY <2>3, <2>4, <2>5
<1>7. matches = <<>> <=> T = {}
  <2>1. ASSUME matches = <<>> PROVE T = {}
    <3>1. ToSet(matches) = {} BY <2>1 DEF ToSet
    <3> QED BY <1>3, <3>1
  <2>2. ASSUME matches # <<>> PROVE T # {}
    <3>1. Len(matches) \in Nat /\ Len(matches) # 0 BY <1>3, <2>2, EmptySeq, ListFacts DEF IsSeq
    <3>2. 1 \in 1..Len(matches) BY <3>1
    <3>3. matches[1] \in ToSet(matches) BY <1>3, <3>2, ListFacts
    <3> QED BY <1>3, <3>3
  <2> QED BY <2>1, <2>2
<1>8. matches # <<>> => matches[1] \in T
  <2> SUFFICES ASSUME matches # <<>> PROVE matches[1] \in T
    OBVIOUS
  <2>1. Len(matches) \in Nat /\ Len(matches) # 0 BY <1>3, EmptySeq, ListFacts DEF IsSeq
  <2>2. 1 \in 1..Len(matches) BY <2>1
  <2> QED BY <1>3, <2>2, ListFacts
<1> HIDE DEF T
<1>9. ASSUME matches # <<>>, r.status = matches[1].status, r.source = matches[1].doc
      PROVE  \E d \in ToSet(docs) : d.id = r.source /\
               \E b \in Answering(d, r) : \E e \in ToSet(b.entries) :
                 e.minor = r.minor /\ e.status = r.status
  BY <1>5, <1>8, <1>9
<1>10. matches = <<>> => \A d \in ToSet(docs) : Answering(d, r) = {}
  BY <1>6, <1>7
<1>11. CASE r = Answer("raises", Absent)
  BY <1>4, <1>11 DEF Answered
<1>12. CASE matches = <<>> /\ r = Answer("UNKNOWN", Absent)
  BY <1>4, <1>10, <1>12 DEF docs, Answered
<1>13. CASE /\ matches # <<>>
            /\ r = Answer(IF matches[1].status \in CompatibilityStatus
                          THEN matches[1].status ELSE "raises", matches[1].doc)
  <2>1. CASE matches[1].status \in CompatibilityStatus
    BY <1>4, <1>9, <1>13, <2>1 DEF docs, Answered
  <2>2. CASE matches[1].status \notin CompatibilityStatus
    <3>1. r.status = "raises" BY <1>13, <2>2
    <3> QED BY <1>4, <3>1 DEF Answered
  <2> QED BY <2>1, <2>2
<1> QED BY <1>1, <1>11, <1>12, <1>13

----------------------------------------------------------------------------
(* The components                                                          *)

LEMMA NodeComponentsIsSeq ==
  ASSUME NEW nodes
  PROVE  IsSeq(NodeComponents(nodes))
<1>1. \A x : IsSeq(<<x>>) BY SmallSeqs
<1>2. IsSeq(<<>>) BY SmallSeqs
<1>3. \A s, t : IsSeq(s) /\ IsSeq(t) => IsSeq(s \o t) BY ConcatIsSeq
<1> DEFINE If(seen, slug, version) ==
             IF seen = None THEN <<>> ELSE <<[slug |-> slug, version |-> version]>>
<1>4. \A seen, slug, version : IsSeq(If(seen, slug, version)) BY <1>1, <1>2
<1>5. CASE nodes = <<>> BY <1>2, <1>5 DEF NodeComponents
<1>6. CASE nodes # <<>>
  <2> DEFINE p == nodes[1]
             hint == infer_cgroup_version_hint(p)
             a == If(p.runtime, SlugOf[<<p.runtime>>], p.runtimeVersion)
             b == If(p.os, SlugOf[<<p.os>>], p.osVersion)
             c == If(p.kernel, <<"kernel">>, p.kernel)
             d == If(hint, <<"cgroup">>, hint)
  <2>1. NodeComponents(nodes) = ((a \o b) \o c) \o d BY <1>6 DEF NodeComponents
  <2>2. IsSeq(a) /\ IsSeq(b) /\ IsSeq(c) /\ IsSeq(d) BY <1>4
  <2> HIDE DEF a, b, c, d
  <2> QED BY <1>3, <2>1, <2>2
<1> QED BY <1>5, <1>6

\* What one image says: a name, which becomes a slug, and a version.
Software(w) == infer_software_from_image(w.image)

(* Each component is judged once, each installed software among them, with *)
(* the version of an image that is installed: the nodes come last.         *)
LEMMA ComponentsFacts ==
  ASSUME cluster \in Clusters, NEW components,
         components = gather_components(collect_software_inventory(cluster.workloads),
                                        cluster.nodes)
  PROVE  /\ IsSeq(components)
         /\ \A i, j \in 1..Len(components) : components[i].slug = components[j].slug => i = j
         /\ \A w \in ToSet(cluster.workloads) : \E i \in 1..Len(components) :
              /\ components[i].slug = SlugOf[Software(w).name]
              /\ \E x \in ToSet(cluster.workloads) :
                   /\ SlugOf[Software(x).name] = components[i].slug
                   /\ Software(x).version = components[i].version
<1> DEFINE ws == cluster.workloads
           all == [i \in DOMAIN ws |-> SoftwareOf(ws[i])]
           who == [sw \in ToSet(all) |-> <<sw.name, sw.namespace>>]
           inv == BestOf(all, who, {})
           ofInv == [i \in DOMAIN inv |-> [slug |-> SlugOf[inv[i].name],
                                           version |-> inv[i].version]]
           nodes == NodeComponents(cluster.nodes)
           cand == ofInv \o nodes
           slugs == [c \in ToSet(cand) |-> c.slug]
<1>1. Inventory(ws) = inv
  <2>1. {p \in ToSet(all) \X ToSet(all) : FALSE} = {} OBVIOUS
  <2> QED BY <2>1 DEF Inventory, KeepFirst, KeepBest
<1>2. components = BestOf(cand, slugs, {})
  <2>1. {p \in ToSet(cand) \X ToSet(cand) : FALSE} = {} OBVIOUS
  <2> HIDE DEF inv
  <2> QED BY <1>1, <2>1 DEF gather_components, collect_software_inventory, KeepFirst, KeepBest
<1>3. IsSeq(ws) BY InputAssumption
<1> HIDE DEF ws
<1>4. Len(ws) \in Nat /\ DOMAIN ws = 1..Len(ws) BY <1>3, ListFacts
<1>5. IsSeq(all) /\ Len(all) = Len(ws) /\ \A i \in 1..Len(ws) : all[i] = SoftwareOf(ws[i])
  <2>1. all = [i \in 1..Len(ws) |-> all[i]] BY <1>4
  <2>2. \A i \in 1..Len(ws) : all[i] = SoftwareOf(ws[i]) BY <1>4
  <2> HIDE DEF all
  <2> QED BY <1>4, <2>1, <2>2, FunctionIsSeq
<1> HIDE DEF all
<1>6. \A x \in ToSet(all) : who[x] = <<x.name, x.namespace>> OBVIOUS
<1> HIDE DEF who
<1>7. /\ IsSeq(inv) /\ ToSet(inv) \subseteq ToSet(all)
      /\ \A x \in ToSet(all) : \E y \in ToSet(inv) : who[y] = who[x]
  BY <1>5, FirstPerKey
<1> HIDE DEF inv
<1>8. Len(inv) \in Nat /\ DOMAIN inv = 1..Len(inv) BY <1>7, ListFacts
<1>9. /\ IsSeq(ofInv) /\ Len(ofInv) = Len(inv)
      /\ \A i \in 1..Len(inv) : ofInv[i] = [slug |-> SlugOf[inv[i].name],
                                            version |-> inv[i].version]
  <2>1. ofInv = [i \in 1..Len(inv) |-> ofInv[i]] BY <1>8
  <2>2. \A i \in 1..Len(inv) : ofInv[i] = [slug |-> SlugOf[inv[i].name],
                                           version |-> inv[i].version]
    BY <1>8
  <2> HIDE DEF ofInv
  <2> QED BY <1>8, <2>1, <2>2, FunctionIsSeq
<1>10. IsSeq(nodes) BY NodeComponentsIsSeq
<1> HIDE DEF ofInv, nodes
<1>11. /\ IsSeq(cand) /\ Len(cand) = Len(inv) + Len(nodes) /\ Len(nodes) \in Nat
       /\ \A i \in 1..Len(inv) : cand[i] = ofInv[i]
  <2>1. /\ IsSeq(cand) /\ Len(cand) = Len(ofInv) + Len(nodes)
        /\ \A i \in 1..Len(ofInv) : cand[i] = ofInv[i]
    BY <1>9, <1>10, ConcatIsSeq
  <2>2. Len(nodes) \in Nat BY <1>10, ListFacts
  <2> HIDE DEF cand
  <2> QED BY <1>9, <2>1, <2>2
<1> HIDE DEF cand
<1>12. \A x \in ToSet(cand) : slugs[x] = x.slug OBVIOUS
<1> HIDE DEF slugs
<1>13. /\ IsSeq(components) /\ OnePerKey(components, slugs)
       /\ ToSet(components) \subseteq ToSet(cand)
       /\ \A i \in 1..Len(cand) : \E k \in 1..Len(components) : \E p \in 1..i :
            components[k] = cand[p] /\ slugs[cand[p]] = slugs[cand[i]]
  <2> SUFFICES ASSUME NEW b, b = BestOf(cand, slugs, {})
               PROVE  /\ IsSeq(b) /\ OnePerKey(b, slugs) /\ ToSet(b) \subseteq ToSet(cand)
                      /\ \A i \in 1..Len(cand) : \E k \in 1..Len(b) : \E p \in 1..i :
                           b[k] = cand[p] /\ slugs[cand[p]] = slugs[cand[i]]
    BY <1>2
  <2>1. IsSeq(cand) BY <1>11
  <2> QED BY <2>1, FirstPerKey
<1>14. ASSUME NEW i \in 1..Len(components), NEW j \in 1..Len(components),
              components[i].slug = components[j].slug
       PROVE  i = j
  <2>1. slugs[components[i]] = slugs[components[j]] BY <1>12, <1>13, <1>14, ListFacts
  <2> QED BY <1>13, <2>1 DEF OnePerKey
<1>15. ASSUME NEW x \in ToSet(inv)
       PROVE  \E w \in ToSet(ws) : x = SoftwareOf(w)
  <2>1. PICK i \in 1..Len(all) : all[i] = x BY <1>5, <1>7, ListFacts
  <2> QED BY <1>3, <1>5, <2>1, ListFacts
<1>16. ASSUME NEW w \in ToSet(ws)
       PROVE  \E i \in 1..Len(components) :
                /\ components[i].slug = SlugOf[Software(w).name]
                /\ \E x \in ToSet(ws) :
                     /\ SlugOf[Software(x).name] = components[i].slug
                     /\ Software(x).version = components[i].version
  <2>1. PICK i \in 1..Len(ws) : ws[i] = w BY <1>3, ListFacts
  <2>2. all[i] = SoftwareOf(w) /\ all[i] \in ToSet(all) BY <1>5, <2>1, ListFacts
  <2>3. PICK y \in ToSet(inv) : who[y] = who[all[i]] BY <1>7, <2>2
  <2>4. y.name = Software(w).name
    <3>1. <<y.name, y.namespace>> = <<all[i].name, all[i].namespace>>
      BY <1>6, <1>7, <2>2, <2>3
    <3> QED BY <2>2, <3>1 DEF SoftwareOf, Software
  <2>5. PICK n \in 1..Len(inv) : inv[n] = y BY <1>7, ListFacts
  <2>6. n \in 1..Len(cand) /\ cand[n].slug = SlugOf[Software(w).name]
    <3>1. n \in 1..Len(cand) BY <1>8, <1>11
    <3>2. cand[n] = [slug |-> SlugOf[inv[n].name], version |-> inv[n].version]
      BY <1>9, <1>11
    <3> QED BY <2>4, <2>5, <3>1, <3>2
  <2>7. PICK k \in 1..Len(components) : \E p \in 1..n :
          components[k] = cand[p] /\ slugs[cand[p]] = slugs[cand[n]]
    BY <1>13, <2>6
  <2>8. PICK p \in 1..n : components[k] = cand[p] /\ slugs[cand[p]] = slugs[cand[n]]
    BY <2>7
  <2>9. p \in 1..Len(inv) /\ p \in 1..Len(cand) BY <1>8, <1>11
  <2>10. components[k].slug = SlugOf[Software(w).name]
    BY <1>11, <1>12, <2>6, <2>8, <2>9, ListFacts
  <2>11. PICK x \in ToSet(ws) : inv[p] = SoftwareOf(x) BY <1>7, <1>15, <2>9, ListFacts
  <2>12. /\ SlugOf[Software(x).name] = components[k].slug
         /\ Software(x).version = components[k].version
    <3>1. cand[p] = [slug |-> SlugOf[inv[p].name], version |-> inv[p].version]
      BY <1>9, <1>11, <2>9
    <3>2. inv[p].name = Software(x).name /\ inv[p].version = Software(x).version
      BY <2>11 DEF SoftwareOf, Software
    <3> QED BY <2>8, <3>1, <3>2
  <2> QED BY <2>10, <2>12
<1> QED BY <1>13, <1>14, <1>16 DEF ws

----------------------------------------------------------------------------
(* The verdicts                                                            *)

\* What is about the same is listed from the first version to the last.
Ascends(s) ==
  \A k, l \in 1..Len(s) : k < l /\ s[k].about = s[l].about => s[k].minor < s[l].minor

LEMMA CompatFacts ==
  ASSUME IInv, node \notin Unchecked
  PROVE  /\ IsSeq(compat) /\ Ascends(compat)
         /\ \A r \in ToSet(compat) : /\ Answered(r) /\ r.status \in CompatibilityStatus
                                     /\ r.minor \in ToSet(TargetMinors)
         /\ \A w \in ToSet(cluster.workloads), minor \in ToSet(TargetMinors) :
              \E r \in ToSet(compat) :
                /\ r.about = SlugOf[Software(w).name] /\ r.minor = minor
                /\ \E x \in ToSet(cluster.workloads) :
                     /\ SlugOf[Software(x).name] = r.about
                     /\ Software(x).version = r.version
<1> DEFINE comps == gather_components(collect_software_inventory(cluster.workloads),
                                      cluster.nodes)
           minors == TargetMinors
           row(i) == [j \in DOMAIN minors |->
                        lookup_compatibility(rag, comps[i].slug, comps[i].version, minors[j])]
           seqs == [i \in DOMAIN comps |-> row(i)]
           F == FlattenSeq(seqs)
<1>1. /\ files \in Libraries /\ rag = build_index(files) /\ cluster \in Clusters
      /\ Upgradable(Current, target) /\ target \in Targets
      /\ path = compute_upgrade_path(Current, target)
      /\ compat = evaluate_compatibility(TargetMinors)
      /\ \A r \in ToSet(compat) : r.status # "raises"
  BY DEF IInv, InputInv, RagInv, CompatInv, Unchecked, Unloaded
<1>2. compat = F BY <1>1 DEF evaluate_compatibility
<1>3. /\ IsSeq(comps)
      /\ \A i, j \in 1..Len(comps) : comps[i].slug = comps[j].slug => i = j
      /\ \A w \in ToSet(cluster.workloads) : \E i \in 1..Len(comps) :
           /\ comps[i].slug = SlugOf[Software(w).name]
           /\ \E x \in ToSet(cluster.workloads) :
                /\ SlugOf[Software(x).name] = comps[i].slug
                /\ Software(x).version = comps[i].version
  BY <1>1, ComponentsFacts
<1>4. /\ IsSeq(minors) /\ Len(minors) \in Nat
      /\ \A i, j \in 1..Len(minors) : i < j => minors[i] < minors[j]
  BY <1>1, MinorsFacts
<1> HIDE DEF comps, minors
<1>5. /\ Len(comps) \in Nat /\ DOMAIN comps = 1..Len(comps)
      /\ DOMAIN minors = 1..Len(minors) /\ \A j \in 1..Len(minors) : minors[j] \in ToSet(minors)
  BY <1>3, <1>4, ListFacts
<1>6. ASSUME NEW i \in 1..Len(comps)
      PROVE  /\ IsSeq(row(i)) /\ Len(row(i)) = Len(minors)
             /\ \A j \in 1..Len(minors) : row(i)[j] =
                  lookup_compatibility(rag, comps[i].slug, comps[i].version, minors[j])
  <2>1. row(i) = [j \in 1..Len(minors) |-> row(i)[j]] BY <1>5
  <2>2. \A j \in 1..Len(minors) : row(i)[j] =
          lookup_compatibility(rag, comps[i].slug, comps[i].version, minors[j])
    BY <1>5
  <2> HIDE DEF row
  <2> QED BY <1>4, <2>1, <2>2, FunctionIsSeq
<1> HIDE DEF row
<1>7. IsSeq(seqs) /\ Len(seqs) = Len(comps) /\ \A i \in 1..Len(comps) : seqs[i] = row(i)
  <2>1. seqs = [i \in 1..Len(comps) |-> seqs[i]] BY <1>5
  <2>2. \A i \in 1..Len(comps) : seqs[i] = row(i) BY <1>5
  <2> HIDE DEF seqs
  <2> QED BY <1>5, <2>1, <2>2, FunctionIsSeq
<1> HIDE DEF seqs
<1>8. \A i \in 1..Len(seqs) : IsSeq(seqs[i]) BY <1>6, <1>7
<1>9. IsSeq(F) BY <1>7, <1>8, FlattenedList
<1>10. PICK at, col : IsFlat(F, seqs, Len(seqs), at, col) BY <1>7, <1>8, FlattenedList
<1> HIDE DEF F
<1>11. ASSUME NEW k \in 1..Len(F)
       PROVE  /\ at[k] \in 1..Len(comps) /\ col[k] \in 1..Len(minors)
              /\ F[k].about = comps[at[k]].slug /\ F[k].version = comps[at[k]].version
              /\ F[k].minor = minors[col[k]] /\ Answered(F[k])
  <2>1. /\ at[k] \in 1..Len(comps) /\ col[k] \in 1..Len(minors)
        /\ F[k] = row(at[k])[col[k]]
    BY <1>6, <1>7, <1>10 DEF IsFlat
  <2>2. F[k] = lookup_compatibility(rag, comps[at[k]].slug, comps[at[k]].version,
                                    minors[col[k]])
    BY <1>6, <2>1
  <2> QED BY <1>1, <2>1, <2>2, LookupCompatibility
<1>12. Ascends(F)
  <2> SUFFICES ASSUME NEW k \in 1..Len(F), NEW l \in 1..Len(F), k < l, F[k].about = F[l].about
               PROVE  F[k].minor < F[l].minor
    BY DEF Ascends
  <2>1. at[k] = at[l]
    <3>1. at[k] \in 1..Len(comps) /\ F[k].about = comps[at[k]].slug BY <1>11
    <3>2. at[l] \in 1..Len(comps) /\ F[l].about = comps[at[l]].slug BY <1>11
    <3> QED BY <1>3, <3>1, <3>2
  <2>2. at[k] < at[l] \/ (at[k] = at[l] /\ col[k] < col[l]) BY <1>10 DEF IsFlat
  <2>3. col[k] < col[l] BY <1>5, <1>11, <2>1, <2>2
  <2> QED BY <1>4, <1>11, <2>3
<1>13. ASSUME NEW r \in ToSet(F)
       PROVE  Answered(r) /\ r.status \in CompatibilityStatus /\ r.minor \in ToSet(minors)
  <2>1. PICK k \in 1..Len(F) : F[k] = r BY <1>9, ListFacts
  <2>2. Answered(r) /\ r.minor \in ToSet(minors) BY <1>5, <1>11, <2>1
  <2>3. r.status # "raises" BY <1>1, <1>2
  <2> QED BY <2>2, <2>3 DEF Answered
<1>14. ASSUME NEW w \in ToSet(cluster.workloads), NEW minor \in ToSet(minors)
       PROVE  \E r \in ToSet(F) :
                /\ r.about = SlugOf[Software(w).name] /\ r.minor = minor
                /\ \E x \in ToSet(cluster.workloads) :
                     /\ SlugOf[Software(x).name] = r.about
                     /\ Software(x).version = r.version
  <2>1. PICK i \in 1..Len(comps) :
          /\ comps[i].slug = SlugOf[Software(w).name]
          /\ \E x \in ToSet(cluster.workloads) :
               /\ SlugOf[Software(x).name] = comps[i].slug
               /\ Software(x).version = comps[i].version
    BY <1>3
  <2>2. PICK j \in 1..Len(minors) : minors[j] = minor BY <1>4, ListFacts
  <2>3. PICK k \in 1..Len(F) : at[k] = i /\ col[k] = j
    BY <1>6, <1>7, <1>10 DEF IsFlat
  <2>4. F[k] \in ToSet(F) BY <1>9, ListFacts
  <2> QED BY <1>11, <2>1, <2>2, <2>3, <2>4
<1> QED BY <1>2, <1>9, <1>12, <1>13, <1>14 DEF minors

IsSummary(b, s, rank) ==
  /\ IsSeq(b) /\ ToSet(b) \subseteq ToSet(s)
  /\ \A x \in ToSet(b) : \A f \in ToSet(s) : f.about = x.about =>
       rank[f] < rank[x] \/ (rank[f] = rank[x] /\ f.minor >= x.minor)
  /\ \A f \in ToSet(s) : \E x \in ToSet(b) : x.about = f.about
  /\ Len(b) = Cardinality({x.about : x \in ToSet(b)})

(* The best of each that a list is about, in ascending order: the highest  *)
(* rank, and the first version that has it.                                *)
LEMMA SummaryFacts ==
  ASSUME NEW s, IsSeq(s), Ascends(s), \A x \in ToSet(s) : x.minor \in Nat,
         NEW key, \A x \in ToSet(s) : key[x] = x.about,
         NEW beats, NEW rank \in [ToSet(s) -> Nat], BeatsByRank(beats, s, rank),
         NEW b, b = BestOf(s, key, beats)
  PROVE  IsSummary(b, s, rank)
<1>1. IsSeq(b) /\ OnePerKey(b, key) BY BestOfList
<1>2. PICK pos, fst : IsBest(b, s, Len(s), key, rank, pos, fst) BY BestOfList
<1>3. /\ Len(s) \in Nat /\ \A i \in 1..Len(s) : s[i] \in ToSet(s)
      /\ Len(b) \in Nat /\ \A i \in 1..Len(b) : b[i] \in ToSet(b)
  BY <1>1, ListFacts
<1>4. ASSUME NEW k \in 1..Len(b)
      PROVE  pos[k] \in 1..Len(s) /\ b[k] = s[pos[k]] /\ key[b[k]] = b[k].about
  BY <1>2, <1>3 DEF IsBest
<1>5. ToSet(b) \subseteq ToSet(s)
  <2> SUFFICES ASSUME NEW x \in ToSet(b) PROVE x \in ToSet(s)
    OBVIOUS
  <2>1. PICK k \in 1..Len(b) : b[k] = x BY <1>1, ListFacts
  <2> QED BY <1>3, <1>4, <2>1
<1>6. ASSUME NEW x \in ToSet(b), NEW f \in ToSet(s), f.about = x.about
      PROVE  rank[f] < rank[x] \/ (rank[f] = rank[x] /\ f.minor >= x.minor)
  <2>1. PICK k \in 1..Len(b) : b[k] = x BY <1>1, ListFacts
  <2>2. PICK j \in 1..Len(s) : s[j] = f BY ListFacts
  <2>3. key[s[j]] = key[b[k]] BY <1>4, <1>6, <2>1, <2>2
  <2>4. rank[f] <= rank[x] /\ (rank[f] = rank[x] => pos[k] <= j)
    BY <1>2, <2>1, <2>2, <2>3 DEF IsBest
  <2>5. rank[f] \in Nat /\ rank[x] \in Nat /\ f.minor \in Nat /\ x.minor \in Nat BY <1>5
  <2>6. ASSUME rank[f] = rank[x] PROVE f.minor >= x.minor
    <3>1. pos[k] <= j /\ pos[k] \in 1..Len(s) /\ s[pos[k]] = x BY <1>4, <2>1, <2>4, <2>6
    <3>2. CASE pos[k] = j BY <2>2, <2>5, <3>1, <3>2
    <3>3. CASE pos[k] < j
      <4>1. s[pos[k]].minor < s[j].minor BY <1>6, <2>2, <3>1, <3>3 DEF Ascends
      <4> QED BY <2>2, <2>5, <3>1, <4>1
    <3> QED BY <1>3, <3>1, <3>2, <3>3
  <2> QED BY <2>4, <2>5, <2>6
<1>7. ASSUME NEW f \in ToSet(s) PROVE \E x \in ToSet(b) : x.about = f.about
  <2>1. PICK j \in 1..Len(s) : s[j] = f BY ListFacts
  <2>2. PICK k \in 1..Len(b) : key[b[k]] = key[f] BY <1>2, <2>1 DEF IsBest
  <2> QED BY <1>3, <1>4, <2>2
<1>8. Len(b) = Cardinality({x.about : x \in ToSet(b)})
  <2> DEFINE A == {x.about : x \in ToSet(b)}
             name == [k \in 1..Len(b) |-> b[k].about]
  <2>1. name \in [1..Len(b) -> A] BY <1>3
  <2>2. \A a \in A : \E k \in 1..Len(b) : name[k] = a
    <3> SUFFICES ASSUME NEW x \in ToSet(b) PROVE \E k \in 1..Len(b) : name[k] = x.about
      OBVIOUS
    <3>1. PICK k \in 1..Len(b) : b[k] = x BY <1>1, ListFacts
    <3> QED BY <3>1
  <2>3. \A k, l \in 1..Len(b) : name[k] = name[l] => k = l
    BY <1>1, <1>4 DEF OnePerKey
  <2> HIDE DEF A, name
  <2>4. name \in Bijection(1..Len(b), A)
    BY <2>1, <2>2, <2>3 DEF Bijection, Injection, Surjection, IsInjective
  <2>5. IsFiniteSet(1..Len(b)) /\ Cardinality(1..Len(b)) = Len(b)
    <3>1. 1 \in Int /\ Len(b) \in Int BY <1>3
    <3>2. IsFiniteSet(1..Len(b))
          /\ Cardinality(1..Len(b)) = IF 1 > Len(b) THEN 0 ELSE Len(b) - 1 + 1
      BY <3>1, FS_Interval
    <3> QED BY <1>3, <3>2
  <2>6. Cardinality(A) = Len(b) BY <2>4, <2>5, FS_Bijection DEF ExistsBijection
  <2> QED BY <2>6 DEF A
<1> QED BY <1>1, <1>5, <1>6, <1>7, <1>8 DEF IsSummary

----------------------------------------------------------------------------
(* The findings of the guide and of pluto                                  *)

LEMMA GatheredFacts ==
  /\ IsSeq(Gathered)
  /\ \A g \in ToSet(Gathered) : /\ g.res \in ToSet(Resources)
                                /\ g.found \in {"live", "helm"} /\ g.found \in where[g.res]
  /\ \A r \in ToSet(Resources) : "live" \in where[r] =>
       \E g \in ToSet(Gathered) : g.res = r /\ g.found = "live"
<1> DEFINE T(found) == {r \in ToSet(Resources) : found \in where[r]}
           In(found) == KeepIn(Resources, T(found))
           Part(found) == [i \in DOMAIN In(found) |-> [res |-> In(found)[i], found |-> found]]
<1>1. Gathered = Part("live") \o Part("helm") BY DEF Gathered, Keep
<1>2. ASSUME NEW found
      PROVE  /\ IsSeq(Part(found))
             /\ \A g \in ToSet(Part(found)) :
                  g.res \in ToSet(Resources) /\ g.found = found /\ found \in where[g.res]
             /\ \A r \in T(found) : \E g \in ToSet(Part(found)) : g.res = r /\ g.found = found
  <2> DEFINE K == In(found)
             P == Part(found)
  <2>1. IsSeq(K) /\ ToSet(K) = T(found)
    <3> HIDE DEF T
    <3>1. IsSeq(K) /\ ToSet(K) = ToSet(Resources) \cap T(found)
      BY InputAssumption, KeptList
    <3> QED BY <3>1 DEF T
  <2> HIDE DEF K
  <2>2. Len(K) \in Nat /\ DOMAIN K = 1..Len(K) BY <2>1, ListFacts
  <2>3. /\ IsSeq(P) /\ Len(P) = Len(K)
        /\ \A i \in 1..Len(K) : P[i] = [res |-> K[i], found |-> found]
    <3>1. P = [i \in DOMAIN K |-> [res |-> K[i], found |-> found]] BY DEF K
    <3> HIDE DEF P
    <3>2. P = [i \in 1..Len(K) |-> P[i]] BY <2>2, <3>1
    <3>3. \A i \in 1..Len(K) : P[i] = [res |-> K[i], found |-> found] BY <2>2, <3>1
    <3> QED BY <2>2, <3>2, <3>3, FunctionIsSeq
  <2> HIDE DEF P
  <2>4. ASSUME NEW g \in ToSet(P)
        PROVE  g.res \in T(found) /\ g.found = found
    <3>1. PICK i \in 1..Len(P) : P[i] = g BY <2>3, ListFacts
    <3>2. K[i] \in T(found) BY <2>1, <2>3, ListFacts
    <3> HIDE DEF T
    <3>3. g = [res |-> K[i], found |-> found] BY <2>3, <3>1
    <3> QED BY <3>2, <3>3
  <2>5. ASSUME NEW r \in T(found)
        PROVE  \E g \in ToSet(P) : g.res = r /\ g.found = found
    <3>1. PICK i \in 1..Len(K) : K[i] = r BY <2>1, ListFacts
    <3>2. P[i] = [res |-> K[i], found |-> found] /\ P[i] \in ToSet(P) BY <2>3, ListFacts
    <3> QED BY <3>1, <3>2
  <2> QED BY <2>3, <2>4, <2>5 DEF P
<1> HIDE DEF Part
<1>3. IsSeq(Part("live")) /\ IsSeq(Part("helm")) BY <1>2
<1>4. IsSeq(Gathered) /\ ToSet(Gathered) = ToSet(Part("live")) \cup ToSet(Part("helm"))
  BY <1>1, <1>3, ConcatIsSeq
<1>5. ASSUME NEW g \in ToSet(Gathered)
      PROVE  /\ g.res \in ToSet(Resources)
             /\ g.found \in {"live", "helm"} /\ g.found \in where[g.res]
  <2>1. CASE g \in ToSet(Part("live")) BY <1>2, <2>1
  <2>2. CASE g \in ToSet(Part("helm")) BY <1>2, <2>2
  <2> QED BY <1>4, <2>1, <2>2
<1>6. ASSUME NEW r \in ToSet(Resources), "live" \in where[r]
      PROVE  \E g \in ToSet(Gathered) : g.res = r /\ g.found = "live"
  <2>1. r \in T("live") BY <1>6
  <2>2. PICK g \in ToSet(Part("live")) : g.res = r /\ g.found = "live" BY <1>2, <2>1
  <2> QED BY <1>4, <2>2
<1> QED BY <1>4, <1>5, <1>6

LEMMA FirstToldFacts ==
  ASSUME files \in Libraries, NEW r
  PROVE  /\ \A e \in FirstTold(r) : e.deprecated \in Nat /\ e.removed \in Nat
         /\ FirstTold(r) # {} => \E d \in ToSet(Documents(files)) : Tells(d, ApiOf[r]) # {}
<1> DEFINE docs == Documents(files)
           knowing == {i \in DOMAIN docs : Tells(docs[i], ApiOf[r]) # {}}
<1>1. FirstTold(r) = UNION {Tells(docs[i], ApiOf[r]) :
                              i \in {i \in knowing : \A j \in knowing : i <= j}}
  BY DEF FirstTold
<1>2. /\ IsSeq(docs)
      /\ \A d \in ToSet(docs) : \A b \in ToSet(d.blocks) : b.kind = "deprecated_api_guide" =>
           \A e \in ToSet(b.entries) : e.deprecated \in Nat /\ e.removed \in Nat
  BY DocumentsFacts
<1> HIDE DEF docs
<1>3. ASSUME NEW e \in FirstTold(r)
      PROVE  /\ e.deprecated \in Nat /\ e.removed \in Nat
             /\ \E d \in ToSet(docs) : Tells(d, ApiOf[r]) # {}
  <2>1. PICK i \in DOMAIN docs : e \in Tells(docs[i], ApiOf[r]) BY <1>1
  <2>2. docs[i] \in ToSet(docs) BY <1>2, <2>1, ListFacts
  <2>3. PICK b \in ToSet(docs[i].blocks) :
          b.kind = "deprecated_api_guide" /\ e \in ToSet(b.entries)
    BY <2>1 DEF Tells
  <2> QED BY <1>2, <2>1, <2>2, <2>3
<1> QED BY <1>3 DEF docs

\* The guide has something to say of a resource at a version.
Concerns(r, minor) ==
  LET entry == lookup_deprecated_api(rag, ApiOf[r]) IN
  IF entry = {} THEN prerelease[r] /\ minor = TargetMinors[1]
  ELSE \E e \in entry : minor >= e.removed \/ minor >= e.deprecated

\* What a finding of the guide says is so.
Founded(f, g) ==
  /\ f.about = g.res /\ f.by = "rag" /\ f.minor \in ToSet(TargetMinors)
  /\ f.status \in {"UNKNOWN", "ACTION_REQUIRED", "UPGRADE_BLOCKER"}
  /\ f.status = "UPGRADE_BLOCKER" => g.found = "live" /\ SaidRemoved(g.res, f.minor)
  /\ f.status = "UNKNOWN" =>
       \A d \in ToSet(Documents(files)) : Tells(d, ApiOf[g.res]) = {}
  /\ g.found = "live" /\ Removed(g.res, f.minor) => f.status = "UPGRADE_BLOCKER"

LEMMA FindingsFacts ==
  ASSUME files \in Libraries, rag = build_index(files),
         IsSeq(TargetMinors), Len(TargetMinors) \in Nat \ {0},
         \A i \in 1..Len(TargetMinors) : TargetMinors[i] \in Nat,
         \A i, j \in 1..Len(TargetMinors) : i < j => TargetMinors[i] < TargetMinors[j],
         NEW g, g.found \in {"live", "helm"},
         NEW s, s = FindingsOf(g, TargetMinors)
  PROVE  /\ IsSeq(s) /\ \A i \in 1..Len(s) : Founded(s[i], g) /\ Concerns(g.res, s[i].minor)
         /\ \A i, j \in 1..Len(s) : i < j => s[i].minor < s[j].minor
         /\ \A minor \in ToSet(TargetMinors) : Concerns(g.res, minor) =>
              \E i \in 1..Len(s) : s[i].minor = minor
<1> DEFINE entry == lookup_deprecated_api(rag, ApiOf[g.res])
           minors == TargetMinors
<1>1. \/ /\ entry = {}
         /\ \A d \in ToSet(Documents(files)) : Tells(d, ApiOf[g.res]) = {}
         /\ FirstTold(g.res) = {}
      \/ \E e \in FirstTold(g.res) : entry = {e}
  BY LookupDeprecated
<1>2. /\ Len(minors) \in Nat /\ DOMAIN minors = 1..Len(minors)
      /\ \A i \in 1..Len(minors) : minors[i] \in ToSet(minors)
      /\ \A x \in ToSet(minors) : \E i \in 1..Len(minors) : minors[i] = x
  BY ListFacts
<1> HIDE DEF minors, entry
<1>3. CASE /\ entry = {}
           /\ \A d \in ToSet(Documents(files)) : Tells(d, ApiOf[g.res]) = {}
           /\ FirstTold(g.res) = {}
  <2>1. \A minor : Concerns(g.res, minor) <=> prerelease[g.res] /\ minor = minors[1]
    BY <1>3 DEF Concerns, entry, minors
  <2>2. CASE ~ prerelease[g.res]
    <3>1. s = <<>> BY <1>3, <2>2 DEF FindingsOf, entry
    <3>2. Len(s) = 0 /\ IsSeq(s) BY <3>1, SmallSeqs
    <3> QED BY <2>1, <2>2, <3>2
  <2>3. CASE prerelease[g.res]
    <3> DEFINE f == Finding(g.res, minors[1], "UNKNOWN", "rag", g.found)
    <3>1. s = <<f>> BY <1>3, <2>3 DEF FindingsOf, entry, minors
    <3>2. minors[1] \in ToSet(minors) BY <1>2 DEF minors
    <3>3. Founded(f, g)
      BY <1>3, <3>2 DEF Founded, Finding, Removed, minors
    <3>4. f.minor = minors[1] BY DEF Finding
    <3> HIDE DEF f
    <3>5. IsSeq(s) /\ Len(s) = 1 /\ s[1] = f BY <3>1, SmallSeqs
    <3> QED BY <2>1, <2>3, <3>3, <3>4, <3>5 DEF minors
  <2> QED BY <2>2, <2>3
<1>4. ASSUME NEW e \in FirstTold(g.res), entry = {e}
      PROVE  /\ IsSeq(s) /\ \A i \in 1..Len(s) : Founded(s[i], g) /\ Concerns(g.res, s[i].minor)
             /\ \A i, j \in 1..Len(s) : i < j => s[i].minor < s[j].minor
             /\ \A minor \in ToSet(minors) : Concerns(g.res, minor) =>
                  \E i \in 1..Len(s) : s[i].minor = minor
  <2> DEFINE judged == [i \in DOMAIN minors |->
                         Finding(g.res, minors[i], Judge(e, minors[i], g.found), "rag", g.found)]
             T == {f \in ToSet(judged) : f.status # "OK"}
  <2>1. s = KeepIn(judged, T)
    <3>1. (CHOOSE x \in entry : TRUE) = e /\ entry # {} BY <1>4
    <3> QED BY <3>1 DEF FindingsOf, entry, minors, Keep
  <2>2. e.deprecated \in Nat /\ e.removed \in Nat BY FirstToldFacts
  <2>3. /\ IsSeq(judged) /\ Len(judged) = Len(minors)
        /\ \A i \in 1..Len(minors) : judged[i] =
             Finding(g.res, minors[i], Judge(e, minors[i], g.found), "rag", g.found)
    <3>1. judged = [i \in 1..Len(minors) |-> judged[i]] BY <1>2
    <3>2. \A i \in 1..Len(minors) : judged[i] =
            Finding(g.res, minors[i], Judge(e, minors[i], g.found), "rag", g.found)
      BY <1>2
    <3> HIDE DEF judged
    <3> QED BY <1>2, <3>1, <3>2, FunctionIsSeq
  <2>4. \A minor : Concerns(g.res, minor) <=> minor >= e.removed \/ minor >= e.deprecated
    BY <1>4 DEF Concerns, entry
  <2>5. ASSUME NEW i \in 1..Len(minors)
        PROVE  /\ judged[i].minor = minors[i]
               /\ judged[i].status # "OK" => Founded(judged[i], g)
               /\ judged[i].status # "OK" <=> Concerns(g.res, minors[i])
    <3> DEFINE m == minors[i]
               st == Judge(e, m, g.found)
    <3>1. m \in Nat /\ m \in ToSet(minors) BY <1>2 DEF minors
    <3>2. judged[i] = Finding(g.res, m, st, "rag", g.found) BY <2>3
    <3>3. /\ judged[i].about = g.res /\ judged[i].by = "rag" /\ judged[i].minor = m
          /\ judged[i].status = st
      BY <3>2 DEF Finding
    <3> HIDE DEF judged, m
    <3>4. CASE m >= e.removed
      <4>1. st = IF g.found = "helm" THEN "ACTION_REQUIRED" ELSE "UPGRADE_BLOCKER"
        BY <2>2, <3>1, <3>4 DEF Judge
      <4>2. SaidRemoved(g.res, m) BY <2>2, <3>1, <3>4 DEF SaidRemoved
      <4>3. Founded(judged[i], g) BY <3>1, <3>3, <4>1, <4>2 DEF Founded, minors
      <4> QED BY <2>4, <3>3, <3>4, <4>1, <4>3 DEF m
    <3>5. CASE ~ (m >= e.removed)
      <4>1. /\ m >= e.deprecated => st = "ACTION_REQUIRED"
            /\ ~ (m >= e.deprecated) => st = "OK"
        BY <2>2, <3>1, <3>5 DEF Judge
      <4>2. ~ Removed(g.res, m) BY <2>2, <3>1, <3>5 DEF Removed
      <4>3. st # "OK" => Founded(judged[i], g) BY <3>1, <3>3, <4>1, <4>2 DEF Founded, minors
      <4> QED BY <2>4, <3>3, <3>5, <4>1, <4>3 DEF m
    <3> QED BY <3>4, <3>5
  <2> HIDE DEF judged
  <2>6. IsSeq(s)
    <3> HIDE DEF T
    <3> QED BY <2>1, <2>3, KeptList
  <2>7. PICK at : IsKept(s, judged, T, at)
    <3> HIDE DEF T
    <3> QED BY <2>1, <2>3, KeptList
  <2>8. ASSUME NEW i \in 1..Len(s)
        PROVE  /\ at[i] \in 1..Len(minors) /\ s[i] = judged[at[i]] /\ s[i].status # "OK"
    BY <2>3, <2>7 DEF IsKept
  <2>9. \A i \in 1..Len(minors) : judged[i] \in ToSet(judged) BY <2>3, ListFacts
  <2> HIDE DEF T
  <2>10. ASSUME NEW i \in 1..Len(s)
         PROVE  Founded(s[i], g) /\ Concerns(g.res, s[i].minor)
    <3>1. /\ at[i] \in 1..Len(minors) /\ s[i] = judged[at[i]]
          /\ judged[at[i]].status # "OK"
      BY <2>8
    <3>2. /\ judged[at[i]].minor = minors[at[i]] /\ Founded(judged[at[i]], g)
          /\ Concerns(g.res, minors[at[i]])
      BY <2>5, <3>1
    <3> QED BY <3>1, <3>2
  <2>11. ASSUME NEW i \in 1..Len(s), NEW j \in 1..Len(s), i < j
         PROVE  s[i].minor < s[j].minor
    <3>1. at[i] < at[j] BY <2>7, <2>11 DEF IsKept
    <3>2. minors[at[i]] < minors[at[j]] BY <2>8, <3>1 DEF minors
    <3> QED BY <2>5, <2>8, <3>2
  <2>12. ASSUME NEW minor \in ToSet(minors), Concerns(g.res, minor)
         PROVE  \E i \in 1..Len(s) : s[i].minor = minor
    <3>1. PICK k \in 1..Len(minors) : minors[k] = minor BY <1>2
    <3>2. judged[k].status # "OK" /\ judged[k].minor = minor BY <2>5, <2>12, <3>1
    <3>3. judged[k] \in T BY <2>9, <3>2 DEF T
    <3>4. PICK i \in 1..Len(s) : at[i] = k BY <2>3, <2>7, <3>3 DEF IsKept
    <3> QED BY <2>8, <3>2, <3>4
  <2> QED BY <2>6, <2>10, <2>11, <2>12
<1> QED BY <1>1, <1>3, <1>4 DEF minors

ApiStatus == {"UNKNOWN", "ACTION_REQUIRED", "UPGRADE_BLOCKER"}

\* What a finding says is so, whoever made it.
Judged(f) ==
  /\ f.about \in ToSet(Resources) /\ f.minor \in ToSet(TargetMinors)
  /\ f.status \in ApiStatus
  /\ f.status = "UPGRADE_BLOCKER" =>
       /\ "live" \in where[f.about]
       /\ SaidRemoved(f.about, f.minor) \/ pluto[f.about] = "removed"
  /\ f.status = "UNKNOWN" =>
       \A d \in ToSet(Documents(files)) : Tells(d, ApiOf[f.about]) = {}

\* A resource is first found at its versions in their order.
FirstsAscend(s) ==
  \A i, j \in 1..Len(s) :
    i < j /\ s[i].about = s[j].about /\ s[j].minor < s[i].minor =>
      \E k \in 1..Len(s) : k < i /\ s[k].about = s[j].about /\ s[k].minor = s[j].minor

LEMMA PlutoFacts ==
  ASSUME target.minor \in ToSet(TargetMinors)
  PROVE  /\ IsSeq(scan_with_pluto)
         /\ \A f \in ToSet(scan_with_pluto) : Judged(f) /\ f.minor = target.minor
<1> DEFINE T == {g \in ToSet(Gathered) : pluto[g.res] # "fine"}
           hits == KeepIn(Gathered, T)
           status(g) == IF pluto[g.res] = "removed" /\ g.found = "live"
                        THEN "UPGRADE_BLOCKER" ELSE "ACTION_REQUIRED"
           F == [i \in DOMAIN hits |->
                  Finding(hits[i].res, target.minor, status(hits[i]), "pluto", hits[i].found)]
<1>1. scan_with_pluto = F BY DEF scan_with_pluto, Keep
<1>2. IsSeq(hits) /\ ToSet(hits) = ToSet(Gathered) \cap T
  <2> HIDE DEF T
  <2> QED BY GatheredFacts, KeptList
<1> HIDE DEF hits
<1>3. Len(hits) \in Nat /\ DOMAIN hits = 1..Len(hits) BY <1>2, ListFacts
<1>4. /\ IsSeq(F) /\ Len(F) = Len(hits)
      /\ \A i \in 1..Len(hits) : F[i] =
           Finding(hits[i].res, target.minor, status(hits[i]), "pluto", hits[i].found)
  <2>1. F = [i \in 1..Len(hits) |-> F[i]] BY <1>3
  <2>2. \A i \in 1..Len(hits) : F[i] =
           Finding(hits[i].res, target.minor, status(hits[i]), "pluto", hits[i].found)
    BY <1>3
  <2> HIDE DEF F
  <2> QED BY <1>3, <2>1, <2>2, FunctionIsSeq
<1> HIDE DEF F
<1>5. ASSUME NEW f \in ToSet(F) PROVE Judged(f) /\ f.minor = target.minor
  <2>1. PICK i \in 1..Len(hits) : F[i] = f BY <1>4, ListFacts
  <2> DEFINE g == hits[i]
  <2>2. g \in ToSet(Gathered) BY <1>2, ListFacts
  <2> HIDE DEF g
  <2>3. g.res \in ToSet(Resources) /\ g.found \in {"live", "helm"} /\ g.found \in where[g.res]
    BY <2>2, GatheredFacts
  <2>4. /\ f.about = g.res /\ f.minor = target.minor /\ f.status = status(g)
    <3>1. f = Finding(hits[i].res, target.minor, status(hits[i]), "pluto", hits[i].found)
      BY <1>4, <2>1
    <3> HIDE DEF status
    <3> QED BY <3>1 DEF g, Finding
  <2> QED BY <2>3, <2>4 DEF Judged, ApiStatus
<1> QED BY <1>1, <1>4, <1>5

\* A live object that is removed is a blocker, at every version from then on.
Blocking(s) ==
  \A r \in ToSet(Resources), minor \in ToSet(TargetMinors) :
    "live" \in where[r] /\ Removed(r, minor) =>
      \E f \in ToSet(s) : f.about = r /\ f.minor = minor /\ f.status = "UPGRADE_BLOCKER"

SoundFindings(s) ==
  IsSeq(s) /\ Blocking(s) /\ \A f \in ToSet(s) : Judged(f) /\ f.minor \in Nat

FoundWith(scanned) == evaluate_deprecated_apis(TargetMinors) \o scanned

(* The guide's findings of a live object and of the same object in a Helm  *)
(* release are at the same versions, and pluto's are at the last.          *)
LEMMA AllFindings ==
  ASSUME InputInv, rag = build_index(files), Upgradable(Current, target),
         path = compute_upgrade_path(Current, target),
         NEW scanned \in {scan_with_pluto, <<>>},
         NEW s, s = FoundWith(scanned)
  PROVE  SoundFindings(s) /\ FirstsAscend(s)
<1> DEFINE G == Gathered
           minors == TargetMinors
           row(i) == FindingsOf(G[i], minors)
           seqs == [i \in DOMAIN G |-> row(i)]
           F == FlattenSeq(seqs)
<1>1. s = F \o scanned BY DEF FoundWith, evaluate_deprecated_apis
<1>2. files \in Libraries /\ target \in Targets BY DEF InputInv
<1>3. /\ IsSeq(minors) /\ Len(minors) \in Nat \ {0}
      /\ \A i \in 1..Len(minors) : minors[i] \in Nat /\ minors[i] <= target.minor
      /\ \A i, j \in 1..Len(minors) : i < j => minors[i] < minors[j]
      /\ minors[Len(minors)] = target.minor
  BY <1>2, MinorsFacts
<1>4. target.minor \in ToSet(minors) /\ target.minor \in Nat
      /\ \A m \in ToSet(minors) : m \in Nat /\ m <= target.minor
  <2>1. Len(minors) \in 1..Len(minors) BY <1>3
  <2> QED BY <1>3, <2>1, ListFacts
<1>5. /\ IsSeq(G) /\ Len(G) \in Nat /\ DOMAIN G = 1..Len(G)
      /\ \A i \in 1..Len(G) : /\ G[i].res \in ToSet(Resources)
                              /\ G[i].found \in {"live", "helm"} /\ G[i].found \in where[G[i].res]
      /\ \A r \in ToSet(Resources) : "live" \in where[r] =>
           \E i \in 1..Len(G) : G[i].res = r /\ G[i].found = "live"
  <2>1. IsSeq(G) BY GatheredFacts
  <2>2. Len(G) \in Nat /\ DOMAIN G = 1..Len(G) BY <2>1, ListFacts
  <2>3. \A i \in 1..Len(G) : G[i] \in ToSet(G) BY <2>1, ListFacts
  <2>4. \A x \in ToSet(G) : \E i \in 1..Len(G) : G[i] = x BY <2>1, ListFacts
  <2> QED BY <2>1, <2>2, <2>3, <2>4, GatheredFacts
<1> HIDE DEF G
<1>6. ASSUME NEW i \in 1..Len(G)
      PROVE  /\ IsSeq(row(i))
             /\ \A j \in 1..Len(row(i)) : Founded(row(i)[j], G[i]) /\ Concerns(G[i].res, row(i)[j].minor)
             /\ \A j, k \in 1..Len(row(i)) : j < k => row(i)[j].minor < row(i)[k].minor
             /\ \A minor \in ToSet(minors) : Concerns(G[i].res, minor) =>
                  \E j \in 1..Len(row(i)) : row(i)[j].minor = minor
  <2>1. G[i].found \in {"live", "helm"} BY <1>5
  <2> DEFINE g == G[i]
             t == row(i)
  <2>2. t = FindingsOf(g, TargetMinors) OBVIOUS
  <2>3. /\ IsSeq(TargetMinors) /\ Len(TargetMinors) \in Nat \ {0}
        /\ \A j \in 1..Len(TargetMinors) : TargetMinors[j] \in Nat
        /\ \A j, k \in 1..Len(TargetMinors) : j < k => TargetMinors[j] < TargetMinors[k]
    BY <1>3
  <2>4. g.found \in {"live", "helm"} BY <2>1
  <2> HIDE DEF g, t
  <2>5. /\ IsSeq(t) /\ \A j \in 1..Len(t) : Founded(t[j], g) /\ Concerns(g.res, t[j].minor)
        /\ \A j, k \in 1..Len(t) : j < k => t[j].minor < t[k].minor
        /\ \A minor \in ToSet(TargetMinors) : Concerns(g.res, minor) =>
             \E j \in 1..Len(t) : t[j].minor = minor
    BY <1>2, <2>2, <2>3, <2>4, FindingsFacts
  <2> QED BY <2>5 DEF g, t
<1> HIDE DEF minors, row
<1>7. IsSeq(seqs) /\ Len(seqs) = Len(G) /\ \A i \in 1..Len(G) : seqs[i] = row(i)
  <2>1. seqs = [i \in 1..Len(G) |-> seqs[i]] BY <1>5
  <2>2. \A i \in 1..Len(G) : seqs[i] = row(i) BY <1>5
  <2> HIDE DEF seqs
  <2> QED BY <1>5, <2>1, <2>2, FunctionIsSeq
<1> HIDE DEF seqs
<1>8. \A i \in 1..Len(seqs) : IsSeq(seqs[i]) BY <1>6, <1>7
<1>9. IsSeq(F) /\ Len(F) \in Nat BY <1>7, <1>8, FlattenedList, ListFacts
<1>10. PICK at, col : IsFlat(F, seqs, Len(seqs), at, col) BY <1>7, <1>8, FlattenedList
<1> HIDE DEF F
<1>11. /\ IsSeq(scanned) /\ Len(scanned) \in Nat
       /\ \A f \in ToSet(scanned) : Judged(f) /\ f.minor = target.minor
  <2>1. CASE scanned = <<>>
    <3>1. ToSet(<<>>) = {} BY DEF ToSet
    <3> QED BY <2>1, <3>1, SmallSeqs, ListFacts
  <2>2. CASE scanned = scan_with_pluto
    BY <1>4, <2>2, PlutoFacts, ListFacts DEF minors
  <2> QED BY <2>1, <2>2
<1>12. /\ IsSeq(s) /\ Len(s) = Len(F) + Len(scanned) /\ ToSet(s) = ToSet(F) \cup ToSet(scanned)
       /\ \A i \in 1..Len(F) : s[i] = F[i]
       /\ \A i \in 1..Len(scanned) : s[Len(F) + i] = scanned[i]
  BY <1>1, <1>9, <1>11, ConcatIsSeq
<1>13. ASSUME NEW k \in 1..Len(F)
       PROVE  /\ at[k] \in 1..Len(G) /\ col[k] \in 1..Len(row(at[k]))
              /\ F[k] = row(at[k])[col[k]]
              /\ Founded(F[k], G[at[k]]) /\ Concerns(F[k].about, F[k].minor)
              /\ F[k].about = G[at[k]].res /\ F[k].minor \in ToSet(minors)
  <2>1. /\ at[k] \in 1..Len(G) /\ col[k] \in 1..Len(row(at[k]))
        /\ F[k] = row(at[k])[col[k]]
    BY <1>7, <1>10 DEF IsFlat
  <2>2. Founded(F[k], G[at[k]]) /\ Concerns(G[at[k]].res, F[k].minor) BY <1>6, <2>1
  <2> QED BY <2>1, <2>2 DEF Founded, minors
<1>14. ASSUME NEW f \in ToSet(s) PROVE Judged(f) /\ f.minor \in Nat
  <2>1. CASE f \in ToSet(scanned) BY <1>4, <1>11, <2>1
  <2>2. CASE f \in ToSet(F)
    <3>1. PICK k \in 1..Len(F) : F[k] = f BY <1>9, <2>2, ListFacts
    <3>2. G[at[k]].res \in ToSet(Resources) /\ G[at[k]].found \in where[G[at[k]].res]
      BY <1>5, <1>13
    <3>3. Judged(f) BY <1>13, <3>1, <3>2 DEF Judged, Founded, ApiStatus
    <3> QED BY <1>4, <1>13, <3>1, <3>3
  <2> QED BY <1>12, <2>1, <2>2
<1>15. ASSUME NEW i \in 1..Len(s), i \notin 1..Len(F) PROVE s[i].minor = target.minor
  <2>1. i - Len(F) \in 1..Len(scanned) /\ i = Len(F) + (i - Len(F)) BY <1>9, <1>11, <1>12, <1>15
  <2>2. s[i] = scanned[i - Len(F)] BY <1>12, <2>1
  <2>3. scanned[i - Len(F)] \in ToSet(scanned) BY <1>11, <2>1, ListFacts
  <2> QED BY <1>11, <2>2, <2>3
<1>16. FirstsAscend(s)
  <2> SUFFICES ASSUME NEW i \in 1..Len(s), NEW j \in 1..Len(s), i < j,
                      s[i].about = s[j].about, s[j].minor < s[i].minor
               PROVE  \E k \in 1..Len(s) : /\ k < i /\ s[k].about = s[j].about
                                           /\ s[k].minor = s[j].minor
    BY DEF FirstsAscend
  <2>1. /\ s[i] \in ToSet(s) /\ s[j] \in ToSet(s) BY <1>12, ListFacts
  <2>2. s[i].minor <= target.minor /\ s[i].minor \in Nat /\ s[j].minor \in Nat
    BY <1>4, <1>14, <2>1 DEF Judged, minors
  <2>3. s[j].minor # target.minor BY <1>4, <2>2
  <2>4. j \in 1..Len(F) /\ i \in 1..Len(F) BY <1>9, <1>12, <1>15, <2>3
  <2>5. s[i] = F[i] /\ s[j] = F[j] BY <1>12, <2>4
  <2> DEFINE a == at[i]
             b == at[j]
  <2>6. /\ a \in 1..Len(G) /\ b \in 1..Len(G)
        /\ col[i] \in 1..Len(row(a)) /\ col[j] \in 1..Len(row(b))
        /\ F[i] = row(a)[col[i]] /\ F[j] = row(b)[col[j]]
        /\ G[a].res = F[i].about /\ F[j].minor \in ToSet(minors)
        /\ Concerns(F[j].about, F[j].minor)
    BY <1>13, <2>4
  <2>7. a < b \/ (a = b /\ col[i] < col[j]) BY <1>10, <2>4 DEF IsFlat
  <2> HIDE DEF a, b
  <2>8. PICK c \in 1..Len(row(a)) : row(a)[c].minor = F[j].minor
    <3>1. Concerns(G[a].res, F[j].minor) BY <2>5, <2>6
    <3> QED BY <1>6, <2>6, <3>1
  <2>9. c < col[i]
    <3>1. Len(row(a)) \in Nat BY <1>6, <2>6, ListFacts
    <3>2. c \in Nat /\ col[i] \in Nat BY <2>6, <3>1
    <3>3. row(a)[c].minor < row(a)[col[i]].minor BY <2>5, <2>6, <2>8
    <3>4. c # col[i]
      <4>1. row(a)[c].minor = s[j].minor /\ row(a)[col[i]].minor = s[i].minor
        BY <2>5, <2>6, <2>8
      <4>2. s[j].minor # s[i].minor BY <2>2
      <4> QED BY <4>1, <4>2
    <3>5. ASSUME col[i] < c PROVE FALSE
      <4>1. row(a)[col[i]].minor < row(a)[c].minor BY <1>6, <2>6, <3>5
      <4>2. s[i].minor < s[j].minor BY <2>5, <2>6, <2>8, <4>1
      <4>3. ~ (s[i].minor < s[j].minor) BY <2>2
      <4> QED BY <4>2, <4>3
    <3> QED BY <3>2, <3>4, <3>5
  <2>10. PICK k \in 1..Len(F) : at[k] = a /\ col[k] = c
    <3>1. a \in 1..Len(seqs) /\ c \in 1..Len(seqs[a]) BY <1>7, <2>6
    <3> QED BY <1>10, <3>1 DEF IsFlat
  <2>11. F[k] = row(a)[c] /\ F[k].about = G[a].res BY <1>13, <2>10
  <2>12. k < i
    <3>1. k # i BY <1>9, <2>9, <2>10, <2>6
    <3>2. ASSUME i < k PROVE FALSE
      <4>1. at[i] < at[k] \/ (at[i] = at[k] /\ col[i] < col[k])
        BY <1>10, <2>4, <3>2 DEF IsFlat
      <4>2. at[i] = a /\ a \in Nat /\ c \in Nat /\ col[i] \in Nat
        <5>1. Len(row(a)) \in Nat BY <1>6, <2>6, ListFacts
        <5>2. at[i] = a BY DEF a
        <5>3. a \in Nat BY <1>5, <2>6
        <5> QED BY <2>6, <5>1, <5>2, <5>3
      <4> QED BY <2>9, <2>10, <4>1, <4>2
    <3> QED BY <1>9, <2>4, <3>1, <3>2
  <2>13. k \in 1..Len(s) /\ s[k] = F[k] BY <1>9, <1>11, <1>12
  <2> QED BY <2>5, <2>6, <2>8, <2>11, <2>12, <2>13
<1>17. ASSUME NEW r \in ToSet(Resources), NEW minor \in ToSet(minors),
              "live" \in where[r], Removed(r, minor)
       PROVE  \E f \in ToSet(s) : /\ f.about = r /\ f.minor = minor
                                  /\ f.status = "UPGRADE_BLOCKER"
  <2>1. PICK i \in 1..Len(G) : G[i].res = r /\ G[i].found = "live" BY <1>5, <1>17
  <2>2. Concerns(r, minor)
    <3>1. PICK e \in FirstTold(r) : lookup_deprecated_api(rag, ApiOf[r]) = {e}
      <4>1. FirstTold(r) # {} BY <1>17 DEF Removed
      <4> QED BY <1>2, <4>1, LookupDeprecated
    <3>2. e.removed \in Nat /\ e.removed <= minor BY <1>2, <1>17, FirstToldFacts DEF Removed
    <3>3. minor \in Nat BY <1>4
    <3> QED BY <3>1, <3>2, <3>3 DEF Concerns
  <2>3. PICK j \in 1..Len(row(i)) : row(i)[j].minor = minor BY <1>6, <2>1, <2>2
  <2>4. PICK k \in 1..Len(F) : at[k] = i /\ col[k] = j BY <1>7, <1>10, <2>1 DEF IsFlat
  <2>5. F[k].minor = minor /\ Founded(F[k], G[i]) BY <1>13, <2>3, <2>4
  <2>6. F[k].about = r /\ F[k].status = "UPGRADE_BLOCKER"
    BY <1>17, <2>1, <2>5 DEF Founded
  <2>7. F[k] \in ToSet(s) BY <1>9, <1>12, ListFacts
  <2> QED BY <2>5, <2>6, <2>7
<1> QED BY <1>12, <1>14, <1>16, <1>17 DEF SoundFindings, Blocking, minors

(* Merging keeps one finding per resource and version, in the order in     *)
(* which they are first found, and never loses a blocker.                  *)
LEMMA MergeFacts ==
  ASSUME NEW s, IsSeq(s), FirstsAscend(s),
         \A f \in ToSet(s) : f.status \in ApiStatus /\ f.minor \in Nat,
         NEW b, b = merge_findings(s)
  PROVE  /\ IsSeq(b) /\ ToSet(b) \subseteq ToSet(s) /\ Ascends(b)
         /\ \A f \in ToSet(s) : \E x \in ToSet(b) :
              /\ x.about = f.about /\ x.minor = f.minor
              /\ f.status = "UPGRADE_BLOCKER" => x.status = "UPGRADE_BLOCKER"
<1> DEFINE Beats(f, cur) ==
             \/ ApiRank(f.status) > ApiRank(cur.status)
             \/ /\ ApiRank(f.status) = ApiRank(cur.status)
                /\ cur.by # "rag" /\ f.by = "rag"
           key == [x \in ToSet(s) |-> AtTarget(x)]
           beats == {p \in ToSet(s) \X ToSet(s) : Beats(p[1], p[2])}
           Worth(x) == 2 * ApiRank(x.status) + (IF x.by = "rag" THEN 1 ELSE 0)
           rank == [x \in ToSet(s) |-> Worth(x)]
<1>1. b = BestOf(s, key, beats) BY DEF merge_findings, KeepBest
<1>2. ASSUME NEW x \in ToSet(s)
      PROVE  /\ ApiRank(x.status) \in 1..3 /\ Worth(x) \in Nat
             /\ x.status = "UPGRADE_BLOCKER" <=> Worth(x) >= 6
  <2>1. x.status \in ApiStatus OBVIOUS
  <2>2. /\ ApiRank("UNKNOWN") = 1 /\ ApiRank("ACTION_REQUIRED") = 2
        /\ ApiRank("UPGRADE_BLOCKER") = 3
    BY DEF ApiRank
  <2> QED BY <2>1, <2>2 DEF ApiStatus
<1>3. rank \in [ToSet(s) -> Nat] /\ \A x \in ToSet(s) : rank[x] = Worth(x)
  BY <1>2
<1>4. \A x \in ToSet(s) : key[x] = <<x.about, x.minor>> BY DEF AtTarget
<1>5. BeatsByRank(beats, s, rank)
  <2> SUFFICES ASSUME NEW x \in ToSet(s), NEW y \in ToSet(s)
               PROVE  <<x, y>> \in beats <=> rank[x] > rank[y]
    BY DEF BeatsByRank
  <2>1. <<x, y>> \in beats <=> Beats(x, y) OBVIOUS
  <2>2. Beats(x, y) <=> Worth(x) > Worth(y)
    <3>1. ApiRank(x.status) \in 1..3 /\ ApiRank(y.status) \in 1..3 BY <1>2
    <3> QED BY <3>1
  <2> HIDE DEF Beats, Worth, beats
  <2> QED BY <1>3, <2>1, <2>2
<1> HIDE DEF key, beats, rank, Worth
<1>6. IsSeq(b) /\ OnePerKey(b, key) BY <1>1, <1>3, <1>5, BestOfList
<1>7. PICK pos, fst : IsBest(b, s, Len(s), key, rank, pos, fst)
  BY <1>1, <1>3, <1>5, BestOfList
<1>8. /\ Len(s) \in Nat /\ \A i \in 1..Len(s) : s[i] \in ToSet(s)
      /\ Len(b) \in Nat /\ \A i \in 1..Len(b) : b[i] \in ToSet(b)
  BY <1>6, ListFacts
<1>9. ASSUME NEW k \in 1..Len(b)
      PROVE  /\ pos[k] \in 1..Len(s) /\ fst[k] \in 1..Len(s) /\ b[k] = s[pos[k]]
             /\ key[s[fst[k]]] = key[b[k]] /\ b[k] \in ToSet(s)
             /\ s[fst[k]].about = b[k].about /\ s[fst[k]].minor = b[k].minor
  <2>1. /\ pos[k] \in 1..Len(s) /\ fst[k] \in 1..Len(s) /\ b[k] = s[pos[k]]
        /\ key[s[fst[k]]] = key[b[k]]
    BY <1>7 DEF IsBest
  <2>2. b[k] \in ToSet(s) /\ s[fst[k]] \in ToSet(s) BY <1>8, <2>1
  <2>3. <<s[fst[k]].about, s[fst[k]].minor>> = <<b[k].about, b[k].minor>>
    BY <1>4, <2>1, <2>2
  <2> QED BY <2>1, <2>2, <2>3
<1>10. ToSet(b) \subseteq ToSet(s)
  <2> SUFFICES ASSUME NEW x \in ToSet(b) PROVE x \in ToSet(s)
    OBVIOUS
  <2>1. PICK k \in 1..Len(b) : b[k] = x BY <1>6, ListFacts
  <2> QED BY <1>9, <2>1
<1>11. Ascends(b)
  <2> SUFFICES ASSUME NEW k \in 1..Len(b), NEW l \in 1..Len(b), k < l, b[k].about = b[l].about
               PROVE  b[k].minor < b[l].minor
    BY DEF Ascends
  <2>1. fst[k] < fst[l] BY <1>7 DEF IsBest
  <2>2. b[k].minor \in Nat /\ b[l].minor \in Nat BY <1>9
  <2>3. b[k].minor # b[l].minor
    <3> SUFFICES ASSUME b[k].minor = b[l].minor PROVE FALSE
      OBVIOUS
    <3>1. /\ key[b[k]] = <<b[k].about, b[k].minor>>
          /\ key[b[l]] = <<b[l].about, b[l].minor>>
      BY <1>4, <1>9
    <3> QED BY <1>6, <1>8, <3>1 DEF OnePerKey
  <2>4. ASSUME b[l].minor < b[k].minor PROVE FALSE
    <3>1. PICK j \in 1..Len(s) : /\ j < fst[k] /\ s[j].about = s[fst[l]].about
                                 /\ s[j].minor = s[fst[l]].minor
      <4> DEFINE i == fst[k]
                 n == fst[l]
      <4>1. i \in 1..Len(s) /\ n \in 1..Len(s) /\ i < n BY <1>9, <2>1
      <4>2. s[i].about = s[n].about /\ s[n].minor < s[i].minor BY <1>9, <2>4
      <4> HIDE DEF i, n
      <4>3. \E j \in 1..Len(s) : j < i /\ s[j].about = s[n].about /\ s[j].minor = s[n].minor
        BY <4>1, <4>2 DEF FirstsAscend
      <4> QED BY <4>3 DEF i, n
    <3>2. key[s[j]] = key[b[l]]
      <4>1. s[j].about = b[l].about /\ s[j].minor = b[l].minor BY <1>9, <3>1
      <4>2. /\ key[b[l]] = <<b[l].about, b[l].minor>>
            /\ key[s[j]] = <<s[j].about, s[j].minor>>
        BY <1>4, <1>8, <1>9, <3>1
      <4> QED BY <4>1, <4>2
    <3>3. fst[l] <= j BY <1>7, <3>2 DEF IsBest
    <3> QED BY <1>8, <1>9, <2>1, <3>1, <3>3
  <2> QED BY <2>2, <2>3, <2>4
<1>12. ASSUME NEW f \in ToSet(s)
       PROVE  \E x \in ToSet(b) :
                /\ x.about = f.about /\ x.minor = f.minor
                /\ f.status = "UPGRADE_BLOCKER" => x.status = "UPGRADE_BLOCKER"
  <2>1. PICK j \in 1..Len(s) : s[j] = f BY ListFacts
  <2>2. PICK k \in 1..Len(b) : key[b[k]] = key[f] BY <1>7, <2>1 DEF IsBest
  <2>3. b[k].about = f.about /\ b[k].minor = f.minor
    <3>1. <<b[k].about, b[k].minor>> = <<f.about, f.minor>> BY <1>4, <1>9, <2>2
    <3> QED BY <3>1
  <2>4. rank[f] <= rank[b[k]] BY <1>7, <2>1, <2>2 DEF IsBest
  <2>5. f.status = "UPGRADE_BLOCKER" => b[k].status = "UPGRADE_BLOCKER"
    <3>1. Worth(f) <= Worth(b[k]) /\ Worth(f) \in Nat /\ Worth(b[k]) \in Nat
      BY <1>2, <1>3, <1>9, <2>4
    <3>2. f.status = "UPGRADE_BLOCKER" => Worth(f) >= 6 BY <1>2
    <3>3. Worth(b[k]) >= 6 => b[k].status = "UPGRADE_BLOCKER" BY <1>2, <1>9
    <3> QED BY <3>1, <3>2, <3>3
  <2> QED BY <1>8, <2>3, <2>5
<1> QED BY <1>6, <1>10, <1>11, <1>12

LEMMA ApisFacts ==
  ASSUME IInv, node \notin Unscanned
  PROVE  SoundFindings(apis) /\ Ascends(apis)
<1>1. /\ InputInv /\ rag = build_index(files)
      /\ Upgradable(Current, target) /\ path = compute_upgrade_path(Current, target)
  BY DEF IInv, RagInv, CompatInv, Unscanned, Unchecked, Unloaded
<1>2. PICK scanned \in {scan_with_pluto, <<>>} :
        apis = merge_findings(evaluate_deprecated_apis(TargetMinors) \o scanned)
  BY DEF IInv, ApisInv
<1>3. PICK s : s = FoundWith(scanned) OBVIOUS
<1>4. SoundFindings(s) /\ FirstsAscend(s) BY <1>1, <1>3, AllFindings
<1>5. /\ apis = merge_findings(s)
      /\ \A f \in ToSet(s) : f.status \in ApiStatus /\ f.minor \in Nat
  BY <1>2, <1>3, <1>4 DEF FoundWith, SoundFindings, Judged
<1>6. /\ IsSeq(apis) /\ ToSet(apis) \subseteq ToSet(s) /\ Ascends(apis)
      /\ \A f \in ToSet(s) : \E x \in ToSet(apis) :
           /\ x.about = f.about /\ x.minor = f.minor
           /\ f.status = "UPGRADE_BLOCKER" => x.status = "UPGRADE_BLOCKER"
  BY <1>4, <1>5, MergeFacts DEF SoundFindings
<1>7. Blocking(apis)
  <2> SUFFICES ASSUME NEW r \in ToSet(Resources), NEW minor \in ToSet(TargetMinors),
                      "live" \in where[r] /\ Removed(r, minor)
               PROVE  \E f \in ToSet(apis) : /\ f.about = r /\ f.minor = minor
                                             /\ f.status = "UPGRADE_BLOCKER"
    BY DEF Blocking
  <2>1. PICK f \in ToSet(s) : f.about = r /\ f.minor = minor /\ f.status = "UPGRADE_BLOCKER"
    BY <1>4 DEF SoundFindings, Blocking
  <2> QED BY <1>6, <2>1
<1>8. \A f \in ToSet(apis) : Judged(f) /\ f.minor \in Nat BY <1>4, <1>6 DEF SoundFindings
<1> QED BY <1>6, <1>7, <1>8 DEF SoundFindings

----------------------------------------------------------------------------
(* Summaries, risks and the score                                          *)

LEMMA CompatSummaryFacts ==
  ASSUME IInv, node \notin Unanalyzed
  PROVE  IsSeq(compatSummary) /\ Summarizes(compatSummary, compat, CompatRank)
<1> DEFINE key == [x \in ToSet(compat) |-> x.about]
           beats == {p \in ToSet(compat) \X ToSet(compat) :
                       CompatRank(p[1].status) > CompatRank(p[2].status)}
           rank == [x \in ToSet(compat) |-> CompatRank(x.status)]
<1>1. compatSummary = BestOf(compat, key, beats)
  BY DEF IInv, RiskInv, summarize_compatibility, KeepBest
<1>2. /\ IsSeq(compat) /\ Ascends(compat)
      /\ \A r \in ToSet(compat) : r.status \in CompatibilityStatus /\ r.minor \in ToSet(TargetMinors)
  BY CompatFacts DEF Unanalyzed, Unscanned
<1>3. \A r \in ToSet(compat) : r.minor \in Nat
  <2>1. /\ target \in Targets /\ Upgradable(Current, target)
        /\ path = compute_upgrade_path(Current, target)
    BY DEF IInv, InputInv, CompatInv, Unanalyzed, Unscanned
  <2>2. ASSUME NEW m \in ToSet(TargetMinors) PROVE m \in Nat
    <3>1. PICK i \in 1..Len(TargetMinors) : TargetMinors[i] = m
      BY <2>1, MinorsFacts, ListFacts
    <3> QED BY <2>1, <3>1, MinorsFacts
  <2> QED BY <1>2, <2>2
<1>4. \A x, y \in CompatibilityStatus :
        CompatRank(x) \in Nat /\ (CompatRank(x) = CompatRank(y) => x = y)
  BY DEF CompatRank, CompatibilityStatus
<1>5. rank \in [ToSet(compat) -> Nat] /\ \A x \in ToSet(compat) : rank[x] = CompatRank(x.status)
  BY <1>2, <1>4
<1>6. BeatsByRank(beats, compat, rank)
  BY <1>5 DEF BeatsByRank
<1>7. \A x \in ToSet(compat) : key[x] = x.about OBVIOUS
<1> HIDE DEF key, beats, rank
<1>8. IsSummary(compatSummary, compat, rank) BY <1>1, <1>2, <1>3, <1>5, <1>6, <1>7, SummaryFacts
<1>9. ASSUME NEW x \in ToSet(compatSummary), NEW f \in ToSet(compat), f.about = x.about
      PROVE  \/ CompatRank(f.status) < CompatRank(x.status)
             \/ f.status = x.status /\ f.minor >= x.minor
  BY <1>2, <1>4, <1>5, <1>8, <1>9 DEF IsSummary
<1> QED BY <1>8, <1>9 DEF IsSummary, Summarizes

LEMMA ApiSummaryFacts ==
  ASSUME IInv, node \notin Unanalyzed
  PROVE  IsSeq(apiSummary) /\ Summarizes(apiSummary, apis, ApiRank)
<1> DEFINE key == [x \in ToSet(apis) |-> x.about]
           beats == {p \in ToSet(apis) \X ToSet(apis) :
                       ApiRank(p[1].status) > ApiRank(p[2].status)}
           rank == [x \in ToSet(apis) |-> ApiRank(x.status)]
<1>1. apiSummary = BestOf(apis, key, beats)
  BY DEF IInv, RiskInv, summarize_deprecated_apis, KeepBest
<1>2. /\ IsSeq(apis) /\ Ascends(apis)
      /\ \A f \in ToSet(apis) : f.status \in ApiStatus /\ f.minor \in Nat
  BY ApisFacts DEF Unanalyzed, SoundFindings, Judged
<1>3. \A x, y \in ApiStatus : ApiRank(x) \in Nat /\ (ApiRank(x) = ApiRank(y) => x = y)
  BY DEF ApiRank, ApiStatus
<1>4. rank \in [ToSet(apis) -> Nat] /\ \A x \in ToSet(apis) : rank[x] = ApiRank(x.status)
  BY <1>2, <1>3
<1>5. BeatsByRank(beats, apis, rank)
  BY <1>4 DEF BeatsByRank
<1>6. \A x \in ToSet(apis) : key[x] = x.about OBVIOUS
<1> HIDE DEF key, beats, rank
<1>7. IsSummary(apiSummary, apis, rank) BY <1>1, <1>2, <1>4, <1>5, <1>6, SummaryFacts
<1>8. ASSUME NEW x \in ToSet(apiSummary), NEW f \in ToSet(apis), f.about = x.about
      PROVE  \/ ApiRank(f.status) < ApiRank(x.status)
             \/ f.status = x.status /\ f.minor >= x.minor
  BY <1>2, <1>3, <1>4, <1>7, <1>8 DEF IsSummary
<1> QED BY <1>7, <1>8 DEF IsSummary, Summarizes

Severities == {"BLOCKER", "HIGH", "MEDIUM", "LOW", "INFO"}

\* Risks that follow from the cluster itself.
Structural(s) == IsSeq(s) /\ \A k \in ToSet(s) : k.severity \in Severities /\ k.step = 0

LEMMA StructuralRisks == Structural(StructureRisks)
<1>1. ASSUME NEW n \in Nat, NEW s, s = [i \in 1..n |-> s[i]],
             \A i \in 1..n : s[i].severity \in Severities /\ s[i].step = 0
      PROVE  Structural(s)
  <2>1. IsSeq(s) /\ Len(s) = n BY <1>1, FunctionIsSeq
  <2>2. ASSUME NEW k \in ToSet(s) PROVE k.severity \in Severities /\ k.step = 0
    <3>1. PICK i \in 1..n : s[i] = k BY <2>1, ListFacts
    <3> QED BY <1>1, <3>1
  <2> QED BY <2>1, <2>2 DEF Structural
<1>2. ASSUME NEW s, NEW t, Structural(s), Structural(t) PROVE Structural(s \o t)
  <2>1. IsSeq(s \o t) /\ ToSet(s \o t) = ToSet(s) \cup ToSet(t)
    BY <1>2, ConcatIsSeq DEF Structural
  <2> QED BY <1>2, <2>1 DEF Structural
<1>3. \A severity \in Severities : \A category :
        Structural(<<Risk(severity, category)>>)
  BY SmallSeqs DEF Structural, Risk
<1>4. Structural(<<>>)
  <2>1. ToSet(<<>>) = {} BY DEF ToSet
  <2> QED BY <2>1, SmallSeqs DEF Structural
<1>5. Structural([i \in 1..Cardinality(detect_node_inconsistencies(cluster.nodes)) |->
                    Risk("MEDIUM", "node-consistency")])
  <2> DEFINE n == Cardinality(detect_node_inconsistencies(cluster.nodes))
             s == [i \in 1..n |-> Risk("MEDIUM", "node-consistency")]
  <2>1. n \in Nat
    <3>1. detect_node_inconsistencies(cluster.nodes) \subseteq NodeFields
      BY DEF detect_node_inconsistencies
    <3>2. IsFiniteSet(NodeFields)
      <4>1. \A S, x : IsFiniteSet(S) => IsFiniteSet(S \cup {x}) BY FS_AddElement
      <4>2. IsFiniteSet({} \cup {"os"} \cup {"osVersion"} \cup {"kernel"} \cup {"cgroup"}
                        \cup {"runtime"} \cup {"runtimeVersion"})
        BY <4>1, FS_EmptySet
      <4>3. NodeFields = {} \cup {"os"} \cup {"osVersion"} \cup {"kernel"} \cup {"cgroup"}
                         \cup {"runtime"} \cup {"runtimeVersion"}
        BY DEF NodeFields
      <4> QED BY <4>2, <4>3
    <3> QED BY <3>1, <3>2, FS_Subset, FS_CardinalityType
  <2>2. \A i \in 1..n : s[i].severity \in Severities /\ s[i].step = 0
    BY DEF Risk, Severities
  <2>3. s = [i \in 1..n |-> s[i]] OBVIOUS
  <2> HIDE DEF n, s
  <2>4. Structural(s) BY <1>1, <2>1, <2>2, <2>3
  <2> QED BY <2>4 DEF s, n
<1>6. Structural(CustomConfigRisks)
  <2> DEFINE custom(c) == CustomFlags(c, cluster.args[c])
             T == {c \in ToSet(StaticPods) : custom(c) # {}}
             changed == KeepIn(StaticPods, T)
             s == [i \in DOMAIN changed |->
                     Risk(IF custom(changed[i]) \cap HighAttention # {} THEN "HIGH" ELSE "MEDIUM",
                          "custom-config")]
  <2>1. CustomConfigRisks = s BY DEF CustomConfigRisks, Keep
  <2>2. IsSeq(StaticPods)
    <3>1. ASSUME NEW a, NEW b, NEW c, NEW d PROVE IsSeq(<<a, b, c, d>>)
      <4>1. <<a, b, c, d>> \in Seq({a, b, c, d}) OBVIOUS
      <4> QED BY <4>1, SeqIsSeq
    <3> QED BY <3>1 DEF StaticPods
  <2>3. IsSeq(changed)
    <3> HIDE DEF T
    <3> QED BY <2>2, KeptList
  <2> HIDE DEF changed, custom
  <2>4. Len(changed) \in Nat /\ DOMAIN changed = 1..Len(changed) BY <2>3, ListFacts
  <2>5. \A i \in 1..Len(changed) : s[i].severity \in Severities /\ s[i].step = 0
    BY <2>4 DEF Risk, Severities
  <2>6. s = [i \in 1..Len(changed) |-> s[i]] BY <2>4
  <2> HIDE DEF s
  <2> QED BY <1>1, <2>1, <2>4, <2>5, <2>6
<1>7. Structural(EtcdRisks)
  <2>1. CASE EtcdUnknown(cluster.etcd)
    BY <1>3, <2>1 DEF EtcdRisks, Severities
  <2>2. CASE ~ EtcdUnknown(cluster.etcd)
    <3> DEFINE a == Risk(IF AllHealthy(cluster.etcd) THEN "LOW" ELSE "HIGH", "etcd")
               b == Risk("INFO", "etcd")
    <3>1. EtcdRisks = <<a, b>> BY <2>2 DEF EtcdRisks
    <3>2. /\ a.severity \in Severities /\ a.step = 0
          /\ b.severity \in Severities /\ b.step = 0
      BY DEF Risk, Severities
    <3> HIDE DEF a, b
    <3>3. \A i \in 1..2 : <<a, b>>[i] \in {a, b} OBVIOUS
    <3>4. <<a, b>> = [i \in 1..2 |-> <<a, b>>[i]] OBVIOUS
    <3> DEFINE s == <<a, b>>
    <3>5. \A i \in 1..2 : s[i].severity \in Severities /\ s[i].step = 0 BY <3>2, <3>3
    <3>6. s = [i \in 1..2 |-> s[i]] BY <3>4
    <3> HIDE DEF s
    <3>7. Structural(s) BY <1>1, <3>5, <3>6
    <3> QED BY <3>1, <3>7 DEF s
  <2> QED BY <2>1, <2>2
<1>8. Structural(<<Risk(IF cluster.cp_count > 1 THEN "INFO" ELSE "MEDIUM", "ha")>>)
  BY <1>3 DEF Severities
<1>9. Structural(CgroupNotice)
  <2>1. Structural(<<Risk("INFO", "cgroup")>>) BY <1>3 DEF Severities
  <2> QED BY <1>4, <2>1 DEF CgroupNotice
<1> QED BY <1>2, <1>5, <1>6, <1>7, <1>8, <1>9 DEF StructureRisks

\* The risk that RisksOf makes of a result.
RiskOf(f, category) ==
  [severity |-> SeverityOf(f.status), category |-> category, about |-> f.about,
   step |-> f.minor]

LEMMA RisksOfFacts ==
  ASSUME NEW s, IsSeq(s), NEW category
  PROVE  /\ IsSeq(RisksOf(s, category))
         /\ \A k \in ToSet(RisksOf(s, category)) : \E f \in ToSet(s) :
              f.status \notin {"COMPATIBLE", "OK"} /\ k = RiskOf(f, category)
         /\ \A f \in ToSet(s) : f.status \notin {"COMPATIBLE", "OK"} =>
              RiskOf(f, category) \in ToSet(RisksOf(s, category))
<1> DEFINE T == {f \in ToSet(s) : f.status \notin {"COMPATIBLE", "OK"}}
           bad == KeepIn(s, T)
           F == [i \in DOMAIN bad |-> RiskOf(bad[i], category)]
<1>1. RisksOf(s, category) = F BY DEF RisksOf, RiskOf, Keep
<1>2. IsSeq(bad) /\ ToSet(bad) = T
  <2> HIDE DEF T
  <2>1. IsSeq(bad) /\ ToSet(bad) = ToSet(s) \cap T BY KeptList
  <2> QED BY <2>1 DEF T
<1> HIDE DEF bad
<1>3. Len(bad) \in Nat /\ DOMAIN bad = 1..Len(bad) BY <1>2, ListFacts
<1>4. IsSeq(F) /\ Len(F) = Len(bad) /\ \A i \in 1..Len(bad) : F[i] = RiskOf(bad[i], category)
  <2>1. F = [i \in 1..Len(bad) |-> F[i]] BY <1>3
  <2>2. \A i \in 1..Len(bad) : F[i] = RiskOf(bad[i], category) BY <1>3
  <2> HIDE DEF F
  <2> QED BY <1>3, <2>1, <2>2, FunctionIsSeq
<1> HIDE DEF F, T
<1>5. ASSUME NEW k \in ToSet(F) PROVE \E f \in T : k = RiskOf(f, category)
  <2>1. PICK i \in 1..Len(bad) : F[i] = k BY <1>4, ListFacts
  <2> QED BY <1>2, <1>4, <2>1, ListFacts
<1>6. ASSUME NEW f \in T PROVE RiskOf(f, category) \in ToSet(F)
  <2>1. PICK i \in 1..Len(bad) : bad[i] = f BY <1>2, ListFacts
  <2> QED BY <1>4, <2>1, ListFacts
<1> QED BY <1>1, <1>4, <1>5, <1>6 DEF T

LEMMA RisksFacts ==
  ASSUME IInv, node \notin Unanalyzed
  PROVE  /\ IsSeq(risks) /\ \A k \in ToSet(risks) : k.severity \in Severities
         /\ \A k \in ToSet(risks) : \/ k.step = 0
              \/ \E f \in ToSet(apis) \cup ToSet(compat) :
                   k.about = f.about /\ k.step = f.minor /\ k.severity = SeverityOf(f.status)
         /\ \A f \in ToSet(apiSummary) : f.status = "UPGRADE_BLOCKER" =>
              \E k \in ToSet(risks) : k.about = f.about /\ k.severity = "BLOCKER"
<1> DEFINE c == RisksOf(compatSummary, "compatibility")
           d == RisksOf(apiSummary, "deprecated-api")
<1>1. risks = (StructureRisks \o c) \o d BY DEF IInv, RiskInv, build_risk_findings
<1>2. /\ IsSeq(compatSummary) /\ ToSet(compatSummary) \subseteq ToSet(compat)
      /\ IsSeq(apiSummary) /\ ToSet(apiSummary) \subseteq ToSet(apis)
  BY CompatSummaryFacts, ApiSummaryFacts DEF Summarizes
<1>3. /\ \A f \in ToSet(compat) : f.status \in CompatibilityStatus
      /\ \A f \in ToSet(apis) : f.status \in ApiStatus
  BY CompatFacts, ApisFacts DEF Unanalyzed, Unscanned, SoundFindings, Judged
<1>4. /\ IsSeq(c)
      /\ \A k \in ToSet(c) : \E f \in ToSet(compatSummary) :
           f.status \notin {"COMPATIBLE", "OK"} /\ k = RiskOf(f, "compatibility")
  BY <1>2, RisksOfFacts
<1>5. /\ IsSeq(d)
      /\ \A k \in ToSet(d) : \E f \in ToSet(apiSummary) :
           f.status \notin {"COMPATIBLE", "OK"} /\ k = RiskOf(f, "deprecated-api")
      /\ \A f \in ToSet(apiSummary) : f.status \notin {"COMPATIBLE", "OK"} =>
           RiskOf(f, "deprecated-api") \in ToSet(d)
  BY <1>2, RisksOfFacts
<1> HIDE DEF c, d
<1>6. /\ IsSeq(risks)
      /\ ToSet(risks) = ToSet(StructureRisks) \cup ToSet(c) \cup ToSet(d)
  <2>1. IsSeq(StructureRisks) BY StructuralRisks DEF Structural
  <2>2. /\ IsSeq(StructureRisks \o c)
        /\ ToSet(StructureRisks \o c) = ToSet(StructureRisks) \cup ToSet(c)
    BY <1>4, <2>1, ConcatIsSeq
  <2> QED BY <1>1, <1>5, <2>2, ConcatIsSeq
<1>7. ASSUME NEW f, f.status \in (CompatibilityStatus \cup ApiStatus) \ {"COMPATIBLE", "OK"},
             NEW category
      PROVE  /\ RiskOf(f, category).severity \in Severities
             /\ RiskOf(f, category).severity = SeverityOf(f.status)
             /\ RiskOf(f, category).about = f.about /\ RiskOf(f, category).step = f.minor
  <2>1. SeverityOf(f.status) \in Severities
    BY <1>7 DEF SeverityOf, Severities, CompatibilityStatus, ApiStatus
  <2> QED BY <2>1 DEF RiskOf
<1>8. ASSUME NEW k \in ToSet(risks)
      PROVE  /\ k.severity \in Severities
             /\ \/ k.step = 0
                \/ \E f \in ToSet(apis) \cup ToSet(compat) :
                     k.about = f.about /\ k.step = f.minor /\ k.severity = SeverityOf(f.status)
  <2>1. CASE k \in ToSet(StructureRisks) BY <2>1, StructuralRisks DEF Structural
  <2>2. CASE k \in ToSet(c)
    <3>1. PICK f \in ToSet(compatSummary) :
            f.status \notin {"COMPATIBLE", "OK"} /\ k = RiskOf(f, "compatibility")
      BY <1>4, <2>2
    <3>2. f \in ToSet(compat) /\ f.status \in CompatibilityStatus BY <1>2, <1>3
    <3> QED BY <1>7, <3>1, <3>2
  <2>3. CASE k \in ToSet(d)
    <3>1. PICK f \in ToSet(apiSummary) :
            f.status \notin {"COMPATIBLE", "OK"} /\ k = RiskOf(f, "deprecated-api")
      BY <1>5, <2>3
    <3>2. f \in ToSet(apis) /\ f.status \in ApiStatus BY <1>2, <1>3
    <3> QED BY <1>7, <3>1, <3>2
  <2> QED BY <1>6, <2>1, <2>2, <2>3
<1>9. ASSUME NEW f \in ToSet(apiSummary), f.status = "UPGRADE_BLOCKER"
      PROVE  \E k \in ToSet(risks) : k.about = f.about /\ k.severity = "BLOCKER"
  <2> DEFINE k == RiskOf(f, "deprecated-api")
  <2>1. k \in ToSet(risks) BY <1>5, <1>6, <1>9
  <2>2. k.about = f.about /\ k.severity = "BLOCKER" BY <1>9 DEF RiskOf, SeverityOf
  <2> QED BY <2>1, <2>2
<1> QED BY <1>6, <1>8, <1>9

(* One blocker is enough for the score to be 80 at most.                   *)
LEMMA BlockersCount ==
  ASSUME NEW s, IsSeq(s), \A k \in ToSet(s) : k.severity \in Severities,
         NEW k \in ToSet(s), k.severity = "BLOCKER"
  PROVE  from_findings(s).blocker_count > 0 /\ from_findings(s).score <= 80
<1> DEFINE weights == [i \in DOMAIN s |-> Weight(s[i].severity)]
           deduction == Total(weights)
           T == {x \in ToSet(s) : x.severity = "BLOCKER"}
           blockers == KeepIn(s, T)
<1>1. from_findings(s) = [score |-> IF deduction > 100 THEN 0 ELSE 100 - deduction,
                          blocker_count |-> Len(blockers)]
  BY DEF from_findings, Keep
<1>2. Len(s) \in Nat /\ DOMAIN s = 1..Len(s) /\ \A i \in 1..Len(s) : s[i] \in ToSet(s)
  BY ListFacts
<1>3. PICK j \in 1..Len(s) : s[j] = k BY ListFacts
<1>4. \A x \in Severities : Weight(x) \in Nat BY DEF Severities, Weight
<1>5. weights \in Seq(Nat) /\ Len(weights) = Len(s) /\ weights[j] = 20
  <2>1. \A i \in 1..Len(s) : weights[i] \in Nat BY <1>2, <1>4
  <2>2. weights[j] = 20 BY <1>2, <1>3 DEF Weight
  <2>3. weights = [i \in 1..Len(s) |-> weights[i]] BY <1>2
  <2> HIDE DEF weights
  <2>4. weights \in [1..Len(s) -> Nat] BY <2>1, <2>3
  <2>5. weights \in Seq(Nat) BY <1>2, <2>4, SeqDef
  <2> QED BY <1>2, <2>2, <2>4, <2>5, LenProperties
<1> HIDE DEF weights
<1>6. deduction \in Nat /\ deduction >= 20
  <2>1. Total(weights) \in Nat /\ \A i \in 1..Len(weights) : weights[i] <= Total(weights)
    BY <1>5, TotalFacts
  <2> QED BY <1>5, <2>1
<1>7. IsSeq(blockers) /\ ToSet(blockers) = T
  <2> HIDE DEF T
  <2>1. IsSeq(blockers) /\ ToSet(blockers) = ToSet(s) \cap T BY KeptList
  <2> QED BY <2>1 DEF T
<1> HIDE DEF deduction, blockers
<1>8. Len(blockers) \in Nat /\ Len(blockers) > 0
  <2>1. k \in ToSet(blockers) BY <1>7
  <2>2. Len(blockers) \in Nat BY <1>7, ListFacts
  <2>3. PICK i \in 1..Len(blockers) : blockers[i] = k BY <1>7, <2>1, ListFacts
  <2> QED BY <2>2, <2>3
<1> QED BY <1>1, <1>6, <1>8

----------------------------------------------------------------------------
(* The phases                                                              *)

LEMMA PhasesFacts ==
  ASSUME IInv, node = "end"
  PROVE  /\ IsSeq(phases)
         /\ \A p \in ToSet(phases) :
              /\ p.minor \in ToSet(TargetMinors)
              /\ ToSet(p.apis) = {f \in ToSet(apis) : f.minor = p.minor}
              /\ ToSet(p.compat) = {f \in ToSet(compat) : f.minor = p.minor}
              /\ ToSet(p.risks) = {k \in ToSet(risks) : k.step \in {0, p.minor}}
         /\ \A minor \in ToSet(TargetMinors) : \E p \in ToSet(phases) : p.minor = minor
<1>1. /\ target \in Targets /\ Upgradable(Current, target)
      /\ path = compute_upgrade_path(Current, target)
  BY DEF IInv, InputInv, CompatInv, Unchecked, Unloaded
<1>2. /\ IsSeq(TargetMinors) /\ Len(TargetMinors) = Ahead /\ Ahead \in Nat \ {0}
      /\ \A i \in 1..Ahead : TargetMinors[i] = path[i + 1].minor
  BY <1>1, MinorsFacts
<1>3. Len(path) - 1 = Ahead
  <2>1. Len(path) = Ahead + 1 BY <1>1, PathFacts
  <2> QED BY <1>2, <2>1
<1> HIDE DEF Ahead
<1>4. PICK generated : phases = [i \in 1..Ahead |-> Phase(i, generated[i])]
  BY <1>3 DEF IInv, PlanInv
<1>5. /\ IsSeq(phases) /\ Len(phases) = Ahead
      /\ \A i \in 1..Ahead : phases[i] = Phase(i, generated[i])
  <2>1. phases = [i \in 1..Ahead |-> phases[i]] BY <1>4
  <2> QED BY <1>2, <1>4, <2>1, FunctionIsSeq
<1>6. IsSeq(apis) /\ IsSeq(compat) /\ IsSeq(risks)
  BY CompatFacts, ApisFacts, RisksFacts
     DEF Unanalyzed, Unscanned, Unchecked, Unloaded, SoundFindings
<1>7. ASSUME NEW i \in 1..Ahead, NEW p, p = phases[i]
      PROVE  /\ p.minor = TargetMinors[i]
             /\ ToSet(p.apis) = {f \in ToSet(apis) : f.minor = p.minor}
             /\ ToSet(p.compat) = {f \in ToSet(compat) : f.minor = p.minor}
             /\ ToSet(p.risks) = {k \in ToSet(risks) : k.step \in {0, p.minor}}
  <2> DEFINE m == path[i + 1].minor
             A == {f \in ToSet(apis) : f.minor = m}
             C == {f \in ToSet(compat) : f.minor = m}
             R == {k \in ToSet(risks) : k.step \in {0, m}}
  <2>1. p = Phase(i, generated[i]) BY <1>5, <1>7
  <2>2. /\ p.minor = m /\ p.apis = KeepIn(apis, A) /\ p.compat = KeepIn(compat, C)
        /\ p.risks = KeepIn(risks, R)
    BY <2>1 DEF Phase, Keep
  <2>3. m = TargetMinors[i] BY <1>2
  <2>4. A \subseteq ToSet(apis) /\ C \subseteq ToSet(compat) /\ R \subseteq ToSet(risks)
    OBVIOUS
  <2> HIDE DEF A, C, R
  <2>5. /\ ToSet(p.apis) = ToSet(apis) \cap A /\ ToSet(p.compat) = ToSet(compat) \cap C
        /\ ToSet(p.risks) = ToSet(risks) \cap R
    BY <1>6, <2>2, KeptList
  <2>6. ToSet(p.apis) = A /\ ToSet(p.compat) = C /\ ToSet(p.risks) = R BY <2>4, <2>5
  <2> HIDE DEF m
  <2> QED BY <2>2, <2>3, <2>6 DEF A, C, R
<1>8. ASSUME NEW p \in ToSet(phases)
      PROVE  \E i \in 1..Ahead : p = phases[i] /\ TargetMinors[i] \in ToSet(TargetMinors)
  <2>1. PICK i \in 1..Ahead : p = phases[i] BY <1>5, ListFacts
  <2> QED BY <1>2, <2>1, ListFacts
<1>9. ASSUME NEW minor \in ToSet(TargetMinors)
      PROVE  \E p \in ToSet(phases) : p.minor = minor
  <2>1. PICK i \in 1..Ahead : TargetMinors[i] = minor BY <1>2, ListFacts
  <2>2. phases[i] \in ToSet(phases) BY <1>5, ListFacts
  <2> QED BY <1>7, <2>1, <2>2
<1> QED BY <1>5, <1>7, <1>8, <1>9

----------------------------------------------------------------------------
(* The verdicts are right                                                  *)

(* The global tables show each component and each resource once, with its  *)
(* worst result and the first version that has it, whatever was judged and *)
(* in whatever order two scanners found it (compatibility.py:63-70,        *)
(* deprecated_api.py:110-136).                                             *)
THEOREM SummariesAreRight == Spec => []SummaryIsFirstWorst
<1>1. ASSUME IInv PROVE SummaryIsFirstWorst
  BY <1>1, CompatSummaryFacts, ApiSummaryFacts
     DEF SummaryIsFirstWorst, Unanalyzed, Unscanned, Unchecked, Unloaded
<1> QED BY <1>1, Invariant, PTL

(* A live object whose API the guide calls removed blocks every phase from *)
(* the removal on, is a risk, and costs the score 20 points, for every     *)
(* library of documents and whatever pluto finds or fails to find          *)
(* (deprecated_api.py:79-89, risk.py:188-193, planner.py:100).             *)
THEOREM RemovedBlocks == Spec => []RemovedLiveObjectBlocks
<1>1. ASSUME IInv PROVE RemovedLiveObjectBlocks
  <2> SUFFICES ASSUME node = "end", NEW r \in ToSet(Resources),
                      "live" \in where[r], Removed(r, target.minor)
               PROVE  /\ \A p \in ToSet(phases) : Removed(r, p.minor) =>
                           \E f \in ToSet(p.apis) : f.about = r /\ f.status = "UPGRADE_BLOCKER"
                      /\ \E k \in ToSet(risks) : k.about = r /\ k.severity = "BLOCKER"
                      /\ readiness.blocker_count > 0 /\ readiness.score <= 80
    BY DEF RemovedLiveObjectBlocks
  <2>1. node \notin Unanalyzed /\ node \notin Unscanned /\ node \notin Unchecked
    BY DEF Unanalyzed, Unscanned, Unchecked, Unloaded
  <2>2. Blocking(apis) /\ \A f \in ToSet(apis) : f.status \in ApiStatus
    BY <1>1, <2>1, ApisFacts DEF SoundFindings, Judged
  <2>3. target.minor \in ToSet(TargetMinors)
    <3>1. /\ target \in Targets /\ Upgradable(Current, target)
          /\ path = compute_upgrade_path(Current, target)
      BY <1>1, <2>1 DEF IInv, InputInv, CompatInv
    <3>2. /\ IsSeq(TargetMinors) /\ Len(TargetMinors) = Ahead /\ Ahead \in Nat \ {0}
          /\ TargetMinors[Ahead] = target.minor
      BY <3>1, MinorsFacts
    <3>3. Ahead \in 1..Len(TargetMinors) BY <3>2
    <3> QED BY <3>2, <3>3, ListFacts
  <2>4. ASSUME NEW p \in ToSet(phases), Removed(r, p.minor)
        PROVE  \E f \in ToSet(p.apis) : f.about = r /\ f.status = "UPGRADE_BLOCKER"
    <3>1. /\ p.minor \in ToSet(TargetMinors)
          /\ ToSet(p.apis) = {f \in ToSet(apis) : f.minor = p.minor}
      BY <1>1, PhasesFacts
    <3>2. PICK f \in ToSet(apis) :
            f.about = r /\ f.minor = p.minor /\ f.status = "UPGRADE_BLOCKER"
      BY <2>2, <2>4, <3>1 DEF Blocking
    <3> QED BY <3>1, <3>2
  <2>5. \E k \in ToSet(risks) : k.about = r /\ k.severity = "BLOCKER"
    <3>1. PICK f \in ToSet(apis) : f.about = r /\ f.status = "UPGRADE_BLOCKER"
      BY <2>2, <2>3 DEF Blocking
    <3>2. Summarizes(apiSummary, apis, ApiRank) BY <1>1, <2>1, ApiSummaryFacts
    <3>3. PICK x \in ToSet(apiSummary) : x.about = f.about BY <3>2 DEF Summarizes
    <3>4. /\ x \in ToSet(apis)
          /\ ApiRank(f.status) < ApiRank(x.status) \/ f.status = x.status
      BY <3>2, <3>3 DEF Summarizes
    <3>5. x.status = "UPGRADE_BLOCKER"
      <4>1. x.status \in ApiStatus BY <2>2, <3>4
      <4>2. ~ (ApiRank(f.status) < ApiRank(x.status))
        BY <3>1, <4>1 DEF ApiRank, ApiStatus
      <4> QED BY <3>1, <3>4, <4>2
    <3> QED BY <1>1, <2>1, <3>1, <3>3, <3>5, RisksFacts
  <2>6. readiness.blocker_count > 0 /\ readiness.score <= 80
    <3>1. IsSeq(risks) /\ \A k \in ToSet(risks) : k.severity \in Severities
      BY <1>1, <2>1, RisksFacts
    <3>2. readiness = from_findings(risks) BY <1>1, <2>1 DEF IInv, RiskInv
    <3> QED BY <2>5, <3>1, <3>2, BlockersCount
  <2> QED BY <2>4, <2>5, <2>6
<1> QED BY <1>1, Invariant, PTL

(* Nothing is guessed: every blocker is a live object that the guide or    *)
(* pluto calls removed, and every status of a component but UNKNOWN is     *)
(* that of a block of the document it cites (deprecated_api.py:6-9,        *)
(* retriever.py:100).                                                      *)
THEOREM VerdictsHaveEvidence == Spec => []NoVerdictWithoutEvidence
<1>1. ASSUME IInv PROVE NoVerdictWithoutEvidence
  <2>1. ASSUME NEW f \in ToSet(apis), f.status = "UPGRADE_BLOCKER"
        PROVE  /\ "live" \in where[f.about]
               /\ SaidRemoved(f.about, f.minor) \/ pluto[f.about] = "removed"
    <3>1. CASE node \in Unscanned
      <4>1. apis = <<>> BY <1>1, <3>1 DEF IInv, ApisInv
      <4> QED BY <2>1, <4>1 DEF ToSet
    <3>2. CASE node \notin Unscanned
      BY <1>1, <2>1, <3>2, ApisFacts DEF SoundFindings, Judged
    <3> QED BY <3>1, <3>2
  <2>2. ASSUME NEW r \in ToSet(compat), r.status # "UNKNOWN"
        PROVE  \E d \in ToSet(Documents(files)) : d.id = r.source /\
                 \E b \in Answering(d, r) : \E e \in ToSet(b.entries) :
                   e.minor = r.minor /\ e.status = r.status
    <3>1. CASE node \in Unchecked
      <4>1. compat = <<>> BY <1>1, <3>1 DEF IInv, CompatInv
      <4> QED BY <2>2, <4>1 DEF ToSet
    <3>2. CASE node \notin Unchecked
      <4>1. Answered(r) /\ r.status \in CompatibilityStatus BY <1>1, <3>2, CompatFacts
      <4> QED BY <2>2, <4>1 DEF Answered, CompatibilityStatus
    <3> QED BY <3>1, <3>2
  <2> QED BY <2>1, <2>2 DEF NoVerdictWithoutEvidence
<1> QED BY <1>1, Invariant, PTL

(* Adding a document is enough (ingestion.py:3-5): a component that is     *)
(* UNKNOWN is in no document of the library, unless a document itself      *)
(* calls it UNKNOWN.                                                       *)
THEOREM MatricesAreUsed == Spec => []CompatEvidenceIsUsed
<1>1. ASSUME IInv PROVE CompatEvidenceIsUsed
  <2>1. ASSUME NEW r \in ToSet(compat), r.status = "UNKNOWN"
        PROVE  \/ \A d \in ToSet(Documents(files)) : Answering(d, r) = {}
               \/ \E d \in ToSet(Documents(files)) : \E b \in Answering(d, r) :
                    \E e \in ToSet(b.entries) : e.minor = r.minor /\ e.status = "UNKNOWN"
    <3>1. CASE node \in Unchecked
      <4>1. compat = <<>> BY <1>1, <3>1 DEF IInv, CompatInv
      <4> QED BY <2>1, <4>1 DEF ToSet
    <3>2. CASE node \notin Unchecked
      <4>1. Answered(r) BY <1>1, <3>2, CompatFacts
      <4> QED BY <2>1, <4>1 DEF Answered
    <3> QED BY <3>1, <3>2
  <2> QED BY <2>1 DEF CompatEvidenceIsUsed
<1> QED BY <1>1, Invariant, PTL

(* And an API that is UNKNOWN is told of by no document of the library     *)
(* (retriever.py:146, deprecated_api.py:6-9).                              *)
THEOREM GuidesAreUsed == Spec => []ApiEvidenceIsUsed
<1>1. ASSUME IInv PROVE ApiEvidenceIsUsed
  <2>1. ASSUME NEW f \in ToSet(apis), f.status = "UNKNOWN"
        PROVE  \A d \in ToSet(Documents(files)) : Tells(d, ApiOf[f.about]) = {}
    <3>1. CASE node \in Unscanned
      <4>1. apis = <<>> BY <1>1, <3>1 DEF IInv, ApisInv
      <4> QED BY <2>1, <4>1 DEF ToSet
    <3>2. CASE node \notin Unscanned
      BY <1>1, <2>1, <3>2, ApisFacts DEF SoundFindings, Judged
    <3> QED BY <3>1, <3>2
  <2> QED BY <2>1 DEF ApiEvidenceIsUsed
<1> QED BY <1>1, Invariant, PTL

(* Whatever images the workloads run, there is exactly one verdict about   *)
(* each software at each version of the path, and it is about a version    *)
(* that is installed (addon.py:79-83, compatibility.py:51-60).             *)
THEOREM SoftwareIsJudged == Spec => []InstalledSoftwareIsJudged
<1>1. ASSUME IInv PROVE InstalledSoftwareIsJudged
  <2> DEFINE installed == {infer_software_from_image(w.image) :
                             w \in ToSet(cluster.workloads)}
             versions(slug) == {sw.version : sw \in {x \in installed :
                                                      SlugOf[x.name] = slug}}
             T(sw, minor) == {r \in ToSet(compat) :
                                r.about = SlugOf[sw.name] /\ r.minor = minor}
  <2> SUFFICES ASSUME node \notin Unchecked, NEW sw \in installed,
                      NEW minor \in ToSet(TargetMinors)
               PROVE  /\ Len(KeepIn(compat, T(sw, minor))) = 1
                      /\ KeepIn(compat, T(sw, minor))[1].version \in versions(SlugOf[sw.name])
    BY DEF InstalledSoftwareIsJudged, Unchecked, Unloaded, Keep
  <2>1. PICK w \in ToSet(cluster.workloads) : sw = Software(w) BY DEF Software
  <2>2. /\ IsSeq(compat) /\ Ascends(compat)
        /\ \E r \in ToSet(compat) :
             /\ r.about = SlugOf[Software(w).name] /\ r.minor = minor
             /\ \E x \in ToSet(cluster.workloads) :
                  /\ SlugOf[Software(x).name] = r.about
                  /\ Software(x).version = r.version
    BY <1>1, CompatFacts
  <2>3. PICK r \in ToSet(compat) :
          /\ r.about = SlugOf[sw.name] /\ r.minor = minor
          /\ \E x \in ToSet(cluster.workloads) :
               SlugOf[Software(x).name] = r.about /\ Software(x).version = r.version
    BY <2>1, <2>2
  <2>4. r.version \in versions(SlugOf[sw.name])
    <3>1. PICK x \in ToSet(cluster.workloads) :
            SlugOf[Software(x).name] = r.about /\ Software(x).version = r.version
      BY <2>3
    <3>2. Software(x) \in installed BY DEF Software
    <3> HIDE DEF installed
    <3> QED BY <2>3, <3>1, <3>2
  <2>5. PICK i \in 1..Len(compat) : compat[i] = r BY <2>2, ListFacts
  <2>6. compat \in Seq(ToSet(compat)) /\ Len(compat) \in Nat
        /\ \A j \in 1..Len(compat) : compat[j] \in ToSet(compat)
    BY <2>2, ListFacts
  <2>7. minor \in Nat
    <3>1. /\ target \in Targets /\ Upgradable(Current, target)
          /\ path = compute_upgrade_path(Current, target)
      BY <1>1 DEF IInv, InputInv, CompatInv
    <3>2. PICK n \in 1..Len(TargetMinors) : TargetMinors[n] = minor
      BY <3>1, MinorsFacts, ListFacts
    <3> QED BY <3>1, <3>2, MinorsFacts
  <2>8. ASSUME NEW j \in 1..Len(compat), compat[j] \in T(sw, minor) PROVE j = i
    <3>1. compat[j].about = compat[i].about /\ compat[j].minor = minor /\ compat[i].minor = minor
      BY <2>3, <2>5, <2>8
    <3>2. ~ (j < i) /\ ~ (i < j) BY <2>2, <2>7, <3>1 DEF Ascends
    <3> QED BY <2>6, <3>2
  <2>9. compat[i] \in T(sw, minor) BY <2>3, <2>5
  <2> HIDE DEF T
  <2>10. Len(KeepIn(compat, T(sw, minor))) = 1 /\ KeepIn(compat, T(sw, minor))[1] = compat[i]
    BY <2>6, <2>8, <2>9, KeepInOne
  <2> HIDE DEF installed, versions
  <2> QED BY <2>4, <2>5, <2>10
<1> QED BY <1>1, Invariant, PTL

(* A risk that names a step is shown in the phase of that step, beside the *)
(* finding it was made from; one that names none is shown in every phase   *)
(* (risk.py:182, risk.py:228, planner.py:101).                             *)
THEOREM RisksAreShown == Spec => []RisksReachTheirPhase
<1>1. ASSUME IInv PROVE RisksReachTheirPhase
  <2> SUFFICES ASSUME node = "end", NEW k \in ToSet(risks)
               PROVE  IF k.step = 0 THEN \A p \in ToSet(phases) : k \in ToSet(p.risks)
                      ELSE \E p \in ToSet(phases) :
                             /\ p.minor = k.step /\ k \in ToSet(p.risks)
                             /\ \E f \in ToSet(p.apis) \cup ToSet(p.compat) :
                                  f.about = k.about /\ SeverityOf(f.status) = k.severity
    BY DEF RisksReachTheirPhase
  <2>1. node \notin Unanalyzed /\ node \notin Unscanned /\ node \notin Unchecked
    BY DEF Unanalyzed, Unscanned, Unchecked, Unloaded
  <2>2. /\ \A p \in ToSet(phases) :
             /\ ToSet(p.apis) = {f \in ToSet(apis) : f.minor = p.minor}
             /\ ToSet(p.compat) = {f \in ToSet(compat) : f.minor = p.minor}
             /\ ToSet(p.risks) = {x \in ToSet(risks) : x.step \in {0, p.minor}}
        /\ \A minor \in ToSet(TargetMinors) : \E p \in ToSet(phases) : p.minor = minor
    BY <1>1, PhasesFacts
  <2>3. CASE k.step = 0 BY <2>2, <2>3
  <2>4. CASE k.step # 0
    <3>1. PICK f \in ToSet(apis) \cup ToSet(compat) :
            k.about = f.about /\ k.step = f.minor /\ k.severity = SeverityOf(f.status)
      BY <1>1, <2>1, <2>4, RisksFacts
    <3>2. f.minor \in ToSet(TargetMinors)
      BY <1>1, <2>1, CompatFacts, ApisFacts DEF SoundFindings, Judged
    <3>3. PICK p \in ToSet(phases) : p.minor = f.minor BY <2>2, <3>2
    <3> QED BY <2>2, <2>4, <3>1, <3>3
  <2> QED BY <2>3, <2>4
<1> QED BY <1>1, Invariant, PTL
=============================================================================
