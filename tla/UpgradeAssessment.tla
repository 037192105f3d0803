-------------------------- MODULE UpgradeAssessment --------------------------
(***************************************************************************)
(* The judging half of a run: get_rag and the graph nodes search_rag,      *)
(* check_compatibility, check_deprecated_api, analyze_risk,                *)
(* generate_upgrade_path and generate_upgrade_plan, one action each, over  *)
(* the shared AgentState.  What they judge is chosen once: the document    *)
(* files, pluto's data, the manifests found and the objects of the         *)
(* cluster, from which ClusterInference concludes.  Texts are left out; a  *)
(* resource stands for one (kind, apiVersion, name, namespace).            *)
(***************************************************************************)
EXTENDS UpgradePlanner, ClusterInference, RagDocuments

CONSTANTS
  Resources,   \* the resources, in the order in which kubectl lists them
  ApiOf,       \* ApiOf[r]: the kind and apiVersion of r
  Current,     \* the cluster's version
  Targets,     \* the versions that may be asked for
  Libraries,   \* sequences of document files, in the order of their paths
  Clusters     \* [workloads, nodes, etcd, args, cp_count]

\* What kubectl and the request give are lists and versions.
ASSUME InputAssumption ==
  /\ IsSeq(Resources)
  /\ Current \in Version /\ Targets \subseteq Version
  /\ \A c \in Clusters : IsSeq(c.workloads) /\ IsSeq(c.nodes)

\* Files, blocks and entries are lists.  An API that is not deprecated or not
\* removed is given a minor that no cluster has.
ASSUME LibraryAssumption ==
  \A library \in Libraries :
    /\ IsSeq(library)
    /\ \A f \in ToSet(library) :
         /\ IsSeq(f.blocks)
         /\ \A b \in ToSet(f.blocks) :
              /\ IsSeq(b.entries)
              /\ b.kind = "deprecated_api_guide" =>
                   \A e \in ToSet(b.entries) : e.deprecated \in Nat /\ e.removed \in Nat

VARIABLES
  target,      \* target_version
  files,       \* the files below rag_documents_dir
  llm,         \* an endpoint and a model are set
  prerelease,  \* prerelease[r]: its apiVersion names a beta or an alpha
  pluto,       \* pluto[r]: what pluto says of r at the target version
  where,       \* where[r]: found live, in a Helm release, or both
  cluster,     \* the objects that ClusterInfo is made from
  node,        \* the graph node that runs next
  rag,         \* _rag_singleton
  path, compat, apis, compatSummary, apiSummary, risks, readiness, phases

input == <<target, files, llm, prerelease, pluto, where, cluster>>
vars  == <<input, node, rag, path, compat, apis, compatSummary, apiSummary,
           risks, readiness, phases>>

Init ==
  /\ target \in Targets
  /\ files \in Libraries
  /\ llm \in BOOLEAN
  /\ prerelease \in [ToSet(Resources) -> BOOLEAN]
  /\ pluto \in [ToSet(Resources) -> {"fine", "deprecated", "removed"}]
  /\ where \in [ToSet(Resources) -> SUBSET {"live", "helm"}]
  /\ cluster \in Clusters
  /\ node = "get_rag"
  /\ rag = Absent
  /\ path = <<>> /\ compat = <<>> /\ apis = <<>> /\ compatSummary = <<>>
  /\ apiSummary = <<>> /\ risks = <<>> /\ phases = <<>>
  /\ readiness = [score |-> 0, blocker_count |-> 0]

\* _target_minors of a path.
MinorsAfterFirst(p) == [i \in 1..(Len(p) - 1) |-> p[i + 1].minor]
TargetMinors == MinorsAfterFirst(path)

----------------------------------------------------------------------------
(* Compatibility                                                           *)

evaluate_compatibility(minors) ==
  LET components == gather_components(
        collect_software_inventory(cluster.workloads), cluster.nodes)
  IN FlattenSeq([i \in DOMAIN components |->
       [j \in DOMAIN minors |->
         lookup_compatibility(rag, components[i].slug, components[i].version,
                              minors[j])]])

CompatRank(s) == CASE s = "COMPATIBLE" -> 0   [] s = "UNKNOWN" -> 1
                   [] s = "WARNING" -> 2      [] s = "INCOMPATIBLE" -> 3

summarize_compatibility(results) ==
  KeepBest(results, LAMBDA r : r.about,
           LAMBDA r, best : CompatRank(r.status) > CompatRank(best.status))

----------------------------------------------------------------------------
(* Deprecated and removed APIs                                             *)

ApiRank(s) == CASE s = "OK" -> 0               [] s = "UNKNOWN" -> 1
                [] s = "ACTION_REQUIRED" -> 2  [] s = "UPGRADE_BLOCKER" -> 3

Finding(r, minor, status, by, found) ==
  [about |-> r, minor |-> minor, status |-> status, by |-> by, found |-> found]

\* gather_manifest_objects: the live objects, then those of Helm releases.
Gathered ==
  LET In(found) == Keep(Resources, LAMBDA r : found \in where[r]) IN
  [i \in DOMAIN In("live") |-> [res |-> In("live")[i], found |-> "live"]]
  \o [i \in DOMAIN In("helm") |-> [res |-> In("helm")[i], found |-> "helm"]]

\* Seeded fault: what only a chart would install blocks like a live object.
JudgeAlike(e, minor, found) ==
  CASE minor >= e.removed -> "UPGRADE_BLOCKER"
    [] minor < e.removed /\ minor >= e.deprecated -> "ACTION_REQUIRED"
    [] OTHER -> "OK"

\* A chart that was not applied cannot block the cluster: one step lower.
Judge(e, minor, found) ==
  CASE minor >= e.removed -> IF found = "helm" THEN "ACTION_REQUIRED"
                             ELSE "UPGRADE_BLOCKER"
    [] minor < e.removed /\ minor >= e.deprecated -> "ACTION_REQUIRED"
    [] OTHER -> "OK"

\* Without an entry only a beta or alpha API is worth a finding, once.
FindingsOf(g, minors) ==
  LET entry == lookup_deprecated_api(rag, ApiOf[g.res]) IN
  IF entry = {}
  THEN IF prerelease[g.res]
       THEN <<Finding(g.res, minors[1], "UNKNOWN", "rag", g.found)>> ELSE <<>>
  ELSE LET e == CHOOSE e \in entry : TRUE
           judged == [i \in DOMAIN minors |->
                       Finding(g.res, minors[i], Judge(e, minors[i], g.found),
                               "rag", g.found)]
       IN Keep(judged, LAMBDA f : f.status # "OK")

evaluate_deprecated_apis(minors) ==
  FlattenSeq([i \in DOMAIN Gathered |-> FindingsOf(Gathered[i], minors)])

\* pluto looks at every manifest, and at the final version only.
scan_with_pluto ==
  LET status(g) == IF pluto[g.res] = "removed" /\ g.found = "live"
                   THEN "UPGRADE_BLOCKER" ELSE "ACTION_REQUIRED"
      hits == Keep(Gathered, LAMBDA g : pluto[g.res] # "fine")
  IN [i \in DOMAIN hits |->
       Finding(hits[i].res, target.minor, status(hits[i]), "pluto", hits[i].found)]

AtTarget(f) == <<f.about, f.minor>>

\* Seeded fault: whoever comes last wins.
MergeLast(findings) == KeepBest(findings, AtTarget, LAMBDA f, cur : TRUE)

\* The worse finding of a resource at a version; of two equals, RAG's.
merge_findings(findings) ==
  LET Beats(f, cur) ==
        \/ ApiRank(f.status) > ApiRank(cur.status)
        \/ /\ ApiRank(f.status) = ApiRank(cur.status)
           /\ cur.by # "rag" /\ f.by = "rag"
  IN KeepBest(findings, AtTarget, Beats)

\* Seeded fault: a resource keeps its first finding.
SummarizeFirst(findings) == KeepFirst(findings, LAMBDA f : f.about)

summarize_deprecated_apis(findings) ==
  KeepBest(findings, LAMBDA f : f.about,
           LAMBDA f, best : ApiRank(f.status) > ApiRank(best.status))

----------------------------------------------------------------------------
(* Risks and readiness                                                     *)

Risk(severity, category) ==
  [severity |-> severity, category |-> category, about |-> <<"cluster">>, step |-> 0]

CustomConfigRisks ==
  LET custom(c) == CustomFlags(c, cluster.args[c])
      changed == Keep(StaticPods, LAMBDA c : custom(c) # {})
  IN [i \in DOMAIN changed |->
       Risk(IF custom(changed[i]) \cap HighAttention # {} THEN "HIGH" ELSE "MEDIUM",
            "custom-config")]

EtcdRisks ==
  IF EtcdUnknown(cluster.etcd) THEN <<Risk("HIGH", "etcd")>>
  ELSE <<Risk(IF AllHealthy(cluster.etcd) THEN "LOW" ELSE "HIGH", "etcd"),
         Risk("INFO", "etcd")>>

CgroupNotice ==
  IF \E i \in DOMAIN cluster.nodes :
       infer_cgroup_version_hint(cluster.nodes[i]) # None
  THEN <<Risk("INFO", "cgroup")>> ELSE <<>>

\* What follows from the cluster itself: one risk per field that differs, one
\* per component with custom flags, etcd, HA and the cgroup estimate.
StructureRisks ==
  [i \in 1..Cardinality(detect_node_inconsistencies(cluster.nodes)) |->
     Risk("MEDIUM", "node-consistency")]
  \o CustomConfigRisks \o EtcdRisks
  \o <<Risk(IF cluster.cp_count > 1 THEN "INFO" ELSE "MEDIUM", "ha")>>
  \o CgroupNotice

SeverityOf(status) ==
  CASE status = "UPGRADE_BLOCKER" -> "BLOCKER"
    [] status \in {"ACTION_REQUIRED", "INCOMPATIBLE"} -> "HIGH"
    [] status = "WARNING" -> "MEDIUM"
    [] status = "UNKNOWN" -> "LOW"

\* _compatibility_risks and _deprecated_api_risks: the step is the minor at
\* which the summary's result was found.
RisksOf(summary, category) ==
  LET bad == Keep(summary, LAMBDA f : f.status \notin {"COMPATIBLE", "OK"}) IN
  [i \in DOMAIN bad |->
    [severity |-> SeverityOf(bad[i].status), category |-> category,
     about |-> bad[i].about, step |-> bad[i].minor]]

build_risk_findings(compatibility, deprecated) ==
  StructureRisks \o RisksOf(compatibility, "compatibility")
                 \o RisksOf(deprecated, "deprecated-api")

Weight(severity) == CASE severity = "BLOCKER" -> 20 [] severity = "HIGH" -> 8
                      [] severity = "MEDIUM" -> 3   [] severity = "LOW" -> 1
                      [] severity = "INFO" -> 0

\* ReadinessScore.from_findings
from_findings(findings) ==
  LET deduction == Total([i \in DOMAIN findings |-> Weight(findings[i].severity)])
  IN [score |-> IF deduction > 100 THEN 0 ELSE 100 - deduction,
      blocker_count |->
        Len(Keep(findings, LAMBDA f : f.severity = "BLOCKER"))]

\* _summarize_release_notes: by whom, and from which document.  An LLM that
\* is not set, fails or says nothing leaves the excerpt of the best chunk.
Summary(refs, generated) ==
  IF refs = <<>> THEN [by |-> Absent, doc |-> Absent]
  ELSE IF llm /\ generated THEN [by |-> "llm", doc |-> Absent]
  ELSE [by |-> "excerpt", doc |-> refs[1].doc]

\* Seeded fault: the phase is matched by the version it starts from.
PhaseByStart(i, generated) ==
  LET minor == path[i].minor
      refs == search(rag, minor, "release_note", <<"kubernetes">>, 3)
  IN [minor   |-> minor,
      apis    |-> Keep(apis, LAMBDA f : f.minor = minor),
      compat  |-> Keep(compat, LAMBDA r : r.minor = minor),
      risks   |-> Keep(risks, LAMBDA r : r.step \in {0, minor}),
      summary |-> Summary(refs, generated),
      sources |-> refs]

\* build_upgrade_plan: what concerns the phase that ends at path[i + 1].
Phase(i, generated) ==
  LET minor == path[i + 1].minor
      refs == search(rag, minor, "release_note", <<"kubernetes">>, 3)
  IN [minor   |-> minor,
      apis    |-> Keep(apis, LAMBDA f : f.minor = minor),
      compat  |-> Keep(compat, LAMBDA r : r.minor = minor),
      risks   |-> Keep(risks, LAMBDA r : r.step \in {0, minor}),
      summary |-> Summary(refs, generated),
      sources |-> refs]

----------------------------------------------------------------------------
(* The graph                                                               *)

\* One document that cannot be parsed fails the run, whatever it is about.
GetRag ==
  /\ node = "get_rag"
  /\ \/ /\ Parsable(files)
        /\ rag' = build_index(files)
        /\ node' = "search_rag"
     \/ /\ ~ Parsable(files)
        /\ node' = "failed"
        /\ UNCHANGED rag
  /\ UNCHANGED <<input, path, compat, apis, compatSummary, apiSummary, risks,
                 readiness, phases>>

\* reference_material is filled for the report, and read by nothing.
SearchRag ==
  /\ node = "search_rag"
  /\ node' = "check_compatibility"
  /\ UNCHANGED <<input, rag, path, compat, apis, compatSummary, apiSummary, risks,
                 readiness, phases>>

\* A target that is not ahead raises here, after everything was collected,
\* and so does a lookup.
CheckCompatibility ==
  /\ node = "check_compatibility"
  /\ LET new == compute_upgrade_path(Current, target)
         results == evaluate_compatibility(MinorsAfterFirst(new))
         fails == \/ ~ Upgradable(Current, target)
                  \/ \E r \in ToSet(results) : r.status = "raises"
     IN \/ /\ ~ fails
           /\ path' = new /\ compat' = results
           /\ node' = "check_deprecated_api"
        \/ /\ fails
           /\ node' = "failed"
           /\ UNCHANGED <<path, compat>>
  /\ UNCHANGED <<input, rag, apis, compatSummary, apiSummary, risks, readiness,
                 phases>>

\* pluto may be missing, fail or time out: its findings are then empty.
CheckDeprecatedApi ==
  /\ node = "check_deprecated_api"
  /\ \E scanned \in {scan_with_pluto, <<>>} :
       apis' = merge_findings(evaluate_deprecated_apis(TargetMinors) \o scanned)
  /\ node' = "analyze_risk"
  /\ UNCHANGED <<input, rag, path, compat, compatSummary, apiSummary, risks, readiness,
                 phases>>

AnalyzeRisk ==
  /\ node = "analyze_risk"
  /\ compatSummary' = summarize_compatibility(compat)
  /\ apiSummary' = summarize_deprecated_apis(apis)
  /\ risks' = build_risk_findings(compatSummary', apiSummary')
  /\ readiness' = from_findings(risks')
  /\ node' = "generate_upgrade_path"
  /\ UNCHANGED <<input, rag, path, compat, apis, phases>>

\* The path is passed through as it is.
GenerateUpgradePath ==
  /\ node = "generate_upgrade_path"
  /\ node' = "generate_upgrade_plan"
  /\ UNCHANGED <<input, rag, path, compat, apis, compatSummary, apiSummary, risks,
                 readiness, phases>>

GenerateUpgradePlan ==
  /\ node = "generate_upgrade_plan"
  /\ \E generated \in [1..(Len(path) - 1) -> BOOLEAN] :
       phases' = [i \in 1..(Len(path) - 1) |-> Phase(i, generated[i])]
  /\ node' = "end"
  /\ UNCHANGED <<input, rag, path, compat, apis, compatSummary, apiSummary, risks,
                 readiness>>

Next ==
  \/ GetRag \/ SearchRag \/ CheckCompatibility \/ CheckDeprecatedApi \/ AnalyzeRisk
  \/ GenerateUpgradePath \/ GenerateUpgradePlan

Spec == Init /\ [][Next]_vars

----------------------------------------------------------------------------
(* Properties                                                              *)

Summarizes(summary, all, Rank(_)) ==
  /\ \A s \in ToSet(summary) :
       /\ s \in ToSet(all)
       /\ \A f \in ToSet(all) : f.about = s.about =>
            \/ Rank(f.status) < Rank(s.status)
            \/ f.status = s.status /\ f.minor >= s.minor
  /\ \A f \in ToSet(all) : \E s \in ToSet(summary) : s.about = f.about
  /\ Len(summary) = Cardinality({s.about : s \in ToSet(summary)})

(* The global tables show each component and each resource once, with its  *)
(* worst result and the earliest version that has it, however the two      *)
(* scanners' findings were merged (compatibility.py:63-70,                 *)
(* deprecated_api.py:110-136).                                             *)
SummaryIsFirstWorst ==
  node \in {"generate_upgrade_path", "generate_upgrade_plan", "end"} =>
    /\ Summarizes(compatSummary, compat, CompatRank)
    /\ Summarizes(apiSummary, apis, ApiRank)

\* What a file says of an API, and of the component of a result.
Tells(f, api) ==
  {e \in UNION {ToSet(b.entries) : b \in {x \in ToSet(f.blocks) :
                                          x.kind = "deprecated_api_guide"}} :
     e.api = api}

Answering(f, r) ==
  {b \in ToSet(f.blocks) :
    /\ b.kind = "compatibility_matrix"
    /\ r.about = IF b.component = NoComponent THEN f.component ELSE b.component
    /\ \/ b.pattern = Absent
       \/ r.version # Absent /\ r.version \in Begins[b.pattern]
    /\ \E e \in ToSet(b.entries) : e.minor = r.minor}

\* What the first document that knows the API of r says of it.
FirstTold(r) ==
  LET docs == Documents(files)
      knowing == {i \in DOMAIN docs : Tells(docs[i], ApiOf[r]) # {}}
  IN UNION {Tells(docs[i], ApiOf[r]) : i \in {i \in knowing : \A j \in knowing : i <= j}}

\* It may list the API twice: removed by every entry, or by one.
Removed(r, minor)   == FirstTold(r) # {} /\ \A e \in FirstTold(r) : e.removed <= minor
SaidRemoved(r, minor) == \E e \in FirstTold(r) : e.removed <= minor

(* A live object whose API the guide knows to be removed on the way blocks *)
(* the upgrade: in the list of every phase from the removal on, among the  *)
(* risks, and in the score.                                                *)
RemovedLiveObjectBlocks ==
  node = "end" => \A r \in ToSet(Resources) :
    "live" \in where[r] /\ Removed(r, target.minor) =>
      /\ \A p \in ToSet(phases) : Removed(r, p.minor) =>
           \E f \in ToSet(p.apis) : f.about = r /\ f.status = "UPGRADE_BLOCKER"
      /\ \E k \in ToSet(risks) : k.about = r /\ k.severity = "BLOCKER"
      /\ readiness.blocker_count > 0 /\ readiness.score <= 80

(* Nothing is guessed: a blocker is a live object that one of the two      *)
(* sources calls removed (deprecated_api.py:6-9), and a component has no   *)
(* status but that of a block of its source, about its version             *)
(* (retriever.py:100).                                                     *)
NoVerdictWithoutEvidence ==
  /\ \A f \in ToSet(apis) : f.status = "UPGRADE_BLOCKER" =>
       "live" \in where[f.about]
       /\ (SaidRemoved(f.about, f.minor) \/ pluto[f.about] = "removed")
  /\ \A r \in ToSet(compat) : r.status # "UNKNOWN" =>
       \E d \in ToSet(Documents(files)) : d.id = r.source /\
         \E b \in Answering(d, r) : \E e \in ToSet(b.entries) :
           e.minor = r.minor /\ e.status = r.status

(* Adding a document is enough (ingestion.py:3-5): a component whose       *)
(* status is UNKNOWN is in no document, wherever in the directory and by   *)
(* whatever way a block names its component, unless a document itself      *)
(* calls it UNKNOWN.                                                       *)
CompatEvidenceIsUsed ==
  \A r \in ToSet(compat) : r.status = "UNKNOWN" =>
    \/ \A d \in ToSet(Documents(files)) : Answering(d, r) = {}
    \/ \E d \in ToSet(Documents(files)) : \E b \in Answering(d, r) :
         \E e \in ToSet(b.entries) : e.minor = r.minor /\ e.status = "UNKNOWN"

(* And an API is UNKNOWN only if no document tells of it, under whatever   *)
(* type the document is filed: a stage before the release that the         *)
(* documents know of is judged by what they say (deprecated_api.py:6-9).   *)
ApiEvidenceIsUsed ==
  \A f \in ToSet(apis) : f.status = "UNKNOWN" =>
    \A d \in ToSet(Documents(files)) : Tells(d, ApiOf[f.about]) = {}

(* No installed software is passed over: whatever image a workload runs,   *)
(* known to the patterns or not, there is one verdict about it for every   *)
(* version of the path, and it is about a version that is installed        *)
(* (addon.py:79-83).                                                       *)
InstalledSoftwareIsJudged ==
  node \notin {"get_rag", "search_rag", "check_compatibility", "failed"} =>
    LET installed == {infer_software_from_image(w.image) :
                        w \in ToSet(cluster.workloads)}
        versions(slug) == {sw.version : sw \in {x \in installed :
                                                 SlugOf[x.name] = slug}}
    IN \A sw \in installed : \A minor \in ToSet(TargetMinors) :
         LET verdicts == Keep(compat, LAMBDA r :
                           r.about = SlugOf[sw.name] /\ r.minor = minor)
         IN Len(verdicts) = 1 /\ verdicts[1].version \in versions(SlugOf[sw.name])

(* A risk that names a step is shown in the phase of that step, beside the *)
(* finding it was made from; one that names none is shown in every phase.  *)
RisksReachTheirPhase ==
  node = "end" => \A k \in ToSet(risks) :
    IF k.step = 0 THEN \A p \in ToSet(phases) : k \in ToSet(p.risks)
    ELSE \E p \in ToSet(phases) :
           /\ p.minor = k.step /\ k \in ToSet(p.risks)
           /\ \E f \in ToSet(p.apis) \cup ToSet(p.compat) :
                f.about = k.about /\ SeverityOf(f.status) = k.severity
=============================================================================
