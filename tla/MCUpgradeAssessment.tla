------------------------ MODULE MCUpgradeAssessment ------------------------
(***************************************************************************)
(* Families of inputs, so that their product need not be explored: the     *)
(* APIs of two resources with every guide and every opinion of pluto,      *)
(* three clusters with every small compatibility matrix, libraries with a  *)
(* defect, and the release notes that the repository ships.                *)
(***************************************************************************)
EXTENDS UpgradeAssessment

V(minor) == [major |-> 1, minor |-> minor]
CurrentDef == V(33)
TargetsDef == {V(33), V(34), V(35), V(36), [major |-> 2, minor |-> 35]}

ResourcesDef == <<(<<"r1">>), (<<"r2">>)>>
ApiOfDef == [r \in ToSet(ResourcesDef) |-> IF r = <<"r1">> THEN "api1" ELSE "api2"]

\* Calico has a curated name and, behind another registry path, the same
\* name as a fallback; the operator's image gets the name of its parent.
Calico(tag) ==
  [curated |-> "Calico", parent |-> "calico", last |-> "node", tag |-> tag]
CalicoMirror(tag) ==
  [curated |-> None, parent |-> "mirror", last |-> "calico", tag |-> tag]
Operator ==
  [curated |-> None, parent |-> "search", last |-> "operator", tag |-> "latest"]

NamesDef == {<<"Calico">>, <<"calico">>, <<"search", "operator">>,
             <<"containerd">>, <<"RHEL">>, <<"Flatcar">>}
SlugOfDef ==
  [name \in NamesDef |-> CASE name = <<"Calico">>  -> <<"calico">>
                          [] name = <<"RHEL">>    -> <<"rhel">>
                          [] name = <<"Flatcar">> -> <<"flatcar">>
                          [] OTHER -> name]

Workload(namespace, image) == [namespace |-> namespace, image |-> image]

Node(os, version, major, runtime) ==
  [os |-> os, osVersion |-> version, osMajor |-> major, kernel |-> "5.14",
   runtime |-> "containerd", runtimeVersion |-> runtime]

Args(etcdUsual, extra) ==
  [c \in ToSet(StaticPods) |->
    CASE c = "etcd" -> {[flag |-> "--feature-gates", usual |-> etcdUsual]}
      [] c = "kube-apiserver" -> {[flag |-> f, usual |-> FALSE] :
                                    f \in {"--service-account-issuer"} \cup extra}
      [] OTHER -> {[flag |-> "--bind-address", usual |-> TRUE]}]

Pod(ready) == [running |-> TRUE, ready |-> ready]

Plain ==
  [workloads |-> <<Workload("kube-system", Calico("3.30.1")),
                   Workload("search", Operator)>>,
   nodes |-> <<Node("RHEL", "9.4", 9, "1.7.27"), Node("RHEL", "9.4", 9, "1.7.27")>>,
   etcd |-> {Pod(TRUE)}, args |-> Args(TRUE, {}), cp_count |-> 1]

\* Two versions of one component, and nodes that differ.
Mixed ==
  [workloads |-> <<Workload("net", CalicoMirror("3.29.1")),
                   Workload("kube-system", Calico("3.30.1")),
                   Workload("kube-system", Calico("3.29.1"))>>,
   nodes |-> <<Node("RHEL", "8.6", 8, "1.6.9"), Node("RHEL", "9.4", 9, "1.7.27"),
               Node("Flatcar", None, 0, "1.7.27")>>,
   etcd |-> {Pod(TRUE), Pod(FALSE)},
   args |-> Args(FALSE, {"--audit-policy-file"}), cp_count |-> 3]

\* Nothing that names a version, and no etcd to be seen.
Bare ==
  [workloads |-> <<Workload("kube-system", Calico("latest"))>>,
   nodes |-> <<Node("Flatcar", None, 0, None)>>,
   etcd |-> {}, args |-> Args(TRUE, {"--v"}), cp_count |-> 1]

ClustersDef == {Plain, Mixed, Bare}

----------------------------------------------------------------------------
(* Documents                                                               *)

Doc(id, type, component, blocks) ==
  [readme |-> FALSE, readable |-> TRUE, id |-> id, type |-> type,
   component |-> component, minors |-> {}, intro |-> FALSE, sections |-> <<>>,
   empty |-> {}, blocks |-> blocks]

Matrix(component, pattern, entries) ==
  [kind |-> "compatibility_matrix", component |-> component, pattern |-> pattern,
   entries |-> entries]
Guide(entries) ==
  [kind |-> "deprecated_api_guide", component |-> NoComponent, pattern |-> Absent,
   entries |-> entries]

BeginsDef == ("3.30" :> {"3.30.1"}) @@ ("3.29" :> {"3.29.1"})
             @@ ("1.7" :> {"1.7.27"})

\* Two APIs, of which a second document may know one as well.
Known == {<<>>} \cup
  {<<[deprecated |-> d, removed |-> r]>> : d \in {33, 35}, r \in {34, 36, 99}}
  \cup {<<[deprecated |-> 99, removed |-> 36]>>}
About(api, known) == [i \in DOMAIN known |-> known[i] @@ ("api" :> api)]
ApiGuide(known1, known2) ==
  Doc("guide", "deprecated_api_guide", <<"kubernetes">>,
      <<Guide(About("api1", known1) \o About("api2", known2))>>)
Later == Doc("later", "release_note", <<"kubernetes">>,
             <<Guide(About("api2", <<[deprecated |-> 33, removed |-> 34]>>))>>)

\* One entry about one minor; a block for all versions leaves the component
\* to the frontmatter.
Verdicts == [pattern : {Absent, "3.30", "3.29"},
             status  : {"COMPATIBLE", "WARNING", "INCOMPATIBLE"}]
CalicoVerdicts ==
  {<<>>} \cup {<<e>> : e \in Verdicts}
         \cup {<<e, f>> : e \in {x \in Verdicts : x.pattern = "3.29"},
                          f \in {x \in Verdicts : x.pattern # Absent}}
BlocksAt(minor, verdicts) ==
  [i \in DOMAIN verdicts |->
    Matrix(IF verdicts[i].pattern = Absent THEN NoComponent ELSE <<"calico">>,
           verdicts[i].pattern,
           <<[minor |-> minor, status |-> verdicts[i].status]>>)]
CalicoDoc(at34, at35) ==
  Doc("calico", "compatibility_matrix", <<"calico">>,
      BlocksAt(34, at34) \o BlocksAt(35, at35))
RuntimeDoc ==
  Doc("runtime", "os_requirement", <<"containerd">>,
      <<Matrix(NoComponent, "1.7", <<[minor |-> 35, status |-> "WARNING"]>>)>>)

\* Release notes, with the sections that the queries rank highest.
Note(minor, id, sections) ==
  [Doc(id, "release_note", <<"kubernetes">>, <<>>)
     EXCEPT !.minors = {minor}, !.sections = sections]
Shipped ==
  <<Note(32, "k8s-1.32", <<"feature gates">>), Note(33, "k8s-1.33", <<"sources">>),
    Note(34, "k8s-1.34", <<"sources">>), Note(35, "k8s-1.35", <<"sources">>),
    Note(36, "k8s-1.36", <<"DRA", "sources">>)>>
OwnNote == [Note(34, "k8s-1.34", <<"sources", "blank">>)
              EXCEPT !.intro = TRUE, !.empty = {"blank"}]

\* Times 1000, as scikit-learn computes it for the shipped documents.
ScoreOf(minor, text) ==
  CASE text[2] = "feature gates" -> IF minor = 36 THEN 199 ELSE 198
    [] text[2] = "DRA" -> 178
    [] text[2] = "overview" -> 0
    [] text = <<"k8s-1.36", "sources">> -> IF minor = 36 THEN 219 ELSE 105
    [] text = <<"k8s-1.33", "sources">> -> 103
    [] <<text[1], minor>> \in {<<"k8s-1.34", 34>>, <<"k8s-1.35", 35>>} -> 195
    [] OTHER -> 97
Texts == {<<n.id, s>> : n \in ToSet(Shipped),
                        s \in {"feature gates", "sources", "DRA", "overview"}}
ScoreDef == [minor \in 33..36 |-> [text \in Texts |-> ScoreOf(minor, text)]]

\* A README that is no document, documents that make a run fail, and one that
\* leaves a question open.
Readme == [Doc("readme", "none", NoComponent, <<>>)
             EXCEPT !.readme = TRUE, !.readable = FALSE]
Torn == [Doc("torn", "none", NoComponent, <<>>) EXCEPT !.readable = FALSE]
Nameless ==
  Doc("nameless", "compatibility_matrix", NoComponent,
      <<Matrix(NoComponent, Absent, <<[minor |-> 34, status |-> "WARNING"]>>)>>)
Mistyped ==
  Doc("mistyped", "compatibility_matrix", <<"calico">>,
      <<Matrix(NoComponent, Absent, <<[minor |-> 35, status |-> "PROBABLY"]>>)>>)

\* One document that contradicts itself.
Twice ==
  LET at34 == [deprecated |-> 33, removed |-> 34]
      at36 == [deprecated |-> 33, removed |-> 36]
  IN {<<at34, at36>>, <<at36, at34>>}

Undecided ==
  Doc("undecided", "compatibility_matrix", <<"calico">>,
      <<Matrix(NoComponent, Absent, <<[minor |-> 35, status |-> "UNKNOWN"]>>)>>)

ApiLibraries ==
  {<<ApiGuide(k1, k2)>> : k1, k2 \in Known} \cup
  {<<ApiGuide(<<>>, k2), Later>> : k2 \in Known} \cup
  {<<ApiGuide(<<>>, k2)>> : k2 \in Twice}
ComponentLibraries ==
  {<<CalicoDoc(at34, at35)>> \o runtime :
     at34, at35 \in CalicoVerdicts, runtime \in {<<OwnNote>>, <<OwnNote, RuntimeDoc>>}}
DefectiveLibraries ==
  {<<Readme, d>> : d \in {RuntimeDoc, Torn, Nameless, Mistyped, Undecided}}
LibrariesDef ==
  ApiLibraries \cup ComponentLibraries \cup DefectiveLibraries \cup {Shipped}

----------------------------------------------------------------------------
(* Families                                                                *)

\* The farthest target, and no document about a component.  Either API may
\* name a stage before its release, whether documents know it or not.
ApiInputs ==
  /\ target = V(36) /\ cluster = Plain /\ llm = FALSE
  /\ files \in ApiLibraries
  /\ prerelease \in [ToSet(Resources) -> BOOLEAN]
  /\ \E r \in ToSet(Resources) : ~prerelease[r]

\* No manifests in the cluster.
NoApis ==
  /\ prerelease = [r \in ToSet(Resources) |-> FALSE]
  /\ pluto = [r \in ToSet(Resources) |-> "fine"]
  /\ where = [r \in ToSet(Resources) |-> {}]

ComponentInputs ==
  /\ target \in Targets \ {V(36)} /\ files \in ComponentLibraries /\ NoApis
  /\ cluster \in Clusters /\ llm = (cluster = Bare)

DefectiveInputs ==
  /\ target = V(35) /\ files \in DefectiveLibraries /\ NoApis
  /\ cluster \in Clusters /\ llm = FALSE

\* From 1.33 to 1.36 with the release notes as they are, without an LLM.
ShippedInputs ==
  /\ target = V(36) /\ files = Shipped /\ NoApis /\ cluster = Plain /\ llm = FALSE

MCInit ==
  (ApiInputs \/ ComponentInputs \/ DefectiveInputs \/ ShippedInputs) /\ Init
MCSpec == MCInit /\ [][Next]_vars
=============================================================================
