-------------------------- MODULE ClusterCollection --------------------------
(***************************************************************************)
(* The collecting half of the LangGraph: the calls of collect_cluster,     *)
(* detect_custom_config and detect_installed_software on a real cluster,   *)
(* one action per call, while the cluster changes.  Kept of the answers is *)
(* what two calls can disagree about, the nodes and their role, and what   *)
(* a failed call can hide, the kinds of the live objects.  Calls whose     *)
(* answers are used once and whose failure ends the run are one action.    *)
(***************************************************************************)
EXTENDS Naturals, FiniteSets

CONSTANTS
  Names,       \* names of nodes
  Kinds,       \* resource types of manifest_scan
  MaxChanges   \* bound: changes of the cluster while it is read

Labels == {"absent", "control-plane", "master", "worker"}

VARIABLES
  label,    \* label[n]: the node in the cluster
  served,   \* the kinds that the API server knows
  objects,  \* those of which there is an object
  changes,  \* how often the cluster has changed
  changed,  \* the nodes that changed since the run began
  call,     \* the call that the run makes next
  raw,      \* KubernetesCollector._nodes: {} or {one reading}
  nodes,    \* ClusterInfo.nodes: name and role, or {} before it is read
  kinds,    \* what list_api_resource_kinds answered: {} or {one answer}
  gathered, \* the kinds of the live objects that were gathered
  missed    \* the calls that failed without ending the run

cluster == <<label, served, objects, changes, changed>>
vars    == <<cluster, call, raw, nodes, kinds, gathered, missed>>

Calls == {"version", "raw_nodes", "nodes", "rest", "configmaps", "inventory",
          "api_resources", "resources", "helm", "judge", "failed"}

Init ==
  /\ label \in [Names -> Labels]
  /\ served \in SUBSET Kinds
  /\ objects \in SUBSET served
  /\ changes = 0 /\ changed = {}
  /\ call = "version"
  /\ raw = {}
  /\ nodes = [n \in Names |-> "none"]
  /\ kinds = {} /\ gathered = {} /\ missed = {}

\* A node joins, leaves or changes its role.
ChangeCluster(n) ==
  /\ changes < MaxChanges /\ call \notin {"judge", "failed"}
  /\ \E l \in Labels \ {label[n]} : label' = [label EXCEPT ![n] = l]
  /\ changes' = changes + 1
  /\ changed' = changed \cup {n}
  /\ UNCHANGED <<served, objects, call, raw, nodes, kinds, gathered, missed>>

\* Either label makes a node a control plane node.
is_control_plane_node(l) == l \in {"control-plane", "master"}

\* Seeded fault: the older label is forgotten.
RoleByNewLabel(l) ==
  IF l = "absent" THEN "none"
  ELSE IF l = "control-plane" THEN "CONTROL_PLANE" ELSE "WORKER"

\* NodeCollector.collect
RoleOf(l) ==
  IF l = "absent" THEN "none"
  ELSE IF is_control_plane_node(l) THEN "CONTROL_PLANE" ELSE "WORKER"

\* An exception of a call ends the graph, and with it the run.
Raise(c) ==
  /\ call = c
  /\ call' = "failed"
  /\ UNCHANGED <<cluster, raw, nodes, kinds, gathered, missed>>

\* _raw_nodes: what was read before, or the nodes as they are now.
RawNodes == IF raw = {} THEN {label} ELSE raw

\* Without a gitVersion the version is taken from the first node.
GetVersion ==
  /\ call = "version"
  /\ raw' = raw \/ raw' = RawNodes
  /\ call' = "raw_nodes"
  /\ UNCHANGED <<cluster, nodes, kinds, gathered, missed>>

\* collect_control_plane_info and collect_worker_count
GetRawNodes ==
  /\ call = "raw_nodes"
  /\ raw' = RawNodes
  /\ call' = "nodes"
  /\ UNCHANGED <<cluster, nodes, kinds, gathered, missed>>

\* NodeCollector asks the client again.
GetNodes ==
  /\ call = "nodes"
  /\ nodes' = [n \in Names |-> RoleOf(label[n])]
  /\ call' = "rest"
  /\ UNCHANGED <<cluster, raw, kinds, gathered, missed>>

\* etcd, CNI, CSI, ingress, CRDs, Helm secrets.
CollectRest ==
  /\ call = "rest"
  /\ call' = "configmaps"
  /\ UNCHANGED <<cluster, raw, nodes, kinds, gathered, missed>>

\* collect_certificate_expirations goes on without the config maps.
GetConfigMaps ==
  /\ call = "configmaps"
  /\ call' = "inventory"
  /\ missed' \in {missed, missed \cup {"configmaps"}}
  /\ UNCHANGED <<cluster, raw, nodes, kinds, gathered>>

\* detect_custom_config and collect_software_inventory
CollectInventory ==
  /\ call = "inventory"
  /\ call' = "api_resources"
  /\ UNCHANGED <<cluster, raw, nodes, kinds, gathered, missed>>

\* list_api_resource_kinds answers [] when its call fails, and only then:
\* a server always has kinds that are not among Kinds, too.
ListApiResourceKinds ==
  /\ call = "api_resources"
  /\ call' = "resources"
  /\ \/ kinds' = {served} /\ UNCHANGED missed
     \/ kinds' = {} /\ missed' = missed \cup {"api_resources"}
  /\ UNCHANGED <<cluster, raw, nodes, gathered>>

\* gather_manifest_objects: without a list every kind is asked for.
Targets == IF kinds = {} THEN Kinds ELSE UNION kinds

\* Seeded fault: kinds the server does not know are thought to be skipped.
GetResourcesLeniently ==
  /\ call = "resources"
  /\ call' = "helm"
  /\ \/ /\ gathered' = objects \cap Targets \cap UNION kinds
        /\ UNCHANGED missed
     \/ gathered' = {} /\ missed' = missed \cup {"resources"}
  /\ UNCHANGED <<cluster, raw, nodes, kinds>>

\* get_resources makes no call for no target, and answers [] when its one
\* call fails, as it does for a kind that the server does not know.
GetResources ==
  /\ call = "resources"
  /\ call' = "helm"
  /\ \/ /\ Targets \subseteq served
        /\ gathered' = objects \cap Targets
        /\ UNCHANGED missed
     \/ /\ Targets # {}
        /\ gathered' = {} /\ missed' = missed \cup {"resources"}
  /\ UNCHANGED <<cluster, raw, nodes, kinds>>

\* The Helm releases; one that cannot be decoded is skipped.
GetHelmReleases ==
  /\ call = "helm"
  /\ call' = "judge"
  /\ UNCHANGED <<cluster, raw, nodes, kinds, gathered, missed>>

StrictCalls == {"version", "raw_nodes", "nodes", "rest", "inventory", "helm"}

Next ==
  \/ \E n \in Names : ChangeCluster(n)
  \/ \E c \in StrictCalls : Raise(c)
  \/ GetVersion \/ GetRawNodes \/ GetNodes \/ CollectRest \/ GetConfigMaps
  \/ CollectInventory \/ ListApiResourceKinds \/ GetResources \/ GetHelmReleases

Spec == Init /\ [][Next]_vars

----------------------------------------------------------------------------
(* What build_upgrade_plan makes of the two readings.                      *)

cp_nodes == {n \in Names : \E reading \in raw : is_control_plane_node(reading[n])}
worker_nodes == {n \in Names : nodes[n] = "WORKER"}
(* Properties                                                              *)

Planned(n) == n \in (cp_nodes \ worker_nodes) \cup (worker_nodes \ cp_nodes)

(* A node that did not change while the cluster was read gets exactly one  *)
(* kind of upgrade step, whatever happened to the others and whichever     *)
(* call filled the cache.                                                  *)
StableNodesPlannedOnce ==
  call = "judge" => \A n \in Names \ changed :
    label[n] # "absent" <=> Planned(n)

(* When the scan of the live objects is not one of the calls that failed,  *)
(* it is complete, also when the list of the kinds could not be read.      *)
ScanIsCompleteOrMissed ==
  call = "judge" /\ "resources" \notin missed => gathered = objects

(* A call that kubectl-ai does not answer ends the run with an error       *)
(* (README.md:171-173).                                                    *)
UnansweredCallFails == call = "judge" => missed = {}

----------------------------------------------------------------------------
(* What the run has read of a node that did not change is the node.        *)

WithRaw   == {"nodes", "rest", "configmaps", "inventory", "api_resources",
              "resources", "helm", "judge"}
WithNodes == WithRaw \ {"nodes"}

CollectInv ==
  /\ label \in [Names -> Labels]
  /\ objects \subseteq served /\ served \subseteq Kinds
  /\ call \in Calls
  /\ raw = {} \/ \E reading \in [Names -> Labels] : raw = {reading}
  /\ call \in WithRaw => raw # {}
  /\ \A reading \in raw : \A n \in Names \ changed : reading[n] = label[n]
  /\ call \in WithNodes => \A n \in Names \ changed : nodes[n] = RoleOf(label[n])
  /\ kinds \in {{}, {served}}
  /\ call \in {"helm", "judge"} /\ "resources" \notin missed => gathered = objects
=============================================================================
