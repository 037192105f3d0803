-------------------------- MODULE ClusterInference --------------------------
(***************************************************************************)
(* What the collectors conclude from the objects they read: the software   *)
(* behind the images, the components to judge, the differences between     *)
(* nodes, the custom flags and the state of etcd.  Pure operators.         *)
(*                                                                         *)
(* An image keeps the name that the curated patterns find in it, the last  *)
(* two segments of its path and its tag.  A node keeps what is compared.   *)
(* An argument keeps its flag and whether it has the value kubeadm gives.  *)
(***************************************************************************)
EXTENDS Lists

CONSTANT SlugOf  \* SlugOf[name]: the name in lower case, with dashes

None == "none"

----------------------------------------------------------------------------
(* Software (addon.py)                                                     *)

\* Those of _GENERIC_IMAGE_SUFFIXES that an instance uses.
Generic == {"controller", "operator", "server"}

\* A name is a sequence of the segments that are joined by a dash.
FallbackName(image) ==
  IF image.last \in Generic /\ image.parent # None
  THEN <<image.parent, image.last>> ELSE <<image.last>>

infer_software_from_image(image) ==
  [name    |-> IF image.curated # None THEN <<image.curated>>
               ELSE FallbackName(image),
   version |-> IF image.tag = "latest" THEN None ELSE image.tag]

SoftwareOf(w) ==
  LET sw == infer_software_from_image(w.image)
  IN [name |-> sw.name, version |-> sw.version, namespace |-> w.namespace]

\* One component per name and namespace: the first that is met.
Inventory(workloads) ==
  KeepFirst([i \in DOMAIN workloads |-> SoftwareOf(workloads[i])],
            LAMBDA sw : <<sw.name, sw.namespace>>)

\* Seeded fault: only the images of the curated list are software.
InventoryCuratedOnly(workloads) ==
  Inventory(Keep(workloads, LAMBDA w : w.image.curated # None))

\* The workloads come as Deployments, DaemonSets, StatefulSets, in order.
collect_software_inventory(workloads) == Inventory(workloads)

----------------------------------------------------------------------------
(* Nodes (node.py)                                                         *)

\* An estimate from the defaults of two distributions.
infer_cgroup_version_hint(n) ==
  CASE n.os = "RHEL" /\ n.osVersion # None ->
         IF n.osMajor >= 9 THEN "v2" ELSE "v1"
    [] n.os = "Ubuntu" /\ n.osVersion # None ->
         IF n.osMajor >= 22 THEN "v2" ELSE "v1"
    [] OTHER -> None

NodeFields == {"os", "osVersion", "kernel", "cgroup", "runtime", "runtimeVersion"}

FieldOf(n, f) == IF f = "cgroup" THEN infer_cgroup_version_hint(n) ELSE n[f]

\* The fields that have two values; a node without a value does not count.
detect_node_inconsistencies(nodes) ==
  {f \in NodeFields :
     Cardinality({FieldOf(nodes[i], f) : i \in DOMAIN nodes} \ {None}) > 1}

----------------------------------------------------------------------------
(* The components to judge (compatibility.py)                              *)

\* The first node stands for all.
NodeComponents(nodes) ==
  IF nodes = <<>> THEN <<>>
  ELSE LET p == nodes[1]
           If(seen, slug, version) ==
             IF seen = None THEN <<>> ELSE <<[slug |-> slug, version |-> version]>>
           hint == infer_cgroup_version_hint(p)
       IN If(p.runtime, SlugOf[<<p.runtime>>], p.runtimeVersion)
          \o If(p.os, SlugOf[<<p.os>>], p.osVersion)
          \o If(p.kernel, <<"kernel">>, p.kernel) \o If(hint, <<"cgroup">>, hint)

\* Whoever names a component first gives its version.
gather_components(inventory, nodes) ==
  KeepFirst([i \in DOMAIN inventory |-> [slug    |-> SlugOf[inventory[i].name],
                                         version |-> inventory[i].version]]
            \o NodeComponents(nodes),
            LAMBDA c : c.slug)

----------------------------------------------------------------------------
(* Static pods (custom_config.py, etcd.py)                                 *)

StaticPods == <<"kube-apiserver", "kube-controller-manager", "kube-scheduler",
                "etcd">>

\* Of KUBEADM_DEFAULT_FLAGS, what tells one rule from another.
DefaultFlags(component) ==
  CASE component = "kube-apiserver" -> {"--secure-port", "--service-account-issuer"}
    [] component = "etcd" -> {"--data-dir", "--feature-gates"}
    [] OTHER -> {"--bind-address"}

EtcdValueLocked == {"--feature-gates"}

HighAttention == {"--audit-policy-file", "--service-account-issuer"}

\* The flags of a component that kubeadm does not set, or not to this value.
CustomFlags(component, args) ==
  {a.flag : a \in {a \in args :
     IF component = "etcd" /\ a.flag \in EtcdValueLocked THEN ~ a.usual
     ELSE a.flag \notin DefaultFlags(component)}}

pod_ready(pod) == pod.running /\ pod.ready

EtcdUnknown(pods) == pods = {}
AllHealthy(pods)  == \A pod \in pods : pod_ready(pod)
=============================================================================
