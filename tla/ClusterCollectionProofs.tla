---------------------- MODULE ClusterCollectionProofs ----------------------
(***************************************************************************)
(* What the collection may conclude of a cluster that changes while it is  *)
(* read, for any nodes, any kinds and any number of changes.               *)
(***************************************************************************)
EXTENDS ClusterCollection, TLAPS

(* Nothing is read before the first call.                                  *)
LEMMA InitCollect == Init => CollectInv
BY DEF Init, CollectInv, WithRaw, WithNodes, Calls

(* A change marks its node; a call reads the nodes as they are.            *)
LEMMA CollectStep == CollectInv /\ [Next]_vars => CollectInv'
<1> SUFFICES ASSUME CollectInv, [Next]_vars PROVE CollectInv'
  OBVIOUS
<1> USE DEF CollectInv, WithRaw, WithNodes, Calls, cluster
<1>1. CASE UNCHANGED vars
  BY <1>1 DEF vars
<1>2. ASSUME NEW n \in Names, ChangeCluster(n)
      PROVE  CollectInv'
  <2>1. /\ UNCHANGED <<served, objects, call, raw, nodes, kinds, gathered, missed>>
        /\ changed' = changed \cup {n}
    BY <1>2 DEF ChangeCluster
  <2>2. PICK l \in Labels : label' = [label EXCEPT ![n] = l]
    BY <1>2 DEF ChangeCluster
  <2>3. label' \in [Names -> Labels] /\ \A m \in Names \ {n} : label'[m] = label[m]
    BY <2>2
  <2> QED BY <2>1, <2>3
<1>3. ASSUME NEW c \in StrictCalls, Raise(c)
      PROVE  CollectInv'
  BY <1>3 DEF Raise
<1>4. CASE GetVersion
  BY <1>4 DEF GetVersion, RawNodes
<1>5. CASE GetRawNodes
  BY <1>5 DEF GetRawNodes, RawNodes
<1>6. CASE GetNodes
  BY <1>6 DEF GetNodes
<1>7. CASE CollectRest \/ GetConfigMaps \/ CollectInventory
  BY <1>7 DEF CollectRest, GetConfigMaps, CollectInventory
<1>8. CASE ListApiResourceKinds
  BY <1>8 DEF ListApiResourceKinds
<1>9. CASE GetResources
  <2>1. Targets \subseteq served => objects \cap Targets = objects
    <3>1. CASE kinds = {}
      BY <3>1 DEF Targets
    <3>2. CASE kinds = {served}
      <4>1. UNION kinds = served BY <3>2
      <4> QED BY <3>2, <4>1 DEF Targets
    <3> QED BY <3>1, <3>2
  <2> QED BY <1>9, <2>1 DEF GetResources
<1>10. CASE GetHelmReleases
  BY <1>10 DEF GetHelmReleases
<1> QED
  BY <1>1, <1>2, <1>3, <1>4, <1>5, <1>6, <1>7, <1>8, <1>9, <1>10 DEF Next

(* What the run knows of the nodes that stayed as they were is true.       *)
THEOREM CollectInvariance == Spec => []CollectInv
BY InitCollect, CollectStep, PTL DEF Spec

(* However the rest of the cluster churns, a node that stayed as it was is *)
(* in exactly one of the two lists that build_upgrade_plan takes its steps *)
(* from, the one read from the cache and the one read anew.                *)
THEOREM StableNodesHaveOneStep == Spec => []StableNodesPlannedOnce
<1>1. CollectInv => StableNodesPlannedOnce
  <2> SUFFICES ASSUME CollectInv, call = "judge", NEW n \in Names \ changed
               PROVE  label[n] # "absent" <=> Planned(n)
    BY DEF StableNodesPlannedOnce
  <2>1. PICK reading \in [Names -> Labels] : raw = {reading}
    BY DEF CollectInv, WithRaw
  <2>2. /\ reading[n] = label[n] /\ label[n] \in Labels
        /\ nodes[n] = RoleOf(label[n])
    BY <2>1 DEF CollectInv, WithNodes, WithRaw
  <2>3. n \in cp_nodes <=> is_control_plane_node(label[n])
    BY <2>1, <2>2 DEF cp_nodes
  <2>4. n \in worker_nodes <=> RoleOf(label[n]) = "WORKER"
    BY <2>2 DEF worker_nodes
  <2> QED
    BY <2>2, <2>3, <2>4 DEF Planned, RoleOf, is_control_plane_node, Labels
<1> QED BY <1>1, CollectInvariance, PTL

(* A scan of the live objects that did not fail has found every kind.      *)
THEOREM ScanFindsAll == Spec => []ScanIsCompleteOrMissed
<1>1. CollectInv => ScanIsCompleteOrMissed
  BY DEF CollectInv, ScanIsCompleteOrMissed
<1> QED BY <1>1, CollectInvariance, PTL
=============================================================================
