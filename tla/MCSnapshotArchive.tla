-------------------------- MODULE MCSnapshotArchive --------------------------
(***************************************************************************)
(* Instances of SnapshotArchive for TLC.                                   *)
(***************************************************************************)
EXTENDS SnapshotArchive, TLC

Interchangeable == Permutations(Analyses)
=============================================================================
