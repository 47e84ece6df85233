------------------------ MODULE MCSnapshotReplication ------------------------
(* SnapshotReplication for TLC: what the entities and values are called does *)
(* not matter.                                                               *)
EXTENDS SnapshotReplication, TLC

ReplicationSymmetry == Permutations(Entities) \cup Permutations(Values)
=============================================================================
