---------------------------- MODULE MCLeaderLock ----------------------------
(* Finite instances of LeaderLock; the .cfg files choose replicas and bounds. *)
EXTENDS LeaderLock

CONSTANTS r1, r2

OneReplica  == {r1}
TwoReplicas == {r1, r2}
=============================================================================
