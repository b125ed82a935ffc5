-------------------------- MODULE MCPodReconciler --------------------------
(***************************************************************************)
(* Values of the constants of PodReconciler for TLC.                       *)
(***************************************************************************)
EXTENDS PodReconciler, TLC

MCNames == Pods \X FailureTypes

\* detect.DiagnosisName without hash collisions.
MCName == [k \in Pods \X FailureTypes |-> k]

ReplicaSymmetry == Permutations(Replicas)

DataSymmetry == Permutations(FailureTypes) \cup Permutations(Fingerprints)

Symmetry == ReplicaSymmetry \cup DataSymmetry

=============================================================================
