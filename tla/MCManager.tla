----------------------------- MODULE MCManager -----------------------------
(***************************************************************************)
(* Values of the constants of Manager for TLC.                             *)
(***************************************************************************)
EXTENDS Manager, TLC

MCNames == Pods \X FailureTypes

\* detect.DiagnosisName without hash collisions.
MCName == [k \in Pods \X FailureTypes |-> k]

Symmetry == Permutations(Replicas) \cup Permutations(FailureTypes) \cup Permutations(Fingerprints)

=============================================================================
