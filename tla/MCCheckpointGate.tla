-------------------------- MODULE MCCheckpointGate --------------------------
(* The gate on small instances. vCPUs are interchangeable, and so are       *)
(* coordinators: symmetry is used for the invariants only.                  *)
EXTENDS CheckpointGate, TLC

ThreadSymmetry == Permutations(VCPUS) \union Permutations(COORDINATORS)

=============================================================================
