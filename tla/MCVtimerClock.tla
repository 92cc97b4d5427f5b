---------------------------- MODULE MCVtimerClock ----------------------------
(* The shared counter on small instances. vCPUs are interchangeable, and so *)
(* are steppers: symmetry is used for the safety properties only.           *)
EXTENDS VtimerClock, TLC

ThreadSymmetry == Permutations(VCPUS) \union Permutations(STEPPERS)

=============================================================================
