--------------------------- MODULE MCLiveSnapshot ---------------------------
(* Live checkpointing on small instances.                                   *)
EXTENDS LiveSnapshot, TLC

ThreadSymmetry == Permutations(VCPUS) \union Permutations(WRITERS)

=============================================================================
