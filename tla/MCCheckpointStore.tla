-------------------------- MODULE MCCheckpointStore --------------------------
(***************************************************************************)
(* Small instances of CheckpointStore for TLC; the bounds are in the .cfg   *)
(* files.                                                                  *)
(***************************************************************************)
EXTENDS CheckpointStore

=============================================================================
