------------------------------ MODULE MCDaemon ------------------------------
(* The daemon with a few connections. *)
EXTENDS Daemon

=============================================================================
