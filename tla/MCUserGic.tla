------------------------------ MODULE MCUserGic ------------------------------
(* The interrupt controller on one vCPU and on two. *)
EXTENDS UserGic

=============================================================================
