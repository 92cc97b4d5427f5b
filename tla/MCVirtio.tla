------------------------------ MODULE MCVirtio ------------------------------
(* A device with short queues: requests from two vCPUs, packets from one or *)
(* from two. *)
EXTENDS Virtio

MCSize == [q \in ALLQUEUES |-> IF q = "req" THEN 2 ELSE 1]
MCWrap == [q \in ALLQUEUES |-> IF q = "req" THEN 4 ELSE 2]
MCUsers == [k \in KINDS |-> IF k = "net" THEN {"c1"} ELSE CPUS]

MCLongTx == [q \in ALLQUEUES |-> IF q = "rx" THEN 1 ELSE 2]
MCLongWrap == [q \in ALLQUEUES |-> IF q = "rx" THEN 2 ELSE 4]
MCAllUsers == [k \in KINDS |-> CPUS]
=============================================================================
