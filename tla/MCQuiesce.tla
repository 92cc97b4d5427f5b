----------------------------- MODULE MCQuiesce -----------------------------
(* The pause latch on small instances. Writers are interchangeable.         *)
EXTENDS Quiesce, TLC

WriterSymmetry == Permutations(WRITERS)

=============================================================================
