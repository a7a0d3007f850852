---------------------------- MODULE MCNodeRental ----------------------------
(* NodeRental with interchangeable nodes. *)
EXTENDS NodeRental, TLC

Symmetric == Permutations(Node)
=============================================================================
