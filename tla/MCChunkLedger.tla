--------------------------- MODULE MCChunkLedger ---------------------------
(* ChunkLedger on small instances, for TLC. *)
EXTENDS ChunkLedger, TLC

\* Nodes are interchangeable, and so are run slots.
Symmetry == Permutations(Node) \cup Permutations(Run)
=============================================================================
