---------------------------- MODULE MCEdgeCache -----------------------------
(* EdgeCache on a small instance. *)
EXTENDS EdgeCache, TLC

Symmetry == Permutations(Requests)
=============================================================================
