---------------------------- MODULE MCFeedCache -----------------------------
(* FeedCache on small instances. *)
EXTENDS FeedCache, TLC

Symmetry == Permutations(Requests)
=============================================================================
