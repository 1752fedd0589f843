--------------------------- MODULE MCDataRelease ----------------------------
(* DataRelease on small instances. *)
EXTENDS DataRelease, TLC

ConstVersions == Runs \cup {FirstVersion}

Symmetry == Permutations(Runs) \cup Permutations(Requests)
=============================================================================
