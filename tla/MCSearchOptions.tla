-------------------------- MODULE MCSearchOptions --------------------------
(***************************************************************************)
(* "utx" finds the route and the stop, "nil" nothing, and a label what it  *)
(* is of.                                                                  *)
(***************************************************************************)
EXTENDS SearchOptions

ConstTerms == {"utx", "nil"}
ConstResults ==
  [t \in Texts |->
     CASE t = "utx" -> <<"s1", "r66">> [] t \in Things -> <<t>> [] OTHER -> <<>>]
=============================================================================
