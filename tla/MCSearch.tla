----------------------------- MODULE MCSearch ------------------------------
(***************************************************************************)
(* Two stops and two routes; the term "All routes" finds the routes by a   *)
(* search of its own, "utx" a stop and a route, and the search for a label *)
(* finds what it is of alone and redirects, for one stop with a route.     *)
(***************************************************************************)
EXTENDS Search

ConstTerms == {"All routes", "utx"}
ConstSpecial == {"All routes"}
ConstResults ==
  [t \in Texts |->
     CASE t = "All routes" -> <<"r66", "r801">>
       [] t = "utx" -> <<"s1", "r66">>
       [] t = "s1" -> <<"s1", "r801">>
       [] t \in Things \ {"s1"} -> <<t>>
       [] OTHER -> <<>>]
=============================================================================
