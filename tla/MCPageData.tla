---------------------------- MODULE MCPageData ----------------------------
(* Two buses that swap their routes from one version of the feed to the next, and
   one without an id. *)
EXTENDS PageData

CONSTANTS r1, r2, b1, b2, b3

MCBusRoute ==
  [v \in Versions |-> IF v % 2 = 1 THEN [b \in Buses |-> IF b = b2 THEN r2 ELSE r1]
                      ELSE [b \in Buses |-> IF b = b1 THEN r2 ELSE r1]]

=============================================================================
