------------------------------ MODULE MCNearby ------------------------------
(* Two stops four apart; the rider is at the first, halfway or past the second. *)
EXTENDS Nearby

CONSTANTS s1, s2

MCStopAt == [s \in Stops |-> IF s = s1 THEN 0 ELSE 4]

=============================================================================
