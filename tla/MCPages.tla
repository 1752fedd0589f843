------------------------------ MODULE MCPages ------------------------------
(***************************************************************************)
(* Three routes, of which a fourth trip serves one again; ticks of 15      *)
(* seconds; a day that is looked at before noon, in the afternoon, and on  *)
(* both sides of midnight.                                                 *)
(***************************************************************************)
EXTENDS Pages

At(day, h, m) == day * Day + h * Hour + m * Minute

ConstRoutes == {"r1", "r2", "r3"}
ConstTrips == {"t1", "t2", "t3", "t4"}
ConstArrival ==
  LET Of(r, m, l, k) == [route |-> r, due |-> At(0, 23, 50) + m, live |-> l, track |-> k] IN
  ("t1" :> Of("r1", 0, TRUE, TRUE)) @@ ("t2" :> Of("r2", 7, TRUE, FALSE))
  @@ ("t3" :> Of("r3", 90, FALSE, FALSE)) @@ ("t4" :> Of("r1", 200, TRUE, TRUE))
ConstMinute == 4
ConstClock == {At(0, 11, 30), At(0, 23, 50), At(1, 0, 5), At(1, 11, 30)}
ConstDues ==
  {At(0, 0, 5), At(0, 11, 35), At(0, 22, 30) + 1, At(0, 23, 58), At(1, 0, 3), At(1, 0, 7) + 3, At(1, 1, 10),
   At(1, 10, 45), At(1, 12, 0)}
ConstDelays == {-9, -8, -7, -4, 0, 3, 4, 5, 7, 8, 9, 300}
=============================================================================
