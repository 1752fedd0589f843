-------------------------- MODULE MCArrivalService --------------------------
(***************************************************************************)
(* ArrivalService on a small instance: a loop trip that visits the stop    *)
(* twice and runs every day, and a trip that runs on one day.              *)
(***************************************************************************)
EXTENDS ArrivalService

CONSTANTS A, B, Loop, Simple

LoopTrip(start) ==
  [stops |-> <<[seq |-> 1, stop |-> A, time |-> start],
               [seq |-> 2, stop |-> Here, time |-> start],
               [seq |-> 4, stop |-> B, time |-> start + 1],
               [seq |-> 5, stop |-> Here, time |-> start + 2]>>,
   days |-> 0..3]

SimpleTrip(start, day) ==
  [stops |-> <<[seq |-> 1, stop |-> A, time |-> start],
               [seq |-> 2, stop |-> Here, time |-> start + 1]>>,
   days |-> {day}]

CONSTANTS LoopStarts, SimpleStarts, SimpleDays

MCTimetables ==
  {(Loop :> LoopTrip(s)) @@ (Simple :> SimpleTrip(u, d)) :
     s \in LoopStarts, u \in SimpleStarts, d \in SimpleDays}

\* Reports of a trip on a date: no prediction, or one or two stops with a
\* delay, given by sequence or by stop id, and a vehicle.
CONSTANT ReportDates

Predict(st, date, delay, bySeq) ==
  [seq |-> IF bySeq THEN st.seq ELSE None, stop |-> st.stop,
   time |-> to_epoch(date, st.time) + delay]

MCReports(trip) ==
  LET n == Len(trip.stops)
      updates == UNION {
        {<<>>,
         <<Predict(trip.stops[2], d, 2, FALSE)>>,
         <<Predict(trip.stops[1], d, 1, TRUE), Predict(trip.stops[n], d, 3, TRUE)>>,
         <<[seq |-> trip.stops[2].seq, stop |-> Here, time |-> None],
           Predict(trip.stops[n], d, 0, TRUE)>>} : d \in ReportDates \cap trip.days}
      vehicles == {None} \cup {trip.stops[i].seq : i \in 1..(n - 1)}
  IN {[update |-> u, vehicle |-> v] : u \in updates, v \in vehicles}
=============================================================================
