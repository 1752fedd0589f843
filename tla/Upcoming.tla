------------------------------ MODULE Upcoming -------------------------------
(***************************************************************************)
(* The rules of the "upcoming buses at a stop" view                        *)
(* (server/services/upcoming.py): which scheduled buses are shown, when    *)
(* they are due, and where their vehicles are.  The definitions have the   *)
(* names of the functions they translate.                                  *)
(*                                                                         *)
(* Time is in units of the model, counted from the start of day 0: a       *)
(* service day d starts at d * Day (in Austin, and all days are equally    *)
(* long: the two days a year that are not are left out).                   *)
(***************************************************************************)
EXTENDS Integers, SequencesExt, Lists

CONSTANTS
  Day,                  \* the length of a day
  ScheduleLookback,     \* SCHEDULE_LOOKBACK_SECONDS
  WindowPast,           \* WINDOW_PAST_SECONDS
  WindowAhead,          \* WINDOW_AHEAD_SECONDS
  MaxArrivals,          \* MAX_ARRIVALS
  Arriving,             \* ARRIVING_SECONDS
  ArrivingNextStop,     \* ARRIVING_NEXT_STOP_SECONDS
  ArrivingGrace,        \* ARRIVING_GRACE_SECONDS
  TrackMaxStops,        \* TRACK_MAX_STOPS
  TrackHeadStops,       \* TRACK_HEAD_STOPS
  None                  \* Python's None, or a field the feed leaves out

ASSUME UpcomingAssumption ==
  /\ Day \in Nat \ {0}
  /\ {ScheduleLookback, WindowPast, WindowAhead, Arriving, ArrivingNextStop,
      ArrivingGrace} \subseteq Nat
  /\ ScheduleLookback + WindowAhead < Day
  /\ MaxArrivals \in Nat \ {0}
  /\ TrackHeadStops \in Nat
  /\ TrackMaxStops \in Nat
  /\ TrackHeadStops + 2 <= TrackMaxStops
  /\ None \notin Int

to_epoch(date, t) == date * Day + t

local_today(now) == now \div Day

seconds_into_service_day(date, now) == now - date * Day

\* gtfs_seconds(format_gtfs_time(t)): a time before the day is its start.
format_gtfs_time(t) == IF t < 0 THEN 0 ELSE t

(***************************************************************************)
(* A trip update is the sequence of its stop time updates: the stop they   *)
(* are for, given by its sequence number or else by its id, and the time   *)
(* they predict (None when the stop is skipped or has no time).            *)
(* event_time(find_stop_time_update(update, seq, stop)):                   *)
(***************************************************************************)
\* Mutant: matched by the stop alone.
predictionByStop(update, seq, stop) ==
  LET i == SelectInSeq(update, LAMBDA stu : stu.stop = stop)
  IN IF i = 0 THEN None ELSE update[i].time
prediction(update, seq, stop) ==
  LET For(stu) == IF stu.seq # None THEN stu.seq = seq ELSE stu.stop = stop
      i == SelectInSeq(update, For)
  IN IF i = 0 THEN None ELSE update[i].time

classify_status(now, effective, live, stops_away) ==
  LET left == effective - now IN
  IF ~live THEN "scheduled"
  ELSE IF left <= Arriving \/ (stops_away = 0 /\ left <= ArrivingNextStop) THEN "arriving"
  ELSE "en_route"

(***************************************************************************)
(* The arrival of a schedule row, with the service date it runs on, or     *)
(* None: its vehicle is past the stop, it is outside the window, or it is  *)
(* due already and nothing is known of it but the schedule.                *)
(*                                                                         *)
(* A row is one visit of a trip to the stop; live[trip] has the trip's     *)
(* update and the stop its vehicle is at or heads for, None without one.   *)
(***************************************************************************)
build_arrival(row, date, live, now) ==
  LET scheduled == to_epoch(date, row.time)
      predicted == prediction(live[row.trip].update, row.seq, row.stop)
      vehicle   == live[row.trip].vehicle
      away      == IF vehicle = None THEN None ELSE row.seq - vehicle
      effective == IF predicted # None THEN predicted ELSE scheduled
      known     == predicted # None \/ vehicle # None
      overdue   == effective < now - WindowPast
  IN IF \/ away # None /\ away < 0
        \/ effective > now + WindowAhead
        \/ overdue /\ (~known \/ effective < now - ArrivingGrace)
     THEN None
     ELSE [trip |-> row.trip, seq |-> row.seq, date |-> date,
           scheduled |-> scheduled, predicted |-> predicted,
           effective |-> effective, vehicle |-> vehicle, stops_away |-> away,
           status |-> IF overdue THEN "arriving"
                      ELSE classify_status(now, effective, known, away)]

(***************************************************************************)
(* The stops from the vehicle's to the rider's, with the time of each: its *)
(* own prediction, or the schedule shifted by a delay that is carried      *)
(* along from stop to stop, starting with the first that is known.         *)
(***************************************************************************)
\* The first stop a delay is known of, 0 without one.
first_known(segment, update) ==
  SelectInSeq(segment, LAMBDA st : prediction(update, st.seq, st.stop) # None)

\* Mutant: one delay for all stops.
trackTimesOneDelay(segment, date, update) ==
  LET first == first_known(segment, update)
      delay == IF first = 0 THEN 0
               ELSE prediction(update, segment[first].seq, segment[first].stop)
                      - to_epoch(date, segment[first].time)
  IN [i \in DOMAIN segment |-> to_epoch(date, segment[i].time) + delay]
trackTimes(segment, date, update) ==
  LET scheduled(i) == to_epoch(date, segment[i].time)
      predicted(i) == prediction(update, segment[i].seq, segment[i].stop)
      first == first_known(segment, update)
      delay[i \in 0..Len(segment)] ==
        IF i = 0 THEN IF first = 0 THEN 0 ELSE predicted(first) - scheduled(first)
        ELSE IF predicted(i) # None THEN predicted(i) - scheduled(i)
        ELSE delay[i - 1]
  IN [i \in DOMAIN segment |-> scheduled(i) + delay[i]]

\* Mutant: the stop at the end counts as hidden.
build_track_counts_itself(stops, date, vehicle, target, update) ==
  LET segment == Keep(stops, {i \in DOMAIN stops :
                                vehicle <= stops[i].seq /\ stops[i].seq <= target})
      at == trackTimes(segment, date, update)
      all == [i \in DOMAIN segment |->
                [seq |-> segment[i].seq, at |-> at[i],
                 is_vehicle_here |-> segment[i].seq = vehicle, hidden_before |-> 0]]
      n == Len(all)
      head == SubSeq(all, 1, TrackHeadStops + 1)
  IN IF n > TrackMaxStops
     THEN Append(head, [all[n] EXCEPT !.hidden_before = n - Len(head)])
     ELSE all
build_track(stops, date, vehicle, target, update) ==
  LET segment == Keep(stops, {i \in DOMAIN stops :
                                vehicle <= stops[i].seq /\ stops[i].seq <= target})
      at == trackTimes(segment, date, update)
      all == [i \in DOMAIN segment |->
                [seq |-> segment[i].seq, at |-> at[i],
                 is_vehicle_here |-> segment[i].seq = vehicle, hidden_before |-> 0]]
      n == Len(all)
      head == SubSeq(all, 1, TrackHeadStops + 1)
  IN IF n > TrackMaxStops
     THEN Append(head, [all[n] EXCEPT !.hidden_before = n - Len(head) - 1])
     ELSE all

(***************************************************************************)
(* The selections that sorting by due time, then scheduled time, and       *)
(* cutting after MaxArrivals may lead to: rows that tie on both come in    *)
(* the order of the database, which is not defined.                        *)
(***************************************************************************)
Before(a, b) ==
  \/ a.effective < b.effective
  \/ a.effective = b.effective /\ a.scheduled < b.scheduled

\* Mutant: nothing is cut.
select_arrivals_uncapped(candidates) == {candidates}
select_arrivals(candidates) ==
  {S \in SUBSET candidates :
     /\ IF Cardinality(candidates) <= MaxArrivals THEN S = candidates
        ELSE Cardinality(S) = MaxArrivals
     /\ \A a \in S, b \in candidates \ S : ~Before(b, a)}

=============================================================================
