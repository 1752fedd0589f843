--------------------------- MODULE ArrivalService ---------------------------
(***************************************************************************)
(* GET /api/stops/{stop}/upcoming (ArrivalService.get_upcoming in          *)
(* server/services/arrival_service.py, over the query of gtfs_service.py   *)
(* and the rules of module Upcoming).                                      *)
(*                                                                         *)
(* A request takes the time first, then waits for the database and for     *)
(* the two feeds, and computes its answer for the time it took: meanwhile  *)
(* the time goes on, past midnight perhaps, and the buses report.  The     *)
(* timetable does not change while the service runs: it is in the image.   *)
(***************************************************************************)
EXTENDS Upcoming, FiniteSets

CONSTANTS
  Trips,
  Stops,
  Here,         \* the stop that is asked about
  Timetables,   \* the timetables the model starts with
  Reports(_),   \* what the feeds may say of a trip, given its timetable
  StartTime,    \* the time the model starts
  MaxTime,      \* bound of the model: the clock stops here
  MaxWait       \* the longest a request waits for its data

\* A trip: its stop_times in the order of stop_sequence, and the dates it runs.
Trip == [stops : Seq([seq : Int, stop : Stops, time : Nat]), days : SUBSET Int]

\* What the feeds say of a trip: its update, and the stop its vehicle is at.
TripReport ==
  [update : Seq([seq : Int \cup {None}, stop : Stops \cup {None}, time : Int \cup {None}]),
   vehicle : Int \cup {None}]

Status == {"scheduled", "arriving", "en_route"}

Arrival ==
  [trip : Trips, seq : Int, date : Int, scheduled : Int, predicted : Int \cup {None},
   effective : Int, vehicle : Int \cup {None}, stops_away : Int \cup {None},
   status : Status]

\* A stop sequence is there once in a trip, and no trip goes on until the last
\* half hour of the next day (GTFS times stay below 47:30:00).
ASSUME ArrivalServiceAssumption ==
  /\ StartTime \in Nat /\ MaxTime \in Nat /\ MaxWait \in Nat
  /\ StartTime <= MaxTime
  /\ IsFiniteSet(Trips) /\ None \notin Arrival
  /\ \A tt \in Timetables : \A t \in Trips :
       /\ tt[t] \in Trip
       /\ \A i \in DOMAIN tt[t].stops : tt[t].stops[i].time < 2 * Day - ScheduleLookback
       /\ \A i, j \in DOMAIN tt[t].stops : i < j => tt[t].stops[i].seq < tt[t].stops[j].seq
       /\ Reports(tt[t]) \subseteq TripReport

VARIABLES
  now,          \* the time
  timetable,    \* stop_times, trips and calendar_dates
  live,         \* the feeds: [update, vehicle] of each trip
  asked,        \* the time the pending request took, None without one
  response      \* the response as it is sent, None at other times

vars == <<now, timetable, live, asked, response>>

Nothing == [update |-> <<>>, vehicle |-> None]

Init ==
  /\ now = StartTime
  /\ timetable \in Timetables
  /\ live = [t \in Trips |-> Nothing]
  /\ asked = None
  /\ response = None

\* The visits of trips to the stop.
Rows ==
  UNION {{[trip |-> t, seq |-> st.seq, stop |-> st.stop, time |-> st.time] :
            st \in {x \in ToSet(timetable[t].stops) : x.stop = Here}} : t \in Trips}

\* get_stop_times_at_stop_in_window, without its LIMIT.
\* Mutant: the window has no end.
rows_from(date, start, end) ==
  {row \in Rows : date \in timetable[row.trip].days /\ start <= row.time}
rows_in_window(date, start, end) ==
  {row \in Rows : /\ date \in timetable[row.trip].days
                  /\ start <= row.time /\ row.time <= end}

\* The loop over yesterday's and today's service day.
\* Mutant: yesterday's service day is left out.
candidates_of_today(t, snapshot) ==
  LET date == local_today(t)
      offset == seconds_into_service_day(date, t)
  IN {build_arrival(row, date, snapshot, t) :
        row \in rows_in_window(date, format_gtfs_time(offset - ScheduleLookback),
                               format_gtfs_time(offset + WindowAhead))} \ {None}
candidates(t, snapshot) ==
  UNION {LET offset == seconds_into_service_day(date, t)
         IN {build_arrival(row, date, snapshot, t) :
               row \in rows_in_window(date, format_gtfs_time(offset - ScheduleLookback),
                                      format_gtfs_time(offset + WindowAhead))} \ {None} :
         date \in {local_today(t) - 1, local_today(t)}}

\* An arrival with its track, and its stops counted along the trip.
with_track(a, snapshot) ==
  LET stops == timetable[a.trip].stops
      between == {i \in DOMAIN stops : a.vehicle <= stops[i].seq /\ stops[i].seq < a.seq}
  IN IF a.vehicle = None THEN [arrival |-> a, track |-> <<>>]
     ELSE [arrival |-> [a EXCEPT !.stops_away = Cardinality(between)],
           track |-> build_track(stops, a.date, a.vehicle, a.seq,
                                 snapshot[a.trip].update)]

\* _next_scheduled: the first row of the first search that finds any.
earliest(date, rows) ==
  {to_epoch(date, row.time) : row \in {r \in rows : \A other \in rows : r.time <= other.time}}
\* Mutant: tomorrow is not looked at.
next_scheduled_today(t) ==
  LET today == local_today(t)
      later == rows_in_window(today, seconds_into_service_day(today, t) + WindowAhead,
                              10 * Day)
  IN IF later # {} THEN earliest(today, later) ELSE {None}
next_scheduled(t) ==
  LET today == local_today(t)
      later == rows_in_window(today, seconds_into_service_day(today, t) + WindowAhead,
                              10 * Day)
      tomorrow == rows_in_window(today + 1, 0, 10 * Day)
  IN CASE later # {} -> earliest(today, later)
       [] later = {} /\ tomorrow # {} -> earliest(today + 1, tomorrow)
       [] OTHER -> {None}

\* A request comes in; it takes the time.
Receive ==
  /\ asked = None
  /\ asked' = now
  /\ response' = None
  /\ UNCHANGED <<now, timetable, live>>

(***************************************************************************)
(* The request has the feeds, or has been told that one is not available   *)
(* (get_snapshot then has neither), and reads the rows.  The rest of       *)
(* get_upcoming depends on nothing that can change.  The arrivals are a    *)
(* set: select_arrivals says which are in it, and the order they are sent  *)
(* in is left out.  So is the error for a stop that does not exist.        *)
(***************************************************************************)
Answer(available) ==
  LET snapshot == IF available THEN live ELSE [t \in Trips |-> Nothing] IN
  /\ asked # None
  /\ \E selected \in select_arrivals(candidates(asked, snapshot)) :
     \E next \in IF selected = {} THEN next_scheduled(asked) ELSE {None} :
       response' = [generated_at |-> asked,
                    realtime_available |-> available,
                    snapshot |-> snapshot,
                    arrivals |-> {with_track(a, snapshot) : a \in selected},
                    next_scheduled |-> next]
  /\ asked' = None
  /\ UNCHANGED <<now, timetable, live>>

\* The feeds say something new of a trip.
Report(t) ==
  /\ \E report \in Reports(timetable[t]) : live' = [live EXCEPT ![t] = report]
  /\ response' = None
  /\ UNCHANGED <<now, timetable, asked>>

Tick ==
  /\ now < MaxTime
  /\ asked # None => now < asked + MaxWait
  /\ now' = now + 1
  /\ response' = None
  /\ UNCHANGED <<timetable, live, asked>>

Next ==
  \/ Receive
  \/ \E available \in BOOLEAN : Answer(available)
  \/ \E t \in Trips : Report(t)
  \/ Tick

Spec == Init /\ [][Next]_vars

-----------------------------------------------------------------------------
(* Properties *)

\* Every variable holds a value of its kind; no arrival is left without its
\* status and times.
TypeOK ==
  /\ now \in StartTime..MaxTime
  /\ timetable \in Timetables
  /\ \A t \in Trips : live[t] = Nothing \/ live[t] \in Reports(timetable[t])
  /\ asked \in {None} \cup StartTime..MaxTime
  /\ asked # None => now \in asked..(asked + MaxWait)
  /\ response # None =>
       /\ response.generated_at \in StartTime..MaxTime
       /\ now \in response.generated_at..(response.generated_at + MaxWait)
       /\ Cardinality(response.arrivals) <= MaxArrivals
       /\ \A x \in response.arrivals : x.arrival \in Arrival
       /\ response.next_scheduled \in {None} \cup Int

\* When the bus of a row is due, as far as the snapshot of the response knows.
DueAt(row, date) ==
  LET p == prediction(response.snapshot[row.trip].update, row.seq, row.stop)
  IN IF p = None THEN to_epoch(date, row.time) ELSE p

\* The vehicle of a row is known to be past the stop.
Passed(row) ==
  LET vehicle == response.snapshot[row.trip].vehicle
  IN vehicle # None /\ vehicle > row.seq

IsListed(row) ==
  \E x \in response.arrivals : x.arrival.trip = row.trip /\ x.arrival.seq = row.seq

\* The list is full of buses that are due no later.
FullBefore(due) ==
  /\ Cardinality(response.arrivals) = MaxArrivals
  /\ \A x \in response.arrivals : x.arrival.effective <= due

\* A bus on the list is due in the window that starts when the answer is sent,
\* or overdue by no more than a request waits and a bus is kept.
StillDue(a) ==
  /\ a.effective <= now + WindowAhead
  /\ \/ now - MaxWait - WindowPast <= a.effective
     \/ /\ a.predicted # None \/ a.vehicle # None
        /\ now - MaxWait - ArrivingGrace <= a.effective

(***************************************************************************)
(* A bus that is due in the window and has not passed is listed under its  *)
(* service date, or the list is full of buses that are due no later: IF    *)
(* the service day has begun and the timetable has the bus between the     *)
(* lookback and the end of the window.  These are the rows the two queries *)
(* read, with text windows cut off at 00:00:00 that have to cover the hour *)
(* across midnight between them; a bus that is predicted to come that much *)
(* before or after its scheduled time is not among them.  Conversely, when *)
(* the answer is sent, all the buses on it are still to come or just gone, *)
(* although the time that decided it was taken before the waits.           *)
(***************************************************************************)
DueBusesShown ==
  response # None =>
    LET t == response.generated_at IN
    /\ \A row \in Rows : \A date \in {d \in timetable[row.trip].days : d <= local_today(t)} :
         (/\ t - ScheduleLookback <= to_epoch(date, row.time)
          /\ to_epoch(date, row.time) <= t + WindowAhead
          /\ t - WindowPast <= DueAt(row, date) /\ DueAt(row, date) <= t + WindowAhead
          /\ ~Passed(row)) =>
            \/ \E x \in response.arrivals :
                 x.arrival.trip = row.trip /\ x.arrival.seq = row.seq /\ x.arrival.date = date
            \/ FullBefore(DueAt(row, date))
    /\ \A x \in response.arrivals : StillDue(x.arrival)

(***************************************************************************)
(* "Buses due at a stop in the next hour" (arrival_service.py, line 99):   *)
(* all of them, whatever day the timetable has them on and however early   *)
(* or late they are predicted.  Not so in the hour before midnight, for    *)
(* one: the loop looks at yesterday's and today's service day alone.       *)
(***************************************************************************)
AllDueBusesShown ==
  response # None =>
    \A row \in Rows : \A date \in timetable[row.trip].days :
      (/\ response.generated_at <= DueAt(row, date)
       /\ DueAt(row, date) <= response.generated_at + WindowAhead
       /\ ~Passed(row)) => IsListed(row) \/ FullBefore(DueAt(row, date))

\* The prediction of an arrival is the time of a part of its trip's update that
\* names this visit, by its sequence or, without one, by the stop.
OwnPrediction(a) ==
  \E stu \in ToSet(response.snapshot[a.trip].update) :
    /\ stu.time = a.predicted
    /\ stu.seq = a.seq \/ (stu.seq = None /\ stu.stop = Here)

\* A visit of a trip to the stop is listed once, with a prediction of its own: a
\* trip that runs every day has one update and one vehicle, and rows of two
\* service days to match them with, and a loop trip has two visits in one update.
OneEntryPerVisit ==
  response # None =>
    /\ \A x, y \in response.arrivals :
         (x.arrival.trip = y.arrival.trip /\ x.arrival.seq = y.arrival.seq) => x = y
    /\ \A x \in response.arrivals : x.arrival.predicted # None => OwnPrediction(x.arrival)

\* stops_away, counted by get_upcoming, and the track of build_track are about
\* the same stops: those shown, those hidden, and the rider's stop at the end.
TrackMatchesCount ==
  response # None =>
    \A x \in response.arrivals : x.arrival.vehicle # None =>
      LET last == x.track[Len(x.track)] IN
      /\ Len(x.track) + last.hidden_before = x.arrival.stops_away + 1
      /\ Len(x.track) <= TrackMaxStops
      /\ last.seq = x.arrival.seq

(***************************************************************************)
(* The time at each stop of a track (docstring of build_track): its own    *)
(* prediction, else the schedule shifted by the delay of the latest stop   *)
(* of the track before it that has one, else of the first after it, else   *)
(* none.                                                                   *)
(***************************************************************************)
TrackTimes ==
  response # None =>
    \A x \in response.arrivals :
      LET a == x.arrival
          update == response.snapshot[a.trip].update
          segment == {st \in ToSet(timetable[a.trip].stops) :
                        a.vehicle <= st.seq /\ st.seq <= a.seq}
          scheduled(st) == to_epoch(a.date, st.time)
          known == {st \in segment : prediction(update, st.seq, st.stop) # None}
          delay(st) == prediction(update, st.seq, st.stop) - scheduled(st)
          before(st) == {k \in known : k.seq <= st.seq}
      IN a.vehicle # None =>
           \A i \in DOMAIN x.track : \E st \in segment :
             /\ st.seq = x.track[i].seq
             /\ \/ known = {} /\ x.track[i].at = scheduled(st)
                \/ \E k \in before(st) :
                     /\ \A j \in before(st) : j.seq <= k.seq
                     /\ x.track[i].at = scheduled(st) + delay(k)
                \/ /\ before(st) = {}
                   /\ \E k \in known :
                        /\ \A j \in known : k.seq <= j.seq
                        /\ x.track[i].at = scheduled(st) + delay(k)

\* The times at which a service day has a bus at the stop.
TimesOf(date) == {to_epoch(date, row.time) : row \in {r \in Rows : date \in timetable[r.trip].days}}

(***************************************************************************)
(* The bus that is told with an empty list is to come, and it is the first *)
(* of those scheduled after the window ("First scheduled bus after the     *)
(* window, today or tomorrow", arrival_service.py, line 157) as far as the *)
(* two searches go: yesterday's service day is not searched, though it may *)
(* still run, and tomorrow's is only when today's has nothing left, so     *)
(* that a bus of today's that comes after midnight is told before an       *)
(* earlier one of tomorrow's.  When no trip runs past midnight, neither    *)
(* exception arises.                                                       *)
(***************************************************************************)
NextIsFirst ==
  (response # None /\ response.arrivals = {}) =>
    LET t == response.generated_at
        today == local_today(t)
        told == response.next_scheduled
    IN /\ told # None => t <= told /\ told \in TimesOf(today) \cup TimesOf(today + 1)
       /\ \A s \in TimesOf(today) \cup TimesOf(today + 1) : t + WindowAhead <= s =>
            /\ told # None
            /\ told <= s \/ (told \in TimesOf(today) /\ to_epoch(today + 1, 0) <= told)

=============================================================================
