------------------------------- MODULE Pages -------------------------------
(***************************************************************************)
(* The pages of a stop, a route and a trip in the client: the filter by    *)
(* route of a stop's page, the direction of a route's page, and the times  *)
(* that a route's and a trip's timeline make of the strings and instants   *)
(* the server answers.                                                     *)
(*                                                                         *)
(* One page is mounted at a time; its state goes when the page does and    *)
(* stays when only the parameters of the URL change.  A navigation is its  *)
(* commit; that of the direction's radio has a start, too, and another one *)
(* that starts meanwhile takes its place.  An instant is a number of       *)
(* ticks, Minute of them a minute, from a midnight on; a time of the       *)
(* timetable is written as ticks since the midnight of its service day,    *)
(* past 24:00 too, a prediction as ticks since the last midnight.  The     *)
(* server's clock is the device's here; what a page shows is what a render *)
(* at this instant shows.  Of a timeline one stop stands for all.          *)
(***************************************************************************)
EXTENDS Integers, SequencesExt, Lists

CONSTANTS
  Routes,
  Trips,
  Arrival,        \* [Trips -> the route, the instant it is due, live, a track]
  Minute,
  Clock,          \* the instants at which anything happens
  Dues,           \* instants at which buses are due
  Delays,         \* of a bus against its schedule, in ticks
  None

Hour == 60 * Minute
Day == 24 * Hour

Directions == {0, 1}

ASSUME PagesAssumption ==
  /\ Minute \in Nat \ {0}
  /\ Clock \subseteq Nat /\ Dues \subseteq Nat /\ Delays \subseteq Int
  /\ Arrival \in [Trips -> [route : Routes, due : Nat, live : BOOLEAN, track : BOOLEAN]]
  /\ IsFiniteSet(Trips)
  /\ None \notin Routes \cup Seq(Routes) /\ None \notin Trips /\ None \notin Nat

VARIABLES
  now,
  url,            \* page, route and direction; of a stop's page the search's
  routeFilter,    \* the stop's page: the routes to show, None for all
  expandedTripId,
  arrivals,       \* the stop's page: the answer shown, None before the first
  value,          \* the route's page: the direction that is checked
  toggle,         \* the direction that the radio's pending navigation is to
  overtaken,      \* history: it was overtaken and left its direction checked
  asked,          \* the route's page: date and time in the key of its query
  row,            \* the route's page: the row of a stop, None before an answer
  trip            \* the trip's page: a stop of the trip as it was loaded

direction == <<value, toggle, overtaken>>
vars == <<now, url, routeFilter, expandedTripId, arrivals, direction, asked, row, trip>>

Url == [page : {"stop", "trip"}, route : Routes \cup {None}, direction : Directions]
       \cup [page : {"route"}, route : Routes, direction : Directions]

ServiceSpan == 30 * Hour

StartOfDay(t) == t - (t % Day)

----------------------------------------------------------------------------
(* The stop's page. *)

routesOf(a) == IF a = None THEN {} ELSE {Arrival[t].route : t \in a}

routeIds == routesOf(arrivals)

\* The filter as far as it is among the arrivals; nothing left of it is all.
selectedRouteIds ==
  LET filtered == IF routeFilter = None THEN <<>>
                  ELSE Keep(routeFilter,
                            {i \in DOMAIN routeFilter : routeFilter[i] \in routeIds})
  IN IF filtered # <<>> THEN filtered ELSE SetToSeq(routeIds)

setSelectedRouteIds(v) == routeFilter' = IF Len(v) >= Cardinality(routeIds) THEN None ELSE v

minutesUntil(t) == IF t < now THEN 0 ELSE (t - now) \div Minute

UpcomingRow(t) ==
  LET arrival == Arrival[t] IN
  [trip |-> t, route |-> arrival.route, live |-> arrival.live,
   countdown |-> minutesUntil(arrival.due),
   open |-> arrival.track /\ t = expandedTripId]

\* The rows of the list; with a filter only those of the routes it is given.
UpcomingList(ids) ==
  IF arrivals = None THEN {}
  ELSE {UpcomingRow(t) : t \in {s \in arrivals : ids = None \/ Contains(ids, Arrival[s].route)}}

\* Mutant: the list takes the filter as it was set.
StopMenuRaw == UpcomingList(routeFilter)

StopMenu == UpcomingList(IF routeFilter = None THEN None ELSE selectedRouteIds)

\* The button of a route, given what is selected, of n routes.
\* Mutant: a route among all of them is taken away as among some.
RoutesSelectorNoSolo(ids, n, r) ==
  IF Contains(ids, r) /\ Len(ids) > 1 THEN RemoveFirst(ids, r) ELSE Append(ids, r)

RoutesSelector(ids, n, r) ==
  CASE Len(ids) = n -> <<r>>
    [] Len(ids) # n /\ Contains(ids, r) /\ Len(ids) > 1 -> RemoveFirst(ids, r)
    [] OTHER -> Append(ids, r)

----------------------------------------------------------------------------
(* The timelines. *)

\* The time that is written s, on the day of today or, when that is 13 whole
\* hours or more ago, on the next.
\* Mutant: always today.
parseArrivalTimeToday(s) == StartOfDay(now) + s

parseArrivalTime(s) ==
  LET t == StartOfDay(now) + s IN
  IF now - t >= 13 * Hour THEN t + Day ELSE t

\* How a row of the route's timeline tells the time.
TimeForm(diff) ==
  CASE diff <= -Minute -> "ago"
    [] diff > -Minute /\ diff < Minute -> "now"
    [] diff >= Minute /\ diff < 60 * Minute -> "minutes"
    [] OTHER -> "clock"

\* A row of the route's timeline: what the answer wrote of the two times.
RouteRow ==
  LET scheduled == parseArrivalTime(row.scheduled - StartOfDay(row.asked))
      updated == parseArrivalTime(row.updated % Day)
      at == IF row.updated = None THEN scheduled ELSE updated
  IN [live |-> row.updated # None, at |-> at, tells |-> TimeForm(at - now)]

\* dayjs's isBetween by the minute: its bounds are exclusive, the scheduled
\* minute is compared from its start and to its end.
\* Mutant: its bounds are inclusive.
isSameInclusive(scheduled, updated) ==
  /\ scheduled - (scheduled % Minute) >= updated - 2 * Minute
  /\ scheduled - (scheduled % Minute) + Minute - 1 <= updated + 2 * Minute

isSame(scheduled, updated) ==
  /\ scheduled - (scheduled % Minute) > updated - 2 * Minute
  /\ scheduled - (scheduled % Minute) + Minute - 1 < updated + 2 * Minute

Status(scheduled, updated) ==
  CASE updated = None -> "Scheduled"
    [] updated # None /\ isSame(scheduled, updated) -> "On time"
    [] OTHER -> IF updated < scheduled THEN "Early" ELSE "Delayed"

\* A row of the trip's timeline; the update is the one that was loaded with
\* the page, what the page polls is thrown away.
TripRow ==
  LET scheduled == parseArrivalTime(trip.scheduled - trip.day) IN
  [status |-> Status(scheduled, trip.updated),
   time |-> IF trip.updated = None THEN scheduled ELSE trip.updated]

----------------------------------------------------------------------------
(* Where the links of a page lead. *)

StopRoutes == [page : {"route"}, route : Routes, direction : {0}]

ArrivalTrack == [page : {"trip"}, route : routeIds, direction : Directions]

RouteLinks ==
  [page : {"stop", "trip"}, route : {url.route}, direction : {url.direction}]

\* A stop of the trip keeps the route the trip was opened from; the route is
\* the trip's own.
TripLinks ==
  [page : {"stop"}, route : {url.route}, direction : {url.direction}]
  \cup [page : {"route"}, route : Routes, direction : Directions]

Links ==
  CASE url.page = "stop" -> StopRoutes \cup ArrivalTrack
    [] url.page = "route" -> RouteLinks
    [] url.page = "trip" -> TripLinks

----------------------------------------------------------------------------
Stays(u) == url.page = u.page

\* Mutant: a missing parameter is a route, too.
StopMenuStateAlways(u) ==
  IF u.page = "stop" /\ Stays(u)
  THEN UNCHANGED <<routeFilter, expandedTripId, arrivals>>
  ELSE /\ routeFilter' = IF u.page = "stop" THEN <<u.route>> ELSE None
       /\ expandedTripId' = None
       /\ arrivals' = None

\* The state that a stop's page begins with.
StopMenuState(u) ==
  IF u.page = "stop" /\ Stays(u)
  THEN UNCHANGED <<routeFilter, expandedTripId, arrivals>>
  ELSE /\ routeFilter' = IF u.page = "stop" /\ u.route # None THEN <<u.route>> ELSE None
       /\ expandedTripId' = None
       /\ arrivals' = None

\* Mutant: the effect runs when the toggle is mounted.
DirectionToggleOnce(u) ==
  /\ value' = IF u.page # "route" THEN 0
              ELSE IF Stays(u) THEN value ELSE u.direction
  /\ overtaken' = (overtaken /\ u.page = "route" /\ Stays(u))

\* A new toggle has 0 checked; its effect runs when the direction of the URL is
\* another, and takes over any but 0.
DirectionToggle(u) ==
  LET checked == IF Stays(u) THEN value ELSE 0
      takesOver == u.direction # 0 /\ (Stays(u) => u.direction # url.direction)
  IN /\ value' = IF u.page # "route" THEN 0 ELSE IF takesOver THEN u.direction ELSE checked
     /\ overtaken' = (overtaken /\ u.page = "route" /\ Stays(u) /\ ~takesOver)

RouteStopsTimeline(u) ==
  /\ asked' = IF u.page = "route" THEN now ELSE None
  /\ row' = IF u.page = "route" /\ Stays(u) THEN row ELSE None

\* Another trip is loaded before its page shows anything; a trip that only
\* gets another search stays.
TripMenu(u) == trip' = IF u.page = "trip" /\ Stays(u) THEN trip ELSE None

Show(u) ==
  /\ url' = u /\ toggle' = None
  /\ StopMenuState(u) /\ DirectionToggle(u) /\ RouteStopsTimeline(u) /\ TripMenu(u)
  /\ UNCHANGED now

Go(u) == toggle = None /\ Show(u)

FollowLink == \E u \in Links : Go(u)

\* The search box, the map, the history.
Open == \E u \in Url : Go(u)

\* A trip of today's service or of yesterday's, with what the update says.
tripLoader ==
  /\ url.page = "trip" /\ trip = None
  /\ \E due \in Dues, day \in {StartOfDay(now), StartOfDay(now) - Day} :
       /\ day >= 0 /\ due >= day /\ due - day < ServiceSpan
       /\ \E up \in {None} \cup {due + d : d \in Delays} :
            trip' = [day |-> day, scheduled |-> due, updated |-> up]
  /\ UNCHANGED <<now, url, routeFilter, expandedTripId, arrivals, direction, asked, row>>

ClickRoute(r) ==
  /\ url.page = "stop" /\ r \in routeIds /\ Cardinality(routeIds) > 1
  /\ setSelectedRouteIds(RoutesSelector(selectedRouteIds, Cardinality(routeIds), r))
  /\ UNCHANGED <<now, url, expandedTripId, arrivals, direction, asked, row, trip>>

\* Offered when not as many are selected as there are.
clearSelection ==
  /\ url.page = "stop" /\ Cardinality(routeIds) > 1
  /\ Len(selectedRouteIds) # Cardinality(routeIds)
  /\ setSelectedRouteIds(SetToSeq(routeIds))
  /\ UNCHANGED <<now, url, expandedTripId, arrivals, direction, asked, row, trip>>

\* A row without a track is disabled.
Toggle(t) ==
  /\ url.page = "stop" /\ Arrival[t].track
  /\ \E r \in StopMenu : r.trip = t
  /\ expandedTripId' = IF expandedTripId = t THEN None ELSE t
  /\ UNCHANGED <<now, url, routeFilter, arrivals, direction, asked, row, trip>>

\* The answer of useUpcoming, for this stop or refreshed.
Refresh(a) ==
  /\ url.page = "stop"
  /\ arrivals' = a
  /\ UNCHANGED <<now, url, routeFilter, expandedTripId, direction, asked, row, trip>>

\* The radio checks its direction at once and starts a navigation that replaces
\* the URL when the loader of the route's page is done ...
setDirection(d) ==
  /\ url.page = "route" /\ d # value
  /\ value' = d /\ toggle' = d /\ overtaken' = FALSE
  /\ UNCHANGED <<now, url, routeFilter, expandedTripId, arrivals, asked, row, trip>>

RouteLoaded == toggle # None /\ Show([url EXCEPT !.direction = toggle])

\* ... unless another navigation, of the box, the map or the history, starts before.
Overtaken ==
  /\ toggle # None /\ toggle' = None
  /\ overtaken' = (value # url.direction)
  /\ UNCHANGED <<now, url, routeFilter, expandedTripId, arrivals, value, asked, row, trip>>

\* A render at another minute is another query; the row stays meanwhile.
Render ==
  /\ url.page = "route" /\ asked # now
  /\ asked' = now
  /\ UNCHANGED <<now, url, routeFilter, expandedTripId, arrivals, direction, row, trip>>

\* get_earliest_arrival_times_on_route: the first bus of the service day that
\* was asked for, from the time that was asked for, and the first prediction
\* that is not past.
Answer ==
  /\ url.page = "route"
  /\ \E due \in Dues :
       /\ due >= asked /\ due - StartOfDay(asked) < ServiceSpan
       /\ \E up \in {None} \cup {u \in Dues : u >= now} :
            row' = [asked |-> asked, scheduled |-> due, updated |-> up]
  /\ UNCHANGED <<now, url, routeFilter, expandedTripId, arrivals, direction, asked, trip>>

Tick ==
  /\ \E t \in Clock :
       /\ t > now /\ \A s \in Clock : s > now => t <= s
       /\ now' = t
  /\ UNCHANGED <<url, routeFilter, expandedTripId, arrivals, direction, asked, row, trip>>

----------------------------------------------------------------------------
Init ==
  /\ now \in Clock /\ \A t \in Clock : now <= t
  /\ url = [page |-> "stop", route |-> None, direction |-> 0]
  /\ routeFilter = None /\ expandedTripId = None /\ arrivals = None
  /\ value = 0 /\ toggle = None /\ overtaken = FALSE /\ asked = None /\ row = None /\ trip = None

Next ==
  \/ FollowLink \/ Open
  \/ \E r \in Routes : ClickRoute(r)
  \/ clearSelection
  \/ \E t \in Trips : Toggle(t)
  \/ \E a \in SUBSET Trips : Refresh(a)
  \/ (\E d \in Directions : setDirection(d)) \/ RouteLoaded \/ Overtaken
  \/ Render \/ Answer \/ tripLoader \/ Tick

Spec == Init /\ [][Next]_vars

----------------------------------------------------------------------------
\* Types of the variables.
TypeOK ==
  /\ now \in Clock /\ url \in Url
  /\ routeFilter \in Seq(Routes) \cup {None}
  /\ expandedTripId \in Trips \cup {None}
  /\ arrivals \in (SUBSET Trips) \cup {None}
  /\ value \in Directions /\ toggle \in Directions \cup {None} /\ overtaken \in BOOLEAN
  /\ asked \in Clock \cup {None}
  /\ row \in [asked : Clock, scheduled : Dues, updated : Dues \cup {None}] \cup {None}
  /\ trip \in [day : Nat, scheduled : Dues, updated : Int \cup {None}] \cup {None}

\* On the stop's page the routes whose buttons are pressed are those of the
\* rows in the list, whatever has come and gone with the answers since the
\* filter was set (StopMenu 66-76, 188, UpcomingList 43-47): a filter of which
\* nothing is left counts as none for both, so that its message "No buses on
\* the selected routes" never stands over buses that are due.
PressedIsShown ==
  url.page = "stop" /\ routeIds # {} =>
    /\ StopMenu # {}
    /\ {r.route : r \in StopMenu} = ToSet(selectedRouteIds)

\* The routes that are pressed after a click on r.
Pressed(ids, r) ==
  CASE ToSet(ids) = routeIds -> {r}
    [] ToSet(ids) # routeIds /\ r \notin ToSet(ids) -> ToSet(ids) \cup {r}
    [] OTHER -> IF ToSet(ids) = {r} THEN {r} ELSE ToSet(ids) \ {r}

\* A click on a route that is not pressed presses it and releases none; one on
\* a route when all are pressed leaves it alone; one on a route that is
\* pressed with some others releases it (RoutesSelector 51-70).  As long as
\* the list of the selected has no route twice: a second click on the only
\* one that is pressed adds it again.
SelectorAnswers ==
  [][\A r \in Routes :
       /\ url.page = "stop" /\ UNCHANGED <<url, arrivals>>
       /\ ClickRoute(r)
       /\ IsInjective(selectedRouteIds)
       /\ selectedRouteIds # <<r>>
       => ToSet(selectedRouteIds') = Pressed(selectedRouteIds, r)]_vars

\* A row of the route's timeline shows the instant the server meant, though it
\* got a time of day: a prediction up to 11 hours ahead, past midnight too, of
\* this day or the next, and a time of the timetable, past 24:00 too, as long
\* as the day it was asked on lasts (parseArrivalTime in dateUtils.ts,
\* RouteStopsTimeline 76-83).  An answer that is still shown after midnight
\* and a prediction of yesterday are read wrongly.
RowTimeIsTrue ==
  url.page = "route" /\ row # None =>
    /\ row.updated # None /\ row.updated >= StartOfDay(now) /\ row.updated - now <= 11 * Hour
       /\ now - row.updated < 13 * Hour
       => RouteRow.at = row.updated /\ (row.updated >= now => RouteRow.tells # "ago")
    /\ row.updated = None /\ StartOfDay(row.asked) = StartOfDay(now)
       /\ now - row.scheduled < 13 * Hour
       => RouteRow.at = row.scheduled

\* A bus within a minute of its schedule is on time on the trip's timeline,
\* one that is two or more off is not, and then the sign is right
\* (TripTimeline 97-120), on the day of the trip's service and less than 13
\* hours after it: the bounds compare minutes on one side, instants on the
\* other, and the schedule came as a time of day.
StatusIsFair ==
  /\ url.page = "trip" /\ trip # None /\ trip.updated # None
  /\ StartOfDay(now) = trip.day /\ now - trip.scheduled < 13 * Hour
  => LET late == trip.updated - trip.scheduled IN
     /\ late \in (-Minute) .. Minute => TripRow.status = "On time"
     /\ late >= 2 * Minute => TripRow.status = "Delayed"
     /\ late <= -(2 * Minute) => TripRow.status = "Early"

\* The direction that is checked is the URL's when the page of a route opens,
\* when the radio's navigation is done, and in direction 1 also however the map,
\* the search box and the history have changed the URL (DirectionToggle 26-38),
\* but for the time that the radio's navigation is pending and, when it was
\* overtaken, until the direction of the URL is 1 again or the radio is used.
\* Not in direction 0: another route's page that opens there leaves 1 checked.
DirectionShown ==
  [][url'.page = "route"
     /\ \/ url.page # "route" \/ RouteLoaded
        \/ url'.direction = 1 /\ toggle' = None /\ ~overtaken'
     => value' = url'.direction]_vars
=============================================================================
