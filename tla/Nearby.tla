------------------------------- MODULE Nearby -------------------------------
(***************************************************************************)
(* The Nearby screen of the client: the rider's position, the search for   *)
(* the nearest stop, the cached queries for the buses of a stop, and what  *)
(* the screen publishes to the map through two atoms: the buses to show    *)
(* with the one the rider picked (nearbyFocusAtom), and the stop to        *)
(* highlight (currentStopAtom).                                            *)
(*                                                                         *)
(* /nearby follows the rider, /nearby/stop/:id is pinned; both are the     *)
(* same mounted page.  An action is an input (a navigation, a position, an *)
(* answer, a tap) with the renders and effects it causes (Queries,         *)
(* Publish).  The framing of the camera, which nothing else reads, is left *)
(* out.  Positions lie on a line; the rider's and the server's clocks are  *)
(* the same, so the true clock offset is 0.                                *)
(***************************************************************************)
EXTENDS Integers

CONSTANTS
  Stops, Trips,
  Positions,       \* where the rider can be
  StopAt,          \* [Stops -> Int]: where the stops are
  Radius,          \* NEARBY_RADIUS_METERS and WIDE_RADIUS_METERS
  WideRadius,
  Reselect,        \* RESELECT_DISTANCE_METERS
  MaxAge,          \* how old an answer may be when it comes (EdgeCache!HitAge)
  MaxTime,         \* bound of the clock
  None,
  Away, Follow     \* the pages other than a pinned stop

Data == [stop : Stops, trips : SUBSET Trips, generatedAt : 0..MaxTime]
NearbyFocus == [stop : Stops, trips : SUBSET Trips, selected : Trips \cup {None}]

ASSUME NearbyAssumption ==
  /\ Positions \subseteq Int /\ StopAt \in [Stops -> Int]
  /\ {Radius, WideRadius, Reselect, MaxAge, MaxTime} \subseteq Nat
  /\ None \notin Stops \cup Trips \cup Positions
  /\ None \notin Data /\ None \notin NearbyFocus
  /\ Away # Follow /\ {Away, Follow} \cap (Stops \cup {None}) = {}

VARIABLES
  page,       \* Away, Follow or the pinned stop
  position,   \* geolocation.position
  anchor,     \* where the nearest stop was last searched from
  wide,       \* "Show the closest" was tapped
  found,      \* state of the search from the anchor
  cached,     \* per stop, the data of its query
  err,        \* per stop, whether its query is in error
  fetching,   \* the present stop's query is being fetched
  previous,   \* what was shown when the stop changed, while it may be shown again
  clockOffset,
  focus,      \* nearbyFocusAtom: the stop, its buses on the map, the picked one
  current,    \* currentStopAtom: the stop highlighted on the map
  chosen,     \* history: whether setStop wrote that atom last
  now

search == <<page, position, anchor, wide, found>>
queries == <<cached, err, fetching>>
shownState == <<previous, clockOffset>>
map == <<focus, current, chosen>>
vars == <<search, queries, shownState, map, now>>

----------------------------------------------------------------------------
Distance(a, b) == IF a > b THEN a - b ELSE b - a

\* The stops in reach of an anchor, and the closest of them.
InReach(a, w) ==
  {s \in Stops : Distance(a, StopAt[s]) <= IF w THEN WideRadius ELSE Radius}

Closest ==
  [w \in BOOLEAN |-> [a \in Positions |->
     IF InReach(a, w) = {} THEN None
     ELSE CHOOSE s \in InReach(a, w) :
            \A r \in InReach(a, w) : Distance(a, StopAt[s]) <= Distance(a, StopAt[r])]]

\* useNearestStop: nothing while the search is under way or has failed.
isLoading == anchor # None /\ found = "searching"

nearest == IF anchor # None /\ found = "answered" THEN Closest[wide][anchor] ELSE None

stopId == CASE page = Away   -> None
            [] page = Follow -> nearest
            [] OTHER         -> page

\* The query's result: the stop's data; without any, what was shown before
\* (keepPreviousData), unless the query is in error.
InError == stopId # None /\ err[stopId]

HasData == stopId # None /\ cached[stopId] # None

data == IF HasData THEN cached[stopId]
        ELSE IF InError THEN None ELSE previous

isSuccess == data # None /\ ~InError

\* The stop's buses, if they are what is shown.
arrivals == IF data # None /\ data.stop = stopId THEN data.trips ELSE {}

\* The rows are on screen: no message took their place.
ListVisible ==
  \/ page \in Stops
  \/ page = Follow /\ position # None /\ (nearest # None \/ isLoading)

----------------------------------------------------------------------------
\* A fetch of a query without data starts as if the query were new.
Loading(s) == IF cached[s] = None THEN [err EXCEPT ![s] = FALSE] ELSE err

\* Mutant: another stop waits for the next interval.
QueriesLazy == cached' = cached /\ UNCHANGED err /\ fetching' = (fetching /\ stopId' = stopId)

\* Another stop: the fetch for the old one is aborted, the new one is
\* fetched at once, whatever its cache holds.
Queries ==
  /\ cached' = cached
  /\ IF stopId' = stopId THEN UNCHANGED <<err, fetching>>
     ELSE /\ fetching' = (stopId' # None)
          /\ err' = IF stopId' = None THEN err ELSE Loading(stopId')

\* Mutants: the pick is kept whatever the list has; a refresh drops it.
KeptSelectionUnlisted ==
  IF focus # None /\ focus.stop = stopId' THEN focus.selected ELSE None
KeptSelectionNone == None

KeptSelection ==
  IF focus # None /\ focus.stop = stopId' /\ focus.selected \in arrivals'
  THEN focus.selected ELSE None

Focus(trips) == [stop |-> stopId', trips |-> trips, selected |-> KeptSelection]

EffectRuns == page' # Away /\ <<stopId, data, position>>' # <<stopId, data, position>>

\* Mutants: the effect does not look whose data it has; the highlight is kept
\* once there is one.
SyncMapFocusOfData ==
  IF EffectRuns /\ stopId' # None
  THEN focus' = Focus(IF data' = None THEN {} ELSE data'.trips) /\ UNCHANGED <<current, chosen>>
  ELSE UNCHANGED <<focus, current, chosen>>

SyncMapFocusKeepsHighlight ==
  IF EffectRuns /\ stopId' # None
  THEN /\ focus' = Focus(arrivals')
       /\ current' = IF current = None /\ data' # None THEN stopId' ELSE current
       /\ chosen' = FALSE
  ELSE UNCHANGED <<focus, current, chosen>>

\* useSyncMapFocus: its effect, and its cleanup when the page is left.
SyncMapFocus ==
  IF page' = Away THEN focus' = None /\ current' = None /\ chosen' = FALSE
  ELSE IF stopId' = None \/ ~EffectRuns THEN UNCHANGED <<focus, current, chosen>>
  ELSE /\ focus' = Focus(arrivals')
       /\ IF data' # None /\ data'.stop = stopId'
          THEN current' = stopId' /\ chosen' = FALSE
          ELSE UNCHANGED <<current, chosen>>

\* Mutant: the offset is set from the first data only.
SetClockOnce ==
  clockOffset' = IF page' = Away THEN 0
                 ELSE IF data' # None /\ data = None THEN data'.generatedAt - now
                 ELSE clockOffset

\* useUpcoming's effect on its data.
SetClock ==
  clockOffset' = IF page' = Away THEN 0
                 ELSE IF data' # None /\ data' # data THEN data'.generatedAt - now
                 ELSE clockOffset

\* What follows every change of the search and the queries.
Publish ==
  /\ previous' = IF page' = Away \/ HasData' THEN None
                 ELSE IF stopId' = stopId THEN previous
                 ELSE IF isSuccess THEN data ELSE None
  /\ SetClock
  /\ SyncMapFocus

Refresh == Queries /\ Publish /\ UNCHANGED now

----------------------------------------------------------------------------
Init ==
  /\ page = Away /\ position = None /\ anchor = None /\ wide = FALSE
  /\ found = "searching"
  /\ cached = [s \in Stops |-> None] /\ err = [s \in Stops |-> FALSE]
  /\ fetching = FALSE /\ previous = None /\ clockOffset = 0
  /\ focus = None /\ current = None /\ chosen = FALSE
  /\ now = 0

\* Another search: its answer may be cached from before.
NewSearch == found' \in {"searching", "answered"}

\* The rider opens a page, by a link, a tab, or the number of a stop.
Navigate(p) ==
  /\ page # p /\ page' = p
  /\ IF p = Away THEN position' = None /\ anchor' = None /\ wide' = FALSE /\ found' = "searching"
     ELSE UNCHANGED <<position, anchor, wide, found>>
  /\ Refresh

\* watchPosition calls back; a pinned page has no watch.
Locate(p) ==
  /\ page = Follow /\ p # position /\ position' = p
  /\ IF anchor = None \/ Distance(anchor, p) > Reselect
     THEN anchor' = p /\ NewSearch
     ELSE UNCHANGED <<anchor, found>>
  /\ UNCHANGED <<page, wide>>
  /\ Refresh

\* Permission withdrawn: the position goes, the anchor of the search stays.
Denied ==
  /\ page = Follow /\ position # None /\ position' = None
  /\ UNCHANGED <<page, anchor, wide, found>>
  /\ Refresh

\* "Show the closest", under "No stops within a 5-minute walk".
Widen ==
  /\ page = Follow /\ position # None /\ nearest = None /\ ~isLoading /\ ~wide
  /\ wide' = TRUE /\ NewSearch
  /\ UNCHANGED <<page, position, anchor>>
  /\ Refresh

NearestAnswered ==
  /\ isLoading /\ found' = "answered"
  /\ UNCHANGED <<page, position, anchor, wide>>
  /\ Refresh

\* The search fails after its retries; a later refetch starts it again.
NearestFailed ==
  /\ isLoading /\ found' = "failed"
  /\ UNCHANGED <<page, position, anchor, wide>>
  /\ Refresh

NearestRetried ==
  /\ found = "failed" /\ found' = "searching"
  /\ UNCHANGED <<page, position, anchor, wide>>
  /\ Refresh

----------------------------------------------------------------------------
\* The 15 s interval, or the window that gets the focus back.
Poll ==
  /\ stopId # None /\ ~fetching /\ fetching' = TRUE
  /\ err' = Loading(stopId)
  /\ UNCHANGED <<search, cached, now>> /\ Publish

\* A fetch ends with an answer that was made at t.
Answered(trips, t) ==
  /\ fetching /\ fetching' = FALSE
  /\ cached' = [cached EXCEPT
       ![stopId] = [stop |-> stopId, trips |-> trips, generatedAt |-> t]]
  /\ err' = [err EXCEPT ![stopId] = FALSE]
  /\ UNCHANGED <<search, now>> /\ Publish

\* ... or fails, after the retries it has.
Failed ==
  /\ fetching /\ fetching' = FALSE
  /\ err' = [err EXCEPT ![stopId] = TRUE]
  /\ UNCHANGED <<search, cached, now>> /\ Publish

\* react-query drops the queries that nobody observes.
Collect ==
  /\ cached' = [s \in Stops |-> IF s = stopId THEN cached[s] ELSE None]
  /\ err' = [s \in Stops |-> s = stopId /\ err[s]]
  /\ UNCHANGED <<search, fetching, shownState, map, now>>

\* The rider taps a row: toggleTrip.
Toggle(t) ==
  /\ ListVisible /\ data # None /\ t \in data.trips /\ focus # None
  /\ focus' = [focus EXCEPT !.selected = IF @ = t THEN None ELSE t]
  /\ UNCHANGED <<current, chosen>>
  /\ UNCHANGED <<search, queries, shownState, now>>

\* The rider taps a bus on the map: selectNearbyVehicle.
SelectVehicle(t) ==
  /\ focus # None /\ t \in focus.trips
  /\ focus' = [focus EXCEPT !.selected = t]
  /\ UNCHANGED <<current, chosen>>
  /\ UNCHANGED <<search, queries, shownState, now>>

\* A component with useCurrentStop mounts (the stop layer when the map has
\* loaded): its effect sets the stop of the route, and Nearby's has none.
ClearStop ==
  /\ page # Away /\ current # None /\ current' = None /\ chosen' = FALSE
  /\ UNCHANGED <<focus, search, queries, shownState, now>>

\* The rider picks a stop on the map or in the box of a desktop: setStop writes
\* the atom and starts a navigation to the stop's page, which is a later
\* Navigate(Away), or nothing when another navigation overtakes it.  On the pages
\* other than Nearby it leaves an atom to come back to in the same way.
setStop(s) ==
  /\ current # s /\ current' = s /\ chosen' = TRUE
  /\ UNCHANGED <<focus, search, queries, shownState, now>>

Tick == now < MaxTime /\ now' = now + 1 /\ UNCHANGED <<search, queries, shownState, map>>

FetchEnds ==
  \/ \E trips \in SUBSET Trips, t \in 0..MaxTime :
       /\ now - MaxAge <= t /\ t <= now
       /\ Answered(trips, t)
  \/ Failed

Next ==
  \/ \E p \in Stops \cup {Away, Follow} : Navigate(p)
  \/ \E p \in Positions : Locate(p)
  \/ Denied \/ Widen
  \/ NearestAnswered \/ NearestFailed \/ NearestRetried
  \/ Poll \/ FetchEnds \/ Collect
  \/ \E t \in Trips : Toggle(t) \/ SelectVehicle(t)
  \/ ClearStop \/ (\E s \in Stops : setStop(s)) \/ Tick

Spec == Init /\ [][Next]_vars

\* An HTTP request ends, with an answer or an error; nothing else is owed.
FairSpec == Spec /\ WF_vars(FetchEnds)

----------------------------------------------------------------------------
Position == Positions \cup {None}

\* The types of the state; in particular no buses are kept under the name of
\* another stop's query.
TypeOK ==
  /\ page \in Stops \cup {Away, Follow}
  /\ position \in Position /\ anchor \in Position /\ wide \in BOOLEAN
  /\ found \in {"searching", "answered", "failed"}
  /\ cached \in [Stops -> Data \cup {None}]
  /\ \A s \in Stops : cached[s] # None => cached[s].stop = s
  /\ err \in [Stops -> BOOLEAN] /\ fetching \in BOOLEAN
  /\ previous \in Data \cup {None} /\ clockOffset \in -MaxTime..0
  /\ focus \in NearbyFocus \cup {None}
  /\ current \in Stops \cup {None} /\ chosen \in BOOLEAN
  /\ now \in 0..MaxTime

\* Once the screen has a stop, the map shows the buses of that stop, those of
\* the list if the list is of that stop and none otherwise: buses of the stop
\* before never stay on the map beside the name of the new one, and a bus
\* dropped from the list is dropped from the map.
MapShowsTheStop ==
  stopId # None =>
    /\ focus # None /\ focus.stop = stopId
    /\ focus.trips = arrivals

\* The picked bus is always one the list shows, so there is a row to close;
\* also when it was picked in the list of the stop before, while the new one
\* loads.
SelectedIsListed ==
  stopId # None /\ focus.selected # None => data # None /\ focus.selected \in data.trips

\* The stop highlighted on the map is the stop of the list and its header,
\* also while the list is still that of the stop before; the exceptions are a
\* component that took the highlight away, and a stop that was picked on the map
\* or in the box since the effect last set it.  Such a pick is highlighted beside
\* the list while its page loads, and after that navigation was overtaken until
\* the effect runs with data of the stop again.
HighlightIsListed ==
  data # None => chosen \/ current \in {None, data.stop}

\* "keeping the rider's expanded row across refreshes": while the screen
\* stays at its stop, a pick of one of the stop's buses is undone only by the
\* rider or by a list without that bus.
SelectionKept ==
  [][ (/\ stopId # None /\ stopId' = stopId
       /\ focus.selected \in arrivals \cap arrivals'
       /\ ~\E t \in Trips : Toggle(t) \/ SelectVehicle(t))
      => focus'.selected = focus.selected ]_vars

\* The list of another stop does not stay: the new stop's buses, an error or
\* a further stop replace it.  Changing the stop must start a fetch for it.
ListOfAnotherStop(s) == stopId = s /\ data # None /\ data.stop # s

OldListGoes ==
  \A s \in Stops : ListOfAnotherStop(s) ~> ~ListOfAnotherStop(s)

\* An answer sets the clock right, also one that changes nothing because it is
\* the answer that was there before: after it the offset is off by no more than
\* the age an answer may have.
AnswerSetsClock ==
  [][fetching /\ ~fetching' /\ stopId' = stopId /\ ~InError' => clockOffset' >= -MaxAge]_vars

=============================================================================
