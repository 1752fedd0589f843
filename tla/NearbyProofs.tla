---------------------------- MODULE NearbyProofs ----------------------------
(***************************************************************************)
(* Proofs about the Nearby screen, for any stops, buses, positions and     *)
(* distances.  Publish is shared by most actions, so one lemma shows that  *)
(* it restores the inductive invariant after any change of the search and  *)
(* the queries; the actions only show what they do to these two.           *)
(***************************************************************************)
EXTENDS Nearby, WellFoundedInduction, TLAPS

SearchOK ==
  /\ page \in Stops \cup {Away, Follow}
  /\ position \in Position /\ anchor \in Position /\ wide \in BOOLEAN
  /\ found \in {"searching", "answered", "failed"}
  /\ page = Away => anchor = None

QueriesOK ==
  /\ cached \in [Stops -> Data \cup {None}]
  /\ \A s \in Stops : cached[s] # None => cached[s].stop = s /\ cached[s].generatedAt <= now
  /\ err \in [Stops -> BOOLEAN] /\ fetching \in BOOLEAN
  /\ fetching => stopId # None

ShownOK ==
  /\ previous \in Data \cup {None} /\ clockOffset \in -MaxTime..0
  /\ previous # None => previous.generatedAt <= now

MapOK ==
  /\ focus \in NearbyFocus \cup {None}
  /\ current \in Stops \cup {None} /\ chosen \in BOOLEAN

\* Leaving the page leaves no list behind.
LeftOK == page = Away => previous = None /\ focus = None

\* The list of the stop before that would come back when a failed query is
\* fetched again is still the highlighted one's, unless a stop was picked.
BehindOK == previous # None => ~HasData /\ (chosen \/ current \in {None, previous.stop})

\* The clock offset is no older than the data that is shown.
ClockOK == data # None => clockOffset >= data.generatedAt - now

IInv ==
  /\ SearchOK /\ QueriesOK /\ ShownOK /\ MapOK /\ now \in 0..MaxTime
  /\ LeftOK /\ BehindOK /\ ClockOK
  /\ MapShowsTheStop /\ SelectedIsListed /\ HighlightIsListed

----------------------------------------------------------------------------
\* A set of numbers has a least one.
LEMMA LeastExists ==
  ASSUME NEW S \in SUBSET Nat, S # {}
  PROVE  \E x \in S : \A y \in S : x <= y
<1>1. \E x \in S : \A y \in S : <<y, x>> \notin OpToRel(<, Nat)
  BY NatLessThanWellFounded, WFMin, Zenon
<1>2. ASSUME NEW x \in S, NEW y \in S, <<y, x>> \notin OpToRel(<, Nat)
      PROVE  x <= y
  <2>1. ~(y < x)
    BY <1>2 DEF OpToRel
  <2> QED
    BY <2>1
<1> QED
  BY <1>1, <1>2

\* The closest stop of an anchor is a stop.
LEMMA ClosestIsAStop ==
  ASSUME NearbyAssumption, NEW a \in Positions, NEW w \in BOOLEAN
  PROVE  Closest[w][a] \in Stops \cup {None}
<1> DEFINE D == {Distance(a, StopAt[s]) : s \in InReach(a, w)}
<1>1. CASE InReach(a, w) = {}
  BY <1>1 DEF Closest
<1>2. CASE InReach(a, w) # {}
  <2>1. D \in SUBSET Nat /\ D # {}
    BY <1>2 DEF NearbyAssumption, InReach, Distance
  <2>2. \E x \in D : \A y \in D : x <= y
    BY <2>1, LeastExists
  <2>3. \E s \in InReach(a, w) : \A r \in InReach(a, w) :
           Distance(a, StopAt[s]) <= Distance(a, StopAt[r])
    BY <2>2
  <2>4. Closest[w][a] \in InReach(a, w)
    BY <1>2, <2>3 DEF Closest
  <2> QED
    BY <2>4 DEF InReach
<1> QED
  BY <1>1, <1>2

\* The stop of the screen is a stop or none.
LEMMA StopIdType ==
  ASSUME NearbyAssumption, SearchOK
  PROVE  stopId \in Stops \cup {None}
BY ClosestIsAStop DEF NearbyAssumption, SearchOK, stopId, nearest, Position

\* So it is after a step, and away from the page it is none.
LEMMA StopIdTypeNext ==
  ASSUME NearbyAssumption, SearchOK'
  PROVE  stopId' \in Stops \cup {None} /\ (page' = Away => stopId' = None)
BY ClosestIsAStop DEF NearbyAssumption, SearchOK, stopId, nearest, Position
----------------------------------------------------------------------------
\* What the screen shows after a step has its type and is not of the future;
\* the buses of its own stop are those of its data.
LEMMA DataNext ==
  ASSUME NearbyAssumption, SearchOK', QueriesOK', now' \in 0..MaxTime,
         previous' \in Data \cup {None},
         previous' # None => previous'.generatedAt <= now'
  PROVE  /\ data' \in Data \cup {None}
         /\ data' # None => data'.generatedAt <= now'
         /\ arrivals' \in SUBSET Trips
         /\ arrivals' # {} => data' # None /\ arrivals' = data'.trips
<1>1. stopId' \in Stops \cup {None}
  BY StopIdTypeNext
<1>2. data' \in Data \cup {None} /\ (data' # None => data'.generatedAt <= now')
  BY <1>1 DEF QueriesOK, data, HasData, InError
<1> QED
  BY <1>2 DEF arrivals, Data

\* The effects restore the invariant, whatever the search and the queries did.
LEMMA Published ==
  ASSUME NearbyAssumption, IInv, Publish, now' = now,
         SearchOK', QueriesOK'
  PROVE  IInv'
<1> USE DEF IInv
<1>1. /\ stopId \in Stops \cup {None} /\ stopId' \in Stops \cup {None}
      /\ page' = Away => stopId' = None
  BY StopIdType, StopIdTypeNext
<1>2. /\ data \in Data \cup {None}
      /\ data # None => data.generatedAt <= now
  BY <1>1 DEF QueriesOK, ShownOK, data, HasData, InError
<1>3. previous' \in Data \cup {None} /\ (previous' # None => previous'.generatedAt <= now')
  BY <1>2 DEF Publish, ShownOK
<1>4. now' \in 0..MaxTime
  OBVIOUS
<1>5. /\ data' \in Data \cup {None}
      /\ data' # None => data'.generatedAt <= now'
      /\ arrivals' \in SUBSET Trips
      /\ arrivals' # {} => data' # None /\ arrivals' = data'.trips
  BY <1>3, <1>4, DataNext
<1>6. ShownOK'
  <2>1. clockOffset' \in -MaxTime..0
    <3>1. CASE page' # Away /\ data' # None /\ data' # data
      BY <1>4, <1>5, <3>1 DEF Publish, SetClock, Data, NearbyAssumption
    <3>2. CASE ~(page' # Away /\ data' # None /\ data' # data)
      BY <3>2 DEF Publish, SetClock, ShownOK, NearbyAssumption
    <3> QED
      BY <3>1, <3>2
  <2> QED
    BY <1>3, <2>1 DEF ShownOK
<1>7. SyncMapFocus
  BY DEF Publish
<1>8. KeptSelection \in Trips \cup {None} /\ (KeptSelection # None => KeptSelection \in arrivals')
  BY <1>5 DEF KeptSelection, MapOK
\* The data shown is the stop's own, or what was left behind.
<1>9. data' # None /\ data'.stop # stopId' => data' = previous'
  BY <1>1 DEF data, HasData, QueriesOK
<1>10. /\ focus' \in NearbyFocus \cup {None}
       /\ current' \in Stops \cup {None}
  BY <1>1, <1>5, <1>7, <1>8 DEF SyncMapFocus, Focus, MapOK, NearbyFocus
<1>18. chosen' \in BOOLEAN
  BY <1>7 DEF SyncMapFocus, MapOK
<1>11. MapOK'
  BY <1>10, <1>18 DEF Publish, MapOK, NearbyFocus
<1>12. LeftOK'
  BY <1>7 DEF LeftOK, SyncMapFocus, Publish
<1>13. MapShowsTheStop' /\ SelectedIsListed'
  <2> SUFFICES ASSUME stopId' # None
               PROVE  /\ focus' # None /\ focus'.stop = stopId' /\ focus'.trips = arrivals'
                      /\ focus'.selected # None =>
                           data' # None /\ focus'.selected \in data'.trips
    BY DEF MapShowsTheStop, SelectedIsListed
  <2>1. page' # Away
    BY <1>1
  <2>2. CASE EffectRuns
    <3>1. focus' = Focus(arrivals')
      BY <1>7, <2>1, <2>2 DEF SyncMapFocus
    <3>2. focus' # None
      BY <1>1, <1>5, <1>8, <3>1 DEF Focus, NearbyFocus, NearbyAssumption
    <3> QED
      BY <1>5, <1>8, <3>1, <3>2 DEF Focus
  <2>3. CASE ~EffectRuns
    <3>1. stopId' = stopId /\ data' = data /\ focus' = focus
      BY <1>7, <2>1, <2>3 DEF SyncMapFocus, EffectRuns
    <3>2. arrivals' = arrivals
      BY <3>1 DEF arrivals
    <3> QED
      BY <3>1, <3>2 DEF MapShowsTheStop, SelectedIsListed
  <2> QED
    BY <2>2, <2>3
\* The highlight moves only to the stop whose data is shown.
<1>14. ClockOK'
  <2>1. data' # None => page' # Away
    BY <1>1 DEF data, HasData, InError, Publish
  <2>2. data' # None /\ data' # data => clockOffset' = data'.generatedAt - now
    BY <2>1 DEF Publish, SetClock
  <2>3. data' # None /\ data' = data => clockOffset' = clockOffset
    BY <2>1 DEF Publish, SetClock
  <2>4. data' # None => data'.generatedAt \in Int
    BY <1>5 DEF Data
  <2> QED
    BY <1>4, <2>2, <2>3, <2>4 DEF ClockOK
<1>15. \/ current' = current /\ chosen' = chosen
       \/ current' = None
       \/ data' # None /\ data'.stop = stopId' /\ current' = stopId' /\ stopId' # None
  BY <1>7 DEF SyncMapFocus
<1>16. BehindOK'
  <2> SUFFICES ASSUME previous' # None
               PROVE  ~HasData' /\ (chosen' \/ current' \in {None, previous'.stop})
    BY DEF BehindOK
  <2>1. ~HasData'
    BY DEF Publish
  <2>2. data' # None => data' = previous'
    BY <2>1 DEF data
  <2>3. chosen \/ current \in {None, previous'.stop}
    BY DEF Publish, HighlightIsListed, BehindOK
  <2> QED
    BY <1>15, <2>1, <2>2, <2>3
<1>17. HighlightIsListed'
  <2> SUFFICES ASSUME data' # None
               PROVE  chosen' \/ current' \in {None, data'.stop}
    BY DEF HighlightIsListed
  <2>1. CASE data'.stop = stopId'
    <3>1. page' # Away
      BY <1>1, <2>1, <1>5 DEF NearbyAssumption, Data
    <3>2. stopId' # None
      BY <1>1, <2>1, <1>5 DEF NearbyAssumption, Data
    <3>3. CASE EffectRuns
      BY <1>7, <2>1, <3>1, <3>2, <3>3 DEF SyncMapFocus
    <3>4. CASE ~EffectRuns
      BY <1>7, <3>1, <3>2, <3>4 DEF SyncMapFocus, EffectRuns, HighlightIsListed
    <3> QED
      BY <3>3, <3>4
  <2>2. CASE data'.stop # stopId'
    <3>1. data' = previous'
      BY <1>9, <2>2
    <3> QED
      BY <1>16, <3>1 DEF BehindOK
  <2> QED
    BY <2>1, <2>2
<1> QED
  BY <1>4, <1>6, <1>11, <1>12, <1>13, <1>14, <1>16, <1>17

----------------------------------------------------------------------------
\* An action on the search: the queries follow the stop.
LEMMA Refreshed ==
  ASSUME NearbyAssumption, IInv, Refresh, SearchOK'
  PROVE  IInv'
<1>1. stopId' \in Stops \cup {None}
  BY StopIdTypeNext
<1>2. now' = now
  BY DEF Refresh
<1>3. QueriesOK'
  BY <1>1, <1>2 DEF Refresh, Queries, Loading, IInv, QueriesOK
<1> QED
  BY <1>2, <1>3, Published DEF Refresh

\* What is derived from the search and the queries stays while they do.
LEMMA Unmoved ==
  ASSUME UNCHANGED <<search, queries, previous>>
  PROVE  stopId' = stopId /\ HasData' = HasData /\ data' = data /\ arrivals' = arrivals
BY DEF search, queries, stopId, nearest, HasData, data, InError, arrivals

\* A pick of the rider: of a bus that the list or the map shows.
LEMMA Picked ==
  ASSUME NearbyAssumption, IInv, NEW t \in Trips, Toggle(t) \/ SelectVehicle(t)
  PROVE  IInv'
<1> USE DEF IInv
<1>1. UNCHANGED <<search, queries, shownState, current, chosen, now>> /\ focus # None
  BY DEF Toggle, SelectVehicle
<1>2. stopId' = stopId /\ HasData' = HasData /\ data' = data /\ arrivals' = arrivals
  BY <1>1, Unmoved DEF shownState
<1>3. /\ focus' \in NearbyFocus
      /\ focus'.stop = focus.stop /\ focus'.trips = focus.trips
      /\ focus'.selected \in {None, t}
  BY DEF Toggle, SelectVehicle, MapOK, NearbyFocus
<1>4. SearchOK' /\ QueriesOK' /\ ShownOK'
  BY <1>1, <1>2 DEF search, queries, shownState, SearchOK, QueriesOK, ShownOK
<1>5. MapOK'
  BY <1>1, <1>3 DEF MapOK, NearbyFocus
<1>6. LeftOK' /\ BehindOK' /\ ClockOK'
  BY <1>1, <1>2 DEF search, shownState, LeftOK, BehindOK, ClockOK
<1>7. MapShowsTheStop'
  BY <1>2, <1>3 DEF MapShowsTheStop, NearbyAssumption
<1>8. SelectedIsListed'
  <2> SUFFICES ASSUME stopId # None, focus'.selected # None
               PROVE  data # None /\ t \in data.trips
    BY <1>2, <1>3 DEF SelectedIsListed
  <2>1. CASE Toggle(t)
    BY <2>1 DEF Toggle
  <2>2. CASE SelectVehicle(t)
    BY <2>2 DEF SelectVehicle, MapShowsTheStop, arrivals
  <2> QED
    BY <2>1, <2>2
<1>9. HighlightIsListed'
  BY <1>1, <1>2 DEF HighlightIsListed
<1> QED
  BY <1>1, <1>4, <1>5, <1>6, <1>7, <1>8, <1>9

----------------------------------------------------------------------------
\* Before the first visit of the page the screen is empty.
LEMMA InitHolds == ASSUME NearbyAssumption, Init PROVE IInv
<1>1. stopId = None /\ data = None /\ ~HasData
  BY DEF Init, stopId, data, HasData, InError
<1>2. SearchOK /\ MapOK /\ LeftOK /\ BehindOK
  BY <1>1 DEF Init, SearchOK, MapOK, LeftOK, BehindOK, Position, NearbyAssumption
<1>3. ShownOK /\ now \in 0..MaxTime
  BY DEF Init, ShownOK, NearbyAssumption
<1>4. QueriesOK
  BY <1>1 DEF Init, QueriesOK
<1>5. MapShowsTheStop /\ SelectedIsListed /\ HighlightIsListed /\ ClockOK
  BY <1>1 DEF ClockOK, MapShowsTheStop, SelectedIsListed, HighlightIsListed
<1> QED
  BY <1>2, <1>3, <1>4, <1>5 DEF IInv

\* Every action keeps the invariant.
LEMMA StepHolds == ASSUME NearbyAssumption, IInv, [Next]_vars PROVE IInv'
<1>1. ASSUME NEW p \in Stops \cup {Away, Follow}, Navigate(p)
      PROVE  IInv'
  <2>1. SearchOK'
    BY <1>1 DEF Navigate, IInv, SearchOK, Position
  <2> QED
    BY <1>1, <2>1, Refreshed DEF Navigate
<1>2. ASSUME NEW p \in Positions, Locate(p)
      PROVE  IInv'
  <2>1. SearchOK'
    BY <1>2 DEF Locate, IInv, SearchOK, Position, NewSearch, NearbyAssumption
  <2> QED
    BY <1>2, <2>1, Refreshed DEF Locate
<1>3. CASE Denied
  BY <1>3, Refreshed DEF Denied, IInv, SearchOK, Position
<1>4. CASE Widen
  BY <1>4, Refreshed DEF Widen, NewSearch, IInv, SearchOK, Position
<1>5. CASE NearestAnswered \/ NearestFailed \/ NearestRetried
  BY <1>5, Refreshed DEF NearestAnswered, NearestFailed, NearestRetried, IInv, SearchOK, Position
<1>6. CASE Poll
  <2>1. now' = now /\ SearchOK' /\ stopId' = stopId
    BY <1>6 DEF Poll, search, IInv, SearchOK, Position, stopId, nearest
  <2>2. QueriesOK'
    BY <1>6, <2>1 DEF Poll, Loading, IInv, QueriesOK
  <2> QED
    BY <1>6, <2>1, <2>2, Published DEF Poll
<1>7. CASE FetchEnds
  <2>1. now' = now /\ SearchOK' /\ stopId' = stopId /\ Publish
    BY <1>7 DEF FetchEnds, Answered, Failed, search, IInv, SearchOK, Position, stopId, nearest
  <2>2. stopId \in Stops
    BY <1>7, StopIdType DEF FetchEnds, Answered, Failed, IInv, QueriesOK
  <2>3. ASSUME NEW trips \in SUBSET Trips, NEW t \in 0..MaxTime, t <= now, Answered(trips, t)
        PROVE  QueriesOK'
    <3> DEFINE d == [stop |-> stopId, trips |-> trips, generatedAt |-> t]
    <3>1. d \in Data /\ d.stop = stopId /\ d.generatedAt <= now
      BY <2>2, <2>3 DEF Data
    <3> HIDE DEF d
    <3>2. cached' = [cached EXCEPT ![stopId] = d] /\ fetching' = FALSE
          /\ err' = [err EXCEPT ![stopId] = FALSE]
      BY <2>3 DEF Answered, d
    <3> QED
      BY <2>1, <2>2, <3>1, <3>2 DEF IInv, QueriesOK
  <2>4. ASSUME Failed PROVE QueriesOK'
    BY <2>1, <2>2, <2>4 DEF Failed, IInv, QueriesOK
  <2>5. QueriesOK'
    BY <1>7, <2>3, <2>4 DEF FetchEnds
  <2> QED
    BY <2>1, <2>5, Published
<1>8. CASE Collect
  <2>1. /\ UNCHANGED <<search, fetching, shownState, map, now>>
        /\ stopId' = stopId
    BY <1>8 DEF Collect, search, stopId, nearest
  <2>2. stopId \in Stops \cup {None}
    BY StopIdType DEF IInv
  <2>3. HasData' = HasData /\ data' = data /\ arrivals' = arrivals
    BY <1>8, <2>1, <2>2 DEF Collect, shownState, HasData, data, InError, arrivals, IInv, QueriesOK
  <2>4. QueriesOK'
    BY <1>8, <2>1 DEF Collect, IInv, QueriesOK
  <2> QED
    BY <2>1, <2>3, <2>4
       DEF IInv, search, shownState, map, SearchOK, Position, ShownOK, MapOK, LeftOK, BehindOK,
           ClockOK, MapShowsTheStop, SelectedIsListed, HighlightIsListed
<1>9. ASSUME NEW t \in Trips, Toggle(t) \/ SelectVehicle(t)
      PROVE  IInv'
  BY <1>9, Picked
<1>10. CASE ClearStop
  <2>1. /\ UNCHANGED <<search, queries, shownState, focus, now>>
        /\ current' = None /\ chosen' = FALSE
    BY <1>10 DEF ClearStop
  <2>3. MapOK'
    BY <1>10, <2>1 DEF ClearStop, IInv, MapOK
  <2>2. stopId' = stopId /\ HasData' = HasData /\ data' = data /\ arrivals' = arrivals
    BY <2>1, Unmoved DEF shownState
  <2> QED
    BY <2>1, <2>2, <2>3
       DEF IInv, search, queries, shownState, SearchOK, Position, QueriesOK, ShownOK,
           LeftOK, BehindOK, ClockOK, MapShowsTheStop, SelectedIsListed, HighlightIsListed
<1>12. ASSUME NEW s \in Stops, setStop(s)
       PROVE  IInv'
  <2>1. /\ UNCHANGED <<search, queries, shownState, focus, now>>
        /\ current' = s /\ chosen' = TRUE
    BY <1>12 DEF setStop
  <2>2. MapOK'
    BY <1>12, <2>1 DEF setStop, IInv, MapOK, NearbyFocus
  <2>3. stopId' = stopId /\ HasData' = HasData /\ data' = data /\ arrivals' = arrivals
    BY <2>1, Unmoved DEF shownState
  <2> QED
    BY <2>1, <2>2, <2>3
       DEF IInv, search, queries, shownState, SearchOK, Position, QueriesOK, ShownOK,
           LeftOK, BehindOK, ClockOK, MapShowsTheStop, SelectedIsListed, HighlightIsListed
<1>11. CASE Tick \/ UNCHANGED vars
  <2>1. /\ UNCHANGED <<search, queries, shownState, map>>
        /\ now' \in 0..MaxTime /\ now <= now'
    BY <1>11 DEF Tick, vars, IInv, NearbyAssumption
  <2>2. stopId' = stopId /\ HasData' = HasData /\ data' = data /\ arrivals' = arrivals
    BY <2>1, Unmoved DEF shownState
  <2>3. QueriesOK' /\ ShownOK'
    BY <2>1, <2>2 DEF IInv, queries, shownState, QueriesOK, ShownOK, Data, NearbyAssumption
  <2>4. ClockOK'
    <3>1. data # None => data.generatedAt \in Int
      BY StopIdType DEF IInv, QueriesOK, ShownOK, data, HasData, InError, Data
    <3> QED
      BY <2>1, <2>2, <3>1 DEF IInv, shownState, ClockOK, ShownOK, NearbyAssumption
  <2> QED
    BY <2>1, <2>2, <2>3, <2>4
       DEF IInv, search, shownState, map, SearchOK, Position, MapOK,
           LeftOK, BehindOK, MapShowsTheStop, SelectedIsListed, HighlightIsListed
<1> QED
  BY <1>1, <1>2, <1>3, <1>4, <1>5, <1>6, <1>7, <1>8, <1>9, <1>10, <1>11, <1>12 DEF Next

\* Every reachable state satisfies the inductive invariant.
THEOREM Invariance == Spec => []IInv
<1> USE NearbyAssumption
<1>1. Init => IInv
  BY InitHolds
<1>2. IInv /\ [Next]_vars => IInv'
  BY StepHolds
<1> QED
  BY <1>1, <1>2, PTL DEF Spec

\* The state keeps its types, and no buses are kept under another stop's name.
THEOREM TypeCorrect == Spec => []TypeOK
<1>1. IInv => TypeOK
  BY DEF IInv, SearchOK, QueriesOK, ShownOK, MapOK, TypeOK
<1> QED
  BY <1>1, Invariance, PTL

\* The map shows the buses of the stop on the screen and no others.
THEOREM MapIsOfTheStop == Spec => []MapShowsTheStop
<1>1. IInv => MapShowsTheStop
  BY DEF IInv
<1> QED
  BY <1>1, Invariance, PTL

\* The picked bus is one of those the list shows.
THEOREM PickIsListed == Spec => []SelectedIsListed
<1>1. IInv => SelectedIsListed
  BY DEF IInv
<1> QED
  BY <1>1, Invariance, PTL

\* The stop highlighted on the map is the stop of the list, unless a stop was
\* picked on the map or in the box since the page last set it.
THEOREM HighlightIsOfTheList == Spec => []HighlightIsListed
<1>1. IInv => HighlightIsListed
  BY DEF IInv
<1> QED
  BY <1>1, Invariance, PTL

----------------------------------------------------------------------------
\* The effect keeps a pick that both the old and the new list of the stop have.
LEMMA PickKept ==
  ASSUME NearbyAssumption, IInv, SyncMapFocus, SearchOK',
         stopId # None, stopId' = stopId, focus.selected \in arrivals'
  PROVE  focus'.selected = focus.selected
<1>1. page' # Away
  BY StopIdTypeNext
<1>2. focus # None /\ focus.stop = stopId'
  BY DEF IInv, MapShowsTheStop
<1>3. KeptSelection = focus.selected
  BY <1>2 DEF KeptSelection
<1> QED
  BY <1>1, <1>3 DEF SyncMapFocus, Focus

\* Refreshes of a stop, positions and failures do not undo a pick.
THEOREM PicksAreKept == Spec => SelectionKept
<1> USE NearbyAssumption
<1> DEFINE Kept ==
      (/\ stopId # None /\ stopId' = stopId
       /\ focus.selected \in arrivals \cap arrivals'
       /\ ~\E t \in Trips : Toggle(t) \/ SelectVehicle(t))
      => focus'.selected = focus.selected
<1>1. IInv /\ IInv' /\ [Next]_vars => [Kept]_vars
  <2> SUFFICES ASSUME IInv, IInv', Next, stopId # None, stopId' = stopId,
                      focus.selected \in arrivals',
                      ~\E t \in Trips : Toggle(t) \/ SelectVehicle(t)
               PROVE  focus'.selected = focus.selected
    BY DEF vars
  <2>1. SearchOK'
    BY DEF IInv
  <2>2. SyncMapFocus \/ UNCHANGED focus
    BY DEF Next, Navigate, Locate, Denied, Widen, NearestAnswered, NearestFailed,
           NearestRetried, Poll, FetchEnds, Answered, Failed, Collect, ClearStop, setStop,
           Tick, Refresh, Publish, map
  <2> QED
    BY <2>1, <2>2, PickKept
<1>2. Spec => [][Kept]_vars
  BY <1>1, Invariance, PTL DEF Spec
<1> QED
  BY <1>2 DEF SelectionKept

\* Whatever data the clock was set from before, an answer leaves it as good as
\* the age of answers allows.
THEOREM AnswersSetTheClock == Spec => AnswerSetsClock
<1> USE NearbyAssumption
<1> DEFINE Sets == fetching /\ ~fetching' /\ stopId' = stopId /\ ~InError' => clockOffset' >= -MaxAge
<1>1. IInv /\ IInv' /\ [Next]_vars => [Sets]_vars
  <2> SUFFICES ASSUME IInv, IInv', Next, fetching, ~fetching', stopId' = stopId, ~InError'
               PROVE  clockOffset' >= -MaxAge
    BY DEF vars
  <2>1. stopId \in Stops
    BY StopIdType DEF IInv, QueriesOK
  <2>2. FetchEnds
    BY DEF Next, Navigate, Locate, Denied, Widen, NearestAnswered, NearestFailed,
           NearestRetried, Poll, Collect, Toggle, SelectVehicle, ClearStop, setStop, Tick,
           Refresh, Queries, queries
  <2>3. ~Failed
    BY <2>1 DEF Failed, InError, IInv, QueriesOK
  <2>4. PICK trips \in SUBSET Trips, t \in 0..MaxTime :
          now - MaxAge <= t /\ Answered(trips, t)
    BY <2>2, <2>3 DEF FetchEnds
  <2>5. /\ data' = [stop |-> stopId, trips |-> trips, generatedAt |-> t]
        /\ data' # None /\ now' = now
    BY <2>1, <2>4 DEF Answered, data, HasData, IInv, QueriesOK, Data, NearbyAssumption
  <2> QED
    BY <2>4, <2>5 DEF IInv, ClockOK, ShownOK, NearbyAssumption
<1>2. Spec => [][Sets]_vars
  BY <1>1, Invariance, PTL DEF Spec
<1> QED
  BY <1>2 DEF AnswerSetsClock

=============================================================================
