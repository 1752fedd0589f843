--------------------------- MODULE PageDataProofs ---------------------------
(***************************************************************************)
(* Proofs about the data of the pages, for all routes, buses and versions  *)
(* of the feed: the types, that the map is of the route in the URL, that   *)
(* the current route is the URL's at rest, and that the merged list of     *)
(* buses has each once.                                                    *)
(***************************************************************************)
EXTENDS PageData, TLAPS

\* What the root loader has of a location: the route of its search.
RootFits(u, p) ==
  IF u.page # "route" /\ u.route # None THEN p # None /\ p.route = u.route ELSE p = None

\* The data of a pending navigation fits its location as the committed data
\* fits the URL, because no other commit comes in between; the atom is ahead of
\* the page by the pending selection only, or by one that was overtaken.
Fits == RootFits(url, params) /\ (nav # None => RootFits(nav.to, nav.params))

AtomFollows ==
  /\ nav # None /\ nav.selected => nav.to.page = "route" /\ nav.to.route = currentRoute
  /\ ~overtaken /\ (nav = None \/ ~nav.selected) => currentRoute = Derived(url, params)

IInv == TypeOK /\ Fits /\ AtomFollows

LEMMA UrlFields ==
  ASSUME NEW u \in Url
  PROVE  /\ u.page \in {"other", "stop", "route"} /\ u.buses \in BOOLEAN
         /\ u.route \in Routes \cup {None}
         /\ u.page = "route" => u.route \in Routes
BY DEF Url

\* The root loader's data, kept or read anew, is that of the location.
LEMMA RootDataFits ==
  ASSUME TypeOK, RootFits(url, params), NEW to \in Url
  PROVE  /\ RootFits(to, RootData(to))
         /\ RootData(to) \in [route : Routes, version : Nat] \cup {None}
         /\ ~Waits(to) => RootData(to) \in RouteData \cup {None}
<1> USE PageDataAssumption DEF TypeOK, Versions
<1>1. CASE Search(to) = Search(url)
  <2>1. RootData(to) = params
    BY <1>1 DEF RootData
  <2>2. (IF to.page = "route" THEN None ELSE to.route)
          = (IF url.page = "route" THEN None ELSE url.route)
    BY <1>1 DEF Search
  <2>3. RootFits(to, params)
    BY <2>2 DEF RootFits
  <2>4. params \in RouteData \cup {None} /\ RouteData \subseteq [route : Routes, version : Nat]
    BY DEF RouteData
  <2> QED
    BY <2>1, <2>3, <2>4
<1>2. CASE Search(to) # Search(url) /\ (to.page = "route" \/ to.route = None)
  <2>1. Search(to)[1] = None
    BY <1>2 DEF Search
  <2>2. RootData(to) = None
    BY <1>2, <2>1 DEF RootData
  <2> QED
    BY <1>2, <2>2 DEF RootFits
<1>3. CASE Search(to) # Search(url) /\ to.page # "route" /\ to.route # None
  <2>1. to.route \in Routes
    BY <1>3, UrlFields
  <2>2. Search(to)[1] # None
    BY <1>3 DEF Search
  <2>3. RootData(to) = [route |-> to.route, version |-> cache[to.route]]
    BY <1>3, <2>2 DEF RootData
  <2>4. cache[to.route] \in 0..feed /\ feed \in 1..MaxFeed
    BY <2>1
  <2>5. RootData(to) \in [route : Routes, version : Nat] /\ RootData(to).route = to.route
    BY <2>1, <2>3, <2>4
  <2>6. RootData(to) # None
    BY <2>5
  <2>7. ~Waits(to) => cache[to.route] \in 1..MaxFeed
    BY <1>3, <2>4 DEF Waits
  <2>8. ~Waits(to) => RootData(to) \in RouteData
    BY <2>1, <2>3, <2>7 DEF RouteData
  <2> QED
    BY <1>3, <2>5, <2>6, <2>8 DEF RootFits
<1> QED
  BY <1>1, <1>2, <1>3

\* A navigation that is started is one, and its data fits.
LEMMA LoadStarts ==
  ASSUME TypeOK, RootFits(url, params), NEW to \in Url, NEW selected \in BOOLEAN,
         Load(to, selected)
  PROVE  /\ nav' \in Navigation /\ nav' # None
         /\ nav'.to = to /\ nav'.selected = selected
         /\ RootFits(nav'.to, nav'.params)
         /\ ~nav'.waits => nav'.params \in RouteData \cup {None}
<1>1. Waits(to) \in BOOLEAN
  BY DEF Waits
<1>2. /\ nav' = [to |-> to, params |-> RootData(to), waits |-> Waits(to), selected |-> selected]
      /\ RootData(to) \in [route : Routes, version : Nat] \cup {None}
      /\ RootFits(to, RootData(to))
      /\ ~Waits(to) => RootData(to) \in RouteData \cup {None}
  BY RootDataFits DEF Load
<1> HIDE DEF Waits, RootData, RootFits, Url, RouteData
<1>3. nav' \in Navigation
  BY <1>1, <1>2 DEF Navigation
<1>4. nav' # None
  BY <1>3, NavigationAssumption
<1> QED
  BY <1>2, <1>3, <1>4

\* A fetch answers a version there is.
LEMMA FetchTypes ==
  ASSUME TypeOK, NEW r \in Routes
  PROVE  Fetch(r) \in [Routes -> 0..feed]
BY PageDataAssumption DEF TypeOK, Fetch, Versions

LEMMA StartFetches ==
  ASSUME TypeOK, NEW to \in Url, Start(to)
  PROVE  fetching' \in [Routes -> 0..feed]
<1>1. CASE Waits(to)
  <2>1. to.route \in Routes
    BY <1>1, UrlFields DEF Waits
  <2> QED
    BY <1>1, <2>1, FetchTypes DEF Start, Ensure, TypeOK
<1>2. CASE ~Waits(to)
  BY <1>2 DEF Start, TypeOK
<1> QED
  BY <1>1, <1>2

LEMMA Initially == Init => IInv
<1> SUFFICES ASSUME Init PROVE IInv
  OBVIOUS
<1> USE PageDataAssumption DEF Init
<1>1. url \in Url
  BY DEF Url
<1>2. TypeOK
  <2>1. feed \in Versions /\ allCache \in 0..feed
    BY DEF Versions
  <2>2. cache \in [Routes -> 0..feed] /\ fetching \in [Routes -> 0..feed]
    OBVIOUS
  <2> QED
    BY <1>1, <2>1, <2>2 DEF TypeOK
<1>3. Fits /\ AtomFollows
  BY DEF Fits, RootFits, AtomFollows, Derived
<1> QED
  BY <1>2, <1>3 DEF IInv

\* A link and the switch start a navigation and leave the atom alone.
LEMMA GoStep ==
  ASSUME IInv, NEW to \in Url, Go(to)
  PROVE  IInv'
<1>1. /\ nav' \in Navigation /\ nav' # None /\ nav'.to = to /\ nav'.selected = FALSE
      /\ RootFits(nav'.to, nav'.params)
      /\ ~nav'.waits => nav'.params \in RouteData \cup {None}
  BY LoadStarts DEF Go, IInv, Fits
<1>2. fetching' \in [Routes -> 0..feed]
  BY StartFetches DEF Go, IInv
<1>3. overtaken' = (overtaken \/ (nav # None /\ nav.selected))
  BY DEF Go, Overtake
<1>4. UNCHANGED <<url, params, currentRoute, cache, allCache, feed>>
  BY DEF Go
<1>5. overtaken' \in BOOLEAN
  BY <1>3
<1> HIDE DEF RootFits
<1>6. TypeOK'
  BY <1>1, <1>2, <1>4, <1>5 DEF IInv, TypeOK
<1>7. Fits'
  BY <1>1, <1>4 DEF IInv, Fits
<1>8. AtomFollows'
  BY <1>1, <1>3, <1>4 DEF IInv, AtomFollows, Derived
<1> QED
  BY <1>6, <1>7, <1>8 DEF IInv

\* A selection is ahead of its page, whose loaders have no route of the search.
LEMMA SetRouteStep ==
  ASSUME IInv, NEW r \in Routes, setRoute(r)
  PROVE  IInv'
<1> DEFINE to == [page |-> "route", route |-> r, buses |-> FALSE]
<1>1. to \in Url
  BY DEF Url
<1>2. Load(to, TRUE) /\ Start(to) /\ Overtake /\ currentRoute' = r
      /\ UNCHANGED <<url, params, cache, allCache, feed>>
  BY DEF setRoute
<1>3. to.page = "route" /\ to.route = r
  OBVIOUS
<1> HIDE DEF to
<1>4. /\ nav' \in Navigation /\ nav' # None /\ nav'.to = to /\ nav'.selected = TRUE
      /\ RootFits(nav'.to, nav'.params)
      /\ ~nav'.waits => nav'.params \in RouteData \cup {None}
  BY <1>1, <1>2, LoadStarts DEF IInv, Fits
<1>5. fetching' \in [Routes -> 0..feed]
  BY <1>1, <1>2, StartFetches DEF IInv
<1>6. overtaken' \in BOOLEAN
  BY <1>2 DEF Overtake
<1>7. TypeOK'
  BY <1>2, <1>4, <1>5, <1>6 DEF IInv, TypeOK
<1>8. Fits'
  BY <1>2, <1>4 DEF IInv, Fits
<1>9. AtomFollows'
  BY <1>2, <1>3, <1>4 DEF AtomFollows
<1> QED
  BY <1>7, <1>8, <1>9 DEF IInv

\* The page is there: the atom follows its derived route, or has it already.
LEMMA CommitStep ==
  ASSUME IInv, Commit
  PROVE  IInv'
<1>1. /\ nav # None /\ ~nav.waits /\ url' = nav.to /\ params' = nav.params /\ nav' = None
      /\ UNCHANGED <<cache, fetching, allCache, feed>>
  BY DEF Commit
<1>2. nav.to \in Url /\ nav.selected \in BOOLEAN
  BY <1>1 DEF IInv, TypeOK, Navigation
<1>3. params' \in RouteData \cup {None}
  BY <1>1 DEF IInv, TypeOK
<1>4. RootFits(url', params')
  BY <1>1 DEF IInv, Fits
<1>5. Derived(url', params') \in Routes \cup {None}
  BY <1>1, <1>2, <1>3, UrlFields DEF Derived, RouteData
<1>6. /\ currentRoute' \in Routes \cup {None} /\ overtaken' \in BOOLEAN
      /\ ~overtaken' => currentRoute' = Derived(url', params')
  <2>1. CASE Derived(url', params') # Derived(url, params)
    BY <1>5, <2>1 DEF Commit, SyncRoute
  <2>2. CASE Derived(url', params') = Derived(url, params)
    <3>1. currentRoute' = currentRoute /\ overtaken' = (overtaken /\ ~nav.selected)
      BY <2>2 DEF Commit, SyncRoute
    <3>2. nav.selected => currentRoute = Derived(url', params')
      BY <1>1, <1>4 DEF IInv, AtomFollows, RootFits, Derived
    <3>3. ~overtaken /\ ~nav.selected => currentRoute = Derived(url', params')
      BY <2>2 DEF IInv, AtomFollows
    <3> QED
      BY <3>1, <3>2, <3>3 DEF IInv, TypeOK
  <2> QED
    BY <2>1, <2>2
<1>7. TypeOK'
  BY <1>1, <1>2, <1>3, <1>6 DEF IInv, TypeOK
<1>8. Fits'
  BY <1>1, <1>4 DEF Fits
<1>9. AtomFollows'
  BY <1>1, <1>6 DEF AtomFollows
<1> QED
  BY <1>7, <1>8, <1>9 DEF IInv

\* An answer fills the cache and completes the navigation that waits for it.
LEMMA AnsweredStep ==
  ASSUME IInv, NEW r \in Routes, Answered(r)
  PROVE  IInv'
<1> DEFINE got == IF nav.params # None /\ nav.params.route = r
                  THEN [route |-> r, version |-> fetching[r]] ELSE nav.params
<1>1. /\ fetching[r] # 0
      /\ cache' = [cache EXCEPT ![r] = fetching[r]]
      /\ fetching' = [fetching EXCEPT ![r] = 0]
      /\ UNCHANGED <<url, params, currentRoute, allCache, feed, overtaken>>
  BY DEF Answered
<1>2. fetching[r] \in 1..feed /\ feed \in 1..MaxFeed
  BY <1>1, PageDataAssumption DEF IInv, TypeOK, Versions
<1>3. fetching[r] \in Versions /\ fetching[r] \in Nat
  BY <1>2, PageDataAssumption DEF Versions
<1>4. /\ cache' \in [Routes -> 0..feed'] /\ fetching' \in [Routes -> 0..feed']
  BY <1>1, <1>2 DEF IInv, TypeOK
<1>5. /\ nav' \in Navigation \cup {None}
      /\ nav' = None <=> nav = None
      /\ nav' # None => /\ nav'.to = nav.to /\ nav'.selected = nav.selected
                        /\ RootFits(nav'.to, nav'.params)
                        /\ ~nav'.waits => nav'.params \in RouteData \cup {None}
  <2>1. CASE Awaits(r)
    <3>1. nav # None /\ nav \in Navigation /\ nav.to.route = r
      BY <2>1 DEF Awaits, IInv, TypeOK
    <3>2. nav.to \in Url /\ nav.selected \in BOOLEAN
          /\ nav.params \in [route : Routes, version : Nat] \cup {None}
      BY <3>1 DEF Navigation
    <3>3. RootFits(nav.to, nav.params)
      BY <3>1 DEF IInv, Fits
    <3>4. got \in RouteData \cup {None} /\ (got = None <=> nav.params = None)
          /\ (got # None => got.route = nav.params.route)
      <4>1. CASE nav.params = None
        BY <4>1
      <4>2. CASE nav.params # None
        <5>1. nav.params.route = r
          BY <3>1, <3>3, <4>2 DEF RootFits
        <5>2. got = [route |-> r, version |-> fetching[r]]
          BY <4>2, <5>1
        <5>3. got \in RouteData /\ got \in [route : Routes, version : Nat] /\ got.route = r
          BY <1>3, <5>2 DEF RouteData
        <5>4. got # None
          BY <5>3, PageDataAssumption
        <5> QED
          BY <4>2, <5>1, <5>3, <5>4
      <4> QED
        BY <4>1, <4>2
    <3>5. RootFits(nav.to, got)
      BY <3>3, <3>4 DEF RootFits
    <3>6. got \in [route : Routes, version : Nat] \cup {None}
      BY <3>4, PageDataAssumption DEF RouteData, Versions
    <3>7. nav' = [to |-> nav.to, waits |-> FALSE, selected |-> nav.selected, params |-> got]
      BY <2>1 DEF Answered
    <3> HIDE DEF got, RootFits, Url, RouteData
    <3>8. nav' \in Navigation
      BY <3>2, <3>6, <3>7 DEF Navigation
    <3>9. nav' # None
      BY <3>8, NavigationAssumption
    <3> QED
      BY <3>1, <3>4, <3>5, <3>7, <3>8, <3>9
  <2>2. CASE ~Awaits(r)
    <3>1. nav' = nav
      BY <2>2 DEF Answered
    <3> QED
      BY <3>1 DEF IInv, TypeOK, Fits
  <2> QED
    BY <2>1, <2>2
<1> HIDE DEF RootFits
<1>6. TypeOK'
  BY <1>1, <1>4, <1>5 DEF IInv, TypeOK
<1>7. Fits'
  BY <1>1, <1>5 DEF IInv, Fits
<1>8. AtomFollows'
  BY <1>1, <1>5 DEF IInv, AtomFollows, Derived
<1> QED
  BY <1>6, <1>7, <1>8 DEF IInv

\* The steps that leave the pages alone.
LEMMA QuietStep ==
  ASSUME IInv,
         \/ MapFetches \/ RouteStopsTimeline \/ AllAnswered \/ NewFeed \/ UNCHANGED vars
         \/ \E r \in Routes : Aborted(r) \/ Collected(r)
  PROVE  IInv'
<1> USE PageDataAssumption
<1>1. UNCHANGED <<url, nav, params, currentRoute, overtaken>>
  BY DEF MapFetches, RouteStopsTimeline, AllAnswered, NewFeed, Aborted, Collected, vars
<1>2. Fits' /\ AtomFollows'
  BY <1>1 DEF IInv, Fits, AtomFollows, RootFits, Derived
<1>3. CASE MapFetches
  <2>1. currentRoute \in Routes
    BY <1>3 DEF MapFetches, QueryEnabled, IInv, TypeOK
  <2>2. fetching' \in [Routes -> 0..feed]
    BY <1>3, <2>1, FetchTypes DEF MapFetches, IInv
  <2> QED
    BY <1>2, <1>3, <2>2 DEF MapFetches, IInv, TypeOK
<1>4. CASE RouteStopsTimeline
  <2>1. url.route \in Routes
    BY <1>4, UrlFields DEF RouteStopsTimeline, IInv, TypeOK
  <2>2. fetching' \in [Routes -> 0..feed]
    BY <1>4, <2>1, FetchTypes DEF RouteStopsTimeline, IInv
  <2> QED
    BY <1>2, <1>4, <2>2 DEF RouteStopsTimeline, IInv, TypeOK
<1>5. CASE AllAnswered
  BY <1>2, <1>5 DEF AllAnswered, IInv, TypeOK, Versions
<1>6. CASE NewFeed
  BY <1>2, <1>6 DEF NewFeed, IInv, TypeOK, Versions
<1>7. CASE UNCHANGED vars
  BY <1>2, <1>7 DEF vars, IInv, TypeOK
<1>8. ASSUME NEW r \in Routes, Aborted(r) PROVE IInv'
  BY <1>2, <1>8 DEF Aborted, IInv, TypeOK, Versions
<1>9. ASSUME NEW r \in Routes, Collected(r) PROVE IInv'
  BY <1>2, <1>9 DEF Collected, IInv, TypeOK, Versions
<1> QED
  BY <1>3, <1>4, <1>5, <1>6, <1>7, <1>8, <1>9

LEMMA Step == IInv /\ [Next]_vars => IInv'
<1> SUFFICES ASSUME IInv, [Next]_vars PROVE IInv'
  OBVIOUS
<1>1. ASSUME NEW to \in Url, Navigate(to) PROVE IInv'
  BY <1>1, GoStep DEF Navigate
<1>2. ASSUME NEW value \in BOOLEAN, setShowAllVehicles(value) PROVE IInv'
  <2>1. [url EXCEPT !.buses = value] \in Url
    BY DEF IInv, TypeOK, Url
  <2> QED
    BY <1>2, <2>1, GoStep DEF setShowAllVehicles
<1> QED
  BY <1>1, <1>2, SetRouteStep, AnsweredStep, CommitStep, QuietStep DEF Next

LEMMA Invariant == Spec => []IInv
<1> QED
  BY Initially, Step, PTL DEF Spec

\* The types; the root loader's data is of a version there is once its
\* navigation no longer waits.
THEOREM TypeCorrect == Spec => []TypeOK
<1> QED
  BY Invariant, PTL DEF IInv

\* However navigations, the switch and selections have crossed, the current
\* route is the URL's at rest, unless a selection was overtaken.
THEOREM RouteFollowsUrl == Spec => []RouteAtRest
<1>1. IInv => RouteAtRest
  BY DEF IInv, AtomFollows, RouteAtRest
<1> QED
  BY <1>1, Invariant, PTL

\* The stops, shapes and vehicles on the map are of the URL's route.
THEOREM MapIsOfTheRoute == Spec => []OneRouteOnMap
<1>1. IInv => OneRouteOnMap
  <2> SUFFICES ASSUME IInv, url.route # None
               PROVE  /\ useRouteShapes = url.route /\ useStops = url.route
                      /\ NoSelectionAhead /\ useVehiclePositions # None
                           => useVehiclePositions.route = url.route
    BY DEF OneRouteOnMap
  <2>1. Derived(url, params) = url.route /\ (params # None => params.route = url.route)
    BY UrlFields DEF IInv, TypeOK, Fits, RootFits, Derived
  <2>2. NoSelectionAhead => currentRoute = url.route
    BY <2>1 DEF IInv, AtomFollows, NoSelectionAhead
  <2>3. url.page # "other"
    BY DEF IInv, TypeOK, Url
  <2>4. CASE params # None
    BY <2>1, <2>3, <2>4 DEF useRouteShapes, useStops, useVehiclePositions
  <2>5. CASE params = None
    BY <2>1, <2>2, <2>3, <2>5 DEF useRouteShapes, useStops, useVehiclePositions
  <2> QED
    BY <2>4, <2>5
<1> QED
  BY <1>1, Invariant, PTL

\* The two lists of buses may be of two versions of the feed; a bus of both is
\* taken from the route's list, and without the switch there is no other list.
THEOREM MergedOnce == Spec => []EachBusOnce
<1> DEFINE merged == useMergedVehiclePositions
           ids == {Id(p) : p \in RoutePositions} \ {None}
<1>1. merged = RoutePositions \cup {p \in useAllVehiclePositions : Id(p) \notin ids}
  BY DEF useMergedVehiclePositions
<1>2. \A p, q \in merged : Id(p) # None /\ Id(p) = Id(q) => p = q
  <2>1. \A v, l : \A p, q \in Feed(v, l) : p.bus = q.bus => p = q
    BY DEF Feed
  <2>2. \A p, q : Id(p) # None /\ Id(p) = Id(q) => p.bus = q.bus
    BY DEF Id
  <2>3. \A p, q \in RoutePositions : p.bus = q.bus => p = q
    BY <2>1 DEF RoutePositions
  <2>4. \A p, q \in useAllVehiclePositions : p.bus = q.bus => p = q
    BY <2>1 DEF useAllVehiclePositions
  <2>5. \A p \in RoutePositions : Id(p) # None => Id(p) \in ids
    OBVIOUS
  <2> QED
    BY <1>1, <2>2, <2>3, <2>4, <2>5
<1>3. ASSUME NEW p \in RoutePositions \cup useAllVehiclePositions, p \notin merged
      PROVE  Id(p) # None /\ \E q \in RoutePositions \cap merged : Id(q) = Id(p)
  <2>1. Id(p) \in ids
    BY <1>1, <1>3
  <2> QED
    BY <1>1, <2>1
<1>4. ASSUME OneRouteOnMap, url.route # None, ~url.buses, NoSelectionAhead, NEW p \in merged
      PROVE  BusRoute[p.version][p.bus] = url.route
  <2>1. p \in RoutePositions
    BY <1>1, <1>4 DEF useAllVehiclePositions
  <2>2. useVehiclePositions # None /\ BusRoute[p.version][p.bus] = useVehiclePositions.route
    BY <2>1 DEF RoutePositions
  <2> QED
    BY <1>4, <2>2 DEF OneRouteOnMap
<1>5. OneRouteOnMap => EachBusOnce
  BY <1>2, <1>3, <1>4 DEF EachBusOnce
<1> QED
  BY <1>5, MapIsOfTheRoute, PTL

=============================================================================
