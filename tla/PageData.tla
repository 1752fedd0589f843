------------------------------ MODULE PageData ------------------------------
(***************************************************************************)
(* The routes and vehicles of the client's pages: the loaders that fill    *)
(* the query cache before a page is shown and keep what they read, the     *)
(* queries of the map and of the route's timeline that go on refreshing    *)
(* the cache, the feed of all buses, the atom of the current route, and    *)
(* what the map draws of all this.                                         *)
(*                                                                         *)
(* A navigation is pending until its loaders are done; a new one takes its *)
(* place.  A URL has a page, a route (a parameter of the path of a route's *)
(* page, of the search of a stop's) and the switch buses=1; trip pages are *)
(* as stop pages here.                                                     *)
(* Directions go with the route; positions are the version of the feed     *)
(* they were read from.  A loader that fails and its error page are left   *)
(* out.                                                                    *)
(***************************************************************************)
EXTENDS Naturals

CONSTANTS
  Routes,
  Placeholder,    \* route "1", which stands in for no route in a query's key
  Buses,
  Unnamed,        \* the buses that the feed gives no id
  BusRoute,       \* [version -> [Buses -> Routes]]: who serves what in the feed
  MaxFeed,        \* bound of the feed's versions
  None

Versions == 1..MaxFeed

ASSUME PageDataAssumption ==
  /\ MaxFeed \in Nat \ {0}
  /\ Placeholder \in Routes /\ None \notin Routes \cup Buses
  /\ Unnamed \subseteq Buses
  /\ BusRoute \in [Versions -> [Buses -> Routes]]
  /\ None \notin [route : Routes, version : Nat]

VARIABLES
  url,            \* the committed location
  nav,            \* the pending navigation: where to, what its loaders have
  params,         \* data of the root loader: route and version of the vehicles
  currentRoute,   \* currentRouteAtom
  cache,          \* per route, the version in the query cache; 0: nothing
  fetching,       \* per route, the version that the running fetch will answer
  allCache,       \* the version of the feed of all buses; 0: nothing
  feed,           \* the newest version there is
  overtaken       \* history: a selected route's navigation was overtaken

vars == <<url, nav, params, currentRoute, cache, fetching, allCache, feed, overtaken>>

Url ==
  [page : {"other"}, route : {None}, buses : BOOLEAN]
  \cup [page : {"stop"}, route : Routes \cup {None}, buses : BOOLEAN]
  \cup [page : {"route"}, route : Routes, buses : BOOLEAN]

Navigation ==
  [to : Url, params : [route : Routes, version : Nat] \cup {None},
   waits : BOOLEAN, selected : BOOLEAN]

ASSUME NavigationAssumption == None \notin Navigation

\* withPreservedSearch: of the search only the route, off its own page, and
\* the switch.
Search(u) == <<IF u.page = "route" THEN None ELSE u.route, u.buses>>

----------------------------------------------------------------------------
(* What the pages and the map read. *)

Derived(u, p) ==
  IF p # None THEN p.route ELSE IF u.page = "route" THEN u.route ELSE None

\* The route whose shapes and stops are on the map.
useRouteShapes == Derived(url, params)
useStops == Derived(url, params)

\* The vehicles of one route: those the root loader has kept, or else whatever
\* the cache has under the key, be the query enabled or not.
useVehiclePositions ==
  LET key == IF currentRoute # None THEN currentRoute ELSE Placeholder IN
  CASE url.page = "other" -> None
    [] url.page # "other" /\ params # None -> params
    [] url.page # "other" /\ params = None /\ cache[key] # 0 ->
         [route |-> key, version |-> cache[key]]
    [] OTHER -> None

QueryEnabled == currentRoute # None /\ url.page # "other"

Feed(v, list) == [bus : Buses, version : {v}, list : {list}]

RoutePositions ==
  IF useVehiclePositions = None THEN {}
  ELSE {p \in Feed(useVehiclePositions.version, "route") :
          BusRoute[p.version][p.bus] = useVehiclePositions.route}

useAllVehiclePositions == IF url.buses /\ allCache # 0 THEN Feed(allCache, "all") ELSE {}

\* The id of a bus, if there is one.
Id(p) == IF p.bus \in Unnamed THEN None ELSE p.bus

\* Mutant: no id is an id as another.
useMergedVehiclePositionsNoId ==
  RoutePositions \cup
    {p \in useAllVehiclePositions : Id(p) \notin {Id(q) : q \in RoutePositions}}

\* The route's list, and of all buses those without an id or not in that list.
useMergedVehiclePositions ==
  LET routeVehicleIds == {Id(p) : p \in RoutePositions} \ {None} IN
  RoutePositions \cup {p \in useAllVehiclePositions : Id(p) \notin routeVehicleIds}

----------------------------------------------------------------------------
(* Fetches.  A query has one at a time; who asks meanwhile waits for it. *)

Fetch(r) == [fetching EXCEPT ![r] = IF fetching[r] = 0 THEN feed ELSE fetching[r]]

\* A loader takes what the cache has, however old, and fetches only if it has
\* nothing (ensureQueryData).
Ensure(r) == fetching' = IF cache[r] = 0 THEN Fetch(r) ELSE fetching

\* Mutant: the root loader keeps what it has when the route's parameter is gone.
RootDataKept(to) ==
  IF to.route # None /\ to.page # "route"
  THEN [route |-> to.route, version |-> cache[to.route]] ELSE params

\* The root loader runs again when the search changes, and is {} without a route.
RootData(to) ==
  IF Search(to) = Search(url) THEN params
  ELSE IF Search(to)[1] = None THEN None
  ELSE [route |-> to.route, version |-> cache[to.route]]

\* The navigation waits for a fetch of its route.
Waits(to) ==
  /\ to.route # None
  /\ cache[to.route] = 0
  /\ to.page = "route" \/ Search(to) # Search(url)

Load(to, selected) ==
  nav' = [to |-> to, params |-> RootData(to), waits |-> Waits(to), selected |-> selected]

Start(to) ==
  IF Waits(to) THEN Ensure(to.route) ELSE UNCHANGED fetching

Overtake == overtaken' = (overtaken \/ (nav # None /\ nav.selected))

Go(to) ==
  /\ Load(to, FALSE) /\ Start(to)
  /\ Overtake
  /\ UNCHANGED <<url, params, currentRoute, cache, allCache, feed>>

\* A link, Back: any page from any other.
Navigate(to) == <<to.page, to.route>> # <<url.page, url.route>> /\ Go(to)

\* The switch is a navigation to where one is, whatever is pending.
setShowAllVehicles(value) == Go([url EXCEPT !.buses = value])

\* A route picked in the search box is the current one before its page is there.
setRoute(r) ==
  LET to == [page |-> "route", route |-> r, buses |-> FALSE] IN
  /\ r # currentRoute
  /\ currentRoute' = r
  /\ Load(to, TRUE) /\ Start(to)
  /\ Overtake
  /\ UNCHANGED <<url, params, cache, allCache, feed>>

\* Mutant: the atom is left to the selections.
SyncRouteNever == UNCHANGED <<currentRoute, overtaken>>

\* useCurrentRoute's effect: on another derived route the atom follows.
SyncRoute ==
  IF Derived(url', params') # Derived(url, params)
  THEN currentRoute' = Derived(url', params') /\ overtaken' = FALSE
  ELSE /\ currentRoute' = currentRoute
       /\ overtaken' = (overtaken /\ ~nav.selected)

Commit ==
  /\ nav # None /\ ~nav.waits
  /\ url' = nav.to /\ params' = nav.params
  /\ nav' = None
  /\ SyncRoute
  /\ UNCHANGED <<cache, fetching, allCache, feed>>

\* The map's query fetches when it gets its key, when the window gets the focus
\* and, with auto polling, every 15 seconds.
MapFetches ==
  /\ QueryEnabled
  /\ fetching' = Fetch(currentRoute)
  /\ UNCHANGED <<url, nav, params, currentRoute, cache, allCache, feed, overtaken>>

\* Mutant: the timeline fetches what is missing, and no more.
RouteStopsTimelineOnce ==
  /\ url.page = "route" /\ fetching[url.route] = 0 /\ cache[url.route] = 0
  /\ fetching' = Fetch(url.route)
  /\ UNCHANGED <<url, nav, params, currentRoute, cache, allCache, feed, overtaken>>

\* The timeline of a route's page polls its own route every 15 seconds.
RouteStopsTimeline ==
  /\ url.page = "route" /\ fetching[url.route] = 0
  /\ fetching' = Fetch(url.route)
  /\ UNCHANGED <<url, nav, params, currentRoute, cache, allCache, feed, overtaken>>

Awaits(r) == nav # None /\ nav.waits /\ nav.to.route = r

Answered(r) ==
  /\ fetching[r] # 0
  /\ cache' = [cache EXCEPT ![r] = fetching[r]]
  /\ fetching' = [fetching EXCEPT ![r] = 0]
  /\ nav' = IF Awaits(r)
            THEN [to |-> nav.to, waits |-> FALSE, selected |-> nav.selected,
                  params |-> IF nav.params # None /\ nav.params.route = r
                             THEN [route |-> r, version |-> fetching[r]] ELSE nav.params]
            ELSE nav
  /\ UNCHANGED <<url, params, currentRoute, allCache, feed, overtaken>>

\* A fetch nobody waits for is aborted when its last observer goes, or fails.
Aborted(r) ==
  /\ fetching[r] # 0 /\ ~Awaits(r)
  /\ fetching' = [fetching EXCEPT ![r] = 0]
  /\ UNCHANGED <<url, nav, params, currentRoute, cache, allCache, feed, overtaken>>

\* The feed of all buses comes through a cache of its own, of any age.
AllAnswered ==
  /\ url.buses
  /\ allCache' \in 1..feed
  /\ UNCHANGED <<url, nav, params, currentRoute, cache, fetching, feed, overtaken>>

\* A query that nobody observes is dropped after five minutes.
Collected(r) ==
  /\ ~(QueryEnabled /\ currentRoute = r)
  /\ ~(url.page = "route" /\ url.route = r)
  /\ cache' = [cache EXCEPT ![r] = 0]
  /\ UNCHANGED <<url, nav, params, currentRoute, fetching, allCache, feed, overtaken>>

NewFeed ==
  /\ feed < MaxFeed
  /\ feed' = feed + 1
  /\ UNCHANGED <<url, nav, params, currentRoute, cache, fetching, allCache, overtaken>>

Init ==
  /\ url = [page |-> "other", route |-> None, buses |-> FALSE]
  /\ nav = None /\ params = None /\ currentRoute = None
  /\ cache = [r \in Routes |-> 0] /\ fetching = [r \in Routes |-> 0]
  /\ allCache = 0 /\ feed = 1
  /\ overtaken = FALSE

Next ==
  \/ \E to \in Url : Navigate(to)
  \/ \E value \in BOOLEAN : setShowAllVehicles(value)
  \/ \E r \in Routes : setRoute(r) \/ Answered(r) \/ Aborted(r) \/ Collected(r)
  \/ Commit
  \/ MapFetches \/ RouteStopsTimeline \/ AllAnswered
  \/ NewFeed

Spec == Init /\ [][Next]_vars

\* Intervals run and requests are answered, though any one of them may fail.
FairSpec ==
  /\ Spec
  /\ WF_vars(RouteStopsTimeline)
  /\ \A r \in Routes : SF_vars(Answered(r))

----------------------------------------------------------------------------
(* Properties *)

RouteData == [route : Routes, version : Versions]

\* Types of the variables; a committed URL with a route in its search has the
\* root loader's data for it.
TypeOK ==
  /\ url \in Url /\ feed \in Versions /\ allCache \in 0..feed
  /\ params \in RouteData \cup {None}
  /\ nav \in Navigation \cup {None}
  /\ nav # None /\ ~nav.waits => nav.params \in RouteData \cup {None}
  /\ currentRoute \in Routes \cup {None} /\ overtaken \in BOOLEAN
  /\ cache \in [Routes -> 0..feed] /\ fetching \in [Routes -> 0..feed]

\* No picked route is ahead of its page, nor has one been overtaken.
NoSelectionAhead == ~overtaken /\ (nav = None \/ ~nav.selected)

\* The map is of the route in the URL: the stops and shapes always, the vehicles
\* too unless a route that was picked in the search box is ahead of its page.
OneRouteOnMap ==
  url.route # None =>
    /\ useRouteShapes = url.route /\ useStops = url.route
    /\ NoSelectionAhead /\ useVehiclePositions # None
         => useVehiclePositions.route = url.route

\* At rest the current route (the colour of the line, the search box) is that of
\* the URL, however navigations and selections have crossed, unless a selection
\* was overtaken and the URL's route has not changed since.
RouteAtRest == nav = None /\ ~overtaken => currentRoute = Derived(url, params)

\* The merged list has every bus with an id once, though its two lists are of
\* different versions of the feed, with the route's word for it; a bus without an
\* id is in it as often as in the two lists.  On a page with a route the buses
\* of others are there by the switch alone, also when it was turned off again.
EachBusOnce ==
  /\ \A p, q \in useMergedVehiclePositions : Id(p) # None /\ Id(p) = Id(q) => p = q
  /\ \A p \in RoutePositions \cup useAllVehiclePositions :
       \/ p \in useMergedVehiclePositions
       \/ Id(p) # None /\ \E q \in RoutePositions \cap useMergedVehiclePositions : Id(q) = Id(p)
  /\ url.route # None /\ ~url.buses /\ NoSelectionAhead =>
       \A p \in useMergedVehiclePositions : BusRoute[p.version][p.bus] = url.route

\* The vehicles of a route's page are as new as the feed again after a while,
\* with auto polling off too.
RoutePageStaysLive ==
  \A r \in Routes : \A v \in Versions :
    (url.page = "route" /\ url.route = r /\ feed = v)
      ~> (cache[r] >= v \/ url.page # "route" \/ url.route # r)

=============================================================================
