# Austin Bus Go: specifications, checks and proofs

This directory holds TLA+ models of Austin Bus Go, the TLC configurations that
check them on small instances, and TLAPS proofs of the results that matter most.
Paths are those of the repository.

## 1. Inventory of the system

| Part | State | Operations | Talks to |
|---|---|---|---|
| Realtime feed cache (`server/services/gtfs_rt_client.py`, `gtfs_rt_service.py`) | per worker process, url -> (time, entities) | look up, fetch over HTTP with a 3 s timeout, store; snapshot of two feeds | CapMetro's GTFS-RT feeds |
| Upcoming arrivals (`arrival_service.py`, `upcoming.py`, `gtfs_service.py`) | none of its own; read-only SQLite | `get_upcoming`: rows of two service days, merge with the snapshot, sort, cut, track, next scheduled bus | feed cache, database |
| Other endpoints (`server/api/routers`) | none | single queries, one feed | database, feed cache |
| Edge cache worker (`workers/graphql-edge-cache`) | the Cloudflare cache, keyed by path and cache version | match, fetch, put | the API |
| GTFS-RT proxy worker (`workers/gtfs-rt-proxy`) | a Cloudflare cache | the same with another TTL | CapMetro |
| Release (`.github/workflows`) | the live image, the live feed version, the cache version, the queue of the concurrency group | push or nightly run: build, compare, deploy, invalidate | Cloud Run, the edge worker |
| ETL (`etl/`) | files of a run | download, prepare, build, replace | CapMetro's static GTFS |
| Nearby screen (`client/src/features/nearby`, part of `features/map`) | position, anchor, query cache, two atoms | follow, pin, poll, pick a bus | the API through the edge cache, the map |
| Search box (`features/search`) | text and value of the box, the term searched for; the page results are on | type, choose, Enter, clear; follow the page; debounce and search | the URL, the two atoms of the current stop and route, the API |
| Favourites and recent searches (`useFavorites`, `UseRecentSearches`, `features/favorites`, `features/search/pages/recent`) | two lists in local storage | add, remove, clear | search box, map, pages |
| Pages of a stop, a route and a trip (`features/stop`, `route`, `trip`) | filter by route, open row, direction, polled answers | filter, open, switch direction; read times of day back into instants | the URL, the API |
| Map layers (`features/map/components`) | atoms of the hovered stop, hovered and pinned vehicle; a close timer per layer; drawn markers | hover, click, tap, close; animate | rows of the pages, the URL |
| Vehicle positions (`features/map/hooks`, the loaders) | query cache, what the loaders kept, atom of the current route | load, poll, merge one route's vehicles with the feed of all | the URL, the API |
| Map view in the URL, motion of the camera (`UseMapMotion`, `NearbyFocusLayer`) | camera, the key it was last moved for | written into the URL 50 ms after the map came to rest | every pending navigation |
| Shell (`app/Router.tsx`, drawer, chips, tabs, settings) | theme, settings | navigate | all pages |
| Prerender scripts, Terraform, dev pages, generated API client | none at run time | | |

How they meet. A phone polls `/api/stops/:id/upcoming` every 15 s. The edge cache
answers from an entry of the path's tier or asks the server. The server answers from
the database in its image and from its worker's feed cache. So an answer on the screen
has gone through two caches, each of which may add its TTL and the length of a
fetch, and react-query keeps the last answer until the next. The map's switch for all
buses reads the vehicle feed past the server, through the cache of the proxy worker, so
that the two lists that are merged on the map need not be of one version of the feed. A release replaces the image (and with it the feed cache) and then rotates
the version in the keys of the edge cache.

What is hard here:

* **Interleaving.** Nothing in a worker, at the edge or in the browser holds a lock
  across a fetch: fills overlap, end in either order, and land after what they should
  have preceded (a deploy, a newer fill, a change of the stop).
* **Time.** Ages are counted from different moments; service days run past midnight.
* **Failure.** Feeds, upstream, puts, workflow steps and searches fail on their own.
* **Composition of small state.** The Nearby screen keeps one truth in four places
  (query, focus atom, stop atom, the key of the camera) and updates them at different moments.
  The current route is in the URL, in an atom, in what the loaders kept and in the key
  of a query; the search box has a text, a value and a term of its own.
* **Overtaking.** A navigation waits for its loaders and a later one takes its place,
  whoever starts it: a link, the box, the map's view, the switch of the buses. What its
  start has already written (atoms, the box) stays.
* **Several writers, no owner.** Map layers, popups, rows and timers all write the
  hover atoms, and four components the recent searches.
* **Strings for instants.** The server answers times of day; the pages guess the day.

`PROJECT.json` lists the hazards with their lines and the properties that watch them.

## 2. Modules

| Module | Models | Role |
|---|---|---|
| `TtlCache` | - | what a cache with a TTL promises: the abstract specification |
| `FeedCache` | `gtfs_rt_client.py`, `gtfs_rt_service.py`, the workers of the Dockerfile | implements `TtlCache` |
| `EdgeCache` | `graphql-edge-cache/src` | implements `TtlCache`, once per tier |
| `DataRelease` | `deployBackend.yml`, `updateGTFS.yml`, `main.yml`, the ETL as one step | extends `EdgeCache`: the workflows and the cache they rotate |
| `Lists` | the lists that `upcoming.py` and the client filter | pure functions |
| `Upcoming` | `upcoming.py` | pure functions |
| `ArrivalService` | `get_upcoming` and its two queries | uses `Upcoming` |
| `Nearby` | the Nearby screen | client state machine |
| `MapHover` | `features/map/components/{Stop,Vehicle}`, `useHoverClose`, `useMapClick`, the rows that hover | client state machine |
| `PageData` | the loaders, `useVehiclePositions`, `useAllVehiclePositions`, `useMergedVehiclePositions`, `useCurrentRoute` | client state machine |
| `Pages` | `StopMenu`, `UpcomingList`, `RoutesSelector`, the two timelines, `DirectionToggle`, `dateUtils.ts` | client state machine |
| `SearchItems` | `searchPanelUtils.ts` | the constants and options that the next two share |
| `Search` | `useSearchBox`, `useSearchSync`, the router's pages, `useCurrentStop`, `useCurrentRoute` | client state machine |
| `SearchOptions` | `useSearchInput`, `useSearchOptions`, `SearchAutocomplete`, favourites and recent searches | client state machine |
| `MC...` | - | the constants of the runs |
| `...Proofs` | - | theorems about the module of that name; `DataReleaseProofs` is about `EdgeCache`, too, and `SearchProofs` about `Search` and `SearchOptions` |

**TtlCache.** Fills start, carry the time they started at, and store an entry that is
used for less than `TTL` from the time it was stored.

**FeedCache.** `Start` is the handler up to its first await (each feed of `Run` in
turn); it answers from a `Fresh` entry, or leaves the request waiting in `fetching`.
`Fetched` is the continuation: store, then go on with the next feed. `Failed` is
`RealtimeFeedError`. `Tick` lets time pass but not beyond `MaxFetch` from the start of a
pending fetch. That is an assumption on the upstream: FETCH_TIMEOUT_SECONDS bounds each
phase of a request (connect, write, each read), so a feed that keeps trickling may
take longer, and then the bounds below grow with it. `Restart` empties a worker. A publication of a feed is the time it was published at; the content
plays no part.

**EdgeCache.** `Hit` and `Miss` are the two outcomes of `cache.match`; `Answered`,
`UpstreamError` and `Put` follow. `Put` is a step of its own because it runs in
`waitUntil`, after the answer has gone out; `PutLost` and `Evict` are what the
platform may do. `Release` and `Rotate` are the two things a release does to it.

**DataRelease.** One `Run` record per workflow run, one action per step that matters
(`Enqueue`, `Acquire`, `Build`, `Compare`, `Deploy` or `Skip`, `EndDeployJob`,
`Invalidate`), and every action of `EdgeCache` but the two that the workflows take
over: `Deploy` is `EdgeCache`'s `Release`, `Invalidate` its `Rotate`. The concurrency
group keeps one running and one waiting run and replaces the waiting one; the
invalidation job is outside the group, as in the file. A run is triggered and enters the
queue in one step: GitHub does not promise that two runs triggered in short succession
queue in that order, and no property here holds if they do not. `Settled` is false for ever
once a step has failed, so `SettledFeedLive` is about histories without failures (but
with an unreachable backend, which the comparison survives).

**Upcoming, ArrivalService.** The pure functions are operators with the names of the
source. The state machine receives a request, lets time pass before it answers (the
awaits after `now` is read), and the feeds change in between (`Report`). Both feeds
are taken at one moment here; that they may differ is the subject of
`FeedCache!SnapshotSkew`. What is listed is a set: which buses the sort and the cut leave is
modelled, in which order they are sent is not, and neither is the error for an unknown
stop. An answer takes at most `MaxWait` from the time it read. A day is `Day` units long on every date. The timetable is any
that the named assumption allows: stop sequences that increase along a trip (they are
the key and the order of `stop_times`), and no time of the timetable in the last half
hour of the day after its service day, which no trip reaches. `Lists!Keep` is a list
comprehension with a condition, defined by the places it keeps instead of by recursion.

**Nearby.** An input (navigation, position, answer, tap) together with the renders
and effects it causes is one action; `Queries` (the query observer changes its key) and
`Publish` (`useUpcoming`, `useSyncMapFocus`) are the shared parts. The highlighted stop
has two more writers: `setStop` (a stop picked on the map or, on a desktop, in the box,
which writes the atom and then navigates) and `ClearStop` (the effect of `useCurrentStop`
in a component that mounts). `chosen` is a history variable: `setStop` wrote last.
React-query's rules (previous data, errors, aborted and deduplicated
fetches, collection) are modelled from how the hooks use it.

**MapHover.** `hoveringStop`, `hoveringVehicle` and `pinnedVehicle` are the three atoms;
`stopClose` and `vehicleClose` are `closeTimerRef` of the two uses of `useHoverClose`,
with a count of timers that run and that the ref has forgotten. Each enter, leave and
click handler of a layer, of its popup and of a row is an action, which writes what that
handler writes and nothing more. On a phone the layers have no hover handlers and a
sheet is modal (`Reachable`). `listed` is the last poll, `drawn` the last frame of the
animation: a marker can be under the pointer when its vehicle is gone. The pointer
leaves one thing before it enters the next and is on one at a time: features that overlap
are not modelled. Time is abstract, so a pending timer may fire at any moment. `fromRow` is a history variable.

**PageData.** `nav` is the router's pending navigation. `RootData` is the root loader
(it runs again when the search changes), `Waits` and `Ensure` are `ensureQueryData`: what
is cached is taken at any age. `Commit` is the moment the loaders are done, with
the effect of `useCurrentRoute`. `MapFetches` and `RouteStopsTimeline` are the two
observers that refresh the cache; `Answered`, `Aborted` and `Collected` are what
react-query does. Positions are the version of the feed they were read from, so that
staleness and a bus that changes its route are visible; some buses have no id. Directions go with the route;
a trip's page loads as a stop's does.

**Pages.** `url` and the local state of the page that is mounted; `Go` gives every hook
of the page reached its say (state that goes with the page or stays when only
parameters change, the effect of `DirectionToggle`). The radio of the direction checks
its own value at once (`setDirection`), and its navigation changes the URL when the
loader is done (`RouteLoaded`), or is overtaken by another (`Overtaken`). What a page shows is an operator
of the state (`StopMenu`, `RouteRow`, `TripRow`). Times are numbers of ticks from a
midnight; `parseArrivalTime` gets a time of day and guesses the date. The device's clock
is the server's here. The trip's page loads in two steps: another trip, then its answer.

**Search.** `Render` is a render after a change of the page or of an atom, with the
effect of `useSearchSync` when one of its dependencies has changed. `Choose` is
`handleChange` with `handleSelect`: a stop or route sets its atom at once and starts
a navigation. `Commit` ends one, with the redirect of a search that has one result.
`useSyncMapFocus` is the write of the Nearby page, whose stop a desktop's box shows and
which is taken back when the page is left. A text of blanks, which Enter trims to none,
is not among the terms.
Everything else that navigates (`Open`, `ResultLinks`, `setViewStateInUrl`,
`History`) is there to overtake it.

**SearchOptions.** What the box lists: `delayed` is the debounce, `internalSearchTerm` the
key of the query, `shown` the term the data is of (the data before stays until the next
answer). `handleChange` is a selection and `handleChangeCurrent` one of the current route,
which is not remembered. `SearchSync`, the effect of `useSearchSync`, may write the box at
any time: when it does is `Search`'s subject. All the components that write the two lists of local storage are actions.

**Assumptions on the inputs.** A loader that fails leads to the error page and is left
out of `PageData` and `Search`. Another tab writing the same local storage is left out.

## 3. Runs

All runs use two workers and end within minutes.

| Run | Question | Bounds, and why they are enough |
|---|---|---|
| `FeedCache` | are answers recent, the two feeds close, regress bounded, is it a `TtlCache`? | one worker (workers share nothing), two requests (a race needs two), TTL 2, fetches of up to two units so that they overlap an expiry, six units of time: store, use, expire, refill, and as long as the largest bound (TTL + 2 * MaxFetch), so that it could be exceeded |
| `EdgeCache` | ages of hits per tier, refinement | one path per tier, two requests, one version (versions are `DataRelease`'s business) |
| `DataRelease` | once no run is under way, is the cached data of the live feed; does an older build ever replace a newer one? | three runs (one in the group, one waiting, one more that replaces it), one static path, a request in flight; entries never expire, the worst case |
| `DataReleaseLive` | do queued runs end? | three runs, with failing steps and re-runs |
| `ArrivalService` | is every due bus listed, once, with its own prediction and a track that adds up, is what is listed still to come, is the next bus the first? | a loop trip with two visits and a simple trip, two service days, all reports of at most one delay per visit; a day of ten units with a window of four keeps the proportions that matter (lookback < window < day) |
| `ArrivalServiceMidnight` | ... also in the hour before midnight? (violated) | one trip early on day 2 |
| `Nearby` | do map, list, pick and highlight agree, whatever else writes the highlight, does an answer set the clock, does an old list go? | two stops, one bus that may be due at either, two positions, of which one reaches its stop only in the wide search; one unit of time, so that data and clock can differ in age |
| `MapHover` | does the popup under the pointer stay, is every timer known, who opens a second popup, does a popup that was left close? | two stops and two vehicles, so that a timer of one meets the other; phone and desktop; no counter needs a bound |
| `PageData` | is the map of the route in the URL, does the current route come to rest on it, is the merged list whole, without a bus twice or of another route, does a route's page stay live? | two routes (one of them the placeholder of the disabled query), two buses that swap routes and one without an id, two versions of the feed: a snapshot, a cached answer and a running fetch differ |
| `Pages` | are the pressed buttons those of the rows, is a time of day read as the instant it was, is the status right, does the selector do what its buttons say, is the direction that is checked the URL's? | four trips of three routes (a filter of some, of all, of none that is left); four instants on two days; dues before and after each of them and past midnight; delays on both sides of one and two minutes in ticks of 15 s |
| `Search` | does the box show the page? | a phone (where the box is unmounted on Nearby) and a desktop (where it shows Nearby's stop), two stops, two routes, two terms, of which one is a search of its own; no counter |
| `SearchOptions` | can every recent search be reached, is what is typed searched for? | three things to remember against a bound of two options |

Every property of a passing run has a mutant: a plausible bug in a definition of the
model under which TLC finds the property violated. The mutants stand beside the
definitions they change and are marked as such.

### What the violated property shows

**ArrivalServiceMidnight.** The docstring promises the buses of the next hour. The
buses of the next service day are not looked at before midnight, so that between 23:00
and midnight those due in the first minutes of the next day are missing.

### Known behaviours without a run

The models contain each of these; the properties are stated so that they are told from
the promises the code keeps.

* *Feed cache.* The comment in `gtfs_rt_client.py` says one upstream fetch per window.
  Nothing marks a fetch as under way: all that miss meanwhile fetch too. The harm is
  bounded (`BoundedRegress`).
* *Release.* Invalidation depends on the feed version alone: a merge that changes the
  ETL deploys other data under the same version and leaves the cache. A waiting deploy of
  a merge is replaced by a nightly run, which may find the feed unchanged and deploy
  nothing. A re-run keeps its run id, so it rotates the cache version to a value that
  may be in use already: with `Reruns = TRUE`, `SettledFeedLive` fails.
* *Arrivals.* The queries read what is scheduled between the lookback and the end of the
  window (`arrival_service.py` 113-118): a bus scheduled later but predicted inside the
  hour is not read, nor one so late that the lookback has left it behind. `DueBusesShown`
  has that as a hypothesis; `AllDueBusesShown`, the docstring's words, has not. The search
  for the next bus starts with today's service day, so that its 25:30 is told before
  tomorrow's 00:30; past midnight, yesterday's 26:00 is not searched. `NextIsFirst`
  names both exceptions.
* *Nearby.* A stop that is picked on the map or in a desktop's box is highlighted beside the
  list of another; the next answer that differs puts the highlight back although the
  navigation to the picked stop is still loading, and if that navigation was overtaken
  the wrong highlight stays until then. A cached answer sets the clock offset as a fresh one does, hence the age that
  `AnswerSetsClock` allows.
* *Vehicles.* The disabled query of `useVehiclePositions` has the key of route "1", and
  a disabled query returns what is cached: after a visit to route 1 its vehicles are on
  the page of a stop without a route. A bus without an id is on the map twice when both
  lists have it, which a test asserts. `useReloadVehiclePositions` refetches under a key
  nobody uses.
* *Popups.* A row that its own click unmounts gets no leave event, and its popup stays;
  a timer of the map that still runs closes what a row has opened. The links in a
  popup or sheet do not close it.
* *Selections that are overtaken.* A stop or route that was picked stays in its atom
  when another navigation takes the place of its own, until the page's changes
  (`overtaken` in `PageData`; the hypothesis on the atoms in `BoxFollowsPage`).
* *Search box.* Enter on an empty text navigates to a path no route has; Enter with an
  option highlighted starts two navigations, of which the second wins unless the option
  is the current route. On the page of a term `useSearchSync` does not start the search
  for it.
* *Pages.* A second click on the only route that is selected adds it to the filter
  again. Opening another route in direction 0 leaves 1 checked. While the navigation of
  the direction's radio is loading the URL has the old direction and the radio the new
  one, and when it is overtaken that stays so, until the URL changes to direction 1 or
  the radio is used again. `parseArrivalTime` moves
  a time to tomorrow from 13 hours on (`diff(..., "hour") > 12` cuts to whole hours),
  where its comment says 12. A trip's page polls for updates that it does not use.

### Fairness

* `DataReleaseLive`: weak fairness on the steps of a run (`RunStep` or `Fail`): the runner of
  GitHub Actions executes or fails each step, with a time limit. No fairness for
  pushes, nightly runs or re-runs. `RunsEnd` needs the group to be freed by failures.
* `Nearby`: weak fairness on `FetchEnds` alone. A request is answered or fails, and
  react-query's retries are limited (offline they pause, which is left out). The interval is *not* fair: a hidden tab has none.
  So `OldListGoes` says that changing the stop itself starts the fetch.
* `MapHover`: weak fairness on the two timers: the browser runs a pending one. None for
  the pointer: `HoverEnds` needs nobody to move.
* `PageData`: weak fairness on `RouteStopsTimeline`, its interval while a route's page is
  shown, and strong fairness on `Answered` of each route: any one request may fail or be
  aborted, not every one for ever. No fairness for the user or the map's polling, which
  can be off.
* `SearchOptions`: weak fairness on the debounce and on the answer to a search.

## 4. Proofs

For every value of the constants that meets the named assumptions of the module.

| Theorem | States |
|---|---|
| `FeedCacheProofs!TypeCorrect`, `AnswersAreRecent`, `SnapshotsAreClose`, `RegressIsBounded`, `Refinement` | all four properties of the run `FeedCache`, and its types |
| `FeedCacheProofs!UsableEntriesAreRecent`, `FeedIsRecent` | whatever implements `TtlCache` uses no entry older than TTL + a fetch (`TtlCache!UsableIsRecent`); hence neither does the feed cache |
| `DataReleaseProofs!TypeCorrect`, `HitsAreRecent`, `RegressIsBounded`, `Refinement` | both properties of the run `EdgeCache`, and that a put falls back by less than a fetch |
| `DataReleaseProofs!UsableEntriesAreRecent` | `TtlCache!UsableIsRecent` of both tiers |
| `DataReleaseProofs!ReleaseTypeCorrect`, `CachedFeedIsLive`, `BackendMovesForward` | both properties of the run `DataRelease`, if nobody re-runs a run, and its types |
| `DataReleaseProofs!ReleaseIsAllowed`, `CacheUnderReleases` | the release takes only steps of `EdgeCache`, also with re-runs; hence the ages of hits, the bound on their regress and the refinement of `TtlCache` hold under it |
| `ArrivalServiceProofs!TypeCorrect`, `EachVisitOnce`, `DueBusIsShown`, `CountIsTrack`, `TrackHasDelays`, `EmptyListHasNext` | all properties of the run `ArrivalService`: `TypeOK`, `OneEntryPerVisit`, `DueBusesShown`, `TrackMatchesCount`, `TrackTimes`, `NextIsFirst` |
| `NearbyProofs!TypeCorrect`, `MapIsOfTheStop`, `PickIsListed`, `HighlightIsOfTheList`, `PicksAreKept`, `AnswersSetTheClock` | the safety properties of the run `Nearby`, and its types |
| `MapHoverProofs!TypeCorrect`, `TimersKnown`, `PopupStays`, `SecondPopupByRow` | the safety properties of the run `MapHover` |
| `PageDataProofs!TypeCorrect`, `RouteFollowsUrl`, `MapIsOfTheRoute`, `MergedOnce` | the safety properties of the run `PageData` |
| `PagesProofs!TypeCorrect`, `PressedAlwaysShown`, `RowTimeAlwaysTrue`, `StatusAlwaysFair`, `SelectorAlwaysAnswers`, `DirectionAlwaysShown` | all properties of the run `Pages` |
| `SearchProofs!TypeCorrect`, `BoxAlwaysFollows` | both properties of the run `Search` |
| `SearchProofs!OptionsTypeCorrect`, `RecentsAlwaysReachable` | the safety properties of the run `SearchOptions`, the second if `MAX_RECENT_OPTIONS <= MAX_OPTIONS` |

The type invariants of the caches, the release, `Nearby`, `MapHover` and `PageData` are
proved and their runs spend no time on them; those of `ArrivalService`, `Pages`, `Search`
and `SearchOptions`, which say more than types, are checked by their runs and proved.

**The inductive invariants.** The caches: type correctness; that an entry was stored
no later than now and holds what was published no earlier than its fetch started
(at most MaxFetch before it was stored); and that a pending fetch started no more than
MaxFetch ago. The last is what `Tick` keeps and everything else rests on: from it,
the age of stored data is TTL + MaxFetch at most, and two fills that overlap differ by
less than MaxFetch, which is the bound on the regress and, twice, on the skew of a
snapshot. The refinement maps each worker and feed (each tier at the edge) to a
`TtlCache` with its entry, its pending fills and the clock.

The release: the group holds one run and one waiting run (`GroupInv`); the waiting run
is of a commit no older than the one in the group, and that no older than what is live
(`OrderInv`); the comparison with the live feed is still right at the deployment
(`CompareInv`, for which the group is needed); nothing is stored or asked for under the
version of a run that has not rotated yet (`FreshInv`); and unless a run that deployed
another feed has still to rotate, everything stored or about to be stored under the
present version is of the live feed (`LiveInv`). A failed run counts as one that has
still to rotate. `FreshInv` is where a re-run breaks the argument, hence the
hypothesis `~Reruns`. That the release takes only steps of `EdgeCache`
(`ReleaseIsAllowed`) needs no more than its types, so that what is proved of the
edge cache alone holds here too (`CacheUnderReleases`).

For `Nearby`, the three agreements (map and stop, pick and list, highlight and list)
are nearly inductive: after every change `Publish` computes the atoms again from the
new list, and one lemma (`Refreshed`) shows that it restores them whatever the change
was. Three facts have to be added. `BehindOK`: the list of the stop before, which comes
back when a failed query is fetched again, is still that of the highlighted stop,
unless one was picked.
`ClockOK`: the clock offset is not older than the data on the screen. `LeftOK`: leaving
the page empties it. The theorems hold for any stops, buses and distances; that the
nearest stop exists is the well-foundedness of `<` on the distances in reach.

For `MapHover`, `StopGuarded` and `VehicleGuarded` say what the handlers establish
together: while the pointer is on a feature or a popup its layer's timer does not run
and its atom is set; and while a timer runs the pointer is on neither. A row breaks
neither, because it writes no timer and is left before a feature is entered.
`SecondPopupByRow` follows step by step from what each handler clears, for which it must
be known that a hidden layer (`isMobile`) has no pointer on it.

For `PageData`, `Fits` says that what a loader has kept, or is about to keep, is of the
route of its URL; `AtomFollows` that at rest, unless a selection was overtaken, the atom
is the derived route, and that a selection that is pending is of the route in the atom.
`MergedOnce` needs of the merge that a feed has a bus once, and of the invariant that
without the switch what is left are buses of the URL's route.

For `ArrivalService`, an answer is computed in one step, so the invariant is short:
types, what the feeds have said, and a conjunct (`ResponseOK`) that says of every answer
what it owes to the timetable and the snapshot it was made from. The work is in the lemmas about the functions:

* *Queries.* A bus that is due is found on the service day of yesterday or of today
  and on one of them only (`OneDate`, `RowIsFound`): this is where the windows cut off at
  00:00:00 have to meet, and where the assumption on the times of the timetable is used.
* *Candidates.* They are finitely many, one per visit; `build_arrival` turns none away
  that is due and not passed (`ArrivalIsBuilt`).
* *Selection.* The list is no longer than MaxArrivals, and if it leaves something out it is
  full of what comes no later (`SelectionFacts`, `ListLength`): a list entry per candidate,
  counted through the bijection between them.
* *Tracks.* `Keep` is ordered by place (`PlaceFacts`, by the rank of a place), so that the
  segment ends at the rider's stop and is one longer than the stops counted
  (`SegmentFacts`, `BuildTrackFacts`).
* *Delays.* The carried delay is a recursive function. That it exists (`CarriedAlong`) and
  that it is the delay of the latest known stop, or else of the first (`TrackTimesFacts`), is shown
  without an induction theorem: the least place for which it failed would be contradicted by
  the place before it. Least elements come from the well-foundedness of `<` (`LeastOf`).

`AllDueBusesShown`, which the run `ArrivalServiceMidnight` refutes, differs from the
theorem `DueBusIsShown` in the service day that the loop leaves out and in the hypothesis
on the scheduled time; the trace that the run finds has no report of a bus, so what it
shows is the service day.

For `Pages`, what a page shows is a function of the state, so `PressedIsShown`,
`RowTimeIsTrue` and `StatusIsFair` follow from the types alone, but not for any shallow
reason. The times need the arithmetic of days: quotient and remainder are unique
(`RemainderIs`), so the time of day of a prediction, of this day or the next, is what
the answer wrote (`TimeOfDay`), and the two bounds (11 hours ahead, less than 13 past)
decide which day it was (`PredictionIsReadBack`). The bounds of the status compare a minute on
one side with an instant on the other (`StatusByDelay`). The selection needs that the
filter keeps exactly its routes that are there (`KeptSet`, `SelectedFacts`), and that a
list without repetitions is as long as its set is large (`LengthOfSet`), which is what
comparing lengths in `setSelectedRouteIds` and `RoutesSelector` relies on: hence the
hypothesis of `SelectorAnswers`. Two facts are added to the types: a route's page has
always asked for the times it shows (`AskedInv`), and a pending toggle is to the direction
that is checked, while without one, and unless one was overtaken, direction 1 in the URL
is checked (`DirectionInv`), from which `DirectionShown` follows step by step.

For `Search`, the property speaks of what the box shows and the invariant of what the
effect would do. `FollowsInv`: unless the user has touched the box, it is what
`useSearchSync` would make of it now. So every render either runs the effect, and a second
run would change nothing (`SyncTwice`), or it skips it; then what the effect reads is what it
was at the last run, because two pages with the same dependencies have the
same heading, term, stop and route (`DependenciesSuffice`, the
claim behind the list that the hook keeps by hand). What the user does to the box, a
handler that starts a navigation and a render included, is the other case (`ChooseKeeps`).
The property follows by the kind of the page, or of the stop that Nearby highlights
(`PageShows`), whether a navigation is
pending or not.

For `SearchOptions`, that nothing is in the recent searches twice is inductive: what is
added is first taken out (`WithoutFacts`, `PutFirst`), whichever component adds it. That
each of them is listed, or the link to all, is arithmetic of two bounds: a list of at most
MAX_RECENT_OPTIONS ends with the link if it leaves something out, and it is cut after
MAX_OPTIONS (`NotCut`, `EmptyBoxLists`). The hypothesis MAX_RECENT_OPTIONS <= MAX_OPTIONS
is what the code has in two files (both say 8) and nothing there keeps.

The refinements of `TtlCache` carry its own theorem over: `UsableEntriesAreRecent` uses
the steps of `TtlCache` and none of the feed cache.

**Not proved, only checked.** Liveness (`RunsEnd`, `OldListGoes`, `HoverEnds`,
`RoutePageStaysLive`, `TypedIsSearched`): fairness and ENABLED are beyond the prover.
Every other property of a passing run is a theorem.

## 5. Not modelled, and why

* The GTFS-RT proxy worker: a third cache of the kind of `EdgeCache`, with one tier and
  no version. `PageData` takes an answer of any age from it (`AllAnswered`).
* The other endpoints: single read-only queries over a database that never changes in
  a running worker, and text search, a pure ranking of strings.
* The stages of the ETL: one after the other in a fresh container; the release takes
  them as one step.
* The motion of the camera (`UseMapMotion`, `NearbyFocusLayer`) and the coordinates of the
  view in the URL. The key of the last framing is of the focus atom and its target is the
  highlighted stop, so after a change of stop the camera may rest at the stop before.
* Another tab that writes the same local storage, and the dates kept with recent searches.
* Time zone changes: days have equal length.
* Layout, icons, wording, theme and settings: presentation.
* Prerendering, Terraform, dev pages, generated code: nothing that a model could refute.

## 6. Plan

1. Done: the caches, the release, the arrivals, the Nearby screen, the map's popups, the
   data of the pages, the pages and the search box; the proofs of section 4, which state
   every property of the passing runs that is not liveness.
2. `GtfsRtProxy`, as a third implementation of `TtlCache`, and the chain of the feed cache
   and the edge cache with a bound on the age of what the rider sees.
3. `EtlBuild`: a crash between the stages and the atomic replacement at the end.
4. `UseMapMotion` and `NearbyFocusLayer`: flights of the camera that a new target overtakes.
