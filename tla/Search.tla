------------------------------- MODULE Search -------------------------------
(***************************************************************************)
(* The search box of the client and the URL: what is chosen or searched    *)
(* for in the box starts navigations, and the box follows the page that is *)
(* reached.  What the box lists is in module SearchOptions; here it may be *)
(* anything.                                                               *)
(*                                                                         *)
(* A navigation is pending until its loaders are done, and a new one takes *)
(* its place; the stop and the route that are selected stand in two atoms, *)
(* which are set at once by a selection and otherwise follow the loaders;  *)
(* Nearby, which is one page here, sets the stop it highlights, too.  The  *)
(* box is not mounted on the error page nor, on a phone, on Nearby.        *)
(* Whether the list of the box is open, the view in the URL, the search    *)
(* parameters and loaders that fail are left out.                          *)
(***************************************************************************)
EXTENDS SearchItems

CONSTANTS
  Special         \* "All routes", "Nearby stops": searches of their own

ASSUME SearchAssumption == Special \subseteq Terms

VARIABLES
  isMobile,       \* the width of the screen, which decides where the box is
  page,           \* the committed location
  nav,            \* the location of the pending navigation
  currentStop, currentRoute,  \* the atoms
  box             \* its text and value; touched since it last followed a page

vars == <<isMobile, page, nav, currentStop, currentRoute, box>>

Home == At("home", None)

Page ==
  {At(k, None) : k \in {"home", "nearby", "favorites", "recent", "lost"}}
  \cup {At("term", t) : t \in Texts}
  \cup {At("stop", s) : s \in Stops} \cup {At("route", r) : r \in Routes}

StopOf(p) == IF p.kind = "stop" THEN p.of ELSE None
RouteOf(p) == IF p.kind = "route" THEN p.of ELSE None

Mounted(p) == p.kind # "lost" /\ ~(isMobile /\ p.kind = "nearby")

----------------------------------------------------------------------------
(* How the box follows the URL. *)

useSearchBox == [input |-> "", value |-> None, touched |-> FALSE]

\* The effect of useSearchSync on the box b; the selected stop comes before the
\* route, and without anything the value stays.
useSearchSync(p, s, r, b) ==
  LET Shown(text, value) == [input |-> text, value |-> value, touched |-> FALSE] IN
  CASE p.kind = "favorites" -> Shown("Favorites", None)
    [] p.kind = "recent" -> Shown("Recent Searches", None)
    [] p.kind = "term" -> Shown(p.of, p)
    [] p.kind \notin {"favorites", "recent", "term"} /\ s # None -> Shown(s, PageOf(s))
    [] p.kind \notin {"favorites", "recent", "term"} /\ s = None /\ r # None ->
         Shown(r, PageOf(r))
    [] OTHER -> Shown("", b.value)

\* What the effect depends on.
\* Mutant: not on the pages that have a heading.
SyncDependenciesTerm(p, s, r) == <<IF p.kind = "term" THEN p.of ELSE None, s, r>>

SyncDependencies(p, s, r) ==
  <<IF p.kind = "term" THEN p.of ELSE None, s, r, p.kind = "favorites", p.kind = "recent">>

\* The state after a render with these.  The effect, when it runs, has the last
\* word on what a handler made of the box; it also runs when the loaders' stop
\* or route, another object, replaces the one that was selected.
Render(p, s, r, b) ==
  /\ page' = p /\ currentStop' = s /\ currentRoute' = r /\ UNCHANGED isMobile
  /\ box' = IF ~Mounted(p) THEN useSearchBox
            ELSE IF ~Mounted(page) THEN useSearchSync(p, s, r, useSearchBox)
            ELSE IF \/ SyncDependencies(p, s, r) # SyncDependencies(page, currentStop, currentRoute)
                    \/ StopOf(p) # StopOf(page) \/ RouteOf(p) # RouteOf(page)
            THEN useSearchSync(p, s, r, b)
            ELSE b

----------------------------------------------------------------------------
(* The box's handlers. *)

\* Typing; an empty text clears the value, too.
onInputChange(t) ==
  /\ Mounted(page) /\ t # box.input
  /\ box' = [input |-> t, value |-> IF t = "" THEN None ELSE box.value, touched |-> TRUE]
  /\ UNCHANGED <<isMobile, page, nav, currentStop, currentRoute>>

\* handleSearch's target; a path without a term is nobody's.
\* Mutant: an empty text is a term like any other.
handleSearchAny(text) == At("term", text)

handleSearch(text) == IF text = "" THEN At("lost", None) ELSE At("term", text)

\* handleChange and handleSelect of the option o; a route that is the current
\* one goes nowhere, which leaves the navigation that is pending by then.
Choose(o, pending) ==
  LET chosen == [input |-> Label(o), value |-> o, touched |-> TRUE] IN
  /\ Mounted(page)
  /\ \/ /\ o.kind = "route" /\ o.of # currentRoute
        /\ Render(page, currentStop, o.of, chosen)
        /\ nav' = o
     \/ /\ o.kind = "route" /\ o.of = currentRoute
        /\ Render(page, currentStop, currentRoute, chosen)
        /\ nav' = pending
     \/ /\ o.kind = "stop"
        /\ Render(page, o.of, currentRoute, chosen)
        /\ nav' = o
     \/ /\ o.kind \in {"term", "recent"}
        /\ Render(page, currentStop, currentRoute, chosen)
        /\ nav' = o

handleSelect(o) == Choose(o, nav)

\* Enter searches for the text (less the blanks around it, so for no text if it
\* has only blanks, which is not modelled), and then selects the option that is highlighted.
handleEnterPress ==
  /\ Mounted(page)
  /\ nav' = handleSearch(box.input)
  /\ UNCHANGED <<isMobile, page, currentStop, currentRoute, box>>

EnterOnOption(o) == Choose(o, handleSearch(box.input))

\* The button is there with a text and without a spinner, which the search for
\* options (not in this module) shows, too.
handleClearSelection ==
  /\ Mounted(page) /\ box.input # "" /\ nav = None
  /\ nav' = Home
  /\ box' = IF page.kind \in {"favorites", "recent"} THEN box
            ELSE [input |-> "", value |-> None, touched |-> TRUE]
  /\ UNCHANGED <<isMobile, page, currentStop, currentRoute>>

----------------------------------------------------------------------------
(* The pages and the map. *)

Go(p) ==
  /\ nav' = p
  /\ UNCHANGED <<isMobile, page, currentStop, currentRoute, box>>

\* A selection on the map: the stop's and the route's hooks.
useCurrentStop(s) ==
  /\ page.kind # "lost"
  /\ Render(page, s, currentRoute, box) /\ nav' = At("stop", s)

useCurrentRoute(r) ==
  /\ page.kind # "lost"
  /\ Render(page, currentStop, r, box) /\ nav' = At("route", r)

\* The effect of Nearby with the data of its stop.
useSyncMapFocus(s) ==
  /\ page.kind = "nearby" /\ s # currentStop
  /\ Render(page, s, currentRoute, box) /\ UNCHANGED nav

\* What is found is also linked on its page, whatever it is.
ResultLinks ==
  page.kind = "term" /\ \E i \in DOMAIN Results[page.of] : Go(PageOf(Results[page.of][i]))

\* The tabs, the chips and the drawer.
BottomTabs == {Home, At("nearby", None), At("favorites", None)}
AssistiveChips == {At("nearby", None), At("favorites", None)} \cup {At("term", t) : t \in Special}

Open == page.kind # "lost" /\ \E p \in BottomTabs \cup AssistiveChips : Go(p)

\* 50 ms after the map came to rest its view is written into the URL of the
\* page as it was rendered then, this one or one before, when that render had
\* no navigation; it takes the place of one that was started since.
setViewStateInUrl == page.kind # "lost" /\ \E p \in Page : p.kind # "lost" /\ Go(p)

\* From the error page, too, the history leads elsewhere.
History == page.kind = "lost" /\ \E p \in Page : p.kind # "lost" /\ Go(p)

\* The location the loaders lead to: a search with one result redirects.
searchLoader(p) ==
  IF p.kind = "term" /\ p.of \notin Special /\ Len(Results[p.of]) = 1
  THEN PageOf(Results[p.of][1]) ELSE p

\* The loaders are done.  The atoms follow when what the loaders have changes
\* or a component that follows them is mounted; Nearby takes its stop back when
\* it is left.
Commit ==
  /\ nav # None
  /\ LET p == searchLoader(nav)
         mounts == Mounted(p) /\ ~Mounted(page)
         leaves == page.kind = "nearby" /\ p.kind # "nearby"
     IN Render(p,
               IF StopOf(p) # StopOf(page) \/ mounts \/ leaves THEN StopOf(p) ELSE currentStop,
               IF RouteOf(p) # RouteOf(page) \/ mounts THEN RouteOf(p) ELSE currentRoute,
               box)
  /\ nav' = None

----------------------------------------------------------------------------
Init ==
  /\ isMobile \in BOOLEAN
  /\ page = Home /\ nav = None
  /\ currentStop = None /\ currentRoute = None
  /\ box = useSearchBox

Next ==
  \/ \E t \in Terms \cup {""} : onInputChange(t)
  \/ \E o \in Option \cup {ViewAll} : handleSelect(o) \/ EnterOnOption(o)
  \/ handleEnterPress \/ handleClearSelection
  \/ \E s \in Stops : useCurrentStop(s) \/ useSyncMapFocus(s)
  \/ \E r \in Routes : useCurrentRoute(r)
  \/ ResultLinks \/ Open \/ setViewStateInUrl \/ History
  \/ Commit

Spec == Init /\ [][Next]_vars

----------------------------------------------------------------------------
\* Types; nothing leads to a search for no text (useSearchBox 84-86), which
\* would be a page of its own.
TypeOK ==
  /\ isMobile \in BOOLEAN /\ page \in Page /\ nav \in Page \cup {None}
  /\ currentStop \in Stops \cup {None} /\ currentRoute \in Routes \cup {None}
  /\ box \in [input : Texts \cup {""}, value : Option \cup {ViewAll, None}, touched : BOOLEAN]

\* What the box should show: on a desktop's Nearby the stop it highlights, if
\* any, as if one were on its page.
Followed ==
  IF page.kind = "nearby" /\ currentStop # None THEN At("stop", currentStop) ELSE page

\* The box shows the page one is on, also while another is loading: a term, a
\* stop or a route as its value and text, a heading as its text, nothing where
\* there is nothing to show (useSearchSync 39-67, whose effect lists its
\* dependencies by hand); on Nearby the highlighted stop, which goes from the box
\* when the page does.  Unless the user has typed, chosen or cleared since the
\* effect ran last, and as long as the atoms agree with the page: a selection
\* whose navigation was overtaken stays in its atom (UseCurrentStop 32,
\* UseCurrentRoute 31).
BoxFollowsPage ==
  /\ Mounted(page) /\ ~box.touched
  /\ currentStop = StopOf(Followed) /\ currentRoute = RouteOf(Followed)
  => /\ box.input = CASE Followed.kind \in {"term", "stop", "route"} -> Followed.of
                       [] Followed.kind = "favorites" -> "Favorites"
                       [] Followed.kind = "recent" -> "Recent Searches"
                       [] OTHER -> ""
     /\ Followed.kind \in {"term", "stop", "route"} => box.value = Followed
     /\ Followed.kind \in {"favorites", "recent"} => box.value = None
=============================================================================
