--------------------------- MODULE SearchProofs -----------------------------
(***************************************************************************)
(* Proofs about the search box, for any stops, routes, terms and results,  *)
(* on any screen: first Search, the box and the URL, then SearchOptions,   *)
(* the lists, for any bounds on them.                                      *)
(***************************************************************************)
EXTENDS Search, SearchOptions, FiniteSetTheorems, SequenceTheorems, TLAPS

-----------------------------------------------------------------------------
(* The box and the URL *)

\* What the box may hold.
Box == [input : Texts \cup {""}, value : Option \cup {ViewAll, None}, touched : BOOLEAN]

\* Unless the user has touched it, the box is what the effect would make of it
\* now: the effect has nothing left to do.
FollowsInv ==
  Mounted(page) /\ ~box.touched => box = useSearchSync(page, currentStop, currentRoute, box)

IInv == TypeOK /\ FollowsInv

\* The page of a stop or route is an option and a page.
LEMMA PageOfFacts ==
  /\ \A s \in Stops : PageOf(s) = At("stop", s)
  /\ \A r \in Routes : PageOf(r) = At("route", r)
  /\ \A x \in Things : PageOf(x) \in Option /\ PageOf(x) \in Page
<1>1. \A s \in Stops : PageOf(s) = At("stop", s)
  BY DEF PageOf
<1>2. \A r \in Routes : PageOf(r) = At("route", r)
  BY SearchItemsAssumption DEF PageOf
<1> QED
  BY <1>1, <1>2 DEF Option, Things, Page

\* A page by its kind.
LEMMA PageKinds ==
  ASSUME NEW p \in Page
  PROVE  /\ p.kind = "term" => p.of \in Texts /\ p = At("term", p.of)
         /\ p.kind = "stop" => p.of \in Stops /\ p = At("stop", p.of)
         /\ p.kind = "route" => p.of \in Routes /\ p = At("route", p.of)
         /\ p.kind = "recent" => p = ViewAll
         /\ StopOf(p) \in Stops \cup {None} /\ RouteOf(p) \in Routes \cup {None}
BY DEF Page, At, ViewAll, StopOf, RouteOf

\* An option by its kind: it leads to a page, and its label is a text.
LEMMA OptionKinds ==
  ASSUME NEW o \in Option \cup {ViewAll}
  PROVE  /\ o \in Page /\ Label(o) \in Texts
         /\ o.kind = "stop" => o.of \in Stops
         /\ o.kind = "route" => o.of \in Routes
<1>0. ViewAll.kind = "recent"
  BY DEF ViewAll, At
<1>1. CASE o = ViewAll
  BY <1>1 DEF ViewAll, At, Page, Label, Texts, Headings
<1>2. CASE \E t \in Texts : o = At("term", t)
  <2>1. o \in Page /\ o.kind = "term" /\ o.of \in Texts
    BY <1>2 DEF At, Page
  <2> QED
    BY <1>0, <2>1 DEF Label
<1>3. CASE \E s \in Stops : o = At("stop", s)
  <2>1. o \in Page /\ o.kind = "stop" /\ o.of \in Stops
    BY <1>3 DEF At, Page
  <2> QED
    BY <1>0, <2>1 DEF Label, Texts, Things
<1>4. CASE \E r \in Routes : o = At("route", r)
  <2>1. o \in Page /\ o.kind = "route" /\ o.of \in Routes
    BY <1>4 DEF At, Page
  <2> QED
    BY <1>0, <2>1 DEF Label, Texts, Things
<1> QED
  BY <1>1, <1>2, <1>3, <1>4, PageOfFacts DEF Option, Things

\* What the effect makes of a box is one that is not touched.
LEMMA SyncMakesBox ==
  ASSUME NEW p \in Page, NEW s \in Stops \cup {None}, NEW r \in Routes \cup {None},
         NEW b \in Box
  PROVE  useSearchSync(p, s, r, b) \in Box /\ ~useSearchSync(p, s, r, b).touched
<1>1. b.value \in Option \cup {ViewAll, None}
  BY DEF Box
<1>2. CASE p.kind = "favorites"
  BY <1>2 DEF useSearchSync, Box, Texts, Headings
<1>3. CASE p.kind = "recent"
  BY <1>3 DEF useSearchSync, Box, Texts, Headings
<1>4. CASE p.kind = "term"
  <2>1. p.of \in Texts /\ p \in Option
    BY <1>4, PageKinds DEF Option
  <2> QED
    BY <1>4, <2>1 DEF useSearchSync, Box
<1>5. CASE p.kind \notin {"favorites", "recent", "term"} /\ s # None
  <2>1. s \in Texts /\ PageOf(s) \in Option
    BY <1>5, PageOfFacts DEF Texts, Things
  <2> QED
    BY <1>5, <2>1 DEF useSearchSync, Box
<1>6. CASE p.kind \notin {"favorites", "recent", "term"} /\ s = None /\ r # None
  <2>1. r \in Texts /\ PageOf(r) \in Option
    BY <1>6, PageOfFacts DEF Texts, Things
  <2> QED
    BY <1>6, <2>1 DEF useSearchSync, Box
<1>7. CASE p.kind \notin {"favorites", "recent", "term"} /\ s = None /\ r = None
  BY <1>1, <1>7 DEF useSearchSync, Box
<1> QED
  BY <1>2, <1>3, <1>4, <1>5, <1>6, <1>7

\* To run the effect twice is to run it once: the value that stays where there
\* is nothing to show is the only thing it reads of the box.
LEMMA SyncTwice ==
  ASSUME NEW p, NEW s, NEW r, NEW b
  PROVE  useSearchSync(p, s, r, useSearchSync(p, s, r, b)) = useSearchSync(p, s, r, b)
BY DEF useSearchSync

\* What the effect depends on is all that it reads: it need not run when none
\* of that has changed, although it lists less than the page.
LEMMA DependenciesSuffice ==
  ASSUME NEW p \in Page, NEW s, NEW r, NEW q \in Page, NEW t, NEW u, NEW b,
         SyncDependencies(p, s, r) = SyncDependencies(q, t, u)
  PROVE  useSearchSync(p, s, r, b) = useSearchSync(q, t, u, b)
<1>1. /\ s = t /\ r = u
      /\ p.kind = "favorites" <=> q.kind = "favorites"
      /\ p.kind = "recent" <=> q.kind = "recent"
      /\ (IF p.kind = "term" THEN p.of ELSE None) = (IF q.kind = "term" THEN q.of ELSE None)
  BY DEF SyncDependencies
<1>2. None \notin Texts
  BY SearchItemsAssumption DEF Texts
<1>3. p.kind = "term" <=> q.kind = "term"
  BY <1>1, <1>2, PageKinds
<1>4. p.kind = "term" => p = q
  BY <1>1, <1>3, PageKinds
<1> QED
  BY <1>1, <1>3, <1>4 DEF useSearchSync

\* A render keeps the invariant, whatever it is of, if what the handlers made of
\* the box before the effect ran is the box as it was or marked as touched.
LEMMA RenderKeeps ==
  ASSUME IInv, NEW p \in Page, NEW s \in Stops \cup {None}, NEW r \in Routes \cup {None},
         NEW b \in Box, b = box \/ b.touched, Render(p, s, r, b)
  PROVE  /\ isMobile' = isMobile /\ page' \in Page
         /\ currentStop' \in Stops \cup {None} /\ currentRoute' \in Routes \cup {None}
         /\ box' \in Box
         /\ FollowsInv'
<1>1. page' = p /\ currentStop' = s /\ currentRoute' = r /\ isMobile' = isMobile
  BY DEF Render
<1>2. useSearchBox \in Box /\ useSearchBox.touched = FALSE
  BY DEF useSearchBox, Box
<1>3. CASE ~Mounted(p)
  <2>1. box' = useSearchBox
    BY <1>3 DEF Render
  <2> QED
    BY <1>1, <1>2, <1>3, <2>1 DEF FollowsInv, Mounted
<1>4. ASSUME NEW c \in Box, box' = useSearchSync(p, s, r, c)
      PROVE  box' \in Box /\ FollowsInv'
  <2>1. box' \in Box
    BY <1>4, SyncMakesBox
  <2>2. box' = useSearchSync(p, s, r, box')
    BY <1>4, SyncTwice
  <2>3. useSearchSync(p, s, r, box') = useSearchSync(page', currentStop', currentRoute', box')
    BY <1>1
  <2> QED
    BY <2>1, <2>2, <2>3 DEF FollowsInv
<1>5. CASE Mounted(p) /\ ~Mounted(page)
  <2>1. box' = useSearchSync(p, s, r, useSearchBox)
    BY <1>5 DEF Render
  <2> QED
    BY <1>1, <1>2, <1>4, <2>1
<1>6. CASE Mounted(p) /\ Mounted(page)
  <2>1. \/ box' = useSearchSync(p, s, r, b)
        \/ /\ box' = b
           /\ SyncDependencies(p, s, r) = SyncDependencies(page, currentStop, currentRoute)
    BY <1>6 DEF Render
  <2>2. CASE box' = b /\ b.touched
    BY <1>1, <2>2 DEF FollowsInv
  <2>3. CASE /\ box' = box /\ ~box.touched /\ b = box
             /\ SyncDependencies(p, s, r) = SyncDependencies(page, currentStop, currentRoute)
    <3>1. box = useSearchSync(page, currentStop, currentRoute, box)
      BY <1>6, <2>3 DEF IInv, FollowsInv
    <3>2. page \in Page
      BY DEF IInv, TypeOK
    <3>3. useSearchSync(p, s, r, box) = useSearchSync(page, currentStop, currentRoute, box)
      BY <2>3, <3>2, DependenciesSuffice
    <3> QED
      BY <1>1, <2>3, <3>1, <3>3 DEF FollowsInv
  <2> QED
    BY <1>1, <1>4, <2>1, <2>2, <2>3
<1> QED
  BY <1>1, <1>3, <1>5, <1>6

\* Nothing of the page and the box changes.
LEMMA BoxKeeps ==
  ASSUME IInv, UNCHANGED <<isMobile, page, currentStop, currentRoute, box>>, nav' \in Page \cup {None}
  PROVE  IInv'
BY DEF IInv, TypeOK, FollowsInv, Mounted

\* The pages the client has links to.
LEMMA LinksArePages ==
  /\ Home \in Page /\ At("lost", None) \in Page
  /\ BottomTabs \cup AssistiveChips \subseteq Page
  /\ \A t \in Texts : At("term", t) \in Page
  /\ \A s \in Stops : At("stop", s) \in Page
  /\ \A r \in Routes : At("route", r) \in Page
<1>1. \A t \in Terms : t \in Texts
  BY DEF Texts
<1>2. \A t \in Special : At("term", t) \in Page
  BY <1>1, SearchAssumption DEF Page
<1> QED
  BY <1>2 DEF Home, Page, BottomTabs, AssistiveChips

\* A search leads to a page, also when its one result is opened instead.
LEMMA LoaderLeadsToPage ==
  ASSUME NEW p \in Page
  PROVE  searchLoader(p) \in Page
<1>1. CASE p.kind = "term" /\ p.of \notin Special /\ Len(Results[p.of]) = 1
  <2>1. Results[p.of] \in Seq(Things)
    BY <1>1, PageKinds, SearchItemsAssumption
  <2>2. Results[p.of][1] \in Things
    BY <1>1, <2>1
  <2> QED
    BY <1>1, <2>2, PageOfFacts DEF searchLoader
<1> QED
  BY <1>1 DEF searchLoader

\* A choice in the box keeps the invariant, whatever navigation it leaves.
LEMMA ChooseKeeps ==
  ASSUME IInv, NEW o \in Option \cup {ViewAll}, NEW n \in Page \cup {None}, Choose(o, n)
  PROVE  IInv'
<1> DEFINE chosen == [input |-> Label(o), value |-> o, touched |-> TRUE]
<1>1. chosen \in Box /\ chosen.touched
  BY OptionKinds DEF Box
<1>2. /\ page \in Page
      /\ currentStop \in Stops \cup {None} /\ currentRoute \in Routes \cup {None}
  BY DEF IInv, TypeOK
<1>3. o \in Page /\ (o.kind = "stop" => o.of \in Stops) /\ (o.kind = "route" => o.of \in Routes)
  BY OptionKinds
<1>4. \E s \in Stops \cup {None}, r \in Routes \cup {None} : Render(page, s, r, chosen)
  BY <1>2, <1>3 DEF Choose
<1>5. nav' \in Page \cup {None}
  BY <1>3 DEF Choose
<1> HIDE DEF chosen
<1> QED
  BY <1>1, <1>2, <1>4, <1>5, RenderKeeps DEF IInv, TypeOK, Box

LEMMA SearchInit == Init => IInv
<1> SUFFICES ASSUME Init PROVE IInv
  OBVIOUS
<1>1. TypeOK
  BY LinksArePages DEF Init, TypeOK, useSearchBox
<1>2. useSearchSync(Home, None, None, useSearchBox) = useSearchBox
  BY DEF useSearchSync, Home, At, useSearchBox
<1> QED
  BY <1>1, <1>2 DEF Init, IInv, FollowsInv

\* Every action keeps the invariant.
LEMMA SearchNext == IInv /\ [Next]_vars => IInv'
<1> SUFFICES ASSUME IInv, [Next]_vars PROVE IInv'
  OBVIOUS
<1>0. /\ page \in Page /\ nav \in Page \cup {None}
      /\ currentStop \in Stops \cup {None} /\ currentRoute \in Routes \cup {None}
      /\ box \in Box
  BY DEF IInv, TypeOK, Box
<1>1. \A text \in Texts \cup {""} : handleSearch(text) \in Page
  BY LinksArePages DEF handleSearch
<1>2. box.input \in Texts \cup {""} /\ box.value \in Option \cup {ViewAll, None}
  BY <1>0 DEF Box
<1>3. ASSUME NEW t \in Terms \cup {""}, onInputChange(t)
      PROVE  IInv'
  <2>1. /\ box' = [input |-> t, value |-> IF t = "" THEN None ELSE box.value, touched |-> TRUE]
        /\ UNCHANGED <<isMobile, page, nav, currentStop, currentRoute>>
    BY <1>3 DEF onInputChange
  <2>2. box' \in Box /\ box'.touched
    BY <1>2, <2>1 DEF Box, Texts
  <2> QED
    BY <1>0, <2>1, <2>2 DEF IInv, TypeOK, FollowsInv, Box
<1>4. ASSUME NEW o \in Option \cup {ViewAll}, handleSelect(o) \/ EnterOnOption(o)
      PROVE  IInv'
  BY <1>0, <1>1, <1>2, <1>4, ChooseKeeps DEF handleSelect, EnterOnOption
<1>5. CASE handleEnterPress
  BY <1>1, <1>2, <1>5, BoxKeeps DEF handleEnterPress
<1>6. CASE handleClearSelection
  <2>1. nav' = Home /\ UNCHANGED <<isMobile, page, currentStop, currentRoute>>
    BY <1>6 DEF handleClearSelection
  <2>2. CASE box' = box
    BY <2>1, <2>2, BoxKeeps, LinksArePages
  <2>3. CASE box' = [input |-> "", value |-> None, touched |-> TRUE]
    <3>1. box' \in Box /\ box'.touched
      BY <2>3 DEF Box
    <3> QED
      BY <1>0, <2>1, <3>1, LinksArePages DEF IInv, TypeOK, FollowsInv, Box
  <2> QED
    BY <1>6, <2>2, <2>3 DEF handleClearSelection
<1>7. ASSUME NEW p \in Page, NEW s \in Stops \cup {None}, NEW r \in Routes \cup {None},
             Render(p, s, r, box), nav' \in Page \cup {None}
      PROVE  IInv'
  BY <1>0, <1>7, RenderKeeps DEF IInv, TypeOK, Box
<1>8. ASSUME NEW s \in Stops, useCurrentStop(s)
      PROVE  IInv'
  BY <1>0, <1>7, <1>8, LinksArePages DEF useCurrentStop
<1>15. ASSUME NEW s \in Stops, useSyncMapFocus(s)
       PROVE  IInv'
  BY <1>0, <1>7, <1>15 DEF useSyncMapFocus
<1>9. ASSUME NEW r \in Routes, useCurrentRoute(r)
      PROVE  IInv'
  BY <1>0, <1>7, <1>9, LinksArePages DEF useCurrentRoute
<1>10. ASSUME NEW p \in Page, Go(p)
       PROVE  IInv'
  BY <1>10, BoxKeeps DEF Go
<1>11. CASE ResultLinks
  <2>1. page.kind = "term" /\ Results[page.of] \in Seq(Things)
    BY <1>0, <1>11, PageKinds, SearchItemsAssumption DEF ResultLinks
  <2>2. \A i \in DOMAIN Results[page.of] : PageOf(Results[page.of][i]) \in Page
    BY <2>1, PageOfFacts
  <2> QED
    BY <1>10, <1>11, <2>2 DEF ResultLinks
<1>12. CASE Open \/ setViewStateInUrl \/ History
  BY <1>10, <1>12, LinksArePages DEF Open, setViewStateInUrl, History
<1>13. CASE Commit
  <2>1. searchLoader(nav) \in Page
    BY <1>0, <1>13, LoaderLeadsToPage DEF Commit
  <2>2. \E s \in Stops \cup {None}, r \in Routes \cup {None} :
          Render(searchLoader(nav), s, r, box)
    BY <1>0, <1>13, <2>1, PageKinds DEF Commit
  <2>3. nav' = None
    BY <1>13 DEF Commit
  <2> QED
    BY <1>7, <2>1, <2>2, <2>3
<1>14. CASE UNCHANGED vars
  BY <1>0, <1>14, BoxKeeps DEF vars
<1> QED
  BY <1>3, <1>4, <1>5, <1>6, <1>8, <1>9, <1>11, <1>12, <1>13, <1>14,
     <1>15 DEF Next

LEMMA SearchInvariance == Spec => []IInv
BY SearchInit, SearchNext, PTL DEF Spec

\* The page, the navigation, the atoms and the box always hold what they may:
\* nothing leads to a search for no text (useSearchBox.ts).
THEOREM TypeCorrect == Spec => []TypeOK
<1>1. IInv => TypeOK
  BY DEF IInv
<1> QED
  BY <1>1, SearchInvariance, PTL

\* What the effect shows of a page when the atoms agree with it.
LEMMA PageShows ==
  ASSUME NEW p \in Page, NEW b
  PROVE  /\ p.kind \in {"term", "stop", "route"} =>
              useSearchSync(p, StopOf(p), RouteOf(p), b) =
                [input |-> p.of, value |-> p, touched |-> FALSE]
         /\ p.kind = "favorites" =>
              useSearchSync(p, StopOf(p), RouteOf(p), b) =
                [input |-> "Favorites", value |-> None, touched |-> FALSE]
         /\ p.kind = "recent" =>
              useSearchSync(p, StopOf(p), RouteOf(p), b) =
                [input |-> "Recent Searches", value |-> None, touched |-> FALSE]
         /\ p.kind \notin {"term", "stop", "route", "favorites", "recent"} =>
              useSearchSync(p, StopOf(p), RouteOf(p), b) =
                [input |-> "", value |-> b.value, touched |-> FALSE]
<1>1. None \notin Things
  BY SearchItemsAssumption
<1>2. CASE p.kind = "stop"
  <2>1. StopOf(p) = p.of /\ p.of # None /\ PageOf(p.of) = p
    BY <1>1, <1>2, PageKinds, PageOfFacts DEF StopOf, Things
  <2>2. StopOf(p) # None /\ p.kind \notin {"favorites", "recent", "term"}
    BY <1>2, <2>1
  <2>3. useSearchSync(p, StopOf(p), RouteOf(p), b) =
          [input |-> StopOf(p), value |-> PageOf(StopOf(p)), touched |-> FALSE]
    BY <2>2 DEF useSearchSync
  <2> QED
    BY <1>2, <2>1, <2>3
<1>3. CASE p.kind = "route"
  <2>1. StopOf(p) = None /\ RouteOf(p) = p.of /\ p.of # None /\ PageOf(p.of) = p
    BY <1>1, <1>3, PageKinds, PageOfFacts DEF StopOf, RouteOf, Things
  <2>2. /\ StopOf(p) = None /\ RouteOf(p) # None
        /\ p.kind \notin {"favorites", "recent", "term"}
    BY <1>3, <2>1
  <2>3. useSearchSync(p, StopOf(p), RouteOf(p), b) =
          [input |-> RouteOf(p), value |-> PageOf(RouteOf(p)), touched |-> FALSE]
    BY <2>2 DEF useSearchSync
  <2> QED
    BY <1>3, <2>1, <2>3
<1>4. CASE p.kind \in {"term", "favorites", "recent"}
  BY <1>4 DEF useSearchSync
<1>5. CASE p.kind \notin {"term", "stop", "route", "favorites", "recent"}
  <2>1. StopOf(p) = None /\ RouteOf(p) = None
    BY <1>5 DEF StopOf, RouteOf
  <2> QED
    BY <1>5, <2>1 DEF useSearchSync
<1> QED
  BY <1>2, <1>3, <1>4, <1>5

\* The box shows the page one is on, also while another is loading, until it is
\* touched or a selection that was overtaken stands in its atom: the list of
\* dependencies that useSearchSync.ts keeps by hand is long enough.
THEOREM BoxAlwaysFollows == Spec => []BoxFollowsPage
<1>1. IInv => BoxFollowsPage
  <2> DEFINE q == Followed
  <2> SUFFICES ASSUME IInv, Mounted(page), ~box.touched,
                      currentStop = StopOf(q), currentRoute = RouteOf(q)
               PROVE  /\ box.input = CASE q.kind \in {"term", "stop", "route"} -> q.of
                                        [] q.kind = "favorites" -> "Favorites"
                                        [] q.kind = "recent" -> "Recent Searches"
                                        [] OTHER -> ""
                      /\ q.kind \in {"term", "stop", "route"} => box.value = q
                      /\ q.kind \in {"favorites", "recent"} => box.value = None
    BY DEF BoxFollowsPage
  <2>1. PICK b : b = box
    OBVIOUS
  <2>7. box = useSearchSync(page, StopOf(q), RouteOf(q), b) /\ page \in Page
    BY <2>1 DEF IInv, TypeOK, FollowsInv
  <2>8. q \in Page
    BY <2>7, LinksArePages DEF Followed, IInv, TypeOK
  <2>9. useSearchSync(page, StopOf(q), RouteOf(q), b) = useSearchSync(q, StopOf(q), RouteOf(q), b)
    <3>1. CASE page.kind = "nearby" /\ currentStop # None
      <4>1. q.kind = "stop" /\ StopOf(q) # None
        BY <3>1 DEF Followed, At
      <4> HIDE DEF q
      <4> QED
        BY <3>1, <4>1 DEF useSearchSync
    <3>2. CASE ~(page.kind = "nearby" /\ currentStop # None)
      BY <3>2 DEF Followed
    <3> QED
      BY <3>1, <3>2
  <2> HIDE DEF q
  <2>2. box = useSearchSync(q, StopOf(q), RouteOf(q), b) /\ q \in Page
    BY <2>7, <2>8, <2>9
  <2>3. CASE q.kind \in {"term", "stop", "route"}
    <3>1. box = [input |-> q.of, value |-> q, touched |-> FALSE]
      BY <2>2, <2>3, PageShows
    <3> QED
      BY <2>3, <3>1
  <2>4. CASE q.kind = "favorites"
    <3>1. box = [input |-> "Favorites", value |-> None, touched |-> FALSE]
      BY <2>2, <2>4, PageShows
    <3> QED
      BY <2>4, <3>1
  <2>5. CASE q.kind = "recent"
    <3>1. box = [input |-> "Recent Searches", value |-> None, touched |-> FALSE]
      BY <2>2, <2>5, PageShows
    <3> QED
      BY <2>5, <3>1
  <2>6. CASE q.kind \notin {"term", "stop", "route", "favorites", "recent"}
    <3>1. box = [input |-> "", value |-> b.value, touched |-> FALSE]
      BY <2>2, <2>6, PageShows
    <3> QED
      BY <2>6, <3>1
  <2> QED
    BY <2>3, <2>4, <2>5, <2>6
<1> QED
  BY <1>1, SearchInvariance, PTL

-----------------------------------------------------------------------------
(* Lists without repetition *)

\* The places up to one of them are as many as its rank.
LEMMA PlaceFacts ==
  ASSUME NEW I \in SUBSET Int, IsFiniteSet(I)
  PROVE  /\ Cardinality(I) \in Nat
         /\ \A k \in 1..Cardinality(I) :
              Place(I, k) \in I /\ Cardinality({j \in I : j <= Place(I, k)}) = k
         /\ \A i \in I : \E k \in 1..Cardinality(I) : Place(I, k) = i
         /\ \A k, l \in 1..Cardinality(I) : k < l => Place(I, k) < Place(I, l)
<1> DEFINE UpTo(i) == {j \in I : j <= i}
           rank == [i \in I |-> Cardinality(UpTo(i))]
<1>1. Cardinality(I) \in Nat
  BY FS_CardinalityType
<1>2. ASSUME NEW i \in I
      PROVE  /\ IsFiniteSet(UpTo(i))
             /\ rank[i] \in 1..Cardinality(I)
  <2>1. UpTo(i) \in SUBSET I /\ {i} \in SUBSET UpTo(i)
    OBVIOUS
  <2>2. IsFiniteSet(UpTo(i)) /\ Cardinality(UpTo(i)) <= Cardinality(I)
    BY <2>1, FS_Subset
  <2>3. Cardinality({i}) <= Cardinality(UpTo(i)) /\ Cardinality({i}) = 1
    BY <2>1, <2>2, FS_Subset, FS_Singleton
  <2>4. Cardinality(UpTo(i)) \in Nat
    BY <2>2, FS_CardinalityType
  <2> QED
    BY <1>1, <2>2, <2>3, <2>4
<1>3. ASSUME NEW i \in I, NEW j \in I, i < j
      PROVE  rank[i] < rank[j]
  <2>1. UpTo(i) \in SUBSET UpTo(j) /\ j \in UpTo(j) /\ j \notin UpTo(i)
    <3>1. i \in Int /\ j \in Int
      OBVIOUS
    <3>2. \A x \in UpTo(i) : x \in Int /\ x <= j
      BY <1>3, <3>1
    <3>3. j \in UpTo(j) /\ j \notin UpTo(i)
      BY <1>3, <3>1
    <3>4. UpTo(i) \subseteq UpTo(j)
      BY <3>2
    <3> QED
      BY <3>3, <3>4
  <2>2. Cardinality(UpTo(i)) <= Cardinality(UpTo(j)) /\ Cardinality(UpTo(i)) # Cardinality(UpTo(j))
    BY <1>2, <2>1, FS_Subset
  <2> QED
    BY <1>2, <2>2
<1>4. \A i, j \in I : rank[i] = rank[j] => i = j
  BY <1>2, <1>3
<1>5. rank \in Surjection(I, 1..Cardinality(I))
  <2>1. rank \in Injection(I, 1..Cardinality(I))
    BY <1>2, <1>4 DEF Injection, IsInjective
  <2>2. IsFiniteSet(1..Cardinality(I)) /\ Cardinality(1..Cardinality(I)) = Cardinality(I)
    BY <1>1, FS_Interval
  <2> QED
    BY <2>1, <2>2, FS_Injection
<1>6. ASSUME NEW k \in 1..Cardinality(I)
      PROVE  Place(I, k) \in I /\ rank[Place(I, k)] = k
  <2>1. \E i \in I : rank[i] = k
    BY <1>5 DEF Surjection
  <2> QED
    BY <2>1 DEF Place
<1>7. ASSUME NEW i \in I
      PROVE  Place(I, rank[i]) = i
  BY <1>2, <1>4, <1>6
<1>8. ASSUME NEW k \in 1..Cardinality(I), NEW l \in 1..Cardinality(I), k < l
      PROVE  Place(I, k) < Place(I, l)
  <2> DEFINE p == Place(I, k)
             q == Place(I, l)
  <2>1. p \in I /\ q \in I /\ rank[p] = k /\ rank[q] = l
    BY <1>6
  <2> HIDE DEF p, q, rank
  <2>2. p \in Int /\ q \in Int /\ k \in Int /\ l \in Int
    BY <1>1, <2>1
  <2>3. p # q /\ ~(q < p)
    BY <1>3, <1>8, <2>1, <2>2
  <2> QED
    BY <2>2, <2>3 DEF p, q
<1> QED
  BY <1>1, <1>2, <1>6, <1>7, <1>8

\* What a list keeps is in it, and nothing twice that was not there twice.
LEMMA KeptList ==
  ASSUME NEW S, NEW s \in Seq(S), NEW I \in SUBSET DOMAIN s
  PROVE  /\ Keep(s, I) \in Seq(S)
         /\ ToSet(Keep(s, I)) = {s[i] : i \in I}
         /\ IsInjective(s) => IsInjective(Keep(s, I))
<1> DEFINE n == Cardinality(I)
           t == Keep(s, I)
           at(k) == Place(I, k)
<1>1. DOMAIN s = 1..Len(s) /\ Len(s) \in Nat /\ \A i \in 1..Len(s) : s[i] \in S
  BY ElementOfSeq
<1>2. IsFiniteSet(I) /\ I \in SUBSET Int
  <2>1. IsFiniteSet(1..Len(s))
    BY <1>1, FS_Interval
  <2> QED
    BY <1>1, <2>1, FS_Subset
<1>3. /\ n \in Nat
      /\ \A k \in 1..n : at(k) \in I
      /\ \A i \in I : \E k \in 1..n : at(k) = i
      /\ \A k, l \in 1..n : k < l => at(k) < at(l)
  BY <1>2, PlaceFacts
<1>4. t = [k \in 1..n |-> s[at(k)]]
  BY DEF Keep
<1> HIDE DEF n, t, at
<1>5. \A k \in 1..n : s[at(k)] \in S
  BY <1>1, <1>3
<1>6. t \in Seq(S) /\ DOMAIN t = 1..n
  BY <1>3, <1>4, <1>5
<1>7. ToSet(t) = {t[k] : k \in 1..n}
  BY <1>6 DEF ToSet
<1>8. {t[k] : k \in 1..n} = {s[i] : i \in I}
  <2>1. ASSUME NEW k \in 1..n
        PROVE  t[k] \in {s[i] : i \in I}
    BY <1>3, <1>4
  <2>2. ASSUME NEW i \in I
        PROVE  s[i] \in {t[k] : k \in 1..n}
    <3>1. PICK k \in 1..n : at(k) = i
      BY <1>3
    <3> QED
      BY <1>4, <3>1
  <2> QED
    BY <2>1, <2>2
<1>9. ASSUME IsInjective(s), NEW k \in 1..n, NEW l \in 1..n, t[k] = t[l]
      PROVE  k = l
  <2>1. s[at(k)] = s[at(l)]
    BY <1>4, <1>9
  <2>2. at(k) = at(l)
    BY <1>3, <1>9, <2>1 DEF IsInjective
  <2>3. at(k) \in Int
    BY <1>2, <1>3
  <2>4. ~(k < l) /\ ~(l < k)
    BY <1>3, <2>2, <2>3
  <2> QED
    BY <1>3, <2>4
<1>10. IsInjective(s) => IsInjective(t)
  BY <1>6, <1>9 DEF IsInjective
<1> QED
  BY <1>6, <1>7, <1>8, <1>10 DEF t

\* Without o a list has everything else, once.
LEMMA WithoutFacts ==
  ASSUME NEW S, NEW list \in Seq(S), IsInjective(list), NEW o
  PROVE  /\ Without(list, o) \in Seq(S)
         /\ IsInjective(Without(list, o))
         /\ ToSet(Without(list, o)) = ToSet(list) \ {o}
<1> DEFINE I == {i \in DOMAIN list : list[i] # o}
<1>1. I \in SUBSET DOMAIN list
  OBVIOUS
<1>2. ToSet(list) = {list[i] : i \in DOMAIN list}
  BY DEF ToSet
<1>3. {list[i] : i \in I} = {list[i] : i \in DOMAIN list} \ {o}
  OBVIOUS
<1>4. Without(list, o) = Keep(list, I)
  BY DEF Without
<1> HIDE DEF I
<1>5. /\ Keep(list, I) \in Seq(S) /\ IsInjective(Keep(list, I))
      /\ ToSet(Keep(list, I)) = {list[i] : i \in I}
  BY <1>1, KeptList
<1> QED
  BY <1>2, <1>3, <1>4, <1>5

\* What is not in a list may come before it.
LEMMA PutFirst ==
  ASSUME NEW S, NEW list \in Seq(S), IsInjective(list), NEW o \in S, o \notin ToSet(list)
  PROVE  <<o>> \o list \in Seq(S) /\ IsInjective(<<o>> \o list)
<1> DEFINE t == <<o>> \o list
<1>1. /\ t \in Seq(S) /\ Len(list) \in Nat /\ DOMAIN list = 1..Len(list)
      /\ DOMAIN t = 1..(Len(list) + 1)
      /\ t[1] = o
      /\ \A i \in 1..(Len(list) + 1) : i # 1 => t[i] = list[i - 1]
  OBVIOUS
<1>2. \A i \in 1..Len(list) : list[i] # o
  BY <1>1 DEF ToSet
<1> HIDE DEF t
<1>3. ASSUME NEW i \in DOMAIN t, NEW j \in DOMAIN t, t[i] = t[j]
      PROVE  i = j
  <2>1. CASE i = 1
    <3>1. j # 1 => t[j] = list[j - 1] /\ j - 1 \in 1..Len(list)
      BY <1>1
    <3> QED
      BY <1>1, <1>2, <1>3, <2>1, <3>1
  <2>2. CASE j = 1
    <3>1. i # 1 => t[i] = list[i - 1] /\ i - 1 \in 1..Len(list)
      BY <1>1
    <3> QED
      BY <1>1, <1>2, <1>3, <2>2, <3>1
  <2>3. CASE i # 1 /\ j # 1
    <3>1. /\ t[i] = list[i - 1] /\ i - 1 \in DOMAIN list
          /\ t[j] = list[j - 1] /\ j - 1 \in DOMAIN list
      BY <1>1, <2>3
    <3>2. i - 1 = j - 1
      BY <1>3, <3>1 DEF IsInjective
    <3> QED
      BY <1>1, <3>2
  <2> QED
    BY <2>1, <2>2, <2>3
<1> QED
  BY <1>1, <1>3 DEF IsInjective, t

-----------------------------------------------------------------------------
(* The lists of the box *)

\* What RecentsReachable needs: no recent search is there twice.
OptionsIInv == OptionsTypeOK /\ IsInjective(recentSearches)

\* A recent search that is added, or added again, is there once.
LEMMA Remembered ==
  ASSUME OptionsIInv, NEW o \in Option, addToRecentSearches(o)
  PROVE  recentSearches' \in Seq(Option) /\ IsInjective(recentSearches')
<1> DEFINE rest == Without(recentSearches, o)
<1>1. /\ rest \in Seq(Option) /\ IsInjective(rest)
      /\ ToSet(rest) = ToSet(recentSearches) \ {o}
  BY WithoutFacts DEF OptionsIInv, OptionsTypeOK
<1>2. recentSearches' = <<o>> \o rest
  BY DEF addToRecentSearches
<1> HIDE DEF rest
<1> QED
  BY <1>1, <1>2, PutFirst

\* One that is taken out leaves the others as they were.
LEMMA Forgotten ==
  ASSUME OptionsIInv, NEW o, recentSearches' = Without(recentSearches, o)
  PROVE  recentSearches' \in Seq(Option) /\ IsInjective(recentSearches')
BY WithoutFacts DEF OptionsIInv, OptionsTypeOK

\* A favourite is added or taken out.
LEMMA Saved ==
  ASSUME OptionsIInv, NEW o \in Option, useFavorites(o)
  PROVE  favorites' \in Seq(Option) /\ IsInjective(favorites')
<1>1. favorites \in Seq(Option) /\ IsInjective(favorites)
  BY DEF OptionsIInv, OptionsTypeOK
<1>2. CASE o \in ToSet(favorites)
  <2>1. favorites' = Without(favorites, o)
    BY <1>2 DEF useFavorites
  <2> QED
    BY <1>1, <2>1, WithoutFacts
<1>3. CASE o \notin ToSet(favorites)
  <2>1. favorites' = <<o>> \o favorites
    BY <1>3 DEF useFavorites
  <2> QED
    BY <1>1, <1>3, <2>1, PutFirst
<1> QED
  BY <1>2, <1>3

\* The empty list.
LEMMA NothingYet == <<>> \in Seq(Option) /\ IsInjective(<<>>)
BY DEF IsInjective

LEMMA OptionsStart == OptionsInit => OptionsIInv
BY NothingYet DEF OptionsInit, OptionsIInv, OptionsTypeOK

\* An action that leaves the box alone keeps the types, if the lists keep theirs.
LEMMA BoxAlone ==
  ASSUME OptionsIInv, UNCHANGED boxVars,
         recentSearches' \in Seq(Option), IsInjective(recentSearches'),
         favorites' \in Seq(Option), IsInjective(favorites')
  PROVE  OptionsIInv'
BY DEF OptionsIInv, OptionsTypeOK, boxVars

LEMMA OptionsStep == OptionsIInv /\ [OptionsNext]_optionsVars => OptionsIInv'
<1> SUFFICES ASSUME OptionsIInv, [OptionsNext]_optionsVars PROVE OptionsIInv'
  OBVIOUS
<1> USE DEF OptionsIInv
<1>0. /\ \A x \in Things : PageOf(x) \in Option /\ x \in Texts
      /\ \A t \in Terms : At("term", t) \in Option /\ t \in Texts
      /\ {"Favorites", "Recent Searches"} \subseteq Texts
      /\ Routes \subseteq Things /\ Stops \subseteq Things
  BY DEF Option, Texts, Things, Headings
<1>1. ASSUME NEW t \in Terms \cup {""}, handleInputValueChange(t) PROVE OptionsIInv'
  BY <1>0, <1>1 DEF handleInputValueChange, OptionsTypeOK
<1>2. CASE delayedSearch
  BY <1>0, <1>2 DEF delayedSearch, OptionsTypeOK
<1>3. CASE useSearch
  BY <1>3 DEF useSearch, OptionsTypeOK
<1>4. ASSUME NEW o \in Option \cup {ViewAll}, handleChange(o) PROVE OptionsIInv'
  <2>1. recentSearches' \in Seq(Option) /\ IsInjective(recentSearches')
    <3>1. CASE \E x \in Things : o = PageOf(x)
      BY <1>0, <1>4, <3>1, Remembered DEF handleChange
    <3>2. CASE ~\E x \in Things : o = PageOf(x)
      BY <1>4, <3>2 DEF handleChange, OptionsTypeOK
    <3> QED
      BY <3>1, <3>2
  <2>2. Label(o) \in Texts
    BY OptionKinds
  <2> QED
    BY <1>4, <2>1, <2>2 DEF handleChange, OptionsTypeOK
<1>5. ASSUME NEW r \in Routes, handleChangeCurrent(r) PROVE OptionsIInv'
  BY <1>0, <1>5 DEF handleChangeCurrent, OptionsTypeOK
<1>6. CASE clearSelection
  BY <1>6 DEF clearSelection, OptionsTypeOK
<1>7. CASE SearchSync
  <2>1. /\ inputString' \in Texts \cup {""} /\ value' \in Option \cup {ViewAll, None}
        /\ internalSearchTerm' \in Texts \cup {""}
    BY <1>0, <1>7 DEF SearchSync, OptionsTypeOK
  <2> QED
    BY <1>7, <2>1 DEF SearchSync, OptionsTypeOK
<1>8. CASE Unmount
  BY <1>8 DEF Unmount, OptionsTypeOK
<1>9. CASE SearchResultsMenu
  <2>1. PICK t \in Terms : \/ addToRecentSearches(At("term", t))
                           \/ \E x \in ToSet(Results[t]) : addToRecentSearches(PageOf(x))
    BY <1>9 DEF SearchResultsMenu
  <2>2. Results[t] \in Seq(Things)
    BY SearchItemsAssumption DEF Texts
  <2>3. ToSet(Results[t]) \subseteq Things
    BY <2>2, ElementOfSeq DEF ToSet
  <2>4. recentSearches' \in Seq(Option) /\ IsInjective(recentSearches')
    BY <1>0, <2>1, <2>3, Remembered
  <2> QED
    BY <1>9, <2>4, BoxAlone DEF SearchResultsMenu, OptionsTypeOK
<1>10. CASE setStop
  <2>1. recentSearches' \in Seq(Option) /\ IsInjective(recentSearches')
    BY <1>0, <1>10, Remembered DEF setStop
  <2> QED
    BY <1>10, <2>1, BoxAlone DEF setStop, OptionsTypeOK
<1>11. CASE SearchOptionRow
  <2>1. recentSearches' \in Seq(Option) /\ IsInjective(recentSearches')
    BY <1>11, Forgotten DEF SearchOptionRow
  <2> QED
    BY <1>11, <2>1, BoxAlone DEF SearchOptionRow, OptionsTypeOK
<1>12. CASE RecentSearchesMenu
  <2>1. recentSearches' \in Seq(Option) /\ IsInjective(recentSearches')
    BY <1>12, Forgotten DEF RecentSearchesMenu
  <2> QED
    BY <1>12, <2>1, BoxAlone DEF RecentSearchesMenu, OptionsTypeOK
<1>13. CASE clearRecentSearches
  BY <1>13, NothingYet, BoxAlone DEF clearRecentSearches, OptionsTypeOK
<1>14. CASE AddToFavorites
  <2>1. favorites' \in Seq(Option) /\ IsInjective(favorites')
    BY <1>0, <1>14, Saved DEF AddToFavorites
  <2> QED
    BY <1>14, <2>1, BoxAlone DEF AddToFavorites, OptionsTypeOK
<1>15. CASE UNCHANGED optionsVars
  BY <1>15 DEF optionsVars, OptionsTypeOK
<1> QED
  BY <1>1, <1>2, <1>3, <1>4, <1>5, <1>6, <1>7, <1>8, <1>9, <1>10, <1>11, <1>12, <1>13,
     <1>14, <1>15 DEF OptionsNext

LEMMA OptionsInvariance == OptionsSpec => []OptionsIInv
BY OptionsStart, OptionsStep, PTL DEF OptionsSpec

\* The box, what it waits for and what it shows keep their types for any stops,
\* routes, terms and results, and no favourite is saved twice.
THEOREM OptionsTypeCorrect == OptionsSpec => []OptionsTypeOK
<1>1. OptionsIInv => OptionsTypeOK
  BY DEF OptionsIInv
<1> QED
  BY <1>1, OptionsInvariance, PTL

\* A list that is not longer than the bound is not cut.
LEMMA NotCut ==
  ASSUME NEW S, NEW list \in Seq(S), Len(list) <= MAX_OPTIONS
  PROVE  SubSeq(list, 1, Min({MAX_OPTIONS, Len(list)})) = list
<1> DEFINE n == Len(list)
<1>1. n \in Nat /\ MAX_OPTIONS \in Nat /\ n <= MAX_OPTIONS
  BY SearchOptionsAssumption
<1>2. SubSeq(list, 1, n) = list
  OBVIOUS
<1> HIDE DEF n
<1>3. Min({MAX_OPTIONS, n}) = n
  BY <1>1 DEF Min
<1> QED
  BY <1>2, <1>3 DEF n

\* An empty box that may list as many options as there are recent ones.
LEMMA EmptyBoxLists ==
  ASSUME recentSearches \in Seq(Option), MAX_RECENT_OPTIONS <= MAX_OPTIONS,
         useSearchOptions = recentOptions
  PROVE  ToSet(recentSearches) \subseteq Listed \/ ViewAll \in Listed
<1> DEFINE n == Len(recentSearches)
           m == MAX_RECENT_OPTIONS
           some == SubSeq(recentSearches, 1, m - 1)
<1>1. n \in Nat /\ m \in Nat \ {0} /\ MAX_OPTIONS \in Nat /\ m <= MAX_OPTIONS
  BY SearchOptionsAssumption
<1>2. CASE n <= m
  <2>1. recentOptions = recentSearches
    BY <1>1, <1>2 DEF recentOptions
  <2>2. SearchAutocomplete = recentSearches
    BY <1>1, <1>2, <2>1, NotCut DEF SearchAutocomplete
  <2> QED
    BY <2>2 DEF Listed
<1>3. CASE n > m
  <2>1. recentOptions = Append(some, ViewAll)
    BY <1>1, <1>3 DEF recentOptions
  <2>2. some \in Seq(Option) /\ Len(some) = m - 1
    BY <1>1, <1>3
  <2> HIDE DEF some
  <2>3. /\ Append(some, ViewAll) \in Seq(Option \cup {ViewAll})
        /\ Len(Append(some, ViewAll)) = m
        /\ Append(some, ViewAll)[m] = ViewAll
    BY <1>1, <2>2
  <2>4. SearchAutocomplete = Append(some, ViewAll)
    BY <1>1, <2>1, <2>3, NotCut DEF SearchAutocomplete
  <2>5. m \in DOMAIN Append(some, ViewAll)
    BY <1>1, <2>3
  <2> QED
    BY <2>3, <2>4, <2>5 DEF Listed, ToSet
<1> QED
  BY <1>1, <1>2, <1>3

\* Every recent search is listed, or the link to all of them, as long as the
\* component that cuts the list allows for as many as the one that makes it (in
\* the code both say 8), and none is there twice.
THEOREM RecentsAlwaysReachable ==
  ASSUME MAX_RECENT_OPTIONS <= MAX_OPTIONS
  PROVE  OptionsSpec => []RecentsReachable
<1>1. OptionsIInv => RecentsReachable
  <2>1. OptionsIInv => recentSearches \in Seq(Option) /\ IsInjective(recentSearches)
    BY DEF OptionsIInv, OptionsTypeOK
  <2>2. inputString = "" => useSearchOptions = recentOptions
    BY DEF useSearchOptions
  <2> QED
    BY <2>1, <2>2, EmptyBoxLists DEF RecentsReachable
<1> QED
  BY <1>1, OptionsInvariance, PTL

=============================================================================
