--------------------------- MODULE SearchOptions ---------------------------
(***************************************************************************)
(* What the search box lists: the text that is typed is searched for after *)
(* a debounce, the results of the term before stay until the new ones come,*)
(* and with an empty box the recent searches are listed, the newest first. *)
(* With them the favourites, the other list the browser keeps.             *)
(*                                                                         *)
(* Where the box leads, and when the page has its text changed, is module  *)
(* Search's: here useSearchSync may run at any time, with any page.  A     *)
(* search that fails, another tab that writes the same lists and the time  *)
(* of a recent search (nothing reads it) are left out.                     *)
(***************************************************************************)
EXTENDS SearchItems, Lists, SequencesExt

CONSTANTS
  MAX_RECENT_OPTIONS,  \* of the recent searches
  MAX_OPTIONS          \* of any list

ASSUME SearchOptionsAssumption ==
  /\ \A t \in Texts : IsInjective(Results[t])
  /\ MAX_RECENT_OPTIONS \in Nat \ {0} /\ MAX_OPTIONS \in Nat \ {0}

VARIABLES
  inputString, value,  \* the box's text and its option
  internalSearchTerm,
  delayed,             \* the text that waits for the debounce
  shown,               \* the term whose results are the data
  recentSearches, favorites

boxVars == <<inputString, value, internalSearchTerm, delayed, shown>>
optionsVars == <<inputString, value, internalSearchTerm, delayed, shown, recentSearches, favorites>>

----------------------------------------------------------------------------
(* The lists. *)

Without(list, o) == Keep(list, {i \in DOMAIN list : list[i] # o})

addToRecentSearches(o) == recentSearches' = <<o>> \o Without(recentSearches, o)

\* Mutant: the link comes on top of the bound.
recentOptionsFull ==
  IF Len(recentSearches) > MAX_RECENT_OPTIONS
  THEN Append(SubSeq(recentSearches, 1, MAX_RECENT_OPTIONS), ViewAll)
  ELSE recentSearches

recentOptions ==
  IF Len(recentSearches) > MAX_RECENT_OPTIONS
  THEN Append(SubSeq(recentSearches, 1, MAX_RECENT_OPTIONS - 1), ViewAll)
  ELSE recentSearches

OfKind(list, kind) == Keep(list, {i \in DOMAIN list : list[i].kind = kind})

\* The routes of the results come before their stops.
useSearchOptions ==
  LET found == IF shown = None THEN <<>> ELSE Results[shown]
      results == [i \in DOMAIN found |-> PageOf(found[i])]
  IN IF inputString = "" THEN recentOptions
     ELSE IF results = <<>> /\ value # None THEN <<value>>
     ELSE OfKind(results, "route") \o OfKind(results, "stop")

\* filterOptions only cuts.
SearchAutocomplete ==
  SubSeq(useSearchOptions, 1, Min({MAX_OPTIONS, Len(useSearchOptions)}))

Listed == ToSet(SearchAutocomplete)

----------------------------------------------------------------------------
(* The box. *)

\* Typing; an empty text clears the value, too.
handleInputValueChange(t) ==
  /\ t # inputString
  /\ inputString' = t /\ value' = IF t = "" THEN None ELSE value
  /\ delayed' = t
  /\ UNCHANGED <<internalSearchTerm, shown, recentSearches, favorites>>

\* 300 ms after the last key; neither a selection nor a new page cancels it.
delayedSearch ==
  /\ delayed # None
  /\ internalSearchTerm' = delayed /\ delayed' = None
  /\ UNCHANGED <<inputString, value, shown, recentSearches, favorites>>

\* Mutant: the term is not in the key, so that the first results stay for good.
useSearchOnce ==
  /\ internalSearchTerm # "" /\ shown = None
  /\ shown' = internalSearchTerm
  /\ UNCHANGED <<inputString, value, internalSearchTerm, delayed, recentSearches, favorites>>

\* The answer for the term: until it comes, and without a term, the data stays
\* what it was.
useSearch ==
  /\ internalSearchTerm \notin {"", shown}
  /\ shown' = internalSearchTerm
  /\ UNCHANGED <<inputString, value, internalSearchTerm, delayed, recentSearches, favorites>>

\* A selection; the current route again is not remembered.
handleChange(o) ==
  /\ o \in Listed
  /\ inputString' = Label(o) /\ value' = o
  /\ IF o \in {PageOf(x) : x \in Things} THEN addToRecentSearches(o)
     ELSE UNCHANGED recentSearches
  /\ UNCHANGED <<internalSearchTerm, delayed, shown, favorites>>

handleChangeCurrent(r) ==
  /\ PageOf(r) \in Listed
  /\ inputString' = r /\ value' = PageOf(r)
  /\ UNCHANGED <<internalSearchTerm, delayed, shown, recentSearches, favorites>>

clearSelection ==
  /\ inputString # "" /\ (internalSearchTerm = "" \/ shown # None)
  /\ inputString' = "" /\ value' = None
  /\ UNCHANGED <<internalSearchTerm, delayed, shown, recentSearches, favorites>>

\* The page is another: a term, a stop or route (which is searched for at
\* once), a heading, or nothing, which leaves the value.
SearchSync ==
  /\ \/ \E t \in Terms : /\ inputString' = t /\ value' = At("term", t)
                         /\ UNCHANGED internalSearchTerm
     \/ \E x \in Things : /\ inputString' = x /\ value' = PageOf(x)
                          /\ internalSearchTerm' = x
     \/ /\ inputString' \in {"Favorites", "Recent Searches"} /\ value' = None
        /\ UNCHANGED internalSearchTerm
     \/ inputString' = "" /\ UNCHANGED <<value, internalSearchTerm>>
  /\ UNCHANGED <<delayed, shown, recentSearches, favorites>>

\* The error page and a phone's Nearby have no box; the next one is new.
Unmount ==
  /\ inputString' = "" /\ value' = None /\ internalSearchTerm' = ""
  /\ delayed' = None /\ shown' = None
  /\ UNCHANGED <<recentSearches, favorites>>

----------------------------------------------------------------------------
(* The two lists elsewhere. *)

\* The page of results remembers its term and the row that is clicked.
SearchResultsMenu ==
  /\ \E t \in Terms : /\ Results[t] # <<>>
                      /\ \/ addToRecentSearches(At("term", t))
                         \/ \E x \in ToSet(Results[t]) : addToRecentSearches(PageOf(x))
  /\ UNCHANGED <<boxVars, favorites>>

\* A stop that is selected on the map is remembered, too.
setStop == (\E s \in Stops : addToRecentSearches(PageOf(s))) /\ UNCHANGED <<boxVars, favorites>>

\* The row's button in the box.
SearchOptionRow ==
  /\ inputString = ""
  /\ \E o \in Listed \ {ViewAll} : recentSearches' = Without(recentSearches, o)
  /\ UNCHANGED <<boxVars, favorites>>

\* The row's button on the page, which lists them all.
RecentSearchesMenu ==
  /\ \E o \in ToSet(recentSearches) : recentSearches' = Without(recentSearches, o)
  /\ UNCHANGED <<boxVars, favorites>>

\* The drawer's button.
clearRecentSearches == recentSearches' = <<>> /\ UNCHANGED <<boxVars, favorites>>

\* Mutant: what is saved already is saved once more.
useFavoritesAgain(o) == favorites' = <<o>> \o favorites

\* The button of a stop's or route's page.
useFavorites(o) ==
  favorites' = IF o \in ToSet(favorites) THEN Without(favorites, o) ELSE <<o>> \o favorites

AddToFavorites ==
  (\E x \in Things : useFavorites(PageOf(x))) /\ UNCHANGED <<boxVars, recentSearches>>

----------------------------------------------------------------------------
OptionsInit ==
  /\ inputString = "" /\ value = None /\ internalSearchTerm = ""
  /\ delayed = None /\ shown = None
  /\ recentSearches = <<>> /\ favorites = <<>>

OptionsNext ==
  \/ \E t \in Terms \cup {""} : handleInputValueChange(t)
  \/ delayedSearch \/ useSearch
  \/ \E o \in Option \cup {ViewAll} : handleChange(o)
  \/ \E r \in Routes : handleChangeCurrent(r)
  \/ clearSelection \/ SearchSync \/ Unmount
  \/ SearchResultsMenu \/ setStop \/ SearchOptionRow \/ RecentSearchesMenu
  \/ clearRecentSearches \/ AddToFavorites

OptionsSpec == OptionsInit /\ [][OptionsNext]_optionsVars

OptionsFairSpec ==
  OptionsSpec /\ WF_optionsVars(delayedSearch) /\ WF_optionsVars(useSearch)

----------------------------------------------------------------------------
\* Types; no stop or route is saved twice, by any of the pages that save.
OptionsTypeOK ==
  /\ inputString \in Texts \cup {""} /\ value \in Option \cup {ViewAll, None}
  /\ internalSearchTerm \in Texts \cup {""}
  /\ delayed \in Terms \cup {"", None} /\ shown \in Texts \cup {None}
  /\ recentSearches \in Seq(Option)
  /\ favorites \in Seq(Option) /\ IsInjective(favorites)

\* With an empty box every recent search is listed or the link to all of them
\* is: two components count to a bound of their own, the one that makes the
\* options and the one that cuts them (useSearchOptions 8-38, SearchAutocomplete
\* 23-25).  And none is there twice, wherever it was added: by the box, the
\* stop's hook, a row or the page of results (two rows would share a key).
RecentsReachable ==
  /\ IsInjective(recentSearches)
  /\ inputString = "" => (ToSet(recentSearches) \subseteq Listed \/ ViewAll \in Listed)

\* What is typed is searched for and its results become the data, or the text
\* changes first (useSearchInput 27-46): whatever the page does to the box
\* meanwhile, given that a debounce fires and a search is answered.
TypedIsSearched ==
  \A t \in Terms :
    (delayed = t /\ inputString = t) ~> (shown = t \/ inputString # t)
=============================================================================
