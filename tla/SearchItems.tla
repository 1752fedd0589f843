---------------------------- MODULE SearchItems -----------------------------
(***************************************************************************)
(* What the search box deals in: stops, routes, the texts that are typed   *)
(* or shown, and the options that are chosen and remembered                *)
(* (searchPanelUtils.ts).  Module Search has the box and the URL, module   *)
(* SearchOptions what the box lists.                                       *)
(*                                                                         *)
(* A text is a term, the label of a stop or route (which stands for it) or *)
(* a heading.                                                              *)
(***************************************************************************)
EXTENDS Sequences

CONSTANTS
  Stops, Routes,
  Terms,          \* what is typed
  Results,        \* [texts -> Seq of stops and routes]: what a search finds
  None

Things == Stops \cup Routes
Headings == {"Favorites", "Recent Searches", "View all recent searches"}
Texts == Terms \cup Things \cup Headings

ASSUME SearchItemsAssumption ==
  /\ Stops \cap Routes = {} /\ Things \cap Terms = {}
  /\ (Things \cup Terms) \cap (Headings \cup {"", None}) = {}
  /\ None \notin Headings \cup {""}
  /\ Results \in [Texts -> Seq(Things)]

At(kind, of) == [kind |-> kind, of |-> of]

PageOf(x) == At(IF x \in Stops THEN "stop" ELSE "route", x)

\* An option of the box, its value, a recent search: what it is of, which is
\* also where it leads; the link to all the recent searches is one.
Option == {At("term", t) : t \in Texts} \cup {PageOf(x) : x \in Things}

ViewAll == At("recent", None)

Label(o) == IF o = ViewAll THEN "View all recent searches" ELSE o.of

=============================================================================
