------------------------------ MODULE TtlCache ------------------------------
(***************************************************************************)
(* What every cache of the system promises, whatever fills it.             *)
(*                                                                         *)
(* The application keeps three caches between a rider and the data:        *)
(* the feed cache of a backend worker process, the edge cache in front of  *)
(* the REST API and the edge cache of the GTFS-RT proxy.  None of them     *)
(* invalidates an entry: each entry is stamped when it is stored, is       *)
(* usable for TTL time units after that and is replaced by a later fill.   *)
(* A fill takes at most MaxFetch from its start to the moment its result   *)
(* is stored, so what it stores is a sample of the upstream taken at most  *)
(* MaxFetch ago.                                                           *)
(*                                                                         *)
(* This is the abstract specification that FeedCache and EdgeCache are     *)
(* shown to implement.  Time is a natural number and only differences of   *)
(* times mean anything.                                                    *)
(***************************************************************************)
EXTENDS Integers

CONSTANTS
  Keys,      \* what entries are stored under
  TTL,       \* how long a stored entry is usable
  MaxFetch,  \* the longest time from the start of a fill to its end
  NoEntry    \* the value of a key under which nothing is stored

Entry == [at : Nat, sampled : Nat]

VARIABLES
  now,       \* the time
  store      \* store[k]: the entry stored under k, or NoEntry

vars == <<now, store>>

TypeOK ==
  /\ now \in Nat
  /\ store \in [Keys -> Entry \cup {NoEntry}]

Init ==
  /\ now = 0
  /\ store = [k \in Keys |-> NoEntry]

\* Time passes: any number of units while nothing is being filled.
Tick == now' = now + 1 /\ UNCHANGED store

\* A fill of k ends: its sample of the upstream is at most MaxFetch old.
Fill(k) ==
  \E s \in (now - MaxFetch)..now :
    /\ s >= 0
    /\ store' = [store EXCEPT ![k] = [at |-> now, sampled |-> s]]
    /\ UNCHANGED now

\* Entries disappear: a process restarts, an edge evicts, a key is abandoned.
Drop(K) ==
  /\ store' = [k \in Keys |-> IF k \in K THEN NoEntry ELSE store[k]]
  /\ UNCHANGED now

Next ==
  \/ Tick
  \/ \E k \in Keys : Fill(k)
  \/ \E K \in SUBSET Keys : Drop(K)

Spec == Init /\ [][Next]_vars

-----------------------------------------------------------------------------

Usable(k) == store[k] # NoEntry /\ now - store[k].at < TTL

\* An entry that is still usable holds data the upstream gave out less than
\* TTL + MaxFetch ago.
UsableIsRecent ==
  \A k \in Keys : Usable(k) => now - store[k].sampled < TTL + MaxFetch

=============================================================================
