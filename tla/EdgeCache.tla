----------------------------- MODULE EdgeCache ------------------------------
(***************************************************************************)
(* The edge cache in front of the REST API                                 *)
(* (workers/graphql-edge-cache/src/index.ts, ttl.ts).                      *)
(*                                                                         *)
(* A request for a path with a TTL looks under a key that holds the path   *)
(* (with its sorted query) and the CACHE_VERSION the worker was deployed   *)
(* with.  On a miss the worker fetches from the backend, answers, and      *)
(* stores the answer afterwards (ctx.waitUntil): the backend may be        *)
(* redeployed with other data, and the worker with another CACHE_VERSION,  *)
(* between any two of these steps.                                         *)
(*                                                                         *)
(* Release and Rotate are what the deployment does to the backend and to   *)
(* the worker; module DataRelease says when.  Here they may happen at any  *)
(* time, with any value.                                                   *)
(***************************************************************************)
EXTENDS Integers

CONSTANTS
  RtPaths,       \* paths of the 15 s tier: they read the GTFS-RT feed
  StaticPaths,   \* the other paths under /api/: the 6 h tier
  OtherPaths,    \* paths outside /api/, never cached
  RtTtl,         \* RT_TTL
  StaticTtl,     \* STATIC_TTL
  Versions,      \* the values CACHE_VERSION takes
  FirstVersion,  \* its value at the start
  Data,          \* the data sets the backend may be built with
  FirstData,     \* the one it serves at the start
  Requests,      \* requests that may be in progress at the same time
  MaxFetch,      \* the longest time from a miss to its put
  MaxTime,       \* bound of the model: the clock stops here
  NoEntry        \* nothing is stored under a key

Paths == RtPaths \cup StaticPaths \cup OtherPaths
Keys == Paths \X Versions

Entry == [at : Nat, sampled : Nat, data : Data]

ASSUME EdgeCacheAssumption ==
  /\ RtTtl \in Nat \ {0}
  /\ StaticTtl \in Nat \ {0}
  /\ RtPaths \cap StaticPaths = {}
  /\ OtherPaths \cap (RtPaths \cup StaticPaths) = {}
  /\ FirstVersion \in Versions
  /\ FirstData \in Data
  /\ MaxFetch \in Nat
  /\ MaxTime \in Nat
  /\ NoEntry \notin Entry

VARIABLES
  now,           \* the time
  serving,       \* the data set behind the backend's answers
  version,       \* CACHE_VERSION of the deployed worker
  store,         \* caches.default
  req            \* the requests that missed: NoRequest once nothing is left to do

vars == <<now, serving, version, store, req>>

NoRequest == [step |-> "none"]

\* A request waits for the backend, or has been answered and waits for its put.
Waiting == [step : {"upstream"}, key : Keys, since : Nat]
Putting == [step : {"put"}, key : Keys, since : Nat, sampled : Nat, data : Data]

\* ttlForPath; 0 stands for undefined.
\* Mutant: one tier for both.
ttlForPathOneTier(p) == IF p \in OtherPaths THEN 0 ELSE StaticTtl
ttlForPath(p) ==
  IF p \in RtPaths THEN RtTtl ELSE IF p \in StaticPaths THEN StaticTtl ELSE 0

Init ==
  /\ now = 0
  /\ serving = FirstData
  /\ version = FirstVersion
  /\ store = [k \in Keys |-> NoEntry]
  /\ req = [r \in Requests |-> NoRequest]

\* cache.match(k) finds something: the entry has not reached its max-age.  Such
\* a request is a HIT: it is answered with the entry and changes nothing.
Usable(k) == store[k] # NoEntry /\ now - store[k].at < ttlForPath(k[1])

\* A GET request misses; its key takes the version of the worker that runs it.
Miss(r, p) ==
  LET k == <<p, version>> IN
  /\ req[r] = NoRequest
  /\ ~Usable(k)
  /\ req' = [req EXCEPT ![r] = [step |-> "upstream", key |-> k, since |-> now]]
  /\ UNCHANGED <<now, serving, version, store>>

(***************************************************************************)
(* The backend answers 200 with the data it serves at that moment.  The    *)
(* client gets the answer; for a path with a TTL the put is still to come. *)
(***************************************************************************)
Answered(r) ==
  /\ req[r].step = "upstream"
  /\ req' = [req EXCEPT ![r] =
               IF ttlForPath(@.key[1]) = 0 THEN NoRequest
               ELSE [step |-> "put", key |-> @.key, since |-> @.since,
                     sampled |-> now, data |-> serving]]
  /\ UNCHANGED <<now, serving, version, store>>

\* The backend answers with an error, or not at all: nothing is stored.
\* Mutant: an error is answered with the expired entry, which is stored again.
UpstreamErrorServesStale(r) ==
  /\ req[r].step = "upstream"
  /\ req' = [req EXCEPT ![r] =
               IF store[@.key] = NoEntry THEN NoRequest
               ELSE [step |-> "put", key |-> @.key, since |-> @.since,
                     sampled |-> store[@.key].sampled, data |-> store[@.key].data]]
  /\ UNCHANGED <<now, serving, version, store>>
UpstreamError(r) ==
  /\ req[r].step = "upstream"
  /\ req' = [req EXCEPT ![r] = NoRequest]
  /\ UNCHANGED <<now, serving, version, store>>

\* cache.put, under the key computed when the request came in.
Put(r) ==
  /\ req[r].step = "put"
  /\ store' = [store EXCEPT ![req[r].key] =
                 [at |-> now, sampled |-> req[r].sampled, data |-> req[r].data]]
  /\ req' = [req EXCEPT ![r] = NoRequest]
  /\ UNCHANGED <<now, serving, version>>

\* The put fails after the answer has gone out.
PutLost(r) ==
  /\ req[r].step = "put"
  /\ req' = [req EXCEPT ![r] = NoRequest]
  /\ UNCHANGED <<now, serving, version, store>>

\* The edge may forget an entry at any time.
Evict(k) ==
  /\ store[k] # NoEntry
  /\ store' = [store EXCEPT ![k] = NoEntry]
  /\ UNCHANGED <<now, serving, version, req>>

\* Time passes, but no request takes longer than MaxFetch from miss to put.
Tick ==
  /\ now < MaxTime
  /\ \A r \in Requests : req[r] # NoRequest => now < req[r].since + MaxFetch
  /\ now' = now + 1
  /\ UNCHANGED <<serving, version, store, req>>

\* Cloud Run switches to an image built with data set d.
Release(d) ==
  /\ serving' = d
  /\ UNCHANGED <<now, version, store, req>>

\* The worker is deployed again, with CACHE_VERSION v.
Rotate(v) ==
  /\ version' = v
  /\ UNCHANGED <<now, serving, store, req>>

WorkerNext ==
  \/ \E r \in Requests, p \in Paths : Miss(r, p)
  \/ \E r \in Requests : Answered(r) \/ UpstreamError(r) \/ Put(r) \/ PutLost(r)
  \/ \E k \in Keys : Evict(k)
  \/ Tick

Next ==
  \/ WorkerNext
  \/ \E d \in Data : Release(d)
  \/ \E v \in Versions : Rotate(v)

Spec == Init /\ [][Next]_vars

-----------------------------------------------------------------------------
(* Properties *)

\* Every variable holds a value of its kind.
TypeOK ==
  /\ now \in Nat
  /\ serving \in Data
  /\ version \in Versions
  /\ store \in [Keys -> Entry \cup {NoEntry}]
  /\ req \in [Requests -> {NoRequest} \cup Waiting \cup Putting]

(***************************************************************************)
(* The TTL is the only thing that always holds stale data back: whatever   *)
(* is deployed or rotated meanwhile, an answer from the cache was produced *)
(* by the backend less than the TTL of its tier plus MaxFetch before, and  *)
(* nothing outside /api/ is answered from the cache.                       *)
(***************************************************************************)
HitAge ==
  /\ \A k \in RtPaths \X Versions :
       Usable(k) => now - store[k].sampled < RtTtl + MaxFetch
  /\ \A k \in StaticPaths \X Versions :
       Usable(k) => now - store[k].sampled < StaticTtl + MaxFetch
  /\ \A k \in OtherPaths \X Versions : ~Usable(k)

(***************************************************************************)
(* A request that missed and was slow may store its answer over the newer  *)
(* answer of a later request; no entry is replaced by one that is more     *)
(* than MaxFetch older.                                                    *)
(***************************************************************************)
BoundedRegress ==
  [][\A k \in Keys :
       (store[k] # NoEntry /\ store'[k] # NoEntry) =>
         store'[k].sampled >= store[k].sampled - MaxFetch]_vars

(***************************************************************************)
(* Refinement: the keys of one tier are a TtlCache with the TTL of the     *)
(* tier; other paths have no entries.                                      *)
(***************************************************************************)
Stamps(K) ==
  [k \in K |-> IF store[k] = NoEntry THEN NoEntry
               ELSE [at |-> store[k].at, sampled |-> store[k].sampled]]

RtTier == INSTANCE TtlCache
  WITH Keys <- RtPaths \X Versions, TTL <- RtTtl, store <- Stamps(RtPaths \X Versions)
StaticTier == INSTANCE TtlCache
  WITH Keys <- StaticPaths \X Versions, TTL <- StaticTtl,
       store <- Stamps(StaticPaths \X Versions)

\* Redeployments of the backend and of the worker do not disturb the caches:
\* entries change only by a put of an answer at most MaxFetch old or by being
\* forgotten.
TiersImplementTtlCache == RtTier!Spec /\ StaticTier!Spec

=============================================================================
