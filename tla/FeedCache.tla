----------------------------- MODULE FeedCache ------------------------------
(***************************************************************************)
(* The GTFS-RT feed cache of the backend                                   *)
(* (server/services/gtfs_rt_client.py, gtfs_rt_service.py).                *)
(*                                                                         *)
(* Every worker process keeps _feed_cache, a map from the URL of a feed to *)
(* the time of its last successful fetch and the entities it held.  A      *)
(* request first looks there; when the entry is missing or at least TTL    *)
(* old it fetches the feed itself, and other requests of the same process  *)
(* run meanwhile: the only suspension point is the fetch, so that a        *)
(* request runs without interruption from one fetch to the next, and an    *)
(* await that finds its feed in the cache does not yield.                  *)
(*                                                                         *)
(* Feed 1 is the trip updates feed and feed 2 the vehicle positions feed,  *)
(* in the order in which get_snapshot loads them.  What is kept of the     *)
(* content of a feed is the time at which upstream composed it.            *)
(***************************************************************************)
EXTENDS Integers

CONSTANTS
  Workers,   \* the worker processes, each with a cache of its own
  Requests,  \* the requests that may be in progress at the same time
  TTL,       \* CACHE_TTL_SECONDS
  MaxFetch,  \* the longest a fetch takes, an assumption on the upstream: httpx
             \* applies FETCH_TIMEOUT_SECONDS to the connection and to each
             \* read, and nothing bounds how many reads a response needs
  MaxTime,   \* bound of the model: the clock stops here
  NoEntry    \* the feed has not been fetched by this worker

Feeds == 1..2

Entry == [at : Nat, sampled : Nat]

ASSUME FeedCacheAssumption ==
  /\ TTL \in Nat \ {0}
  /\ MaxFetch \in Nat
  /\ MaxTime \in Nat
  /\ NoEntry \notin Entry

VARIABLES
  now,       \* time.monotonic()
  cache,     \* cache[w][f]: _feed_cache of worker w
  pc,        \* where a request stands
  worker,    \* the process that serves it
  pos,       \* the feed it fetches, or one more than its last feed
  last,      \* the last feed it needs
  since,     \* when its fetch started, or when it was answered
  got        \* got[r][f]: the sample of feed f it holds

vars == <<now, cache, pc, worker, pos, last, since, got>>
requestVars == <<pc, worker, pos, last, since, got>>

PC == {"idle", "fetching", "answered", "unavailable"}

NoSample == -1

Init ==
  /\ now = 0
  /\ cache = [w \in Workers |-> [f \in Feeds |-> NoEntry]]
  /\ pc = [r \in Requests |-> "idle"]
  /\ worker \in [Requests -> Workers]
  /\ pos = [r \in Requests |-> 1]
  /\ last = [r \in Requests |-> 1]
  /\ since = [r \in Requests |-> 0]
  /\ got = [r \in Requests |-> [f \in Feeds |-> NoSample]]

\* The cached entry of a feed may be used.
\* Mutant: an entry is used in the instant it expires.
FreshInclusive(e) == e # NoEntry /\ now - e.at <= TTL
Fresh(e) == e # NoEntry /\ now - e.at < TTL

(***************************************************************************)
(* What a request does without interruption once it is to load feed p: it  *)
(* takes the feeds up to its last one from c, the cache of its worker,     *)
(* until one is not usable; that one it starts to fetch.  With all of      *)
(* them it answers.                                                        *)
(***************************************************************************)
Run(r, c, p, held) ==
  \E q \in p..(last'[r] + 1) :
    /\ \A f \in p..(q - 1) : Fresh(c[f])
    /\ q <= last'[r] => ~Fresh(c[q])
    /\ pos' = [pos EXCEPT ![r] = q]
    /\ got' = [got EXCEPT ![r] =
                 [f \in Feeds |-> IF f \in p..(q - 1) THEN c[f].sampled
                                                      ELSE held[f]]]
    /\ pc' = [pc EXCEPT ![r] = IF q <= last'[r] THEN "fetching" ELSE "answered"]
    /\ since' = [since EXCEPT ![r] = now]

(***************************************************************************)
(* A request comes in at worker w and needs the feeds first..end: both for *)
(* get_snapshot, the trip updates alone or the vehicles alone for the      *)
(* /api/rt endpoints.                                                      *)
(***************************************************************************)
Start(r, w, first, end) ==
  /\ pc[r] # "fetching"
  /\ worker' = [worker EXCEPT ![r] = w]
  /\ last' = [last EXCEPT ![r] = end]
  /\ Run(r, cache[w], first, [f \in Feeds |-> NoSample])
  /\ UNCHANGED <<now, cache>>

(***************************************************************************)
(* The fetch of r succeeds: whatever the cache now holds for the feed is   *)
(* replaced by the response, stamped with the time of its completion, and  *)
(* r runs on.  Upstream composed the response at some moment of the fetch. *)
(***************************************************************************)
\* Mutant: an entry's age counts from the start of its fetch.
FetchedStampedAtStart(r) ==
  LET w == worker[r]  f == pos[r] IN
  /\ pc[r] = "fetching"
  /\ UNCHANGED <<now, worker, last>>
  /\ \E s \in since[r]..now :
       /\ cache' = [cache EXCEPT ![w][f] = [at |-> since[r], sampled |-> s]]
       /\ Run(r, cache'[w], f, got[r])

Fetched(r) ==
  LET w == worker[r]  f == pos[r] IN
  /\ pc[r] = "fetching"
  /\ UNCHANGED <<now, worker, last>>
  /\ \E s \in since[r]..now :
       /\ cache' = [cache EXCEPT ![w][f] = [at |-> now, sampled |-> s]]
       /\ Run(r, cache'[w], f, got[r])

(***************************************************************************)
(* The fetch fails (a timeout, a refused connection, an error status, a    *)
(* body that does not parse).  get_snapshot then drops what it holds and   *)
(* answers that live data is not available; the cache stays as it is.      *)
(***************************************************************************)
Failed(r) ==
  /\ pc[r] = "fetching"
  /\ pc' = [pc EXCEPT ![r] = "unavailable"]
  /\ since' = [since EXCEPT ![r] = now]
  /\ got' = [got EXCEPT ![r] = [f \in Feeds |-> NoSample]]
  /\ UNCHANGED <<now, cache, worker, pos, last>>

\* A worker process is restarted: its cache and its requests are gone.
Restart(w) ==
  /\ cache' = [cache EXCEPT ![w] = [f \in Feeds |-> NoEntry]]
  /\ pc' = [r \in Requests |->
              IF pc[r] = "fetching" /\ worker[r] = w THEN "idle" ELSE pc[r]]
  /\ UNCHANGED <<now, worker, pos, last, since, got>>

\* Time passes, but no fetch lasts longer than MaxFetch: an upstream that keeps
\* sending a little before each read times out is left out.
\* Mutant: a fetch may hang for ever.
TickWithoutTimeout ==
  /\ now < MaxTime
  /\ now' = now + 1
  /\ UNCHANGED <<cache, requestVars>>
Tick ==
  /\ now < MaxTime
  /\ \A r \in Requests : pc[r] = "fetching" => now < since[r] + MaxFetch
  /\ now' = now + 1
  /\ UNCHANGED <<cache, requestVars>>

Next ==
  \/ Tick
  \/ \E r \in Requests, w \in Workers :
       \/ Start(r, w, 1, 2)
       \/ Start(r, w, 1, 1)
       \/ Start(r, w, 2, 2)
  \/ \E r \in Requests : Fetched(r) \/ Failed(r)
  \/ \E w \in Workers : Restart(w)

Spec == Init /\ [][Next]_vars

-----------------------------------------------------------------------------
(* Properties *)

\* Every variable holds a value of its kind.
TypeOK ==
  /\ now \in Nat
  /\ cache \in [Workers -> [Feeds -> Entry \cup {NoEntry}]]
  /\ pc \in [Requests -> PC]
  /\ worker \in [Requests -> Workers]
  /\ pos \in [Requests -> 1..3]
  /\ last \in [Requests -> Feeds]
  /\ since \in [Requests -> Nat]
  /\ got \in [Requests -> [Feeds -> Nat \cup {NoSample}]]

\* A feed of an answered request: the age of the data it was answered with.
Age(r, f) == since[r] - got[r][f]

(***************************************************************************)
(* How old live data is when a request is answered with it: the last feed  *)
(* was read at that moment, from an entry less than TTL old of a fetch of  *)
(* at most MaxFetch; an earlier feed may have waited for one more fetch.   *)
(* (CACHE_TTL_SECONDS and get_snapshot's two awaits, taken together.)      *)
(***************************************************************************)
AnswerAge ==
  \A r \in Requests : \A f \in Feeds :
    (pc[r] = "answered" /\ got[r][f] # NoSample) =>
      Age(r, f) < TTL + MaxFetch + (IF f < last[r] THEN MaxFetch ELSE 0)

(***************************************************************************)
(* A snapshot pairs trip updates with vehicle positions that were composed *)
(* at different times; arrivals are computed from the pair as if they were *)
(* one.  The vehicles are newer by less than TTL + 2 * MaxFetch and older  *)
(* by less than TTL + MaxFetch.                                            *)
(***************************************************************************)
SnapshotSkew ==
  \A r \in Requests :
    (pc[r] = "answered" /\ \A f \in Feeds : got[r][f] # NoSample) =>
      /\ got[r][2] - got[r][1] < TTL + 2 * MaxFetch
      /\ got[r][1] - got[r][2] < TTL + MaxFetch

(***************************************************************************)
(* Two requests that fetch the same feed at once both store what they get, *)
(* in the order in which they finish, so that a slow fetch may put older   *)
(* data in the place of newer.  By how much is bounded: no entry is        *)
(* replaced by data more than MaxFetch older.                              *)
(***************************************************************************)
BoundedRegress ==
  [][\A w \in Workers, f \in Feeds :
       (cache[w][f] # NoEntry /\ cache'[w][f] # NoEntry) =>
         cache'[w][f].sampled >= cache[w][f].sampled - MaxFetch]_vars

\* Refinement: all the caches of all workers are one TtlCache.
store == [k \in Workers \X Feeds |-> cache[k[1]][k[2]]]

Cache == INSTANCE TtlCache WITH Keys <- Workers \X Feeds

\* Whatever the interleaving of requests, restarts and failures, the caches
\* change only as TtlCache allows: by the end of a fetch of at most MaxFetch,
\* stamped with that end, or by the loss of entries.
ImplementsTtlCache == Cache!Spec

=============================================================================
