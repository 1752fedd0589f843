-------------------------- MODULE FeedCacheProofs ---------------------------
(***************************************************************************)
(* Proofs about FeedCache, for any number of workers and requests, any TTL *)
(* and any bound on the duration of a fetch.                               *)
(***************************************************************************)
EXTENDS FeedCache, TLAPS

\* c[f], if there, was sampled during a fetch of at most MaxFetch that ended
\* when the entry was stored.
EntryOK(e) ==
  e # NoEntry => /\ e.at <= now
                 /\ e.sampled <= e.at
                 /\ e.at - e.sampled <= MaxFetch

CacheInv == \A w \in Workers : \A f \in Feeds : EntryOK(cache[w][f])

\* While r waits for feed pos[r], it holds only feeds it read when it began
\* to wait, at since[r], and has waited for at most MaxFetch.
FetchInv ==
  \A r \in Requests : pc[r] = "fetching" =>
    /\ pos[r] <= last[r]
    /\ since[r] <= now
    /\ now <= since[r] + MaxFetch
    /\ \A f \in Feeds : got[r][f] # NoSample =>
         /\ f < pos[r]
         /\ got[r][f] <= since[r]
         /\ since[r] - got[r][f] < TTL + MaxFetch

AnswerInv ==
  \A r \in Requests : pc[r] = "answered" =>
    \A f \in Feeds : got[r][f] # NoSample =>
      /\ f <= last[r]
      /\ got[r][f] <= since[r]
      /\ Age(r, f) < TTL + MaxFetch + (IF f < last[r] THEN MaxFetch ELSE 0)

IInv == TypeOK /\ CacheInv /\ FetchInv /\ AnswerInv

-----------------------------------------------------------------------------

\* The two feeds, trip updates and vehicle positions.
LEMMA FeedsValue == Feeds = {1, 2}
BY DEF Feeds

(***************************************************************************)
(* The uninterrupted part of a request.  It is entered with a cache whose  *)
(* entries are in order and holding either nothing or, when feed 2 has     *)
(* just been stored, a sample of feed 1.                                   *)
(***************************************************************************)
LEMMA RunPreserves ==
  ASSUME TypeOK, FetchInv, AnswerInv,
         NEW r \in Requests,
         NEW c \in [Feeds -> Entry \cup {NoEntry}],
         \A f \in Feeds : EntryOK(c[f]),
         NEW p \in Feeds, p <= last'[r],
         NEW held \in [Feeds -> Nat \cup {NoSample}],
         \A f \in Feeds : held[f] # NoSample =>
           /\ f < p
           /\ Fresh(c[p])
           /\ held[f] <= now
           /\ now - held[f] < TTL + MaxFetch + MaxFetch,
         now' = now,
         last' \in [Requests -> Feeds],
         \A r2 \in Requests \ {r} : last'[r2] = last[r2],
         Run(r, c, p, held)
  PROVE  /\ pc' \in [Requests -> PC]
         /\ pos' \in [Requests -> 1..3]
         /\ since' \in [Requests -> Nat]
         /\ got' \in [Requests -> [Feeds -> Nat \cup {NoSample}]]
         /\ FetchInv'
         /\ AnswerInv'
<1> USE FeedCacheAssumption, FeedsValue
<1>1. PICK q \in p..(last'[r] + 1) :
        /\ \A f \in p..(q - 1) : Fresh(c[f])
        /\ q <= last'[r] => ~Fresh(c[q])
        /\ pos' = [pos EXCEPT ![r] = q]
        /\ got' = [got EXCEPT ![r] =
                     [f \in Feeds |-> IF f \in p..(q - 1) THEN c[f].sampled
                                                          ELSE held[f]]]
        /\ pc' = [pc EXCEPT ![r] = IF q <= last'[r] THEN "fetching" ELSE "answered"]
        /\ since' = [since EXCEPT ![r] = now]
  BY DEF Run
<1> DEFINE g == [f \in Feeds |-> IF f \in p..(q - 1) THEN c[f].sampled
                                                     ELSE held[f]]
<1>2. last'[r] \in {1, 2} /\ p \in {1, 2} /\ q \in 1..3
  OBVIOUS
<1>3. \A f \in p..(q - 1) :
        /\ f \in Feeds
        /\ c[f] \in Entry
        /\ c[f].sampled \in Nat
        /\ c[f].sampled <= now
        /\ now - c[f].sampled < TTL + MaxFetch
  <2> SUFFICES ASSUME NEW f \in p..(q - 1)
               PROVE  /\ f \in Feeds
                      /\ c[f] \in Entry
                      /\ c[f].sampled \in Nat
                      /\ c[f].sampled <= now
                      /\ now - c[f].sampled < TTL + MaxFetch
    OBVIOUS
  <2>1. f \in Feeds
    BY <1>2
  <2>2. c[f] # NoEntry /\ now - c[f].at < TTL
    BY <1>1 DEF Fresh
  <2>3. c[f] \in Entry
    BY <2>1, <2>2
  <2>4. now \in Nat /\ c[f].at \in Nat /\ c[f].sampled \in Nat
    BY <2>3 DEF Entry, TypeOK
  <2>5. c[f].at <= now /\ c[f].sampled <= c[f].at /\ c[f].at - c[f].sampled <= MaxFetch
    BY <2>1, <2>2 DEF EntryOK
  <2> QED
    BY <2>1, <2>2, <2>3, <2>4, <2>5
<1>4. g \in [Feeds -> Nat \cup {NoSample}]
  BY <1>3
<1>5. pc'[r] = "fetching" => \A f \in Feeds : g[f] # NoSample =>
        /\ f < q
        /\ g[f] <= now
        /\ now - g[f] < TTL + MaxFetch
  <2> SUFFICES ASSUME pc'[r] = "fetching", NEW f \in Feeds, g[f] # NoSample
               PROVE  f < q /\ g[f] <= now /\ now - g[f] < TTL + MaxFetch
    OBVIOUS
  <2>1. q <= last'[r] /\ ~Fresh(c[q])
    BY <1>1 DEF TypeOK
  <2>2. CASE f \in p..(q - 1)
    BY <2>2, <1>2, <1>3
  <2>3. CASE f \notin p..(q - 1)
    <3>1. held[f] # NoSample
      BY <2>3
    <3>2. f < p /\ Fresh(c[p])
      BY <3>1
    <3>3. p = 2 /\ q = 2
      BY <3>2, <2>1, <1>2
    <3> QED
      BY <3>2, <3>3, <2>1
  <2> QED
    BY <2>2, <2>3
<1>6. pc'[r] = "answered" => \A f \in Feeds : g[f] # NoSample =>
        /\ f <= last'[r]
        /\ g[f] <= now
        /\ now - g[f] < TTL + MaxFetch + (IF f < last'[r] THEN MaxFetch ELSE 0)
  <2> SUFFICES ASSUME pc'[r] = "answered", NEW f \in Feeds, g[f] # NoSample
               PROVE  /\ f <= last'[r]
                      /\ g[f] <= now
                      /\ now - g[f] < TTL + MaxFetch
                                        + (IF f < last'[r] THEN MaxFetch ELSE 0)
    OBVIOUS
  <2>1. q = last'[r] + 1
    BY <1>1, <1>2 DEF TypeOK
  <2>2. now \in Nat
    BY DEF TypeOK
  <2>3. CASE f \in p..(q - 1)
    <3>1. g[f] \in Nat /\ g[f] <= now /\ now - g[f] < TTL + MaxFetch
      BY <2>3, <1>3
    <3>2. f <= last'[r]
      BY <2>3, <2>1, <1>2
    <3> QED
      BY <3>1, <3>2, <2>2
  <2>4. CASE f \notin p..(q - 1)
    <3>1. g[f] = held[f]
      BY <2>4
    <3>2. f < p /\ held[f] <= now /\ now - held[f] < TTL + MaxFetch + MaxFetch
      BY <3>1
    <3>3. f < last'[r]
      BY <3>2, <1>2
    <3> QED
      BY <3>1, <3>2, <3>3, <1>2
  <2> QED
    BY <2>3, <2>4
<1>7. /\ pc' \in [Requests -> PC]
      /\ pos' \in [Requests -> 1..3]
      /\ since' \in [Requests -> Nat]
      /\ got' \in [Requests -> [Feeds -> Nat \cup {NoSample}]]
  BY <1>1, <1>2, <1>4 DEF TypeOK, PC
<1>8. /\ got'[r] = g /\ pos'[r] = q /\ since'[r] = now
      /\ \A r2 \in Requests \ {r} : /\ pc'[r2] = pc[r2]
                                    /\ pos'[r2] = pos[r2]
                                    /\ since'[r2] = since[r2]
                                    /\ got'[r2] = got[r2]
                                    /\ last'[r2] = last[r2]
  BY <1>1 DEF TypeOK
<1>9. FetchInv'
  <2> SUFFICES ASSUME NEW r2 \in Requests, pc'[r2] = "fetching"
               PROVE  /\ pos'[r2] <= last'[r2]
                      /\ since'[r2] <= now'
                      /\ now' <= since'[r2] + MaxFetch
                      /\ \A f \in Feeds : got'[r2][f] # NoSample =>
                           /\ f < pos'[r2]
                           /\ got'[r2][f] <= since'[r2]
                           /\ since'[r2] - got'[r2][f] < TTL + MaxFetch
    BY DEF FetchInv
  <2>1. CASE r2 = r
    <3>1. q <= last'[r]
      BY <1>1, <2>1 DEF TypeOK
    <3> QED
      BY <2>1, <3>1, <1>5, <1>8 DEF TypeOK
  <2>2. CASE r2 # r
    BY <2>2, <1>8 DEF FetchInv
  <2> QED
    BY <2>1, <2>2
<1>10. AnswerInv'
  <2> SUFFICES ASSUME NEW r2 \in Requests, pc'[r2] = "answered",
                      NEW f \in Feeds, got'[r2][f] # NoSample
               PROVE  /\ f <= last'[r2]
                      /\ got'[r2][f] <= since'[r2]
                      /\ since'[r2] - got'[r2][f] <
                           TTL + MaxFetch + (IF f < last'[r2] THEN MaxFetch ELSE 0)
    BY DEF AnswerInv, Age
  <2>1. CASE r2 = r
    BY <2>1, <1>6, <1>8
  <2>2. CASE r2 # r
    BY <2>2, <1>8 DEF AnswerInv, Age
  <2> QED
    BY <2>1, <2>2
<1> QED
  BY <1>7, <1>9, <1>10

-----------------------------------------------------------------------------

\* Empty caches and idle requests satisfy the invariant.
LEMMA InitInvariant == Init => IInv
<1> SUFFICES ASSUME Init PROVE IInv
  OBVIOUS
<1> USE FeedCacheAssumption, FeedsValue
<1>1. TypeOK
  BY DEF Init, TypeOK, PC
<1>2. CacheInv
  BY DEF Init, CacheInv, EntryOK
<1>3. FetchInv /\ AnswerInv
  BY DEF Init, FetchInv, AnswerInv
<1> QED
  BY <1>1, <1>2, <1>3 DEF IInv

\* A request up to its first fetch.
LEMMA StartInvariant ==
  ASSUME IInv, NEW r \in Requests, NEW w \in Workers,
         NEW first \in Feeds, NEW end \in Feeds, first <= end,
         Start(r, w, first, end)
  PROVE  IInv'
<1> USE FeedCacheAssumption, FeedsValue
<1> DEFINE none == [f \in Feeds |-> NoSample]
<1>1. /\ worker' = [worker EXCEPT ![r] = w]
      /\ last' = [last EXCEPT ![r] = end]
      /\ Run(r, cache[w], first, none)
      /\ now' = now /\ cache' = cache
  BY DEF Start
<1>2. /\ last' \in [Requests -> Feeds] /\ last'[r] = end
      /\ worker' \in [Requests -> Workers]
      /\ \A r2 \in Requests \ {r} : last'[r2] = last[r2]
  BY <1>1 DEF IInv, TypeOK
<1>3. cache[w] \in [Feeds -> Entry \cup {NoEntry}]
  BY DEF IInv, TypeOK
<1>4. \A f \in Feeds : EntryOK(cache[w][f])
  BY DEF IInv, CacheInv
<1>5. none \in [Feeds -> Nat \cup {NoSample}] /\ \A f \in Feeds : none[f] = NoSample
  OBVIOUS
<1> HIDE DEF none
<1>6. /\ pc' \in [Requests -> PC]
      /\ pos' \in [Requests -> 1..3]
      /\ since' \in [Requests -> Nat]
      /\ got' \in [Requests -> [Feeds -> Nat \cup {NoSample}]]
      /\ FetchInv'
      /\ AnswerInv'
  BY <1>1, <1>2, <1>3, <1>4, <1>5, RunPreserves DEF IInv
<1>7. TypeOK'
  BY <1>1, <1>2, <1>6 DEF IInv, TypeOK
<1>8. CacheInv'
  BY <1>1 DEF IInv, CacheInv, EntryOK
<1> QED
  BY <1>6, <1>7, <1>8 DEF IInv

\* A fetch that ends, with what follows up to the next await.
LEMMA FetchedInvariant ==
  ASSUME IInv, NEW r \in Requests, Fetched(r)
  PROVE  IInv'
<1> USE FeedCacheAssumption, FeedsValue
<1> DEFINE w == worker[r]
           f == pos[r]
<1>1. /\ w \in Workers /\ f \in Feeds /\ now \in Nat /\ since[r] \in Nat
      /\ since[r] <= now /\ now <= since[r] + MaxFetch
      /\ f <= last[r]
      /\ \A f2 \in Feeds : got[r][f2] # NoSample =>
           /\ f2 < f
           /\ got[r][f2] <= since[r]
           /\ since[r] - got[r][f2] < TTL + MaxFetch
  BY DEF IInv, TypeOK, Fetched, FetchInv
<1>2. PICK s \in since[r]..now :
        /\ cache' = [cache EXCEPT ![w][f] = [at |-> now, sampled |-> s]]
        /\ Run(r, cache'[w], f, got[r])
  BY DEF Fetched
<1> DEFINE e == [at |-> now, sampled |-> s]
<1>3. /\ e \in Entry /\ e.at = now /\ e.sampled = s
      /\ s \in Nat /\ s <= now /\ now - s <= MaxFetch /\ e # NoEntry
  BY <1>1 DEF Entry
<1>4. now' = now /\ worker' = worker /\ last' = last
  BY DEF Fetched
<1> HIDE DEF e, w, f
<1>5. /\ cache' \in [Workers -> [Feeds -> Entry \cup {NoEntry}]]
      /\ cache'[w][f] = e
      /\ \A w2 \in Workers, f2 \in Feeds :
           <<w2, f2>> # <<w, f>> => cache'[w2][f2] = cache[w2][f2]
  BY <1>1, <1>2, <1>3 DEF IInv, TypeOK, e
<1>6. \A w2 \in Workers, f2 \in Feeds : EntryOK(cache'[w2][f2])
  <2> SUFFICES ASSUME NEW w2 \in Workers, NEW f2 \in Feeds
               PROVE  EntryOK(cache'[w2][f2])
    OBVIOUS
  <2>1. EntryOK(e)
    BY <1>1, <1>3 DEF EntryOK
  <2>2. CASE <<w2, f2>> = <<w, f>>
    BY <2>1, <2>2, <1>5
  <2>3. CASE <<w2, f2>> # <<w, f>>
    BY <2>3, <1>5 DEF IInv, CacheInv
  <2> QED
    BY <2>2, <2>3
<1>7. Fresh(cache'[w][f])
  BY <1>1, <1>3, <1>5 DEF Fresh
<1>8. /\ cache'[w] \in [Feeds -> Entry \cup {NoEntry}]
      /\ \A f2 \in Feeds : EntryOK(cache'[w][f2])
      /\ last' \in [Requests -> Feeds]
      /\ f <= last'[r]
      /\ got[r] \in [Feeds -> Nat \cup {NoSample}]
  BY <1>1, <1>4, <1>5, <1>6 DEF IInv, TypeOK
<1>9. \A f2 \in Feeds : got[r][f2] # NoSample =>
        /\ f2 < f
        /\ Fresh(cache'[w][f])
        /\ got[r][f2] <= now
        /\ now - got[r][f2] < TTL + MaxFetch + MaxFetch
  BY <1>1, <1>7, <1>8
<1>10. /\ pc' \in [Requests -> PC]
       /\ pos' \in [Requests -> 1..3]
       /\ since' \in [Requests -> Nat]
       /\ got' \in [Requests -> [Feeds -> Nat \cup {NoSample}]]
       /\ FetchInv'
       /\ AnswerInv'
  BY <1>1, <1>2, <1>4, <1>8, <1>9, RunPreserves DEF IInv
<1>11. TypeOK'
  BY <1>4, <1>5, <1>10 DEF IInv, TypeOK
<1>12. CacheInv'
  BY <1>4, <1>6 DEF CacheInv, EntryOK
<1> QED
  BY <1>10, <1>11, <1>12 DEF IInv

\* A fetch that fails stores nothing.
LEMMA FailedInvariant ==
  ASSUME IInv, NEW r \in Requests, Failed(r)
  PROVE  IInv'
<1> USE FeedCacheAssumption, FeedsValue
<1>1. TypeOK'
  BY DEF IInv, TypeOK, PC, Failed
<1>2. CacheInv'
  BY DEF IInv, CacheInv, EntryOK, Failed
<1>3. \A r2 \in Requests :
        pc'[r2] \in {"fetching", "answered"} =>
          /\ pc'[r2] = pc[r2] /\ pos'[r2] = pos[r2] /\ last'[r2] = last[r2]
          /\ since'[r2] = since[r2] /\ got'[r2] = got[r2] /\ now' = now
  BY DEF IInv, TypeOK, Failed
<1>4. FetchInv'
  BY <1>3 DEF IInv, FetchInv
<1>5. AnswerInv'
  BY <1>3 DEF IInv, AnswerInv, Age
<1> QED
  BY <1>1, <1>2, <1>4, <1>5 DEF IInv

\* A worker that starts again has an empty cache.
LEMMA RestartInvariant ==
  ASSUME IInv, NEW w \in Workers, Restart(w)
  PROVE  IInv'
<1> USE FeedCacheAssumption, FeedsValue
<1>1. TypeOK'
  BY DEF IInv, TypeOK, PC, Restart
<1>2. CacheInv'
  BY DEF IInv, TypeOK, CacheInv, EntryOK, Restart
<1>3. \A r \in Requests :
        pc'[r] \in {"fetching", "answered"} =>
          /\ pc'[r] = pc[r] /\ pos'[r] = pos[r] /\ last'[r] = last[r]
          /\ since'[r] = since[r] /\ got'[r] = got[r] /\ now' = now
  BY DEF IInv, TypeOK, Restart
<1>4. FetchInv'
  BY <1>3 DEF IInv, FetchInv
<1>5. AnswerInv'
  BY <1>3 DEF IInv, AnswerInv, Age
<1> QED
  BY <1>1, <1>2, <1>4, <1>5 DEF IInv

\* Time does not pass the timeout of a fetch.
LEMMA TickInvariant ==
  ASSUME IInv, Tick
  PROVE  IInv'
<1> USE FeedCacheAssumption, FeedsValue
<1>1. TypeOK'
  BY DEF IInv, TypeOK, PC, Tick, requestVars
<1>2. CacheInv'
  <2> SUFFICES ASSUME NEW w \in Workers, NEW f \in Feeds, cache[w][f] # NoEntry
               PROVE  /\ cache[w][f].at <= now + 1
                      /\ cache[w][f].sampled <= cache[w][f].at
                      /\ cache[w][f].at - cache[w][f].sampled <= MaxFetch
    BY DEF CacheInv, EntryOK, Tick
  <2>1. cache[w][f] \in Entry
    BY DEF IInv, TypeOK
  <2> QED
    BY <2>1 DEF IInv, CacheInv, EntryOK, TypeOK, Entry
<1>3. FetchInv'
  <2> SUFFICES ASSUME NEW r \in Requests, pc[r] = "fetching"
               PROVE  /\ pos[r] <= last[r]
                      /\ since[r] <= now + 1
                      /\ now + 1 <= since[r] + MaxFetch
                      /\ \A f \in Feeds : got[r][f] # NoSample =>
                           /\ f < pos[r]
                           /\ got[r][f] <= since[r]
                           /\ since[r] - got[r][f] < TTL + MaxFetch
    BY DEF FetchInv, Tick, requestVars
  <2>1. now < since[r] + MaxFetch
    BY DEF Tick
  <2> QED
    BY <2>1 DEF IInv, FetchInv, TypeOK
<1>4. AnswerInv'
  BY DEF IInv, AnswerInv, Age, Tick, requestVars
<1> QED
  BY <1>1, <1>2, <1>3, <1>4 DEF IInv

\* A step that changes nothing.
LEMMA StutterInvariant ==
  ASSUME IInv, UNCHANGED vars
  PROVE  IInv'
BY DEF IInv, TypeOK, CacheInv, EntryOK, FetchInv, AnswerInv, Age, vars

\* Every action keeps the invariant.
LEMMA NextInvariant == IInv /\ [Next]_vars => IInv'
<1> SUFFICES ASSUME IInv, [Next]_vars PROVE IInv'
  OBVIOUS
<1> USE FeedsValue
<1>1. CASE Tick
  BY <1>1, TickInvariant
<1>2. ASSUME NEW r \in Requests, NEW w \in Workers,
             Start(r, w, 1, 2) \/ Start(r, w, 1, 1) \/ Start(r, w, 2, 2)
      PROVE  IInv'
  BY <1>2, StartInvariant
<1>3. ASSUME NEW r \in Requests, Fetched(r) PROVE IInv'
  BY <1>3, FetchedInvariant
<1>4. ASSUME NEW r \in Requests, Failed(r) PROVE IInv'
  BY <1>4, FailedInvariant
<1>5. ASSUME NEW w \in Workers, Restart(w) PROVE IInv'
  BY <1>5, RestartInvariant
<1>6. CASE UNCHANGED vars
  BY <1>6, StutterInvariant
<1> QED
  BY <1>1, <1>2, <1>3, <1>4, <1>5, <1>6 DEF Next

\* Every reachable state satisfies the inductive invariant.
THEOREM Invariance == Spec => []IInv
BY InitInvariant, NextInvariant, PTL DEF Spec

\* The variables of the feed cache keep their types: gtfs_rt_client never
\* stores anything but a stamped list of entities, and a request is always at
\* one of its four places.
THEOREM TypeCorrect == Spec => []TypeOK
<1>1. IInv => TypeOK
  BY DEF IInv
<1> QED
  BY <1>1, Invariance, PTL

\* Live data is younger than TTL + MaxFetch when a request is answered with
\* it, and younger than TTL + 2 * MaxFetch when the request had to wait for a
\* second feed, whatever other requests of the worker do meanwhile.
THEOREM AnswersAreRecent == Spec => []AnswerAge
<1>1. IInv => AnswerAge
  BY DEF IInv, AnswerInv, AnswerAge
<1> QED
  BY <1>1, Invariance, PTL

\* The two feeds of a snapshot were composed less than TTL + 2 * MaxFetch
\* apart.
THEOREM SnapshotsAreClose == Spec => []SnapshotSkew
<1>1. IInv => SnapshotSkew
  <2> USE FeedCacheAssumption, FeedsValue
  <2> SUFFICES ASSUME IInv, NEW r \in Requests, pc[r] = "answered",
                      \A f \in Feeds : got[r][f] # NoSample
               PROVE  /\ got[r][2] - got[r][1] < TTL + 2 * MaxFetch
                      /\ got[r][1] - got[r][2] < TTL + MaxFetch
    BY DEF SnapshotSkew
  <2>1. /\ since[r] \in Nat /\ last[r] \in {1, 2}
        /\ got[r][1] \in Nat /\ got[r][2] \in Nat
    BY DEF IInv, TypeOK
  <2>2. \A f \in Feeds :
          /\ f <= last[r]
          /\ got[r][f] <= since[r]
          /\ since[r] - got[r][f] <
               TTL + MaxFetch + (IF f < last[r] THEN MaxFetch ELSE 0)
    BY DEF IInv, AnswerInv, Age
  <2>3. last[r] = 2
    BY <2>1, <2>2
  <2>4. /\ got[r][1] <= since[r] /\ got[r][2] <= since[r]
        /\ since[r] - got[r][1] < TTL + MaxFetch + MaxFetch
        /\ since[r] - got[r][2] < TTL + MaxFetch
    BY <2>1, <2>2, <2>3
  <2> QED
    BY <2>1, <2>4
<1> QED
  BY <1>1, Invariance, PTL

-----------------------------------------------------------------------------
(* What a step does to the caches and the clock. *)

Stored(w, f, s) ==
  /\ s \in Nat
  /\ s >= now - MaxFetch
  /\ s <= now
  /\ cache' = [cache EXCEPT ![w][f] = [at |-> now, sampled |-> s]]
  /\ now' = now

Emptied(w) ==
  /\ cache' = [cache EXCEPT ![w] = [f \in Feeds |-> NoEntry]]
  /\ now' = now

\* What a step does to the caches: nothing, one store of a recent sample, or
\* emptying those of one worker.
LEMMA CacheStep ==
  ASSUME IInv, [Next]_vars
  PROVE  \/ cache' = cache /\ now' \in {now, now + 1}
         \/ \E w \in Workers, f \in Feeds : \E s \in Nat : Stored(w, f, s)
         \/ \E w \in Workers : Emptied(w)
<1> USE FeedCacheAssumption, FeedsValue
<1> DEFINE Goal ==
      \/ cache' = cache /\ now' \in {now, now + 1}
      \/ \E w \in Workers, f \in Feeds : \E s \in Nat : Stored(w, f, s)
      \/ \E w \in Workers : Emptied(w)
<1>1. CASE Tick
  BY <1>1 DEF Tick
<1>2. ASSUME NEW r \in Requests, NEW w \in Workers,
             Start(r, w, 1, 2) \/ Start(r, w, 1, 1) \/ Start(r, w, 2, 2)
      PROVE  Goal
  BY <1>2 DEF Start
<1>3. ASSUME NEW r \in Requests, Fetched(r) PROVE Goal
  <2>1. /\ worker[r] \in Workers /\ pos[r] \in Feeds
        /\ now \in Nat /\ since[r] \in Nat /\ now <= since[r] + MaxFetch
    BY <1>3 DEF IInv, TypeOK, FetchInv, Fetched
  <2>2. PICK s \in since[r]..now :
          cache' = [cache EXCEPT ![worker[r]][pos[r]] = [at |-> now, sampled |-> s]]
    BY <1>3 DEF Fetched
  <2>3. s \in Nat /\ s >= now - MaxFetch /\ s <= now
    BY <2>1
  <2>4. now' = now
    BY <1>3 DEF Fetched
  <2>5. Stored(worker[r], pos[r], s)
    BY <2>2, <2>3, <2>4 DEF Stored
  <2> QED
    BY <2>1, <2>3, <2>5
<1>4. ASSUME NEW r \in Requests, Failed(r) PROVE Goal
  BY <1>4 DEF Failed
<1>5. ASSUME NEW w \in Workers, Restart(w) PROVE Goal
  BY <1>5 DEF Restart, Emptied
<1>6. CASE UNCHANGED vars
  BY <1>6 DEF vars
<1> QED
  BY <1>1, <1>2, <1>3, <1>4, <1>5, <1>6 DEF Next

\* Overlapping fetches may put older data in the place of newer, but never
\* data more than MaxFetch older.
THEOREM RegressIsBounded == Spec => BoundedRegress
<1> USE FeedCacheAssumption, FeedsValue
<1>1. ASSUME IInv, [Next]_vars,
             NEW w \in Workers, NEW f \in Feeds,
             cache[w][f] # NoEntry, cache'[w][f] # NoEntry
      PROVE  cache'[w][f].sampled >= cache[w][f].sampled - MaxFetch
  <2>1. /\ cache[w][f].sampled \in Nat /\ now \in Nat
        /\ cache[w][f].sampled <= now
    <3>1. cache[w][f] \in Entry /\ now \in Nat
      BY <1>1 DEF IInv, TypeOK
    <3>2. cache[w][f].at <= now /\ cache[w][f].sampled <= cache[w][f].at
      BY <1>1 DEF IInv, CacheInv, EntryOK
    <3> QED
      BY <3>1, <3>2 DEF Entry
  <2>2. CASE cache' = cache
    BY <2>1, <2>2
  <2>3. ASSUME NEW w2 \in Workers, NEW f2 \in Feeds, NEW s \in Nat,
               Stored(w2, f2, s)
        PROVE  cache'[w][f].sampled >= cache[w][f].sampled - MaxFetch
    <3>1. CASE w = w2 /\ f = f2
      <4>1. cache'[w][f] = [at |-> now, sampled |-> s]
        BY <1>1, <2>3, <3>1 DEF Stored, IInv, TypeOK
      <4> QED
        BY <2>1, <2>3, <4>1 DEF Stored
    <3>2. CASE ~(w = w2 /\ f = f2)
      <4>1. cache'[w][f] = cache[w][f]
        BY <1>1, <2>3, <3>2 DEF Stored, IInv, TypeOK
      <4> QED
        BY <2>1, <4>1
    <3> QED
      BY <3>1, <3>2
  <2>4. ASSUME NEW w2 \in Workers, Emptied(w2)
        PROVE  cache'[w][f].sampled >= cache[w][f].sampled - MaxFetch
    <3>1. w # w2
      BY <1>1, <2>4 DEF Emptied, IInv, TypeOK
    <3>2. cache'[w] = cache[w]
      BY <1>1, <2>4, <3>1 DEF Emptied, IInv, TypeOK
    <3> QED
      BY <2>1, <3>2
  <2> QED
    BY <1>1, <2>2, <2>3, <2>4, CacheStep
<1>2. IInv /\ [Next]_vars =>
        [\A w \in Workers, f \in Feeds :
           (cache[w][f] # NoEntry /\ cache'[w][f] # NoEntry) =>
             cache'[w][f].sampled >= cache[w][f].sampled - MaxFetch]_vars
  BY <1>1
<1> QED
  BY <1>2, Invariance, PTL DEF Spec, BoundedRegress

(***************************************************************************)
(* Refinement: the caches of all workers, seen as one map from pairs of a  *)
(* worker and a feed, behave as a TtlCache.                                *)
(***************************************************************************)
LEMMA StepRefines ==
  ASSUME IInv, [Next]_vars
  PROVE  [Cache!Next]_(Cache!vars)
<1> USE FeedCacheAssumption, FeedsValue
<1> DEFINE K == Workers \X Feeds
<1>0. /\ cache \in [Workers -> [Feeds -> Entry \cup {NoEntry}]]
      /\ now \in Nat
      /\ store = [k \in K |-> cache[k[1]][k[2]]]
      /\ store' = [k \in K |-> cache'[k[1]][k[2]]]
  BY DEF IInv, TypeOK, store
<1>1. CASE cache' = cache /\ now' = now
  BY <1>0, <1>1 DEF Cache!vars
<1>2. CASE cache' = cache /\ now' = now + 1
  BY <1>0, <1>2 DEF Cache!Next, Cache!Tick
<1>3. ASSUME NEW w \in Workers, NEW f \in Feeds, NEW s \in Nat, Stored(w, f, s)
      PROVE  Cache!Next
  <2>1. <<w, f>> \in K
    OBVIOUS
  <2>2. store' = [store EXCEPT ![<<w, f>>] = [at |-> now, sampled |-> s]]
    <3>1. ASSUME NEW k \in K
          PROVE  cache'[k[1]][k[2]] =
                   IF k = <<w, f>> THEN [at |-> now, sampled |-> s]
                                   ELSE cache[k[1]][k[2]]
      BY <1>0, <1>3 DEF Stored
    <3> QED
      BY <1>0, <2>1, <3>1
  <2>3. s \in (now - MaxFetch)..now /\ s >= 0 /\ now' = now
    BY <1>0, <1>3 DEF Stored
  <2> QED
    BY <2>1, <2>2, <2>3 DEF Cache!Next, Cache!Fill
<1>4. ASSUME NEW w \in Workers, Emptied(w)
      PROVE  Cache!Next
  <2> DEFINE D == {w} \X Feeds
  <2>1. D \in SUBSET K
    OBVIOUS
  <2>2. store' = [k \in K |-> IF k \in D THEN NoEntry ELSE store[k]]
    <3>1. ASSUME NEW k \in K
          PROVE  cache'[k[1]][k[2]] =
                   IF k \in D THEN NoEntry ELSE cache[k[1]][k[2]]
      BY <1>0, <1>4 DEF Emptied
    <3> QED
      BY <1>0, <3>1
  <2>3. now' = now
    BY <1>4 DEF Emptied
  <2> QED
    BY <2>1, <2>2, <2>3 DEF Cache!Next, Cache!Drop
<1> QED
  BY <1>1, <1>2, <1>3, <1>4, CacheStep

\* The feed caches implement TtlCache: entries are stored only by the end of a
\* fetch that took at most MaxFetch, stamped with that end, and otherwise only
\* lost.
THEOREM Refinement == Spec => ImplementsTtlCache
<1>1. Init => Cache!Init
  BY DEF Init, Cache!Init, store
<1> QED
  BY <1>1, StepRefines, Invariance, PTL DEF Spec, ImplementsTtlCache, Cache!Spec

-----------------------------------------------------------------------------
(* What TtlCache promises to the readers of whatever implements it *)

\* The entries were sampled during a fill of at most MaxFetch.
SampledInFill ==
  \A k \in Workers \X Feeds : store[k] # NoEntry =>
    /\ store[k].at <= now
    /\ store[k].at - store[k].sampled <= MaxFetch

(***************************************************************************)
(* An entry that is still usable holds data less than TTL + MaxFetch old.  *)
(* This uses the steps of TtlCache and nothing else of the feed cache:     *)
(* any cache that takes no other steps keeps this promise.                 *)
(***************************************************************************)
THEOREM UsableEntriesAreRecent == ImplementsTtlCache => []Cache!UsableIsRecent
<1> DEFINE K == Workers \X Feeds
           Inv == Cache!TypeOK /\ SampledInFill
<1> USE FeedCacheAssumption
<1>0. Cache!Entry = Entry /\ NoEntry \notin Cache!Entry
  BY DEF Cache!Entry, Entry
<1>1. Cache!Init => Inv
  BY DEF Cache!Init, Cache!TypeOK, SampledInFill
<1>2. Inv /\ [Cache!Next]_(Cache!vars) => Inv'
  <2> SUFFICES ASSUME Inv, [Cache!Next]_(Cache!vars) PROVE Inv'
    OBVIOUS
  <2>1. /\ now \in Nat
        /\ store \in [K -> Cache!Entry \cup {NoEntry}]
        /\ \A k \in K : store[k] # NoEntry =>
             store[k].at \in Nat /\ store[k].sampled \in Nat
    BY DEF Cache!TypeOK, Cache!Entry
  <2>2. CASE UNCHANGED Cache!vars
    BY <2>2 DEF Cache!TypeOK, SampledInFill, Cache!vars
  <2>3. CASE Cache!Tick
    BY <2>1, <2>3 DEF Cache!TypeOK, SampledInFill, Cache!Tick
  <2>4. ASSUME NEW k \in K, Cache!Fill(k)
        PROVE  Inv'
    <3>1. PICK s \in (now - MaxFetch)..now :
            /\ s >= 0
            /\ store' = [store EXCEPT ![k] = [at |-> now, sampled |-> s]]
            /\ now' = now
      BY <2>4 DEF Cache!Fill
    <3>2. s \in Nat /\ now - s <= MaxFetch
      BY <2>1, <3>1
    <3>3. [at |-> now, sampled |-> s] \in Cache!Entry
      BY <2>1, <3>2 DEF Cache!Entry
    <3>4. Cache!TypeOK'
      BY <2>1, <3>1, <3>3 DEF Cache!TypeOK
    <3>5. SampledInFill'
      BY <2>1, <3>1, <3>2 DEF SampledInFill
    <3> QED
      BY <3>4, <3>5
  <2>5. ASSUME NEW D \in SUBSET K, Cache!Drop(D)
        PROVE  Inv'
    BY <2>5 DEF Cache!TypeOK, SampledInFill, Cache!Drop
  <2> QED
    BY <2>2, <2>3, <2>4, <2>5 DEF Cache!Next
<1>3. Inv => Cache!UsableIsRecent
  <2> SUFFICES ASSUME Inv, NEW k \in K, Cache!Usable(k)
               PROVE  now - store[k].sampled < TTL + MaxFetch
    BY DEF Cache!UsableIsRecent
  <2>1. store[k].at \in Nat /\ store[k].sampled \in Nat /\ now \in Nat
    BY DEF Cache!Usable, Cache!TypeOK, Cache!Entry
  <2>2. now - store[k].at < TTL /\ store[k].at - store[k].sampled <= MaxFetch
    BY DEF Cache!Usable, SampledInFill
  <2> QED
    BY <2>1, <2>2
<1> QED
  BY <1>1, <1>2, <1>3, PTL DEF ImplementsTtlCache, Cache!Spec

\* So the feed a worker answers from was published less than TTL and the length
\* of a fetch ago.
THEOREM FeedIsRecent == Spec => []Cache!UsableIsRecent
BY Refinement, UsableEntriesAreRecent, PTL

=============================================================================
