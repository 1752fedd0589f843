------------------------- MODULE DataReleaseProofs --------------------------
(***************************************************************************)
(* Proofs about the edge cache and about the releases that act on it.      *)
(*                                                                         *)
(* First EdgeCache on its own, for any paths, versions, data sets and      *)
(* number of requests, any TTLs and any bound on the duration of a         *)
(* request, whatever is deployed and rotated meanwhile.  Then DataRelease, *)
(* for any number of workflow runs, with or without failing steps: its     *)
(* steps are steps EdgeCache allows, so that what was proved of the cache  *)
(* holds under them.  That no older feed is served or found in the cache   *)
(* is proved for runs that nobody re-runs: with re-runs neither holds.     *)
(***************************************************************************)
EXTENDS DataRelease, TLAPS

-----------------------------------------------------------------------------
(* The edge cache: its inductive invariant *)

\* An entry was sampled by a request that took at most MaxFetch until its put.
StoreInv ==
  \A k \in Keys : store[k] # NoEntry =>
    /\ store[k].at <= now
    /\ store[k].sampled <= store[k].at
    /\ store[k].at - store[k].sampled <= MaxFetch

\* A request has been on its way for at most MaxFetch, and the answer it is
\* about to store was given meanwhile.
ReqInv ==
  \A r \in Requests :
    /\ req[r] # NoRequest => req[r].since <= now /\ now <= req[r].since + MaxFetch
    /\ req[r].step = "put" => req[r].since <= req[r].sampled /\ req[r].sampled <= now

IInv == TypeOK /\ StoreInv /\ ReqInv

-----------------------------------------------------------------------------
(* The steps, by what they do to the store *)

\* k receives an answer at most MaxFetch old.
Stored(k, s, d) ==
  /\ s \in Nat /\ s <= now /\ now - s <= MaxFetch
  /\ store' = [store EXCEPT ![k] = [at |-> now, sampled |-> s, data |-> d]]
  /\ now' = now

\* k is forgotten.
Forgotten(k) ==
  /\ store' = [store EXCEPT ![k] = NoEntry]
  /\ now' = now

\* The kinds of requests are told apart by their step.
LEMMA RequestKinds ==
  ASSUME TypeOK, NEW r \in Requests
  PROVE  /\ req[r].step = "none" <=> req[r] = NoRequest
         /\ req[r].step = "upstream" <=> req[r] \in Waiting
         /\ req[r].step = "put" <=> req[r] \in Putting
         /\ req[r] \in {NoRequest} \cup Waiting \cup Putting
<1>1. req[r] \in {NoRequest} \cup Waiting \cup Putting
  BY DEF TypeOK
<1>2. NoRequest.step = "none"
  BY DEF NoRequest
<1>3. \A x \in Waiting : x.step = "upstream"
  BY DEF Waiting
<1>4. \A x \in Putting : x.step = "put"
  BY DEF Putting
<1> QED
  BY <1>1, <1>2, <1>3, <1>4

\* Every path has a TTL.
LEMMA TtlIsNatural == \A p : ttlForPath(p) \in Nat
BY EdgeCacheAssumption DEF ttlForPath

\* What a put stores is recent: it was sampled by a fetch that has just ended.
LEMMA PutStores ==
  ASSUME IInv, NEW r \in Requests, Put(r)
  PROVE  /\ req[r] \in Putting
         /\ req[r].key \in Keys
         /\ req[r].sampled \in Nat
         /\ req[r].data \in Data
         /\ Stored(req[r].key, req[r].sampled, req[r].data)
<1>1. req[r] \in Putting
  BY RequestKinds DEF IInv, Put
<1>2. req[r].key \in Keys /\ req[r].data \in Data /\ req[r].sampled \in Nat
      /\ req[r].since \in Nat
  BY <1>1 DEF Putting
<1>3. now \in Nat /\ MaxFetch \in Nat
  BY EdgeCacheAssumption DEF IInv, TypeOK
<1>4. req[r] # NoRequest
  BY <1>1 DEF Putting, NoRequest
<1>5. /\ req[r].since <= req[r].sampled
      /\ req[r].sampled <= now
      /\ now <= req[r].since + MaxFetch
  BY <1>4 DEF IInv, ReqInv, Put
<1>6. now - req[r].sampled <= MaxFetch
  BY <1>2, <1>3, <1>5
<1> QED
  BY <1>1, <1>2, <1>5, <1>6 DEF Put, Stored

\* What a step does to the store and the clock.
LEMMA StoreStep ==
  ASSUME IInv, [Next]_vars
  PROVE  \/ store' = store /\ now' = now
         \/ store' = store /\ now' = now + 1
         \/ \E k \in Keys, s \in Nat, d \in Data : Stored(k, s, d)
         \/ \E k \in Keys : Forgotten(k)
<1>1. ASSUME NEW r \in Requests, Put(r)
      PROVE  \E k \in Keys, s \in Nat, d \in Data : Stored(k, s, d)
  <2>1. req[r].key \in Keys /\ req[r].sampled \in Nat /\ req[r].data \in Data
    BY <1>1, PutStores
  <2>2. Stored(req[r].key, req[r].sampled, req[r].data)
    BY <1>1, PutStores
  <2> QED
    BY <2>1, <2>2
<1>2. CASE \E k \in Keys : Evict(k)
  BY <1>2 DEF Evict, Forgotten
<1>3. CASE Tick
  BY <1>3 DEF Tick
<1>4. CASE \E r \in Requests, p \in Paths : Miss(r, p)
  BY <1>4 DEF Miss
<1>5. CASE \E r \in Requests : Answered(r) \/ UpstreamError(r) \/ PutLost(r)
  BY <1>5 DEF Answered, UpstreamError, PutLost
<1>6. CASE (\E d \in Data : Release(d)) \/ (\E v \in Versions : Rotate(v))
  BY <1>6 DEF Release, Rotate
<1>7. CASE UNCHANGED vars
  BY <1>7 DEF vars
<1> QED
  BY <1>1, <1>2, <1>3, <1>4, <1>5, <1>6, <1>7 DEF Next, WorkerNext

-----------------------------------------------------------------------------
(* The inductive invariant *)

\* The cache is empty and nothing is asked for at first.
LEMMA InitInvariant == Init => IInv
<1> SUFFICES ASSUME Init PROVE IInv
  OBVIOUS
<1> USE EdgeCacheAssumption
<1>1. TypeOK
  BY DEF Init, TypeOK
<1>2. StoreInv
  BY DEF Init, StoreInv
<1>3. \A r \in Requests : req[r] = NoRequest
  BY DEF Init
<1>4. ReqInv
  BY <1>3 DEF ReqInv, NoRequest
<1> QED
  BY <1>1, <1>2, <1>4 DEF IInv

\* The store and the clock keep their parts of the invariant in every step.
LEMMA StoreInvariant ==
  ASSUME IInv, [Next]_vars
  PROVE  /\ now' \in Nat
         /\ store' \in [Keys -> Entry \cup {NoEntry}]
         /\ StoreInv'
<1> USE EdgeCacheAssumption
<1>0. now \in Nat /\ store \in [Keys -> Entry \cup {NoEntry}] /\ StoreInv
  BY DEF IInv, TypeOK
<1>1. \A k \in Keys : store[k] # NoEntry => store[k].at \in Nat
  BY <1>0 DEF Entry
<1>2. CASE store' = store /\ now' \in {now, now + 1}
  BY <1>0, <1>1, <1>2 DEF StoreInv
<1>3. ASSUME NEW k \in Keys, NEW s \in Nat, NEW d \in Data, Stored(k, s, d)
      PROVE  store' \in [Keys -> Entry \cup {NoEntry}] /\ StoreInv' /\ now' = now
  <2>1. [at |-> now, sampled |-> s, data |-> d] \in Entry
    BY <1>0 DEF Entry
  <2>2. store' \in [Keys -> Entry \cup {NoEntry}]
    BY <1>0, <1>3, <2>1 DEF Stored
  <2>3. \A j \in Keys : store'[j] = IF j = k THEN [at |-> now, sampled |-> s, data |-> d]
                                    ELSE store[j]
    BY <1>0, <1>3 DEF Stored
  <2>4. s <= now /\ now - s <= MaxFetch /\ now' = now
    BY <1>3 DEF Stored
  <2>5. ASSUME NEW j \in Keys, store'[j] # NoEntry
        PROVE  /\ store'[j].at <= now
               /\ store'[j].sampled <= store'[j].at
               /\ store'[j].at - store'[j].sampled <= MaxFetch
    <3>1. CASE j = k
      BY <1>0, <2>3, <2>4, <3>1
    <3>2. CASE j # k
      BY <1>0, <2>3, <2>5, <3>2 DEF StoreInv
    <3> QED
      BY <3>1, <3>2
  <2> QED
    BY <2>2, <2>4, <2>5 DEF StoreInv
<1>4. ASSUME NEW k \in Keys, Forgotten(k)
      PROVE  store' \in [Keys -> Entry \cup {NoEntry}] /\ StoreInv' /\ now' = now
  BY <1>0, <1>4 DEF Forgotten, StoreInv
<1> QED
  BY <1>0, <1>2, <1>3, <1>4, StoreStep

(***************************************************************************)
(* The requests keep their part: each action changes one of them, except   *)
(* Tick, which waits until no request would be on its way for too long.    *)
(***************************************************************************)
LEMMA RequestInvariant ==
  ASSUME IInv, [Next]_vars
  PROVE  /\ req' \in [Requests -> {NoRequest} \cup Waiting \cup Putting]
         /\ ReqInv'
<1> USE EdgeCacheAssumption
<1> DEFINE ReqOK(q, t) ==
             /\ q \in {NoRequest} \cup Waiting \cup Putting
             /\ q # NoRequest => q.since <= t /\ t <= q.since + MaxFetch
             /\ q.step = "put" => q.since <= q.sampled /\ q.sampled <= t
<1>0. /\ now \in Nat /\ serving \in Data /\ version \in Versions /\ MaxFetch \in Nat
      /\ req \in [Requests -> {NoRequest} \cup Waiting \cup Putting]
      /\ \A r \in Requests : ReqOK(req[r], now)
  BY DEF IInv, TypeOK, ReqInv
<1>1. SUFFICES /\ now' \in Nat
               /\ req' \in [Requests -> {NoRequest} \cup Waiting \cup Putting]
               /\ \A r \in Requests : ReqOK(req'[r], now')
  BY DEF ReqInv
<1>2. ReqOK(NoRequest, now)
  BY DEF NoRequest
<1>3. ASSUME NEW r \in Requests, NEW q, ReqOK(q, now),
             req' = [req EXCEPT ![r] = q], now' = now
      PROVE  /\ now' \in Nat
             /\ req' \in [Requests -> {NoRequest} \cup Waiting \cup Putting]
             /\ \A x \in Requests : ReqOK(req'[x], now')
  BY <1>0, <1>3
<1>4. ASSUME NEW r \in Requests, NEW p \in Paths, Miss(r, p)
      PROVE  \E q : ReqOK(q, now) /\ req' = [req EXCEPT ![r] = q] /\ now' = now
  <2> DEFINE q == [step |-> "upstream", key |-> <<p, version>>, since |-> now]
  <2>1. q \in Waiting
    BY <1>0 DEF Waiting, Keys
  <2>2. q.since = now /\ q.step # "put"
    OBVIOUS
  <2>3. ReqOK(q, now)
    BY <1>0, <2>1, <2>2
  <2> QED
    BY <1>4, <2>3 DEF Miss
<1>5. ASSUME NEW r \in Requests, Answered(r)
      PROVE  \E q : ReqOK(q, now) /\ req' = [req EXCEPT ![r] = q] /\ now' = now
  <2> DEFINE q == [step |-> "put", key |-> req[r].key, since |-> req[r].since,
                   sampled |-> now, data |-> serving]
  <2>1. req[r] \in Waiting
    BY <1>5, RequestKinds DEF Answered, IInv
  <2>2. req[r].key \in Keys /\ req[r].since \in Nat /\ req[r] # NoRequest
    BY <2>1 DEF Waiting, NoRequest
  <2>3. q \in Putting
    BY <1>0, <2>2 DEF Putting
  <2>4. q.since = req[r].since /\ q.sampled = now
    OBVIOUS
  <2>5. req[r].since <= now /\ now <= req[r].since + MaxFetch
    BY <1>0, <2>2
  <2>6. ReqOK(q, now)
    BY <1>0, <2>2, <2>3, <2>4, <2>5
  <2>7. req' = [req EXCEPT ![r] = IF ttlForPath(req[r].key[1]) = 0 THEN NoRequest ELSE q]
    BY <1>0, <1>5 DEF Answered
  <2>8. now' = now
    BY <1>5 DEF Answered
  <2> QED
    BY <1>2, <2>6, <2>7, <2>8
<1>6. ASSUME NEW r \in Requests, UpstreamError(r) \/ Put(r) \/ PutLost(r)
      PROVE  \E q : ReqOK(q, now) /\ req' = [req EXCEPT ![r] = q] /\ now' = now
  BY <1>2, <1>6 DEF UpstreamError, Put, PutLost
<1>7. CASE Tick
  <2>1. req' = req /\ now' = now + 1
    BY <1>7 DEF Tick
  <2>2. ASSUME NEW r \in Requests
        PROVE  ReqOK(req[r], now + 1)
    <3>1. CASE req[r] = NoRequest
      BY <3>1 DEF NoRequest
    <3>2. CASE req[r] # NoRequest
      <4>1. now < req[r].since + MaxFetch
        BY <1>7, <3>2 DEF Tick
      <4>2. req[r].since \in Nat
        BY <1>0, <3>2 DEF Waiting, Putting
      <4>3. req[r].step = "put" => req[r].sampled \in Nat
        BY RequestKinds DEF Putting, IInv
      <4> QED
        BY <1>0, <3>2, <4>1, <4>2, <4>3
    <3> QED
      BY <3>1, <3>2
  <2> QED
    BY <1>0, <2>1, <2>2
<1>8. CASE req' = req /\ now' = now
  BY <1>0, <1>8
<1>9. (\E k \in Keys : Evict(k)) \/ (\E d \in Data : Release(d))
      \/ (\E v \in Versions : Rotate(v)) \/ UNCHANGED vars => req' = req /\ now' = now
  BY DEF Evict, Release, Rotate, vars
<1>10. ASSUME NEW r \in Requests,
              Answered(r) \/ UpstreamError(r) \/ Put(r) \/ PutLost(r)
                \/ \E p \in Paths : Miss(r, p)
       PROVE  /\ now' \in Nat
              /\ req' \in [Requests -> {NoRequest} \cup Waiting \cup Putting]
              /\ \A x \in Requests : ReqOK(req'[x], now')
  <2>1. PICK q : ReqOK(q, now) /\ req' = [req EXCEPT ![r] = q] /\ now' = now
    BY <1>4, <1>5, <1>6, <1>10
  <2> HIDE DEF ReqOK
  <2> QED
    BY <1>3, <2>1
<1> HIDE DEF ReqOK
<1> QED
  BY <1>7, <1>8, <1>9, <1>10 DEF Next, WorkerNext

\* Every action keeps the invariant.
LEMMA NextInvariant == IInv /\ [Next]_vars => IInv'
<1> SUFFICES ASSUME IInv, [Next]_vars PROVE IInv'
  OBVIOUS
<1>1. serving' \in Data
  BY DEF IInv, TypeOK, Next, WorkerNext, vars, Miss, Answered, UpstreamError, Put,
         PutLost, Evict, Tick, Release, Rotate
<1>2. version' \in Versions
  BY DEF IInv, TypeOK, Next, WorkerNext, vars, Miss, Answered, UpstreamError, Put,
         PutLost, Evict, Tick, Release, Rotate
<1> QED
  BY <1>1, <1>2, StoreInvariant, RequestInvariant DEF IInv, TypeOK

\* The inductive invariant holds throughout.
THEOREM Invariance == Spec => []IInv
BY InitInvariant, NextInvariant, PTL DEF Spec

-----------------------------------------------------------------------------
(* The theorems *)

\* Every variable always holds a value of its kind.
THEOREM TypeCorrect == Spec => []TypeOK
<1>1. IInv => TypeOK
  BY DEF IInv
<1> QED
  BY <1>1, Invariance, PTL

\* The TTL of its path and MaxFetch bound the age of every answer found in the
\* cache, however the backend and the worker are redeployed meanwhile.
THEOREM HitsAreRecent == Spec => []HitAge
<1>1. ASSUME IInv, NEW k \in Keys, Usable(k)
      PROVE  now - store[k].sampled < ttlForPath(k[1]) + MaxFetch
  <2>1. store[k] # NoEntry /\ now - store[k].at < ttlForPath(k[1])
    BY <1>1 DEF Usable
  <2>2. /\ store[k].sampled <= store[k].at
        /\ store[k].at - store[k].sampled <= MaxFetch
    BY <1>1, <2>1 DEF IInv, StoreInv
  <2>3. store[k] \in Entry
    BY <1>1, <2>1 DEF IInv, TypeOK
  <2>4. store[k].at \in Nat /\ store[k].sampled \in Nat /\ now \in Nat
    BY <1>1, <2>3 DEF Entry, IInv, TypeOK
  <2>5. ttlForPath(k[1]) \in Nat /\ MaxFetch \in Nat
    BY TtlIsNatural, EdgeCacheAssumption
  <2> QED
    BY <2>1, <2>2, <2>4, <2>5
<1>2. IInv => \A k \in RtPaths \X Versions :
                Usable(k) => now - store[k].sampled < RtTtl + MaxFetch
  <2>1. \A k \in RtPaths \X Versions : k \in Keys /\ ttlForPath(k[1]) = RtTtl
    BY DEF Keys, Paths, ttlForPath
  <2> QED
    BY <1>1, <2>1
<1>3. IInv => \A k \in StaticPaths \X Versions :
                Usable(k) => now - store[k].sampled < StaticTtl + MaxFetch
  <2>1. \A k \in StaticPaths \X Versions : k \in Keys /\ ttlForPath(k[1]) = StaticTtl
    BY EdgeCacheAssumption DEF Keys, Paths, ttlForPath
  <2> QED
    BY <1>1, <2>1
<1>4. IInv => \A k \in OtherPaths \X Versions : ~Usable(k)
  <2> SUFFICES ASSUME IInv, NEW k \in OtherPaths \X Versions, Usable(k)
               PROVE  FALSE
    OBVIOUS
  <2>1. k \in Keys /\ ttlForPath(k[1]) = 0
    BY EdgeCacheAssumption DEF Keys, Paths, ttlForPath
  <2>2. store[k] # NoEntry /\ now - store[k].at < 0
    BY <2>1 DEF Usable
  <2>3. store[k] \in Entry /\ store[k].at <= now
    BY <2>1, <2>2 DEF IInv, TypeOK, StoreInv
  <2>4. store[k].at \in Nat /\ now \in Nat
    BY <2>3 DEF Entry, IInv, TypeOK
  <2> QED
    BY <2>2, <2>3, <2>4
<1>5. IInv => HitAge
  BY <1>2, <1>3, <1>4 DEF HitAge
<1> QED
  BY <1>5, Invariance, PTL

\* Requests that overlap store their answers in any order; what one of them
\* puts in the place of a newer answer is at most MaxFetch older.
THEOREM RegressIsBounded == Spec => BoundedRegress
<1>1. ASSUME IInv, [Next]_vars, NEW k \in Keys,
             store[k] # NoEntry, store'[k] # NoEntry
      PROVE  store'[k].sampled >= store[k].sampled - MaxFetch
  <2>1. /\ store \in [Keys -> Entry \cup {NoEntry}]
        /\ now \in Nat /\ MaxFetch \in Nat
        /\ store[k].at \in Nat /\ store[k].sampled \in Nat
        /\ store[k].at <= now /\ store[k].sampled <= store[k].at
    BY <1>1, EdgeCacheAssumption DEF IInv, TypeOK, Entry, StoreInv
  <2>2. CASE store' = store
    BY <2>1, <2>2
  <2>3. ASSUME NEW j \in Keys, NEW s \in Nat, NEW d \in Data, Stored(j, s, d)
        PROVE  store'[k].sampled >= store[k].sampled - MaxFetch
    <3>1. store'[k] = IF k = j THEN [at |-> now, sampled |-> s, data |-> d] ELSE store[k]
      BY <2>1, <2>3 DEF Stored
    <3>2. s >= now - MaxFetch
      BY <2>1, <2>3 DEF Stored
    <3>3. CASE k = j
      <4>1. store'[k].sampled = s
        BY <3>1, <3>3
      <4> QED
        BY <2>1, <3>2, <4>1
    <3>4. CASE k # j
      BY <2>1, <3>1, <3>4
    <3> QED
      BY <3>3, <3>4
  <2>4. ASSUME NEW j \in Keys, Forgotten(j)
        PROVE  store'[k].sampled >= store[k].sampled - MaxFetch
    <3>1. store'[k] = store[k]
      BY <1>1, <2>1, <2>4 DEF Forgotten
    <3> QED
      BY <2>1, <3>1
  <2> QED
    BY <1>1, <2>2, <2>3, <2>4, StoreStep
<1>2. IInv /\ [Next]_vars =>
        [\A k \in Keys :
           (store[k] # NoEntry /\ store'[k] # NoEntry) =>
             store'[k].sampled >= store[k].sampled - MaxFetch]_vars
  BY <1>1
<1> QED
  BY <1>2, Invariance, PTL DEF Spec, BoundedRegress

-----------------------------------------------------------------------------
(* Refinement *)

\* What a step does to the entries under the keys of K, as a TtlCache sees it.
LEMMA TierStep ==
  ASSUME IInv, [Next]_vars, NEW K \in SUBSET Keys
  PROVE  \/ Stamps(K)' = Stamps(K) /\ now' \in {now, now + 1}
         \/ \E k \in K, s \in (now - MaxFetch)..now :
              /\ s >= 0
              /\ Stamps(K)' = [Stamps(K) EXCEPT ![k] = [at |-> now, sampled |-> s]]
              /\ now' = now
         \/ \E D \in SUBSET K :
              /\ Stamps(K)' = [j \in K |-> IF j \in D THEN NoEntry ELSE Stamps(K)[j]]
              /\ now' = now
<1> USE EdgeCacheAssumption
<1>0. /\ store \in [Keys -> Entry \cup {NoEntry}] /\ now \in Nat
  BY DEF IInv, TypeOK
<1>1. CASE store' = store /\ now' \in {now, now + 1}
  BY <1>1 DEF Stamps
<1>2. ASSUME NEW k \in Keys, NEW s \in Nat, NEW d \in Data, Stored(k, s, d)
      PROVE  \/ Stamps(K)' = Stamps(K) /\ now' = now
             \/ /\ k \in K /\ s \in (now - MaxFetch)..now /\ s >= 0
                /\ Stamps(K)' = [Stamps(K) EXCEPT ![k] = [at |-> now, sampled |-> s]]
                /\ now' = now
  <2> DEFINE e == [at |-> now, sampled |-> s, data |-> d]
  <2>1. e \in Entry /\ e # NoEntry /\ e.at = now /\ e.sampled = s
    BY <1>0 DEF Entry
  <2>2. \A j \in K : store'[j] = IF j = k THEN e ELSE store[j]
    BY <1>0, <1>2 DEF Stored
  <2>3. now' = now /\ s \in (now - MaxFetch)..now /\ s >= 0
    BY <1>0, <1>2 DEF Stored
  <2>4. CASE k \in K
    <3>1. ASSUME NEW j \in K
          PROVE  (IF store'[j] = NoEntry THEN NoEntry
                  ELSE [at |-> store'[j].at, sampled |-> store'[j].sampled])
                   = IF j = k THEN [at |-> now, sampled |-> s] ELSE Stamps(K)[j]
      BY <2>1, <2>2 DEF Stamps
    <3>2. Stamps(K)' = [Stamps(K) EXCEPT ![k] = [at |-> now, sampled |-> s]]
      BY <2>4, <3>1 DEF Stamps
    <3> QED
      BY <2>3, <2>4, <3>2
  <2>5. CASE k \notin K
    <3>1. Stamps(K)' = Stamps(K)
      BY <2>2, <2>5 DEF Stamps
    <3> QED
      BY <2>3, <3>1
  <2> QED
    BY <2>4, <2>5
<1>3. ASSUME NEW k \in Keys, Forgotten(k)
      PROVE  /\ Stamps(K)' = [j \in K |-> IF j \in {k} \cap K THEN NoEntry
                                                            ELSE Stamps(K)[j]]
             /\ now' = now
  <2>1. \A j \in K : store'[j] = IF j = k THEN NoEntry ELSE store[j]
    BY <1>0, <1>3 DEF Forgotten
  <2> QED
    BY <1>3, <2>1 DEF Stamps, Forgotten
<1> QED
  <2>1. ASSUME NEW k \in Keys, NEW s \in Nat, NEW d \in Data, Stored(k, s, d)
        PROVE  \/ Stamps(K)' = Stamps(K) /\ now' \in {now, now + 1}
               \/ \E j \in K, t \in (now - MaxFetch)..now :
                    /\ t >= 0
                    /\ Stamps(K)' = [Stamps(K) EXCEPT ![j] = [at |-> now, sampled |-> t]]
                    /\ now' = now
    BY <1>2, <2>1
  <2>2. ASSUME NEW k \in Keys, Forgotten(k)
        PROVE  \E D \in SUBSET K :
                 /\ Stamps(K)' = [j \in K |-> IF j \in D THEN NoEntry ELSE Stamps(K)[j]]
                 /\ now' = now
    <3>1. {k} \cap K \in SUBSET K
      OBVIOUS
    <3> QED
      BY <1>3, <2>2, <3>1
  <2> QED
    BY <1>1, <2>1, <2>2, StoreStep

\* The 15 s tier and the 6 h tier each implement TtlCache with their own TTL.
THEOREM Refinement == Spec => TiersImplementTtlCache
<1>1. Init => RtTier!Init
  BY DEF Init, RtTier!Init, Stamps, Keys, Paths
<1>2. Init => StaticTier!Init
  BY DEF Init, StaticTier!Init, Stamps, Keys, Paths
<1>3. IInv /\ [Next]_vars => [RtTier!Next]_(RtTier!vars)
  <2> SUFFICES ASSUME IInv, [Next]_vars PROVE [RtTier!Next]_(RtTier!vars)
    OBVIOUS
  <2> DEFINE K == RtPaths \X Versions
  <2>1. K \in SUBSET Keys
    BY DEF Keys, Paths
  <2> QED
    BY <2>1, TierStep
    DEF RtTier!vars, RtTier!Next, RtTier!Tick, RtTier!Fill, RtTier!Drop
<1>4. IInv /\ [Next]_vars => [StaticTier!Next]_(StaticTier!vars)
  <2> SUFFICES ASSUME IInv, [Next]_vars PROVE [StaticTier!Next]_(StaticTier!vars)
    OBVIOUS
  <2> DEFINE K == StaticPaths \X Versions
  <2>1. K \in SUBSET Keys
    BY DEF Keys, Paths
  <2> QED
    BY <2>1, TierStep
    DEF StaticTier!vars, StaticTier!Next, StaticTier!Tick, StaticTier!Fill, StaticTier!Drop
<1> QED
  BY <1>1, <1>2, <1>3, <1>4, Invariance, PTL
  DEF Spec, TiersImplementTtlCache, RtTier!Spec, StaticTier!Spec

\* What an edge serves within a tier's TTL was given out by the backend less than
\* that TTL and the length of a request ago: the promise of TtlCache, per tier.
THEOREM UsableEntriesAreRecent ==
  Spec => [](RtTier!UsableIsRecent /\ StaticTier!UsableIsRecent)
<1>1. ASSUME IInv, NEW K \in SUBSET Keys, NEW k \in K, Stamps(K)[k] # NoEntry,
             NEW ttl \in Nat, now - Stamps(K)[k].at < ttl
      PROVE  now - Stamps(K)[k].sampled < ttl + MaxFetch
  <2>1. store[k] # NoEntry
    BY <1>1 DEF Stamps
  <2>2. Stamps(K)[k].at = store[k].at /\ Stamps(K)[k].sampled = store[k].sampled
    BY <2>1 DEF Stamps
  <2>3. /\ store[k].at - store[k].sampled <= MaxFetch
        /\ store[k].at \in Nat /\ store[k].sampled \in Nat /\ now \in Nat
    <3>1. k \in Keys /\ store[k] \in Entry
      BY <1>1, <2>1 DEF IInv, TypeOK
    <3>2. store[k].at - store[k].sampled <= MaxFetch
      BY <1>1, <2>1, <3>1 DEF IInv, StoreInv
    <3>3. now \in Nat
      BY <1>1 DEF IInv, TypeOK
    <3> QED
      BY <3>1, <3>2, <3>3 DEF Entry
  <2> QED
    BY <1>1, <2>2, <2>3, EdgeCacheAssumption
<1>2. IInv => RtTier!UsableIsRecent
  <2>1. RtPaths \X Versions \in SUBSET Keys /\ RtTtl \in Nat
    BY EdgeCacheAssumption DEF Keys, Paths
  <2> QED
    BY <1>1, <2>1 DEF RtTier!UsableIsRecent, RtTier!Usable
<1>3. IInv => StaticTier!UsableIsRecent
  <2>1. StaticPaths \X Versions \in SUBSET Keys /\ StaticTtl \in Nat
    BY EdgeCacheAssumption DEF Keys, Paths
  <2> QED
    BY <1>1, <2>1 DEF StaticTier!UsableIsRecent, StaticTier!Usable
<1> QED
  BY <1>2, <1>3, Invariance, PTL

-----------------------------------------------------------------------------
(* The release: its inductive invariant *)

\* The concurrency group: one run in it, one waiting for it.
GroupInv ==
  /\ \A d, e \in Runs : InGroup(d) /\ InGroup(e) => d = e
  /\ \A d, e \in Runs : At(d, "queued") /\ At(e, "queued") => d = e

\* What is waiting is newer than what is being deployed, and that than what
\* is live.
OrderInv ==
  /\ serving.feed <= feed /\ serving.etl <= etl
  /\ \A d \in Runs : At(d, "queued") \/ InGroup(d) =>
       serving.etl <= run[d].etl /\ run[d].etl <= etl
  /\ \A d, e \in Runs : InGroup(d) /\ At(e, "queued") => run[d].etl <= run[e].etl
  /\ \A d \in Runs : run[d].step \in {"built", "compared"} =>
       /\ run[d].built.etl = run[d].etl
       /\ serving.feed <= run[d].built.feed /\ run[d].built.feed <= feed

\* The comparison with the live feed is still right when the run deploys.
CompareInv ==
  \A d \in Runs : At(d, "compared") =>
    run[d].changed \/ run[d].built.feed = serving.feed

\* Before a run has rotated the version to its id nothing knows that version.
FreshInv ==
  \A d \in Runs : ~At(d, "done") =>
    /\ version # d
    /\ \A p \in Paths : store[<<p, d>>] = NoEntry
    /\ \A r \in Requests : req[r] # NoRequest => req[r].key[2] # d

\* A run has deployed another feed and has not rotated the version.
Pending ==
  \E d \in Runs : run[d].step \in {"released", "invalidate", "failed"} /\ run[d].changed

\* Unless there is one, what is stored or about to be stored is of the live feed.
LiveInv ==
  ~Pending =>
    /\ \A p \in Paths : store[<<p, version>>] # NoEntry =>
         store[<<p, version>>].data.feed = serving.feed
    /\ \A r \in Requests : req[r].step = "put" /\ req[r].key[2] = version =>
         req[r].data.feed = serving.feed

ReleaseIInv == ReleaseTypeOK /\ GroupInv /\ OrderInv /\ CompareInv /\ FreshInv /\ LiveInv

-----------------------------------------------------------------------------
(* Types *)

\* A record that only moves on keeps the rest of what is known of its run.
LEMMA GotoFacts ==
  ASSUME ReleaseTypeOK, NEW d \in Runs, NEW s \in Steps, Goto(d, s)
  PROVE  /\ run' \in [Runs -> Run]
         /\ \A e \in Runs : e # d => run'[e] = run[e]
         /\ run'[d].step = s /\ run'[d].etl = run[d].etl
         /\ run'[d].built = run[d].built /\ run'[d].changed = run[d].changed
         /\ run'[d].nightly = run[d].nightly
<1>1. run' = [run EXCEPT ![d] = [run[d] EXCEPT !.step = s]]
  BY DEF Goto
<1>2. run[d] \in Run
  BY DEF ReleaseTypeOK
<1>3. [run[d] EXCEPT !.step = s] \in Run
  BY <1>2 DEF Run
<1> QED
  BY <1>1, <1>2, <1>3 DEF ReleaseTypeOK, Run

\* A run that asks for the group starts or waits; of the others only the one
\* that waited is touched.
LEMMA EnqueueFacts ==
  ASSUME ReleaseTypeOK, NEW d \in Runs, NEW x \in Run, Enqueue(d, x)
  PROVE  /\ run' \in [Runs -> Run]
         /\ run'[d].step = IF GroupFree THEN "building" ELSE "queued"
         /\ run'[d].etl = x.etl /\ run'[d].changed = x.changed
         /\ \A e \in Runs : e # d =>
              /\ run'[e].step = IF At(e, "queued") THEN "cancelled" ELSE run[e].step
              /\ run'[e].etl = run[e].etl /\ run'[e].built = run[e].built
              /\ run'[e].changed = run[e].changed
         /\ GroupFree => NobodyWaits
<1> DEFINE new == [x EXCEPT !.step = IF GroupFree THEN "building" ELSE "queued"]
           gone(e) == [run[e] EXCEPT !.step = "cancelled"]
<1>1. \A e \in Runs : run[e] \in Run
  BY DEF ReleaseTypeOK
<1>2. /\ new \in Run /\ new.etl = x.etl /\ new.changed = x.changed
      /\ new.step = IF GroupFree THEN "building" ELSE "queued"
  BY DEF Run, Steps
<1>3. \A e \in Runs :
        /\ gone(e) \in Run /\ gone(e).step = "cancelled" /\ gone(e).etl = run[e].etl
        /\ gone(e).built = run[e].built /\ gone(e).changed = run[e].changed
  BY <1>1 DEF Run, Steps
<1>4. /\ GroupFree => NobodyWaits
      /\ run' = [e \in Runs |-> IF e = d THEN new
                                ELSE IF At(e, "queued") THEN gone(e) ELSE run[e]]
  BY DEF Enqueue
<1> HIDE DEF new, gone
<1> QED
  BY <1>1, <1>2, <1>3, <1>4

\* The record a trigger writes.
LEMMA NewRun ==
  ASSUME NEW c \in 0..MaxEtl, NEW b \in BOOLEAN
  PROVE  RunOf(c, b) \in Run
BY DataReleaseAssumption DEF RunOf, Run, Steps, FirstDatabase, Database

\* The requests and the cache keep their types.
LEMMA EdgeTypes ==
  ASSUME ReleaseTypeOK, WorkerNext
  PROVE  TypeOK'
<1> USE DEF ReleaseTypeOK, TypeOK
<1> DEFINE R == {NoRequest} \cup Waiting \cup Putting
<1>1. ASSUME NEW r \in Requests, NEW p \in Paths, Miss(r, p)
      PROVE  TypeOK'
  <2>1. [step |-> "upstream", key |-> <<p, version>>, since |-> now] \in R
    BY DEF Waiting, Keys
  <2> HIDE DEF R
  <2> QED
    BY <1>1, <2>1 DEF Miss, R
<1>2. ASSUME NEW r \in Requests, Answered(r)
      PROVE  TypeOK'
  <2>1. req[r] \in Waiting
    BY <1>2 DEF Answered, NoRequest, Waiting, Putting
  <2>2. [step |-> "put", key |-> req[r].key, since |-> req[r].since,
         sampled |-> now, data |-> serving] \in R
    BY <2>1 DEF Waiting, Putting
  <2> HIDE DEF R
  <2>3. req' \in [Requests -> R]
    BY <1>2, <2>2 DEF Answered, R
  <2> QED
    BY <1>2, <2>3 DEF Answered, R
<1>3. ASSUME NEW r \in Requests, UpstreamError(r) \/ PutLost(r)
      PROVE  TypeOK'
  <2> HIDE DEF R
  <2> QED
    BY <1>3 DEF UpstreamError, PutLost, R
<1>4. ASSUME NEW r \in Requests, Put(r)
      PROVE  TypeOK'
  <2>1. req[r] \in Putting
    BY <1>4 DEF Put, NoRequest, Waiting, Putting
  <2>2. [at |-> now, sampled |-> req[r].sampled, data |-> req[r].data] \in Entry
    BY <2>1 DEF Putting, Entry
  <2> HIDE DEF R
  <2> QED
    BY <1>4, <2>2 DEF Put, R
<1>5. ASSUME NEW k \in Keys, Evict(k)
      PROVE  TypeOK'
  BY <1>5 DEF Evict
<1>6. CASE Tick
  BY <1>6 DEF Tick
<1> QED
  BY <1>1, <1>2, <1>3, <1>4, <1>5, <1>6 DEF WorkerNext

\* Every action keeps the types.
LEMMA ReleaseTypeInvariant == ReleaseTypeOK /\ [ReleaseNext]_releaseVars => ReleaseTypeOK'
<1> SUFFICES ASSUME ReleaseTypeOK, [ReleaseNext]_releaseVars PROVE ReleaseTypeOK'
  OBVIOUS
<1> USE DataReleaseAssumption
<1>1. CASE Publish
  BY <1>1 DEF Publish, ReleaseTypeOK, TypeOK, vars
<1>2. ASSUME NEW d \in Runs, Push(d)
      PROVE  ReleaseTypeOK'
  <2>1. etl' \in 0..MaxEtl
    BY <1>2 DEF Push, ReleaseTypeOK
  <2>2. RunOf(etl', FALSE) \in Run
    BY <2>1, NewRun
  <2>3. run' \in [Runs -> Run]
    BY <1>2, <2>2, EnqueueFacts DEF Push
  <2> QED
    BY <1>2, <2>1, <2>3 DEF Push, ReleaseTypeOK, TypeOK, vars
<1>3. ASSUME NEW d \in Runs, Nightly(d)
      PROVE  ReleaseTypeOK'
  <2>1. RunOf(etl, TRUE) \in Run
    BY NewRun DEF ReleaseTypeOK
  <2>2. run' \in [Runs -> Run]
    BY <1>3, <2>1, EnqueueFacts DEF Nightly
  <2> QED
    BY <1>3, <2>2 DEF Nightly, ReleaseTypeOK, TypeOK, vars
<1>4. ASSUME NEW d \in Runs, Rerun(d)
      PROVE  ReleaseTypeOK'
  <2>1. RunOf(run[d].etl, run[d].nightly) \in Run
    BY NewRun DEF ReleaseTypeOK, Run
  <2>2. run' \in [Runs -> Run]
    BY <1>4, <2>1, EnqueueFacts DEF Rerun
  <2> QED
    BY <1>4, <2>2 DEF Rerun, ReleaseTypeOK, TypeOK, vars
<1>5. ASSUME NEW d \in Runs, NEW s \in Steps, Goto(d, s), feed' = feed, etl' = etl, TypeOK'
      PROVE  ReleaseTypeOK'
  BY <1>5, GotoFacts DEF ReleaseTypeOK
<1>6. ASSUME NEW d \in Runs, Acquire(d) \/ Skip(d) \/ EndDeployJob(d) \/ Fail(d)
      PROVE  ReleaseTypeOK'
  BY <1>5, <1>6 DEF Acquire, Skip, EndDeployJob, Fail, Steps, ReleaseTypeOK, TypeOK, vars
<1>7. ASSUME NEW d \in Runs, Build(d)
      PROVE  ReleaseTypeOK'
  <2>1. [feed |-> feed, etl |-> run[d].etl] \in Data
    BY DataReleaseAssumption DEF ReleaseTypeOK, Run, Database
  <2>2. [[run[d] EXCEPT !.step = "built"] EXCEPT
           !.built = [feed |-> feed, etl |-> run[d].etl]] \in Run
    BY <2>1 DEF ReleaseTypeOK, Run, Steps
  <2>3. run' \in [Runs -> Run]
    BY <1>7, <2>2 DEF Build, ReleaseTypeOK
  <2> QED
    BY <1>7, <2>3 DEF Build, ReleaseTypeOK, TypeOK, vars
<1>8. ASSUME NEW d \in Runs, Compare(d)
      PROVE  ReleaseTypeOK'
  <2>1. PICK c \in BOOLEAN : run' = [run EXCEPT ![d].step = "compared", ![d].changed = c]
    BY <1>8 DEF Compare
  <2>2. run' \in [Runs -> Run]
    BY <2>1 DEF ReleaseTypeOK, Run, Steps
  <2> QED
    BY <1>8, <2>2 DEF Compare, ReleaseTypeOK, TypeOK, vars
<1>9. ASSUME NEW d \in Runs, Deploy(d)
      PROVE  ReleaseTypeOK'
  <2>1. run[d].built \in Data
    BY DEF ReleaseTypeOK, Run
  <2> QED
    BY <1>5, <1>9, <2>1 DEF Deploy, Release, Steps, ReleaseTypeOK, TypeOK
<1>10. ASSUME NEW d \in Runs, Invalidate(d)
       PROVE  ReleaseTypeOK'
  <2>1. d \in Versions
    BY DataReleaseAssumption
  <2> QED
    BY <1>5, <1>10, <2>1 DEF Invalidate, Rotate, Steps, ReleaseTypeOK, TypeOK
<1>11. CASE WorkerNext /\ UNCHANGED <<feed, etl, run>>
  BY <1>11, EdgeTypes DEF ReleaseTypeOK
<1>12. CASE UNCHANGED releaseVars
  BY <1>12 DEF releaseVars, ReleaseTypeOK, TypeOK
<1> QED
  BY <1>1, <1>2, <1>3, <1>4, <1>6, <1>7, <1>8, <1>9, <1>10, <1>11, <1>12 DEF ReleaseNext, RunStep

\* The initial state has the right types.
LEMMA ReleaseTypeInit == ReleaseInit => ReleaseTypeOK
BY DataReleaseAssumption
   DEF ReleaseInit, ReleaseTypeOK, Init, TypeOK, NoRun, RunOf, Run, Steps, FirstDatabase,
       Database

\* The variables of the release keep their types, with and without failures
\* and re-runs (deployBackend.yml).
THEOREM ReleaseTypeCorrect == ReleaseSpec => []ReleaseTypeOK
BY ReleaseTypeInit, ReleaseTypeInvariant, PTL DEF ReleaseSpec
-----------------------------------------------------------------------------
(* The invariant *)

ReleaseInv == GroupInv /\ OrderInv /\ CompareInv /\ FreshInv /\ LiveInv

\* A trigger: the new run is of the newest commit, and if it starts at once
\* nobody else is in the group or waits for it.
LEMMA EnqueueInvariant ==
  ASSUME ReleaseIInv, NEW d \in Runs, At(d, "none"), NEW b \in BOOLEAN,
         etl' \in 0..MaxEtl, etl <= etl', Enqueue(d, RunOf(etl', b)),
         UNCHANGED <<vars, feed>>
  PROVE  ReleaseInv'
<1> USE DataReleaseAssumption DEF ReleaseIInv
<1>1. RunOf(etl', b) \in Run
  BY NewRun
<1>2. /\ run'[d].step = IF GroupFree THEN "building" ELSE "queued"
      /\ run'[d].etl = etl' /\ run'[d].changed = FALSE
  BY <1>1, EnqueueFacts DEF RunOf
<1>3. \A e \in Runs : e # d => /\ run'[e].etl = run[e].etl
                               /\ run'[e].built = run[e].built
                               /\ run'[e].changed = run[e].changed
  BY <1>1, EnqueueFacts
<1>4. \A e \in Runs : e # d =>
        run'[e].step = IF At(e, "queued") THEN "cancelled" ELSE run[e].step
  BY <1>1, EnqueueFacts
<1>5. /\ serving' = serving /\ version' = version /\ store' = store /\ req' = req
      /\ feed' = feed
  BY DEF vars
<1>6. GroupInv'
  BY <1>2, <1>4 DEF GroupInv, InGroup, At, GroupFree
<1>7. OrderInv'
  <2>1. serving.feed \in Nat /\ serving.etl \in Nat /\ etl \in Nat /\ etl' \in Nat
    BY DataReleaseAssumption DEF ReleaseTypeOK, TypeOK, Database
  <2>2. \A e \in Runs : run[e].etl \in Nat
    BY DEF ReleaseTypeOK, Run
  <2>3. /\ serving.feed <= feed /\ serving.etl <= etl'
        /\ \A e \in Runs : e # d /\ InGroup(e)' =>
             InGroup(e) /\ serving.etl <= run'[e].etl /\ run'[e].etl <= etl'
    BY <1>3, <1>4, <2>1, <2>2 DEF OrderInv, InGroup, At
  <2>4. \A e \in Runs : At(e, "queued")' => e = d
    BY <1>4 DEF At
  <2>5. \A e \in Runs : run'[e].step \in {"built", "compared"} =>
          e # d /\ run[e].step = run'[e].step
    BY <1>2, <1>4 DEF At
  <2>6. InGroup(d)' => GroupFree
    BY <1>2 DEF InGroup
  <2>7. \A e \in Runs : InGroup(e)' /\ e # d => run'[e].etl <= run'[d].etl
    BY <1>2, <2>3
  <2>8. At(d, "queued")' => ~InGroup(d)'
    BY DEF At, InGroup
  <2>9. serving.etl <= run'[d].etl /\ run'[d].etl <= etl'
    BY <1>2, <2>1, <2>3
  <2>10. \A e \in Runs : run'[e].step \in {"built", "compared"} =>
           /\ run'[e].built.etl = run'[e].etl
           /\ serving.feed <= run'[e].built.feed /\ run'[e].built.feed <= feed
    BY <1>3, <2>5 DEF OrderInv
  <2> QED
    BY <1>5, <2>3, <2>4, <2>7, <2>8, <2>9, <2>10 DEF OrderInv
<1>8. CompareInv'
  BY <1>2, <1>3, <1>4, <1>5 DEF CompareInv, At
<1>9. FreshInv'
  <2>1. \A e \in Runs : ~At(e, "done")' => ~At(e, "done")
    BY <1>4 DEF At
  <2> QED
    BY <1>5, <2>1 DEF FreshInv
<1>10. LiveInv'
  <2>1. \A e \in Runs : run'[e].step \in {"released", "invalidate", "failed"} =>
          e # d /\ run[e].step = run'[e].step
    BY <1>2, <1>4 DEF At
  <2>2. \A e \in Runs : run[e].step \in {"released", "invalidate", "failed"} =>
          e # d /\ run[e].step = run'[e].step
    BY <1>4 DEF At
  <2>3. Pending' <=> Pending
    BY <1>3, <2>1, <2>2 DEF Pending
  <2> QED
    BY <1>5, <2>3 DEF LiveInv
<1> QED
  BY <1>6, <1>7, <1>8, <1>9, <1>10 DEF ReleaseInv

\* The steps that only a run's own record shows: waiting runs start, builds
\* and comparisons are made, runs end without a rotation.
MovesOn(d) ==
  /\ \A e \in Runs : e # d => run'[e] = run[e]
  /\ run'[d].etl = run[d].etl
  /\ UNCHANGED <<vars, feed, etl>>

\* The run claims no more than it may.
Entitled(d) ==
  /\ InGroup(d)' => InGroup(d) \/ (At(d, "queued") /\ GroupFree)
  /\ ~At(d, "queued")' /\ ~At(d, "done")
  /\ run'[d].step \in {"built", "compared"} =>
       /\ run'[d].built.etl = run'[d].etl
       /\ serving.feed <= run'[d].built.feed /\ run'[d].built.feed <= feed
  /\ At(d, "compared")' => run'[d].changed \/ run'[d].built.feed = serving.feed
  /\ run[d].step \in {"released", "invalidate", "failed"} /\ run[d].changed =>
       run'[d].step \in {"released", "invalidate", "failed"} /\ run'[d].changed

\* Such a step of a run that is entitled to it keeps the invariant.
LEMMA MovesOnInvariant ==
  ASSUME ReleaseIInv, NEW d \in Runs, MovesOn(d), Entitled(d)
  PROVE  ReleaseInv'
<1> USE DEF ReleaseIInv, Entitled
<1>1. /\ serving' = serving /\ version' = version /\ store' = store /\ req' = req
      /\ feed' = feed /\ etl' = etl
  BY DEF MovesOn, vars
<1>2. \A e \in Runs : e # d => run'[e] = run[e]
  BY DEF MovesOn
<1>3. run'[d].etl = run[d].etl
  BY DEF MovesOn
<1>4. \A e \in Runs : e # d => (InGroup(e)' <=> InGroup(e))
  BY <1>2 DEF InGroup
<1>5. \A e \in Runs : At(e, "queued")' => e # d /\ At(e, "queued")
  BY <1>2 DEF At
<1>6. GroupInv'
  BY <1>4, <1>5 DEF GroupInv, GroupFree
<1>7. OrderInv'
  <2>1. \A e \in Runs : run[e].etl \in Nat
    BY DEF ReleaseTypeOK, Run
  <2>2. \A e \in Runs : At(e, "queued")' \/ InGroup(e)' => At(e, "queued") \/ InGroup(e)
    BY <1>4, <1>5
  <2>3. \A e \in Runs : run'[e].etl = run[e].etl
    BY <1>2, <1>3
  <2>4. \A e \in Runs : At(e, "queued")' \/ InGroup(e)' =>
          serving.etl <= run'[e].etl /\ run'[e].etl <= etl
    BY <2>2, <2>3 DEF OrderInv
  <2>5. \A c, e \in Runs : InGroup(c)' /\ At(e, "queued")' => run'[c].etl <= run'[e].etl
    <3> SUFFICES ASSUME NEW c \in Runs, NEW e \in Runs, InGroup(c)', At(e, "queued")'
                 PROVE  run'[c].etl <= run'[e].etl
      OBVIOUS
    <3>1. At(e, "queued") /\ e # d
      BY <1>5
    <3>2. InGroup(c)
      BY <1>4, <3>1 DEF GroupInv
    <3> QED
      BY <2>3, <3>1, <3>2 DEF OrderInv
  <2>6. \A e \in Runs : run'[e].step \in {"built", "compared"} =>
          /\ run'[e].built.etl = run'[e].etl
          /\ serving.feed <= run'[e].built.feed /\ run'[e].built.feed <= feed
    BY <1>2 DEF OrderInv
  <2> QED
    BY <1>1, <2>4, <2>5, <2>6 DEF OrderInv
<1>8. CompareInv'
  BY <1>1, <1>2 DEF CompareInv, At
<1>9. FreshInv'
  <2>1. \A e \in Runs : ~At(e, "done")' => ~At(e, "done")
    BY <1>2 DEF At
  <2> QED
    BY <1>1, <2>1 DEF FreshInv
<1>10. LiveInv'
  <2>1. Pending => Pending'
    BY <1>2 DEF Pending
  <2> QED
    BY <1>1, <2>1 DEF LiveInv
<1> QED
  BY <1>6, <1>7, <1>8, <1>9, <1>10 DEF ReleaseInv

\* The steps of that kind.
LEMMA OwnSteps ==
  ASSUME ReleaseIInv, NEW d \in Runs,
         Acquire(d) \/ Build(d) \/ Compare(d) \/ Skip(d) \/ EndDeployJob(d) \/ Fail(d)
  PROVE  ReleaseInv'
<1> USE DEF ReleaseIInv
<1>1. ASSUME NEW s \in Steps, Goto(d, s), UNCHANGED <<vars, feed, etl>>
      PROVE  /\ MovesOn(d) /\ run'[d].step = s
             /\ run'[d].built = run[d].built /\ run'[d].changed = run[d].changed
  BY <1>1, GotoFacts DEF MovesOn
<1>2. Acquire(d) => MovesOn(d) /\ Entitled(d)
  <2> SUFFICES ASSUME Acquire(d) PROVE MovesOn(d) /\ Entitled(d)
    OBVIOUS
  <2>1. /\ At(d, "queued") /\ GroupFree /\ MovesOn(d) /\ run'[d].step = "building"
    BY <1>1 DEF Acquire, Steps
  <2> QED
    BY <2>1 DEF Entitled, At
<1>3. Build(d) => MovesOn(d) /\ Entitled(d)
  <2> SUFFICES ASSUME Build(d) PROVE MovesOn(d) /\ Entitled(d)
    OBVIOUS
  <2>1. run[d] \in Run /\ run \in [Runs -> Run]
    BY DEF ReleaseTypeOK
  <2>2. run' = [run EXCEPT ![d] = [[run[d] EXCEPT !.step = "built"] EXCEPT
                                     !.built = [feed |-> feed, etl |-> run[d].etl]]]
    BY DEF Build
  <2>3. /\ run'[d].step = "built" /\ run'[d].etl = run[d].etl
        /\ run'[d].built.feed = feed /\ run'[d].built.etl = run[d].etl
    BY <2>1, <2>2 DEF Run
  <2>4. MovesOn(d) /\ At(d, "building")
    BY <2>1, <2>2, <2>3 DEF Build, MovesOn
  <2>5. serving.feed <= feed /\ feed <= feed
    BY DEF OrderInv, ReleaseTypeOK
  <2>6. /\ run'[d].built.etl = run'[d].etl
        /\ serving.feed <= run'[d].built.feed /\ run'[d].built.feed <= feed
    BY <2>3, <2>5
  <2> QED
    BY <2>3, <2>4, <2>6 DEF Entitled, At, InGroup
<1>4. Compare(d) => MovesOn(d) /\ Entitled(d)
  <2> SUFFICES ASSUME Compare(d) PROVE MovesOn(d) /\ Entitled(d)
    OBVIOUS
  <2>1. run[d] \in Run /\ run \in [Runs -> Run]
    BY DEF ReleaseTypeOK
  <2>2. PICK c \in {TRUE, run[d].built.feed # serving.feed} :
          run' = [run EXCEPT ![d] = [[run[d] EXCEPT !.step = "compared"] EXCEPT !.changed = c]]
    BY DEF Compare
  <2>3. /\ run'[d].step = "compared" /\ run'[d].etl = run[d].etl
        /\ run'[d].built = run[d].built /\ run'[d].changed = c
    BY <2>1, <2>2 DEF Run
  <2>4. MovesOn(d) /\ At(d, "built")
    BY <2>1, <2>2, <2>3 DEF Compare, MovesOn
  <2>5. run'[d].changed \/ run'[d].built.feed = serving.feed
    BY <2>2, <2>3
  <2>6. /\ run'[d].built.etl = run'[d].etl
        /\ serving.feed <= run'[d].built.feed /\ run'[d].built.feed <= feed
    BY <2>3, <2>4 DEF OrderInv, At
  <2> QED
    BY <2>3, <2>4, <2>5, <2>6 DEF Entitled, At, InGroup
<1>5. Skip(d) => MovesOn(d) /\ Entitled(d)
  <2> SUFFICES ASSUME Skip(d) PROVE MovesOn(d) /\ Entitled(d)
    OBVIOUS
  <2>1. At(d, "compared") /\ MovesOn(d) /\ run'[d].step = "done"
    BY <1>1 DEF Skip, Steps
  <2> QED
    BY <2>1 DEF Entitled, At, InGroup
<1>6. EndDeployJob(d) => MovesOn(d) /\ Entitled(d)
  <2> SUFFICES ASSUME EndDeployJob(d) PROVE MovesOn(d) /\ Entitled(d)
    OBVIOUS
  <2>1. /\ At(d, "released") /\ MovesOn(d) /\ run'[d].changed = run[d].changed
        /\ run'[d].step = IF run[d].changed THEN "invalidate" ELSE "done"
    BY <1>1 DEF EndDeployJob, Steps
  <2> QED
    BY <2>1 DEF Entitled, At, InGroup
<1>7. Fail(d) => MovesOn(d) /\ Entitled(d)
  <2> SUFFICES ASSUME Fail(d) PROVE MovesOn(d) /\ Entitled(d)
    OBVIOUS
  <2>1. /\ InGroup(d) \/ At(d, "invalidate")
        /\ MovesOn(d) /\ run'[d].step = "failed" /\ run'[d].changed = run[d].changed
    BY <1>1 DEF Fail, Steps
  <2> QED
    BY <2>1 DEF Entitled, At, InGroup
<1> QED
  BY <1>2, <1>3, <1>4, <1>5, <1>6, <1>7, MovesOnInvariant

\* A deployment: no other run is in the group, so the feed it was compared
\* with is still the live one, and what waits is newer.
LEMMA DeployInvariant ==
  ASSUME ReleaseIInv, NEW d \in Runs, Deploy(d)
  PROVE  ReleaseInv'
<1> USE DEF ReleaseIInv
<1>1. /\ At(d, "compared") /\ InGroup(d)
      /\ serving' = run[d].built /\ Goto(d, "released")
      /\ version' = version /\ store' = store /\ req' = req
      /\ feed' = feed /\ etl' = etl
  BY DEF Deploy, Release, InGroup, At
<1>2. /\ \A e \in Runs : e # d => run'[e] = run[e]
      /\ run'[d].step = "released" /\ run'[d].etl = run[d].etl
      /\ run'[d].built = run[d].built /\ run'[d].changed = run[d].changed
  BY <1>1, GotoFacts DEF Steps
<1>3. \A e \in Runs : InGroup(e)' => e = d
  BY <1>1, <1>2 DEF GroupInv, InGroup
<1>4. \A e \in Runs : At(e, "queued")' <=> e # d /\ At(e, "queued")
  BY <1>2 DEF At
<1>5. GroupInv'
  BY <1>3, <1>4 DEF GroupInv
<1>6. OrderInv'
  <2>1. run[d].built.feed <= feed /\ run[d].built.etl = run[d].etl /\ run[d].etl <= etl
    BY <1>1 DEF OrderInv, At
  <2>2. run[d].etl \in Nat
    BY DEF ReleaseTypeOK, Run
  <2>3. \A e \in Runs : At(e, "queued") => run[d].etl <= run[e].etl /\ run[e].etl <= etl
    BY <1>1 DEF OrderInv
  <2>4. \A e \in Runs : run'[e].step \notin {"built", "compared"}
    BY <1>2, <1>3 DEF InGroup
  <2>5. \A e \in Runs : At(e, "queued")' \/ InGroup(e)' =>
          run[d].etl <= run'[e].etl /\ run'[e].etl <= etl
    BY <1>2, <1>3, <1>4, <2>1, <2>2, <2>3
  <2>6. \A c, e \in Runs : InGroup(c)' /\ At(e, "queued")' => run'[c].etl <= run'[e].etl
    BY <1>2, <1>3, <1>4, <2>3
  <2> QED
    BY <1>1, <2>1, <2>4, <2>5, <2>6 DEF OrderInv
<1>7. CompareInv'
  BY <1>2, <1>3 DEF CompareInv, At, InGroup
<1>8. FreshInv'
  <2>1. \A e \in Runs : ~At(e, "done")' => ~At(e, "done")
    BY <1>1, <1>2 DEF At
  <2> QED
    BY <1>1, <2>1 DEF FreshInv
<1>9. LiveInv'
  <2>1. CASE run[d].changed
    BY <1>2, <2>1 DEF LiveInv, Pending
  <2>2. CASE ~run[d].changed
    <3>1. run[d].built.feed = serving.feed
      BY <1>1, <2>2 DEF CompareInv
    <3>2. Pending => Pending'
      BY <1>1, <1>2 DEF Pending, At
    <3> QED
      BY <1>1, <3>1, <3>2 DEF LiveInv
  <2> QED
    BY <2>1, <2>2
<1> QED
  BY <1>5, <1>6, <1>7, <1>8, <1>9 DEF ReleaseInv

\* A rotation: nothing is stored under the version it introduces, and nobody
\* is about to store under it.
LEMMA InvalidateInvariant ==
  ASSUME ReleaseIInv, NEW d \in Runs, Invalidate(d)
  PROVE  ReleaseInv'
<1> USE DEF ReleaseIInv
<1>1. /\ At(d, "invalidate") /\ ~InGroup(d) /\ ~At(d, "done") /\ ~At(d, "queued")
      /\ version' = d /\ Goto(d, "done")
      /\ serving' = serving /\ store' = store /\ req' = req
      /\ feed' = feed /\ etl' = etl
  BY DEF Invalidate, Rotate, InGroup, At
<1>2. /\ \A e \in Runs : e # d => run'[e] = run[e]
      /\ run'[d].step = "done"
  BY <1>1, GotoFacts DEF Steps
<1>3. \A e \in Runs : InGroup(e)' => e # d /\ InGroup(e)
  BY <1>2 DEF InGroup
<1>4. \A e \in Runs : At(e, "queued")' => e # d /\ At(e, "queued")
  BY <1>2 DEF At
<1>5. GroupInv'
  BY <1>3, <1>4 DEF GroupInv
<1>6. OrderInv'
  <2>1. \A e \in Runs : run'[e].step \in {"built", "compared"} => e # d
    BY <1>2
  <2> QED
    BY <1>1, <1>2, <1>3, <1>4, <2>1 DEF OrderInv
<1>7. CompareInv'
  BY <1>1, <1>2 DEF CompareInv, At
<1>8. FreshInv'
  <2>1. \A e \in Runs : ~At(e, "done")' => e # d /\ ~At(e, "done")
    BY <1>2 DEF At
  <2> QED
    BY <1>1, <2>1 DEF FreshInv
<1>9. LiveInv'
  <2>1. \A p \in Paths : store[<<p, d>>] = NoEntry
    BY <1>1 DEF FreshInv
  <2>2. \A r \in Requests : req[r].step = "put" => req[r].key[2] # d
    BY <1>1 DEF FreshInv, NoRequest
  <2> QED
    BY <1>1, <2>1, <2>2 DEF LiveInv
<1> QED
  BY <1>5, <1>6, <1>7, <1>8, <1>9 DEF ReleaseInv

-----------------------------------------------------------------------------
(* Requests on their way during a release *)

\* What a step of the edge worker may do: an entry stays, goes, or is what a
\* request that has been answered stores; a request goes, takes the version of
\* the moment, or takes the data of the moment.
LEMMA WorkerFacts ==
  ASSUME ReleaseTypeOK, WorkerNext
  PROVE  /\ serving' = serving /\ version' = version
         /\ \A k \in Keys :
              \/ store'[k] = store[k]
              \/ store'[k] = NoEntry
              \/ \E r \in Requests : req[r].step = "put" /\ req[r].key = k
                                     /\ store'[k].data = req[r].data
         /\ \A r \in Requests :
              \/ req'[r] = NoRequest
              \/ req'[r] = req[r]
              \/ req'[r].step = "upstream" /\ req'[r].key[2] = version
              \/ /\ req[r] # NoRequest /\ req'[r].key = req[r].key
                 /\ req'[r].data = serving
<1> USE DEF ReleaseTypeOK, TypeOK
<1> DEFINE StoreFact(k) ==
             \/ store'[k] = store[k]
             \/ store'[k] = NoEntry
             \/ \E r \in Requests : req[r].step = "put" /\ req[r].key = k
                                    /\ store'[k].data = req[r].data
           ReqFact(r) ==
             \/ req'[r] = NoRequest
             \/ req'[r] = req[r]
             \/ req'[r].step = "upstream" /\ req'[r].key[2] = version
             \/ /\ req[r] # NoRequest /\ req'[r].key = req[r].key
                /\ req'[r].data = serving
           Facts == /\ serving' = serving /\ version' = version
                    /\ \A k \in Keys : StoreFact(k)
                    /\ \A r \in Requests : ReqFact(r)
<1>1. ASSUME NEW r \in Requests, NEW p \in Paths, Miss(r, p)
      PROVE  Facts
  <2>1. req'[r].step = "upstream" /\ req'[r].key[2] = version
    BY <1>1 DEF Miss
  <2>2. \A q \in Requests : q # r => req'[q] = req[q]
    BY <1>1 DEF Miss
  <2> QED
    BY <1>1, <2>1, <2>2 DEF Miss
<1>2. ASSUME NEW r \in Requests, Answered(r)
      PROVE  Facts
  <2>1. \A q \in Requests : q # r => req'[q] = req[q]
    BY <1>2 DEF Answered
  <2>2. req[r] # NoRequest
    BY <1>2 DEF Answered, NoRequest
  <2>3. \/ req'[r] = NoRequest
        \/ req'[r].key = req[r].key /\ req'[r].data = serving
    BY <1>2 DEF Answered
  <2> QED
    BY <1>2, <2>1, <2>2, <2>3 DEF Answered
<1>3. ASSUME NEW r \in Requests, UpstreamError(r) \/ PutLost(r)
      PROVE  Facts
  BY <1>3 DEF UpstreamError, PutLost
<1>4. ASSUME NEW r \in Requests, Put(r)
      PROVE  Facts
  <2>1. \A q \in Requests : ReqFact(q)
    BY <1>4 DEF Put
  <2>2. ASSUME NEW k \in Keys PROVE StoreFact(k)
    <3>1. CASE k = req[r].key
      BY <1>4, <3>1 DEF Put
    <3>2. CASE k # req[r].key
      BY <1>4, <3>2 DEF Put
    <3> QED
      BY <3>1, <3>2
  <2> QED
    BY <1>4, <2>1, <2>2 DEF Put
<1>5. ASSUME NEW k \in Keys, Evict(k)
      PROVE  Facts
  BY <1>5 DEF Evict
<1>6. CASE Tick
  BY <1>6 DEF Tick
<1> QED
  BY <1>1, <1>2, <1>3, <1>4, <1>5, <1>6 DEF WorkerNext

\* Whenever a request stores its answer, the invariant survives: what was
\* asked under the present version was answered from the live feed, unless a
\* rotation is still to come.
LEMMA WorkerInvariant ==
  ASSUME ReleaseIInv, WorkerNext, UNCHANGED <<feed, etl, run>>
  PROVE  ReleaseInv'
<1> USE DEF ReleaseIInv
<1>1. ReleaseTypeOK /\ run' = run /\ feed' = feed /\ etl' = etl
  OBVIOUS
<1>2. serving' = serving /\ version' = version
  BY <1>1, WorkerFacts
<1>3. GroupInv' /\ OrderInv' /\ CompareInv'
  BY <1>1, <1>2 DEF GroupInv, OrderInv, CompareInv, InGroup, At
<1>4. FreshInv'
  <2> SUFFICES ASSUME NEW d \in Runs, ~At(d, "done")
               PROVE  /\ version # d
                      /\ \A p \in Paths : store'[<<p, d>>] = NoEntry
                      /\ \A r \in Requests : req'[r] # NoRequest => req'[r].key[2] # d
    BY <1>1, <1>2 DEF FreshInv, At
  <2>1. /\ version # d
        /\ \A p \in Paths : store[<<p, d>>] = NoEntry
        /\ \A r \in Requests : req[r] # NoRequest => req[r].key[2] # d
    BY DEF FreshInv
  <2>2. ASSUME NEW p \in Paths PROVE store'[<<p, d>>] = NoEntry
    <3>1. <<p, d>> \in Keys
      BY DataReleaseAssumption DEF Keys
    <3>2. ~\E r \in Requests : req[r].step = "put" /\ req[r].key = <<p, d>>
      BY <2>1 DEF NoRequest
    <3> QED
      BY <1>1, <2>1, <3>1, <3>2, WorkerFacts
  <2>3. ASSUME NEW r \in Requests, req'[r] # NoRequest PROVE req'[r].key[2] # d
    BY <1>1, <2>1, <2>3, WorkerFacts
  <2> QED
    BY <2>1, <2>2, <2>3
<1>5. LiveInv'
  <2> SUFFICES ASSUME ~Pending
               PROVE  /\ \A p \in Paths : store'[<<p, version>>] # NoEntry =>
                           store'[<<p, version>>].data.feed = serving.feed
                      /\ \A r \in Requests :
                           req'[r].step = "put" /\ req'[r].key[2] = version =>
                             req'[r].data.feed = serving.feed
    BY <1>1, <1>2 DEF LiveInv, Pending
  <2>1. /\ \A p \in Paths : store[<<p, version>>] # NoEntry =>
             store[<<p, version>>].data.feed = serving.feed
        /\ \A r \in Requests : req[r].step = "put" /\ req[r].key[2] = version =>
             req[r].data.feed = serving.feed
    BY DEF LiveInv
  <2>2. ASSUME NEW p \in Paths, store'[<<p, version>>] # NoEntry
        PROVE  store'[<<p, version>>].data.feed = serving.feed
    <3>1. <<p, version>> \in Keys
      BY DEF Keys, ReleaseTypeOK, TypeOK
    <3> QED
      BY <1>1, <2>1, <2>2, <3>1, WorkerFacts
  <2>3. ASSUME NEW r \in Requests, req'[r].step = "put", req'[r].key[2] = version
        PROVE  req'[r].data.feed = serving.feed
    <3>1. req'[r] # NoRequest
      BY <2>3 DEF NoRequest
    <3> QED
      BY <1>1, <2>1, <2>3, <3>1, WorkerFacts
  <2> QED
    BY <2>2, <2>3
<1> QED
  BY <1>3, <1>4, <1>5 DEF ReleaseInv

-----------------------------------------------------------------------------
(* Theorems *)

\* At first no run has begun and nothing is cached.
LEMMA ReleaseInvInit == ReleaseInit => ReleaseIInv
<1> SUFFICES ASSUME ReleaseInit PROVE ReleaseIInv
  OBVIOUS
<1> USE DataReleaseAssumption
<1>1. /\ serving = FirstData /\ feed = 0 /\ etl = 0 /\ version = FirstVersion
      /\ \A d \in Runs : run[d].step = "none"
      /\ \A k \in Keys : store[k] = NoEntry
      /\ \A r \in Requests : req[r] = NoRequest
  BY DEF ReleaseInit, Init, NoRun, RunOf
<1>2. GroupInv /\ OrderInv /\ CompareInv
  BY <1>1, DataReleaseAssumption DEF GroupInv, OrderInv, CompareInv, InGroup, At, FirstDatabase
<1>3. FreshInv
  <2>1. \A p \in Paths, d \in Runs : <<p, d>> \in Keys
    BY DataReleaseAssumption DEF Keys
  <2> QED
    BY <1>1, <2>1 DEF FreshInv
<1>4. LiveInv
  <2>1. \A p \in Paths : <<p, version>> \in Keys
    BY <1>1, DataReleaseAssumption DEF Keys
  <2>2. \A r \in Requests : req[r].step # "put"
    BY <1>1 DEF NoRequest
  <2> QED
    BY <1>1, <2>1, <2>2 DEF LiveInv
<1> QED
  BY <1>2, <1>3, <1>4, ReleaseTypeInit DEF ReleaseIInv

\* Without re-runs every action keeps the invariant.
LEMMA ReleaseInvNext == ASSUME ~Reruns, ReleaseIInv, [ReleaseNext]_releaseVars PROVE ReleaseIInv'
<1>1. ReleaseTypeOK'
  BY ReleaseTypeInvariant DEF ReleaseIInv
<1>2. CASE Publish
  <2>1. UNCHANGED <<vars, etl, run>> /\ feed' = feed + 1 /\ feed \in Nat
    BY <1>2 DEF Publish, ReleaseIInv, ReleaseTypeOK
  <2>2. OrderInv'
    <3>1. \A d \in Runs : run[d].built.feed \in Nat
      BY DataReleaseAssumption DEF ReleaseIInv, ReleaseTypeOK, Run, Database
    <3>2. serving.feed \in Nat
      BY DataReleaseAssumption DEF ReleaseIInv, ReleaseTypeOK, TypeOK, Database
    <3> QED
      BY <2>1, <3>1, <3>2 DEF ReleaseIInv, OrderInv, InGroup, At, vars
  <2>3. GroupInv' /\ CompareInv' /\ FreshInv' /\ LiveInv'
    BY <2>1 DEF ReleaseIInv, GroupInv, CompareInv, FreshInv, LiveInv, Pending, InGroup, At, vars
  <2> QED
    BY <1>1, <2>2, <2>3 DEF ReleaseIInv
<1>3. ASSUME NEW d \in Runs, Push(d)
      PROVE  ReleaseIInv'
  <2>1. MaxEtl \in Nat /\ etl \in 0..MaxEtl
    BY DataReleaseAssumption DEF ReleaseIInv, ReleaseTypeOK
  <2>2. etl' \in 0..MaxEtl /\ etl <= etl'
    BY <1>3, <2>1 DEF Push
  <2>3. At(d, "none") /\ Enqueue(d, RunOf(etl', FALSE)) /\ UNCHANGED <<vars, feed>>
    BY <1>3 DEF Push
  <2> QED
    BY <1>1, <2>2, <2>3, EnqueueInvariant DEF ReleaseIInv, ReleaseInv
<1>4. ASSUME NEW d \in Runs, Nightly(d)
      PROVE  ReleaseIInv'
  <2>1. MaxEtl \in Nat /\ etl \in 0..MaxEtl
    BY DataReleaseAssumption DEF ReleaseIInv, ReleaseTypeOK
  <2>2. etl' \in 0..MaxEtl /\ etl <= etl'
    BY <1>4, <2>1 DEF Nightly
  <2>3. At(d, "none") /\ Enqueue(d, RunOf(etl', TRUE)) /\ UNCHANGED <<vars, feed>>
    BY <1>4 DEF Nightly
  <2> QED
    BY <1>1, <2>2, <2>3, EnqueueInvariant DEF ReleaseIInv, ReleaseInv
<1>5. ASSUME NEW d \in Runs, RunStep(d) \/ Fail(d)
      PROVE  ReleaseIInv'
  BY <1>1, <1>5, OwnSteps, DeployInvariant, InvalidateInvariant DEF RunStep, ReleaseIInv, ReleaseInv
<1>6. CASE WorkerNext /\ UNCHANGED <<feed, etl, run>>
  BY <1>1, <1>6, WorkerInvariant DEF ReleaseIInv, ReleaseInv
<1>7. CASE UNCHANGED releaseVars
  BY <1>1, <1>7
     DEF releaseVars, ReleaseIInv, GroupInv, OrderInv, CompareInv, FreshInv, LiveInv, Pending,
           InGroup, At
<1> QED
  BY <1>2, <1>3, <1>4, <1>5, <1>6, <1>7 DEF ReleaseNext, Rerun

\* Without re-runs every reachable state satisfies the invariant.
THEOREM ReleaseInvariance == ASSUME ~Reruns PROVE ReleaseSpec => []ReleaseIInv
<1>1. ReleaseIInv /\ [ReleaseNext]_releaseVars => ReleaseIInv'
  BY ReleaseInvNext
<1> QED
  BY <1>1, ReleaseInvInit, PTL DEF ReleaseSpec

\* Once the releases are through, nothing that was built from an older feed is
\* found in the cache, for any number of overlapping runs and requests on their
\* way (deployBackend.yml, invalidate-edge-cache).  Through means that every run is
\* done or was replaced: after one that failed nothing is promised.
THEOREM CachedFeedIsLive == ASSUME ~Reruns PROVE ReleaseSpec => []SettledFeedLive
<1>1. ReleaseIInv => SettledFeedLive
  <2> SUFFICES ASSUME ReleaseIInv, Settled, NEW p \in Paths, CanHit(p)
               PROVE  Current(p).data.feed = serving.feed
    BY DEF SettledFeedLive
  <2>1. ~Pending
    BY DEF Settled, Pending
  <2>2. store[<<p, version>>] # NoEntry
    BY DEF CanHit, Usable
  <2> QED
    BY <2>1, <2>2 DEF ReleaseIInv, LiveInv, Current
<1> QED
  BY <1>1, ReleaseInvariance, PTL

\* No deployment takes the backend back to an older feed or older code: the
\* concurrency group deploy-backend is enough for that.
THEOREM BackendMovesForward == ASSUME ~Reruns PROVE ReleaseSpec => NoRollback
<1>1. ReleaseIInv /\ [ReleaseNext]_releaseVars =>
        [serving'.feed >= serving.feed /\ serving'.etl >= serving.etl]_releaseVars
  <2> SUFFICES ASSUME ReleaseIInv, ReleaseNext
               PROVE  serving'.feed >= serving.feed /\ serving'.etl >= serving.etl
    BY DEF releaseVars
  <2>1. serving.feed \in Nat /\ serving.etl \in Nat
    BY DataReleaseAssumption DEF ReleaseIInv, ReleaseTypeOK, TypeOK, Database
  <2>2. ASSUME NEW d \in Runs, Deploy(d)
        PROVE  serving'.feed >= serving.feed /\ serving'.etl >= serving.etl
    <3>1. At(d, "compared") /\ InGroup(d) /\ serving' = run[d].built
      BY <2>2 DEF Deploy, Release, At, InGroup
    <3>2. run[d].built.feed \in Nat /\ run[d].built.etl \in Nat
      BY DataReleaseAssumption DEF ReleaseIInv, ReleaseTypeOK, Run, Database
    <3> QED
      BY <2>1, <3>1, <3>2 DEF ReleaseIInv, OrderInv, At
  <2>3. CASE ~\E d \in Runs : Deploy(d)
    <3>1. serving' = serving
      BY <2>3, WorkerFacts
         DEF ReleaseIInv, ReleaseNext, RunStep, Publish, Push, Nightly, Rerun, Acquire, Build, Compare, Skip,
             EndDeployJob, Invalidate, Rotate, Fail, vars
    <3> QED
      BY <2>1, <3>1
  <2> QED
    BY <2>2, <2>3
<1> QED
  BY <1>1, ReleaseInvariance, PTL DEF ReleaseSpec, NoRollback

-----------------------------------------------------------------------------
(* The edge cache under the releases *)

\* The workflows do nothing to the edge cache but what EdgeCache allows a release
\* to do, with failing steps and re-runs too: what is proved of the edge cache under any
\* releases and rotations holds under these (deployBackend.yml).
THEOREM ReleaseIsAllowed == ReleaseSpec => Spec
<1>1. ReleaseInit => Init
  BY DEF ReleaseInit
<1>2. ASSUME ReleaseTypeOK, [ReleaseNext]_releaseVars
      PROVE  [Next]_vars
  <2>1. CASE WorkerNext
    BY <2>1 DEF Next
  <2>2. ASSUME NEW d \in Runs, Deploy(d)
        PROVE  Next
    <3>1. run[d].built \in Data
      BY <1>2 DEF ReleaseTypeOK, Run
    <3>2. Release(run[d].built)
      BY <2>2 DEF Deploy
    <3> QED
      BY <3>1, <3>2 DEF Next
  <2>3. ASSUME NEW d \in Runs, Invalidate(d)
        PROVE  Next
    <3>1. d \in Versions /\ Rotate(d)
      BY <2>3, DataReleaseAssumption DEF Invalidate
    <3> QED
      BY <3>1 DEF Next
  <2>4. CASE UNCHANGED releaseVars
    BY <2>4 DEF releaseVars, vars
  <2>5. ASSUME NEW d \in Runs,
               \/ Push(d) \/ Nightly(d) \/ Rerun(d) \/ Fail(d)
               \/ Acquire(d) \/ Build(d) \/ Compare(d) \/ Skip(d) \/ EndDeployJob(d)
        PROVE  UNCHANGED vars
    BY <2>5 DEF Push, Nightly, Rerun, Fail, Acquire, Build, Compare, Skip, EndDeployJob
  <2>6. CASE Publish
    BY <2>6 DEF Publish
  <2> QED
    BY <1>2, <2>1, <2>2, <2>3, <2>4, <2>5, <2>6 DEF ReleaseNext, RunStep
<1>3. ReleaseTypeOK /\ [ReleaseNext]_releaseVars => [Next]_vars
  BY <1>2
<1> QED
  BY <1>1, <1>3, ReleaseTypeCorrect, PTL DEF ReleaseSpec, Spec

\* So the cache keeps its promises however releases and rotations come in
\* between: no hit is older than the TTL of its path and the length of a fetch,
\* no put goes back further than a fetch, and each tier is a TtlCache.
THEOREM CacheUnderReleases ==
  ReleaseSpec => []HitAge /\ BoundedRegress /\ TiersImplementTtlCache
BY ReleaseIsAllowed, HitsAreRecent, RegressIsBounded, Refinement, PTL

=============================================================================
