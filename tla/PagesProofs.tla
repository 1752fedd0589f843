---------------------------- MODULE PagesProofs -----------------------------
(***************************************************************************)
(* Proofs about Pages, for any routes and trips, any instants, delays and  *)
(* times of buses, any length of a minute.                                 *)
(***************************************************************************)
EXTENDS Pages, FiniteSetTheorems, SequenceTheorems, TLAPS

\* What TypeOK needs: a route's page has asked for the times it shows.
AskedInv == url.page = "route" => asked \in Clock

\* What DirectionShown needs: a pending navigation is to the direction that is
\* checked, and when there is none and none was overtaken, direction 1 of the
\* URL is checked.
DirectionInv ==
  /\ toggle # None => url.page = "route" /\ value = toggle
  /\ url.page = "route" /\ url.direction = 1 /\ toggle = None /\ ~overtaken => value = 1

IInv == TypeOK /\ AskedInv /\ DirectionInv

-----------------------------------------------------------------------------
(* Numbers, finite sets and lists *)

\* A set of numbers that is not empty has a least one.
LEMMA LeastOf ==
  ASSUME NEW I \in SUBSET Nat, I # {}
  PROVE  Min(I) \in I /\ \A i \in I : Min(I) <= i
<1>1. PICK x \in I : \A y \in I : <<y, x>> \notin OpToRel(<, Nat)
  BY WFMin, NatLessThanWellFounded, Zenon
<1>2. \A y \in I : x <= y
  <2> SUFFICES ASSUME NEW y \in I PROVE ~(y < x)
    OBVIOUS
  <2> QED
    BY <1>1 DEF OpToRel
<1> QED
  BY <1>2 DEF Min

\* The places up to one of them are as many as its rank.
LEMMA PlaceFacts ==
  ASSUME NEW I \in SUBSET Int, IsFiniteSet(I)
  PROVE  /\ Cardinality(I) \in Nat
         /\ \A k \in 1..Cardinality(I) :
              Place(I, k) \in I /\ Cardinality({j \in I : j <= Place(I, k)}) = k
         /\ \A i \in I : \E k \in 1..Cardinality(I) : Place(I, k) = i
         /\ \A k, l \in 1..Cardinality(I) : k < l => Place(I, k) < Place(I, l)
<1> DEFINE UpTo(i) == {j \in I : j <= i}
           rank == [i \in I |-> Cardinality(UpTo(i))]
<1>1. Cardinality(I) \in Nat
  BY FS_CardinalityType
<1>2. ASSUME NEW i \in I
      PROVE  /\ IsFiniteSet(UpTo(i))
             /\ rank[i] \in 1..Cardinality(I)
  <2>1. UpTo(i) \in SUBSET I /\ {i} \in SUBSET UpTo(i)
    OBVIOUS
  <2>2. IsFiniteSet(UpTo(i)) /\ Cardinality(UpTo(i)) <= Cardinality(I)
    BY <2>1, FS_Subset
  <2>3. Cardinality({i}) <= Cardinality(UpTo(i)) /\ Cardinality({i}) = 1
    BY <2>1, <2>2, FS_Subset, FS_Singleton
  <2>4. Cardinality(UpTo(i)) \in Nat
    BY <2>2, FS_CardinalityType
  <2> QED
    BY <1>1, <2>2, <2>3, <2>4
<1>3. ASSUME NEW i \in I, NEW j \in I, i < j
      PROVE  rank[i] < rank[j]
  <2>1. UpTo(i) \in SUBSET UpTo(j) /\ j \in UpTo(j) /\ j \notin UpTo(i)
    <3>1. i \in Int /\ j \in Int
      OBVIOUS
    <3>2. \A x \in UpTo(i) : x \in Int /\ x <= j
      BY <1>3, <3>1
    <3>3. j \in UpTo(j) /\ j \notin UpTo(i)
      BY <1>3, <3>1
    <3>4. UpTo(i) \subseteq UpTo(j)
      BY <3>2
    <3> QED
      BY <3>3, <3>4
  <2>2. Cardinality(UpTo(i)) <= Cardinality(UpTo(j)) /\ Cardinality(UpTo(i)) # Cardinality(UpTo(j))
    BY <1>2, <2>1, FS_Subset
  <2> QED
    BY <1>2, <2>2
<1>4. \A i, j \in I : rank[i] = rank[j] => i = j
  BY <1>2, <1>3
<1>5. rank \in Surjection(I, 1..Cardinality(I))
  <2>1. rank \in Injection(I, 1..Cardinality(I))
    BY <1>2, <1>4 DEF Injection, IsInjective
  <2>2. IsFiniteSet(1..Cardinality(I)) /\ Cardinality(1..Cardinality(I)) = Cardinality(I)
    BY <1>1, FS_Interval
  <2> QED
    BY <2>1, <2>2, FS_Injection
<1>6. ASSUME NEW k \in 1..Cardinality(I)
      PROVE  Place(I, k) \in I /\ rank[Place(I, k)] = k
  <2>1. \E i \in I : rank[i] = k
    BY <1>5 DEF Surjection
  <2> QED
    BY <2>1 DEF Place
<1>7. ASSUME NEW i \in I
      PROVE  Place(I, rank[i]) = i
  BY <1>2, <1>4, <1>6
<1>8. ASSUME NEW k \in 1..Cardinality(I), NEW l \in 1..Cardinality(I), k < l
      PROVE  Place(I, k) < Place(I, l)
  <2> DEFINE p == Place(I, k)
             q == Place(I, l)
  <2>1. p \in I /\ q \in I /\ rank[p] = k /\ rank[q] = l
    BY <1>6
  <2> HIDE DEF p, q, rank
  <2>2. p \in Int /\ q \in Int /\ k \in Int /\ l \in Int
    BY <1>1, <2>1
  <2>3. p # q /\ ~(q < p)
    BY <1>3, <1>8, <2>1, <2>2
  <2> QED
    BY <2>2, <2>3 DEF p, q
<1> QED
  BY <1>1, <1>2, <1>6, <1>7, <1>8

\* A list keeps what it has at the places, in their order.
LEMMA KeepFacts ==
  ASSUME NEW S, NEW s \in Seq(S), NEW I \in SUBSET DOMAIN s
  PROVE  /\ IsFiniteSet(I) /\ I \in SUBSET Int
         /\ Keep(s, I) \in Seq(S)
         /\ Len(Keep(s, I)) = Cardinality(I)
         /\ \A k \in 1..Cardinality(I) :
              Place(I, k) \in DOMAIN s /\ Keep(s, I)[k] = s[Place(I, k)]
<1>1. DOMAIN s = 1..Len(s) /\ Len(s) \in Nat
  OBVIOUS
<1>2. IsFiniteSet(1..Len(s))
  BY <1>1, FS_Interval
<1>3. IsFiniteSet(I) /\ I \in SUBSET Int
  BY <1>1, <1>2, FS_Subset
<1>4. /\ Cardinality(I) \in Nat
      /\ \A k \in 1..Cardinality(I) : Place(I, k) \in I
  BY <1>3, PlaceFacts
<1>5. Keep(s, I) \in Seq(S) /\ Len(Keep(s, I)) = Cardinality(I)
  BY <1>1, <1>4 DEF Keep
<1> QED
  BY <1>3, <1>4, <1>5 DEF Keep

-----------------------------------------------------------------------------
(* Days and minutes *)

\* Quotient and remainder are those of the division.
LEMMA Remainder ==
  ASSUME NEW d \in Nat, d > 0, NEW x \in Int
  PROVE  x % d \in 0..(d - 1) /\ \E q \in Int : x = q * d + (x % d)
<1>1. \A y \in Int, m \in Int : m > 0 =>
        (y \div m) \in Int /\ (y % m) \in 0..(m - 1) /\ y = (y \div m) * m + (y % m)
  BY SMTT(30)
<1>2. /\ (x \div d) \in Int /\ (x % d) \in 0..(d - 1)
      /\ x = (x \div d) * d + (x % d)
  BY <1>1
<1> QED
  BY <1>2, Zenon

\* No other number is the remainder.
LEMMA RemainderIs ==
  ASSUME NEW d \in Nat, d > 0, NEW x \in Int, NEW q \in Int, NEW r \in 0..(d - 1),
         x = q * d + r
  PROVE  x % d = r
<1>1. PICK p \in Int : x = p * d + (x % d)
  BY Remainder
<1> DEFINE s == x % d
<1>2. s \in 0..(d - 1)
  BY Remainder
<1> HIDE DEF s
<1>3. q * d + r = p * d + s
  BY <1>1 DEF s
<1>4. \A i, j \in Int : i > j => i * d >= j * d + d
  <2> SUFFICES ASSUME NEW i \in Int, NEW j \in Int, i > j PROVE i * d >= j * d + d
    OBVIOUS
  <2>1. \A m, n \in Nat : m * n \in Nat
    OBVIOUS
  <2>2. (i - j - 1) * d >= 0
    <3> DEFINE k == i - j - 1
    <3>1. k \in Nat
      OBVIOUS
    <3> HIDE DEF k
    <3>2. k * d \in Nat
      BY <2>1, <3>1
    <3> QED
      BY <3>2 DEF k
  <2>3. (i - j - 1) * d = i * d - j * d - d
    OBVIOUS
  <2>4. i * d \in Int /\ j * d \in Int
    OBVIOUS
  <2> QED
    BY <2>2, <2>3, <2>4
<1>5. q * d \in Int /\ p * d \in Int
  OBVIOUS
<1>6. p = q
  <2> DEFINE u == q * d
             v == p * d
  <2>1. (p > q => v >= u + d) /\ (q > p => u >= v + d)
    BY <1>4
  <2> HIDE DEF u, v
  <2> QED
    BY <1>2, <1>3, <1>5, <2>1 DEF u, v
<1> QED
  BY <1>2, <1>3, <1>5, <1>6 DEF s

\* Hours and days are so many minutes.
LEMMA Units ==
  /\ Minute \in Nat /\ Minute > 0
  /\ Hour = 60 * Minute /\ Day = 1440 * Minute
  /\ Hour \in Nat /\ Day \in Nat /\ Day > 0
BY PagesAssumption DEF Hour, Day

\* An instant is so much after the beginning of its day.
LEMMA DayBegins ==
  ASSUME NEW t \in Int
  PROVE  /\ StartOfDay(t) \in Int
         /\ t - StartOfDay(t) \in 0..(Day - 1)
         /\ \E q \in Int : StartOfDay(t) = q * Day
<1> DEFINE r == t % Day
<1>1. r \in 0..(Day - 1) /\ \E q \in Int : t = q * Day + r
  BY Units, Remainder
<1>2. PICK q \in Int : t = q * Day + r
  BY <1>1
<1>3. StartOfDay(t) = t - r
  BY DEF StartOfDay
<1> HIDE DEF r
<1>4. StartOfDay(t) \in Int /\ t - StartOfDay(t) = r
  BY <1>1, <1>3, Units
<1>5. StartOfDay(t) = q * Day
  <2> DEFINE p == q * Day
  <2>1. p \in Int /\ t = p + r
    BY <1>2, Units
  <2> HIDE DEF p
  <2>2. t - r = p
    BY <1>1, <2>1, Units
  <2> QED
    BY <1>3, <2>2 DEF p
<1> QED
  BY <1>1, <1>4, <1>5

\* A time of day is the time since midnight, of this day or the next.
LEMMA TimeOfDay ==
  ASSUME NEW t \in Int, NEW k \in 0..(2 * Day - 1)
  PROVE  (StartOfDay(t) + k) % Day = IF k < Day THEN k ELSE k - Day
<1>1. PICK q \in Int : StartOfDay(t) = q * Day
  BY DayBegins
<1> DEFINE x == StartOfDay(t) + k
<1>2. q * Day \in Int /\ k \in Int /\ x \in Int
  BY <1>1, Units
<1>3. CASE k < Day
  <2>1. x = q * Day + k
    BY <1>1
  <2>2. k \in 0..(Day - 1)
    BY <1>3, Units
  <2> HIDE DEF x
  <2>3. x % Day = k
    BY <1>2, <2>1, <2>2, Units, RemainderIs
  <2> QED
    BY <1>3, <2>3 DEF x
<1>4. CASE ~(k < Day)
  <2>1. (q + 1) * Day = q * Day + Day
    BY Units
  <2>2. k - Day \in 0..(Day - 1)
    BY <1>4, Units
  <2> DEFINE p == q * Day
             p1 == (q + 1) * Day
             r == k - Day
  <2>3. x = p1 + r
    <3>1. x = p + k /\ p1 = p + Day
      BY <1>1, <2>1
    <3> HIDE DEF p, p1, x
    <3> QED
      BY <1>2, <3>1, Units DEF p
  <2>4. q + 1 \in Int /\ r \in 0..(Day - 1)
    BY <2>2
  <2> HIDE DEF x, r
  <2>5. x % Day = r
    BY <1>2, <2>3, <2>4, Units, RemainderIs
  <2> QED
    BY <1>4, <2>5 DEF x, r
<1> QED
  BY <1>3, <1>4

-----------------------------------------------------------------------------
(* The timelines *)

\* A prediction of this day or the next, at most 11 hours ahead, is read back from
\* its time of day.
LEMMA PredictionIsReadBack ==
  ASSUME now \in Int, NEW t \in Int, StartOfDay(now) <= t, t - now <= 11 * Hour,
         now - t < 13 * Hour
  PROVE  parseArrivalTime(t % Day) = t
<1> DEFINE start == StartOfDay(now)
           k == t - start
           d == t % Day
<1>1. start \in Int /\ now - start \in 0..(Day - 1)
  BY DayBegins
<1>2. k \in 0..(2 * Day - 1) /\ k \in Int /\ k - (now - start) <= 11 * Hour
  BY <1>1, Units
<1>3. d = IF k < Day THEN k ELSE k - Day
  <2>1. (start + k) % Day = IF k < Day THEN k ELSE k - Day
    <3> HIDE DEF k
    <3> QED
      BY <1>2, TimeOfDay
  <2>2. start + k = t
    BY <1>1
  <2> QED
    BY <2>1, <2>2
<1>4. parseArrivalTime(d) = IF now - (start + d) >= 13 * Hour
                            THEN start + d + Day ELSE start + d
  BY DEF parseArrivalTime
<1> HIDE DEF start, d
<1>5. CASE k < Day
  <2>1. start + d = t
    BY <1>1, <1>3, <1>5
  <2>2. ~(now - (start + d) >= 13 * Hour)
    BY <2>1, Units
  <2> QED
    BY <1>4, <2>1, <2>2 DEF d
<1>6. CASE ~(k < Day)
  <2>1. start + d = t - Day
    BY <1>1, <1>2, <1>3, <1>6, Units
  <2>2. now - (start + d) >= 13 * Hour
    BY <2>1, Units
  <2>3. start + d + Day = t
    BY <2>1, Units
  <2> QED
    BY <1>4, <2>2, <2>3 DEF d
<1> QED
  BY <1>5, <1>6

\* A time of the timetable is read back as long as the day lasts that it is
\* counted from.
LEMMA ScheduleIsReadBack ==
  ASSUME now \in Int, NEW t \in Int, now - t < 13 * Hour
  PROVE  parseArrivalTime(t - StartOfDay(now)) = t
<1>1. StartOfDay(now) \in Int
  BY DayBegins
<1>2. StartOfDay(now) + (t - StartOfDay(now)) = t
  BY <1>1
<1>3. ~(now - t >= 13 * Hour)
  BY Units
<1> QED
  BY <1>2, <1>3 DEF parseArrivalTime

\* A time that is not past is not told as past.
LEMMA NotAgo ==
  ASSUME NEW diff \in Int, diff >= 0
  PROVE  TimeForm(diff) # "ago"
<1>1. ~(diff <= -Minute) /\ diff > -Minute
  BY Units
<1> QED
  BY <1>1 DEF TimeForm

\* What the timetable and a prediction make of the status, minutes on one side and
\* instants on the other.
LEMMA StatusByDelay ==
  ASSUME NEW s \in Int, NEW u \in Int, u # None
  PROVE  /\ u - s \in (-Minute)..Minute => Status(s, u) = "On time"
         /\ u - s >= 2 * Minute => Status(s, u) = "Delayed"
         /\ u - s <= -(2 * Minute) => Status(s, u) = "Early"
<1> DEFINE r == s % Minute
<1>1. r \in 0..(Minute - 1)
  BY Units, Remainder
<1>2. isSame(s, u) <=> /\ s - r > u - 2 * Minute
                       /\ s - r + Minute - 1 < u + 2 * Minute
  BY DEF isSame
<1> HIDE DEF r
<1>3. /\ u - s \in (-Minute)..Minute => isSame(s, u)
      /\ u - s >= 2 * Minute => ~isSame(s, u) /\ ~(u < s)
      /\ u - s <= -(2 * Minute) => ~isSame(s, u) /\ u < s
  <2> HIDE DEF isSame
  <2> QED
    BY <1>1, <1>2, Units
<1>4. /\ isSame(s, u) => Status(s, u) = "On time"
      /\ ~isSame(s, u) => Status(s, u) = IF u < s THEN "Early" ELSE "Delayed"
  <2> HIDE DEF isSame
  <2> QED
    BY DEF Status
<1> QED
  BY <1>3, <1>4

-----------------------------------------------------------------------------
(* The routes that are selected *)

\* What a list keeps.
LEMMA KeptSet ==
  ASSUME NEW S, NEW s \in Seq(S), NEW I \in SUBSET DOMAIN s
  PROVE  /\ Keep(s, I) \in Seq(S)
         /\ Keep(s, I) = <<>> <=> I = {}
         /\ ToSet(Keep(s, I)) = {s[i] : i \in I}
<1> DEFINE n == Cardinality(I)
           t == Keep(s, I)
<1>1. /\ IsFiniteSet(I) /\ I \in SUBSET Int
      /\ t \in Seq(S) /\ Len(t) = n
      /\ \A k \in 1..n : t[k] = s[Place(I, k)]
  BY KeepFacts
<1>2. /\ n \in Nat
      /\ \A k \in 1..n : Place(I, k) \in I
      /\ \A i \in I : \E k \in 1..n : Place(I, k) = i
  BY <1>1, PlaceFacts
<1>3. n = 0 <=> I = {}
  BY <1>1, FS_EmptySet
<1>4. t = <<>> <=> n = 0
  <2> HIDE DEF t, n
  <2> QED
    BY <1>1, <1>2, EmptySeq
<1> HIDE DEF t, n
<1>5. ToSet(t) = {t[k] : k \in 1..n}
  BY <1>1 DEF ToSet
<1>6. {t[k] : k \in 1..n} = {s[i] : i \in I}
  <2>1. ASSUME NEW k \in 1..n
        PROVE  t[k] \in {s[i] : i \in I}
    BY <1>1, <1>2
  <2>2. ASSUME NEW i \in I
        PROVE  s[i] \in {t[k] : k \in 1..n}
    BY <1>1, <1>2
  <2> QED
    BY <2>1, <2>2
<1> QED
  BY <1>1, <1>3, <1>4, <1>5, <1>6 DEF t

\* A finite set has a list of its own.
LEMMA SetList ==
  ASSUME NEW S, IsFiniteSet(S)
  PROVE  SetToSeq(S) \in Seq(S) /\ ToSet(SetToSeq(S)) = S
<1> DEFINE n == Cardinality(S)
           f == SetToSeq(S)
<1>1. n \in Nat /\ ExistsBijection(1..n, S)
  BY FS_CardinalityType
<1>2. \E g \in [1..n -> S] : IsInjective(g)
  BY <1>1 DEF ExistsBijection, Bijection, Injection, Surjection
<1>3. f \in [1..n -> S] /\ IsInjective(f)
  <2> HIDE DEF n
  <2> QED
    BY <1>2 DEF SetToSeq, n
<1> HIDE DEF f
<1>4. f \in Seq(S)
  BY <1>1, <1>3
<1>5. f \in Surjection(1..n, S)
  <2>1. f \in Injection(1..n, S)
    BY <1>3 DEF Injection
  <2>2. IsFiniteSet(1..n) /\ Cardinality(1..n) = n
    BY <1>1, FS_Interval
  <2> QED
    BY <2>1, <2>2, FS_Injection
<1>6. ToSet(f) = S
  BY <1>3, <1>5 DEF ToSet, Surjection
<1> QED
  BY <1>4, <1>6 DEF f

\* What is selected, given a filter and the routes there are.
Selected(filter, ids) ==
  LET filtered == IF filter = None THEN <<>>
                  ELSE Keep(filter, {i \in DOMAIN filter : filter[i] \in ids})
  IN IF filtered # <<>> THEN filtered ELSE SetToSeq(ids)

\* The routes of the filter that are there, or else all that are there.
LEMMA SelectedFacts ==
  ASSUME NEW ids \in SUBSET Routes, IsFiniteSet(ids), NEW filter \in Seq(Routes) \cup {None}
  PROVE  /\ Selected(filter, ids) \in Seq(Routes)
         /\ ToSet(Selected(filter, ids)) \subseteq ids
         /\ ids # {} => ToSet(Selected(filter, ids)) # {}
         /\ filter = None => ToSet(Selected(filter, ids)) = ids
         /\ (filter # None /\ ToSet(filter) \subseteq ids /\ filter # <<>>) =>
              ToSet(Selected(filter, ids)) = ToSet(filter)
<1>1. SetToSeq(ids) \in Seq(Routes) /\ ToSet(SetToSeq(ids)) = ids
  <2>1. SetToSeq(ids) \in Seq(ids) /\ ToSet(SetToSeq(ids)) = ids
    BY SetList
  <2> QED
    BY <2>1
<1>2. CASE filter = None
  BY <1>1, <1>2 DEF Selected
<1>3. CASE filter # None
  <2> DEFINE I == {i \in DOMAIN filter : filter[i] \in ids}
             kept == Keep(filter, I)
  <2>1. filter \in Seq(Routes) /\ I \in SUBSET DOMAIN filter
    BY <1>3
  <2>2. kept \in Seq(Routes) /\ (kept = <<>> <=> I = {}) /\ ToSet(kept) = {filter[i] : i \in I}
    <3> HIDE DEF I
    <3> QED
      BY <2>1, KeptSet
  <2>3. Selected(filter, ids) = IF kept # <<>> THEN kept ELSE SetToSeq(ids)
    BY <1>3 DEF Selected
  <2>4. ToSet(kept) \subseteq ids
    BY <2>2
  <2>5. ASSUME ToSet(filter) \subseteq ids, filter # <<>>
        PROVE  kept # <<>> /\ ToSet(kept) = ToSet(filter)
    <3>1. ToSet(filter) = {filter[i] : i \in DOMAIN filter}
      BY DEF ToSet
    <3>2. DOMAIN filter # {}
      <4>1. DOMAIN filter = 1..Len(filter) /\ Len(filter) \in Nat /\ Len(filter) # 0
        BY <2>1, <2>5, EmptySeq
      <4>2. 1 \in 1..Len(filter)
        BY <4>1
      <4> QED
        BY <4>1, <4>2
    <3>3. I = DOMAIN filter
      BY <2>5, <3>1
    <3> HIDE DEF I, kept
    <3> QED
      BY <2>2, <3>1, <3>2, <3>3
  <2>6. kept # <<>> => ToSet(kept) # {}
    <3> HIDE DEF kept
    <3> QED
      BY <2>2
  <2> HIDE DEF kept
  <2> QED
    BY <1>1, <1>3, <2>2, <2>3, <2>4, <2>5, <2>6
<1> QED
  BY <1>2, <1>3

\* A list without repetitions is as long as its set is large.
LEMMA LengthOfSet ==
  ASSUME NEW S, NEW s \in Seq(S), IsInjective(s)
  PROVE  IsFiniteSet(ToSet(s)) /\ Cardinality(ToSet(s)) = Len(s)
<1>1. DOMAIN s = 1..Len(s) /\ Len(s) \in Nat
  OBVIOUS
<1>2. ToSet(s) = {s[i] : i \in 1..Len(s)}
  BY <1>1 DEF ToSet
<1>3. s \in [1..Len(s) -> ToSet(s)]
  BY <1>1, <1>2
<1>4. s \in Bijection(1..Len(s), ToSet(s))
  BY <1>2, <1>3 DEF Bijection, Injection, Surjection
<1>5. IsFiniteSet(1..Len(s)) /\ Cardinality(1..Len(s)) = Len(s)
  BY <1>1, FS_Interval
<1>6. ExistsBijection(1..Len(s), ToSet(s))
  BY <1>4 DEF ExistsBijection
<1> QED
  BY <1>5, <1>6, FS_Bijection

\* The elements of a list of at least one.
LEMMA ListSet ==
  ASSUME NEW S, NEW s \in Seq(S)
  PROVE  /\ ToSet(s) = {s[i] : i \in 1..Len(s)}
         /\ ToSet(s) \subseteq S
         /\ \A e : Contains(s, e) <=> e \in ToSet(s)
<1>1. DOMAIN s = 1..Len(s)
  OBVIOUS
<1>2. ToSet(s) = {s[i] : i \in 1..Len(s)}
  BY <1>1 DEF ToSet
<1>3. \A i \in 1..Len(s) : s[i] \in S
  BY ElementOfSeq
<1> QED
  BY <1>2, <1>3 DEF Contains

\* Without its first occurrence, which is its only one, e is gone.
LEMMA WithoutFirst ==
  ASSUME NEW S, NEW s \in Seq(S), IsInjective(s), NEW e \in ToSet(s)
  PROVE  /\ RemoveFirst(s, e) \in Seq(S)
         /\ Len(RemoveFirst(s, e)) = Len(s) - 1
         /\ ToSet(RemoveFirst(s, e)) = ToSet(s) \ {e}
<1> DEFINE n == Len(s)
           I == {i \in 1..n : s[i] = e}
           k == Min(I)
           left == SubSeq(s, 1, k - 1)
           right == SubSeq(s, k + 1, n)
           t == RemoveFirst(s, e)
<1>1. /\ n \in Nat /\ DOMAIN s = 1..n
      /\ \A i \in 1..n : s[i] \in S
      /\ ToSet(s) = {s[i] : i \in 1..n}
  BY ListSet, ElementOfSeq
<1>2. \A i, j \in 1..n : s[i] = s[j] => i = j
  BY <1>1 DEF IsInjective
<1>3. I # {} /\ I \in SUBSET Nat
  BY <1>1
<1>4. k \in I
  <2> HIDE DEF I
  <2> QED
    BY <1>3, LeastOf
<1>5. t = left \o right
  <2>1. SelectInSeq(s, LAMBDA v : v = e) = k
    BY <1>3 DEF SelectInSeq
  <2>2. \E i \in 1..Len(s) : s[i] = e
    BY <1>3
  <2> HIDE DEF k, n
  <2> QED
    BY <2>1, <2>2 DEF RemoveFirst, RemoveAt, n
<1>6. k \in 1..n /\ s[k] = e
  BY <1>4
<1> HIDE DEF k, I, t
<1>7. /\ left \in Seq(S) /\ Len(left) = k - 1
      /\ \A i \in 1..(k - 1) : left[i] = s[i]
  <2>1. \A i \in 1..(k - 1) : s[i] \in S
    BY <1>1, <1>6
  <2>2. 1 \in Int /\ k - 1 \in Int
    BY <1>1, <1>6
  <2>3. /\ SubSeq(s, 1, k - 1) \in Seq(S)
        /\ Len(SubSeq(s, 1, k - 1)) = IF 1 <= k - 1 THEN (k - 1) - 1 + 1 ELSE 0
        /\ \A i \in 1..((k - 1) - 1 + 1) : SubSeq(s, 1, k - 1)[i] = s[1 + i - 1]
    BY <2>1, <2>2, SubSeqProperties
  <2> HIDE DEF left, n
  <2>4. Len(left) = k - 1
    BY <1>1, <1>6, <2>3 DEF left
  <2>5. ASSUME NEW i \in 1..(k - 1)
        PROVE  left[i] = s[i]
    <3>1. i \in 1..((k - 1) - 1 + 1) /\ 1 + i - 1 = i
      BY <1>1, <1>6
    <3> QED
      BY <2>3, <3>1 DEF left
  <2> QED
    BY <2>3, <2>4, <2>5 DEF left
<1>8. /\ right \in Seq(S) /\ Len(right) = n - k
      /\ \A i \in 1..(n - k) : right[i] = s[k + i]
  <2>1. \A i \in (k + 1)..n : s[i] \in S
    BY <1>1, <1>6
  <2>2. k + 1 \in Int /\ n \in Int
    BY <1>1, <1>6
  <2> HIDE DEF n
  <2>3. /\ SubSeq(s, k + 1, n) \in Seq(S)
        /\ Len(SubSeq(s, k + 1, n)) = IF k + 1 <= n THEN n - (k + 1) + 1 ELSE 0
        /\ \A i \in 1..(n - (k + 1) + 1) : SubSeq(s, k + 1, n)[i] = s[(k + 1) + i - 1]
    BY <2>1, <2>2, SubSeqProperties
  <2> HIDE DEF right
  <2>4. Len(right) = n - k
    BY <1>1, <1>6, <2>3 DEF right
  <2>5. ASSUME NEW i \in 1..(n - k)
        PROVE  right[i] = s[k + i]
    <3>1. i \in 1..(n - (k + 1) + 1) /\ (k + 1) + i - 1 = k + i
      BY <1>1, <1>6
    <3> QED
      BY <2>3, <3>1 DEF right
  <2> QED
    BY <2>3, <2>4, <2>5 DEF right
<1> HIDE DEF left, right, n
<1>9. /\ t \in Seq(S) /\ Len(t) = n - 1
      /\ \A i \in 1..(n - 1) : t[i] = IF i <= k - 1 THEN s[i] ELSE s[i + 1]
  <2>1. /\ left \o right \in Seq(S)
        /\ Len(left \o right) = Len(left) + Len(right)
        /\ \A i \in 1..(Len(left) + Len(right)) :
             (left \o right)[i] = IF i <= Len(left) THEN left[i] ELSE right[i - Len(left)]
    BY <1>7, <1>8, ConcatProperties
  <2>2. Len(left) + Len(right) = n - 1
    BY <1>1, <1>6, <1>7, <1>8
  <2>3. ASSUME NEW i \in 1..(n - 1)
        PROVE  t[i] = IF i <= k - 1 THEN s[i] ELSE s[i + 1]
    <3>1. t[i] = IF i <= k - 1 THEN left[i] ELSE right[i - (k - 1)]
      BY <1>5, <1>7, <2>1, <2>2
    <3>2. CASE i <= k - 1
      BY <1>1, <1>6, <1>7, <3>1, <3>2
    <3>3. CASE ~(i <= k - 1)
      <4>1. i - (k - 1) \in 1..(n - k) /\ k + (i - (k - 1)) = i + 1
        BY <1>1, <1>6, <3>3
      <4> QED
        BY <1>8, <3>1, <3>3, <4>1
    <3> QED
      BY <3>2, <3>3
  <2> QED
    BY <1>5, <2>1, <2>2, <2>3
<1>10. ToSet(t) = ToSet(s) \ {e}
  <2>1. ToSet(t) = {t[i] : i \in 1..(n - 1)}
    BY <1>9, ListSet
  <2>2. ASSUME NEW i \in 1..(n - 1)
        PROVE  t[i] \in ToSet(s) \ {e}
    <3>1. CASE i <= k - 1
      <4>1. t[i] = s[i] /\ i \in 1..n /\ i # k
        BY <1>1, <1>6, <1>9, <3>1
      <4> QED
        BY <1>1, <1>2, <1>6, <4>1
    <3>2. CASE ~(i <= k - 1)
      <4>1. t[i] = s[i + 1] /\ i + 1 \in 1..n /\ i + 1 # k
        BY <1>1, <1>6, <1>9, <3>2
      <4> QED
        BY <1>1, <1>2, <1>6, <4>1
    <3> QED
      BY <3>1, <3>2
  <2>3. ASSUME NEW i \in 1..n, s[i] # e
        PROVE  s[i] \in ToSet(t)
    <3>1. CASE i < k
      <4>1. i \in 1..(n - 1) /\ i <= k - 1
        BY <1>1, <1>6, <3>1
      <4> QED
        BY <1>9, <2>1, <4>1
    <3>2. CASE i > k
      <4>1. i - 1 \in 1..(n - 1) /\ ~(i - 1 <= k - 1) /\ (i - 1) + 1 = i
        BY <1>1, <1>6, <3>2
      <4>2. t[i - 1] = s[i]
        BY <1>9, <4>1
      <4> QED
        BY <2>1, <4>1, <4>2
    <3> QED
      BY <1>1, <1>6, <2>3, <3>1, <3>2
  <2> QED
    BY <1>1, <2>1, <2>2, <2>3
<1> QED
  BY <1>9, <1>10 DEF t, n

-----------------------------------------------------------------------------
(* The list and its buttons *)

\* The routes of the arrivals are finitely many.
LEMMA RoutesOfArrivals ==
  ASSUME NEW a \in (SUBSET Trips) \cup {None}
  PROVE  routesOf(a) \in SUBSET Routes /\ IsFiniteSet(routesOf(a))
<1>1. CASE a = None
  BY <1>1, FS_EmptySet DEF routesOf
<1>2. CASE a # None
  <2> DEFINE f == [t \in a |-> Arrival[t].route]
  <2>0. a \in SUBSET Trips
    BY <1>2
  <2>1. IsFiniteSet(a)
    <3>1. IsFiniteSet(Trips)
      BY PagesAssumption
    <3> QED
      BY <2>0, <3>1, FS_Subset
  <2>2. routesOf(a) = {Arrival[t].route : t \in a}
    BY <1>2 DEF routesOf
  <2>3. f \in Surjection(a, routesOf(a))
    BY <2>2 DEF Surjection
  <2>4. IsFiniteSet(routesOf(a))
    <3> HIDE DEF f
    <3> QED
      BY <2>1, <2>3, FS_Surjection
  <2>5. \A t \in Trips : Arrival[t].route \in Routes
    BY PagesAssumption
  <2> QED
    BY <2>0, <2>2, <2>4, <2>5
<1> QED
  BY <1>1, <1>2

\* The state of a stop's page, in the terms of the lemmas.
LEMMA PageFacts ==
  ASSUME TypeOK
  PROVE  /\ routeIds \in SUBSET Routes /\ IsFiniteSet(routeIds)
         /\ routeFilter \in Seq(Routes) \cup {None}
         /\ selectedRouteIds = Selected(routeFilter, routeIds)
         /\ selectedRouteIds \in Seq(Routes)
<1>1. routeIds \in SUBSET Routes /\ IsFiniteSet(routeIds)
  BY RoutesOfArrivals DEF TypeOK, routeIds
<1>2. routeFilter \in Seq(Routes) \cup {None}
  BY DEF TypeOK
<1>3. selectedRouteIds = Selected(routeFilter, routeIds)
  BY DEF selectedRouteIds, Selected
<1> QED
  BY <1>1, <1>2, <1>3, SelectedFacts

\* The pressed buttons are those of the rows, in every state of the right types.
LEMMA PressedFollows == TypeOK => PressedIsShown
<1> SUFFICES ASSUME TypeOK, url.page = "stop", routeIds # {}
             PROVE  /\ StopMenu # {}
                    /\ {r.route : r \in StopMenu} = ToSet(selectedRouteIds)
  BY DEF PressedIsShown
<1> DEFINE ids == IF routeFilter = None THEN None ELSE selectedRouteIds
           sel == ToSet(selectedRouteIds)
           shown == {s \in arrivals : ids = None \/ Contains(ids, Arrival[s].route)}
<1>1. /\ routeIds \in SUBSET Routes /\ IsFiniteSet(routeIds)
      /\ routeFilter \in Seq(Routes) \cup {None}
      /\ selectedRouteIds = Selected(routeFilter, routeIds)
      /\ selectedRouteIds \in Seq(Routes)
  BY PageFacts
<1>2. /\ sel \subseteq routeIds /\ sel # {}
      /\ routeFilter = None => sel = routeIds
  BY <1>1, SelectedFacts
<1>3. arrivals # None /\ routeIds = {Arrival[t].route : t \in arrivals}
  BY DEF routeIds, routesOf
<1>4. StopMenu = {UpcomingRow(t) : t \in shown}
  BY <1>3 DEF StopMenu, UpcomingList
<1>5. \A t \in shown : UpcomingRow(t).route = Arrival[t].route
  BY DEF UpcomingRow
<1>6. shown = {s \in arrivals : Arrival[s].route \in sel}
  <2>1. CASE routeFilter = None
    <3>1. ids = None /\ sel = routeIds
      BY <1>2, <2>1
    <3> HIDE DEF ids, sel
    <3> QED
      BY <1>3, <3>1
  <2>2. CASE routeFilter # None
    <3>1. ids = selectedRouteIds /\ ids # None
      BY <1>1, <2>2, PagesAssumption
    <3>2. \A e : Contains(selectedRouteIds, e) <=> e \in sel
      BY <1>1, ListSet
    <3> HIDE DEF ids, sel
    <3> QED
      BY <3>1, <3>2
  <2> QED
    BY <2>1, <2>2
<1> HIDE DEF sel, shown
<1>7. {Arrival[t].route : t \in shown} = sel
  BY <1>2, <1>3, <1>6
<1>8. {r.route : r \in StopMenu} = {Arrival[t].route : t \in shown}
  BY <1>4, <1>5
<1>9. StopMenu # {}
  BY <1>2, <1>4, <1>7
<1> QED
  BY <1>7, <1>8, <1>9 DEF sel

\* The rows of a route's timeline tell the instants that were meant.
LEMMA RowTimeFollows == TypeOK => RowTimeIsTrue
<1> SUFFICES ASSUME TypeOK, row # None
             PROVE
    /\ row.updated # None /\ row.updated >= StartOfDay(now) /\ row.updated - now <= 11 * Hour
       /\ now - row.updated < 13 * Hour
       => RouteRow.at = row.updated /\ (row.updated >= now => RouteRow.tells # "ago")
    /\ row.updated = None /\ StartOfDay(row.asked) = StartOfDay(now)
       /\ now - row.scheduled < 13 * Hour
       => RouteRow.at = row.scheduled
  BY DEF RowTimeIsTrue
<1>1. /\ now \in Int /\ row.asked \in Int /\ row.scheduled \in Int
      /\ row.updated \in Int \cup {None}
  <2>1. Clock \subseteq Int /\ Dues \subseteq Int
    BY PagesAssumption
  <2>2. /\ now \in Clock
        /\ row \in [asked : Clock, scheduled : Dues, updated : Dues \cup {None}]
    BY DEF TypeOK
  <2> QED
    BY <2>1, <2>2
<1>2. StartOfDay(now) \in Int
  BY <1>1, DayBegins
<1>3. ASSUME row.updated # None, row.updated >= StartOfDay(now),
             row.updated - now <= 11 * Hour, now - row.updated < 13 * Hour
      PROVE  RouteRow.at = row.updated /\ (row.updated >= now => RouteRow.tells # "ago")
  <2>1. parseArrivalTime(row.updated % Day) = row.updated
    BY <1>1, <1>2, <1>3, PredictionIsReadBack
  <2>2. RouteRow.at = row.updated /\ RouteRow.tells = TimeForm(row.updated - now)
    BY <1>3, <2>1 DEF RouteRow
  <2>3. row.updated >= now => row.updated - now \in Int /\ row.updated - now >= 0
    BY <1>1, <1>3
  <2> QED
    BY <2>2, <2>3, NotAgo
<1>4. ASSUME row.updated = None, StartOfDay(row.asked) = StartOfDay(now),
             now - row.scheduled < 13 * Hour
      PROVE  RouteRow.at = row.scheduled
  <2>1. parseArrivalTime(row.scheduled - StartOfDay(row.asked)) = row.scheduled
    BY <1>1, <1>4, ScheduleIsReadBack
  <2> QED
    BY <1>4, <2>1 DEF RouteRow
<1> QED
  BY <1>3, <1>4

\* The status of a trip's stop is that of its delay.
LEMMA StatusFollows == TypeOK => StatusIsFair
<1> SUFFICES ASSUME TypeOK, trip # None, trip.updated # None,
                    StartOfDay(now) = trip.day, now - trip.scheduled < 13 * Hour
             PROVE  LET late == trip.updated - trip.scheduled IN
                    /\ late \in (-Minute) .. Minute => TripRow.status = "On time"
                    /\ late >= 2 * Minute => TripRow.status = "Delayed"
                    /\ late <= -(2 * Minute) => TripRow.status = "Early"
  BY DEF StatusIsFair
<1>1. now \in Int /\ trip.scheduled \in Int /\ trip.updated \in Int
  <2>1. Clock \subseteq Int /\ Dues \subseteq Int
    BY PagesAssumption
  <2>2. now \in Clock /\ trip \in [day : Nat, scheduled : Dues, updated : Int \cup {None}]
    BY DEF TypeOK
  <2> QED
    BY <2>1, <2>2
<1>2. parseArrivalTime(trip.scheduled - trip.day) = trip.scheduled
  BY <1>1, ScheduleIsReadBack
<1>3. TripRow.status = Status(trip.scheduled, trip.updated)
  BY <1>2 DEF TripRow
<1> QED
  BY <1>1, <1>3, StatusByDelay

-----------------------------------------------------------------------------
(* The invariant *)

\* The parts of a URL.
LEMMA UrlFacts ==
  ASSUME NEW u \in Url
  PROVE  /\ u.page \in {"stop", "route", "trip"} /\ u.direction \in Directions
         /\ u.route \in Routes \cup {None}
         /\ u.page = "route" => u.route \in Routes
         /\ \A d \in Directions : [u EXCEPT !.direction = d] \in Url
         /\ \A d \in Directions : [u EXCEPT !.direction = d].page = u.page
         /\ \A d \in Directions : [u EXCEPT !.direction = d].direction = d
BY DEF Url

\* A link leads to a URL.
LEMMA LinksAreUrls ==
  ASSUME TypeOK
  PROVE  Links \subseteq Url
<1>1. url \in Url
  BY DEF TypeOK
<1>2. url.route \in Routes \cup {None} /\ url.direction \in Directions
  BY <1>1, UrlFacts
<1>3. routeIds \subseteq Routes /\ {0} \subseteq Directions
  BY PageFacts DEF Directions
<1>4. StopRoutes \subseteq Url
  BY <1>3 DEF StopRoutes, Url
<1>5. ArrivalTrack \subseteq Url
  BY <1>3 DEF ArrivalTrack, Url
<1>6. RouteLinks \subseteq Url
  BY <1>2 DEF RouteLinks, Url
<1>7. TripLinks \subseteq Url
  BY <1>2 DEF TripLinks, Url
<1> HIDE DEF Url
<1>8. url.page \in {"stop", "route", "trip"}
  BY <1>1, UrlFacts
<1> QED
  BY <1>4, <1>5, <1>6, <1>7, <1>8 DEF Links

\* Wherever one goes, the page reached has a state of its kind.
LEMMA ShowInvariant ==
  ASSUME IInv, NEW u \in Url, Show(u),
         toggle # None => u.direction = toggle
  PROVE  IInv'
<1>1. /\ url \in Url /\ url' = u /\ now' = now /\ now \in Clock
  BY DEF Show, IInv, TypeOK
<1>2. /\ routeFilter' \in Seq(Routes) \cup {None}
      /\ expandedTripId' \in Trips \cup {None}
      /\ arrivals' \in (SUBSET Trips) \cup {None}
  <2>1. StopMenuState(u)
    BY DEF Show
  <2>2. CASE u.page = "stop" /\ Stays(u)
    BY <2>1, <2>2 DEF StopMenuState, IInv, TypeOK
  <2>3. CASE ~(u.page = "stop" /\ Stays(u))
    <3>1. /\ routeFilter' = IF u.page = "stop" /\ u.route # None THEN <<u.route>> ELSE None
          /\ expandedTripId' = None /\ arrivals' = None
      BY <2>1, <2>3 DEF StopMenuState
    <3>2. u.route # None => <<u.route>> \in Seq(Routes)
      BY UrlFacts
    <3> QED
      BY <3>1, <3>2
  <2> QED
    BY <2>2, <2>3
<1>3. value' \in Directions /\ toggle' = None /\ overtaken' \in BOOLEAN
  BY UrlFacts DEF Show, DirectionToggle, IInv, TypeOK, Directions
<1>5. ASSUME u.page = "route", u.direction = 1, ~overtaken'
      PROVE  value' = 1
  <2>1. DirectionToggle(u)
    BY DEF Show
  <2>2. CASE Stays(u) => u.direction # url.direction
    BY <1>5, <2>1, <2>2 DEF DirectionToggle
  <2>3. CASE Stays(u) /\ u.direction = url.direction
    <3>1. value' = value /\ overtaken' = overtaken
      BY <1>5, <2>1, <2>3 DEF DirectionToggle, IInv, TypeOK
    <3>2. url.page = "route" /\ url.direction = 1
      BY <1>5, <2>3 DEF Stays
    <3> QED
      BY <1>5, <3>1, <3>2 DEF IInv, DirectionInv
  <2> QED
    BY <2>2, <2>3
<1>4. /\ asked' \in Clock \cup {None}
      /\ u.page = "route" => asked' \in Clock
      /\ row' \in {row, None} /\ trip' \in {trip, None}
  BY <1>1 DEF Show, RouteStopsTimeline, TripMenu
<1> QED
  BY <1>1, <1>2, <1>3, <1>4, <1>5 DEF IInv, TypeOK, AskedInv, DirectionInv

\* The state that a session begins with.
LEMMA InitInvariant == Init => IInv
<1> SUFFICES ASSUME Init PROVE IInv
  OBVIOUS
<1>1. url \in Url /\ url.page = "stop" /\ now \in Clock
  BY DEF Init, Url, Directions
<1>2. /\ value \in Directions /\ toggle \in Directions \cup {None}
      /\ overtaken \in BOOLEAN
  BY DEF Init, Directions
<1>3. TypeOK
  BY <1>1, <1>2 DEF Init, TypeOK
<1>4. AskedInv /\ DirectionInv
  BY <1>1 DEF Init, AskedInv, DirectionInv
<1> QED
  BY <1>3, <1>4 DEF IInv

\* The buttons of the stop's page make lists of routes.
LEMMA SelectorMakesLists ==
  ASSUME NEW ids \in Seq(Routes), NEW n, NEW r \in Routes
  PROVE  RoutesSelector(ids, n, r) \in Seq(Routes)
<1>1. <<r>> \in Seq(Routes) /\ Append(ids, r) \in Seq(Routes)
  OBVIOUS
<1>2. RemoveFirst(ids, r) \in Seq(Routes)
  <2> DEFINE I == {i \in 1..Len(ids) : ids[i] = r}
             k == SelectInSeq(ids, LAMBDA v : v = r)
  <2>1. CASE I = {}
    BY <2>1 DEF RemoveFirst
  <2>2. CASE I # {}
    <3>1. Min(I) \in I /\ k = Min(I)
      <4>1. I \in SUBSET Nat
        OBVIOUS
      <4>2. k = Min(I)
        BY <2>2 DEF SelectInSeq
      <4> HIDE DEF I, k
      <4> QED
        BY <2>2, <4>1, <4>2, LeastOf
    <3>2. k \in 1..Len(ids)
      BY <3>1
    <3>3. RemoveFirst(ids, r) = SubSeq(ids, 1, k - 1) \o SubSeq(ids, k + 1, Len(ids))
      BY <2>2 DEF RemoveFirst, RemoveAt
    <3> HIDE DEF k
    <3>4. /\ 1 \in Int /\ k - 1 \in Int /\ k + 1 \in Int /\ Len(ids) \in Int
          /\ \A i \in 1..(k - 1) : ids[i] \in Routes
          /\ \A i \in (k + 1)..Len(ids) : ids[i] \in Routes
      BY <3>2
    <3>5. SubSeq(ids, 1, k - 1) \in Seq(Routes)
      BY <3>4, SubSeqProperties
    <3>6. SubSeq(ids, k + 1, Len(ids)) \in Seq(Routes)
      BY <3>4, SubSeqProperties
    <3> QED
      BY <3>3, <3>5, <3>6, ConcatProperties
  <2> QED
    BY <2>1, <2>2
<1> QED
  BY <1>1, <1>2 DEF RoutesSelector

\* Every action keeps the invariant.
LEMMA NextInvariant == IInv /\ [Next]_vars => IInv'
<1> SUFFICES ASSUME IInv, [Next]_vars PROVE IInv'
  OBVIOUS
<1>1. CASE FollowLink
  BY <1>1, LinksAreUrls, ShowInvariant DEF FollowLink, Go, IInv
<1>2. CASE Open
  BY <1>2, ShowInvariant DEF Open, Go
<1>3. ASSUME NEW r \in Routes, ClickRoute(r)
      PROVE  IInv'
  <2>1. RoutesSelector(selectedRouteIds, Cardinality(routeIds), r) \in Seq(Routes)
    BY PageFacts, SelectorMakesLists DEF IInv
  <2>2. routeFilter' \in Seq(Routes) \cup {None}
    BY <1>3, <2>1 DEF ClickRoute, setSelectedRouteIds
  <2> QED
    BY <1>3, <2>2 DEF ClickRoute, direction, IInv, TypeOK, AskedInv, DirectionInv
<1>4. CASE clearSelection
  <2>1. SetToSeq(routeIds) \in Seq(Routes)
    <3>1. routeIds \in SUBSET Routes /\ IsFiniteSet(routeIds)
      BY PageFacts DEF IInv
    <3>2. SetToSeq(routeIds) \in Seq(routeIds)
      BY <3>1, SetList
    <3> QED
      BY <3>1, <3>2
  <2>2. routeFilter' \in Seq(Routes) \cup {None}
    BY <1>4, <2>1 DEF clearSelection, setSelectedRouteIds
  <2> QED
    BY <1>4, <2>2 DEF clearSelection, direction, IInv, TypeOK, AskedInv, DirectionInv
<1>5. ASSUME NEW t \in Trips, Toggle(t)
      PROVE  IInv'
  BY <1>5 DEF Toggle, direction, IInv, TypeOK, AskedInv, DirectionInv
<1>6. ASSUME NEW a \in SUBSET Trips, Refresh(a)
      PROVE  IInv'
  BY <1>6 DEF Refresh, direction, IInv, TypeOK, AskedInv, DirectionInv
<1>7. ASSUME NEW d \in Directions, setDirection(d)
      PROVE  IInv'
  <2>1. url.page = "route" /\ value' = d /\ toggle' = d
    BY <1>7 DEF setDirection
  <2>4. overtaken' = FALSE
    BY <1>7 DEF setDirection
  <2>2. TypeOK' /\ AskedInv'
    BY <1>7, <2>1, <2>4 DEF setDirection, IInv, TypeOK, AskedInv
  <2>5. url' = url /\ d # None
    BY <1>7, PagesAssumption DEF setDirection, Directions
  <2>3. DirectionInv'
    BY <2>1, <2>5 DEF DirectionInv
  <2> QED
    BY <2>2, <2>3 DEF IInv
<1>13. CASE RouteLoaded
  <2>1. toggle \in Directions /\ url \in Url
    BY <1>13 DEF RouteLoaded, IInv, TypeOK
  <2>2. /\ [url EXCEPT !.direction = toggle] \in Url
        /\ [url EXCEPT !.direction = toggle].direction = toggle
    BY <2>1, UrlFacts
  <2> QED
    BY <1>13, <2>2, ShowInvariant DEF RouteLoaded
<1>14. CASE Overtaken
  BY <1>14 DEF Overtaken, IInv, TypeOK, AskedInv, DirectionInv
<1>8. CASE Render
  BY <1>8 DEF Render, direction, IInv, TypeOK, AskedInv, DirectionInv
<1>9. CASE Answer
  <2>1. PICK due \in Dues, up \in {None} \cup {u \in Dues : u >= now} :
          row' = [asked |-> asked, scheduled |-> due, updated |-> up]
    BY <1>9 DEF Answer
  <2>2. asked \in Clock
    BY <1>9 DEF Answer, IInv, AskedInv
  <2>3. row' \in [asked : Clock, scheduled : Dues, updated : Dues \cup {None}]
    BY <2>1, <2>2
  <2> QED
    BY <1>9, <2>3 DEF Answer, direction, IInv, TypeOK, AskedInv, DirectionInv
<1>10. CASE tripLoader
  <2>1. PICK due \in Dues, day \in {StartOfDay(now), StartOfDay(now) - Day} :
          /\ day >= 0
          /\ \E up \in {None} \cup {due + d : d \in Delays} :
               trip' = [day |-> day, scheduled |-> due, updated |-> up]
    BY <1>10 DEF tripLoader
  <2>2. PICK up \in {None} \cup {due + d : d \in Delays} :
          trip' = [day |-> day, scheduled |-> due, updated |-> up]
    BY <2>1
  <2>3. day \in Nat
    <3>1. now \in Int
      BY PagesAssumption DEF IInv, TypeOK
    <3>2. StartOfDay(now) \in Int /\ StartOfDay(now) - Day \in Int
      BY <3>1, DayBegins, Units
    <3> QED
      BY <2>1, <3>2
  <2>4. up \in Int \cup {None}
    BY PagesAssumption
  <2>5. trip' \in [day : Nat, scheduled : Dues, updated : Int \cup {None}]
    BY <2>2, <2>3, <2>4
  <2> QED
    BY <1>10, <2>5 DEF tripLoader, direction, IInv, TypeOK, AskedInv, DirectionInv
<1>11. CASE Tick
  BY <1>11 DEF Tick, direction, IInv, TypeOK, AskedInv, DirectionInv
<1>12. CASE UNCHANGED vars
  BY <1>12 DEF vars, direction, IInv, TypeOK, AskedInv, DirectionInv
<1> QED
  BY <1>1, <1>2, <1>3, <1>4, <1>5, <1>6, <1>7, <1>8, <1>9, <1>10, <1>11, <1>12,
     <1>13, <1>14 DEF Next

\* Another page is shown only by a navigation.
LEMMA OnlyShowMoves ==
  ASSUME IInv, [Next]_vars, url'.page # url.page
  PROVE  \E u \in Url : Go(u)
<1>1. CASE FollowLink \/ Open
  BY <1>1, LinksAreUrls DEF FollowLink, Open, IInv
<1>2. CASE RouteLoaded
  <2>1. toggle \in Directions /\ url \in Url
    BY <1>2 DEF RouteLoaded, IInv, TypeOK
  <2>2. url' = [url EXCEPT !.direction = toggle]
    BY <1>2 DEF RouteLoaded, Show
  <2> QED
    BY <2>1, <2>2, UrlFacts
<1>3. CASE ~(FollowLink \/ Open \/ RouteLoaded)
  <2>1. url' = url
    BY <1>3 DEF Next, vars, ClickRoute, clearSelection, Toggle, Refresh, setDirection,
                Overtaken, Render, Answer, tripLoader, Tick
  <2> QED
    BY <2>1
<1> QED
  BY <1>1, <1>2, <1>3

\* It holds all the time.
LEMMA Invariant == Spec => []IInv
BY InitInvariant, NextInvariant, PTL DEF Spec

-----------------------------------------------------------------------------
(* The buttons *)

\* A set of routes as large as all of them has them all.
LEMMA AllOrFewer ==
  ASSUME NEW R, IsFiniteSet(R), NEW T \in SUBSET R
  PROVE  /\ Cardinality(R) \in Nat /\ Cardinality(T) \in Nat
         /\ Cardinality(T) <= Cardinality(R)
         /\ T = R <=> Cardinality(T) >= Cardinality(R)
<1>1. IsFiniteSet(T) /\ Cardinality(T) <= Cardinality(R)
      /\ (Cardinality(T) = Cardinality(R) => T = R)
  BY FS_Subset
<1>2. Cardinality(R) \in Nat /\ Cardinality(T) \in Nat
  BY <1>1, FS_CardinalityType
<1> QED
  BY <1>1, <1>2

\* What is selected of n routes, more than one, after the button of r set the filter.
LEMMA ClickSelects ==
  ASSUME NEW R \in SUBSET Routes, IsFiniteSet(R), Cardinality(R) > 1,
         NEW ids \in Seq(Routes), ToSet(ids) \subseteq R, IsInjective(ids),
         NEW r \in R, ids # <<r>>,
         NEW v, v = RoutesSelector(ids, Cardinality(R), r),
         NEW filter, filter = IF Len(v) >= Cardinality(R) THEN None ELSE v
  PROVE  /\ ToSet(ids) = R => ToSet(Selected(filter, R)) = {r}
         /\ ToSet(ids) # R /\ r \notin ToSet(ids) =>
              ToSet(Selected(filter, R)) = ToSet(ids) \cup {r}
         /\ ToSet(ids) # R /\ r \in ToSet(ids) =>
              /\ ToSet(ids) # {r}
              /\ ToSet(Selected(filter, R)) = ToSet(ids) \ {r}
<1> DEFINE n == Cardinality(R)
           T == ToSet(ids)
<1>1. /\ Len(ids) \in Nat /\ n \in Nat /\ n > 1
      /\ IsFiniteSet(T) /\ Cardinality(T) = Len(ids)
      /\ Len(ids) <= n /\ (T = R <=> Len(ids) = n)
  BY AllOrFewer, LengthOfSet
<1>2. Contains(ids, r) <=> r \in T
  BY ListSet
<1>3. Len(ids) = 1 /\ r \in T => FALSE
  <2> SUFFICES ASSUME Len(ids) = 1, r \in T PROVE ids = <<r>>
    OBVIOUS
  <2>1. T = {ids[i] : i \in 1..1}
    BY ListSet
  <2>2. ids[1] = r
    BY <2>1
  <2> QED
    BY <2>2
<1>4. r \in T => Len(ids) > 1
  <2>1. Len(ids) = 0 => T = {}
    <3>1. T = {ids[i] : i \in 1..Len(ids)}
      BY ListSet
    <3> QED
      BY <3>1
  <2> QED
    BY <1>1, <1>3, <2>1
<1>5. ASSUME v \in Seq(Routes), ToSet(v) \subseteq R, Len(v) < n, v # <<>>
      PROVE  ToSet(Selected(filter, R)) = ToSet(v)
  <2>1. filter = v
    BY <1>1, <1>5
  <2>2. filter # None
    BY <1>5, <2>1, PagesAssumption
  <2> QED
    BY <1>5, <2>1, <2>2, SelectedFacts
<1> HIDE DEF n, T
<1>6. CASE T = R
  <2>1. v = <<r>>
    BY <1>1, <1>6 DEF RoutesSelector, n
  <2>2. v \in Seq(Routes) /\ Len(v) = 1 /\ v # <<>>
    BY <2>1
  <2>3. ToSet(v) = {r}
    <3>1. ToSet(v) = {v[i] : i \in 1..1}
      BY <2>2, ListSet
    <3> QED
      BY <2>1, <3>1
  <2>4. ToSet(Selected(filter, R)) = {r}
    BY <1>1, <1>5, <2>2, <2>3
  <2> QED
    BY <1>6, <2>4 DEF T
<1>7. CASE T # R /\ r \notin T
  <2>1. v = Append(ids, r)
    BY <1>1, <1>2, <1>7 DEF RoutesSelector, n
  <2>2. /\ v \in Seq(Routes) /\ Len(v) = Len(ids) + 1 /\ v # <<>>
        /\ \A i \in 1..Len(ids) : v[i] = ids[i]
        /\ v[Len(ids) + 1] = r
    BY <2>1
  <2>3. ToSet(v) = T \cup {r}
    <3>1. ToSet(v) = {v[i] : i \in 1..(Len(ids) + 1)} /\ T = {ids[i] : i \in 1..Len(ids)}
      BY <2>2, ListSet DEF T
    <3>2. 1..(Len(ids) + 1) = (1..Len(ids)) \cup {Len(ids) + 1}
      BY <1>1
    <3> QED
      BY <2>2, <3>1, <3>2
  <2>4. T \subseteq R
    BY DEF T
  <2>5. Cardinality(T \cup {r}) = Len(ids) + 1
    BY <1>1, <1>7, FS_AddElement
  <2>6. ToSet(Selected(filter, R)) = T \cup {r}
    <3>1. CASE Len(v) < n
      BY <1>5, <2>2, <2>3, <2>4, <3>1
    <3>2. CASE ~(Len(v) < n)
      <4>1. filter = None
        BY <1>1, <2>2, <3>2 DEF n
      <4>2. ToSet(Selected(filter, R)) = R
        BY <4>1, SelectedFacts
      <4>3. T \cup {r} = R
        <5>1. T \cup {r} \in SUBSET R /\ Cardinality(T \cup {r}) >= Cardinality(R)
          BY <1>1, <2>2, <2>4, <2>5, <3>2 DEF n
        <5> QED
          BY <5>1, AllOrFewer
      <4> QED
        BY <4>2, <4>3
    <3> QED
      BY <3>1, <3>2
  <2> QED
    BY <1>7, <2>6 DEF T
<1>8. CASE T # R /\ r \in T
  <2>1. v = RemoveFirst(ids, r)
    BY <1>1, <1>2, <1>4, <1>8 DEF RoutesSelector, n
  <2>2. /\ v \in Seq(Routes) /\ Len(v) = Len(ids) - 1
        /\ ToSet(v) = T \ {r}
    BY <1>8, <2>1, WithoutFirst DEF T
  <2>3. Len(v) < n /\ v # <<>> /\ T \subseteq R
    BY <1>1, <1>4, <1>8, <2>2 DEF T
  <2>4. ToSet(Selected(filter, R)) = T \ {r}
    BY <1>5, <2>2, <2>3
  <2>5. T # {r}
    <3>1. Cardinality({r}) = 1
      BY FS_Singleton
    <3>2. Cardinality(T) # 1
      BY <1>1, <1>4, <1>8
    <3> QED
      BY <3>1, <3>2, Zenon
  <2> QED
    BY <1>8, <2>4, <2>5 DEF T
<1> QED
  BY <1>6, <1>7, <1>8 DEF T

-----------------------------------------------------------------------------
(* The theorems *)

\* Every variable keeps its type, so every page has the state it renders from,
\* however it was reached.
THEOREM TypeCorrect == Spec => []TypeOK
BY Invariant, PTL DEF IInv

\* The pressed buttons of a stop's page are the routes of its rows, and while there
\* are buses there are rows (StopMenu 66-76, UpcomingList 43-47).
THEOREM PressedAlwaysShown == Spec => []PressedIsShown
BY TypeCorrect, PressedFollows, PTL

\* A row of a route's timeline shows the instant the server meant, within the bounds
\* that RowTimeIsTrue names (parseArrivalTime in dateUtils.ts).
THEOREM RowTimeAlwaysTrue == Spec => []RowTimeIsTrue
BY TypeCorrect, RowTimeFollows, PTL

\* A bus within a minute of its schedule is on time, one two minutes or more off is
\* early or delayed as it is (TripTimeline 97-120).
THEOREM StatusAlwaysFair == Spec => []StatusIsFair
BY TypeCorrect, StatusFollows, PTL

\* The direction that is checked is the URL's when a route's page opens, when the
\* radio's navigation is done and, in direction 1, however the URL got there, while no
\* such navigation is pending and none was overtaken (DirectionToggle 26-38).
THEOREM DirectionAlwaysShown == Spec => DirectionShown
<1> DEFINE A == url'.page = "route"
                /\ \/ url.page # "route" \/ RouteLoaded
                   \/ url'.direction = 1 /\ toggle' = None /\ ~overtaken'
                => value' = url'.direction
<1>1. ASSUME IInv, [Next]_vars, url'.page = "route", url.page # "route"
      PROVE  value' = url'.direction
  <2>1. PICK u \in Url : Go(u)
    BY <1>1, OnlyShowMoves
  <2>2. url' = u /\ DirectionToggle(u) /\ ~Stays(u) /\ u.direction \in Directions
    BY <1>1, <2>1, UrlFacts DEF Go, Show, Stays
  <2> QED
    BY <1>1, <2>2 DEF DirectionToggle, Directions
<1>2. ASSUME IInv, RouteLoaded, url'.page = "route"
      PROVE  value' = url'.direction
  <2> DEFINE u == [url EXCEPT !.direction = toggle]
  <2>1. toggle \in Directions /\ url.page = "route" /\ value = toggle
    BY <1>2 DEF RouteLoaded, IInv, TypeOK, DirectionInv
  <2>2. u.page = url.page /\ u.direction = toggle
    BY <1>2, <2>1, UrlFacts DEF IInv, TypeOK
  <2>3. url' = u /\ DirectionToggle(u)
    BY <1>2 DEF RouteLoaded, Show
  <2> HIDE DEF u
  <2> QED
    BY <2>1, <2>2, <2>3 DEF DirectionToggle, Stays
<1>3. ASSUME IInv', url'.page = "route", url'.direction = 1, toggle' = None, ~overtaken'
      PROVE  value' = url'.direction
  BY <1>3 DEF IInv, DirectionInv
<1>4. IInv /\ IInv' /\ [Next]_vars => [A]_vars
  BY <1>1, <1>2, <1>3
<1>5. Spec => [][A]_vars
  BY Invariant, <1>4, PTL DEF Spec
<1> QED
  BY <1>5 DEF DirectionShown

\* A click on a button presses or releases its route and no other, and leaves it
\* alone when all are pressed (RoutesSelector 51-70, StopMenu 60-64).
THEOREM SelectorAlwaysAnswers == Spec => SelectorAnswers
<1> DEFINE A == \A r \in Routes :
                  /\ url.page = "stop" /\ UNCHANGED <<url, arrivals>>
                  /\ ClickRoute(r)
                  /\ IsInjective(selectedRouteIds)
                  /\ selectedRouteIds # <<r>>
                  => ToSet(selectedRouteIds') = Pressed(selectedRouteIds, r)
<1>1. ASSUME IInv, IInv', NEW r \in Routes, UNCHANGED <<url, arrivals>>, ClickRoute(r),
             IsInjective(selectedRouteIds), selectedRouteIds # <<r>>
      PROVE  ToSet(selectedRouteIds') = Pressed(selectedRouteIds, r)
  <2> DEFINE ids == selectedRouteIds
             v == RoutesSelector(ids, Cardinality(routeIds), r)
  <2>1. /\ routeIds \in SUBSET Routes /\ IsFiniteSet(routeIds)
        /\ ids \in Seq(Routes) /\ ToSet(ids) \subseteq routeIds
    BY <1>1, PageFacts, SelectedFacts DEF IInv
  <2>2. /\ r \in routeIds /\ Cardinality(routeIds) > 1
        /\ routeFilter' = IF Len(v) >= Cardinality(routeIds) THEN None ELSE v
    BY <1>1 DEF ClickRoute, setSelectedRouteIds
  <2>3. selectedRouteIds' = Selected(routeFilter', routeIds)
    <3>1. routeIds' = routeIds
      BY <1>1 DEF routeIds, routesOf
    <3>2. selectedRouteIds' = Selected(routeFilter', routeIds')
      BY DEF selectedRouteIds, Selected
    <3> QED
      BY <3>1, <3>2
  <2>4. /\ ToSet(ids) = routeIds => ToSet(Selected(routeFilter', routeIds)) = {r}
        /\ ToSet(ids) # routeIds /\ r \notin ToSet(ids) =>
             ToSet(Selected(routeFilter', routeIds)) = ToSet(ids) \cup {r}
        /\ ToSet(ids) # routeIds /\ r \in ToSet(ids) =>
             /\ ToSet(ids) # {r}
             /\ ToSet(Selected(routeFilter', routeIds)) = ToSet(ids) \ {r}
    <3> HIDE DEF ids, v
    <3>1. IsInjective(ids) /\ ids # <<r>>
      BY <1>1 DEF ids
    <3>2. v = RoutesSelector(ids, Cardinality(routeIds), r)
      BY DEF v
    <3> QED
      BY <2>1, <2>2, <3>1, <3>2, ClickSelects
  <2> HIDE DEF ids
  <2>5. ToSet(Selected(routeFilter', routeIds)) = Pressed(ids, r)
    BY <2>4 DEF Pressed
  <2> QED
    BY <2>3, <2>5 DEF ids
<1>2. IInv /\ IInv' /\ [Next]_vars => [A]_vars
  BY <1>1
<1>3. Spec => [][A]_vars
  BY Invariant, <1>2, PTL DEF Spec
<1> QED
  BY <1>3 DEF SelectorAnswers

=============================================================================
