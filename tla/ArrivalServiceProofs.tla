------------------------ MODULE ArrivalServiceProofs ------------------------
(***************************************************************************)
(* Proofs about ArrivalService, for any timetable, any reports of the      *)
(* feeds and any lengths of the windows that leave a day longer than the   *)
(* lookback and the window ahead together.                                 *)
(***************************************************************************)
EXTENDS ArrivalService, FiniteSetTheorems, SequenceTheorems, TLAPS

\* The invariant: types, what the feeds have said, and what every response has.
ResponseOK ==
  /\ OneEntryPerVisit
  /\ DueBusesShown
  /\ NextIsFirst
  /\ TrackMatchesCount
  /\ TrackTimes

IInv ==
  /\ TypeOK
  /\ live \in [Trips -> TripReport]
  /\ ResponseOK

-----------------------------------------------------------------------------
(* Numbers, finite sets and lists *)

\* A set of numbers that is not empty has a least one.
LEMMA LeastOf ==
  ASSUME NEW I \in SUBSET Nat, I # {}
  PROVE  Min(I) \in I /\ \A i \in I : Min(I) <= i
<1>1. PICK x \in I : \A y \in I : <<y, x>> \notin OpToRel(<, Nat)
  BY WFMin, NatLessThanWellFounded, Zenon
<1>2. \A y \in I : x <= y
  <2> SUFFICES ASSUME NEW y \in I PROVE ~(y < x)
    OBVIOUS
  <2> QED
    BY <1>1 DEF OpToRel
<1> QED
  BY <1>2 DEF Min

\* What a function takes a finite set to is finite, and no larger.
LEMMA FiniteImage ==
  ASSUME NEW S, IsFiniteSet(S), NEW T, NEW f \in [S -> T],
         \A y \in T : \E x \in S : y = f[x]
  PROVE  IsFiniteSet(T) /\ Cardinality(T) <= Cardinality(S)
<1>1. f \in Surjection(S, T)
  BY DEF Surjection
<1> QED
  BY <1>1, FS_Surjection

\* The places up to one of them are as many as its rank.
LEMMA PlaceFacts ==
  ASSUME NEW I \in SUBSET Int, IsFiniteSet(I)
  PROVE  /\ Cardinality(I) \in Nat
         /\ \A k \in 1..Cardinality(I) :
              Place(I, k) \in I /\ Cardinality({j \in I : j <= Place(I, k)}) = k
         /\ \A i \in I : \E k \in 1..Cardinality(I) : Place(I, k) = i
         /\ \A k, l \in 1..Cardinality(I) : k < l => Place(I, k) < Place(I, l)
<1> DEFINE UpTo(i) == {j \in I : j <= i}
           rank == [i \in I |-> Cardinality(UpTo(i))]
<1>1. Cardinality(I) \in Nat
  BY FS_CardinalityType
<1>2. ASSUME NEW i \in I
      PROVE  /\ IsFiniteSet(UpTo(i))
             /\ rank[i] \in 1..Cardinality(I)
  <2>1. UpTo(i) \in SUBSET I /\ {i} \in SUBSET UpTo(i)
    OBVIOUS
  <2>2. IsFiniteSet(UpTo(i)) /\ Cardinality(UpTo(i)) <= Cardinality(I)
    BY <2>1, FS_Subset
  <2>3. Cardinality({i}) <= Cardinality(UpTo(i)) /\ Cardinality({i}) = 1
    BY <2>1, <2>2, FS_Subset, FS_Singleton
  <2>4. Cardinality(UpTo(i)) \in Nat
    BY <2>2, FS_CardinalityType
  <2> QED
    BY <1>1, <2>2, <2>3, <2>4
<1>3. ASSUME NEW i \in I, NEW j \in I, i < j
      PROVE  rank[i] < rank[j]
  <2>1. UpTo(i) \in SUBSET UpTo(j) /\ j \in UpTo(j) /\ j \notin UpTo(i)
    <3>1. i \in Int /\ j \in Int
      OBVIOUS
    <3>2. \A x \in UpTo(i) : x \in Int /\ x <= j
      BY <1>3, <3>1
    <3>3. j \in UpTo(j) /\ j \notin UpTo(i)
      BY <1>3, <3>1
    <3>4. UpTo(i) \subseteq UpTo(j)
      BY <3>2
    <3> QED
      BY <3>3, <3>4
  <2>2. Cardinality(UpTo(i)) <= Cardinality(UpTo(j)) /\ Cardinality(UpTo(i)) # Cardinality(UpTo(j))
    BY <1>2, <2>1, FS_Subset
  <2> QED
    BY <1>2, <2>2
<1>4. \A i, j \in I : rank[i] = rank[j] => i = j
  BY <1>2, <1>3
<1>5. rank \in Surjection(I, 1..Cardinality(I))
  <2>1. rank \in Injection(I, 1..Cardinality(I))
    BY <1>2, <1>4 DEF Injection, IsInjective
  <2>2. IsFiniteSet(1..Cardinality(I)) /\ Cardinality(1..Cardinality(I)) = Cardinality(I)
    BY <1>1, FS_Interval
  <2> QED
    BY <2>1, <2>2, FS_Injection
<1>6. ASSUME NEW k \in 1..Cardinality(I)
      PROVE  Place(I, k) \in I /\ rank[Place(I, k)] = k
  <2>1. \E i \in I : rank[i] = k
    BY <1>5 DEF Surjection
  <2> QED
    BY <2>1 DEF Place
<1>7. ASSUME NEW i \in I
      PROVE  Place(I, rank[i]) = i
  BY <1>2, <1>4, <1>6
<1>8. ASSUME NEW k \in 1..Cardinality(I), NEW l \in 1..Cardinality(I), k < l
      PROVE  Place(I, k) < Place(I, l)
  <2> DEFINE p == Place(I, k)
             q == Place(I, l)
  <2>1. p \in I /\ q \in I /\ rank[p] = k /\ rank[q] = l
    BY <1>6
  <2> HIDE DEF p, q, rank
  <2>2. p \in Int /\ q \in Int /\ k \in Int /\ l \in Int
    BY <1>1, <2>1
  <2>3. p # q /\ ~(q < p)
    BY <1>3, <1>8, <2>1, <2>2
  <2> QED
    BY <2>2, <2>3 DEF p, q
<1> QED
  BY <1>1, <1>2, <1>6, <1>7, <1>8

\* A list keeps what it has at the places, in their order.
LEMMA KeepFacts ==
  ASSUME NEW S, NEW s \in Seq(S), NEW I \in SUBSET DOMAIN s
  PROVE  /\ IsFiniteSet(I) /\ I \in SUBSET Int
         /\ Keep(s, I) \in Seq(S)
         /\ Len(Keep(s, I)) = Cardinality(I)
         /\ \A k \in 1..Cardinality(I) :
              Place(I, k) \in DOMAIN s /\ Keep(s, I)[k] = s[Place(I, k)]
<1>1. DOMAIN s = 1..Len(s) /\ Len(s) \in Nat
  OBVIOUS
<1>2. IsFiniteSet(1..Len(s))
  BY <1>1, FS_Interval
<1>3. IsFiniteSet(I) /\ I \in SUBSET Int
  BY <1>1, <1>2, FS_Subset
<1>4. /\ Cardinality(I) \in Nat
      /\ \A k \in 1..Cardinality(I) : Place(I, k) \in I
  BY <1>3, PlaceFacts
<1>5. Keep(s, I) \in Seq(S) /\ Len(Keep(s, I)) = Cardinality(I)
  BY <1>1, <1>4 DEF Keep
<1> QED
  BY <1>3, <1>4, <1>5 DEF Keep

-----------------------------------------------------------------------------
(* The windows of the query *)

\* Seen from the service day before, a moment is one day later.
LEMMA ConsecutiveDays ==
  ASSUME NEW d \in Int, NEW t \in Int
  PROVE  seconds_into_service_day(d - 1, t) = seconds_into_service_day(d, t) + Day
<1>1. Day \in Int
  BY UpcomingAssumption
<1>2. (d - 1) * Day = d * Day - Day
  BY <1>1
<1> QED
  BY <1>1, <1>2 DEF seconds_into_service_day

\* The rows the loop of get_upcoming finds on a service date.
RowsOn(date, t) ==
  rows_in_window(date,
    format_gtfs_time(seconds_into_service_day(date, t) - ScheduleLookback),
    format_gtfs_time(seconds_into_service_day(date, t) + WindowAhead))

\* A row that is found on the day an offset belongs to is in the window around
\* the offset, unless the day has hardly begun when the window ended.
LEMMA RowInWindow ==
  ASSUME NEW date \in Int, NEW t \in Int, NEW row \in RowsOn(date, t),
         row.time \in Int
  PROVE  LET offset == seconds_into_service_day(date, t) IN
         /\ offset - ScheduleLookback <= row.time
         /\ row.time <= offset + WindowAhead \/ row.time <= 0
<1> DEFINE offset == seconds_into_service_day(date, t)
<1>1. Day \in Int /\ ScheduleLookback \in Int /\ WindowAhead \in Int
  BY UpcomingAssumption
<1>2. offset \in Int
  BY <1>1 DEF seconds_into_service_day
<1>3. /\ format_gtfs_time(offset - ScheduleLookback) <= row.time
      /\ row.time <= format_gtfs_time(offset + WindowAhead)
  BY DEF RowsOn, rows_in_window
<1> HIDE DEF offset
<1>4. offset - ScheduleLookback <= row.time
  BY <1>1, <1>2, <1>3 DEF format_gtfs_time
<1>5. row.time <= offset + WindowAhead \/ row.time <= 0
  BY <1>1, <1>2, <1>3 DEF format_gtfs_time
<1> QED
  BY <1>4, <1>5 DEF offset

\* The service day of a moment has begun by then.
LEMMA TodayHasBegun ==
  ASSUME NEW t \in Int
  PROVE  local_today(t) \in Int /\ seconds_into_service_day(local_today(t), t) >= 0
<1>1. Day \in Int /\ Day > 0
  BY UpcomingAssumption
<1>2. \A x \in Int, d \in Int : d > 0 => (x \div d) \in Int /\ (x \div d) * d <= x
  BY SMTT(30)
<1> QED
  BY <1>1, <1>2 DEF local_today, seconds_into_service_day

-----------------------------------------------------------------------------
(* Rows *)

\* The stops of a trip are in the order of their stop sequences.
LEMMA TripFacts ==
  ASSUME timetable \in Timetables, NEW trip \in Trips
  PROVE  LET stops == timetable[trip].stops IN
         /\ stops \in Seq([seq : Int, stop : Stops, time : Nat])
         /\ timetable[trip].days \subseteq Int
         /\ \A i \in DOMAIN stops :
              stops[i].seq \in Int /\ stops[i].time \in Nat
              /\ stops[i].time < 2 * Day - ScheduleLookback
         /\ \A i, j \in DOMAIN stops : i < j => stops[i].seq < stops[j].seq
         /\ \A i, j \in DOMAIN stops : stops[i].seq = stops[j].seq => i = j
         /\ ToSet(stops) = {stops[i] : i \in DOMAIN stops}
<1> DEFINE stops == timetable[trip].stops
<1>1. timetable[trip] \in Trip
  BY ArrivalServiceAssumption
<1>2. /\ stops \in Seq([seq : Int, stop : Stops, time : Nat])
      /\ timetable[trip].days \subseteq Int
  BY <1>1 DEF Trip
<1>3. \A i \in DOMAIN stops : stops[i].time < 2 * Day - ScheduleLookback
  BY ArrivalServiceAssumption
<1>4. \A i, j \in DOMAIN stops : i < j => stops[i].seq < stops[j].seq
  BY ArrivalServiceAssumption
<1>5. \A i \in DOMAIN stops : stops[i] \in [seq : Int, stop : Stops, time : Nat]
  <2> HIDE DEF stops
  <2>1. stops \in Seq([seq : Int, stop : Stops, time : Nat])
    BY <1>2
  <2> QED
    BY <2>1, LenProperties, ElementOfSeq
<1>6. \A i \in DOMAIN stops : stops[i].seq \in Int /\ stops[i].time \in Nat
  BY <1>5
<1>7. ToSet(stops) = {stops[i] : i \in DOMAIN stops}
  BY DEF ToSet
<1>8. DOMAIN stops \subseteq Int
  BY <1>2
<1> HIDE DEF stops
<1>9. \A i, j \in DOMAIN stops : stops[i].seq = stops[j].seq => i = j
  BY <1>4, <1>6, <1>8
<1> QED
  BY <1>2, <1>3, <1>4, <1>6, <1>7, <1>9 DEF stops

\* A row of the query is a visit of the timetable, at its time.
LEMMA RowFacts ==
  ASSUME timetable \in Timetables, NEW row \in Rows
  PROVE  /\ row.trip \in Trips /\ row.seq \in Int
         /\ row.time \in Nat /\ row.time < 2 * Day - ScheduleLookback
         /\ timetable[row.trip].days \subseteq Int
         /\ \E i \in DOMAIN timetable[row.trip].stops :
              LET st == timetable[row.trip].stops[i] IN
              row = [trip |-> row.trip, seq |-> st.seq, stop |-> st.stop, time |-> st.time]
<1>1. PICK t \in Trips : \E st \in ToSet(timetable[t].stops) :
        row = [trip |-> t, seq |-> st.seq, stop |-> st.stop, time |-> st.time]
  BY DEF Rows
<1> DEFINE stops == timetable[t].stops
<1>0. ToSet(stops) = {stops[i] : i \in DOMAIN stops}
  BY TripFacts
<1>2. PICK i \in DOMAIN stops :
        row = [trip |-> t, seq |-> stops[i].seq, stop |-> stops[i].stop,
               time |-> stops[i].time]
  BY <1>0, <1>1
<1>3. /\ stops[i].seq \in Int /\ stops[i].time \in Nat
      /\ stops[i].time < 2 * Day - ScheduleLookback
      /\ timetable[t].days \subseteq Int
  BY TripFacts
<1> QED
  BY <1>2, <1>3

\* A visit of a trip has one row.
LEMMA RowOfVisit ==
  ASSUME timetable \in Timetables, NEW r1 \in Rows, NEW r2 \in Rows,
         r1.trip = r2.trip, r1.seq = r2.seq
  PROVE  r1 = r2
<1> DEFINE stops == timetable[r1.trip].stops
<1>1. PICK i \in DOMAIN stops :
        r1 = [trip |-> r1.trip, seq |-> stops[i].seq, stop |-> stops[i].stop,
              time |-> stops[i].time]
  BY RowFacts
<1>2. PICK j \in DOMAIN stops :
        r2 = [trip |-> r1.trip, seq |-> stops[j].seq, stop |-> stops[j].stop,
              time |-> stops[j].time]
  BY RowFacts
<1>3. stops[i].seq = stops[j].seq
  BY <1>1, <1>2
<1>4. i = j
  BY <1>3, RowFacts, TripFacts
<1> QED
  BY <1>1, <1>2, <1>4

\* There are finitely many rows.
LEMMA RowsFinite ==
  ASSUME timetable \in Timetables
  PROVE  IsFiniteSet(Rows)
<1> DEFINE Of(t) == {[trip |-> t, seq |-> st.seq, stop |-> st.stop, time |-> st.time] :
                       st \in {x \in ToSet(timetable[t].stops) : x.stop = Here}}
           All == {Of(t) : t \in Trips}
<1>1. ASSUME NEW t \in Trips
      PROVE  IsFiniteSet(Of(t))
  <2> DEFINE stops == timetable[t].stops
             I == {i \in DOMAIN stops : stops[i].stop = Here}
             f == [i \in I |-> [trip |-> t, seq |-> stops[i].seq, stop |-> stops[i].stop,
                                time |-> stops[i].time]]
  <2>1. IsFiniteSet(I)
    BY TripFacts, KeepFacts
  <2>0. ToSet(stops) = {stops[i] : i \in DOMAIN stops}
    BY TripFacts
  <2>2. ASSUME NEW i \in I
        PROVE  f[i] \in Of(t)
    BY <2>0
  <2>3. ASSUME NEW row \in Of(t)
        PROVE  \E i \in I : row = f[i]
    <3>1. PICK st \in ToSet(stops) : st.stop = Here /\
            row = [trip |-> t, seq |-> st.seq, stop |-> st.stop, time |-> st.time]
      OBVIOUS
    <3>2. PICK i \in DOMAIN stops : st = stops[i]
      BY <2>0
    <3> QED
      BY <3>1, <3>2
  <2>4. f \in [I -> Of(t)]
    BY <2>2
  <2> HIDE DEF I, f
  <2> QED
    BY <2>1, <2>3, <2>4, FiniteImage
<1> HIDE DEF Of
<1>2. IsFiniteSet(All)
  <2> DEFINE f == [t \in Trips |-> Of(t)]
  <2>1. f \in [Trips -> All] /\ \A S \in All : \E t \in Trips : S = f[t]
    OBVIOUS
  <2>2. IsFiniteSet(Trips)
    BY ArrivalServiceAssumption
  <2> HIDE DEF f
  <2> QED
    BY <2>1, <2>2, FiniteImage
<1>3. \A S \in All : IsFiniteSet(S)
  BY <1>1
<1>4. IsFiniteSet(UNION All)
  <2> HIDE DEF All
  <2> QED
    BY <1>2, <1>3, FS_UNION
<1> QED
  BY <1>4 DEF Rows, Of

\* A row is found on one of the two service dates only.
LEMMA OneDate ==
  ASSUME timetable \in Timetables, NEW t \in Int,
         NEW d1 \in {local_today(t) - 1, local_today(t)},
         NEW d2 \in {local_today(t) - 1, local_today(t)},
         NEW row \in RowsOn(d1, t), row \in RowsOn(d2, t)
  PROVE  d1 = d2
<1> DEFINE today == local_today(t)
           offset == seconds_into_service_day(today, t)
<1>1. /\ Day \in Int /\ ScheduleLookback \in Int /\ WindowAhead \in Int
      /\ ScheduleLookback >= 0 /\ WindowAhead >= 0
      /\ ScheduleLookback + WindowAhead < Day
  BY UpcomingAssumption
<1>2. today \in Int /\ offset \in Int /\ offset >= 0
  BY <1>1, TodayHasBegun DEF seconds_into_service_day
<1>3. row \in Rows /\ row.time \in Int
  BY RowFacts DEF RowsOn, rows_in_window
<1>4. ASSUME row \in RowsOn(today, t), row \in RowsOn(today - 1, t)
      PROVE  FALSE
  <2>1. row.time <= offset + WindowAhead \/ row.time <= 0
    BY <1>2, <1>3, <1>4, RowInWindow
  <2>2. offset + Day - ScheduleLookback <= row.time
    <3>1. today - 1 \in Int
      BY <1>2
    <3>2. seconds_into_service_day(today - 1, t) - ScheduleLookback <= row.time
      BY <1>3, <1>4, <3>1, RowInWindow
    <3>3. seconds_into_service_day(today - 1, t) = offset + Day
      BY <1>2, ConsecutiveDays
    <3> HIDE DEF offset
    <3> QED
      BY <1>1, <1>2, <1>3, <3>2, <3>3
  <2> HIDE DEF offset
  <2> QED
    BY <1>1, <1>2, <1>3, <2>1, <2>2
<1>5. d1 \in {today - 1, today} /\ d2 \in {today - 1, today}
  OBVIOUS
<1> HIDE DEF today
<1> QED
  BY <1>4, <1>5

\* A bus that runs on a service day which has begun, and is scheduled within the
\* lookback and the window ahead, is found: on that day, which is yesterday's or
\* today's.
LEMMA RowIsFound ==
  ASSUME timetable \in Timetables, NEW t \in Int, NEW row \in Rows,
         NEW date \in timetable[row.trip].days, date <= local_today(t),
         t - ScheduleLookback <= to_epoch(date, row.time),
         to_epoch(date, row.time) <= t + WindowAhead
  PROVE  date \in {local_today(t) - 1, local_today(t)} /\ row \in RowsOn(date, t)
<1> DEFINE today == local_today(t)
           offset == seconds_into_service_day(date, t)
<1>1. /\ Day \in Int /\ ScheduleLookback \in Int /\ WindowAhead \in Int
      /\ Day > 0 /\ ScheduleLookback >= 0 /\ WindowAhead >= 0
  BY UpcomingAssumption
<1>2. row.time \in Nat /\ row.time < 2 * Day - ScheduleLookback /\ date \in Int
  BY RowFacts
<1>3. today \in Int /\ offset \in Int
  BY <1>1, <1>2, TodayHasBegun DEF seconds_into_service_day
<1>4. offset - ScheduleLookback <= row.time /\ row.time <= offset + WindowAhead
  <2> DEFINE start == date * Day
  <2>1. start \in Int
    BY <1>1, <1>2
  <2>2. t - ScheduleLookback <= start + row.time /\ start + row.time <= t + WindowAhead
    BY DEF to_epoch
  <2>3. offset = t - start
    BY DEF seconds_into_service_day
  <2> HIDE DEF start, offset
  <2> QED
    BY <1>1, <1>2, <2>1, <2>2, <2>3
<1>5. date >= today - 1
  <2> SUFFICES ASSUME date <= today - 2 PROVE FALSE
    BY <1>2, <1>3
  <2>1. (today - 2 - date) * Day >= 0
    <3> DEFINE n == today - 2 - date
    <3>1. n \in Nat /\ Day \in Nat
      BY <1>1, <1>2, <1>3
    <3>2. \A x, y \in Nat : x * y \in Nat
      OBVIOUS
    <3> HIDE DEF n
    <3>3. n * Day \in Nat
      BY <3>1, <3>2
    <3> QED
      BY <3>3 DEF n
  <2>2. (today - 2 - date) * Day = today * Day - 2 * Day - date * Day
    BY <1>1, <1>2, <1>3
  <2>3. t - today * Day >= 0
    BY TodayHasBegun DEF seconds_into_service_day
  <2>4. today * Day \in Int /\ date * Day \in Int
    BY <1>1, <1>2, <1>3
  <2>5. offset = t - date * Day
    BY DEF seconds_into_service_day
  <2>6. offset >= 2 * Day
    <3> DEFINE p == today * Day
               q == date * Day
    <3> HIDE DEF p, q, offset
    <3> QED
      BY <1>1, <1>3, <2>1, <2>2, <2>3, <2>4, <2>5 DEF p, q
  <2> HIDE DEF offset
  <2> QED
    BY <1>1, <1>2, <1>3, <1>4, <2>6
<1>6. row \in RowsOn(date, t)
  <2>1. format_gtfs_time(offset - ScheduleLookback) <= row.time
    BY <1>2, <1>4 DEF format_gtfs_time
  <2>2. row.time <= format_gtfs_time(offset + WindowAhead)
    <3> HIDE DEF offset
    <3> QED
      BY <1>1, <1>2, <1>3, <1>4 DEF format_gtfs_time
  <2> QED
    BY <2>1, <2>2 DEF RowsOn, rows_in_window
<1> HIDE DEF today
<1> QED
  BY <1>2, <1>3, <1>5, <1>6 DEF today

-----------------------------------------------------------------------------
(* Arrivals *)

\* A prediction is a time, if there is one.
LEMMA PredictionType ==
  ASSUME NEW report \in TripReport, NEW seq, NEW stop
  PROVE  prediction(report.update, seq, stop) \in Int \cup {None}
<1> DEFINE update == report.update
           I == {i \in 1..Len(update) : IF update[i].seq # None THEN update[i].seq = seq
                                        ELSE update[i].stop = stop}
<1>1. update \in Seq([seq : Int \cup {None}, stop : Stops \cup {None},
                      time : Int \cup {None}])
  BY DEF TripReport
<1> HIDE DEF update
<1>2. CASE I = {}
  <2>1. prediction(update, seq, stop) = None
    BY <1>2 DEF prediction, SelectInSeq
  <2> QED
    BY <2>1 DEF update
<1>3. CASE I # {}
  <2>1. I \in SUBSET Nat
    OBVIOUS
  <2>2. Min(I) \in I
    BY <1>3, <2>1, LeastOf
  <2>3. prediction(update, seq, stop) = update[Min(I)].time
    BY <1>3, <2>2 DEF prediction, SelectInSeq
  <2>4. update[Min(I)].time \in Int \cup {None}
    <3>1. Min(I) \in 1..Len(update)
      BY <2>2
    <3> HIDE DEF I
    <3>2. update[Min(I)] \in [seq : Int \cup {None}, stop : Stops \cup {None},
                              time : Int \cup {None}]
      BY <1>1, <3>1, ElementOfSeq
    <3> QED
      BY <3>2
  <2> QED
    BY <2>3, <2>4 DEF update
<1> QED
  BY <1>2, <1>3 DEF update

\* A part of an update predicts the time for the visit with the sequence, or for
\* the stop.
Names(update, time, seq, stop) ==
  \E stu \in ToSet(update) :
    stu.time = time /\ (stu.seq = seq \/ (stu.seq = None /\ stu.stop = stop))

\* A prediction is that of a part that names the visit.
LEMMA PredictionIsOwn ==
  ASSUME NEW report \in TripReport, NEW seq, NEW stop,
         prediction(report.update, seq, stop) # None
  PROVE  Names(report.update, prediction(report.update, seq, stop), seq, stop)
<1> DEFINE update == report.update
           I == {i \in 1..Len(update) : IF update[i].seq # None THEN update[i].seq = seq
                                        ELSE update[i].stop = stop}
<1>1. I # {}
  BY DEF prediction, SelectInSeq
<1>2. I \in SUBSET Nat /\ Min(I) \in I
  <2>1. I \in SUBSET Nat
    OBVIOUS
  <2> QED
    BY <1>1, <2>1, LeastOf
<1>3. prediction(update, seq, stop) = update[Min(I)].time
  BY <1>1, <1>2 DEF prediction, SelectInSeq
<1>4. update \in Seq([seq : Int \cup {None}, stop : Stops \cup {None},
                      time : Int \cup {None}])
  BY DEF TripReport
<1> DEFINE i == Min(I)
<1>5. /\ i \in 1..Len(update)
      /\ IF update[i].seq # None THEN update[i].seq = seq ELSE update[i].stop = stop
  BY <1>2
<1> HIDE DEF i, I
<1>6. update[i] \in ToSet(update)
  BY <1>4, <1>5 DEF ToSet
<1> QED
  BY <1>3, <1>5, <1>6 DEF Names, i

\* When the bus of a row is due on a date, as far as a snapshot knows.
DueIn(snapshot, row, date) ==
  LET p == prediction(snapshot[row.trip].update, row.seq, row.stop)
  IN IF p = None THEN to_epoch(date, row.time) ELSE p

\* An arrival stands for the visit of its row on its date; its vehicle is not
\* past the stop.
LEMMA ArrivalOfRow ==
  ASSUME timetable \in Timetables, NEW t \in Int, NEW snapshot \in [Trips -> TripReport],
         NEW date \in Int, NEW row \in Rows, NEW a,
         a = build_arrival(row, date, snapshot, t), a # None
  PROVE  /\ a \in Arrival
         /\ a.trip = row.trip /\ a.seq = row.seq /\ a.date = date
         /\ a.scheduled = to_epoch(date, row.time)
         /\ a.effective = DueIn(snapshot, row, date)
         /\ a.vehicle = snapshot[row.trip].vehicle
         /\ a.vehicle # None => a.vehicle <= a.seq
<1> DEFINE predicted == prediction(snapshot[row.trip].update, row.seq, row.stop)
           vehicle == snapshot[row.trip].vehicle
           away == IF vehicle = None THEN None ELSE row.seq - vehicle
<1>1. PICK effective, status :
        /\ a = [trip |-> row.trip, seq |-> row.seq, date |-> date,
                scheduled |-> to_epoch(date, row.time), predicted |-> predicted,
                effective |-> effective, vehicle |-> vehicle, stops_away |-> away,
                status |-> status]
        /\ effective = IF predicted # None THEN predicted ELSE to_epoch(date, row.time)
        /\ status \in Status
        /\ ~(away # None /\ away < 0)
  BY DEF build_arrival, classify_status, Status
<1>2. row.trip \in Trips /\ row.seq \in Int /\ row.time \in Nat
  BY RowFacts
<1>3. to_epoch(date, row.time) \in Int
  BY <1>2, UpcomingAssumption DEF to_epoch
<1>4. snapshot[row.trip] \in TripReport
  BY <1>2
<1>5. predicted \in Int \cup {None}
  BY <1>4, PredictionType
<1>6. vehicle \in Int \cup {None}
  BY <1>4 DEF TripReport
<1>7. effective = DueIn(snapshot, row, date) /\ effective \in Int
  BY <1>1, <1>3, <1>5 DEF DueIn
<1>8. vehicle # None => vehicle <= row.seq
  <2> HIDE DEF vehicle
  <2> QED
    BY <1>1, <1>2, <1>6, UpcomingAssumption
<1>9. away \in Int \cup {None}
  <2> HIDE DEF vehicle
  <2> QED
    BY <1>2, <1>6
<1>10. /\ a.trip = row.trip /\ a.seq = row.seq /\ a.date = date
       /\ a.scheduled = to_epoch(date, row.time) /\ a.effective = effective
       /\ a.vehicle = vehicle
  BY <1>1
<1> HIDE DEF predicted, vehicle, away
<1>11. a \in Arrival
  BY <1>1, <1>2, <1>3, <1>5, <1>6, <1>7, <1>9 DEF Arrival
<1> QED
  BY <1>7, <1>8, <1>10, <1>11 DEF vehicle

\* A row that is due in the window and not passed has an arrival.
LEMMA ArrivalIsBuilt ==
  ASSUME timetable \in Timetables, NEW t \in Int, NEW snapshot \in [Trips -> TripReport],
         NEW date \in Int, NEW row \in Rows,
         t - WindowPast <= DueIn(snapshot, row, date),
         DueIn(snapshot, row, date) <= t + WindowAhead,
         ~(/\ snapshot[row.trip].vehicle # None
           /\ snapshot[row.trip].vehicle > row.seq)
  PROVE  build_arrival(row, date, snapshot, t) # None
<1> DEFINE predicted == prediction(snapshot[row.trip].update, row.seq, row.stop)
           vehicle == snapshot[row.trip].vehicle
           effective == IF predicted # None THEN predicted ELSE to_epoch(date, row.time)
           a == build_arrival(row, date, snapshot, t)
<1>1. row.trip \in Trips /\ row.seq \in Int /\ row.time \in Nat
  BY RowFacts
<1>2. snapshot[row.trip] \in TripReport
  BY <1>1
<1>3. effective \in Int
  <2>1. predicted \in Int \cup {None}
    BY <1>2, PredictionType
  <2>2. to_epoch(date, row.time) \in Int
    BY <1>1, UpcomingAssumption DEF to_epoch
  <2> QED
    BY <2>1, <2>2
<1>4. vehicle \in Int \cup {None}
  BY <1>2 DEF TripReport
<1>5. t - WindowPast <= effective /\ effective <= t + WindowAhead
  BY DEF DueIn
<1>6. ~(effective > t + WindowAhead) /\ ~(effective < t - WindowPast)
  <2> HIDE DEF effective
  <2> QED
    BY <1>3, <1>5, UpcomingAssumption
<1>7. vehicle # None => ~(row.seq - vehicle < 0)
  <2> HIDE DEF vehicle
  <2> QED
    BY <1>1, <1>4 DEF vehicle
<1>8. PICK status :
        /\ a = [trip |-> row.trip, seq |-> row.seq, date |-> date,
                scheduled |-> to_epoch(date, row.time), predicted |-> predicted,
                effective |-> effective, vehicle |-> vehicle,
                stops_away |-> IF vehicle = None THEN None ELSE row.seq - vehicle,
                status |-> status]
        /\ status \in Status
  BY <1>6, <1>7 DEF build_arrival, classify_status, Status
<1>9. predicted \in Int \cup {None} /\ to_epoch(date, row.time) \in Int
  <2>1. predicted \in Int \cup {None}
    BY <1>2, PredictionType
  <2>2. to_epoch(date, row.time) \in Int
    BY <1>1, UpcomingAssumption DEF to_epoch
  <2> QED
    BY <2>1, <2>2
<1>10. (IF vehicle = None THEN None ELSE row.seq - vehicle) \in Int \cup {None}
  <2> HIDE DEF vehicle
  <2> QED
    BY <1>1, <1>4
<1> HIDE DEF predicted, vehicle, effective
<1>11. a \in Arrival
  BY <1>1, <1>3, <1>4, <1>8, <1>9, <1>10 DEF Arrival
<1> QED
  BY <1>11, ArrivalServiceAssumption

\* An arrival is due in the window of the request, or live and hardly overdue.
InWindow(a, t) ==
  /\ a.effective <= t + WindowAhead
  /\ \/ t - WindowPast <= a.effective
     \/ (a.predicted # None \/ a.vehicle # None) /\ t - ArrivingGrace <= a.effective

\* An arrival is in the window, and its prediction is its own.
LEMMA ArrivalIsDue ==
  ASSUME timetable \in Timetables, NEW t \in Int, NEW snapshot \in [Trips -> TripReport],
         NEW date \in Int, NEW row \in Rows, NEW a,
         a = build_arrival(row, date, snapshot, t), a # None
  PROVE  /\ InWindow(a, t)
         /\ a.predicted # None => Names(snapshot[a.trip].update, a.predicted, a.seq, Here)
<1> DEFINE predicted == prediction(snapshot[row.trip].update, row.seq, row.stop)
           vehicle == snapshot[row.trip].vehicle
           known == predicted # None \/ vehicle # None
<1>1. PICK effective :
        /\ a.trip = row.trip /\ a.seq = row.seq /\ a.predicted = predicted
        /\ a.effective = effective /\ a.vehicle = vehicle
        /\ ~(effective > t + WindowAhead)
        /\ effective < t - WindowPast => known /\ ~(effective < t - ArrivingGrace)
  BY DEF build_arrival
<1>2. a \in Arrival
  BY ArrivalOfRow
<1>3. effective \in Int
  BY <1>1, <1>2 DEF Arrival
<1>4. row.stop = Here
  BY DEF Rows
<1>5. snapshot[row.trip] \in TripReport
  BY RowFacts
<1> HIDE DEF predicted, vehicle
<1>6. InWindow(a, t)
  <2>1. effective <= t + WindowAhead
    BY <1>1, <1>3, UpcomingAssumption
  <2>2. t - WindowPast <= effective \/ (known /\ t - ArrivingGrace <= effective)
    BY <1>1, <1>3, UpcomingAssumption
  <2> QED
    BY <1>1, <2>1, <2>2 DEF InWindow
<1>7. a.predicted # None => Names(snapshot[a.trip].update, a.predicted, a.seq, Here)
  BY <1>1, <1>4, <1>5, PredictionIsOwn DEF predicted
<1> QED
  BY <1>6, <1>7

\* ... also with its track and its stops counted.
LEMMA TrackKeepsVisit ==
  ASSUME timetable \in Timetables, NEW a \in Arrival, NEW snapshot
  PROVE  LET x == with_track(a, snapshot).arrival IN
         /\ x \in Arrival
         /\ x.trip = a.trip /\ x.seq = a.seq /\ x.date = a.date
         /\ x.effective = a.effective /\ x.vehicle = a.vehicle
         /\ x.predicted = a.predicted
<1>1. CASE a.vehicle = None
  BY <1>1 DEF with_track
<1>2. CASE a.vehicle # None
  <2> DEFINE stops == timetable[a.trip].stops
             between == {i \in DOMAIN stops :
                           a.vehicle <= stops[i].seq /\ stops[i].seq < a.seq}
  <2>1. a.trip \in Trips
    BY DEF Arrival
  <2>2. Cardinality(between) \in Nat
    <3>1. IsFiniteSet(between)
      BY <2>1, TripFacts, KeepFacts
    <3> HIDE DEF between
    <3> QED
      BY <3>1, FS_CardinalityType
  <2>3. with_track(a, snapshot).arrival = [a EXCEPT !.stops_away = Cardinality(between)]
    BY <1>2 DEF with_track
  <2> HIDE DEF between
  <2> QED
    BY <2>2, <2>3 DEF Arrival
<1> QED
  BY <1>1, <1>2

-----------------------------------------------------------------------------
(* Candidates, and those that are selected *)

\* Every candidate was built from a row of one of the two service days.
LEMMA CandidatesAreBuilt ==
  ASSUME timetable \in Timetables, NEW t \in Int, NEW snapshot \in [Trips -> TripReport],
         NEW a \in candidates(t, snapshot)
  PROVE  \E date \in {local_today(t) - 1, local_today(t)} : \E row \in RowsOn(date, t) :
           /\ date \in Int /\ row \in Rows
           /\ a = build_arrival(row, date, snapshot, t) /\ a # None
<1>1. PICK date \in {local_today(t) - 1, local_today(t)} :
        \E row \in RowsOn(date, t) : a = build_arrival(row, date, snapshot, t) /\ a # None
  BY DEF candidates, RowsOn
<1>2. date \in Int
  BY TodayHasBegun
<1>3. RowsOn(date, t) \subseteq Rows
  BY DEF RowsOn, rows_in_window
<1> QED
  BY <1>1, <1>2, <1>3

\* The trip stops there.
StopsAt(trip, target) ==
  \E i \in DOMAIN timetable[trip].stops : timetable[trip].stops[i].seq = target

\* What there is to know of a candidate.
LEMMA CandidateFacts ==
  ASSUME timetable \in Timetables, NEW t \in Int, NEW snapshot \in [Trips -> TripReport],
         NEW a \in candidates(t, snapshot)
  PROVE  /\ a \in Arrival
         /\ a.vehicle # None => a.vehicle <= a.seq
         /\ StopsAt(a.trip, a.seq)
<1>1. PICK date \in {local_today(t) - 1, local_today(t)} : \E row \in RowsOn(date, t) :
        /\ date \in Int /\ row \in Rows
        /\ a = build_arrival(row, date, snapshot, t) /\ a # None
  BY CandidatesAreBuilt
<1>2. PICK row \in Rows : a = build_arrival(row, date, snapshot, t) /\ a # None
  BY <1>1
<1>3. /\ a \in Arrival /\ a.trip = row.trip /\ a.seq = row.seq
      /\ a.vehicle # None => a.vehicle <= a.seq
  BY <1>1, <1>2, ArrivalOfRow
<1>4. PICK i \in DOMAIN timetable[row.trip].stops :
        LET st == timetable[row.trip].stops[i] IN
        row = [trip |-> row.trip, seq |-> st.seq, stop |-> st.stop, time |-> st.time]
  BY RowFacts
<1>5. timetable[row.trip].stops[i].seq = row.seq
  BY <1>4
<1> QED
  BY <1>3, <1>5 DEF StopsAt

\* A candidate is in the window, and its prediction is its own.
LEMMA CandidateIsDue ==
  ASSUME timetable \in Timetables, NEW t \in Int, NEW snapshot \in [Trips -> TripReport],
         NEW a \in candidates(t, snapshot)
  PROVE  /\ InWindow(a, t)
         /\ a.predicted # None => Names(snapshot[a.trip].update, a.predicted, a.seq, Here)
<1>1. PICK date \in {local_today(t) - 1, local_today(t)} : \E row \in RowsOn(date, t) :
        /\ date \in Int /\ row \in Rows
        /\ a = build_arrival(row, date, snapshot, t) /\ a # None
  BY CandidatesAreBuilt
<1>2. PICK row \in Rows : a = build_arrival(row, date, snapshot, t) /\ a # None
  BY <1>1
<1> QED
  BY <1>1, <1>2, ArrivalIsDue

\* Candidates for the same visit are the same candidate.
LEMMA OneCandidatePerVisit ==
  ASSUME timetable \in Timetables, NEW t \in Int, NEW snapshot \in [Trips -> TripReport],
         NEW a \in candidates(t, snapshot), NEW b \in candidates(t, snapshot),
         a.trip = b.trip, a.seq = b.seq
  PROVE  a = b
<1> DEFINE D == {local_today(t) - 1, local_today(t)}
<1>1. PICK d1 \in D : \E row \in RowsOn(d1, t) :
        d1 \in Int /\ row \in Rows /\ a = build_arrival(row, d1, snapshot, t) /\ a # None
  BY CandidatesAreBuilt
<1>2. PICK r1 \in RowsOn(d1, t) :
        r1 \in Rows /\ a = build_arrival(r1, d1, snapshot, t) /\ a # None
  BY <1>1
<1>3. PICK d2 \in D : \E row \in RowsOn(d2, t) :
        d2 \in Int /\ row \in Rows /\ b = build_arrival(row, d2, snapshot, t) /\ b # None
  BY CandidatesAreBuilt
<1>4. PICK r2 \in RowsOn(d2, t) :
        r2 \in Rows /\ b = build_arrival(r2, d2, snapshot, t) /\ b # None
  BY <1>3
<1>5. a.trip = r1.trip /\ a.seq = r1.seq
  BY <1>1, <1>2, ArrivalOfRow
<1>6. b.trip = r2.trip /\ b.seq = r2.seq
  BY <1>3, <1>4, ArrivalOfRow
<1>7. r1 = r2
  BY <1>2, <1>4, <1>5, <1>6, RowOfVisit
<1>8. d1 = d2
  BY <1>7, OneDate
<1> QED
  BY <1>2, <1>4, <1>7, <1>8

\* There are finitely many candidates.
LEMMA CandidatesFinite ==
  ASSUME timetable \in Timetables, NEW t \in Int, NEW snapshot \in [Trips -> TripReport]
  PROVE  IsFiniteSet(candidates(t, snapshot))
<1> DEFINE C(date) == {build_arrival(row, date, snapshot, t) : row \in RowsOn(date, t)}
<1>1. ASSUME NEW date
      PROVE  IsFiniteSet(C(date))
  <2> DEFINE R == RowsOn(date, t)
             f == [row \in R |-> build_arrival(row, date, snapshot, t)]
  <2>1. R \subseteq Rows
    BY DEF RowsOn, rows_in_window
  <2>2. IsFiniteSet(R)
    BY <2>1, RowsFinite, FS_Subset
  <2>3. f \in [R -> C(date)] /\ \A a \in C(date) : \E row \in R : a = f[row]
    OBVIOUS
  <2> HIDE DEF R, f, C
  <2> QED
    BY <2>2, <2>3, FiniteImage
<1>2. candidates(t, snapshot) \subseteq C(local_today(t) - 1) \cup C(local_today(t))
  BY DEF candidates, RowsOn
<1> HIDE DEF C
<1>3. IsFiniteSet(C(local_today(t) - 1) \cup C(local_today(t)))
  BY <1>1, FS_Union
<1> QED
  BY <1>2, <1>3, FS_Subset

\* The list is no longer than it may be; what is left out comes after all of it.
LEMMA SelectionFacts ==
  ASSUME NEW C, IsFiniteSet(C), NEW S \in select_arrivals(C)
  PROVE  /\ S \in SUBSET C /\ IsFiniteSet(S)
         /\ Cardinality(S) \in Nat /\ Cardinality(S) <= MaxArrivals
         /\ \A a \in C \ S : /\ Cardinality(S) = MaxArrivals
                             /\ \A b \in S : ~Before(a, b)
         /\ S = {} => C = {}
<1>1. /\ S \in SUBSET C
      /\ IF Cardinality(C) <= MaxArrivals THEN S = C ELSE Cardinality(S) = MaxArrivals
      /\ \A b \in S, a \in C \ S : ~Before(a, b)
  BY DEF select_arrivals
<1>2. IsFiniteSet(S) /\ Cardinality(S) \in Nat /\ Cardinality(C) \in Nat
  BY <1>1, FS_Subset, FS_CardinalityType
<1>3. Cardinality(S) <= MaxArrivals /\ (S # C => Cardinality(S) = MaxArrivals)
  BY <1>1, <1>2, UpcomingAssumption
<1>4. S = {} => C = {}
  BY <1>3, FS_EmptySet, UpcomingAssumption
<1> QED
  BY <1>1, <1>2, <1>3, <1>4

-----------------------------------------------------------------------------
(* Tracks *)

Visits == Seq([seq : Int, stop : Stops, time : Nat])

\* The stops from the vehicle's to the rider's.
Segment(stops, vehicle, target) ==
  Keep(stops, {i \in DOMAIN stops : vehicle <= stops[i].seq /\ stops[i].seq <= target})

\* Those before the rider's.
Between(stops, vehicle, target) ==
  {i \in DOMAIN stops : vehicle <= stops[i].seq /\ stops[i].seq < target}

\* The segment ends at the rider's stop, with those before it, in the order of
\* the stop sequences.
SegmentOK(stops, vehicle, target) ==
  LET segment == Segment(stops, vehicle, target) IN
  /\ segment \in Visits
  /\ Cardinality(Between(stops, vehicle, target)) \in Nat
  /\ Len(segment) = Cardinality(Between(stops, vehicle, target)) + 1
  /\ segment[Len(segment)].seq = target
  /\ {st \in ToSet(stops) : vehicle <= st.seq /\ st.seq <= target}
       = {segment[k] : k \in 1..Len(segment)}
  /\ \A k, l \in 1..Len(segment) : k < l => segment[k].seq < segment[l].seq

\* That is so for every trip that goes on to the rider's stop.
LEMMA SegmentFacts ==
  ASSUME timetable \in Timetables, NEW trip \in Trips,
         NEW vehicle \in Int, NEW target \in Int, vehicle <= target,
         StopsAt(trip, target)
  PROVE  SegmentOK(timetable[trip].stops, vehicle, target)
<1> DEFINE stops == timetable[trip].stops
           I == {i \in DOMAIN stops : vehicle <= stops[i].seq /\ stops[i].seq <= target}
           between == {i \in DOMAIN stops : vehicle <= stops[i].seq /\ stops[i].seq < target}
           segment == Keep(stops, I)
           n == Len(segment)
           all == {st \in ToSet(stops) : vehicle <= st.seq /\ st.seq <= target}
<1>1. /\ stops \in Visits
      /\ \A i \in DOMAIN stops : stops[i].seq \in Int
      /\ \A i, j \in DOMAIN stops : i < j => stops[i].seq < stops[j].seq
      /\ \A i, j \in DOMAIN stops : stops[i].seq = stops[j].seq => i = j
      /\ ToSet(stops) = {stops[i] : i \in DOMAIN stops}
  BY TripFacts DEF Visits
<1>2. PICK m \in DOMAIN stops : stops[m].seq = target
  BY DEF StopsAt
<1> HIDE DEF stops
<1>3. I = between \cup {m} /\ m \notin between
  BY <1>1, <1>2
<1>4. I \in SUBSET DOMAIN stops /\ between \in SUBSET DOMAIN stops
  OBVIOUS
<1>5. IsFiniteSet(I) /\ I \in SUBSET Int /\ IsFiniteSet(between)
  BY <1>1, <1>4, KeepFacts DEF Visits
<1>6. Cardinality(between) \in Nat /\ Cardinality(I) = Cardinality(between) + 1
  BY <1>3, <1>5, FS_CardinalityType, FS_AddElement
<1>7. /\ segment \in Visits /\ n = Cardinality(I)
      /\ \A k \in 1..n : Place(I, k) \in DOMAIN stops /\ segment[k] = stops[Place(I, k)]
  <2> HIDE DEF I
  <2>1. stops \in Seq([seq : Int, stop : Stops, time : Nat])
    BY <1>1 DEF Visits
  <2> QED
    BY <1>4, <2>1, KeepFacts DEF Visits
<1>8. /\ \A k \in 1..n : Place(I, k) \in I
      /\ \A i \in I : \E k \in 1..n : Place(I, k) = i
      /\ \A k, l \in 1..n : k < l => Place(I, k) < Place(I, l)
  BY <1>5, <1>7, PlaceFacts
<1>9. n \in 1..n /\ n \in Nat
  BY <1>6, <1>7
<1>10. Place(I, n) = m
  <2>1. PICK k \in 1..n : Place(I, k) = m
    BY <1>3, <1>8
  <2>2. CASE k = n
    BY <2>1, <2>2
  <2>3. CASE k < n
    <3>1. m < Place(I, n)
      BY <1>8, <1>9, <2>1, <2>3
    <3>2. Place(I, n) \in I
      BY <1>8, <1>9
    <3>3. target < stops[Place(I, n)].seq /\ stops[Place(I, n)].seq <= target
      BY <1>1, <1>2, <1>4, <3>1, <3>2
    <3> QED
      BY <1>1, <3>2, <3>3
  <2> QED
    BY <1>9, <2>2, <2>3
<1>11. segment[n].seq = target
  BY <1>2, <1>7, <1>9, <1>10
<1>12. \A k, l \in 1..n : k < l => segment[k].seq < segment[l].seq
  <2> SUFFICES ASSUME NEW k \in 1..n, NEW l \in 1..n, k < l
               PROVE  segment[k].seq < segment[l].seq
    OBVIOUS
  <2>1. /\ segment[k] = stops[Place(I, k)] /\ segment[l] = stops[Place(I, l)]
        /\ Place(I, k) \in DOMAIN stops /\ Place(I, l) \in DOMAIN stops
    BY <1>7
  <2>2. Place(I, k) < Place(I, l)
    BY <1>8
  <2> HIDE DEF I, segment, n
  <2> QED
    BY <1>1, <2>1, <2>2
<1>13. all = {segment[k] : k \in 1..n}
  <2>1. ASSUME NEW st \in all
        PROVE  st \in {segment[k] : k \in 1..n}
    <3>1. PICK i \in I : st = stops[i]
      BY <1>1
    <3>2. PICK k \in 1..n : Place(I, k) = i
      BY <1>8
    <3> QED
      BY <1>7, <3>1, <3>2
  <2>2. ASSUME NEW k \in 1..n
        PROVE  segment[k] \in all
    <3>1. Place(I, k) \in I /\ segment[k] = stops[Place(I, k)]
      BY <1>7, <1>8
    <3> QED
      BY <1>1, <3>1
  <2> HIDE DEF all, segment, n
  <2> QED
    BY <2>1, <2>2
<1>14. Segment(stops, vehicle, target) = segment /\ Between(stops, vehicle, target) = between
  BY DEF Segment, Between
<1> HIDE DEF I, between
<1> QED
  BY <1>6, <1>7, <1>9, <1>11, <1>12, <1>13, <1>14 DEF stops, SegmentOK

\* A value that is carried along a list until the next of its own.
Carried(d, n, known, own, c) ==
  d = [i \in 0..n |-> IF i = 0 THEN c ELSE IF i \in known THEN own[i] ELSE d[i - 1]]

\* There is such a list.
LEMMA CarriedAlong ==
  ASSUME NEW n \in Nat, NEW known \in SUBSET (1..n), NEW own, NEW c
  PROVE  \E d : Carried(d, n, known, own, c)
<1> DEFINE Carries(d, m) == Carried(d, m, known, own, c)
           T == {m \in Nat : ~ \E d : Carries(d, m)}
<1> SUFFICES T = {}
  OBVIOUS
<1> SUFFICES ASSUME T # {} PROVE FALSE
  OBVIOUS
<1>1. PICK m \in T : \A j \in T : m <= j
  <2>1. T \in SUBSET Nat
    OBVIOUS
  <2> HIDE DEF T
  <2> QED
    BY <2>1, LeastOf
<1>2. CASE m = 0
  <2> DEFINE d == [i \in 0..0 |-> c]
  <2>1. Carries(d, 0)
    BY DEF Carried
  <2> QED
    BY <1>2, <2>1
<1>3. CASE m # 0
  <2>1. m - 1 \in Nat /\ m - 1 \notin T
    BY <1>1, <1>3
  <2>2. PICK g : Carries(g, m - 1)
    BY <2>1
  <2> DEFINE d == [i \in 0..m |-> IF i = m THEN (IF m \in known THEN own[m] ELSE g[m - 1])
                                  ELSE g[i]]
  <2>3. ASSUME NEW i \in 0..m
        PROVE  d[i] = IF i = 0 THEN c ELSE IF i \in known THEN own[i] ELSE d[i - 1]
    <3>1. CASE i = m
      BY <1>3, <3>1
    <3>2. CASE i # m
      <4>1. i \in 0..(m - 1) /\ d[i] = g[i]
        BY <3>2
      <4>2. g[i] = IF i = 0 THEN c ELSE IF i \in known THEN own[i] ELSE g[i - 1]
        BY <2>2, <4>1 DEF Carried
      <4>3. i # 0 => i - 1 \in 0..m /\ i - 1 # m /\ d[i - 1] = g[i - 1]
        BY <4>1
      <4> QED
        BY <4>1, <4>2, <4>3
    <3> QED
      BY <3>1, <3>2
  <2>4. DOMAIN d = 0..m
    OBVIOUS
  <2>5. Carries(d, m)
    BY <2>3, <2>4 DEF Carried
  <2> QED
    BY <2>5
<1> QED
  BY <1>2, <1>3

\* The time at a stop of a track: by the delay of the latest stop up to it that
\* has one, else of the first after it, else by the schedule.
LEMMA TrackTimesFacts ==
  ASSUME NEW segment \in Visits, NEW date \in Int, NEW report \in TripReport
  PROVE  LET n == Len(segment)
             predicted(i) == prediction(report.update, segment[i].seq, segment[i].stop)
             scheduled(i) == to_epoch(date, segment[i].time)
             at == trackTimes(segment, date, report.update)
         IN \A i \in 1..n :
              \/ /\ \A j \in 1..n : predicted(j) = None
                 /\ at[i] = scheduled(i)
              \/ \E k \in 1..i : /\ predicted(k) # None
                                 /\ \A j \in 1..i : predicted(j) # None => j <= k
                                 /\ at[i] = scheduled(i) + (predicted(k) - scheduled(k))
              \/ /\ \A j \in 1..i : predicted(j) = None
                 /\ \E k \in 1..n : /\ predicted(k) # None
                                    /\ \A j \in 1..n : predicted(j) # None => k <= j
                                    /\ at[i] = scheduled(i) + (predicted(k) - scheduled(k))
<1> DEFINE n == Len(segment)
           predicted(i) == prediction(report.update, segment[i].seq, segment[i].stop)
           scheduled(i) == to_epoch(date, segment[i].time)
           known == {i \in 1..n : predicted(i) # None}
           own == [i \in 1..n |-> predicted(i) - scheduled(i)]
           first == IF known = {} THEN 0 ELSE Min(known)
           c == IF first = 0 THEN 0 ELSE predicted(first) - scheduled(first)
           Carries(d) == d = [i \in 0..n |-> IF i = 0 THEN c
                                ELSE IF predicted(i) # None THEN predicted(i) - scheduled(i)
                                ELSE d[i - 1]]
           delay == CHOOSE d : Carries(d)
           at == trackTimes(segment, date, report.update)
<1>1. n \in Nat /\ DOMAIN segment = 1..n
  BY DEF Visits
<1>2. ASSUME NEW i \in 1..n
      PROVE  scheduled(i) \in Int
  <2>1. segment[i] \in [seq : Int, stop : Stops, time : Nat]
    BY <1>1, ElementOfSeq DEF Visits
  <2>2. segment[i].time \in Int
    BY <2>1
  <2> QED
    BY <2>2, UpcomingAssumption DEF to_epoch
<1>3. known # {} => first \in known /\ \A k \in known : first <= k
  <2>1. known \in SUBSET Nat
    BY <1>1
  <2> HIDE DEF known
  <2> QED
    BY <2>1, LeastOf
<1>4. at = [i \in DOMAIN segment |-> scheduled(i) + delay[i]]
  <2>1. first_known(segment, report.update) = first
    BY DEF first_known, SelectInSeq
  <2> HIDE DEF first
  <2> QED
    BY <2>1 DEF trackTimes
<1>5. \E d : Carries(d)
  <2> HIDE DEF c, scheduled, predicted
  <2>1. PICK d : Carried(d, n, known, own, c)
    <3>1. known \in SUBSET (1..n)
      OBVIOUS
    <3> HIDE DEF known, n, own
    <3> QED
      BY <1>1, <3>1, CarriedAlong
  <2>2. Carries(d)
    BY <2>1 DEF Carried
  <2> QED
    BY <2>2
<1>6. Carries(delay)
  <2> HIDE DEF Carries
  <2> QED
    BY <1>5
<1> DEFINE Latest(i) ==
             \/ \E k \in 1..i : /\ predicted(k) # None
                                /\ \A j \in 1..i : predicted(j) # None => j <= k
                                /\ delay[i] = predicted(k) - scheduled(k)
             \/ /\ \A j \in 1..i : predicted(j) = None
                /\ delay[i] = c
           T == {i \in 0..n : ~Latest(i)}
<1>7. T = {}
  <2> SUFFICES ASSUME T # {} PROVE FALSE
    OBVIOUS
  <2> HIDE DEF c, scheduled, predicted, delay, n
  <2>1. PICK i \in T : \A j \in T : i <= j
    <3>1. T \in SUBSET Nat
      BY <1>1
    <3> HIDE DEF T
    <3> QED
      BY <3>1, LeastOf
  <2>2. i \in 0..n /\ ~Latest(i)
    OBVIOUS
  <2>3. delay[i] = IF i = 0 THEN c
                   ELSE IF predicted(i) # None THEN predicted(i) - scheduled(i)
                   ELSE delay[i - 1]
    BY <1>6, <2>2
  <2>4. CASE i = 0
    BY <2>2, <2>3, <2>4
  <2>5. CASE i # 0 /\ predicted(i) # None
    <3>1. i \in 1..i /\ delay[i] = predicted(i) - scheduled(i)
      BY <1>1, <2>2, <2>3, <2>5
    <3> QED
      BY <1>1, <2>2, <2>5, <3>1
  <2>6. CASE i # 0 /\ predicted(i) = None
    <3>1. i - 1 \in 0..n /\ ~(i <= i - 1)
      BY <1>1, <2>2, <2>6
    <3>2. Latest(i - 1)
      BY <2>1, <3>1
    <3>3. 1..i = (1..(i - 1)) \cup {i}
      BY <1>1, <2>2, <2>6
    <3>4. delay[i] = delay[i - 1]
      BY <2>3, <2>6
    <3>5. CASE \A j \in 1..(i - 1) : predicted(j) = None
      <4>1. \A j \in 1..i : predicted(j) = None
        BY <2>6, <3>3, <3>5
      <4>2. delay[i - 1] = c
        BY <3>2, <3>5
      <4> QED
        BY <2>2, <3>4, <4>1, <4>2
    <3>6. ASSUME NEW k \in 1..(i - 1), predicted(k) # None,
                 \A j \in 1..(i - 1) : predicted(j) # None => j <= k,
                 delay[i - 1] = predicted(k) - scheduled(k)
          PROVE  FALSE
      <4>1. k \in 1..i /\ \A j \in 1..i : predicted(j) # None => j <= k
        BY <2>6, <3>3, <3>6
      <4> QED
        BY <2>2, <3>4, <3>6, <4>1
    <3> QED
      BY <3>2, <3>5, <3>6
  <2> QED
    BY <2>4, <2>5, <2>6
<1> SUFFICES ASSUME NEW i \in 1..n
             PROVE
              \/ /\ \A j \in 1..n : predicted(j) = None
                 /\ at[i] = scheduled(i)
              \/ \E k \in 1..i : /\ predicted(k) # None
                                 /\ \A j \in 1..i : predicted(j) # None => j <= k
                                 /\ at[i] = scheduled(i) + (predicted(k) - scheduled(k))
              \/ /\ \A j \in 1..i : predicted(j) = None
                 /\ \E k \in 1..n : /\ predicted(k) # None
                                    /\ \A j \in 1..n : predicted(j) # None => k <= j
                                    /\ at[i] = scheduled(i) + (predicted(k) - scheduled(k))
  OBVIOUS
<1>8. at[i] = scheduled(i) + delay[i]
  BY <1>1, <1>4
<1>9. Latest(i)
  <2>1. i \in 0..n
    BY <1>1
  <2> HIDE DEF Latest
  <2> QED
    BY <1>7, <2>1
<1>10. CASE \A j \in 1..i : predicted(j) = None
  <2> HIDE DEF predicted, scheduled, delay, at, n
  <2>1. delay[i] = c
    BY <1>9, <1>10
  <2>2. CASE known = {}
    <3>1. c = 0 /\ \A j \in 1..n : predicted(j) = None
      BY <2>2
    <3> QED
      BY <1>2, <1>8, <2>1, <3>1
  <2>3. CASE known # {}
    <3>1. /\ first \in 1..n /\ predicted(first) # None
          /\ \A j \in 1..n : predicted(j) # None => first <= j
      BY <1>3, <2>3
    <3> HIDE DEF first
    <3>2. c = predicted(first) - scheduled(first)
      BY <1>1, <3>1
    <3> HIDE DEF c
    <3> QED
      BY <1>8, <1>10, <2>1, <3>1, <3>2
  <2> QED
    BY <2>2, <2>3
<1>11. CASE \E k \in 1..i : /\ predicted(k) # None
                            /\ \A j \in 1..i : predicted(j) # None => j <= k
                            /\ delay[i] = predicted(k) - scheduled(k)
  <2> HIDE DEF predicted, scheduled, delay, at, n
  <2> QED
    BY <1>8, <1>11
<1> HIDE DEF predicted, scheduled, delay, at, n, c
<1> QED
  BY <1>9, <1>10, <1>11

\* A track ends at the rider's stop, has one of its stops at each place, with
\* its time, and counts with those it hides.
TrackOK(stops, date, vehicle, target, update) ==
  LET segment == Segment(stops, vehicle, target)
      track == build_track(stops, date, vehicle, target, update)
      last == track[Len(track)]
  IN /\ last.seq = target
     /\ Len(track) + last.hidden_before = Len(segment)
     /\ Len(track) <= TrackMaxStops
     /\ \A i \in DOMAIN track : \E k \in 1..Len(segment) :
          /\ track[i].seq = segment[k].seq
          /\ track[i].at = trackTimes(segment, date, update)[k]

\* That is so for every trip that goes on to the rider's stop.
LEMMA BuildTrackFacts ==
  ASSUME timetable \in Timetables, NEW trip \in Trips, NEW date \in Int, NEW update,
         NEW vehicle \in Int, NEW target \in Int, vehicle <= target,
         StopsAt(trip, target)
  PROVE  TrackOK(timetable[trip].stops, date, vehicle, target, update)
<1> DEFINE stops == timetable[trip].stops
           segment == Segment(stops, vehicle, target)
           at == trackTimes(segment, date, update)
           all == [i \in DOMAIN segment |->
                     [seq |-> segment[i].seq, at |-> at[i],
                      is_vehicle_here |-> segment[i].seq = vehicle, hidden_before |-> 0]]
           n == Len(segment)
           head == SubSeq(all, 1, TrackHeadStops + 1)
           end == [all[n] EXCEPT !.hidden_before = n - Len(head) - 1]
           track == build_track(stops, date, vehicle, target, update)
           last == track[Len(track)]
<1>1. segment \in Visits /\ n \in 1..n /\ segment[n].seq = target
  <2>1. SegmentOK(stops, vehicle, target)
    BY SegmentFacts
  <2>2. n \in Nat /\ n >= 1
    BY <2>1 DEF SegmentOK
  <2> QED
    BY <2>1, <2>2 DEF SegmentOK
<1> HIDE DEF segment, at
<1>2. DOMAIN segment = 1..n /\ n \in Nat /\ n \in 1..n
  BY <1>1 DEF Visits
<1> DEFINE V == {all[i] : i \in 1..n}
<1>3. all \in Seq(V) /\ Len(all) = n
  BY <1>2
<1>4. TrackHeadStops \in Nat /\ TrackMaxStops \in Nat /\ TrackHeadStops + 2 <= TrackMaxStops
  BY UpcomingAssumption
<1>5. track = IF n > TrackMaxStops THEN Append(head, end) ELSE all
  <2>1. track = IF Len(all) > TrackMaxStops
                THEN Append(head, [all[Len(all)] EXCEPT
                                     !.hidden_before = Len(all) - Len(head) - 1])
                ELSE all
    BY DEF build_track, Segment, segment, at
  <2> HIDE DEF track, all, head
  <2> QED
    BY <1>3, <2>1
<1> HIDE DEF track
<1>6. CASE n <= TrackMaxStops
  <2>1. track = all /\ Len(track) = n
    <3> HIDE DEF n, all, head, end
    <3> QED
      BY <1>2, <1>3, <1>4, <1>5, <1>6
  <2>2. last.seq = target /\ last.hidden_before = 0
    BY <1>1, <1>2, <2>1
  <2>3. \A i \in DOMAIN track : \E k \in 1..n :
          track[i].seq = segment[k].seq /\ track[i].at = at[k]
    BY <1>2, <2>1
  <2> HIDE DEF last
  <2>4. Len(track) + last.hidden_before = n /\ Len(track) <= TrackMaxStops
    BY <1>1, <1>2, <1>6, <2>1, <2>2
  <2> QED
    BY <2>2, <2>3, <2>4 DEF segment, at, track, last, TrackOK
<1>7. CASE n > TrackMaxStops
  <2>1. track = Append(head, end)
    BY <1>5, <1>7
  <2>2. /\ head \in Seq(V) /\ Len(head) = TrackHeadStops + 1
        /\ \A i \in 1..(TrackHeadStops + 1) : head[i] = all[i]
    <3>1. TrackHeadStops + 1 \in 1..n
      BY <1>2, <1>4, <1>7
    <3> HIDE DEF all, V
    <3> QED
      BY <1>3, <1>4, <3>1, SubSeqProperties
  <2>3. /\ Len(track) = TrackHeadStops + 2 /\ last = end
        /\ \A i \in 1..(TrackHeadStops + 1) : track[i] = all[i]
        /\ DOMAIN track = 1..(TrackHeadStops + 2)
    <3> HIDE DEF all, V, head, end
    <3>1. head \in Seq(V \cup {end})
      BY <2>2
    <3> QED
      BY <1>4, <2>1, <2>2, <3>1, AppendProperties
  <2>4. end.seq = target /\ end.hidden_before = n - (TrackHeadStops + 1) - 1
        /\ end.at = at[n]
    BY <1>1, <1>2, <2>2
  <2>5. ASSUME NEW i \in DOMAIN track
        PROVE  \E k \in 1..n : track[i].seq = segment[k].seq /\ track[i].at = at[k]
    <3>1. CASE i \in 1..(TrackHeadStops + 1)
      <4>1. i \in 1..n
        BY <1>2, <1>4, <1>7, <3>1
      <4>2. track[i] = all[i]
        BY <2>3, <3>1
      <4> QED
        BY <1>2, <4>1, <4>2
    <3>2. CASE i = TrackHeadStops + 2
      <4>1. track[i] = end
        BY <2>3, <3>2
      <4> QED
        BY <1>1, <1>2, <2>4, <4>1
    <3> QED
      BY <1>4, <2>3, <3>1, <3>2
  <2> HIDE DEF end, all, head, last
  <2>6. Len(track) + last.hidden_before = n /\ Len(track) <= TrackMaxStops
    BY <1>2, <1>4, <2>3, <2>4
  <2> QED
    BY <1>1, <2>3, <2>4, <2>5, <2>6 DEF segment, at, track, last, TrackOK
<1> QED
  BY <1>2, <1>4, <1>6, <1>7

-----------------------------------------------------------------------------
(* The answer *)

\* What is selected for an answer, and the list that shows it.
Listed(t, snapshot, selected, arrivals) ==
  /\ t \in Int
  /\ snapshot \in [Trips -> TripReport]
  /\ selected \in select_arrivals(candidates(t, snapshot))
  /\ arrivals = {with_track(a, snapshot) : a \in selected}

\* An entry of the list shows one candidate that is selected, and its visit.
LEMMA ListedFacts ==
  ASSUME timetable \in Timetables, NEW t, NEW snapshot, NEW selected, NEW arrivals,
         Listed(t, snapshot, selected, arrivals), NEW x \in arrivals
  PROVE  \E a \in selected :
           /\ a \in candidates(t, snapshot) /\ a \in Arrival
           /\ x = with_track(a, snapshot) /\ x.arrival \in Arrival
           /\ x.arrival.trip = a.trip /\ x.arrival.seq = a.seq /\ x.arrival.date = a.date
           /\ x.arrival.effective = a.effective /\ x.arrival.vehicle = a.vehicle
           /\ x.arrival.predicted = a.predicted
<1>1. PICK a \in selected : x = with_track(a, snapshot)
  BY DEF Listed
<1>2. a \in candidates(t, snapshot)
  BY DEF Listed, select_arrivals
<1>3. a \in Arrival
  BY <1>2, CandidateFacts DEF Listed
<1> QED
  BY <1>1, <1>2, <1>3, TrackKeepsVisit

\* An entry of the list is in the window, and its prediction is its own.
LEMMA ListedIsDue ==
  ASSUME timetable \in Timetables, NEW t, NEW snapshot, NEW selected, NEW arrivals,
         Listed(t, snapshot, selected, arrivals), NEW x \in arrivals
  PROVE  /\ InWindow(x.arrival, t)
         /\ x.arrival.predicted # None =>
              Names(snapshot[x.arrival.trip].update, x.arrival.predicted, x.arrival.seq, Here)
<1>1. PICK a \in selected :
        /\ a \in candidates(t, snapshot)
        /\ x.arrival.trip = a.trip /\ x.arrival.seq = a.seq
        /\ x.arrival.effective = a.effective /\ x.arrival.vehicle = a.vehicle
        /\ x.arrival.predicted = a.predicted
  BY ListedFacts
<1>2. /\ InWindow(a, t)
      /\ a.predicted # None => Names(snapshot[a.trip].update, a.predicted, a.seq, Here)
  BY <1>1, CandidateIsDue DEF Listed
<1> QED
  BY <1>1, <1>2 DEF InWindow

\* Entries of the same visit are the same entry.
LEMMA OneListedPerVisit ==
  ASSUME timetable \in Timetables, NEW t, NEW snapshot, NEW selected, NEW arrivals,
         Listed(t, snapshot, selected, arrivals), NEW x \in arrivals, NEW y \in arrivals,
         x.arrival.trip = y.arrival.trip, x.arrival.seq = y.arrival.seq
  PROVE  x = y
<1>1. PICK a \in candidates(t, snapshot) :
        x = with_track(a, snapshot) /\ x.arrival.trip = a.trip /\ x.arrival.seq = a.seq
  BY ListedFacts
<1>2. PICK b \in candidates(t, snapshot) :
        y = with_track(b, snapshot) /\ y.arrival.trip = b.trip /\ y.arrival.seq = b.seq
  BY ListedFacts
<1>3. a = b
  BY <1>1, <1>2, OneCandidatePerVisit DEF Listed
<1> QED
  BY <1>1, <1>2, <1>3

\* The list has an entry for each candidate that is selected, and no more than
\* it may have.
LEMMA ListLength ==
  ASSUME timetable \in Timetables, NEW t, NEW snapshot, NEW selected, NEW arrivals,
         Listed(t, snapshot, selected, arrivals)
  PROVE  /\ Cardinality(arrivals) = Cardinality(selected)
         /\ Cardinality(arrivals) <= MaxArrivals
<1> DEFINE f == [a \in selected |-> with_track(a, snapshot)]
<1>1. /\ IsFiniteSet(selected) /\ Cardinality(selected) <= MaxArrivals
      /\ selected \in SUBSET candidates(t, snapshot)
  BY CandidatesFinite, SelectionFacts DEF Listed
<1>2. f \in [selected -> arrivals] /\ \A x \in arrivals : \E a \in selected : f[a] = x
  BY DEF Listed
<1>3. ASSUME NEW a \in selected, NEW b \in selected, f[a] = f[b]
      PROVE  a = b
  <2>1. with_track(a, snapshot) = with_track(b, snapshot)
    BY <1>3
  <2>2. a \in candidates(t, snapshot) /\ b \in candidates(t, snapshot)
    BY <1>1
  <2>3. a \in Arrival /\ b \in Arrival
    BY <2>2, CandidateFacts DEF Listed
  <2>4. /\ with_track(a, snapshot).arrival.trip = a.trip
        /\ with_track(a, snapshot).arrival.seq = a.seq
        /\ with_track(b, snapshot).arrival.trip = b.trip
        /\ with_track(b, snapshot).arrival.seq = b.seq
    BY <2>3, TrackKeepsVisit
  <2>5. a.trip = b.trip /\ a.seq = b.seq
    BY <2>1, <2>4
  <2> QED
    BY <2>2, <2>5, OneCandidatePerVisit DEF Listed
<1> HIDE DEF f
<1>4. ExistsBijection(selected, arrivals)
  BY <1>2, <1>3 DEF ExistsBijection, Bijection, Injection, Surjection, IsInjective
<1>5. Cardinality(arrivals) = Cardinality(selected)
  BY <1>1, <1>4, FS_Bijection
<1> QED
  BY <1>1, <1>5

\* A bus that is due is on the list, or the list is full of buses due no later.
LEMMA DueBusIsListed ==
  ASSUME timetable \in Timetables, NEW t, NEW snapshot, NEW selected, NEW arrivals,
         Listed(t, snapshot, selected, arrivals),
         NEW row \in Rows, NEW date \in timetable[row.trip].days, date <= local_today(t),
         t - ScheduleLookback <= to_epoch(date, row.time),
         to_epoch(date, row.time) <= t + WindowAhead,
         t - WindowPast <= DueIn(snapshot, row, date),
         DueIn(snapshot, row, date) <= t + WindowAhead,
         ~(/\ snapshot[row.trip].vehicle # None
           /\ snapshot[row.trip].vehicle > row.seq)
  PROVE  \/ \E x \in arrivals :
              x.arrival.trip = row.trip /\ x.arrival.seq = row.seq /\ x.arrival.date = date
         \/ /\ Cardinality(arrivals) = MaxArrivals
            /\ \A x \in arrivals : x.arrival.effective <= DueIn(snapshot, row, date)
<1> DEFINE a == build_arrival(row, date, snapshot, t)
<1>1. t \in Int /\ snapshot \in [Trips -> TripReport]
  BY DEF Listed
<1>2. date \in {local_today(t) - 1, local_today(t)} /\ row \in RowsOn(date, t)
  BY <1>1, RowIsFound
<1>3. date \in Int
  BY RowFacts
<1>4. a # None
  BY <1>1, <1>3, ArrivalIsBuilt
<1>5. a \in candidates(t, snapshot)
  <2> HIDE DEF a
  <2> QED
    BY <1>2, <1>4 DEF candidates, RowsOn, a
<1>6. /\ a \in Arrival /\ a.trip = row.trip /\ a.seq = row.seq /\ a.date = date
      /\ a.effective = DueIn(snapshot, row, date)
  BY <1>1, <1>3, <1>4, ArrivalOfRow
<1> HIDE DEF a
<1>7. CASE a \in selected
  <2>1. with_track(a, snapshot) \in arrivals
    BY <1>7 DEF Listed
  <2> QED
    BY <1>6, <2>1, TrackKeepsVisit
<1>8. CASE a \notin selected
  <2>1. Cardinality(selected) = MaxArrivals /\ \A b \in selected : ~Before(a, b)
    BY <1>1, <1>5, <1>8, CandidatesFinite, SelectionFacts DEF Listed
  <2>2. ASSUME NEW x \in arrivals
        PROVE  x.arrival.effective <= a.effective
    <3>1. PICK b \in selected : b \in Arrival /\ x.arrival.effective = b.effective
      BY ListedFacts
    <3>2. ~(a.effective < b.effective)
      BY <2>1 DEF Before
    <3> QED
      BY <1>6, <3>1, <3>2 DEF Arrival
  <2> QED
    BY <1>6, <2>1, <2>2, ListLength
<1> QED
  BY <1>7, <1>8

\* The track of an entry: it counts what the entry counts.
LEMMA TrackCounts ==
  ASSUME timetable \in Timetables, NEW t, NEW snapshot, NEW selected, NEW arrivals,
         Listed(t, snapshot, selected, arrivals),
         NEW x \in arrivals, x.arrival.vehicle # None
  PROVE  LET last == x.track[Len(x.track)] IN
         /\ Len(x.track) + last.hidden_before = x.arrival.stops_away + 1
         /\ Len(x.track) <= TrackMaxStops
         /\ last.seq = x.arrival.seq
<1>1. PICK a \in candidates(t, snapshot) :
        /\ a \in Arrival /\ x = with_track(a, snapshot)
        /\ x.arrival.seq = a.seq /\ x.arrival.vehicle = a.vehicle
  BY ListedFacts
<1> DEFINE stops == timetable[a.trip].stops
           update == snapshot[a.trip].update
           segment == Segment(stops, a.vehicle, a.seq)
<1>2. /\ a.vehicle <= a.seq /\ a.vehicle \in Int /\ a.seq \in Int /\ a.trip \in Trips
      /\ a.date \in Int /\ StopsAt(a.trip, a.seq)
  <2>1. a.vehicle # None => a.vehicle <= a.seq /\ StopsAt(a.trip, a.seq)
    BY CandidateFacts DEF Listed
  <2> QED
    BY <1>1, <2>1 DEF Arrival
<1>3. /\ x.track = build_track(stops, a.date, a.vehicle, a.seq, update)
      /\ x.arrival.stops_away = Cardinality(Between(stops, a.vehicle, a.seq))
  <2>1. /\ x.track = build_track(stops, a.date, a.vehicle, a.seq, update)
        /\ x.arrival = [a EXCEPT !.stops_away = Cardinality(Between(stops, a.vehicle, a.seq))]
    BY <1>1 DEF with_track, Between
  <2> HIDE DEF stops
  <2> QED
    BY <1>1, <2>1 DEF Arrival
<1>4. SegmentOK(stops, a.vehicle, a.seq)
  BY <1>2, SegmentFacts
<1>5. Len(segment) = Cardinality(Between(stops, a.vehicle, a.seq)) + 1
  BY <1>4 DEF SegmentOK
<1> HIDE DEF update
<1>6. LET track == build_track(stops, a.date, a.vehicle, a.seq, update)
          last == track[Len(track)]
      IN /\ last.seq = a.seq
         /\ Len(track) + last.hidden_before = Len(segment)
         /\ Len(track) <= TrackMaxStops
  <2>1. TrackOK(stops, a.date, a.vehicle, a.seq, update)
    BY <1>2, BuildTrackFacts
  <2> QED
    BY <2>1 DEF TrackOK
<1> HIDE DEF stops, segment
<1> QED
  BY <1>1, <1>3, <1>5, <1>6

\* The time at a stop of a track, told by the stops of the timetable: what
\* TrackTimes says of it.
TimedBy(st, at, all, date, update) ==
  LET scheduled(s) == to_epoch(date, s.time)
      known == {s \in all : prediction(update, s.seq, s.stop) # None}
      delay(s) == prediction(update, s.seq, s.stop) - scheduled(s)
      before(s) == {k \in known : k.seq <= s.seq}
  IN \/ known = {} /\ at = scheduled(st)
     \/ \E k \in before(st) :
          /\ \A j \in before(st) : j.seq <= k.seq
          /\ at = scheduled(st) + delay(k)
     \/ /\ before(st) = {}
        /\ \E k \in known :
             /\ \A j \in known : k.seq <= j.seq
             /\ at = scheduled(st) + delay(k)

\* The places of a segment are in the order of its stop sequences, so that what
\* is said of the places holds of the stops.
LEMMA SegmentTimes ==
  ASSUME NEW segment \in Visits, NEW date \in Int, NEW report \in TripReport,
         \A k, l \in 1..Len(segment) : k < l => segment[k].seq < segment[l].seq,
         NEW all, all = {segment[k] : k \in 1..Len(segment)},
         NEW i \in 1..Len(segment)
  PROVE  TimedBy(segment[i], trackTimes(segment, date, report.update)[i], all, date,
                 report.update)
<1> DEFINE n == Len(segment)
           predicted(k) == prediction(report.update, segment[k].seq, segment[k].stop)
           scheduled(k) == to_epoch(date, segment[k].time)
           at == trackTimes(segment, date, report.update)[i]
           known == {s \in all : prediction(report.update, s.seq, s.stop) # None}
           before == {s \in known : s.seq <= segment[i].seq}
<1>1. n \in Nat /\ \A k \in 1..n : segment[k].seq \in Int
  <2>1. \A k \in 1..n : segment[k] \in [seq : Int, stop : Stops, time : Nat]
    BY ElementOfSeq DEF Visits
  <2>2. \A k \in 1..n : segment[k].seq \in Int
    BY <2>1
  <2>3. n \in Nat
    BY DEF Visits
  <2> QED
    BY <2>2, <2>3
<1>2. \A k, l \in 1..n : segment[k].seq <= segment[l].seq <=> k <= l
  <2> SUFFICES ASSUME NEW k \in 1..n, NEW l \in 1..n
               PROVE  segment[k].seq <= segment[l].seq <=> k <= l
    OBVIOUS
  <2>1. /\ k < l => segment[k].seq < segment[l].seq
        /\ l < k => segment[l].seq < segment[k].seq
        /\ k = l => segment[k].seq = segment[l].seq
    OBVIOUS
  <2>2. k \in Int /\ l \in Int /\ segment[k].seq \in Int /\ segment[l].seq \in Int
    BY <1>1
  <2> QED
    BY <2>1, <2>2
<1>3. \/ /\ \A j \in 1..n : predicted(j) = None
         /\ at = scheduled(i)
      \/ \E k \in 1..i : /\ predicted(k) # None
                         /\ \A j \in 1..i : predicted(j) # None => j <= k
                         /\ at = scheduled(i) + (predicted(k) - scheduled(k))
      \/ /\ \A j \in 1..i : predicted(j) = None
         /\ \E k \in 1..n : /\ predicted(k) # None
                            /\ \A j \in 1..n : predicted(j) # None => k <= j
                            /\ at = scheduled(i) + (predicted(k) - scheduled(k))
  BY TrackTimesFacts
<1>4. /\ \A s \in known : \E k \in 1..n : s = segment[k] /\ predicted(k) # None
      /\ \A k \in 1..n : predicted(k) # None => segment[k] \in known
  OBVIOUS
<1>5. /\ \A s \in before : \E k \in 1..i : s = segment[k] /\ predicted(k) # None
      /\ \A k \in 1..i : predicted(k) # None => segment[k] \in before
  <2> HIDE DEF known, predicted
  <2>1. 1..i \subseteq 1..n
    BY <1>1
  <2>2. ASSUME NEW s \in before
        PROVE  \E k \in 1..i : s = segment[k] /\ predicted(k) # None
    <3>1. PICK k \in 1..n : s = segment[k] /\ predicted(k) # None
      BY <1>4
    <3>2. k <= i
      BY <1>2, <3>1
    <3> QED
      BY <1>1, <3>1, <3>2
  <2>3. ASSUME NEW k \in 1..i, predicted(k) # None
        PROVE  segment[k] \in before
    <3>1. k \in 1..n /\ k <= i
      BY <2>1
    <3> QED
      BY <1>2, <1>4, <2>3, <3>1
  <2> QED
    BY <2>2, <2>3
<1>6. TimedBy(segment[i], at, all, date, report.update) <=>
        \/ known = {} /\ at = scheduled(i)
        \/ \E s \in before :
             /\ \A r \in before : r.seq <= s.seq
             /\ at = scheduled(i) + (prediction(report.update, s.seq, s.stop)
                                       - to_epoch(date, s.time))
        \/ /\ before = {}
           /\ \E s \in known :
                /\ \A r \in known : s.seq <= r.seq
                /\ at = scheduled(i) + (prediction(report.update, s.seq, s.stop)
                                          - to_epoch(date, s.time))
  BY DEF TimedBy
<1>7. CASE /\ \A j \in 1..n : predicted(j) = None
           /\ at = scheduled(i)
  <2>1. known = {}
    BY <1>4, <1>7
  <2> QED
    BY <1>6, <1>7, <2>1
<1>8. CASE \E k \in 1..i : /\ predicted(k) # None
                           /\ \A j \in 1..i : predicted(j) # None => j <= k
                           /\ at = scheduled(i) + (predicted(k) - scheduled(k))
  <2>0. PICK k \in 1..i : /\ predicted(k) # None
                          /\ \A j \in 1..i : predicted(j) # None => j <= k
                          /\ at = scheduled(i) + (predicted(k) - scheduled(k))
    BY <1>8
  <2>1. segment[k] \in before
    BY <1>5, <2>0
  <2>2. \A r \in before : r.seq <= segment[k].seq
    <3> SUFFICES ASSUME NEW r \in before PROVE r.seq <= segment[k].seq
      OBVIOUS
    <3>1. PICK j \in 1..i : r = segment[j] /\ predicted(j) # None
      BY <1>5
    <3>2. j <= k /\ j \in 1..n /\ k \in 1..n
      BY <1>1, <2>0, <3>1
    <3> QED
      BY <1>2, <3>1, <3>2
  <2>4. at = scheduled(i) + (prediction(report.update, segment[k].seq, segment[k].stop)
                              - to_epoch(date, segment[k].time))
    BY <2>0
  <2> HIDE DEF before, known, scheduled
  <2> QED
    BY <1>6, <2>1, <2>2, <2>4
<1>9. CASE /\ \A j \in 1..i : predicted(j) = None
           /\ \E k \in 1..n : /\ predicted(k) # None
                              /\ \A j \in 1..n : predicted(j) # None => k <= j
                              /\ at = scheduled(i) + (predicted(k) - scheduled(k))
  <2>0. PICK k \in 1..n : /\ predicted(k) # None
                          /\ \A j \in 1..n : predicted(j) # None => k <= j
                          /\ at = scheduled(i) + (predicted(k) - scheduled(k))
    BY <1>9
  <2>1. before = {}
    BY <1>5, <1>9
  <2>2. segment[k] \in known
    BY <1>4, <2>0
  <2>3. \A r \in known : segment[k].seq <= r.seq
    <3> SUFFICES ASSUME NEW r \in known PROVE segment[k].seq <= r.seq
      OBVIOUS
    <3>1. PICK j \in 1..n : r = segment[j] /\ predicted(j) # None
      BY <1>4
    <3> QED
      BY <1>2, <2>0, <3>1
  <2>4. at = scheduled(i) + (prediction(report.update, segment[k].seq, segment[k].stop)
                              - to_epoch(date, segment[k].time))
    BY <2>0
  <2> HIDE DEF before, known, scheduled
  <2> QED
    BY <1>6, <2>1, <2>2, <2>3, <2>4
<1> HIDE DEF predicted, scheduled, at, n, known, before
<1> QED
  BY <1>3, <1>7, <1>8, <1>9

\* The times on the track of an entry.
LEMMA TrackIsTimed ==
  ASSUME timetable \in Timetables, NEW t, NEW snapshot, NEW selected, NEW arrivals,
         Listed(t, snapshot, selected, arrivals),
         NEW x \in arrivals, x.arrival.vehicle # None, NEW i \in DOMAIN x.track
  PROVE  LET a == x.arrival
             segment == {st \in ToSet(timetable[a.trip].stops) :
                           a.vehicle <= st.seq /\ st.seq <= a.seq}
         IN \E st \in segment :
              /\ st.seq = x.track[i].seq
              /\ TimedBy(st, x.track[i].at, segment, a.date, snapshot[a.trip].update)
<1>1. PICK a \in candidates(t, snapshot) :
        /\ a \in Arrival /\ x = with_track(a, snapshot)
        /\ x.arrival.trip = a.trip /\ x.arrival.seq = a.seq /\ x.arrival.date = a.date
        /\ x.arrival.vehicle = a.vehicle
  BY ListedFacts
<1> DEFINE stops == timetable[a.trip].stops
           report == snapshot[a.trip]
           segment == Segment(stops, a.vehicle, a.seq)
           all == {st \in ToSet(stops) : a.vehicle <= st.seq /\ st.seq <= a.seq}
           track == build_track(stops, a.date, a.vehicle, a.seq, report.update)
<1>2. /\ a.vehicle <= a.seq /\ a.vehicle \in Int /\ a.seq \in Int /\ a.trip \in Trips
      /\ a.date \in Int /\ StopsAt(a.trip, a.seq)
  <2>1. a.vehicle # None => a.vehicle <= a.seq /\ StopsAt(a.trip, a.seq)
    BY CandidateFacts DEF Listed
  <2> QED
    BY <1>1, <2>1 DEF Arrival
<1>3. x.track = track
  BY <1>1 DEF with_track
<1>4. report \in TripReport
  BY <1>2 DEF Listed
<1>5. /\ segment \in Visits
      /\ all = {segment[k] : k \in 1..Len(segment)}
      /\ \A k, l \in 1..Len(segment) : k < l => segment[k].seq < segment[l].seq
  <2>1. SegmentOK(stops, a.vehicle, a.seq)
    BY <1>2, SegmentFacts
  <2> QED
    BY <2>1 DEF SegmentOK
<1> DEFINE update == report.update
<1> HIDE DEF update
<1>6. \A j \in DOMAIN build_track(stops, a.date, a.vehicle, a.seq, update) :
        \E k \in 1..Len(segment) :
          /\ build_track(stops, a.date, a.vehicle, a.seq, update)[j].seq = segment[k].seq
          /\ build_track(stops, a.date, a.vehicle, a.seq, update)[j].at
               = trackTimes(segment, a.date, update)[k]
  <2>1. TrackOK(stops, a.date, a.vehicle, a.seq, update)
    BY <1>2, BuildTrackFacts
  <2> QED
    BY <2>1 DEF TrackOK
<1> HIDE DEF stops, segment, all
<1>7. PICK k \in 1..Len(segment) :
        /\ track[i].seq = segment[k].seq
        /\ track[i].at = trackTimes(segment, a.date, update)[k]
  BY <1>3, <1>6 DEF update
<1>8. TimedBy(segment[k], track[i].at, all, a.date, report.update)
  <2> HIDE DEF report
  <2>1. TimedBy(segment[k], trackTimes(segment, a.date, report.update)[k], all, a.date,
                report.update)
    BY <1>2, <1>4, <1>5, SegmentTimes
  <2> QED
    BY <1>7, <2>1 DEF update
<1>9. segment[k] \in all
  BY <1>5
<1> HIDE DEF track
<1> QED
  BY <1>1, <1>3, <1>7, <1>8, <1>9 DEF all, stops, report

\* The time of the earliest rows is that of one of them, and not after any.
LEMMA EarliestFacts ==
  ASSUME timetable \in Timetables, NEW date \in Int, NEW R \in SUBSET Rows,
         NEW next \in earliest(date, R)
  PROVE  /\ next \in Int
         /\ \E row \in R : next = to_epoch(date, row.time)
         /\ \A row \in R : next <= to_epoch(date, row.time)
<1>1. PICK row \in R : /\ \A other \in R : row.time <= other.time
                       /\ next = to_epoch(date, row.time)
  BY DEF earliest
<1>2. \A other \in R : other.time \in Int
  BY RowFacts
<1>3. date * Day \in Int
  BY UpcomingAssumption
<1> DEFINE p == date * Day
<1>4. \A other \in R : to_epoch(date, other.time) = p + other.time
  BY DEF to_epoch
<1> HIDE DEF p
<1> QED
  BY <1>1, <1>2, <1>3, <1>4 DEF p

\* Times of a service day and of the next one, counted from where the first begins.
LEMMA TodayAndTomorrow ==
  ASSUME NEW t \in Int, NEW today, today = local_today(t)
  PROVE  /\ today \in Int /\ today * Day \in Int
         /\ today * Day <= t /\ t < today * Day + Day
         /\ \A x : to_epoch(today, x) = today * Day + x
         /\ \A x : to_epoch(today + 1, x) = (today * Day + Day) + x
         /\ seconds_into_service_day(today, t) = t - today * Day
<1>1. Day \in Int /\ Day > 0
  BY UpcomingAssumption
<1>2. \A x \in Int, d \in Int : d > 0 => /\ (x \div d) \in Int /\ (x \div d) * d <= x
                                        /\ x < (x \div d) * d + d
  BY SMTT(30)
<1>3. /\ today \in Int /\ today * Day <= t /\ t < today * Day + Day
  BY <1>1, <1>2 DEF local_today
<1>4. today * Day \in Int /\ (today + 1) * Day = today * Day + Day
  BY <1>1, <1>3
<1> QED
  BY <1>3, <1>4 DEF to_epoch, seconds_into_service_day

\* The first search: today's rows from the end of the window.
TodayLater(t) ==
  rows_in_window(local_today(t),
    seconds_into_service_day(local_today(t), t) + WindowAhead, 10 * Day)

\* The second: all of tomorrow's.
Tomorrow(t) == rows_in_window(local_today(t) + 1, 0, 10 * Day)

\* What the two searches find, among the times of the two service days.
LEMMA SearchFacts ==
  ASSUME timetable \in Timetables, NEW t \in Int, NEW row \in Rows
  PROVE  LET today == local_today(t) IN
         /\ row \in TodayLater(t) <=>
              /\ today \in timetable[row.trip].days
              /\ t + WindowAhead <= to_epoch(today, row.time)
         /\ row \in Tomorrow(t) <=> today + 1 \in timetable[row.trip].days
         /\ to_epoch(today, row.time) \in Int /\ to_epoch(today + 1, row.time) \in Int
         /\ to_epoch(today + 1, 0) <= to_epoch(today + 1, row.time)
<1> DEFINE today == local_today(t)
           p == today * Day
<1>1. row.time \in Nat /\ row.time < 2 * Day - ScheduleLookback
  BY RowFacts
<1>2. Day \in Nat /\ ScheduleLookback \in Nat /\ WindowAhead \in Nat
  BY UpcomingAssumption
<1>3. row.time <= 10 * Day
  BY <1>1, <1>2
<1>4. /\ p \in Int
      /\ to_epoch(today, row.time) = p + row.time
      /\ to_epoch(today + 1, row.time) = (p + Day) + row.time
      /\ to_epoch(today + 1, 0) = (p + Day) + 0
      /\ seconds_into_service_day(today, t) = t - p
  BY TodayAndTomorrow
<1> HIDE DEF today, p
<1>5. (t - p) + WindowAhead <= row.time <=> t + WindowAhead <= p + row.time
  BY <1>1, <1>2, <1>4
<1>6. row \in TodayLater(t) <=> /\ today \in timetable[row.trip].days
                                /\ (t - p) + WindowAhead <= row.time
  BY <1>3, <1>4 DEF TodayLater, rows_in_window, today
<1>7. row \in Tomorrow(t) <=> today + 1 \in timetable[row.trip].days
  BY <1>1, <1>3 DEF Tomorrow, rows_in_window, today
<1>8. /\ to_epoch(today, row.time) \in Int /\ to_epoch(today + 1, row.time) \in Int
      /\ to_epoch(today + 1, 0) <= to_epoch(today + 1, row.time)
  BY <1>1, <1>2, <1>4
<1> QED
  BY <1>4, <1>5, <1>6, <1>7, <1>8 DEF today

\* The time is to come, and the first after the window as far as the searches go.
FirstAfter(t, told) ==
  LET today == local_today(t) IN
  /\ told # None => t <= told /\ told \in TimesOf(today) \cup TimesOf(today + 1)
  /\ \A s \in TimesOf(today) \cup TimesOf(today + 1) : t + WindowAhead <= s =>
       /\ told # None
       /\ told <= s \/ (told \in TimesOf(today) /\ to_epoch(today + 1, 0) <= told)

\* What is told next comes first.
LEMMA NextFacts ==
  ASSUME timetable \in Timetables, NEW t \in Int, NEW next \in next_scheduled(t)
  PROVE  next \in Int \cup {None} /\ FirstAfter(t, next)
<1> DEFINE today == local_today(t)
           later == TodayLater(t)
           tomorrow == Tomorrow(t)
           midnight == to_epoch(today + 1, 0)
<1>1. /\ today \in Int /\ today + 1 \in Int /\ WindowAhead \in Nat /\ None \notin Int
      /\ midnight \in Int /\ t < midnight
  <2>1. /\ today \in Int /\ today * Day \in Int /\ t < today * Day + Day
        /\ midnight = (today * Day + Day) + 0
    BY TodayAndTomorrow
  <2>2. WindowAhead \in Nat /\ None \notin Int /\ Day \in Int
    BY UpcomingAssumption
  <2> DEFINE p == today * Day
  <2> HIDE DEF p, today, midnight
  <2>3. p \in Int /\ t < p + Day /\ midnight = (p + Day) + 0
    BY <2>1 DEF p
  <2>4. midnight \in Int /\ t < midnight
    BY <2>2, <2>3
  <2> QED
    BY <2>1, <2>2, <2>4
<1>2. later \in SUBSET Rows /\ tomorrow \in SUBSET Rows
  BY DEF TodayLater, Tomorrow, rows_in_window
<1>3. /\ later # {} => next \in earliest(today, later)
      /\ later = {} /\ tomorrow # {} => next \in earliest(today + 1, tomorrow)
      /\ later = {} /\ tomorrow = {} => next = None
  <2>1. next \in CASE later # {} -> earliest(today, later)
                   [] later = {} /\ tomorrow # {} -> earliest(today + 1, tomorrow)
                   [] OTHER -> {None}
    BY DEF next_scheduled, TodayLater, Tomorrow
  <2> HIDE DEF later, tomorrow
  <2> QED
    BY <2>1
\* A time of today's or tomorrow's is that of a row, which the searches find.
<1>4. ASSUME NEW s \in TimesOf(today)
      PROVE  s \in Int /\ (t + WindowAhead <= s =>
                             \E row \in later : s = to_epoch(today, row.time))
  <2>1. PICK row \in Rows : today \in timetable[row.trip].days /\ s = to_epoch(today, row.time)
    BY DEF TimesOf
  <2>2. /\ row \in later <=> /\ today \in timetable[row.trip].days
                             /\ t + WindowAhead <= to_epoch(today, row.time)
        /\ to_epoch(today, row.time) \in Int
    BY SearchFacts
  <2> QED
    BY <2>1, <2>2
<1>5. ASSUME NEW s \in TimesOf(today + 1)
      PROVE  s \in Int /\ midnight <= s /\ \E row \in tomorrow : s = to_epoch(today + 1, row.time)
  <2>1. PICK row \in Rows : /\ today + 1 \in timetable[row.trip].days
                            /\ s = to_epoch(today + 1, row.time)
    BY DEF TimesOf
  <2>2. /\ row \in tomorrow <=> today + 1 \in timetable[row.trip].days
        /\ to_epoch(today + 1, row.time) \in Int
        /\ midnight <= to_epoch(today + 1, row.time)
    BY SearchFacts
  <2> QED
    BY <2>1, <2>2
<1>6. CASE later # {}
  <2>1. /\ next \in Int /\ \A row \in later : next <= to_epoch(today, row.time)
        /\ \E row \in later : next = to_epoch(today, row.time)
    BY <1>1, <1>2, <1>3, <1>6, EarliestFacts
  <2>2. PICK row \in later : next = to_epoch(today, row.time)
    BY <2>1
  <2>3. row \in Rows /\ today \in timetable[row.trip].days
        /\ t + WindowAhead <= to_epoch(today, row.time)
    BY <1>2, SearchFacts
  <2>4. next \in TimesOf(today)
    BY <2>2, <2>3 DEF TimesOf
  <2>5. t <= next
    <3> HIDE DEF today
    <3> QED
      BY <1>1, <2>1, <2>2, <2>3
  <2> HIDE DEF today, later, midnight, tomorrow
  <2>6. ASSUME NEW s \in TimesOf(today) \cup TimesOf(today + 1), t + WindowAhead <= s
        PROVE  next <= s \/ midnight <= next
    <3>1. CASE s \in TimesOf(today)
      <4>1. PICK r \in later : s = to_epoch(today, r.time)
        BY <1>4, <2>6, <3>1
      <4> QED
        BY <2>1, <4>1
    <3>2. CASE s \in TimesOf(today + 1)
      <4>1. s \in Int /\ midnight <= s
        BY <1>5, <3>2
      <4> QED
        BY <1>1, <2>1, <4>1
    <3> QED
      BY <2>6, <3>1, <3>2
  <2> QED
    BY <1>1, <2>1, <2>4, <2>5, <2>6 DEF FirstAfter, today, midnight
<1>7. CASE later = {} /\ tomorrow # {}
  <2>1. /\ next \in Int /\ \A row \in tomorrow : next <= to_epoch(today + 1, row.time)
        /\ \E row \in tomorrow : next = to_epoch(today + 1, row.time)
    BY <1>1, <1>2, <1>3, <1>7, EarliestFacts
  <2>2. PICK row \in tomorrow : next = to_epoch(today + 1, row.time)
    BY <2>1
  <2>3. row \in Rows /\ today + 1 \in timetable[row.trip].days
    BY <1>2, SearchFacts
  <2>4. next \in TimesOf(today + 1)
    BY <2>2, <2>3 DEF TimesOf
  <2>5. t <= next
    <3>1. midnight <= next
      BY <1>5, <2>4
    <3> HIDE DEF midnight
    <3> QED
      BY <1>1, <2>1, <3>1
  <2> HIDE DEF today, later, midnight, tomorrow
  <2>6. ASSUME NEW s \in TimesOf(today) \cup TimesOf(today + 1), t + WindowAhead <= s
        PROVE  next <= s
    <3>1. s \notin TimesOf(today)
      BY <1>4, <1>7, <2>6
    <3>2. PICK r \in tomorrow : s = to_epoch(today + 1, r.time)
      BY <1>5, <2>6, <3>1
    <3> QED
      BY <2>1, <3>2
  <2> QED
    BY <1>1, <2>1, <2>4, <2>5, <2>6 DEF FirstAfter, today
<1>8. CASE later = {} /\ tomorrow = {}
  <2>1. next = None
    BY <1>3, <1>8
  <2> HIDE DEF today, later, midnight, tomorrow
  <2>2. ASSUME NEW s \in TimesOf(today) \cup TimesOf(today + 1), t + WindowAhead <= s
        PROVE  FALSE
    <3>1. s \notin TimesOf(today)
      BY <1>4, <1>8, <2>2
    <3>2. s \notin TimesOf(today + 1)
      BY <1>5, <1>8
    <3> QED
      BY <2>2, <3>1, <3>2
  <2> QED
    BY <2>1, <2>2 DEF FirstAfter, today
<1> QED
  BY <1>6, <1>7, <1>8

-----------------------------------------------------------------------------
(* The invariant *)

\* What an answer leaves alone, and what it lists.
LEMMA AnswerShape ==
  ASSUME IInv, NEW available \in BOOLEAN, Answer(available)
  PROVE  /\ timetable \in Timetables /\ timetable' = timetable
         /\ now' = now /\ live' = live /\ asked' = None
         /\ Rows' = Rows
         /\ asked \in StartTime..MaxTime /\ asked \in Int
         /\ \E snapshot, selected :
              /\ Listed(asked, snapshot, selected, response'.arrivals)
              /\ response'.generated_at = asked
              /\ response'.snapshot = snapshot
              /\ response'.next_scheduled
                   \in IF selected = {} THEN next_scheduled(asked) ELSE {None}
<1> DEFINE snapshot == IF available THEN live ELSE [t \in Trips |-> Nothing]
<1>1. /\ timetable \in Timetables /\ live \in [Trips -> TripReport]
      /\ asked \in {None} \cup StartTime..MaxTime
  BY DEF IInv, TypeOK
<1>2. timetable' = timetable /\ now' = now /\ live' = live /\ asked' = None /\ asked # None
  BY DEF Answer
<1>3. asked \in StartTime..MaxTime /\ asked \in Int
  BY <1>1, <1>2, ArrivalServiceAssumption
<1>4. Rows' = Rows
  BY <1>2 DEF Rows
<1>5. Nothing \in TripReport
  BY DEF Nothing, TripReport
<1>6. snapshot \in [Trips -> TripReport]
  <2> HIDE DEF Nothing
  <2> QED
    BY <1>1, <1>5
<1>7. PICK selected \in select_arrivals(candidates(asked, snapshot)) :
        \E next \in IF selected = {} THEN next_scheduled(asked) ELSE {None} :
          response' = [generated_at |-> asked,
                       realtime_available |-> available,
                       snapshot |-> snapshot,
                       arrivals |-> {with_track(a, snapshot) : a \in selected},
                       next_scheduled |-> next]
  BY Zenon DEF Answer
<1> HIDE DEF snapshot
<1>8. /\ response'.generated_at = asked /\ response'.snapshot = snapshot
      /\ response'.arrivals = {with_track(a, snapshot) : a \in selected}
      /\ response'.next_scheduled \in IF selected = {} THEN next_scheduled(asked) ELSE {None}
  BY <1>7
<1>9. Listed(asked, snapshot, selected, response'.arrivals)
  BY <1>3, <1>6, <1>8 DEF Listed
<1> QED
  BY <1>1, <1>2, <1>3, <1>4, <1>8, <1>9

\* An answer is what it is to be.
LEMMA AnswerInvariant ==
  ASSUME IInv, NEW available \in BOOLEAN, Answer(available)
  PROVE  IInv'
<1>1. /\ timetable \in Timetables /\ timetable' = timetable
      /\ now' = now /\ live' = live /\ asked' = None
      /\ Rows' = Rows
      /\ asked \in StartTime..MaxTime /\ asked \in Int
  BY AnswerShape
<1> DEFINE arrivals == response'.arrivals
<1>2. PICK snapshot, selected :
        /\ Listed(asked, snapshot, selected, arrivals)
        /\ response'.generated_at = asked
        /\ response'.snapshot = snapshot
        /\ response'.next_scheduled
             \in IF selected = {} THEN next_scheduled(asked) ELSE {None}
  BY AnswerShape
<1>3. TypeOK'
  <2>1. /\ now \in StartTime..MaxTime
        /\ \A t \in Trips : live[t] = Nothing \/ live[t] \in Reports(timetable[t])
        /\ now \in asked..(asked + MaxWait)
    BY DEF IInv, TypeOK, Answer
  <2>2. Cardinality(arrivals) <= MaxArrivals
    BY <1>1, <1>2, ListLength
  <2>3. \A x \in arrivals : x.arrival \in Arrival
    BY <1>1, <1>2, ListedFacts
  <2>4. response'.next_scheduled \in {None} \cup Int
    BY <1>1, <1>2, NextFacts
  <2> QED
    BY <1>1, <1>2, <2>1, <2>2, <2>3, <2>4 DEF TypeOK, Nothing
<1>4. OneEntryPerVisit'
  <2>1. \A x, y \in arrivals :
          (x.arrival.trip = y.arrival.trip /\ x.arrival.seq = y.arrival.seq) => x = y
    BY <1>1, <1>2, OneListedPerVisit
  <2>2. \A x \in arrivals : x.arrival.predicted # None =>
          Names(snapshot[x.arrival.trip].update, x.arrival.predicted, x.arrival.seq, Here)
    BY <1>1, <1>2, ListedIsDue
  <2> QED
    BY <1>2, <2>1, <2>2 DEF OneEntryPerVisit, OwnPrediction, Names
<1>5. DueBusesShown'
  <2>1. ASSUME NEW row \in Rows, NEW date \in timetable[row.trip].days,
               date <= local_today(asked),
               asked - ScheduleLookback <= to_epoch(date, row.time),
               to_epoch(date, row.time) <= asked + WindowAhead,
               asked - WindowPast <= DueIn(snapshot, row, date),
               DueIn(snapshot, row, date) <= asked + WindowAhead,
               ~(/\ snapshot[row.trip].vehicle # None
                 /\ snapshot[row.trip].vehicle > row.seq)
        PROVE  \/ \E x \in arrivals :
                    /\ x.arrival.trip = row.trip /\ x.arrival.seq = row.seq
                    /\ x.arrival.date = date
               \/ /\ Cardinality(arrivals) = MaxArrivals
                  /\ \A x \in arrivals : x.arrival.effective <= DueIn(snapshot, row, date)
    BY <1>1, <1>2, <2>1, DueBusIsListed
  <2>2. ASSUME NEW x \in arrivals
        PROVE  StillDue(x.arrival)'
    <3>1. InWindow(x.arrival, asked) /\ x.arrival \in Arrival
      BY <1>1, <1>2, ListedIsDue, ListedFacts
    <3>2. now \in Int /\ asked <= now /\ now <= asked + MaxWait
      BY <1>1, ArrivalServiceAssumption DEF IInv, TypeOK, Answer
    <3>3. x.arrival.effective \in Int
      BY <3>1 DEF Arrival
    <3> QED
      BY <1>1, <3>1, <3>2, <3>3, ArrivalServiceAssumption, UpcomingAssumption
      DEF InWindow, StillDue
  <2> QED
    BY <1>1, <1>2, <2>1, <2>2 DEF DueBusesShown, FullBefore, DueAt, Passed, DueIn
<1>6. NextIsFirst'
  <2> SUFFICES ASSUME arrivals = {}
               PROVE  FirstAfter(asked, response'.next_scheduled)
    BY <1>1, <1>2 DEF NextIsFirst, FirstAfter, TimesOf
  <2>1. selected = {}
    BY <1>2 DEF Listed
  <2> QED
    BY <1>1, <1>2, <2>1, NextFacts
<1>7. TrackMatchesCount'
  <2>1. ASSUME NEW x \in arrivals, x.arrival.vehicle # None
        PROVE  LET last == x.track[Len(x.track)] IN
               /\ Len(x.track) + last.hidden_before = x.arrival.stops_away + 1
               /\ Len(x.track) <= TrackMaxStops
               /\ last.seq = x.arrival.seq
    BY <1>1, <1>2, <2>1, TrackCounts
  <2> QED
    BY <2>1 DEF TrackMatchesCount
<1>8. TrackTimes'
  <2>1. ASSUME NEW x \in arrivals, x.arrival.vehicle # None, NEW i \in DOMAIN x.track
        PROVE  LET a == x.arrival
                   segment == {st \in ToSet(timetable[a.trip].stops) :
                                 a.vehicle <= st.seq /\ st.seq <= a.seq}
               IN \E st \in segment :
                    /\ st.seq = x.track[i].seq
                    /\ TimedBy(st, x.track[i].at, segment, a.date, snapshot[a.trip].update)
    BY <1>1, <1>2, <2>1, TrackIsTimed
  <2> QED
    BY <1>1, <1>2, <2>1 DEF TrackTimes, TimedBy
<1>9. (live \in [Trips -> TripReport])'
  BY <1>1 DEF IInv
<1> QED
  BY <1>3, <1>4, <1>5, <1>6, <1>7, <1>8, <1>9 DEF IInv, ResponseOK

\* Without a response there is nothing to say of it.
LEMMA NoResponse ==
  ASSUME response' = None
  PROVE  ResponseOK'
BY DEF ResponseOK, OneEntryPerVisit, DueBusesShown, NextIsFirst, TrackMatchesCount, TrackTimes

\* No answer has been given at first.
LEMMA InitInvariant == Init => IInv
<1> SUFFICES ASSUME Init PROVE IInv
  OBVIOUS
<1>1. Nothing \in TripReport
  BY DEF Nothing, TripReport
<1>2. TypeOK
  BY ArrivalServiceAssumption DEF Init, TypeOK
<1>3. live \in [Trips -> TripReport]
  <2> HIDE DEF Nothing
  <2> QED
    BY <1>1 DEF Init
<1>4. ResponseOK
  BY DEF Init, ResponseOK, OneEntryPerVisit, DueBusesShown, NextIsFirst, TrackMatchesCount,
         TrackTimes
<1> QED
  BY <1>2, <1>3, <1>4 DEF IInv

\* Every action keeps the invariant.
LEMMA NextInvariant == IInv /\ [Next]_vars => IInv'
<1> SUFFICES ASSUME IInv, [Next]_vars PROVE IInv'
  OBVIOUS
<1> USE DEF IInv
<1>1. CASE Receive
  <2>1. now \in StartTime..MaxTime /\ now \in now..(now + MaxWait)
    BY ArrivalServiceAssumption DEF TypeOK
  <2>2. TypeOK'
    BY <1>1, <2>1 DEF Receive, TypeOK
  <2> QED
    BY <1>1, <2>2, NoResponse DEF Receive
<1>2. ASSUME NEW available \in BOOLEAN, Answer(available)
      PROVE  IInv'
  BY <1>2, AnswerInvariant
<1>3. ASSUME NEW t \in Trips, Report(t)
      PROVE  IInv'
  <2>1. PICK report \in Reports(timetable[t]) : live' = [live EXCEPT ![t] = report]
    BY <1>3 DEF Report
  <2>2. timetable \in Timetables /\ timetable' = timetable
    BY <1>3 DEF Report, TypeOK
  <2>3. report \in TripReport
    BY <2>2, ArrivalServiceAssumption
  <2>4. live' \in [Trips -> TripReport]
    BY <2>1, <2>3
  <2>5. TypeOK'
    BY <1>3, <2>1 DEF Report, TypeOK
  <2> QED
    BY <1>3, <2>4, <2>5, NoResponse DEF Report
<1>4. CASE Tick
  <2>1. now' \in StartTime..MaxTime /\ (asked # None => now' \in asked..(asked + MaxWait))
    BY <1>4, ArrivalServiceAssumption DEF Tick, TypeOK
  <2>2. TypeOK'
    BY <1>4, <2>1 DEF Tick, TypeOK
  <2> QED
    BY <1>4, <2>2, NoResponse DEF Tick
<1>5. CASE UNCHANGED vars
  <2>1. TypeOK'
    BY <1>5 DEF vars, TypeOK
  <2>2. Rows' = Rows
    BY <1>5 DEF vars, Rows
  <2>3. OneEntryPerVisit' /\ DueBusesShown' /\ NextIsFirst'
    BY <1>5, <2>2 DEF vars, ResponseOK, OneEntryPerVisit, DueBusesShown, NextIsFirst,
                      OwnPrediction, FullBefore, StillDue, DueAt, Passed, TimesOf
  <2>4. TrackMatchesCount' /\ TrackTimes'
    BY <1>5 DEF vars, ResponseOK, TrackMatchesCount, TrackTimes
  <2> QED
    BY <1>5, <2>1, <2>3, <2>4 DEF vars, ResponseOK
<1> QED
  BY <1>1, <1>2, <1>3, <1>4, <1>5 DEF Next

\* It holds all the time.
LEMMA Invariant == Spec => []IInv
BY InitInvariant, NextInvariant, PTL DEF Spec

\* Every arrival that is answered has its times, its status and its place.
THEOREM TypeCorrect == Spec => []TypeOK
<1>1. IInv => TypeOK
  BY DEF IInv
<1> QED
  BY <1>1, Invariant, PTL

\* A visit of a trip to the stop is on the list once, although two service days
\* are searched and both are matched with the one update and vehicle of the trip,
\* and its prediction is for this visit, also where a loop has another.
THEOREM EachVisitOnce == Spec => []OneEntryPerVisit
<1>1. IInv => OneEntryPerVisit
  BY DEF IInv, ResponseOK
<1> QED
  BY <1>1, Invariant, PTL

\* A bus that is due, and scheduled between the lookback and the end of the window
\* on a service day that has begun, is shown, or the list is full of buses due no
\* later: the two windows of text leave nothing out at midnight.  All that is shown
\* is still due when it is sent.
THEOREM DueBusIsShown == Spec => []DueBusesShown
<1>1. IInv => DueBusesShown
  BY DEF IInv, ResponseOK
<1> QED
  BY <1>1, Invariant, PTL

\* An empty list comes with the first bus after the window, if today or tomorrow
\* has one: but a bus of today's that comes after midnight goes before tomorrow's,
\* and what is left of yesterday's is not looked for.
THEOREM EmptyListHasNext == Spec => []NextIsFirst
<1>1. IInv => NextIsFirst
  BY DEF IInv, ResponseOK
<1> QED
  BY <1>1, Invariant, PTL

\* The count of stops away is the number of stops the track shows and hides.
THEOREM CountIsTrack == Spec => []TrackMatchesCount
<1>1. IInv => TrackMatchesCount
  BY DEF IInv, ResponseOK
<1> QED
  BY <1>1, Invariant, PTL

\* The loop that carries the delay along the stops gives each the time that the
\* docstring says.
THEOREM TrackHasDelays == Spec => []TrackTimes
<1>1. IInv => TrackTimes
  BY DEF IInv, ResponseOK
<1> QED
  BY <1>1, Invariant, PTL

=============================================================================
