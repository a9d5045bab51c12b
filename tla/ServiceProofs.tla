---------------------------- MODULE ServiceProofs ----------------------------
(***************************************************************************)
(* The rate limiter and the pages of the AI log, for any number of          *)
(* processes, callers and calls, any limit, window and page size; and the   *)
(* invariant of the whole service.                                          *)
(***************************************************************************)
EXTENDS DownloadsProofs, ProgressProofs, FiniteSetTheorems, WellFoundedInduction

(* A set of natural numbers that is not empty has a smallest one.               *)
LEMMA Smallest ==
  ASSUME NEW T, T \subseteq Nat, T # {}
  PROVE  \E x \in T : \A y \in T : ~ (y < x)
<1> DEFINE R == {ss \in Nat \X Nat : ss[1] < ss[2]}
<1>1. IsWellFoundedOn(R, Nat)
  BY NatLessThanWellFounded, Zenon DEF OpToRel
<1> HIDE DEF R
<1>2. PICK x \in T : \A y \in T : ~ (<<y, x>> \in R)
  BY <1>1, WFMin
<1>3. \A y \in T : ~ (y < x)
  BY <1>2 DEF R
<1> QED
  BY <1>3

-----------------------------------------------------------------------------
(* What _rate_check leaves of a bucket: all in the window, if times are in order. *)
LEMMA PoppedIsFront ==
  ASSUME NEW times \in Seq(0 .. MaxHour)
  PROVE  /\ Popped(times) \in 0 .. Len(times)
         /\ \A k \in 1 .. Popped(times) : ~ InWindow(times[k])
         /\ Popped(times) < Len(times) => InWindow(times[Popped(times) + 1])
<1> DEFINE T == {n \in 0 .. Len(times) : n < Len(times) => InWindow(times[n + 1])}
           Good(n) == /\ \A k \in 1 .. n : ~ InWindow(times[k])
                      /\ n < Len(times) => InWindow(times[n + 1])
<1>1. Len(times) \in T /\ T \subseteq Nat
  OBVIOUS
<1>2. PICK n \in T : \A m \in T : ~ (m < n)
  BY <1>1, Smallest
<1>3. n \in 0 .. Len(times) /\ (n < Len(times) => InWindow(times[n + 1]))
  BY <1>2
<1>4. ASSUME NEW k \in 1 .. n PROVE ~ InWindow(times[k])
  <2>1. k - 1 \in 0 .. Len(times) /\ k - 1 < n /\ k - 1 < Len(times) /\ (k - 1) + 1 = k
    BY <1>3
  <2>2. k - 1 \notin T
    BY <1>2, <2>1
  <2> QED
    BY <2>1, <2>2
<1>5. \E m \in 0 .. Len(times) : Good(m)
  BY <1>3, <1>4
<1>6. Popped(times) = CHOOSE m \in 0 .. Len(times) : Good(m)
  BY DEF Popped
<1> HIDE DEF Good
<1>7. Popped(times) \in 0 .. Len(times) /\ Good(Popped(times))
  BY <1>5, <1>6
<1> QED
  BY <1>7 DEF Good

LEMMA RecentIsEnd ==
  ASSUME NEW times \in Seq(0 .. MaxHour)
  PROVE  LET n == Popped(times) IN
         /\ n \in 0 .. Len(times)
         /\ Recent(times) \in Seq(0 .. MaxHour)
         /\ Len(Recent(times)) = Len(times) - n
         /\ \A k \in 1 .. Len(times) - n : Recent(times)[k] = times[n + k]
         /\ \A k \in 1 .. n : ~ InWindow(times[k])
<1> DEFINE n == Popped(times)
<1>1. n \in 0 .. Len(times) /\ \A k \in 1 .. n : ~ InWindow(times[k])
  BY PoppedIsFront
<1> HIDE DEF n
<1>2. Recent(times) = SubSeq(times, n + 1, Len(times))
  BY DEF Recent, n
<1>3. n + 1 \in Int /\ Len(times) \in Int /\ \A i \in n + 1 .. Len(times) : times[i] \in 0 .. MaxHour
  BY <1>1, HoursAssumption
<1>4. /\ Recent(times) \in Seq(0 .. MaxHour)
      /\ Len(Recent(times)) = IF n + 1 <= Len(times) THEN Len(times) - (n + 1) + 1 ELSE 0
      /\ \A k \in 1 .. Len(times) - (n + 1) + 1 : Recent(times)[k] = times[(n + 1) + k - 1]
  BY <1>2, <1>3, SubSeqProperties
<1>5. Len(Recent(times)) = Len(times) - n
  BY <1>1, <1>4
<1>6. \A k \in 1 .. Len(times) - n : Recent(times)[k] = times[n + k]
  BY <1>1, <1>4
<1> QED
  BY <1>1, <1>4, <1>5, <1>6 DEF n

LEMMA Within ==
  ASSUME NEW from \in Int, NEW width \in Nat, NEW a \in Int, NEW b \in Int,
         a \in from .. from + width, b \in from .. from + width
  PROVE  a - b <= width
OBVIOUS

(* One more call than a window can hold, and it is at the end: what is in the   *)
(* window with it was in the bucket.                                            *)
LEMMA AdmittedFits ==
  ASSUME NEW times \in Seq(0 .. MaxHour), NEW gone \in 0 .. Len(times), NEW from \in Int,
         hour \in 0 .. MaxHour, Len(times) - gone < RateMax,
         \A k \in 1 .. gone : ~ InWindow(times[k]),
         Cardinality({k \in DOMAIN times : times[k] \in from .. from + Window}) <= RateMax
  PROVE  Cardinality({k \in DOMAIN Append(times, hour) :
                        Append(times, hour)[k] \in from .. from + Window}) <= RateMax
<1> DEFINE all == Append(times, hour)
           old == {k \in DOMAIN times : times[k] \in from .. from + Window}
           new == {k \in DOMAIN all : all[k] \in from .. from + Window}
           n   == Len(times)
<1>1. /\ n \in Nat /\ DOMAIN times = 1 .. n /\ DOMAIN all = 1 .. n + 1
      /\ \A k \in 1 .. n : all[k] = times[k] /\ times[k] \in 0 .. MaxHour
      /\ all[n + 1] = hour
  BY HoursAssumption
<1>2. RateMax \in Nat /\ Window \in Nat /\ MaxHour \in Int
  BY RateAssumption, HoursAssumption
<1> HIDE DEF all, n
<1>3. CASE hour \notin from .. from + Window
  <2>1. new = old
    BY <1>1, <1>3
  <2> QED
    BY <2>1 DEF all
<1>4. CASE hour \in from .. from + Window
  <2>1. ASSUME NEW k \in new PROVE k \in gone + 1 .. n + 1
    <3>1. k \in 1 .. n + 1 /\ all[k] \in from .. from + Window
      BY <1>1
    <3>2. CASE k \in 1 .. gone
      <4>1. k \in 1 .. n /\ times[k] \in from .. from + Window /\ times[k] \in 0 .. MaxHour
        BY <1>1, <3>1, <3>2 DEF n
      <4>2. hour \in Int /\ times[k] \in Int
        BY <1>2, <1>4, <4>1
      <4>3. hour - times[k] <= Window
        BY <1>2, <1>4, <4>1, <4>2, Within
      <4> QED
        BY <3>2, <4>3 DEF InWindow
    <3> QED
      BY <1>1, <3>1, <3>2 DEF n
  <2>2. new \subseteq gone + 1 .. n + 1
    BY <2>1
  <2>3. gone + 1 \in Int /\ n + 1 \in Int /\ gone <= n /\ n - gone < RateMax
    BY <1>1 DEF n
  <2> HIDE DEF new
  <2>4. /\ IsFiniteSet(gone + 1 .. n + 1)
        /\ Cardinality(gone + 1 .. n + 1) = IF gone + 1 > n + 1 THEN 0 ELSE (n + 1) - (gone + 1) + 1
    BY <2>3, FS_Interval
  <2>5. IsFiniteSet(new) /\ Cardinality(new) <= Cardinality(gone + 1 .. n + 1)
    BY <2>2, <2>4, FS_Subset
  <2>6. Cardinality(new) \in Nat
    BY <2>5, FS_CardinalityType
  <2>7. Cardinality(gone + 1 .. n + 1) <= RateMax
    <3>1. ~ (gone + 1 > n + 1) /\ (n + 1) - (gone + 1) + 1 <= RateMax
      BY <1>1, <1>2, <2>3
    <3> QED
      BY <2>4, <3>1
  <2>8. Cardinality(new) <= RateMax
    BY <1>2, <2>3, <2>4, <2>5, <2>6, <2>7
  <2> QED
    BY <2>8 DEF new, all
<1> QED
  BY <1>3, <1>4

-----------------------------------------------------------------------------
(* The order of the log. A row that is appended can only push others back.      *)
LEMMA PlaceIsNumber ==
  ASSUME AiTypeOK, NEW id
  PROVE  /\ IsFiniteSet(DOMAIN log) /\ Cardinality(DOMAIN log) = Len(log)
         /\ Place(id) \in Nat \ {0}
<1>1. DOMAIN log = 1 .. Len(log) /\ Len(log) \in Nat
  BY DEF AiTypeOK
<1>2. IsFiniteSet(1 .. Len(log)) /\ Cardinality(1 .. Len(log)) = Len(log)
  <2>1. IsFiniteSet(1 .. Len(log)) /\ Cardinality(1 .. Len(log)) = IF 1 > Len(log) THEN 0 ELSE Len(log) - 1 + 1
    BY <1>1, FS_Interval
  <2> QED
    BY <1>1, <2>1
<1> DEFINE T == {i \in DOMAIN log : Newer(i, id)}
<1>3. T \subseteq DOMAIN log
  OBVIOUS
<1>4. Cardinality(T) \in Nat
  BY <1>1, <1>2, <1>3, FS_Subset, FS_CardinalityType
<1> HIDE DEF T
<1>5. Cardinality(T) + 1 \in Nat \ {0}
  BY <1>4
<1> QED
  BY <1>1, <1>2, <1>5 DEF Place, T

LEMMA PlaceWithinLog ==
  ASSUME AiTypeOK, NEW id \in DOMAIN log
  PROVE  Place(id) <= Len(log)
<1> DEFINE T == {i \in DOMAIN log : Newer(i, id)}
<1>1. IsFiniteSet(DOMAIN log) /\ Cardinality(DOMAIN log) = Len(log)
  BY PlaceIsNumber
<1>2. ~ Newer(id, id)
  <2> DEFINE Row == [feature : Routes, success : BOOLEAN, at : 0 .. MaxHour]
  <2>1. log \in Seq(Row)
    BY DEF AiTypeOK
  <2> HIDE DEF Row
  <2>2. log[id] \in Row /\ id \in 1 .. Len(log)
    BY <2>1
  <2>3. log[id].at \in Int /\ id \in Int
    BY <2>1, <2>2, HoursAssumption DEF Row
  <2> QED
    BY <2>3 DEF Newer
<1>3. T \subseteq DOMAIN log /\ id \notin T
  BY <1>2
<1> HIDE DEF T
<1>4. IsFiniteSet(T) /\ Cardinality(T) <= Cardinality(DOMAIN log)
      /\ (Cardinality(DOMAIN log) = Cardinality(T) => DOMAIN log = T)
  BY <1>1, <1>3, FS_Subset
<1>5. Cardinality(T) \in Nat /\ Len(log) \in Nat /\ Cardinality(T) # Len(log)
  BY <1>1, <1>3, <1>4, FS_CardinalityType DEF AiTypeOK
<1>6. Cardinality(T) + 1 <= Len(log)
  BY <1>1, <1>4, <1>5
<1> QED
  BY <1>6 DEF Place, T

LEMMA AppendPushesBack ==
  ASSUME AiTypeOK, AiTypeOK', NEW id \in DOMAIN log, DOMAIN log \subseteq DOMAIN log',
         \A i \in DOMAIN log : log'[i] = log[i]
  PROVE  Place(id) <= Place(id)'
<1> DEFINE T == {i \in DOMAIN log : Newer(i, id)}
           U == {i \in DOMAIN log' : Newer(i, id)'}
<1>1. T \subseteq U
  BY DEF Newer
<1>2. IsFiniteSet(DOMAIN log') /\ U \subseteq DOMAIN log'
  <2>1. DOMAIN log' = 1 .. Len(log') /\ Len(log') \in Nat
    BY DEF AiTypeOK
  <2>2. IsFiniteSet(1 .. Len(log'))
    BY <2>1, FS_Interval
  <2> QED
    BY <2>1, <2>2
<1> HIDE DEF T, U
<1>3. IsFiniteSet(U)
  BY <1>2, FS_Subset
<1>4. IsFiniteSet(T) /\ Cardinality(T) <= Cardinality(U)
  BY <1>1, <1>3, FS_Subset
<1>5. Cardinality(T) \in Nat /\ Cardinality(U) \in Nat
  BY <1>3, <1>4, FS_CardinalityType
<1>6. Cardinality(T) + 1 <= Cardinality(U) + 1
  BY <1>4, <1>5
<1> QED
  BY <1>6 DEF Place, T, U

-----------------------------------------------------------------------------
(* One bucket: what BucketsOK and RateBounded say of it.                        *)
BucketOK(times, bucket) ==
  LET gone == Len(times) - Len(bucket) IN
  /\ gone \in Nat /\ Len(bucket) <= RateMax
  /\ \A k \in DOMAIN bucket : bucket[k] = times[gone + k]
  /\ \A k \in 1 .. gone : ~ InWindow(times[k])
  /\ \A k \in DOMAIN times : times[k] <= hour /\ \A j \in 1 .. k : times[j] <= times[k]

Fits(times) ==
  \A from \in 0 .. MaxHour :
    Cardinality({k \in DOMAIN times : times[k] \in from .. from + Window}) <= RateMax

LEMMA BucketByBucket ==
  /\ BucketsOK <=> \A p \in Processes, name \in BucketNames : BucketOK(admitted[p][name], buckets[p][name])
  /\ RateBounded <=> \A p \in Processes, name \in BucketNames : Fits(admitted[p][name])
BY DEF BucketsOK, RateBounded, BucketOK, Fits

(* A call at a bucket that is in order leaves it in order.                      *)
LEMMA CheckedBucket ==
  ASSUME hour \in 0 .. MaxHour, NEW times \in Seq(0 .. MaxHour), NEW bucket \in Seq(0 .. MaxHour),
         BucketOK(times, bucket), Fits(times)
  PROVE  LET recent == Recent(bucket) IN
         /\ recent \in Seq(0 .. MaxHour)
         /\ Admits(recent) => /\ Append(recent, hour) \in Seq(0 .. MaxHour)
                              /\ Append(times, hour) \in Seq(0 .. MaxHour)
                              /\ BucketOK(Append(times, hour), Append(recent, hour))
                              /\ Fits(Append(times, hour))
         /\ ~ Admits(recent) => BucketOK(times, recent)
<1> DEFINE recent == Recent(bucket)
           n      == Popped(bucket)
           gone   == Len(times) - Len(bucket)
<1>1. /\ n \in 0 .. Len(bucket) /\ recent \in Seq(0 .. MaxHour) /\ Len(recent) = Len(bucket) - n
      /\ \A k \in 1 .. Len(bucket) - n : recent[k] = bucket[n + k]
      /\ \A k \in 1 .. n : ~ InWindow(bucket[k])
  BY RecentIsEnd
<1> HIDE DEF recent, n
<1>2. /\ RateMax \in Nat /\ MaxHour \in Nat
      /\ Len(times) \in Nat /\ Len(bucket) \in Nat /\ Len(recent) \in Nat
      /\ DOMAIN times = 1 .. Len(times) /\ DOMAIN bucket = 1 .. Len(bucket)
      /\ DOMAIN recent = 1 .. Len(recent)
  BY <1>1, RateAssumption, HoursAssumption
<1>3. /\ gone \in Nat /\ Len(bucket) <= RateMax
      /\ \A k \in 1 .. Len(bucket) : bucket[k] = times[gone + k]
      /\ \A k \in 1 .. gone : ~ InWindow(times[k])
      /\ \A k \in 1 .. Len(times) : times[k] <= hour /\ \A j \in 1 .. k : times[j] <= times[k]
  BY <1>2 DEF BucketOK
<1>4. Len(times) = gone + Len(bucket)
  BY <1>2
<1> HIDE DEF gone
<1>5. /\ gone + n \in 0 .. Len(times) /\ Len(times) - (gone + n) = Len(recent)
      /\ Len(times) = (gone + n) + Len(recent)
  BY <1>1, <1>2, <1>3, <1>4
<1>6. \A k \in 1 .. Len(recent) : recent[k] = times[(gone + n) + k]
  <2>1. ASSUME NEW k \in 1 .. Len(recent) PROVE recent[k] = times[(gone + n) + k]
    <3>a. n + k \in 1 .. Len(bucket)
      <4>1. n \in 0 .. Len(bucket) /\ Len(bucket) \in Nat /\ k \in 1 .. Len(bucket) - n
        BY <1>1, <1>2
      <4> QED
        BY <4>1
    <3>b. recent[k] = bucket[n + k]
      BY <1>1
    <3>1. n + k \in 1 .. Len(bucket) /\ recent[k] = bucket[n + k]
      BY <3>a, <3>b
    <3>2. bucket[n + k] = times[gone + (n + k)] /\ gone + (n + k) = (gone + n) + k
      BY <1>1, <1>2, <1>3, <3>1
    <3> QED
      BY <3>1, <3>2
  <2> QED
    BY <2>1
<1>7. \A k \in 1 .. gone + n : ~ InWindow(times[k])
  <2>1. ASSUME NEW k \in 1 .. gone + n, ~ (k \in 1 .. gone) PROVE ~ InWindow(times[k])
    <3>1. k - gone \in 1 .. n /\ k - gone \in 1 .. Len(bucket) /\ gone + (k - gone) = k
      BY <1>1, <1>2, <1>3, <2>1
    <3>2. bucket[k - gone] = times[k] /\ ~ InWindow(bucket[k - gone])
      BY <1>1, <1>3, <3>1
    <3> QED
      BY <3>2
  <2> QED
    BY <1>3, <2>1
<1>8. ASSUME ~ Admits(recent) PROVE BucketOK(times, recent)
  <2>1. Len(times) - Len(recent) = gone + n /\ Len(recent) <= RateMax /\ gone + n \in Nat
    BY <1>1, <1>2, <1>3, <1>5
  <2> QED
    BY <1>2, <1>3, <1>6, <1>7, <2>1 DEF BucketOK
<1>9. ASSUME Admits(recent)
      PROVE  /\ Append(recent, hour) \in Seq(0 .. MaxHour) /\ Append(times, hour) \in Seq(0 .. MaxHour)
             /\ BucketOK(Append(times, hour), Append(recent, hour)) /\ Fits(Append(times, hour))
  <2> DEFINE T == Append(times, hour)
             B == Append(recent, hour)
  <2>1. /\ T \in Seq(0 .. MaxHour) /\ B \in Seq(0 .. MaxHour)
        /\ Len(T) = Len(times) + 1 /\ Len(B) = Len(recent) + 1
        /\ DOMAIN T = 1 .. Len(times) + 1 /\ DOMAIN B = 1 .. Len(recent) + 1
        /\ \A k \in 1 .. Len(times) : T[k] = times[k]
        /\ \A k \in 1 .. Len(recent) : B[k] = recent[k]
        /\ T[Len(times) + 1] = hour /\ B[Len(recent) + 1] = hour
    BY <1>1, <1>2
  <2> HIDE DEF T, B
  <2>2. Len(T) - Len(B) = gone + n /\ Len(B) <= RateMax /\ gone + n \in Nat
    <3>1. Len(recent) < RateMax
      BY <1>9 DEF Admits
    <3>2. Len(T) = (gone + n) + Len(recent) + 1 /\ Len(B) = Len(recent) + 1
      BY <1>5, <2>1
    <3>3. gone + n \in Nat
      BY <1>1, <1>3
    <3>4. Len(T) - Len(B) = gone + n
      BY <1>2, <3>2, <3>3
    <3>5. Len(B) <= RateMax
      BY <1>2, <3>1, <3>2
    <3> QED
      BY <3>3, <3>4, <3>5
  <2>3. ASSUME NEW k \in DOMAIN B PROVE B[k] = T[(gone + n) + k]
    <3>1. CASE k \in 1 .. Len(recent)
      <4>1. (gone + n) + k \in 1 .. Len(times)
        BY <1>2, <1>5, <3>1
      <4> QED
        BY <1>6, <2>1, <3>1, <4>1
    <3>2. CASE k = Len(recent) + 1
      <4>1. (gone + n) + k = Len(times) + 1
        BY <1>2, <1>3, <1>5, <3>2
      <4> QED
        BY <2>1, <3>2, <4>1
    <3> QED
      BY <1>2, <2>1, <3>1, <3>2
  <2>4. \A k \in 1 .. gone + n : ~ InWindow(T[k])
    <3>1. \A k \in 1 .. gone + n : k \in 1 .. Len(times)
      BY <1>2, <1>5
    <3> QED
      BY <1>7, <2>1, <3>1
  <2>5. ASSUME NEW k \in DOMAIN T PROVE T[k] <= hour /\ \A j \in 1 .. k : T[j] <= T[k]
    <3>1. CASE k \in 1 .. Len(times)
      <4>1. \A j \in 1 .. k : j \in 1 .. Len(times)
        BY <1>2, <3>1
      <4> QED
        BY <1>3, <2>1, <3>1, <4>1
    <3>2. CASE k = Len(times) + 1
      <4>1. \A j \in 1 .. k : j \in 1 .. Len(times) \/ j = k
        BY <1>2, <3>2
      <4>2. hour <= hour
        BY <1>2
      <4> QED
        BY <1>3, <2>1, <3>2, <4>1, <4>2
    <3> QED
      BY <1>2, <2>1, <3>1, <3>2
  <2>6. BucketOK(T, B)
    BY <2>2, <2>3, <2>4, <2>5 DEF BucketOK
  <2>7. Fits(T)
    <3>1. ASSUME NEW from \in 0 .. MaxHour
          PROVE  Cardinality({k \in DOMAIN T : T[k] \in from .. from + Window}) <= RateMax
      <4>1. from \in Int /\ gone + n \in 0 .. Len(times) /\ Len(times) - (gone + n) < RateMax
        BY <1>2, <1>5, <1>9 DEF Admits
      <4>2. Cardinality({k \in DOMAIN times : times[k] \in from .. from + Window}) <= RateMax
        BY DEF Fits
      <4> QED
        BY <1>7, <4>1, <4>2, AdmittedFits DEF T
    <3> QED
      BY <3>1 DEF Fits
  <2> QED
    BY <2>1, <2>6, <2>7 DEF T, B
<1> QED
  BY <1>1, <1>8, <1>9 DEF recent

-----------------------------------------------------------------------------
(* Calls.                                                                       *)
LEMMA RateCheckStep ==
  ASSUME AiInv, NEW p \in Processes, NEW caller \in Callers, NEW feature \in Routes,
         RateCheck(p, caller, feature)
  PROVE  AiInv'
<1> DEFINE name   == Bucket[caller]
           recent == Recent(buckets[p][name])
           B      == [Processes -> [BucketNames -> Seq(0 .. MaxHour)]]
<1>1. name \in BucketNames
  BY DEF BucketNames
<1>2. hour \in 0 .. MaxHour /\ buckets \in B /\ admitted \in B
  BY DEF AiInv, AiTypeOK
<1>3. /\ buckets[p][name] \in Seq(0 .. MaxHour) /\ admitted[p][name] \in Seq(0 .. MaxHour)
      /\ BucketOK(admitted[p][name], buckets[p][name]) /\ Fits(admitted[p][name])
  BY <1>1, <1>2, BucketByBucket DEF AiInv
<1>4. /\ recent \in Seq(0 .. MaxHour)
      /\ Admits(recent) => /\ Append(recent, hour) \in Seq(0 .. MaxHour)
                           /\ Append(admitted[p][name], hour) \in Seq(0 .. MaxHour)
                           /\ BucketOK(Append(admitted[p][name], hour), Append(recent, hour))
                           /\ Fits(Append(admitted[p][name], hour))
      /\ ~ Admits(recent) => BucketOK(admitted[p][name], recent)
  BY <1>2, <1>3, CheckedBucket
<1> DEFINE newB == IF Admits(recent) THEN Append(recent, hour) ELSE recent
           newT == IF Admits(recent) THEN Append(admitted[p][name], hour) ELSE admitted[p][name]
<1>5. /\ buckets' = [buckets EXCEPT ![p][name] = newB]
      /\ admitted' = [admitted EXCEPT ![p][name] = newT]
      /\ serving' = [serving EXCEPT ![p] = IF Admits(recent) /\ caller \in Known THEN feature ELSE @]
      /\ UNCHANGED <<hour, log, reader>>
  BY DEF RateCheck
<1>6. newB \in Seq(0 .. MaxHour) /\ newT \in Seq(0 .. MaxHour) /\ BucketOK(newT, newB) /\ Fits(newT)
  BY <1>3, <1>4
<1> HIDE DEF newB, newT, recent, name
<1>7. \A q \in Processes, other \in BucketNames :
        /\ buckets'[q][other] = IF q = p /\ other = name THEN newB ELSE buckets[q][other]
        /\ admitted'[q][other] = IF q = p /\ other = name THEN newT ELSE admitted[q][other]
  BY <1>1, <1>2, <1>5
<1>8. AiTypeOK'
  <2>1. buckets' \in B /\ admitted' \in B
    BY <1>1, <1>2, <1>5, <1>6
  <2>2. serving' \in [Processes -> Routes \cup {"none"}]
    BY <1>5 DEF AiInv, AiTypeOK
  <2> QED
    BY <1>5, <2>1, <2>2 DEF AiInv, AiTypeOK
<1>9. \A q \in Processes, other \in BucketNames :
        BucketOK(admitted'[q][other], buckets'[q][other]) /\ Fits(admitted'[q][other])
  <2>1. \A q \in Processes, other \in BucketNames :
          BucketOK(admitted[q][other], buckets[q][other]) /\ Fits(admitted[q][other])
    BY BucketByBucket DEF AiInv
  <2> QED
    BY <1>6, <1>7, <2>1
<1>10. BucketsOK' /\ RateBounded'
  <2>1. ASSUME NEW q \in Processes, NEW other \in BucketNames
        PROVE  BucketOK(admitted[q][other], buckets[q][other])'
    <3>1. BucketOK(admitted'[q][other], buckets'[q][other])
      BY <1>9
    <3>2. \A at : InWindow(at)' <=> InWindow(at)
      BY <1>5 DEF InWindow
    <3>3. hour' = hour
      BY <1>5
    <3> QED
      BY <3>1, <3>2, <3>3, Zenon DEF BucketOK
  <2>2. BucketsOK'
    BY <2>1 DEF BucketsOK, BucketOK
  <2>3. RateBounded'
    BY <1>9 DEF RateBounded, Fits
  <2> QED
    BY <2>2, <2>3
<1>11. ReaderOK' /\ PagesMissNothing'
  BY <1>5 DEF AiInv, ReaderOK, PagesMissNothing, Place, Newer
<1> QED
  BY <1>8, <1>10, <1>11 DEF AiInv

(* What has left the window does not come back.                                 *)
LEMMA BucketLater ==
  ASSUME NEW times \in Seq(0 .. MaxHour), NEW bucket \in Seq(0 .. MaxHour), NEW now \in 0 .. MaxHour,
         hour = now, hour' = now + 1, BucketOK(times, bucket)
  PROVE  BucketOK(times, bucket)'
<1> DEFINE gone == Len(times) - Len(bucket)
<1>1. /\ gone \in Nat /\ Len(bucket) <= RateMax
      /\ \A k \in DOMAIN bucket : bucket[k] = times[gone + k]
      /\ \A k \in 1 .. gone : ~ InWindow(times[k])
      /\ \A k \in DOMAIN times : times[k] <= hour /\ \A j \in 1 .. k : times[j] <= times[k]
  BY DEF BucketOK
<1>2. gone \in 0 .. Len(times) /\ DOMAIN times = 1 .. Len(times) /\ Len(times) \in Nat
  BY <1>1
<1>3. (\A k \in 1 .. Len(times) : times[k] \in Int) /\ now \in Int /\ Window \in Int
  BY RateAssumption, HoursAssumption
<1> HIDE DEF gone
<1>4. \A k \in 1 .. gone : ~ InWindow(times[k])'
  <2>1. ASSUME NEW k \in 1 .. gone PROVE ~ InWindow(times[k])'
    <3>1. k \in 1 .. Len(times) /\ ~ (now - times[k] <= Window)
      BY <1>1, <1>2 DEF InWindow
    <3>2. times[k] \in Int /\ ~ (now + 1 - times[k] <= Window)
      BY <1>3, <3>1
    <3>3. ~ (hour' - times[k] <= Window)
      BY <1>3, <3>2
    <3> QED
      BY <3>3 DEF InWindow
  <2> QED
    BY <2>1
<1>5. \A k \in DOMAIN times : times[k] <= hour' /\ \A j \in 1 .. k : times[j] <= times[k]
  BY <1>1, <1>2, <1>3
<1> QED
  BY <1>1, <1>4, <1>5 DEF BucketOK, gone

LEMMA HourStep ==
  ASSUME AiInv, HourPasses
  PROVE  AiInv'
<1>1. /\ hour' = hour + 1 /\ hour \in 0 .. MaxHour /\ hour' \in 0 .. MaxHour
      /\ UNCHANGED <<buckets, serving, log, reader, admitted>>
  BY HoursAssumption DEF HourPasses, AiInv, AiTypeOK
<1>2. AiTypeOK'
  BY <1>1 DEF AiInv, AiTypeOK
<1>3. BucketsOK'
  <2>1. ASSUME NEW p \in Processes, NEW name \in BucketNames
        PROVE  BucketOK(admitted[p][name], buckets[p][name])'
    <3>1. /\ admitted[p][name] \in Seq(0 .. MaxHour) /\ buckets[p][name] \in Seq(0 .. MaxHour)
          /\ BucketOK(admitted[p][name], buckets[p][name])
      BY BucketByBucket DEF AiInv, AiTypeOK
    <3>2. ASSUME NEW times \in Seq(0 .. MaxHour), NEW bucket \in Seq(0 .. MaxHour), BucketOK(times, bucket)
          PROVE  BucketOK(times, bucket)'
      BY <1>1, <3>2, BucketLater
    <3> QED
      BY <1>1, <3>1, <3>2 DEF BucketOK
  <2> QED
    BY <2>1 DEF BucketsOK, BucketOK
<1>4. RateBounded' /\ ReaderOK' /\ PagesMissNothing'
  BY <1>1 DEF AiInv, RateBounded, ReaderOK, PagesMissNothing, Place, Newer
<1> QED
  BY <1>2, <1>3, <1>4 DEF AiInv

-----------------------------------------------------------------------------
(* Answers and the log.                                                         *)
Rows == [feature : Routes, success : BOOLEAN, at : 0 .. MaxHour]

LEMMA ReaderTypes ==
  ASSUME AiTypeOK
  PROVE  /\ reader.page \in Nat /\ reader.total \in Nat /\ reader.rows \in Nat
         /\ reader.seen \subseteq DOMAIN log /\ reader.before \subseteq DOMAIN log
         /\ log \in Seq(Rows) /\ Limit \in Nat \ {0} /\ reader.page * Limit \in Nat
BY RateAssumption DEF AiTypeOK, Rows

LEMMA BucketsStay ==
  ASSUME BucketsOK, RateBounded, UNCHANGED <<hour, buckets, admitted>>
  PROVE  BucketsOK' /\ RateBounded'
BY DEF BucketsOK, RateBounded, InWindow

LEMMA AnswerStep ==
  ASSUME AiInv, NEW p \in Processes, AnswerCall(p)
  PROVE  AiInv'
<1>1. hour \in 0 .. MaxHour /\ serving \in [Processes -> Routes \cup {"none"}] /\ log \in Seq(Rows)
  BY DEF AiInv, AiTypeOK, Rows
<1>2. UNCHANGED <<hour, buckets, reader, admitted>> /\ serving' \in [Processes -> Routes \cup {"none"}]
  BY <1>1 DEF AnswerCall
<1>3. log' = log \/ \E row \in Rows : log' = Append(log, row)
  <2>1. PICK reply \in Replies, preview \in BOOLEAN, failed \in BOOLEAN, lost \in BOOLEAN, late \in 0 .. 1 :
          /\ serving[p] # "none" /\ late <= hour
          /\ \/ log' = log
             \/ \E s \in Logged(serving[p], reply, preview, failed) :
                  log' = Append(log, [feature |-> serving[p], success |-> s, at |-> hour - late])
    BY DEF AnswerCall
  <2>2. serving[p] \in Routes /\ hour - late \in 0 .. MaxHour
    BY <1>1, <2>1, HoursAssumption
  <2>3. Logged(serving[p], reply, preview, failed) \subseteq BOOLEAN
    BY DEF Logged
  <2>4. ASSUME NEW s \in Logged(serving[p], reply, preview, failed)
        PROVE  [feature |-> serving[p], success |-> s, at |-> hour - late] \in Rows
    BY <2>2, <2>3 DEF Rows
  <2> QED
    BY <2>1, <2>4
<1>4. /\ log' \in Seq(Rows) /\ DOMAIN log \subseteq DOMAIN log'
      /\ \A id \in DOMAIN log : log'[id] = log[id]
  <2> HIDE DEF Rows
  <2> QED
    BY <1>1, <1>3
<1>5. AiTypeOK'
  <2>1. \A field \in {reader.seen, reader.before} : field \subseteq DOMAIN log'
    BY <1>4, ReaderTypes DEF AiInv
  <2> QED
    BY <1>2, <1>4, <2>1 DEF AiInv, AiTypeOK, Rows
<1>6. ReaderOK'
  <2>1. ASSUME NEW id \in reader.before, id \notin reader.seen
        PROVE  reader.page * Limit < Place(id)'
    <3>1. id \in DOMAIN log /\ reader.page * Limit < Place(id) /\ reader.page * Limit \in Nat
      BY <2>1, ReaderTypes DEF AiInv, ReaderOK
    <3>2. Place(id) <= Place(id)'
      BY <1>4, <1>5, <3>1, AppendPushesBack DEF AiInv
    <3>3. Place(id) \in Nat
      BY PlaceIsNumber DEF AiInv
    <3>4. Place(id)' \in Nat
      <4> DEFINE T == {i \in DOMAIN log' : Newer(i, id)'}
      <4>1. DOMAIN log' = 1 .. Len(log') /\ Len(log') \in Nat
        BY <1>4
      <4>2. IsFiniteSet(DOMAIN log') /\ T \subseteq DOMAIN log'
        BY <4>1, FS_Interval
      <4> HIDE DEF T
      <4>3. Cardinality(T) \in Nat
        BY <4>2, FS_Subset, FS_CardinalityType
      <4>4. Cardinality(T) + 1 \in Nat
        BY <4>3
      <4> QED
        BY <4>4 DEF Place, T
    <3> QED
      BY <3>1, <3>2, <3>3, <3>4
  <2> QED
    BY <1>2, <2>1 DEF AiInv, ReaderOK
<1>7. BucketsOK' /\ RateBounded'
  BY <1>2, BucketsStay DEF AiInv
<1>8. PagesMissNothing'
  BY <1>2 DEF AiInv, PagesMissNothing
<1> QED
  BY <1>5, <1>6, <1>7, <1>8 DEF AiInv

LEMMA CountStep ==
  ASSUME AiInv, CountRows
  PROVE  AiInv'
<1>1. /\ UNCHANGED <<hour, buckets, serving, log, admitted>>
      /\ reader' = [reader EXCEPT !.counting = TRUE, !.rows = Len(log),
                                  !.total = (Len(log) + Limit - 1) \div Limit,
                                  !.before = IF reader.page = 0 THEN DOMAIN log ELSE @]
  BY DEF CountRows
<1>2. Len(log) \in Nat /\ (Len(log) + Limit - 1) \div Limit \in Nat
  <2>1. Len(log) \in Nat /\ Len(log) + Limit - 1 \in Nat /\ Limit \in Nat \ {0}
    BY ReaderTypes DEF AiInv
  <2> QED
    BY <2>1, Division
<1>3. AiTypeOK'
  BY <1>1, <1>2 DEF AiInv, AiTypeOK
<1>4. ReaderOK'
  <2>1. /\ reader'.page = reader.page /\ reader'.seen = reader.seen
        /\ reader'.before = IF reader.page = 0 THEN DOMAIN log ELSE reader.before
        /\ reader'.total = (reader'.rows + Limit - 1) \div Limit
    BY <1>1 DEF AiInv, AiTypeOK
  <2>2. \A id : Place(id)' = Place(id) /\ Place(id) \in Nat \ {0}
    BY <1>1, PlaceIsNumber DEF AiInv, Place, Newer
  <2>3. reader.page = 0 => reader.page * Limit = 0
    BY ReaderTypes DEF AiInv
  <2>4. ASSUME NEW id \in reader'.before PROVE id \in reader'.seen \/ reader'.page * Limit < Place(id)'
    BY <2>1, <2>2, <2>3 DEF AiInv, ReaderOK
  <2> QED
    BY <2>1, <2>4 DEF ReaderOK
<1>5. BucketsOK' /\ RateBounded'
  BY <1>1, BucketsStay DEF AiInv
<1>6. PagesMissNothing'
  BY <1>1 DEF AiInv, AiTypeOK, PagesMissNothing
<1> QED
  BY <1>3, <1>4, <1>5, <1>6 DEF AiInv

LEMMA SelectStep ==
  ASSUME AiInv, SelectRows
  PROVE  AiInv'
<1>1. /\ UNCHANGED <<hour, buckets, serving, log, admitted>> /\ reader.counting
      /\ reader' = [reader EXCEPT !.counting = FALSE, !.page = @ + 1,
                                  !.exact = (reader.rows = Len(log)),
                                  !.seen = @ \cup PageIds(reader.page + 1)]
  BY DEF SelectRows
<1>2. PageIds(reader.page + 1) \subseteq DOMAIN log
  BY DEF PageIds
<1>3. AiTypeOK'
  <2>1. reader \in [page : Nat, total : Nat, rows : Nat, counting : BOOLEAN, exact : BOOLEAN,
                    seen : SUBSET DOMAIN log, before : SUBSET DOMAIN log]
    BY DEF AiInv, AiTypeOK
  <2>2. /\ reader.page + 1 \in Nat /\ (reader.rows = Len(log)) \in BOOLEAN
        /\ reader.seen \cup PageIds(reader.page + 1) \in SUBSET DOMAIN log
    BY <1>2, <2>1
  <2>3. reader' \in [page : Nat, total : Nat, rows : Nat, counting : BOOLEAN, exact : BOOLEAN,
                     seen : SUBSET DOMAIN log, before : SUBSET DOMAIN log]
    BY <1>1, <2>1, <2>2
  <2> QED
    BY <1>1, <2>3 DEF AiInv, AiTypeOK
<1>4. /\ reader'.page = reader.page + 1 /\ reader'.before = reader.before /\ ~ reader'.counting
      /\ reader'.seen = reader.seen \cup PageIds(reader.page + 1)
      /\ reader'.total = reader.total /\ reader'.exact = (reader.rows = Len(log))
  BY <1>1 DEF AiInv, AiTypeOK
<1>5. \A id : Place(id)' = Place(id) /\ Place(id) \in Nat
  BY <1>1, PlaceIsNumber DEF AiInv, Place, Newer
<1>6. /\ Offset(reader.page + 1) = reader.page * Limit /\ reader.page * Limit \in Nat
      /\ Offset(reader.page + 1) + Limit = (reader.page + 1) * Limit
      /\ reader.page \in Nat /\ Limit \in Nat \ {0}
  BY ReaderTypes DEF AiInv, Offset
<1>7. ASSUME NEW id \in reader.before, id \notin reader'.seen
      PROVE  id \in DOMAIN log /\ (reader.page + 1) * Limit < Place(id)
  <2>1. id \in DOMAIN log /\ reader.page * Limit < Place(id) /\ id \notin PageIds(reader.page + 1)
    BY <1>4, <1>7, ReaderTypes DEF AiInv, ReaderOK
  <2>2. ~ (Place(id) <= Offset(reader.page + 1) + Limit)
    BY <1>6, <2>1 DEF PageIds
  <2>3. (reader.page + 1) * Limit \in Nat
    BY <1>6
  <2> QED
    BY <1>5, <1>6, <2>1, <2>2, <2>3
<1>8. ReaderOK'
  BY <1>4, <1>5, <1>7 DEF ReaderOK
<1>9. PagesMissNothing'
  <2>1. SUFFICES ASSUME reader.page + 1 >= reader.total, reader.rows = Len(log),
                        NEW id \in reader.before, id \notin reader'.seen
                 PROVE  FALSE
    BY <1>4 DEF PagesMissNothing
  <2>2. Place(id) <= Len(log) /\ (reader.page + 1) * Limit < Place(id)
    BY <1>7, <2>1, PlaceWithinLog DEF AiInv
  <2>3. reader.total = (Len(log) + Limit - 1) \div Limit /\ Len(log) \in Nat /\ reader.total \in Nat
    BY <1>1, <2>1, ReaderTypes DEF AiInv, ReaderOK
  <2>4. Len(log) + Limit - 1 < Limit * reader.total + Limit
    <3>1. Len(log) + Limit - 1 \in Nat
      BY <1>6, <2>3
    <3> QED
      BY <1>6, <2>3, <3>1, Division
  <2>5. Len(log) <= Limit * reader.total
    BY <1>6, <2>3, <2>4
  <2>6. Limit * reader.total <= (reader.page + 1) * Limit
    BY <1>6, <2>1, <2>3
  <2> QED
    BY <1>5, <1>6, <2>2, <2>3, <2>5, <2>6
<1>10. BucketsOK' /\ RateBounded'
  BY <1>1, BucketsStay DEF AiInv
<1> QED
  BY <1>3, <1>8, <1>9, <1>10 DEF AiInv

-----------------------------------------------------------------------------
LEMMA AiInitInv == AiInit => AiInv
<1> SUFFICES ASSUME AiInit PROVE AiInv
  OBVIOUS
<1> DEFINE B == [Processes -> [BucketNames -> Seq(0 .. MaxHour)]]
<1>1. /\ hour = 0 /\ log = <<>> /\ reader = NotReading
      /\ buckets = [p \in Processes |-> [b \in BucketNames |-> <<>>]] /\ admitted = buckets
      /\ serving = [p \in Processes |-> "none"]
  BY DEF AiInit
<1>2. buckets \in B /\ admitted \in B
  <2>1. <<>> \in Seq(0 .. MaxHour)
    OBVIOUS
  <2> QED
    BY <1>1, <2>1
<1>3. AiTypeOK
  <2>1. log \in Seq(Rows) /\ DOMAIN log = {}
    BY <1>1
  <2>2. reader \in [page : Nat, total : Nat, rows : Nat, counting : BOOLEAN, exact : BOOLEAN,
                    seen : SUBSET DOMAIN log, before : SUBSET DOMAIN log]
    BY <1>1 DEF NotReading
  <2> QED
    BY <1>1, <1>2, <2>1, <2>2, HoursAssumption DEF AiTypeOK, Rows
<1>4. \A p \in Processes, name \in BucketNames : admitted[p][name] = <<>> /\ buckets[p][name] = <<>>
  BY <1>1
<1>5. BucketOK(<<>>, <<>>)
  BY RateAssumption DEF BucketOK
<1>6. Fits(<<>>)
  <2>1. \A from : {k \in DOMAIN <<>> : <<>>[k] \in from .. from + Window} = {}
    OBVIOUS
  <2> QED
    BY <2>1, FS_EmptySet, RateAssumption DEF Fits
<1>7. BucketsOK /\ RateBounded
  BY <1>4, <1>5, <1>6, BucketByBucket
<1>8. ReaderOK /\ PagesMissNothing
  BY <1>1 DEF NotReading, ReaderOK, PagesMissNothing
<1> QED
  BY <1>3, <1>7, <1>8 DEF AiInv

LEMMA AiInvStep == AiInv /\ [Next]_vars => AiInv'
<1> SUFFICES ASSUME AiInv, [Next]_vars PROVE AiInv'
  OBVIOUS
<1>1. CASE AiNext
  BY <1>1, RateCheckStep, AnswerStep, CountStep, SelectStep, HourStep DEF AiNext
<1>2. CASE UNCHANGED aiVars
  <2>1. AiTypeOK'
    BY <1>2 DEF aiVars, AiInv, AiTypeOK
  <2>2. BucketsOK' /\ RateBounded'
    BY <1>2, BucketsStay DEF aiVars, AiInv
  <2>3. ReaderOK' /\ PagesMissNothing'
    BY <1>2 DEF aiVars, AiInv, ReaderOK, PagesMissNothing, Place, Newer
  <2> QED
    BY <2>1, <2>2, <2>3 DEF AiInv
<1> QED
  BY <1>1, <1>2 DEF Next, vars, DownloadsStep, ProgressStep, AiStep

(* A bucket is the end of what was admitted to it, and a row of the log that was *)
(* there at the first page has been seen or is still to come (AiInv).            *)
THEOREM AiInvariance == Spec => []AiInv
<1>1. Init => AiInv
  BY AiInitInv DEF Init
<1> QED
  BY <1>1, AiInvStep, PTL DEF Spec

(* Whatever processes, callers and routes there are and however calls, answers  *)
(* and hours interleave, no process lets more calls of one bucket through in a   *)
(* window than _RATE_MAX (_rate_check).                                         *)
THEOREM RateLimited == Spec => []RateBounded
<1>1. AiInv => RateBounded
  BY DEF AiInv
<1> QED
  BY <1>1, AiInvariance, PTL

(* Whoever turns the pages of query_ai_results to the last one has seen all     *)
(* that was there at the first, for every page size and every growth of the log. *)
THEOREM NothingMissed == Spec => []PagesMissNothing
<1>1. AiInv => PagesMissNothing
  BY DEF AiInv
<1> QED
  BY <1>1, AiInvariance, PTL

(* The invariant of the whole service: types, URLs, progress, buckets, log.     *)
THEOREM Invariance == Spec => []IInv
<1>1. DownloadsTypeOK /\ ProgressInv /\ AiInv => IInv
  BY DEF IInv, TypeOK, ProgressInv, AiInv
<1> QED
  BY <1>1, AiInvariance, DownloadsCorrect, ProgressCorrect, PTL

=============================================================================
