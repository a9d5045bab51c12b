--------------------------- MODULE ProgressProofs ---------------------------
(***************************************************************************)
(* The events of a job's stream are true, for any number of pages, share,   *)
(* attempts and crashes.                                                    *)
(***************************************************************************)
EXTENDS Service, SequenceTheorems, TLAPS

(* Integer division by a positive number, and what follows for the pages.       *)
LEMMA Division ==
  ASSUME NEW a \in Nat, NEW b \in Nat \ {0}
  PROVE  a \div b \in Nat /\ b * (a \div b) <= a /\ a < b * (a \div b) + b
OBVIOUS

LEMMA DivisionMonotone ==
  ASSUME NEW a \in Nat, NEW c \in Nat, NEW b \in Nat \ {0}, a <= c
  PROVE  a \div b <= c \div b
<1> DEFINE q == a \div b
           r == c \div b
<1>1. q \in Nat /\ b * q <= a
  BY Division
<1>2. r \in Nat /\ c < b * r + b
  BY Division
<1> HIDE DEF q, r
<1>3. b * q < b * (r + 1)
  BY <1>1, <1>2
<1>4. q < r + 1
  BY <1>1, <1>2, <1>3
<1> QED
  BY <1>1, <1>2, <1>4 DEF q, r

LEMMA PageProgressBounds ==
  ASSUME NEW i \in 1 .. Pages
  PROVE  /\ PageProgress(i) \in 10 .. 95
         /\ \A k \in 1 .. i : PageProgress(k) <= PageProgress(i)
<1>1. Pages \in Nat \ {0} /\ Share \in Nat /\ Share <= 85
  BY ProgressAssumption
<1>2. \A k \in 1 .. i : k * Share \in Nat /\ k * Share <= i * Share
  BY <1>1
<1>3. i * Share <= Pages * Share /\ i * Share \in Nat
  BY <1>1
<1> DEFINE q == (i * Share) \div Pages
<1>4. q \in Nat /\ Pages * q <= i * Share
  BY <1>1, <1>3, Division
<1> HIDE DEF q
<1>5. q <= Share
  BY <1>1, <1>3, <1>4
<1>6. \A k \in 1 .. i : (k * Share) \div Pages <= (i * Share) \div Pages
  BY <1>1, <1>2, <1>3, DivisionMonotone
<1>7. PageProgress(i) \in 10 .. 95
  BY <1>1, <1>4, <1>5 DEF PageProgress, q
<1>8. \A k \in 1 .. i : (k * Share) \div Pages \in Nat
  BY <1>1, <1>2, Division
<1> QED
  BY <1>6, <1>7, <1>8 DEF PageProgress

(* What a child reports never goes back and never reaches 100.                  *)
LEMMA ReportsBounds ==
  /\ Len(Reports) = Pages + 2
  /\ \A k \in 1 .. Pages + 2 : Reports[k] \in 5 .. 97
  /\ \A k, l \in 1 .. Pages + 2 : k <= l => Reports[k] <= Reports[l]
<1> DEFINE pages == [i \in 1 .. Pages |-> PageProgress(i)]
           begin == <<5>>
           end   == <<97>>
           front == begin \o pages
<1>1. Pages \in Nat \ {0}
  BY ProgressAssumption
<1>2. \A i \in 1 .. Pages : PageProgress(i) \in 10 .. 95
  BY PageProgressBounds
<1>3. pages \in Seq(Nat) /\ Len(pages) = Pages /\ \A i \in 1 .. Pages : pages[i] = PageProgress(i)
  BY <1>1, <1>2
<1>4. begin \in Seq(Nat) /\ Len(begin) = 1 /\ begin[1] = 5
  OBVIOUS
<1>5. end \in Seq(Nat) /\ Len(end) = 1 /\ end[1] = 97
  OBVIOUS
<1> HIDE DEF pages, begin, end
<1>6. /\ front \in Seq(Nat) /\ Len(front) = Len(begin) + Len(pages)
      /\ \A i \in 1 .. Len(begin) + Len(pages) :
           front[i] = IF i <= Len(begin) THEN begin[i] ELSE pages[i - Len(begin)]
  BY <1>3, <1>4, ConcatProperties
<1> DEFINE all == front \o end
<1>7. all = Reports
  BY DEF Reports, begin, end, pages
<1> HIDE DEF front
<1>8. /\ Len(all) = Len(front) + Len(end)
      /\ \A i \in 1 .. Len(front) + Len(end) :
           all[i] = IF i <= Len(front) THEN front[i] ELSE end[i - Len(front)]
  <2>1. front \in Seq(Nat) /\ end \in Seq(Nat)
    BY <1>5, <1>6
  <2> QED
    BY <2>1, ConcatProperties, ZenonT(20)
<1> HIDE DEF all
<1>9. Len(front) = Pages + 1 /\ front[1] = 5 /\ \A i \in 2 .. Pages + 1 : front[i] = PageProgress(i - 1)
  BY <1>1, <1>3, <1>4, <1>6
<1>9a. Len(Reports) = Pages + 2
  BY <1>1, <1>5, <1>7, <1>8, <1>9
<1>10. /\ Reports[1] = 5 /\ Reports[Pages + 2] = 97
       /\ \A i \in 2 .. Pages + 1 : Reports[i] = PageProgress(i - 1)
  BY <1>1, <1>5, <1>7, <1>8, <1>9
<1>11. ASSUME NEW k \in 1 .. Pages + 2
       PROVE  /\ Reports[k] \in 5 .. 97
              /\ k \in 2 .. Pages + 1 => Reports[k] \in 10 .. 95
  BY <1>1, <1>2, <1>10
<1>12. ASSUME NEW k \in 1 .. Pages + 2, NEW l \in 1 .. Pages + 2, k <= l
       PROVE  Reports[k] <= Reports[l]
  <2>1. CASE k = 1 \/ l = Pages + 2
    BY <1>10, <1>11, <2>1
  <2>2. CASE k # 1 /\ l # Pages + 2
    <3>1. k - 1 \in 1 .. l - 1 /\ l - 1 \in 1 .. Pages
      BY <1>1, <1>12, <2>2
    <3>2. PageProgress(k - 1) <= PageProgress(l - 1)
      BY <3>1, PageProgressBounds
    <3> QED
      BY <1>1, <1>10, <1>12, <2>2, <3>2
  <2> QED
    BY <2>1, <2>2
<1> QED
  BY <1>9a, <1>11, <1>12

(* What the row of a job that is executed says after k reports of its child.    *)
LEMMA ReportedBounds ==
  /\ \A k \in 0 .. Len(Reports) : Reported(k) \in 1 .. 97
  /\ \A k \in 0 .. Len(Reports) - 1 : Reported(k) <= Reported(k + 1)
  /\ \A k \in 1 .. Len(Reports) : Clamp(Reports[k]) = Reported(k)
<1>1. Pages \in Nat /\ Len(Reports) = Pages + 2
  BY ProgressAssumption, ReportsBounds
<1>2. ASSUME NEW k \in 1 .. Pages + 2
      PROVE  Reported(k) = Reports[k] /\ Reports[k] \in 5 .. 97 /\ Clamp(Reports[k]) = Reported(k)
  <2>1. Reports[k] \in 5 .. 97
    BY ReportsBounds
  <2>2. k # 0
    BY <1>1
  <2>3. Reported(k) = Reports[k]
    BY <2>2 DEF Reported
  <2>4. Clamp(Reports[k]) = Reports[k]
    BY <2>1 DEF Clamp
  <2> QED
    BY <2>1, <2>3, <2>4
<1>3. Reported(0) = 1
  BY DEF Reported
<1>4. ASSUME NEW k \in 0 .. Pages + 1
      PROVE  Reported(k) <= Reported(k + 1)
  <2>1. k + 1 \in 1 .. Pages + 2
    BY <1>1
  <2>2. Reported(k + 1) = Reports[k + 1] /\ Reports[k + 1] \in 5 .. 97
    BY <1>2, <2>1
  <2>3. CASE k = 0
    <3>1. Reported(k) = 1
      BY <1>3, <2>3
    <3> QED
      BY <2>2, <3>1
  <2>4. CASE k # 0
    <3>1. k \in 1 .. Pages + 2
      BY <1>1, <2>4
    <3>2. Reported(k) = Reports[k]
      BY <1>2, <3>1
    <3> QED
      BY <1>1, <2>1, <2>2, <3>1, <3>2, ReportsBounds
  <2> QED
    BY <2>3, <2>4
<1>5. ASSUME NEW k \in 0 .. Pages + 2
      PROVE  Reported(k) \in 1 .. 97
  <2>1. CASE k = 0
    <3>1. Reported(k) = 1
      BY <1>3, <2>1
    <3> QED
      BY <3>1
  <2>2. CASE k # 0
    <3>1. k \in 1 .. Pages + 2
      BY <1>1, <2>2
    <3>2. Reported(k) = Reports[k] /\ Reports[k] \in 5 .. 97
      BY <1>2, <3>1
    <3> QED
      BY <3>2
  <2> QED
    BY <2>1, <2>2
<1>6. \A k \in 0 .. Len(Reports) : Reported(k) \in 1 .. 97
  BY <1>1, <1>5
<1>7. \A k \in 0 .. Len(Reports) - 1 : Reported(k) <= Reported(k + 1)
  <2>1. Len(Reports) - 1 = Pages + 1
    BY <1>1
  <2> QED
    BY <1>4, <2>1
<1>8. \A k \in 1 .. Len(Reports) : Clamp(Reports[k]) = Reported(k)
  BY <1>1, <1>2
<1> QED
  BY <1>6, <1>7, <1>8

(* The constants, as the steps use them.                                         *)
LEMMA Numbers ==
  /\ Len(Reports) \in Nat \ {0, 1} /\ Claims = 1 .. MaxAttempts + MaxCrashes
  /\ MaxAttempts \in Nat \ {0} /\ MaxCrashes \in Nat
BY ProgressAssumption, ReportsBounds DEF Claims

(* The numbers of the row and of the last event.                                *)
LEMMA Types ==
  ASSUME ProgressTypeOK
  PROVE  /\ job.attempts \in Nat /\ job.progress \in Nat
         /\ told.attempts \in Nat /\ told.progress \in Nat
<1>1. job.attempts \in 0 .. MaxAttempts + MaxCrashes /\ job.progress \in 0 .. 100
  BY DEF ProgressTypeOK
<1>2. told.attempts \in 0 .. MaxAttempts + MaxCrashes /\ told.progress \in 0 .. 100
  BY DEF ProgressTypeOK
<1>3. \A k \in 0 .. MaxAttempts + MaxCrashes : k \in Nat
  OBVIOUS
<1>4. \A k \in 0 .. 100 : k \in Nat
  OBVIOUS
<1> HIDE DEF ProgressTypeOK
<1> QED
  BY <1>1, <1>2, <1>3, <1>4, ZenonT(20)

-----------------------------------------------------------------------------
(* The next attempt begins at 1, and nothing of it has been told.              *)
LEMMA ClaimStep ==
  ASSUME ProgressInv, Claim
  PROVE  ProgressInv'
<1> USE DEF ProgressInv, Claim
<1>a. /\ job.attempts + 1 \in Claims /\ job.attempts \in 0 .. MaxAttempts + crashes
      /\ \A n \in Claims : ~ worker[n]
  BY Numbers DEF ProgressTypeOK, OwnerExecutes, ClaimsBounded
<1>b. /\ job'.status = "processing" /\ job'.attempts = job.attempts + 1
      /\ job'.progress = 1 /\ job'.owner = job.attempts + 1 /\ job'.cancel = job.cancel
      /\ job' \in [status : {"processing"}, cancel : BOOLEAN, progress : {1},
                   attempts : {job.attempts + 1}, owner : {job.attempts + 1}]
  BY DEF ProgressTypeOK
<1>c. \A n \in Claims : /\ worker'[n] = (IF n = job.attempts + 1 THEN TRUE ELSE worker[n])
                        /\ child'[n] = IF n = job.attempts + 1 THEN 0 ELSE child[n]
  BY <1>a DEF ProgressTypeOK
<1>1. ProgressTypeOK'
  BY <1>a, <1>b, Numbers DEF ProgressTypeOK
<1>2. OwnerExecutes'
  BY <1>a, <1>b, <1>c DEF OwnerExecutes
<1>3. ClaimsBounded'
  <2>1. job.attempts < MaxAttempts + crashes /\ crashes' = crashes /\ crashes \in Nat
    BY DEF ProgressTypeOK, ClaimsBounded
  <2>2. worker'[job'.owner]
    BY <1>a, <1>b, <1>c
  <2> QED
    BY <1>a, <1>b, <2>1, <2>2, Numbers DEF ClaimsBounded
<1>4. EndToldStays'
  BY DEF EndToldStays, Settled
<1>5. HundredIsComplete'
  BY <1>b, Types DEF HundredIsComplete
<1>6. alone' => RowShowsChild'
  <2>1. alone' => \A n \in Claims : child[n] = -1
    OBVIOUS
  <2>2. alone' => \A n \in Claims : child'[n] # -1 => n = job.attempts + 1 /\ child'[n] = 0
    BY <1>c, <2>1
  <2> QED
    BY <1>b, <2>2 DEF RowShowsChild, Reported
<1>7. alone' => ToldIsPast'
  BY <1>b, Types DEF EndToldStays, HundredIsComplete, ToldIsPast, Settled
<1> QED
  BY <1>1, <1>2, <1>3, <1>4, <1>5, <1>6, <1>7

(* A child reports a number below 100, and no smaller than its last.           *)
LEMMA ReportStep ==
  ASSUME ProgressInv, NEW n \in Claims, Report(n)
  PROVE  ProgressInv'
<1> USE DEF ProgressInv, Report
<1>a. child[n] \in 0 .. Len(Reports) - 1 /\ child[n] + 1 \in 1 .. Len(Reports)
  OBVIOUS
<1>b. /\ Clamp(Reports[child[n] + 1]) = Reported(child[n] + 1)
      /\ Reported(child[n]) <= Reported(child[n] + 1)
      /\ Reported(child[n]) \in 1 .. 97 /\ Reported(child[n] + 1) \in 1 .. 97
  <2> DEFINE k == child[n]
  <2>1. k \in 0 .. Len(Reports) - 1 /\ k + 1 \in 1 .. Len(Reports)
        /\ k \in 0 .. Len(Reports) /\ k + 1 \in 0 .. Len(Reports)
    BY <1>a
  <2> HIDE DEF k
  <2>2. Reported(k) <= Reported(k + 1)
    BY <2>1, ReportedBounds
  <2>3. Clamp(Reports[k + 1]) = Reported(k + 1)
    BY <2>1, ReportedBounds
  <2>4. Reported(k) \in 1 .. 97 /\ Reported(k + 1) \in 1 .. 97
    BY <2>1, ReportedBounds
  <2> QED
    BY <2>2, <2>3, <2>4 DEF k
<1>c. /\ job'.status = job.status /\ job'.attempts = job.attempts /\ job'.owner = job.owner
      /\ job'.cancel = job.cancel
      /\ job'.progress = IF child[n] = 0 /\ job.status # "processing" THEN job.progress
                         ELSE Reported(child[n] + 1)
      /\ job' \in [status : {job.status}, cancel : {job.cancel}, progress : {job.progress, Reported(child[n] + 1)},
                   attempts : {job.attempts}, owner : {job.owner}]
  BY <1>b DEF ProgressTypeOK
<1>d. \A m \in Claims : child'[m] = IF m # n THEN child[m]
                                    ELSE IF child[n] = 0 /\ job.status # "processing" THEN -1
                                    ELSE child[n] + 1
  BY DEF ProgressTypeOK
<1>e. alone => n = job.attempts /\ job.progress = Reported(child[n])
  BY <1>a DEF RowShowsChild
<1>1. ProgressTypeOK'
  <2>1. job'.progress \in 0 .. 100
    <3>1. job.progress \in 0 .. 100
      BY DEF ProgressTypeOK
    <3> HIDE DEF Report, ProgressInv
    <3> QED
      BY <1>b, <1>c, <3>1
  <2>2. job' \in [status : {"pending", "processing", "retry"} \cup Settled, cancel : BOOLEAN,
                   progress : 0 .. 100, attempts : 0 .. MaxAttempts + MaxCrashes,
                   owner : 0 .. MaxAttempts + MaxCrashes]
    BY <1>c, <2>1 DEF ProgressTypeOK
  <2>3. -1 \in -1 .. Len(Reports) /\ child[n] + 1 \in -1 .. Len(Reports)
    BY <1>a, Numbers
  <2>4. child' \in [Claims -> -1 .. Len(Reports)]
    <3> DEFINE C == -1 .. Len(Reports)
    <3>1. child \in [Claims -> C]
      BY DEF ProgressTypeOK
    <3> HIDE DEF C
    <3> QED
      BY <2>3, <3>1 DEF C
  <2> QED
    BY <2>2, <2>4 DEF ProgressTypeOK
<1>2. OwnerExecutes'
  BY DEF ProgressTypeOK, OwnerExecutes
<1>3. ClaimsBounded'
  BY DEF ProgressTypeOK, ClaimsBounded
<1>4. EndToldStays'
  BY DEF ProgressTypeOK, EndToldStays
<1>5. HundredIsComplete'
  <2>1. HundredIsComplete /\ told' = told
    OBVIOUS
  <2> HIDE DEF Report, ProgressInv
  <2> QED
    BY <1>b, <1>c, <2>1 DEF HundredIsComplete
<1>6. alone' => RowShowsChild'
  <2> SUFFICES ASSUME alone
               PROVE  RowShowsChild'
    OBVIOUS
  <2>1. /\ \A m \in Claims : child[m] # -1 => m = job.attempts /\ job.progress = Reported(child[m])
        /\ job.status = "complete" => job.progress = 100
    BY DEF RowShowsChild
  <2> HIDE DEF Report, ProgressInv
  <2>2. n = job.attempts /\ job.progress \in 1 .. 97
    BY <1>b, <1>e
  <2>3. job.status # "complete"
    BY <2>1, <2>2
  <2>4. \A m \in Claims : m # n => child'[m] = -1
    BY <1>d, <2>1, <2>2
  <2>5. child'[n] # -1 => job'.progress = Reported(child'[n])
    BY <1>a, <1>c, <1>d
  <2> QED
    BY <1>c, <2>2, <2>3, <2>4, <2>5 DEF RowShowsChild
<1>7. alone' => ToldIsPast'
  <2>1. alone => job'.progress >= job.progress /\ job'.progress \in Nat
    <3>1. job.progress \in Nat
      BY Types
    <3> HIDE DEF Report, ProgressInv
    <3> QED
      BY <1>b, <1>c, <1>e, <3>1
  <2>2. told.progress \in Nat /\ job.progress \in Nat
    BY Types
  <2>3. alone => ToldIsPast
    OBVIOUS
  <2>4. told' = told /\ alone' = alone
    OBVIOUS
  <2> HIDE DEF Report, ProgressInv
  <2> QED
    BY <1>c, <2>1, <2>2, <2>3, <2>4 DEF ToldIsPast
<1> QED
  BY <1>1, <1>2, <1>3, <1>4, <1>5, <1>6, <1>7

(* Who completes the job has executed it, and of its children it was the last. *)
LEMMA CompleteStep ==
  ASSUME ProgressInv, NEW n \in Claims, Complete(n)
  PROVE  ProgressInv'
<1> USE DEF ProgressInv, Complete, Ends
<1>a. job' \in [status : {job.status, "cancelled", "complete"}, cancel : {job.cancel},
                 progress : {job.progress, 100}, attempts : {job.attempts}, owner : {job.owner, 0}]
  BY DEF ProgressTypeOK
<1>b. /\ job'.attempts = job.attempts
      /\ \/ job' = job
         \/ job'.status = "cancelled" /\ job'.progress = job.progress
         \/ job'.status = "complete" /\ job'.progress = 100
  BY DEF ProgressTypeOK
<1>c. job.status = "processing" /\ job.progress # 100
  BY DEF OwnerExecutes, HundredIsComplete
<1>d. \A m \in Claims : child'[m] = IF m = n THEN -1 ELSE child[m]
  BY DEF ProgressTypeOK
<1>1. ProgressTypeOK'
  <2>1. job' \in [status : {"pending", "processing", "retry"} \cup Settled, cancel : BOOLEAN,
                   progress : 0 .. 100, attempts : 0 .. MaxAttempts + MaxCrashes,
                   owner : 0 .. MaxAttempts + MaxCrashes]
    BY <1>a, Numbers DEF ProgressTypeOK, Settled
  <2>2. child' \in [Claims -> -1 .. Len(Reports)] /\ worker' \in [Claims -> BOOLEAN]
    BY DEF ProgressTypeOK
  <2> QED
    BY <2>1, <2>2 DEF ProgressTypeOK
<1>2. OwnerExecutes'
  BY DEF ProgressTypeOK, OwnerExecutes
<1>3. ClaimsBounded'
  BY DEF ClaimsBounded
<1>4. EndToldStays'
  BY DEF OwnerExecutes, EndToldStays, Settled
<1>5. HundredIsComplete'
  BY <1>b, <1>c DEF HundredIsComplete
<1>6. alone' => RowShowsChild'
  <2> SUFFICES ASSUME alone
               PROVE  RowShowsChild'
    OBVIOUS
  <2>1. \A m \in Claims : child[m] # -1 => m = job.attempts
    BY DEF RowShowsChild
  <2>2. child[n] # -1
    BY Numbers
  <2>3. \A m \in Claims : child'[m] = -1
    BY <1>d, <2>1, <2>2
  <2> HIDE DEF ProgressInv, Complete, Ends
  <2> QED
    BY <1>b, <1>c, <2>3 DEF RowShowsChild
<1>7. alone' => ToldIsPast'
  <2>1. told' = told /\ told.progress \in 0 .. 100 /\ job.progress \in 0 .. 100
    BY DEF ProgressTypeOK
  <2>2. alone' => ToldIsPast
    OBVIOUS
  <2> HIDE DEF ProgressInv, Complete, Ends
  <2> QED
    BY <1>b, <2>1, <2>2 DEF ToldIsPast
<1> QED
  BY <1>1, <1>2, <1>3, <1>4, <1>5, <1>6, <1>7

(* A retry that is allowed leaves an attempt.                                  *)
LEMMA FailStep ==
  ASSUME ProgressInv, NEW n \in Claims, NEW retryable \in BOOLEAN, Fail(n, retryable)
  PROVE  ProgressInv'
<1> USE DEF ProgressInv, Fail, Ends
<1>a. job' \in [status : {job.status, "cancelled", "retry", "failed"}, cancel : {job.cancel},
                 progress : {job.progress}, attempts : {job.attempts}, owner : {job.owner, 0}]
  BY DEF ProgressTypeOK
<1>b. job.status = "processing" /\ job.owner = n
  BY DEF OwnerExecutes
<1>c. /\ job'.attempts = job.attempts /\ job'.progress = job.progress
      /\ job'.status \in {"cancelled", "retry", "failed"}
  BY <1>b DEF ProgressTypeOK
<1>1. ProgressTypeOK'
  BY <1>a, Numbers DEF ProgressTypeOK, Settled
<1>2. OwnerExecutes'
  BY DEF ProgressTypeOK, OwnerExecutes
<1>3. ClaimsBounded'
  BY Numbers DEF ProgressTypeOK, ClaimsBounded
<1>4. EndToldStays'
  BY DEF OwnerExecutes, EndToldStays, Settled
<1>5. HundredIsComplete'
  BY <1>b, <1>c DEF HundredIsComplete
<1>6. alone' => RowShowsChild'
  <2>1. \A m \in Claims : child'[m] # -1 => child'[m] = child[m]
    BY DEF ProgressTypeOK
  <2> QED
    BY <1>c, <2>1 DEF RowShowsChild
<1>7. alone' => ToldIsPast'
  BY <1>c DEF ToldIsPast
<1> QED
  BY <1>1, <1>2, <1>3, <1>4, <1>5, <1>6, <1>7

(* A crash allows one claim more; the child lives on.                          *)
LEMMA CrashStep ==
  ASSUME ProgressInv, NEW n \in Claims, Crash(n)
  PROVE  ProgressInv'
<1> USE DEF ProgressInv, Crash
<1>1. ProgressTypeOK'
  BY Numbers DEF ProgressTypeOK
<1>2. OwnerExecutes'
  BY DEF OwnerExecutes
<1>3. ClaimsBounded'
  BY Numbers DEF ProgressTypeOK, ClaimsBounded
<1>4. EndToldStays'
  BY DEF EndToldStays, Settled
<1>5. HundredIsComplete'
  BY DEF HundredIsComplete
<1>6. alone' => RowShowsChild'
  BY DEF RowShowsChild
<1>7. alone' => ToldIsPast'
  BY DEF ToldIsPast
<1> QED
  BY <1>1, <1>2, <1>3, <1>4, <1>5, <1>6, <1>7

(* Only a job whose worker has died is taken back; its child may still report. *)
LEMMA RecoverStep ==
  ASSUME ProgressInv, Recover
  PROVE  ProgressInv'
<1> USE DEF ProgressInv, Recover
<1>a. job' \in [status : {"retry"}, cancel : {job.cancel}, progress : {job.progress},
                 attempts : {job.attempts}, owner : {0}]
  BY DEF ProgressTypeOK
<1>1. ProgressTypeOK'
  BY <1>a, Numbers DEF ProgressTypeOK
<1>2. OwnerExecutes'
  BY DEF OwnerExecutes
<1>3. ClaimsBounded'
  BY DEF ClaimsBounded
<1>4. EndToldStays'
  BY DEF EndToldStays, Settled
<1>5. HundredIsComplete'
  BY <1>a DEF HundredIsComplete
<1>6. alone' => RowShowsChild'
  BY <1>a DEF RowShowsChild
<1>7. alone' => ToldIsPast'
  BY <1>a DEF ToldIsPast
<1> QED
  BY <1>1, <1>2, <1>3, <1>4, <1>5, <1>6, <1>7

(* An orphan that ends leaves the row as it is.                                *)
LEMMA OrphanStep ==
  ASSUME ProgressInv, NEW n \in Claims, OrphanDies(n)
  PROVE  ProgressInv'
<1> USE DEF ProgressInv, OrphanDies
<1>1. ProgressTypeOK'
  BY DEF ProgressTypeOK
<1>2. OwnerExecutes'
  BY DEF OwnerExecutes
<1>3. ClaimsBounded'
  BY DEF ClaimsBounded
<1>4. EndToldStays'
  BY DEF EndToldStays
<1>5. HundredIsComplete'
  BY DEF HundredIsComplete
<1>6. alone' => RowShowsChild'
  <2>1. \A m \in Claims : child'[m] # -1 => child'[m] = child[m]
    BY DEF ProgressTypeOK
  <2> QED
    BY <2>1 DEF RowShowsChild
<1>7. alone' => ToldIsPast'
  BY DEF ToldIsPast
<1> QED
  BY <1>1, <1>2, <1>3, <1>4, <1>5, <1>6, <1>7

(* A cancellation does not touch what is executed.                             *)
LEMMA CancelStep ==
  ASSUME ProgressInv, RequestCancel
  PROVE  ProgressInv'
<1> USE DEF ProgressInv, RequestCancel
<1>a. /\ job'.progress = job.progress /\ job'.attempts = job.attempts
      /\ job.status \notin Settled /\ job'.status \in {job.status, "cancelled"}
  BY DEF ProgressTypeOK
<1>1. ProgressTypeOK'
  BY DEF ProgressTypeOK, Settled
<1>2. OwnerExecutes'
  BY DEF OwnerExecutes
<1>3. ClaimsBounded'
  BY DEF ClaimsBounded
<1>4. EndToldStays'
  BY DEF EndToldStays, Settled
<1>5. HundredIsComplete'
  BY <1>a DEF HundredIsComplete, Settled
<1>6. alone' => RowShowsChild'
  BY <1>a DEF RowShowsChild
<1>7. alone' => ToldIsPast'
  BY <1>a DEF ToldIsPast
<1> QED
  BY <1>1, <1>2, <1>3, <1>4, <1>5, <1>6, <1>7

(* What the stream has ended with may expire.                                  *)
LEMMA ExpireStep ==
  ASSUME ProgressInv, Expire
  PROVE  ProgressInv'
<1> USE DEF ProgressInv, Expire
<1>a. /\ job'.progress = job.progress /\ job'.attempts = job.attempts
      /\ job.status \in Settled /\ job'.status = "expired"
  BY DEF ProgressTypeOK
<1>1. ProgressTypeOK'
  BY DEF ProgressTypeOK, Settled
<1>2. OwnerExecutes'
  <2>1. job.status # "processing" /\ job'.status # "processing"
    BY DEF Settled
  <2> QED
    BY <2>1 DEF OwnerExecutes
<1>3. ClaimsBounded'
  BY DEF ClaimsBounded
<1>4. EndToldStays'
  BY DEF EndToldStays
<1>5. HundredIsComplete'
  BY <1>a DEF HundredIsComplete
<1>6. alone' => RowShowsChild'
  BY <1>a DEF RowShowsChild
<1>7. alone' => ToldIsPast'
  BY <1>a DEF ToldIsPast
<1> QED
  BY <1>1, <1>2, <1>3, <1>4, <1>5, <1>6, <1>7

(* The stream opens.                                                           *)
LEMMA OpenStep ==
  ASSUME ProgressInv, Open
  PROVE  ProgressInv'
<1> USE DEF ProgressInv, Open
<1>1. ProgressTypeOK'
  BY DEF ProgressTypeOK
<1>2. OwnerExecutes'
  BY DEF OwnerExecutes
<1>3. ClaimsBounded'
  BY DEF ClaimsBounded
<1>4. EndToldStays'
  BY DEF EndToldStays, Settled
<1>5. HundredIsComplete'
  BY DEF HundredIsComplete
<1>6. alone' => RowShowsChild'
  BY DEF RowShowsChild
<1>7. alone' => ToldIsPast'
  BY DEF ToldIsPast
<1> QED
  BY <1>1, <1>2, <1>3, <1>4, <1>5, <1>6, <1>7

(* What is told is what the row shows.                                         *)
LEMMA TellStep ==
  ASSUME ProgressInv, Tell
  PROVE  ProgressInv'
<1> USE DEF ProgressInv, Tell
<1>a. /\ told'.status = job.status /\ told'.progress = job.progress
      /\ told'.attempts = job.attempts /\ job' = job /\ alone' = alone
  OBVIOUS
<1>b. job.attempts \in Nat /\ job.progress \in Nat
  BY Types
<1>1. ProgressTypeOK'
  BY DEF ProgressTypeOK
<1>2. OwnerExecutes'
  BY DEF OwnerExecutes
<1>3. ClaimsBounded'
  BY DEF ClaimsBounded
<1>4. EndToldStays'
  BY <1>a DEF EndToldStays
<1>5. HundredIsComplete'
  BY <1>a, <1>b DEF HundredIsComplete
<1>6. alone' => RowShowsChild'
  BY DEF RowShowsChild
<1>7. alone' => ToldIsPast'
  BY <1>a, <1>b DEF RowShowsChild, ToldIsPast
<1> QED
  BY <1>1, <1>2, <1>3, <1>4, <1>5, <1>6, <1>7

-----------------------------------------------------------------------------
(* Every step keeps the invariant.                                             *)
LEMMA InvStep == ProgressInv /\ [Next]_vars => ProgressInv'
<1> SUFFICES ASSUME ProgressInv, [Next]_vars
             PROVE  ProgressInv'
  OBVIOUS
<1>1. CASE ProgressNext
  BY <1>1, ClaimStep, ReportStep, CompleteStep, FailStep, CrashStep, RecoverStep, OrphanStep,
     CancelStep, ExpireStep, OpenStep, TellStep DEF ProgressNext
<1>2. CASE UNCHANGED progressVars
  BY <1>2 DEF progressVars, ProgressInv, ProgressTypeOK, OwnerExecutes, ClaimsBounded,
              EndToldStays, HundredIsComplete, RowShowsChild, ToldIsPast
<1> QED
  BY <1>1, <1>2 DEF Next, vars, DownloadsStep, ProgressStep, AiStep

(* What an event says, against the one before it: only Tell makes one.         *)
LEMMA EventsTrue ==
  ASSUME ProgressInv, ProgressInv', [Next]_vars
  PROVE  /\ stream' = "ended" => job'.status \in {told'.status, "expired"}
         /\ told'.progress = 100 => told'.status \in {"complete", "expired"}
         /\ alone' =>
              /\ told'.attempts = told.attempts => told'.progress >= told.progress
              /\ told'.status = "complete" => told'.progress = 100
<1>1. stream' = "ended" => job'.status \in {told'.status, "expired"}
  BY DEF ProgressInv, EndToldStays
<1>2. /\ told'.progress = 100 => told'.status \in {"complete", "expired"}
      /\ alone' => (told'.status = "complete" => told'.progress = 100)
  BY DEF ProgressInv, HundredIsComplete, ToldIsPast
<1>3. told' = told \/ Tell
  BY DEF Next, vars, DownloadsStep, ProgressStep, AiStep, ProgressNext, progressVars, Claim, Report,
         Complete, Ends, Fail, Crash, Recover, OrphanDies, RequestCancel, Expire, Open
<1>4. ASSUME alone', told'.attempts = told.attempts
      PROVE  told'.progress >= told.progress
  <2>1. told.progress \in Nat
    BY Types DEF ProgressInv
  <2>2. CASE told' = told
    BY <2>1, <2>2
  <2>3. CASE Tell
    <3>1. told'.progress = job.progress /\ told'.attempts = job.attempts /\ alone
      BY <1>4, <2>3 DEF Tell
    <3>2. told.progress <= job.progress
      BY <1>4, <3>1 DEF ProgressInv, ToldIsPast
    <3>3. job.progress \in Nat
      BY Types DEF ProgressInv
    <3> QED
      BY <2>1, <3>1, <3>2, <3>3
  <2> QED
    BY <1>3, <2>2, <2>3
<1> QED
  BY <1>1, <1>2, <1>4

(* The row, the executing worker, its child and the stream belong together      *)
(* (ProgressInv), so job_progress_sse tells the truth as ProgressTrue says, for  *)
(* every number of pages, attempts and crashes: the end it tells stays and 100   *)
(* is a complete job, orphaned children or not, and the numbers are those of an  *)
(* attempt whenever no child of an earlier one was alive when it was claimed.    *)
THEOREM ProgressCorrect == Spec => []ProgressInv /\ ProgressTrue
<1>1. Init => ProgressInv
  BY Numbers DEF Init, ProgressInit, ProgressInv, ProgressTypeOK, OwnerExecutes, ClaimsBounded,
                 EndToldStays, HundredIsComplete, RowShowsChild, ToldIsPast, Settled
<1>2. ProgressInv /\ ProgressInv' /\ [Next]_vars =>
        [/\ stream' = "ended" => job'.status \in {told'.status, "expired"}
         /\ told'.progress = 100 => told'.status \in {"complete", "expired"}
         /\ alone' =>
              /\ told'.attempts = told.attempts => told'.progress >= told.progress
              /\ told'.status = "complete" => told'.progress = 100]_progressVars
  BY EventsTrue
<1> QED
  BY <1>1, <1>2, InvStep, PTL DEF Spec, ProgressTrue

=============================================================================
