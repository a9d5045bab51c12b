--------------------------- MODULE JobQueueProofs ---------------------------
(***************************************************************************)
(* Proofs about JobQueue: IInv is inductive, one lemma per action and one  *)
(* step per part the action touches; the safety properties follow.         *)
(***************************************************************************)
EXTENDS JobQueueInvariant, FiniteSetTheorems, TLAPS

(* A stuttering step changes nothing. *)
LEMMA StutterStep ==
  ASSUME IInv, UNCHANGED vars
  PROVE  IInv'
<1>1. TypeOK'
  BY DEF IInv, TypeOK, vars, columns, bounds, locals, Statuses, Terminal,
         ChildStates, LiveChild, Places, Busy
<1>2. /\ LocalsOK' /\ ClaimsDistinct' /\ OwnerExecutes' /\ ResultSettled'
     /\ ResultIsFromLatestClaim' /\ ResultKeptUntilTtl' /\ AttemptsLeft'
     /\ AttemptsBoundedByRecoveries' /\ FileThere' /\ LeaseGuards'
     /\ SweepSettled'
  BY DEF IInv, LocalsOK, ClaimsDistinct, OwnerExecutes, ResultSettled,
         ResultIsFromLatestClaim, ResultKeptUntilTtl, AttemptsLeft,
         AttemptsBoundedByRecoveries, FileThere, LeaseGuards, SweepSettled,
         Busy, Holds, Executes, Terminal, vars, columns, bounds, locals
<1> QED BY <1>1, <1>2 DEF IInv

(* create_job: a fresh row. *)
LEMMA InsertJobStep ==
  ASSUME IInv, NEW j \in Jobs, InsertJob(j)
  PROVE  IInv'
<1>1. TypeOK'
  <2>1. Cardinality({k \in Jobs : status[k] # "absent"}) \in Nat
    BY JobsAssumption, FS_Subset, FS_CardinalityType
  <2> QED BY <2>1 DEF IInv, TypeOK, InsertJob, locals, bounds, Statuses, Terminal
<1>2. LocalsOK' /\ ClaimsDistinct' /\ AttemptsBoundedByRecoveries' /\ FileThere'
  BY DEF IInv, LocalsOK, ClaimsDistinct, AttemptsBoundedByRecoveries,
         FileThere, Busy, InsertJob, locals, bounds
<1>3. OwnerExecutes'
  BY DEF IInv, TypeOK, OwnerExecutes, LocalsOK, Holds, Executes, Busy,
         InsertJob, locals, bounds
<1>4. ResultSettled'
  BY DEF IInv, TypeOK, ResultSettled, LocalsOK, Executes, Busy, InsertJob,
         locals, bounds
<1>5. ResultIsFromLatestClaim'
  BY DEF IInv, TypeOK, ResultIsFromLatestClaim, LocalsOK, Busy, InsertJob,
         locals, bounds
<1>6. ResultKeptUntilTtl'
  BY DEF IInv, TypeOK, ResultKeptUntilTtl, LocalsOK, Busy, InsertJob, locals,
         bounds
<1>7. AttemptsLeft'
  BY DEF IInv, TypeOK, AttemptsLeft, LocalsOK, Busy, InsertJob, locals, bounds
<1>8. LeaseGuards'
  BY DEF IInv, TypeOK, LeaseGuards, LocalsOK, Holds, Executes, Busy,
         InsertJob, locals, bounds
<1>9. SweepSettled'
  BY DEF IInv, TypeOK, SweepSettled, LocalsOK, Terminal, Busy, InsertJob,
         locals, bounds
<1> QED BY <1>1, <1>2, <1>3, <1>4, <1>5, <1>6, <1>7, <1>8, <1>9 DEF IInv

(* request_cancel. *)
LEMMA RequestCancelStep ==
  ASSUME IInv, NEW j \in Jobs, RequestCancel(j)
  PROVE  IInv'
<1>1. TypeOK'
  BY DEF IInv, TypeOK, RequestCancel, locals, bounds, Statuses, Terminal,
         ChildStates, LiveChild, Places, Busy
<1>2. LocalsOK' /\ ClaimsDistinct' /\ AttemptsBoundedByRecoveries' /\ FileThere'
  BY DEF IInv, LocalsOK, ClaimsDistinct, AttemptsBoundedByRecoveries,
         FileThere, Busy, RequestCancel, locals, bounds
<1>3. OwnerExecutes'
  BY DEF IInv, TypeOK, OwnerExecutes, LocalsOK, Holds, Executes, Busy,
         RequestCancel, locals, bounds
<1>4. ResultSettled'
  BY DEF IInv, TypeOK, ResultSettled, LocalsOK, Executes, Busy, RequestCancel,
         locals, bounds
<1>5. ResultIsFromLatestClaim'
  BY DEF IInv, TypeOK, ResultIsFromLatestClaim, LocalsOK, Busy, RequestCancel,
         locals, bounds
<1>6. ResultKeptUntilTtl'
  BY DEF IInv, TypeOK, ResultKeptUntilTtl, LocalsOK, Busy, RequestCancel,
         locals, bounds
<1>7. AttemptsLeft'
  BY DEF IInv, TypeOK, AttemptsLeft, LocalsOK, Busy, RequestCancel, locals,
         bounds
<1>8. LeaseGuards'
  BY DEF IInv, TypeOK, LeaseGuards, LocalsOK, Holds, Executes, Busy,
         RequestCancel, locals, bounds
<1>9. SweepSettled'
  BY DEF IInv, TypeOK, SweepSettled, LocalsOK, Terminal, Busy, RequestCancel,
         locals, bounds
<1> QED BY <1>1, <1>2, <1>3, <1>4, <1>5, <1>6, <1>7, <1>8, <1>9 DEF IInv

(* recover_stale_jobs by a new worker. *)
LEMMA StartWorkerStep ==
  ASSUME IInv, NEW w \in Workers, StartWorker(w)
  PROVE  IInv'
<1>1. TypeOK'
  BY DEF IInv, TypeOK, StartWorker, RecoverStatus, RecoverOwner, RecoverLease,
         RecoverBackoff, RecoverCount, Stale, bounds, Statuses, Terminal,
         ChildStates, LiveChild, Places, Busy
<1>2. LocalsOK'
  BY DEF IInv, TypeOK, LocalsOK, Busy, StartWorker, RecoverStatus,
         RecoverOwner, RecoverLease, RecoverBackoff, RecoverCount, Stale,
         bounds
<1>3. ClaimsDistinct'
  BY DEF IInv, TypeOK, ClaimsDistinct, LocalsOK, Busy, StartWorker,
         RecoverStatus, RecoverOwner, RecoverLease, RecoverBackoff,
         RecoverCount, Stale, bounds
<1>4. OwnerExecutes'
  BY DEF IInv, TypeOK, OwnerExecutes, LocalsOK, Holds, Executes, Busy,
         StartWorker, RecoverStatus, RecoverOwner, RecoverLease,
         RecoverBackoff, RecoverCount, Stale, bounds
<1>5. ResultSettled'
  BY DEF IInv, TypeOK, ResultSettled, LocalsOK, Executes, Busy, StartWorker,
         RecoverStatus, RecoverOwner, RecoverLease, RecoverBackoff,
         RecoverCount, Stale, bounds
<1>6. ResultIsFromLatestClaim'
  BY DEF IInv, TypeOK, ResultIsFromLatestClaim, LocalsOK, Busy, StartWorker,
         RecoverStatus, RecoverOwner, RecoverLease, RecoverBackoff,
         RecoverCount, Stale, bounds
<1>7. ResultKeptUntilTtl'
  BY DEF IInv, TypeOK, ResultKeptUntilTtl, LocalsOK, Busy, StartWorker,
         RecoverStatus, RecoverOwner, RecoverLease, RecoverBackoff,
         RecoverCount, Stale, bounds
<1>8. AttemptsLeft'
  BY MaxAttemptsAssumption, NoWorkerAssumption DEF IInv, TypeOK, AttemptsLeft,
         LocalsOK, AttemptsBoundedByRecoveries, Busy, StartWorker,
         RecoverStatus, RecoverOwner, RecoverLease, RecoverBackoff,
         RecoverCount, Stale, bounds
<1>9. AttemptsBoundedByRecoveries'
  BY MaxAttemptsAssumption DEF IInv, TypeOK, AttemptsBoundedByRecoveries,
         LocalsOK, Busy, StartWorker, RecoverStatus, RecoverOwner,
         RecoverLease, RecoverBackoff, RecoverCount, Stale, bounds
<1>10. FileThere'
  BY DEF IInv, TypeOK, FileThere, LocalsOK, Busy, StartWorker, RecoverStatus,
         RecoverOwner, RecoverLease, RecoverBackoff, RecoverCount, Stale,
         bounds
<1>11. LeaseGuards'
  BY DEF IInv, TypeOK, LeaseGuards, LocalsOK, Holds, Executes, Busy,
         StartWorker, RecoverStatus, RecoverOwner, RecoverLease,
         RecoverBackoff, RecoverCount, Stale, bounds
<1>12. SweepSettled'
  BY DEF IInv, TypeOK, SweepSettled, LocalsOK, Terminal, Busy, StartWorker,
         RecoverStatus, RecoverOwner, RecoverLease, RecoverBackoff,
         RecoverCount, Stale, bounds
<1> QED BY <1>1, <1>2, <1>3, <1>4, <1>5, <1>6, <1>7, <1>8, <1>9, <1>10, <1>11, <1>12 DEF IInv

(* claim_next_job. *)
LEMMA ClaimStep ==
  ASSUME IInv, NEW w \in Workers, NEW j \in Jobs, Claim(w, j)
  PROVE  IInv'
<1>1. TypeOK'
  BY DEF IInv, TypeOK, Claim, Claimable, Ready, RecoverStatus, RecoverOwner,
         RecoverLease, RecoverBackoff, RecoverCount, Stale, bounds, Statuses,
         Terminal, ChildStates, LiveChild, Places, Busy
<1>2. LocalsOK'
  BY DEF IInv, TypeOK, LocalsOK, Busy, Claim, Claimable, Ready, RecoverStatus,
         RecoverOwner, RecoverLease, RecoverBackoff, RecoverCount, Stale,
         bounds
<1>3. ClaimsDistinct'
  BY DEF IInv, TypeOK, ClaimsDistinct, LocalsOK, Busy, Claim, Claimable,
         Ready, RecoverStatus, RecoverOwner, RecoverLease, RecoverBackoff,
         RecoverCount, Stale, bounds
<1>4. OwnerExecutes'
  BY DEF IInv, TypeOK, OwnerExecutes, LocalsOK, Holds, Executes, Busy, Claim,
         Claimable, Ready, RecoverStatus, RecoverOwner, RecoverLease,
         RecoverBackoff, RecoverCount, Stale, bounds
<1>5. ResultSettled'
  <2>1. result_path[j] = 0
    BY DEF IInv, TypeOK, ResultSettled, Claim, Claimable, Ready, Stale
  <2>2. \A k \in Jobs : result_path[k] <= attempts'[k]
    BY DEF IInv, TypeOK, ResultSettled, Claim
  <2>3. ASSUME NEW k \in Jobs, result_path[k] # 0
        PROVE  /\ lease_owner'[k] = NoWorker
               /\ status'[k] \in {"complete", "cancelled"}
    BY <2>1, <2>3 DEF IInv, TypeOK, ResultSettled, Claim, RecoverStatus, RecoverOwner, Stale
  <2>4. ASSUME NEW k \in Jobs, NEW v \in Workers, Executes(v, k)'
        PROVE  attempt'[v] # result_path[k]
    <3>1. CASE v = w
      BY <2>1, <2>4, <3>1 DEF IInv, TypeOK, Claim, Executes
    <3>2. CASE v # w
      BY <2>4, <3>2 DEF IInv, TypeOK, ResultSettled, Claim, Executes
    <3> QED BY <3>1, <3>2
  <2> QED BY <2>2, <2>3, <2>4 DEF ResultSettled, Claim
<1>6. ResultIsFromLatestClaim'
  BY DEF IInv, TypeOK, ResultIsFromLatestClaim, LocalsOK, Busy, Claim,
         Claimable, Ready, RecoverStatus, RecoverOwner, RecoverLease,
         RecoverBackoff, RecoverCount, Stale, bounds
<1>7. ResultKeptUntilTtl'
  BY DEF IInv, TypeOK, ResultKeptUntilTtl, LocalsOK, Busy, Claim, Claimable,
         Ready, RecoverStatus, RecoverOwner, RecoverLease, RecoverBackoff,
         RecoverCount, Stale, bounds
<1>8. AttemptsLeft'
  BY MaxAttemptsAssumption, NoWorkerAssumption DEF IInv, TypeOK, AttemptsLeft,
         LocalsOK, AttemptsBoundedByRecoveries, Busy, Claim, Claimable, Ready,
         RecoverStatus, RecoverOwner, RecoverLease, RecoverBackoff,
         RecoverCount, Stale, bounds
<1>9. AttemptsBoundedByRecoveries'
  BY MaxAttemptsAssumption DEF IInv, TypeOK, AttemptsBoundedByRecoveries,
         AttemptsLeft, Claim, Claimable, Ready, RecoverStatus, RecoverOwner,
         RecoverLease, RecoverBackoff, RecoverCount, Stale, bounds
<1>10. FileThere'
  BY DEF IInv, TypeOK, FileThere, LocalsOK, Busy, Claim, Claimable, Ready,
         RecoverStatus, RecoverOwner, RecoverLease, RecoverBackoff,
         RecoverCount, Stale, bounds
<1>11. LeaseGuards'
  BY DEF IInv, TypeOK, LeaseGuards, LocalsOK, Holds, Executes, Busy, Claim,
         Claimable, Ready, RecoverStatus, RecoverOwner, RecoverLease,
         RecoverBackoff, RecoverCount, Stale, bounds
<1>12. SweepSettled'
  BY DEF IInv, TypeOK, SweepSettled, LocalsOK, Terminal, Busy, Claim,
         Claimable, Ready, RecoverStatus, RecoverOwner, RecoverLease,
         RecoverBackoff, RecoverCount, Stale, bounds
<1> QED BY <1>1, <1>2, <1>3, <1>4, <1>5, <1>6, <1>7, <1>8, <1>9, <1>10, <1>11, <1>12 DEF IInv

(* The child checks the status. *)
LEMMA ChildStartsStep ==
  ASSUME IInv, NEW w \in Workers, ChildStarts(w)
  PROVE  IInv'
<1>1. TypeOK'
  BY DEF IInv, TypeOK, ChildStarts, ChildMoves, columns, bounds, Statuses,
         Terminal, ChildStates, LiveChild, Places, Busy
<1>2. /\ LocalsOK' /\ ClaimsDistinct' /\ OwnerExecutes' /\ ResultSettled'
     /\ ResultIsFromLatestClaim' /\ ResultKeptUntilTtl' /\ AttemptsLeft'
     /\ AttemptsBoundedByRecoveries' /\ LeaseGuards' /\ SweepSettled'
  BY DEF IInv, LocalsOK, ClaimsDistinct, OwnerExecutes, ResultSettled,
         ResultIsFromLatestClaim, ResultKeptUntilTtl, AttemptsLeft,
         AttemptsBoundedByRecoveries, LeaseGuards, SweepSettled, Busy, Holds,
         Executes, Terminal, ChildStarts, ChildMoves, columns, bounds
<1>3. FileThere'
  BY DEF IInv, TypeOK, FileThere, LocalsOK, Busy, ChildStarts, ChildMoves,
         columns, bounds
<1> QED BY <1>1, <1>2, <1>3 DEF IInv

(* The child fails. *)
LEMMA ChildFailsStep ==
  ASSUME IInv, NEW w \in Workers, ChildFails(w)
  PROVE  IInv'
<1>1. TypeOK'
  BY DEF IInv, TypeOK, ChildFails, ChildMoves, columns, bounds, Statuses,
         Terminal, ChildStates, LiveChild, Places, Busy
<1>2. /\ LocalsOK' /\ ClaimsDistinct' /\ OwnerExecutes' /\ ResultSettled'
     /\ ResultIsFromLatestClaim' /\ ResultKeptUntilTtl' /\ AttemptsLeft'
     /\ AttemptsBoundedByRecoveries' /\ LeaseGuards' /\ SweepSettled'
  BY DEF IInv, LocalsOK, ClaimsDistinct, OwnerExecutes, ResultSettled,
         ResultIsFromLatestClaim, ResultKeptUntilTtl, AttemptsLeft,
         AttemptsBoundedByRecoveries, LeaseGuards, SweepSettled, Busy, Holds,
         Executes, Terminal, ChildFails, ChildMoves, columns, bounds
<1>3. FileThere'
  BY DEF IInv, TypeOK, FileThere, LocalsOK, Busy, ChildFails, ChildMoves,
         columns, bounds
<1> QED BY <1>1, <1>2, <1>3 DEF IInv

(* The child leaves its result. *)
LEMMA ChildWritesStep ==
  ASSUME IInv, NEW w \in Workers, ChildWrites(w)
  PROVE  IInv'
<1>1. TypeOK'
  BY DEF IInv, TypeOK, ChildWrites, ChildMoves, columns, bounds, Statuses,
         Terminal, ChildStates, LiveChild, Places, Busy, LocalsOK
<1>2. /\ LocalsOK' /\ ClaimsDistinct' /\ OwnerExecutes' /\ ResultSettled'
     /\ ResultIsFromLatestClaim' /\ AttemptsLeft' /\ AttemptsBoundedByRecoveries'
     /\ LeaseGuards' /\ SweepSettled'
  BY DEF IInv, LocalsOK, ClaimsDistinct, OwnerExecutes, ResultSettled,
         ResultIsFromLatestClaim, AttemptsLeft, AttemptsBoundedByRecoveries,
         LeaseGuards, SweepSettled, Busy, Holds, Executes, Terminal,
         ChildWrites, ChildMoves, columns, bounds
<1>3. ResultKeptUntilTtl'
  BY DEF IInv, TypeOK, ResultKeptUntilTtl, LocalsOK, Busy, ChildWrites,
         ChildMoves, columns, bounds
<1>4. FileThere'
  BY DEF IInv, TypeOK, FileThere, LocalsOK, Busy, ChildWrites, ChildMoves,
         columns, bounds
<1> QED BY <1>1, <1>2, <1>3, <1>4 DEF IInv

(* The child exits. *)
LEMMA ChildExitsStep ==
  ASSUME IInv, NEW w \in Workers, ChildExits(w)
  PROVE  IInv'
<1>1. TypeOK'
  BY DEF IInv, TypeOK, ChildExits, ChildMoves, columns, bounds, Statuses,
         Terminal, ChildStates, LiveChild, Places, Busy
<1>2. /\ LocalsOK' /\ ClaimsDistinct' /\ OwnerExecutes' /\ ResultSettled'
     /\ ResultIsFromLatestClaim' /\ ResultKeptUntilTtl' /\ AttemptsLeft'
     /\ AttemptsBoundedByRecoveries' /\ LeaseGuards' /\ SweepSettled'
  BY DEF IInv, LocalsOK, ClaimsDistinct, OwnerExecutes, ResultSettled,
         ResultIsFromLatestClaim, ResultKeptUntilTtl, AttemptsLeft,
         AttemptsBoundedByRecoveries, LeaseGuards, SweepSettled, Busy, Holds,
         Executes, Terminal, ChildExits, ChildMoves, columns, bounds
<1>3. FileThere'
  BY DEF IInv, TypeOK, FileThere, LocalsOK, Busy, ChildExits, ChildMoves,
         columns, bounds
<1> QED BY <1>1, <1>2, <1>3 DEF IInv

(* renew_lease. *)
LEMMA RenewLeaseStep ==
  ASSUME IInv, NEW w \in Workers, RenewLease(w)
  PROVE  IInv'
<1>1. TypeOK'
  BY DEF IInv, TypeOK, RenewLease, Holds, locals, bounds, Statuses, Terminal,
         ChildStates, LiveChild, Places, Busy
<1>2. /\ LocalsOK' /\ ClaimsDistinct' /\ OwnerExecutes' /\ ResultSettled'
     /\ ResultIsFromLatestClaim' /\ ResultKeptUntilTtl' /\ AttemptsLeft'
     /\ AttemptsBoundedByRecoveries' /\ FileThere' /\ SweepSettled'
  BY DEF IInv, LocalsOK, ClaimsDistinct, OwnerExecutes, ResultSettled,
         ResultIsFromLatestClaim, ResultKeptUntilTtl, AttemptsLeft,
         AttemptsBoundedByRecoveries, FileThere, SweepSettled, Busy, Holds,
         Executes, Terminal, RenewLease, locals, bounds
<1>3. LeaseGuards'
  BY DEF IInv, TypeOK, LeaseGuards, LocalsOK, Holds, Executes, Busy,
         RenewLease, locals, bounds
<1> QED BY <1>1, <1>2, <1>3 DEF IInv

(* fail_job reads the row and decides. *)
LEMMA FailReadStep ==
  ASSUME IInv, NEW w \in Workers, NEW retryable \in BOOLEAN, FailRead(w, retryable)
  PROVE  IInv'
<1>1. TypeOK'
  BY DEF IInv, TypeOK, FailRead, FailVerdict, columns, bounds, Statuses,
         Terminal, ChildStates, LiveChild, Places, Busy
<1>2. /\ ResultIsFromLatestClaim' /\ ResultKeptUntilTtl'
     /\ AttemptsBoundedByRecoveries'
  BY DEF IInv, ResultIsFromLatestClaim, ResultKeptUntilTtl,
         AttemptsBoundedByRecoveries, FailRead, FailVerdict, columns, bounds
<1>3. LocalsOK'
  BY DEF IInv, TypeOK, LocalsOK, Busy, FailRead, FailVerdict, columns, bounds
<1>4. ClaimsDistinct'
  BY DEF IInv, TypeOK, ClaimsDistinct, LocalsOK, Busy, FailRead, FailVerdict,
         columns, bounds
<1>5. OwnerExecutes'
  BY DEF IInv, TypeOK, OwnerExecutes, LocalsOK, Holds, Executes, Busy,
         FailRead, FailVerdict, columns, bounds
<1>6. ResultSettled'
  BY DEF IInv, TypeOK, ResultSettled, LocalsOK, Executes, Busy, FailRead,
         FailVerdict, columns, bounds
<1>7. AttemptsLeft'
  BY DEF IInv, TypeOK, AttemptsLeft, LocalsOK, Busy, FailRead, FailVerdict,
         columns, bounds
<1>8. FileThere'
  BY DEF IInv, TypeOK, FileThere, LocalsOK, Busy, FailRead, FailVerdict,
         columns, bounds
<1>9. LeaseGuards'
  BY DEF IInv, TypeOK, LeaseGuards, LocalsOK, Holds, Executes, Busy, FailRead,
         FailVerdict, columns, bounds
<1>10. SweepSettled'
  BY DEF IInv, TypeOK, SweepSettled, LocalsOK, Terminal, Busy, FailRead,
         FailVerdict, columns, bounds
<1> QED BY <1>1, <1>2, <1>3, <1>4, <1>5, <1>6, <1>7, <1>8, <1>9, <1>10 DEF IInv

(* fail_job writes. *)
LEMMA FailWriteStep ==
  ASSUME IInv, NEW w \in Workers, FailWrite(w)
  PROVE  IInv'
<1>1. TypeOK'
  <2>1. /\ current[w] \in Jobs
        /\ verdict[w] \in {"cancelled", "retry", "failed"}
    BY DEF IInv, TypeOK, LocalsOK, Busy, FailWrite
  <2>2. /\ status' \in [Jobs -> Statuses]
        /\ available' \in [Jobs -> BOOLEAN]
        /\ lease_owner' \in [Jobs -> Workers \cup {NoWorker}]
        /\ lease' \in [Jobs -> {"none", "live", "lapsed"}]
    <3> /\ status \in [Jobs -> Statuses]
        /\ available \in [Jobs -> BOOLEAN]
        /\ lease_owner \in [Jobs -> Workers \cup {NoWorker}]
        /\ lease \in [Jobs -> {"none", "live", "lapsed"}]
      BY DEF IInv, TypeOK
    <3>1. verdict[w] \in Statuses
      BY <2>1 DEF Statuses, Terminal
    <3>2. CASE MayFail(w, current[w])
      BY <2>1, <3>1, <3>2 DEF FailWrite
    <3>3. CASE ~MayFail(w, current[w])
      BY <3>3 DEF FailWrite
    <3> QED BY <3>2, <3>3
  <2>3. /\ pc' \in [Workers -> Places]
        /\ current' \in [Workers -> Jobs \cup {NoJob}]
        /\ attempt' \in [Workers -> Nat]
        /\ child' \in [Workers -> ChildStates]
        /\ verdict' \in [Workers -> Terminal \cup {"none", "retry"}]
    BY DEF IInv, TypeOK, FailWrite, Finish, Places, ChildStates
  <2> QED BY <2>2, <2>3 DEF IInv, TypeOK, FailWrite, Finish, bounds
<1>2. AttemptsBoundedByRecoveries'
  BY DEF IInv, AttemptsBoundedByRecoveries, FailWrite, MayFail, Finish, bounds
<1>3. LocalsOK'
  BY DEF IInv, TypeOK, LocalsOK, Busy, FailWrite, MayFail, Finish, bounds
<1>4. ClaimsDistinct'
  BY DEF IInv, TypeOK, ClaimsDistinct, LocalsOK, Busy, FailWrite, MayFail,
         Finish, bounds
<1>5. OwnerExecutes'
  BY DEF IInv, TypeOK, OwnerExecutes, LocalsOK, Holds, Executes, Busy,
         FailWrite, MayFail, Finish, bounds
<1>6. ResultSettled'
  BY NoWorkerAssumption DEF IInv, TypeOK, ResultSettled, LocalsOK, Executes,
         Busy, FailWrite, MayFail, Finish, bounds
<1>7. ResultIsFromLatestClaim'
  BY DEF IInv, TypeOK, ResultIsFromLatestClaim, LocalsOK, Busy, FailWrite,
         MayFail, Finish, bounds
<1>8. ResultKeptUntilTtl'
  BY DEF IInv, TypeOK, ResultKeptUntilTtl, LocalsOK, Busy, FailWrite, MayFail,
         Finish, bounds
<1>9. AttemptsLeft'
  BY MaxAttemptsAssumption, NoWorkerAssumption DEF IInv, TypeOK, AttemptsLeft,
         LocalsOK, Busy, FailWrite, MayFail, Finish, bounds
<1>10. FileThere'
  BY DEF IInv, TypeOK, FileThere, LocalsOK, Busy, FailWrite, MayFail, Finish,
         bounds
<1>11. LeaseGuards'
  BY DEF IInv, TypeOK, LeaseGuards, LocalsOK, Holds, Executes, Busy,
         FailWrite, MayFail, Finish, bounds
<1>12. SweepSettled'
  BY DEF IInv, TypeOK, SweepSettled, LocalsOK, LeaseGuards, Terminal, Busy,
         Holds, Executes, FailWrite, MayFail, Finish, bounds
<1> QED BY <1>1, <1>2, <1>3, <1>4, <1>5, <1>6, <1>7, <1>8, <1>9, <1>10, <1>11, <1>12 DEF IInv

(* complete_job reads the row and decides. *)
LEMMA CompleteReadStep ==
  ASSUME IInv, NEW w \in Workers, CompleteRead(w)
  PROVE  IInv'
<1>1. TypeOK'
  BY DEF IInv, TypeOK, CompleteRead, Unlinked, CompleteVerdict, columns, bounds,
         Statuses, Terminal, ChildStates, LiveChild, Places, Busy
<1>2. ResultIsFromLatestClaim' /\ AttemptsBoundedByRecoveries'
  BY DEF IInv, ResultIsFromLatestClaim, AttemptsBoundedByRecoveries,
         CompleteRead, Unlinked, CompleteVerdict, columns, bounds
<1>3. LocalsOK'
  BY DEF IInv, TypeOK, LocalsOK, Busy, CompleteRead, Unlinked, CompleteVerdict, columns,
         bounds
<1>4. ClaimsDistinct'
  BY DEF IInv, TypeOK, ClaimsDistinct, LocalsOK, Busy, CompleteRead, Unlinked,
         CompleteVerdict, columns, bounds
<1>5. OwnerExecutes'
  BY DEF IInv, TypeOK, OwnerExecutes, LocalsOK, Holds, Executes, Busy,
         CompleteRead, Unlinked, CompleteVerdict, columns, bounds
<1>6. ResultSettled'
  BY DEF IInv, TypeOK, ResultSettled, LocalsOK, Executes, Busy, CompleteRead, Unlinked,
         CompleteVerdict, columns, bounds
<1>7. ResultKeptUntilTtl'
  BY DEF IInv, TypeOK, ResultKeptUntilTtl, LocalsOK, ResultSettled, Busy,
         Executes, CompleteRead, Unlinked, CompleteVerdict, columns, bounds
<1>8. AttemptsLeft'
  BY DEF IInv, TypeOK, AttemptsLeft, LocalsOK, Busy, CompleteRead, Unlinked,
         CompleteVerdict, columns, bounds
<1>9. FileThere'
  BY DEF IInv, TypeOK, FileThere, LocalsOK, ClaimsDistinct, Busy,
         CompleteRead, Unlinked, CompleteVerdict, columns, bounds
<1>10. LeaseGuards'
  BY DEF IInv, TypeOK, LeaseGuards, LocalsOK, Holds, Executes, Busy,
         CompleteRead, Unlinked, CompleteVerdict, columns, bounds
<1>11. SweepSettled'
  BY DEF IInv, TypeOK, SweepSettled, LocalsOK, Terminal, Busy, CompleteRead, Unlinked,
         CompleteVerdict, columns, bounds
<1> QED BY <1>1, <1>2, <1>3, <1>4, <1>5, <1>6, <1>7, <1>8, <1>9, <1>10, <1>11 DEF IInv

(* complete_job writes that the job is cancelled. *)
LEMMA CompleteCancelledStep ==
  ASSUME IInv, NEW w \in Workers, CompleteCancelled(w)
  PROVE  IInv'
<1>1. TypeOK'
  BY DEF IInv, TypeOK, CompleteCancelled, Finish, bounds, Statuses, Terminal,
         ChildStates, LiveChild, Places, Busy
<1>2. AttemptsBoundedByRecoveries'
  BY DEF IInv, AttemptsBoundedByRecoveries, CompleteCancelled, Finish, bounds
<1>3. LocalsOK'
  BY DEF IInv, TypeOK, LocalsOK, Busy, CompleteCancelled, Finish, bounds
<1>4. ClaimsDistinct'
  BY DEF IInv, TypeOK, ClaimsDistinct, LocalsOK, Busy, CompleteCancelled,
         Finish, bounds
<1>5. OwnerExecutes'
  BY DEF IInv, TypeOK, OwnerExecutes, LocalsOK, Holds, Executes, Busy,
         CompleteCancelled, Finish, bounds
<1>6. ResultSettled'
  BY DEF IInv, TypeOK, ResultSettled, LocalsOK, Executes, Busy,
         CompleteCancelled, Finish, bounds
<1>7. ResultIsFromLatestClaim'
  BY DEF IInv, TypeOK, ResultIsFromLatestClaim, LocalsOK, Busy,
         CompleteCancelled, Finish, bounds
<1>8. ResultKeptUntilTtl'
  BY DEF IInv, TypeOK, ResultKeptUntilTtl, LocalsOK, Busy, CompleteCancelled,
         Finish, bounds
<1>9. AttemptsLeft'
  BY DEF IInv, TypeOK, AttemptsLeft, LocalsOK, Busy, CompleteCancelled,
         Finish, bounds
<1>10. FileThere'
  BY DEF IInv, TypeOK, FileThere, LocalsOK, Busy, CompleteCancelled, Finish,
         bounds
<1>11. LeaseGuards'
  BY DEF IInv, TypeOK, LeaseGuards, LocalsOK, Holds, Executes, Busy,
         CompleteCancelled, Finish, bounds
<1>12. SweepSettled'
  BY DEF IInv, TypeOK, SweepSettled, LocalsOK, Terminal, Busy,
         CompleteCancelled, Finish, bounds
<1> QED BY <1>1, <1>2, <1>3, <1>4, <1>5, <1>6, <1>7, <1>8, <1>9, <1>10, <1>11, <1>12 DEF IInv

(* complete_job publishes the result. *)
LEMMA CompleteWriteStep ==
  ASSUME IInv, NEW w \in Workers, CompleteWrite(w)
  PROVE  IInv'
<1>1. TypeOK'
  BY DEF IInv, TypeOK, CompleteWrite, MayComplete, Holds, Finish, bounds,
         Statuses, Terminal, ChildStates, LiveChild, Places, Busy
<1>2. AttemptsBoundedByRecoveries'
  BY DEF IInv, AttemptsBoundedByRecoveries, CompleteWrite, MayComplete, Holds,
         Finish, bounds
<1>3. LocalsOK'
  BY DEF IInv, TypeOK, LocalsOK, Busy, CompleteWrite, MayComplete, Holds,
         Finish, bounds
<1>4. ClaimsDistinct'
  BY DEF IInv, TypeOK, ClaimsDistinct, LocalsOK, Busy, CompleteWrite,
         MayComplete, Holds, Finish, bounds
<1>5. OwnerExecutes'
  BY DEF IInv, TypeOK, OwnerExecutes, LocalsOK, Holds, Executes, Busy,
         CompleteWrite, MayComplete, Finish, bounds
<1>6. ResultSettled'
  BY DEF IInv, TypeOK, ResultSettled, LocalsOK, OwnerExecutes, ClaimsDistinct,
         Executes, Busy, Holds, CompleteWrite, MayComplete, Finish, bounds
<1>7. ResultIsFromLatestClaim'
  BY DEF IInv, TypeOK, ResultIsFromLatestClaim, LocalsOK, OwnerExecutes, Busy,
         Holds, Executes, CompleteWrite, MayComplete, Finish, bounds
<1>8. ResultKeptUntilTtl'
  BY DEF IInv, TypeOK, ResultKeptUntilTtl, LocalsOK, FileThere, Busy,
         CompleteWrite, MayComplete, Holds, Finish, bounds
<1>9. AttemptsLeft'
  BY NoWorkerAssumption DEF IInv, TypeOK, AttemptsLeft, LocalsOK, Busy,
         CompleteWrite, MayComplete, Holds, Finish, bounds
<1>10. FileThere'
  BY DEF IInv, TypeOK, FileThere, LocalsOK, Busy, CompleteWrite, MayComplete,
         Holds, Finish, bounds
<1>11. LeaseGuards'
  BY DEF IInv, TypeOK, LeaseGuards, LocalsOK, Holds, Executes, Busy,
         CompleteWrite, MayComplete, Finish, bounds
<1>12. SweepSettled'
  BY DEF IInv, TypeOK, SweepSettled, LocalsOK, Terminal, Busy, CompleteWrite,
         MayComplete, Holds, Finish, bounds
<1> QED BY <1>1, <1>2, <1>3, <1>4, <1>5, <1>6, <1>7, <1>8, <1>9, <1>10, <1>11, <1>12 DEF IInv

(* purge_old_jobs selects. *)
LEMMA SweepSelectStep ==
  ASSUME IInv, NEW w \in Workers, SweepSelect(w)
  PROVE  IInv'
<1>1. TypeOK'
  BY DEF IInv, TypeOK, SweepSelect, Expirable, columns, bounds, Statuses,
         Terminal, ChildStates, LiveChild, Places, Busy
<1>2. /\ ResultIsFromLatestClaim' /\ ResultKeptUntilTtl'
     /\ AttemptsBoundedByRecoveries'
  BY DEF IInv, ResultIsFromLatestClaim, ResultKeptUntilTtl,
         AttemptsBoundedByRecoveries, SweepSelect, Expirable, columns, bounds
<1>3. LocalsOK'
  BY DEF IInv, TypeOK, LocalsOK, Busy, SweepSelect, Expirable, columns, bounds
<1>4. ClaimsDistinct'
  BY DEF IInv, TypeOK, ClaimsDistinct, LocalsOK, Busy, SweepSelect, Expirable,
         columns, bounds
<1>5. OwnerExecutes'
  BY DEF IInv, TypeOK, OwnerExecutes, LocalsOK, Holds, Executes, Busy,
         SweepSelect, Expirable, columns, bounds
<1>6. ResultSettled'
  BY DEF IInv, TypeOK, ResultSettled, LocalsOK, Executes, Busy, SweepSelect,
         Expirable, columns, bounds
<1>7. AttemptsLeft'
  BY DEF IInv, TypeOK, AttemptsLeft, LocalsOK, Busy, SweepSelect, Expirable,
         columns, bounds
<1>8. FileThere'
  BY DEF IInv, TypeOK, FileThere, LocalsOK, Busy, SweepSelect, Expirable,
         columns, bounds
<1>9. LeaseGuards'
  BY DEF IInv, TypeOK, LeaseGuards, LocalsOK, Holds, Executes, Busy,
         SweepSelect, Expirable, columns, bounds
<1>10. SweepSettled'
  BY DEF IInv, TypeOK, SweepSettled, LocalsOK, Terminal, Busy, SweepSelect,
         Expirable, columns, bounds
<1> QED BY <1>1, <1>2, <1>3, <1>4, <1>5, <1>6, <1>7, <1>8, <1>9, <1>10 DEF IInv

(* purge_old_jobs unlinks a result. *)
LEMMA SweepUnlinkStep ==
  ASSUME IInv, NEW w \in Workers, NEW row \in sweep[w], SweepUnlink(w, row)
  PROVE  IInv'
<1>1. TypeOK'
  BY DEF IInv, TypeOK, SweepUnlink, Unlinked, columns, bounds, Statuses, Terminal,
         ChildStates, LiveChild, Places, Busy
<1>2. ResultIsFromLatestClaim' /\ AttemptsBoundedByRecoveries'
  BY DEF IInv, ResultIsFromLatestClaim, AttemptsBoundedByRecoveries,
         SweepUnlink, Unlinked, columns, bounds
<1>3. LocalsOK'
  BY DEF IInv, TypeOK, LocalsOK, Busy, SweepUnlink, Unlinked, columns, bounds
<1>4. ClaimsDistinct'
  BY DEF IInv, TypeOK, ClaimsDistinct, LocalsOK, Busy, SweepUnlink, Unlinked, columns,
         bounds
<1>5. OwnerExecutes'
  BY DEF IInv, TypeOK, OwnerExecutes, LocalsOK, Holds, Executes, Busy,
         SweepUnlink, Unlinked, columns, bounds
<1>6. ResultSettled'
  BY DEF IInv, TypeOK, ResultSettled, LocalsOK, Executes, Busy, SweepUnlink, Unlinked,
         columns, bounds
<1>7. ResultKeptUntilTtl'
  BY DEF IInv, TypeOK, ResultKeptUntilTtl, FileThere, Busy, SweepUnlink, Unlinked,
         columns, bounds
<1>8. AttemptsLeft'
  BY DEF IInv, TypeOK, AttemptsLeft, LocalsOK, Busy, SweepUnlink, Unlinked, columns,
         bounds
<1>9. FileThere'
  BY DEF IInv, TypeOK, FileThere, LocalsOK, Busy, SweepUnlink, Unlinked, columns, bounds
<1>10. LeaseGuards'
  BY DEF IInv, TypeOK, LeaseGuards, LocalsOK, Holds, Executes, Busy,
         SweepUnlink, Unlinked, columns, bounds
<1>11. SweepSettled'
  <2>1. UNCHANGED <<columns, sweep, bounds>>
    BY DEF SweepUnlink
  <2>2. row = <<row[1], row[2]>>
    BY DEF IInv, TypeOK
  <2>3. ASSUME NEW v \in Workers, pc'[v] = "marking"
        PROVE  <<current'[v], attempt'[v]>> \in sweep[v]
    <3>1. CASE v = w
      BY <2>2, <3>1 DEF IInv, TypeOK, SweepUnlink
    <3>2. CASE v # w
      BY <2>3, <3>2 DEF IInv, TypeOK, SweepSettled, SweepUnlink
    <3> QED
      BY <3>1, <3>2
  <2> QED
    BY <2>1, <2>3 DEF IInv, SweepSettled, columns, bounds
<1> QED BY <1>1, <1>2, <1>3, <1>4, <1>5, <1>6, <1>7, <1>8, <1>9, <1>10, <1>11 DEF IInv

(* purge_old_jobs marks the row. *)
LEMMA SweepMarkStep ==
  ASSUME IInv, NEW w \in Workers, SweepMark(w)
  PROVE  IInv'
<1>1. TypeOK'
  BY DEF IInv, TypeOK, SweepMark, bounds, Statuses, Terminal, ChildStates,
         LiveChild, Places, Busy
<1>2. AttemptsBoundedByRecoveries'
  BY DEF IInv, AttemptsBoundedByRecoveries, SweepMark, bounds
<1>3. LocalsOK'
  BY DEF IInv, TypeOK, LocalsOK, Busy, SweepMark, bounds
<1>4. ClaimsDistinct'
  BY DEF IInv, TypeOK, ClaimsDistinct, LocalsOK, Busy, SweepMark, bounds
<1>5. OwnerExecutes'
  BY DEF IInv, TypeOK, OwnerExecutes, LocalsOK, Holds, Executes, Busy,
         SweepMark, bounds
<1>6. ResultSettled'
  BY DEF IInv, TypeOK, ResultSettled, LocalsOK, Executes, Busy, SweepMark,
         bounds
<1>7. ResultIsFromLatestClaim'
  BY DEF IInv, TypeOK, ResultIsFromLatestClaim, LocalsOK, Busy, SweepMark,
         bounds
<1>8. ResultKeptUntilTtl'
  BY DEF IInv, TypeOK, ResultKeptUntilTtl, LocalsOK, Busy, SweepMark, bounds
<1>9. AttemptsLeft'
  BY DEF IInv, TypeOK, AttemptsLeft, LocalsOK, Busy, SweepMark, bounds
<1>10. FileThere'
  BY DEF IInv, TypeOK, FileThere, LocalsOK, Busy, SweepMark, bounds
<1>11. LeaseGuards'
  <2> SUFFICES ASSUME stalls = 0
               PROVE  /\ \A v \in Workers : pc'[v] \in Busy => Holds(v, current[v])'
                      /\ \A j \in Jobs : lease[j] = "lapsed" => ~Executes(lease_owner[j], j)'
    BY DEF LeaseGuards, SweepMark, bounds
  <2>1. status[current[w]] \in Terminal \cup {"expired"}
    BY DEF IInv, TypeOK, SweepSettled, SweepMark
  <2>2. ASSUME NEW v \in Workers, pc'[v] \in Busy
        PROVE  Holds(v, current[v])'
    <3>1. v # w /\ pc[v] \in Busy /\ current'[v] = current[v]
      BY <2>2 DEF IInv, TypeOK, SweepMark, Busy
    <3>2. Holds(v, current[v]) /\ current[v] \in Jobs
      BY <3>1 DEF IInv, LeaseGuards, LocalsOK
    <3>3. current[v] # current[w]
      BY <2>1, <3>2 DEF Holds, Terminal
    <3> QED BY <3>1, <3>2, <3>3 DEF IInv, TypeOK, SweepMark, Holds
  <2>3. ASSUME NEW j \in Jobs, lease[j] = "lapsed"
        PROVE  ~Executes(lease_owner[j], j)'
    <3>1. ~Executes(lease_owner[j], j) /\ lease_owner'[j] = lease_owner[j]
      BY <2>3 DEF IInv, LeaseGuards, SweepMark
    <3> QED BY <3>1, NoJobAssumption DEF IInv, TypeOK, SweepMark, Executes, Busy
  <2> QED BY <2>2, <2>3
<1>12. SweepSettled'
  BY DEF IInv, TypeOK, SweepSettled, LocalsOK, Terminal, Busy, SweepMark,
         bounds
<1> QED BY <1>1, <1>2, <1>3, <1>4, <1>5, <1>6, <1>7, <1>8, <1>9, <1>10, <1>11, <1>12 DEF IInv

(* A worker ends. *)
LEMMA ExitStep ==
  ASSUME IInv, NEW w \in Workers, Exit(w)
  PROVE  IInv'
<1>1. TypeOK'
  BY DEF IInv, TypeOK, Exit, columns, Statuses, Terminal, ChildStates,
         LiveChild, Places, Busy, LocalsOK
<1>2. /\ ResultIsFromLatestClaim' /\ ResultKeptUntilTtl'
     /\ AttemptsBoundedByRecoveries'
  BY DEF IInv, ResultIsFromLatestClaim, ResultKeptUntilTtl,
         AttemptsBoundedByRecoveries, Exit, columns
<1>3. LocalsOK'
  BY DEF IInv, TypeOK, LocalsOK, Busy, Exit, columns
<1>4. ClaimsDistinct'
  BY DEF IInv, TypeOK, ClaimsDistinct, LocalsOK, Busy, Exit, columns
<1>5. OwnerExecutes'
  BY DEF IInv, TypeOK, OwnerExecutes, LocalsOK, Holds, Executes, Busy, Exit,
         columns
<1>6. ResultSettled'
  BY DEF IInv, TypeOK, ResultSettled, LocalsOK, Executes, Busy, Exit, columns
<1>7. AttemptsLeft'
  BY DEF IInv, TypeOK, AttemptsLeft, LocalsOK, Busy, Exit, columns
<1>8. FileThere'
  BY DEF IInv, TypeOK, FileThere, LocalsOK, Busy, Exit, columns
<1>9. LeaseGuards'
  BY DEF IInv, TypeOK, LeaseGuards, LocalsOK, Holds, Executes, Busy, Exit,
         columns
<1>10. SweepSettled'
  BY DEF IInv, TypeOK, SweepSettled, LocalsOK, Terminal, Busy, Exit, columns
<1> QED BY <1>1, <1>2, <1>3, <1>4, <1>5, <1>6, <1>7, <1>8, <1>9, <1>10 DEF IInv

(* An orphan ends. *)
LEMMA OrphanEndsStep ==
  ASSUME IInv, NEW o \in orphans, OrphanEnds(o)
  PROVE  IInv'
<1>1. TypeOK'
  BY DEF IInv, TypeOK, OrphanEnds, columns, locals, bounds, Statuses,
         Terminal, ChildStates, LiveChild, Places, Busy
<1>2. /\ LocalsOK' /\ ClaimsDistinct' /\ OwnerExecutes' /\ ResultSettled'
     /\ ResultIsFromLatestClaim' /\ AttemptsLeft' /\ AttemptsBoundedByRecoveries'
     /\ LeaseGuards' /\ SweepSettled'
  BY DEF IInv, LocalsOK, ClaimsDistinct, OwnerExecutes, ResultSettled,
         ResultIsFromLatestClaim, AttemptsLeft, AttemptsBoundedByRecoveries,
         LeaseGuards, SweepSettled, Busy, Holds, Executes, Terminal,
         OrphanEnds, columns, locals, bounds
<1>3. ResultKeptUntilTtl'
  BY DEF IInv, TypeOK, ResultKeptUntilTtl, LocalsOK, Busy, OrphanEnds,
         columns, locals, bounds
<1>4. FileThere'
  BY DEF IInv, TypeOK, FileThere, LocalsOK, Busy, OrphanEnds, columns, locals,
         bounds
<1> QED BY <1>1, <1>2, <1>3, <1>4 DEF IInv

(* A lease nobody renews runs out. *)
LEMMA LeaseRunsOutStep ==
  ASSUME IInv, NEW j \in Jobs, LeaseRunsOut(j)
  PROVE  IInv'
<1>1. TypeOK'
  BY DEF IInv, TypeOK, LeaseRunsOut, locals, bounds, Statuses, Terminal,
         ChildStates, LiveChild, Places, Busy
<1>2. /\ LocalsOK' /\ ClaimsDistinct' /\ OwnerExecutes' /\ ResultSettled'
     /\ ResultIsFromLatestClaim' /\ ResultKeptUntilTtl' /\ AttemptsLeft'
     /\ AttemptsBoundedByRecoveries' /\ FileThere' /\ SweepSettled'
  BY DEF IInv, LocalsOK, ClaimsDistinct, OwnerExecutes, ResultSettled,
         ResultIsFromLatestClaim, ResultKeptUntilTtl, AttemptsLeft,
         AttemptsBoundedByRecoveries, FileThere, SweepSettled, Busy, Holds,
         Executes, Terminal, LeaseRunsOut, locals, bounds
<1>3. LeaseGuards'
  BY DEF IInv, TypeOK, LeaseGuards, LocalsOK, Holds, Executes, Busy,
         LeaseRunsOut, locals, bounds
<1> QED BY <1>1, <1>2, <1>3 DEF IInv

(* A lease runs out under its owner. *)
LEMMA StallStep ==
  ASSUME IInv, NEW j \in Jobs, Stall(j)
  PROVE  IInv'
<1>1. TypeOK'
  BY DEF IInv, TypeOK, Stall, locals, Statuses, Terminal, ChildStates,
         LiveChild, Places, Busy
<1>2. /\ LocalsOK' /\ ClaimsDistinct' /\ OwnerExecutes' /\ ResultSettled'
     /\ ResultIsFromLatestClaim' /\ ResultKeptUntilTtl' /\ AttemptsLeft'
     /\ AttemptsBoundedByRecoveries' /\ FileThere'
  BY DEF IInv, LocalsOK, ClaimsDistinct, OwnerExecutes, ResultSettled,
         ResultIsFromLatestClaim, ResultKeptUntilTtl, AttemptsLeft,
         AttemptsBoundedByRecoveries, FileThere, Busy, Holds, Executes, Stall,
         locals
<1>3. LeaseGuards'
  BY DEF IInv, TypeOK, LeaseGuards, LocalsOK, Holds, Executes, Busy, Stall,
         locals
<1>4. SweepSettled'
  BY DEF IInv, TypeOK, SweepSettled, LocalsOK, Terminal, Busy, Stall, locals
<1> QED BY <1>1, <1>2, <1>3, <1>4 DEF IInv

(* The backoff is over. *)
LEMMA BackoffElapsesStep ==
  ASSUME IInv, NEW j \in Jobs, BackoffElapses(j)
  PROVE  IInv'
<1>1. TypeOK'
  BY DEF IInv, TypeOK, BackoffElapses, locals, bounds, Statuses, Terminal,
         ChildStates, LiveChild, Places, Busy
<1>2. /\ LocalsOK' /\ ClaimsDistinct' /\ OwnerExecutes' /\ ResultSettled'
     /\ ResultIsFromLatestClaim' /\ ResultKeptUntilTtl' /\ AttemptsLeft'
     /\ AttemptsBoundedByRecoveries' /\ FileThere' /\ LeaseGuards'
     /\ SweepSettled'
  BY DEF IInv, LocalsOK, ClaimsDistinct, OwnerExecutes, ResultSettled,
         ResultIsFromLatestClaim, ResultKeptUntilTtl, AttemptsLeft,
         AttemptsBoundedByRecoveries, FileThere, LeaseGuards, SweepSettled,
         Busy, Holds, Executes, Terminal, BackoffElapses, locals, bounds
<1> QED BY <1>1, <1>2 DEF IInv

(* The TTL is over. *)
LEMMA TtlElapsesStep ==
  ASSUME IInv, NEW j \in Jobs, TtlElapses(j)
  PROVE  IInv'
<1>1. TypeOK'
  BY DEF IInv, TypeOK, TtlElapses, locals, bounds, Statuses, Terminal,
         ChildStates, LiveChild, Places, Busy
<1>2. /\ LocalsOK' /\ ClaimsDistinct' /\ OwnerExecutes' /\ ResultSettled'
     /\ ResultIsFromLatestClaim' /\ AttemptsLeft' /\ AttemptsBoundedByRecoveries'
     /\ LeaseGuards' /\ SweepSettled'
  BY DEF IInv, LocalsOK, ClaimsDistinct, OwnerExecutes, ResultSettled,
         ResultIsFromLatestClaim, AttemptsLeft, AttemptsBoundedByRecoveries,
         LeaseGuards, SweepSettled, Busy, Holds, Executes, Terminal,
         TtlElapses, locals, bounds
<1>3. ResultKeptUntilTtl'
  BY DEF IInv, TypeOK, ResultKeptUntilTtl, LocalsOK, Busy, TtlElapses, locals,
         bounds
<1>4. FileThere'
  BY DEF IInv, TypeOK, FileThere, LocalsOK, Busy, TtlElapses, locals, bounds
<1> QED BY <1>1, <1>2, <1>3, <1>4 DEF IInv

-----------------------------------------------------------------------------
LEMMA InitIInv == Init => IInv
<1> SUFFICES ASSUME Init PROVE IInv
  OBVIOUS
<1>1. TypeOK
  BY NoJobAssumption DEF Init, TypeOK, Statuses, Places, ChildStates
<1>2. LocalsOK /\ ClaimsDistinct /\ OwnerExecutes /\ ResultSettled
  BY DEF Init, LocalsOK, ClaimsDistinct, OwnerExecutes, ResultSettled, Holds,
         Executes, Busy
<1>3. ResultIsFromLatestClaim /\ ResultKeptUntilTtl
  BY DEF Init, ResultIsFromLatestClaim, ResultKeptUntilTtl
<1>4. AttemptsLeft /\ AttemptsBoundedByRecoveries
  BY MaxAttemptsAssumption DEF Init, AttemptsLeft, AttemptsBoundedByRecoveries
<1>5. FileThere /\ LeaseGuards /\ SweepSettled
  BY DEF Init, FileThere, LeaseGuards, SweepSettled, Busy
<1> QED BY <1>1, <1>2, <1>3, <1>4, <1>5 DEF IInv

(* Every step preserves the invariant. *)
LEMMA NextIInv == IInv /\ [Next]_vars => IInv'
<1> SUFFICES ASSUME IInv, [Next]_vars PROVE IInv'
  OBVIOUS
<1>1. CASE UNCHANGED vars
  BY <1>1, StutterStep
<1>2. ASSUME NEW w \in Workers, WorkerStep(w)
      PROVE  IInv'
  <2>1. CASE StartWorker(w)
    BY <2>1, StartWorkerStep
  <2>2. CASE \E j \in Jobs : Claim(w, j)
    BY <2>2, ClaimStep
  <2>3. CASE ChildStarts(w) \/ ChildFails(w) \/ ChildWrites(w) \/ ChildExits(w)
    BY <2>3, ChildStartsStep, ChildFailsStep, ChildWritesStep, ChildExitsStep
  <2>4. CASE RenewLease(w)
    BY <2>4, RenewLeaseStep
  <2>5. CASE SeeCancel(w) \/ Deadline(w) \/ SeeFailure(w) \/ SeeGarbled(w)
    <3>1. \E retryable \in BOOLEAN : FailRead(w, retryable)
      BY <2>5 DEF SeeCancel, Deadline, SeeFailure, SeeGarbled
    <3> QED BY <3>1, FailReadStep
  <2>6. CASE FailWrite(w)
    BY <2>6, FailWriteStep
  <2>7. CASE CompleteRead(w)
    BY <2>7, CompleteReadStep
  <2>8. CASE CompleteCancelled(w)
    BY <2>8, CompleteCancelledStep
  <2>9. CASE CompleteWrite(w)
    BY <2>9, CompleteWriteStep
  <2>10. CASE SweepSelect(w)
    BY <2>10, SweepSelectStep
  <2>11. CASE \E row \in sweep[w] : SweepUnlink(w, row)
    BY <2>11, SweepUnlinkStep
  <2>12. CASE SweepMark(w)
    BY <2>12, SweepMarkStep
  <2> QED BY <1>2, <2>1, <2>2, <2>3, <2>4, <2>5, <2>6, <2>7, <2>8, <2>9, <2>10,
             <2>11, <2>12 DEF WorkerStep
<1>3. ASSUME NEW w \in Workers, Exit(w)
      PROVE  IInv'
  BY <1>3, ExitStep
<1>4. ASSUME NEW j \in Jobs,
             \/ InsertJob(j) \/ RequestCancel(j) \/ LeaseRunsOut(j) \/ Stall(j)
             \/ BackoffElapses(j) \/ TtlElapses(j)
      PROVE  IInv'
  BY <1>4, InsertJobStep, RequestCancelStep, LeaseRunsOutStep, StallStep,
     BackoffElapsesStep, TtlElapsesStep
<1>5. ASSUME NEW o \in orphans, OrphanEnds(o)
      PROVE  IInv'
  BY <1>5, OrphanEndsStep
<1> QED BY <1>1, <1>2, <1>3, <1>4, <1>5 DEF Next

(* The strengthened invariant holds in every reachable state. *)
THEOREM Invariance == Spec => []IInv
<1> QED BY InitIInv, NextIInv, PTL DEF Spec

(* The queue is type-correct. *)
THEOREM TypeCorrect == Spec => []TypeOK
<1>1. IInv => TypeOK
  BY DEF IInv
<1> QED BY <1>1, Invariance, PTL

(* complete_job's WHERE clause fences: whatever leases run out and whatever   *)
(* workers crash or come late, a complete job offers the result of its last   *)
(* claim.                                                                     *)
THEOREM Fencing == Spec => []ResultIsFromLatestClaim
<1>1. IInv => ResultIsFromLatestClaim
  BY DEF IInv
<1> QED BY <1>1, Invariance, PTL

(* The file of a complete job is there until its TTL is over, whichever late   *)
(* workers, orphaned children and sweeps unlink files of the job.              *)
THEOREM ResultKept == Spec => []ResultKeptUntilTtl
<1>1. IInv => ResultKeptUntilTtl
  BY DEF IInv
<1> QED BY <1>1, Invariance, PTL

(* Only recoveries of a lease exceed max_attempts. *)
THEOREM AttemptsBounded == Spec => []AttemptsBoundedByRecoveries
<1>1. IInv => AttemptsBoundedByRecoveries
  BY DEF IInv
<1> QED BY <1>1, Invariance, PTL

(* Without stalls one job is never executed by two living workers. *)
THEOREM Exclusive == Spec => []ExclusiveExecution
<1>1. IInv => ExclusiveExecution
  <2> SUFFICES ASSUME IInv, stalls = 0, NEW w \in Workers, NEW v \in Workers,
                      NEW j \in Jobs, Executes(w, j), Executes(v, j)
               PROVE  w = v
    BY DEF ExclusiveExecution
  <2>1. Holds(w, j) /\ Holds(v, j)
    BY DEF IInv, LeaseGuards, Executes
  <2> QED BY <2>1 DEF Holds
<1> QED BY <1>1, Invariance, PTL

(* A published result is never replaced: once it is in the row the lease is   *)
(* gone and the job is not in processing again.                               *)
THEOREM ResultStable == Spec => ResultNeverReplaced
<1>1. IInv /\ [Next]_vars =>
        [\A j \in Jobs : result_path[j] # 0 => result_path'[j] \in {result_path[j], 0}]_vars
  <2> SUFFICES ASSUME IInv, Next, NEW j \in Jobs, result_path[j] # 0
               PROVE  result_path'[j] \in {result_path[j], 0}
    OBVIOUS
  <2>1. ASSUME NEW w \in Workers, CompleteWrite(w)
        PROVE  result_path'[j] = result_path[j]
    BY <2>1 DEF IInv, TypeOK, ResultSettled, CompleteWrite, MayComplete, Holds
  <2>2. ASSUME NEW w \in Workers, SweepMark(w)
        PROVE  result_path'[j] \in {result_path[j], 0}
    BY <2>2 DEF IInv, TypeOK, SweepMark
  <2>3. \/ UNCHANGED result_path
        \/ \E w \in Workers : CompleteWrite(w) \/ SweepMark(w)
    BY DEF Next, WorkerStep, columns, InsertJob, RequestCancel, StartWorker, Claim,
           ChildStarts, ChildFails, ChildWrites, ChildExits, ChildMoves, RenewLease,
           SeeCancel, Deadline, SeeFailure, SeeGarbled, FailRead, FailWrite,
           CompleteRead, CompleteCancelled, SweepSelect, SweepUnlink, Exit,
           OrphanEnds, LeaseRunsOut, Stall, BackoffElapses, TtlElapses
  <2> QED BY <2>1, <2>2, <2>3
<1> QED BY <1>1, Invariance, PTL DEF Spec, ResultNeverReplaced

-----------------------------------------------------------------------------
(* The promise, when no lease runs out under a living worker. *)

(* A row whose status changes changes its phase, and no other row does. *)
LEMMA PhaseOfRow ==
  ASSUME TypeOK, NEW j \in Jobs, NEW s, status' = [status EXCEPT ![j] = s]
  PROVE  phase' = [phase EXCEPT ![j] = Shown(s)]
BY DEF TypeOK, phase

LEMMA PhaseSame == ASSUME UNCHANGED status PROVE UNCHANGED phase
BY DEF phase

(* Recoveries and claims move jobs between statuses the client sees as open. *)
LEMMA OpenStaysOpen ==
  ASSUME TypeOK, status' \in [Jobs -> Statuses],
         \A j \in Jobs : \/ status'[j] = status[j]
                        \/ {status[j], status'[j]} \subseteq {"pending", "retry", "processing"}
  PROVE  UNCHANGED phase
<1>1. \A j \in Jobs : Shown(status'[j]) = Shown(status[j])
  BY DEF Shown
<1> QED BY <1>1 DEF phase

LEMMA ClientSteps ==
  ASSUME TypeOK, NEW j \in Jobs, InsertJob(j) \/ RequestCancel(j)
  PROVE  [Promise!Next]_<<phase, result_path>>
<1>1. CASE InsertJob(j)
  <2>1. phase' = [phase EXCEPT ![j] = "open"]
    BY <1>1, PhaseOfRow DEF InsertJob, Shown
  <2>2. phase[j] = "none" /\ UNCHANGED result_path
    BY <1>1 DEF InsertJob, phase, Shown
  <2> QED BY <2>1, <2>2 DEF Promise!Next, Promise!Submit
<1>2. CASE RequestCancel(j) /\ status[j] = "processing"
  <2>1. UNCHANGED <<status, result_path>>
    BY <1>2 DEF RequestCancel, TypeOK
  <2> QED BY <2>1, PhaseSame
<1>3. CASE RequestCancel(j) /\ status[j] # "processing"
  <2>1. status' = [status EXCEPT ![j] = "cancelled"] /\ UNCHANGED result_path
    BY <1>3 DEF RequestCancel, TypeOK
  <2>2. phase' = [phase EXCEPT ![j] = "cancelled"]
    BY <2>1, PhaseOfRow DEF Shown
  <2>3. phase[j] = "open"
    BY <1>3 DEF RequestCancel, phase, Shown
  <2> QED BY <2>1, <2>2, <2>3 DEF Promise!Next, Promise!GiveUp
<1> QED BY <1>1, <1>2, <1>3

LEMMA ClaimSteps ==
  ASSUME TypeOK, TypeOK', NEW w \in Workers,
         StartWorker(w) \/ \E j \in Jobs : Claim(w, j)
  PROVE  UNCHANGED <<phase, result_path>>
<1>1. CASE StartWorker(w)
  <2>1. \A k \in Jobs : \/ status'[k] = status[k]
                        \/ {status[k], status'[k]} \subseteq {"pending", "retry", "processing"}
    BY <1>1 DEF StartWorker, RecoverStatus, Stale
  <2> QED BY <1>1, <2>1, OpenStaysOpen DEF TypeOK, StartWorker
<1>2. CASE \E j \in Jobs : Claim(w, j)
  <2>1. PICK j \in Jobs : Claim(w, j)
    BY <1>2
  <2>2. status[j] \in {"pending", "retry", "processing"}
    BY <2>1 DEF Claim, Claimable, Stale, Ready
  <2>3. \A k \in Jobs : \/ status'[k] = status[k]
                        \/ {status[k], status'[k]} \subseteq {"pending", "retry", "processing"}
    BY <2>1, <2>2 DEF Claim, RecoverStatus, Stale
  <2> QED BY <2>1, <2>3, OpenStaysOpen DEF TypeOK, Claim
<1> QED BY <1>1, <1>2

(* fail_job and complete_job write the row of a job that is still open. *)
LEMMA WriteSteps ==
  ASSUME IInv, stalls = 0, NEW w \in Workers,
         FailWrite(w) \/ CompleteCancelled(w) \/ CompleteWrite(w)
  PROVE  [Promise!Next]_<<phase, result_path>>
<1> DEFINE j == current[w]
<1>1. TypeOK /\ j \in Jobs /\ Holds(w, j) /\ attempt[w] \in Nat \ {0}
  BY DEF IInv, TypeOK, LocalsOK, LeaseGuards, Busy, FailWrite, CompleteCancelled, CompleteWrite
<1>2. phase[j] = "open"
  BY <1>1 DEF Holds, phase, Shown
<1> HIDE DEF j
<1>3. CASE FailWrite(w)
  <2>1. /\ status' = [status EXCEPT ![j] = verdict[w]] /\ UNCHANGED result_path
        /\ verdict[w] \in {"cancelled", "retry", "failed"}
    BY <1>1, <1>3 DEF FailWrite, MayFail, Holds, IInv, LocalsOK, j
  <2>2. phase' = [phase EXCEPT ![j] = Shown(verdict[w])]
    BY <1>1, <2>1, PhaseOfRow
  <2>3. CASE verdict[w] = "retry"
    <3>1. phase' = [phase EXCEPT ![j] = "open"]
      BY <2>2, <2>3 DEF Shown
    <3>2. phase' = phase
      BY <1>2, <3>1 DEF phase
    <3> QED BY <2>1, <3>2
  <2>4. CASE verdict[w] \in {"cancelled", "failed"}
    <3>1. phase' = [phase EXCEPT ![j] = verdict[w]]
      BY <2>2, <2>4 DEF Shown
    <3> QED BY <1>1, <1>2, <2>1, <2>4, <3>1 DEF Promise!Next, Promise!GiveUp
  <2> QED BY <2>1, <2>3, <2>4
<1>4. CASE CompleteCancelled(w)
  <2>1. status' = [status EXCEPT ![j] = "cancelled"] /\ UNCHANGED result_path
    BY <1>4 DEF CompleteCancelled, j
  <2>2. phase' = [phase EXCEPT ![j] = "cancelled"]
    BY <1>1, <2>1, PhaseOfRow DEF Shown
  <2> QED BY <1>1, <1>2, <2>1, <2>2 DEF Promise!Next, Promise!GiveUp
<1>5. CASE CompleteWrite(w)
  <2>1. /\ status' = [status EXCEPT ![j] = "complete"]
        /\ result_path' = [result_path EXCEPT ![j] = attempt[w]]
    BY <1>1, <1>5 DEF CompleteWrite, MayComplete, j
  <2>2. phase' = [phase EXCEPT ![j] = "complete"]
    BY <1>1, <2>1, PhaseOfRow DEF Shown
  <2>3. result_path'[j] = attempt[w]
    BY <1>1, <2>1 DEF TypeOK
  <2>4. Promise!Complete(j)
    BY <1>1, <1>2, <2>1, <2>2, <2>3 DEF Promise!Complete
  <2> QED BY <1>1, <2>4 DEF Promise!Next
<1> QED BY <1>3, <1>4, <1>5

(* The sweep expires rows that are settled, or marks an expired row again. *)
LEMMA MarkSteps ==
  ASSUME IInv, stalls = 0, NEW w \in Workers, SweepMark(w)
  PROVE  [Promise!Next]_<<phase, result_path>>
<1> DEFINE j == current[w]
<1>1. TypeOK /\ j \in Jobs /\ status[j] \in Terminal \cup {"expired"}
  <2>1. <<current[w], attempt[w]>> \in sweep[w]
    BY DEF IInv, SweepSettled, SweepMark
  <2>2. sweep[w] \subseteq Jobs \X Nat
    BY DEF IInv, TypeOK
  <2>3. <<current[w], attempt[w]>>[1] = j
    OBVIOUS
  <2> QED BY <2>1, <2>2, <2>3 DEF IInv, SweepSettled
<1>2. /\ status' = [status EXCEPT ![j] = "expired"]
      /\ result_path' = [result_path EXCEPT ![j] = 0]
  BY DEF SweepMark
<1> HIDE DEF j
<1>3. phase' = [phase EXCEPT ![j] = "expired"]
  BY <1>1, <1>2, PhaseOfRow DEF Shown
<1>4. CASE status[j] = "expired"
  <2>1. result_path[j] = 0 /\ phase[j] = "expired"
    BY <1>1, <1>4 DEF IInv, TypeOK, ResultSettled, phase, Shown
  <2>2. UNCHANGED result_path
    BY <1>1, <1>2, <2>1 DEF TypeOK
  <2>3. UNCHANGED phase
    BY <1>3, <2>1 DEF phase
  <2> QED BY <2>2, <2>3
<1>5. CASE status[j] \in Terminal
  <2>1. phase[j] \in {"complete", "failed", "cancelled"}
    BY <1>1, <1>5 DEF phase, Shown, Terminal
  <2> QED BY <1>1, <1>2, <1>3, <2>1 DEF Promise!Next, Promise!Expire, Promise!Settled
<1> QED BY <1>1, <1>4, <1>5

(* If no lease runs out under a living worker, JobQueue implements JobPromise: *)
(* every step of the workers, the web processes, the clock and the crashes is  *)
(* a step of the promise or invisible to the client.                           *)
THEOREM QueueKeepsPromise == MaxStalls = 0 => (Spec => KeepsPromise)
<1> SUFFICES ASSUME MaxStalls = 0 PROVE Spec => KeepsPromise
  OBVIOUS
<1>1. Init => Promise!Init
  BY DEF Init, Promise!Init, phase, Shown
<1>2. Init => stalls = 0
  BY DEF Init
<1>3. stalls = 0 /\ [Next]_vars => (stalls = 0)'
  <2>1. ASSUME NEW j \in Jobs, Stall(j), stalls = 0
        PROVE  FALSE
    BY <2>1 DEF Stall
  <2> QED
   BY <2>1 DEF vars, bounds, Next, WorkerStep, InsertJob, RequestCancel, StartWorker, Claim,
         ChildStarts, ChildFails, ChildWrites, ChildExits, ChildMoves, RenewLease,
         SeeCancel, Deadline, SeeFailure, SeeGarbled, FailRead, FailWrite, Finish,
         CompleteRead, CompleteCancelled, CompleteWrite, SweepSelect, SweepUnlink,
         SweepMark, Exit, OrphanEnds, LeaseRunsOut, BackoffElapses, TtlElapses
<1>4. IInv /\ IInv' /\ stalls = 0 /\ [Next]_vars => [Promise!Next]_<<phase, result_path>>
  <2> SUFFICES ASSUME IInv, IInv', stalls = 0, [Next]_vars
               PROVE  [Promise!Next]_<<phase, result_path>>
    OBVIOUS
  <2>1. TypeOK /\ TypeOK'
    BY DEF IInv
  <2>2. CASE UNCHANGED <<status, result_path>>
    BY <2>2, PhaseSame
  <2>3. ASSUME NEW j \in Jobs, InsertJob(j) \/ RequestCancel(j)
        PROVE  [Promise!Next]_<<phase, result_path>>
    BY <2>1, <2>3, ClientSteps
  <2>4. ASSUME NEW w \in Workers, StartWorker(w) \/ \E j \in Jobs : Claim(w, j)
        PROVE  [Promise!Next]_<<phase, result_path>>
    BY <2>1, <2>4, ClaimSteps
  <2>5. ASSUME NEW w \in Workers, FailWrite(w) \/ CompleteCancelled(w) \/ CompleteWrite(w)
        PROVE  [Promise!Next]_<<phase, result_path>>
    BY <2>5, WriteSteps
  <2>6. ASSUME NEW w \in Workers, SweepMark(w)
        PROVE  [Promise!Next]_<<phase, result_path>>
    BY <2>6, MarkSteps
  <2>7. \/ UNCHANGED <<status, result_path>>
        \/ \E j \in Jobs : InsertJob(j) \/ RequestCancel(j)
        \/ \E w \in Workers : \/ StartWorker(w) \/ \E j \in Jobs : Claim(w, j)
                              \/ FailWrite(w) \/ CompleteCancelled(w) \/ CompleteWrite(w)
                              \/ SweepMark(w)
    BY DEF Next, WorkerStep, vars, columns, ChildStarts, ChildFails, ChildWrites, ChildExits,
           ChildMoves, RenewLease, SeeCancel, Deadline, SeeFailure, SeeGarbled, FailRead,
           CompleteRead, SweepSelect, SweepUnlink, Exit, OrphanEnds, LeaseRunsOut, Stall,
           BackoffElapses, TtlElapses
  <2> QED BY <2>2, <2>3, <2>4, <2>5, <2>6, <2>7
<1> QED BY <1>1, <1>2, <1>3, <1>4, Invariance, PTL DEF Spec, KeepsPromise, Promise!Spec
=============================================================================
