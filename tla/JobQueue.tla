------------------------------ MODULE JobQueue ------------------------------
(***************************************************************************)
(* The durable OCR queue of makepdf: the `jobs` table of                   *)
(* web/job_registry.py, shared by the web processes that insert and cancel *)
(* jobs and by the worker processes of web/worker.py, each of which runs   *)
(* one job at a time in a child process (web/worker_task.py).              *)
(*                                                                         *)
(* Every SQL statement runs in autocommit mode, so each statement (and the *)
(* BEGIN IMMEDIATE transaction of claim_next_job) is one atomic step, and  *)
(* a handler that reads, decides and writes is several.                    *)
(***************************************************************************)
EXTENDS Integers, FiniteSets

CONSTANTS
  Jobs,         \* job ids (uuid4)
  Workers,      \* worker process incarnations: worker_id is new in each
  NoWorker,     \* lease_owner IS NULL
  NoJob,        \* a worker that executes nothing
  MaxAttempts,  \* JOB_MAX_ATTEMPTS, the max_attempts of every row
  MaxExits,     \* bound: worker processes that end
  MaxStalls,    \* bound: leases that run out under a worker that lives
  UnlinkFails   \* bound: may an unlink raise OSError

ASSUME JobsAssumption == IsFiniteSet(Jobs)
ASSUME NoWorkerAssumption == NoWorker \notin Workers
ASSUME NoJobAssumption == NoJob \notin Jobs
ASSUME MaxAttemptsAssumption == MaxAttempts \in Nat \ {0}
ASSUME BoundsAssumption == MaxExits \in Nat /\ MaxStalls \in Nat /\ UnlinkFails \in BOOLEAN

VARIABLES
  (* The jobs table, one function per column. *)
  status, cancel_requested, attempts, lease_owner,
  lease,        \* lease_until: NULL, in the future, or < now
  available,    \* available_at <= now
  aged,         \* expires_at < now
  result_path,  \* 0 is NULL; n is the file the n-th claim of the job wrote
  created,      \* created_at, as the rank of the insertion
  (* The worker processes. *)
  pc, current,
  attempt,      \* which claim of `current` the worker executes
  child,        \* the child process of _execute
  verdict,      \* the status complete_job or fail_job has decided to write
  sweep,        \* the rows purge_old_jobs has selected and not yet marked
  (* Outside the table. *)
  orphans,      \* children that outlived their worker
  files,        \* result files in the object directory
  (* History and bounds. *)
  recovered,    \* how often the lease of a job was taken back
  exits, stalls

columns == <<status, cancel_requested, attempts, lease_owner, lease, available,
             aged, result_path, created>>
locals  == <<pc, current, attempt, child, verdict, sweep>>
bounds  == <<exits, stalls>>
vars    == <<columns, locals, orphans, files, recovered, bounds>>

Terminal   == {"complete", "failed", "cancelled"}
Statuses   == {"absent", "pending", "retry", "processing", "expired"} \cup Terminal
LiveChild  == {"spawn", "run", "wrote"}
ChildStates == LiveChild \cup {"none", "ok", "garbled", "bad"}
Places     == {"new", "idle", "running", "failing", "completing",
               "sweeping", "marking", "gone"}
(* The places in which a worker is inside _execute. *)
Busy       == {"running", "failing", "completing"}

TypeOK ==
  /\ status \in [Jobs -> Statuses]
  /\ cancel_requested \in [Jobs -> BOOLEAN]
  /\ attempts \in [Jobs -> Nat]
  /\ lease_owner \in [Jobs -> Workers \cup {NoWorker}]
  /\ lease \in [Jobs -> {"none", "live", "lapsed"}]
  /\ available \in [Jobs -> BOOLEAN]
  /\ aged \in [Jobs -> BOOLEAN]
  /\ result_path \in [Jobs -> Nat]
  /\ created \in [Jobs -> Nat]
  /\ pc \in [Workers -> Places]
  /\ current \in [Workers -> Jobs \cup {NoJob}]
  /\ attempt \in [Workers -> Nat]
  /\ child \in [Workers -> ChildStates]
  /\ verdict \in [Workers -> Terminal \cup {"none", "retry"}]
  /\ sweep \in [Workers -> SUBSET (Jobs \X Nat)]
  /\ orphans \subseteq Jobs \X Nat
  /\ files \subseteq Jobs \X Nat
  /\ recovered \in [Jobs -> Nat]
  /\ exits \in Nat /\ stalls \in Nat

Init ==
  /\ status = [j \in Jobs |-> "absent"]
  /\ cancel_requested = [j \in Jobs |-> FALSE]
  /\ attempts = [j \in Jobs |-> 0]
  /\ lease_owner = [j \in Jobs |-> NoWorker]
  /\ lease = [j \in Jobs |-> "none"]
  /\ available = [j \in Jobs |-> TRUE]
  /\ aged = [j \in Jobs |-> FALSE]
  /\ result_path = [j \in Jobs |-> 0]
  /\ created = [j \in Jobs |-> 0]
  /\ pc = [w \in Workers |-> "new"]
  /\ current = [w \in Workers |-> NoJob]
  /\ attempt = [w \in Workers |-> 0]
  /\ child = [w \in Workers |-> "none"]
  /\ verdict = [w \in Workers |-> "none"]
  /\ sweep = [w \in Workers |-> {}]
  /\ orphans = {} /\ files = {}
  /\ recovered = [j \in Jobs |-> 0]
  /\ exits = 0 /\ stalls = 0

-----------------------------------------------------------------------------
(* What the SQL conditions say of one row. A definition whose name ends in    *)
(* _Faulty or _Faulty2 is the one after it with a plausible mistake; nothing  *)
(* uses it, the properties are tried against it.                              *)

Holds(w, j) == status[j] = "processing" /\ lease_owner[j] = w

(* Takes back every processing job, as a restart of the only worker could. *)
Stale_Faulty(j) == status[j] = "processing" /\ ~cancel_requested[j]

Stale(j) == status[j] = "processing" /\ lease[j] = "lapsed" /\ ~cancel_requested[j]

(* Takes failed jobs up again. *)
Ready_Faulty(j) == status[j] \in {"pending", "retry", "failed"} /\ ~cancel_requested[j]

Ready(j) == status[j] \in {"pending", "retry"} /\ available[j] /\ ~cancel_requested[j]

(* Looks for work before it recovers. *)
Claimable_Faulty(j) == Ready(j)

(* A recovered row is available at once, so the claim that recovered it may *)
(* take it.                                                                 *)
Claimable(j) == Stale(j) \/ Ready(j)

First(j) == \A k \in Jobs : Claimable(k) => created[j] <= created[k]

(* Allows one attempt too many. *)
FailVerdict_Faulty(j, retryable) ==
  IF cancel_requested[j] THEN "cancelled"
  ELSE IF retryable /\ attempts[j] <= MaxAttempts THEN "retry" ELSE "failed"

(* fail_job's choice of the new status from the row it has read. *)
FailVerdict(j, retryable) ==
  IF cancel_requested[j] THEN "cancelled"
  ELSE IF retryable /\ attempts[j] < MaxAttempts THEN "retry" ELSE "failed"

(* complete_job's choice. *)
CompleteVerdict(j) == IF cancel_requested[j] THEN "cancelled" ELSE "complete"

-----------------------------------------------------------------------------
(* Requests of the web processes. *)

(* create_job for a new idempotency key. *)
InsertJob(j) ==
  /\ status[j] = "absent"
  /\ status' = [status EXCEPT ![j] = "pending"]
  /\ created' = [created EXCEPT ![j] = Cardinality({k \in Jobs : status[k] # "absent"})]
  /\ UNCHANGED <<cancel_requested, attempts, lease_owner, lease, available, aged,
                 result_path, locals, orphans, files, recovered, bounds>>

RequestCancel(j) ==
  /\ status[j] \in {"pending", "retry", "processing"}
  /\ cancel_requested' = [cancel_requested EXCEPT ![j] = TRUE]
  /\ status' = [status EXCEPT ![j] = IF @ \in {"pending", "retry"} THEN "cancelled" ELSE @]
  /\ UNCHANGED <<attempts, lease_owner, lease, available, aged, result_path, created,
                 locals, orphans, files, recovered, bounds>>

-----------------------------------------------------------------------------
(* The worker: worker.main and worker._execute. *)

(* The UPDATE that recover_stale_jobs and claim_next_job share. *)
RecoverStatus  == [j \in Jobs |-> IF Stale(j) THEN "retry" ELSE status[j]]
RecoverOwner   == [j \in Jobs |-> IF Stale(j) THEN NoWorker ELSE lease_owner[j]]
RecoverLease   == [j \in Jobs |-> IF Stale(j) THEN "none" ELSE lease[j]]
RecoverBackoff == [j \in Jobs |-> available[j] \/ Stale(j)]
RecoverCount   == [j \in Jobs |-> IF Stale(j) THEN recovered[j] + 1 ELSE recovered[j]]

StartWorker(w) ==
  /\ pc[w] = "new"
  /\ pc' = [pc EXCEPT ![w] = "idle"]
  /\ status' = RecoverStatus
  /\ lease_owner' = RecoverOwner
  /\ lease' = RecoverLease
  /\ available' = RecoverBackoff
  /\ recovered' = RecoverCount
  /\ UNCHANGED <<cancel_requested, attempts, aged, result_path, created, current,
                 attempt, child, verdict, sweep, orphans, files, bounds>>

(* claim_next_job, and the start of the child. *)
Claim(w, j) ==
  /\ pc[w] = "idle"
  /\ Claimable(j) /\ First(j)
  /\ status' = [RecoverStatus EXCEPT ![j] = "processing"]
  /\ attempts' = [attempts EXCEPT ![j] = @ + 1]
  /\ lease_owner' = [RecoverOwner EXCEPT ![j] = w]
  /\ lease' = [RecoverLease EXCEPT ![j] = "live"]
  /\ available' = RecoverBackoff
  /\ recovered' = RecoverCount
  /\ pc' = [pc EXCEPT ![w] = "running"]
  /\ current' = [current EXCEPT ![w] = j]
  /\ attempt' = [attempt EXCEPT ![w] = attempts[j] + 1]
  /\ child' = [child EXCEPT ![w] = "spawn"]
  /\ UNCHANGED <<cancel_requested, aged, result_path, created, verdict, sweep,
                 orphans, files, bounds>>

(* worker_task.main: the status check, the OCR run, os.replace and the exit. *)
ChildMoves(w, from, to) ==
  /\ pc[w] = "running" /\ child[w] = from
  /\ child' = [child EXCEPT ![w] = to]
  /\ UNCHANGED <<columns, pc, current, attempt, verdict, sweep, orphans, recovered, bounds>>

ChildStarts(w) ==
  /\ pc[w] = "running"
  /\ ChildMoves(w, "spawn", IF status[current[w]] = "processing" THEN "run" ELSE "bad")
  /\ UNCHANGED files

(* A missing or altered source, an OCR error, a resource limit. *)
ChildFails(w) == ChildMoves(w, "run", "bad") /\ UNCHANGED files

ChildWrites(w) ==
  /\ ChildMoves(w, "run", "wrote")
  /\ files' = files \cup {<<current[w], attempt[w]>>}

(* The last line of its output parses, or does not. *)
ChildExits(w) ==
  /\ \E last \in {"ok", "garbled"} : ChildMoves(w, "wrote", last)
  /\ UNCHANGED files

RenewLease(w) ==
  /\ pc[w] = "running" /\ child[w] \in LiveChild
  /\ Holds(w, current[w])
  /\ lease' = [lease EXCEPT ![current[w]] = "live"]
  /\ UNCHANGED <<status, cancel_requested, attempts, lease_owner, available, aged,
                 result_path, created, locals, orphans, files, recovered, bounds>>

(* fail_job up to its SELECT; a child that still ran has been killed. *)
FailRead(w, retryable) ==
  /\ pc[w] = "running"
  /\ pc' = [pc EXCEPT ![w] = "failing"]
  /\ child' = [child EXCEPT ![w] = "none"]
  /\ verdict' = [verdict EXCEPT ![w] = FailVerdict(current[w], retryable)]
  /\ UNCHANGED <<columns, current, attempt, sweep, orphans, files, recovered, bounds>>

SeeCancel(w) ==
  /\ pc[w] = "running" /\ child[w] \in LiveChild
  /\ cancel_requested[current[w]]
  /\ FailRead(w, FALSE)

(* The loop looks at cancel_requested before it looks at the clock. *)
Deadline(w) ==
  /\ pc[w] = "running" /\ child[w] \in LiveChild
  /\ FailRead(w, TRUE)

SeeFailure(w) == child[w] = "bad" /\ FailRead(w, TRUE)

SeeGarbled(w) == child[w] = "garbled" /\ FailRead(w, FALSE)

(* The worker goes back to the loop of worker.main. *)
Finish(w) ==
  /\ pc' = [pc EXCEPT ![w] = "idle"]
  /\ current' = [current EXCEPT ![w] = NoJob]
  /\ attempt' = [attempt EXCEPT ![w] = 0]
  /\ child' = [child EXCEPT ![w] = "none"]
  /\ verdict' = [verdict EXCEPT ![w] = "none"]
  /\ UNCHANGED <<sweep, orphans, recovered, bounds>>

(* The WHERE clause of fail_job's UPDATE: the owner, and not the status. *)
MayFail(w, j) == lease_owner[j] = w

FailWrite(w) ==
  LET j == current[w] IN
  /\ pc[w] = "failing"
  /\ Finish(w)
  /\ IF MayFail(w, j)
     THEN /\ status' = [status EXCEPT ![j] = verdict[w]]
          /\ available' = [available EXCEPT ![j] = verdict[w] # "retry"]
          /\ lease_owner' = [lease_owner EXCEPT ![j] = NoWorker]
          /\ lease' = [lease EXCEPT ![j] = "none"]
     ELSE UNCHANGED <<status, available, lease_owner, lease>>
  /\ UNCHANGED <<cancel_requested, attempts, aged, result_path, created, files>>

(* What secure_unlink leaves of the files: it swallows an OSError. *)
Unlinked(file) == {files \ {file}} \cup IF UnlinkFails THEN {files} ELSE {}

(* complete_job up to its SELECT, with the unlink that follows when the job *)
(* is cancelled: nobody else knows the file yet.                            *)
CompleteRead(w) ==
  LET j == current[w] IN
  /\ pc[w] = "running" /\ child[w] = "ok"
  /\ pc' = [pc EXCEPT ![w] = "completing"]
  /\ child' = [child EXCEPT ![w] = "none"]
  /\ verdict' = [verdict EXCEPT ![w] = CompleteVerdict(j)]
  /\ files' \in IF cancel_requested[j] THEN Unlinked(<<j, attempt[w]>>) ELSE {files}
  /\ UNCHANGED <<columns, current, attempt, sweep, orphans, recovered, bounds>>

(* The UPDATE of the cancelled branch has no guard but the id, and leaves the *)
(* lease in the row.                                                          *)
CompleteCancelled(w) ==
  /\ pc[w] = "completing" /\ verdict[w] = "cancelled"
  /\ Finish(w)
  /\ status' = [status EXCEPT ![current[w]] = "cancelled"]
  /\ UNCHANGED <<cancel_requested, attempts, lease_owner, lease, available, aged,
                 result_path, created, files>>

(* Checks the status and not the owner. *)
MayComplete_Faulty(w, j) == status[j] = "processing"

(* Checks neither, as the branch above. *)
MayComplete_Faulty2(w, j) == TRUE

MayComplete(w, j) == Holds(w, j)

CompleteWrite(w) ==
  LET j == current[w] IN
  /\ pc[w] = "completing" /\ verdict[w] = "complete"
  /\ Finish(w)
  /\ IF MayComplete(w, j)
     THEN /\ status' = [status EXCEPT ![j] = "complete"]
          /\ result_path' = [result_path EXCEPT ![j] = attempt[w]]
          /\ lease_owner' = [lease_owner EXCEPT ![j] = NoWorker]
          /\ lease' = [lease EXCEPT ![j] = "none"]
     ELSE UNCHANGED <<status, result_path, lease_owner, lease>>
  /\ UNCHANGED <<cancel_requested, attempts, available, aged, created, files>>

-----------------------------------------------------------------------------
(* purge_old_jobs, which every worker runs once a minute between jobs. *)

(* Forgets the TTL. *)
Expirable_Faulty(j) == status[j] \in Terminal

(* Forgets cancelled jobs. *)
Expirable_Faulty2(j) == status[j] \in {"complete", "failed"} /\ aged[j]

Expirable(j) == status[j] \in Terminal /\ aged[j]

SweepSelect(w) ==
  /\ pc[w] = "idle"
  /\ \E j \in Jobs : Expirable(j)
  /\ sweep' = [sweep EXCEPT ![w] = {<<j, result_path[j]>> : j \in {k \in Jobs : Expirable(k)}}]
  /\ pc' = [pc EXCEPT ![w] = "sweeping"]
  /\ UNCHANGED <<columns, current, attempt, child, verdict, orphans, files, recovered, bounds>>

(* secure_unlink of the next row's result. *)
SweepUnlink(w, row) ==
  /\ pc[w] = "sweeping" /\ row \in sweep[w]
  /\ files' \in Unlinked(row)
  /\ current' = [current EXCEPT ![w] = row[1]]
  /\ attempt' = [attempt EXCEPT ![w] = row[2]]
  /\ pc' = [pc EXCEPT ![w] = "marking"]
  /\ UNCHANGED <<columns, child, verdict, sweep, orphans, recovered, bounds>>

SweepMark(w) ==
  LET rest == sweep[w] \ {<<current[w], attempt[w]>>} IN
  /\ pc[w] = "marking"
  /\ status' = [status EXCEPT ![current[w]] = "expired"]
  /\ result_path' = [result_path EXCEPT ![current[w]] = 0]
  /\ sweep' = [sweep EXCEPT ![w] = rest]
  /\ pc' = [pc EXCEPT ![w] = IF rest = {} THEN "idle" ELSE "sweeping"]
  /\ current' = [current EXCEPT ![w] = NoJob]
  /\ attempt' = [attempt EXCEPT ![w] = 0]
  /\ UNCHANGED <<cancel_requested, attempts, lease_owner, lease, available, aged,
                 created, child, verdict, orphans, files, recovered, bounds>>

-----------------------------------------------------------------------------
(* Processes that end, and the clock. *)

(* A worker ends: SIGTERM between two jobs, or a crash at any point. The child *)
(* has a session of its own and may outlive the worker.                        *)
Exit(w) ==
  /\ pc[w] \notin {"new", "gone"} /\ exits < MaxExits
  /\ exits' = exits + 1
  /\ pc' = [pc EXCEPT ![w] = "gone"]
  /\ \/ orphans' = orphans
     \/ /\ pc[w] = "running"
        /\ \/ child[w] = "run"
           \/ child[w] = "spawn" /\ status[current[w]] = "processing"
        /\ orphans' = orphans \cup {<<current[w], attempt[w]>>}
  /\ current' = [current EXCEPT ![w] = NoJob]
  /\ attempt' = [attempt EXCEPT ![w] = 0]
  /\ child' = [child EXCEPT ![w] = "none"]
  /\ verdict' = [verdict EXCEPT ![w] = "none"]
  /\ sweep' = [sweep EXCEPT ![w] = {}]
  /\ UNCHANGED <<columns, files, recovered, stalls>>

(* An orphan fails, or leaves a result nobody waits for. *)
OrphanEnds(o) ==
  /\ o \in orphans
  /\ orphans' = orphans \ {o}
  /\ files' \in {files, files \cup {o}}
  /\ UNCHANGED <<columns, locals, recovered, bounds>>

Executes(w, j) == pc[w] \in Busy /\ current[w] = j

(* Sixty seconds pass without a renewal: the owner is gone, or executes the  *)
(* job no more.                                                              *)
LeaseRunsOut(j) ==
  /\ lease[j] = "live"
  /\ ~Executes(lease_owner[j], j)
  /\ lease' = [lease EXCEPT ![j] = "lapsed"]
  /\ UNCHANGED <<status, cancel_requested, attempts, lease_owner, available, aged,
                 result_path, created, locals, orphans, files, recovered, bounds>>

(* The same under an owner that lives but did not renew in time: a suspended *)
(* host, a database lock, a large result that complete_job hashes.           *)
Stall(j) ==
  /\ lease[j] = "live" /\ stalls < MaxStalls
  /\ Executes(lease_owner[j], j)
  /\ lease' = [lease EXCEPT ![j] = "lapsed"]
  /\ stalls' = stalls + 1
  /\ UNCHANGED <<status, cancel_requested, attempts, lease_owner, available, aged,
                 result_path, created, locals, orphans, files, recovered, exits>>

BackoffElapses(j) ==
  /\ ~available[j]
  /\ available' = [available EXCEPT ![j] = TRUE]
  /\ UNCHANGED <<status, cancel_requested, attempts, lease_owner, lease, aged,
                 result_path, created, locals, orphans, files, recovered, bounds>>

TtlElapses(j) ==
  /\ status[j] # "absent" /\ ~aged[j]
  /\ aged' = [aged EXCEPT ![j] = TRUE]
  /\ UNCHANGED <<status, cancel_requested, attempts, lease_owner, lease, available,
                 result_path, created, locals, orphans, files, recovered, bounds>>

-----------------------------------------------------------------------------
(* The steps of a worker and of the child it waits for. *)
WorkerStep(w) ==
  \/ StartWorker(w)
  \/ \E j \in Jobs : Claim(w, j)
  \/ ChildStarts(w) \/ ChildFails(w) \/ ChildWrites(w) \/ ChildExits(w)
  \/ RenewLease(w)
  \/ SeeCancel(w) \/ Deadline(w) \/ SeeFailure(w) \/ SeeGarbled(w) \/ FailWrite(w)
  \/ CompleteRead(w) \/ CompleteCancelled(w) \/ CompleteWrite(w)
  \/ SweepSelect(w) \/ (\E row \in sweep[w] : SweepUnlink(w, row)) \/ SweepMark(w)

Next ==
  \/ \E w \in Workers : WorkerStep(w) \/ Exit(w)
  \/ \E j \in Jobs : \/ InsertJob(j) \/ RequestCancel(j)
                     \/ LeaseRunsOut(j) \/ Stall(j)
                     \/ BackoffElapses(j) \/ TtlElapses(j)
  \/ \E o \in orphans : OrphanEnds(o)

Spec == Init /\ [][Next]_vars

(* Workers that live go on and time passes; nothing is assumed of clients,   *)
(* crashes, stalls or orphans.                                               *)
Fairness ==
  /\ \A w \in Workers : WF_vars(WorkerStep(w))
  /\ \A j \in Jobs : WF_vars(LeaseRunsOut(j)) /\ WF_vars(BackoffElapses(j))
                     /\ WF_vars(TtlElapses(j))

FairSpec == Spec /\ Fairness

-----------------------------------------------------------------------------
(* Properties. *)

(* A complete job offers the file of its last claim: a worker whose lease was *)
(* taken back cannot publish a result over a later attempt (the WHERE clause  *)
(* of complete_job).                                                          *)
ResultIsFromLatestClaim ==
  \A j \in Jobs : status[j] = "complete" => result_path[j] = attempts[j] /\ attempts[j] > 0

(* Until its TTL ends a complete job can be downloaded: no late worker, sweep *)
(* or cancellation unlinks the file the row points to.                        *)
ResultKeptUntilTtl ==
  \A j \in Jobs : status[j] = "complete" /\ ~aged[j] => <<j, result_path[j]>> \in files

(* A result that was published is never replaced by another one; it can only *)
(* be withdrawn.                                                             *)
ResultNeverReplaced ==
  [][\A j \in Jobs : result_path[j] # 0 => result_path'[j] \in {result_path[j], 0}]_vars

(* While no lease runs out under a living worker, no two living workers       *)
(* execute one job, through any number of crashes, recoveries and restarts.   *)
ExclusiveExecution ==
  stalls = 0 => \A w, v \in Workers : \A j \in Jobs :
                  Executes(w, j) /\ Executes(v, j) => w = v

(* A job is claimed more often than max_attempts only for the times a lease   *)
(* was taken back: fail_job's retries alone stay within the limit.            *)
AttemptsBoundedByRecoveries ==
  \A j \in Jobs : attempts[j] <= MaxAttempts + recovered[j]

(* A job nobody cancels settles, whatever crashes while a worker is left. *)
UncancelledJobsSettle ==
  \A j \in Jobs : status[j] # "absent" ~>
                    (cancel_requested[j] \/ status[j] \in Terminal \cup {"expired"})

(* What has settled is purged once its TTL is over, although sweeps crash     *)
(* half way and workers sweep at the same time.                               *)
SettledJobsExpire ==
  \A j \in Jobs : status[j] \in Terminal ~> status[j] = "expired"

(* The queue keeps the promise of JobPromise as long as no lease runs out     *)
(* under a living worker.                                                     *)
Shown(s) == CASE s = "absent" -> "none"
              [] s \in {"pending", "retry", "processing"} -> "open"
              [] OTHER -> s

phase == [j \in Jobs |-> Shown(status[j])]

Promise == INSTANCE JobPromise WITH phase <- phase, result <- result_path

KeepsPromise == Promise!Spec

(* README.md:46-47: "Cancellation, retry/backoff, restart lease recovery, ...  *)
(* are persisted": an accepted cancellation takes effect in the end.           *)
CancelledJobsSettle ==
  \A j \in Jobs : cancel_requested[j] ~> status[j] \in Terminal \cup {"expired"}
=============================================================================
