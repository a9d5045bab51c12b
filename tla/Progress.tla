------------------------------- MODULE Progress -------------------------------
(***************************************************************************)
(* How far a job is, as its event stream tells: the children of             *)
(* worker_task.py report by the id of the job alone, the registry sets the   *)
(* number at a claim and at completion, and job_progress_sse polls.         *)
(* The decisions of the registry are atomic here; JobQueue has their steps. *)
(***************************************************************************)
EXTENDS Integers, Sequences

CONSTANTS
  Pages,        \* of the document
  Share,        \* of the progress the pages take: 85 or 80
  MaxAttempts,
  MaxCrashes    \* bound: workers that die under a child

ASSUME ProgressAssumption ==
  Pages \in Nat \ {0} /\ Share \in 0 .. 85 /\ MaxAttempts \in Nat \ {0} /\ MaxCrashes \in Nat

VARIABLES
  job,       \* the row: [status, cancel, progress, attempts, owner]
  worker,    \* of each claim: does its worker still execute it
  child,     \* of each claim: how often it has reported, -1 when it has ended
  stream,    \* of a client: "closed", "open", "ended"
  told,      \* the last event of the stream: [status, progress, attempts]
  alone,     \* history: when the job was claimed last, no earlier child was alive
  crashes

progressVars == <<job, worker, child, stream, told, alone, crashes>>

Settled == {"complete", "failed", "cancelled", "expired"}

(* Faulty: the pages begin at 10 and still take all that is left and more. *)
PageProgress_Faulty(i) == 10 + (i * 95) \div Pages

PageProgress(i) == 10 + (i * Share) \div Pages

Reports == <<5>> \o [i \in 1 .. Pages |-> PageProgress(i)] \o <<97>>

Clamp(n) == IF n < 0 THEN 0 ELSE IF n > 100 THEN 100 ELSE n

Claims == 1 .. MaxAttempts + MaxCrashes

ProgressTypeOK ==
  /\ job \in [status : {"pending", "processing", "retry"} \cup Settled, cancel : BOOLEAN,
              progress : 0 .. 100, attempts : 0 .. MaxAttempts + MaxCrashes,
              owner : 0 .. MaxAttempts + MaxCrashes]
  /\ told \in [status : {"pending", "processing", "retry"} \cup Settled, progress : 0 .. 100,
               attempts : 0 .. MaxAttempts + MaxCrashes]
  /\ worker \in [Claims -> BOOLEAN] /\ child \in [Claims -> -1 .. Len(Reports)]
  /\ stream \in {"closed", "open", "ended"} /\ alone \in BOOLEAN
  /\ crashes \in 0 .. MaxCrashes

ProgressInit ==
  /\ job = [status |-> "pending", cancel |-> FALSE, progress |-> 0, attempts |-> 0, owner |-> 0]
  /\ worker = [n \in Claims |-> FALSE] /\ child = [n \in Claims |-> -1]
  /\ stream = "closed" /\ told = [status |-> "pending", progress |-> 0, attempts |-> 0]
  /\ alone = TRUE /\ crashes = 0

-----------------------------------------------------------------------------
(* claim_next_job; the child is started. *)
Claim ==
  LET n == job.attempts + 1 IN
  /\ job.status \in {"pending", "retry"} /\ ~ job.cancel
  /\ job' = [job EXCEPT !.status = "processing", !.attempts = n, !.progress = 1, !.owner = n]
  /\ worker' = [worker EXCEPT ![n] = TRUE] /\ child' = [child EXCEPT ![n] = 0]
  /\ alone' = \A m \in Claims : child[m] = -1
  /\ UNCHANGED <<stream, told, crashes>>

(* update_progress without lease_owner; a child that finds the job not          *)
(* processing when it begins ends instead.                                      *)
Report(n) ==
  /\ child[n] \in 0 .. Len(Reports) - 1
  /\ IF child[n] = 0 /\ job.status # "processing"
     THEN child' = [child EXCEPT ![n] = -1] /\ job' = job
     ELSE /\ child' = [child EXCEPT ![n] = @ + 1]
          /\ job' = [job EXCEPT !.progress = Clamp(Reports[child[n] + 1])]
  /\ UNCHANGED <<worker, stream, told, alone, crashes>>

Ends(n) ==
  /\ worker[n] /\ worker' = [worker EXCEPT ![n] = FALSE]
  /\ child' = [child EXCEPT ![n] = -1]
  /\ UNCHANGED <<stream, told, alone, crashes>>

(* complete_job *)
Complete(n) ==
  /\ child[n] = Len(Reports) /\ Ends(n)
  /\ job' = IF job.cancel THEN [job EXCEPT !.status = "cancelled"]
            ELSE IF job.status = "processing" /\ job.owner = n
            THEN [job EXCEPT !.status = "complete", !.progress = 100, !.owner = 0]
            ELSE job

(* fail_job, after the child has failed or was killed. *)
Fail(n, retryable) ==
  /\ Ends(n)
  /\ job' = IF job.owner # n THEN job
            ELSE [job EXCEPT !.owner = 0, !.status =
                    IF job.cancel THEN "cancelled"
                    ELSE IF retryable /\ job.attempts < MaxAttempts THEN "retry" ELSE "failed"]

(* The child has a session of its own and goes on. *)
Crash(n) ==
  /\ worker[n] /\ crashes < MaxCrashes /\ crashes' = crashes + 1
  /\ worker' = [worker EXCEPT ![n] = FALSE]
  /\ UNCHANGED <<job, child, stream, told, alone>>

(* recover_stale_jobs, once the lease is over. *)
Recover ==
  /\ job.status = "processing" /\ ~ worker[job.owner] /\ ~ job.cancel
  /\ job' = [job EXCEPT !.status = "retry", !.owner = 0]
  /\ UNCHANGED <<worker, child, stream, told, alone, crashes>>

OrphanDies(n) ==
  /\ child[n] # -1 /\ ~ worker[n] /\ child' = [child EXCEPT ![n] = -1]
  /\ UNCHANGED <<job, worker, stream, told, alone, crashes>>

RequestCancel ==
  /\ job.status \notin Settled
  /\ job' = [job EXCEPT !.cancel = TRUE,
                        !.status = IF @ \in {"pending", "retry"} THEN "cancelled" ELSE @]
  /\ UNCHANGED <<worker, child, stream, told, alone, crashes>>

Expire ==
  /\ job.status \in Settled \ {"expired"} /\ job' = [job EXCEPT !.status = "expired"]
  /\ UNCHANGED <<worker, child, stream, told, alone, crashes>>

(* job_progress_sse: one event for each look at the row, the last one settled. *)
Open ==
  /\ stream = "closed" /\ stream' = "open"
  /\ UNCHANGED <<job, worker, child, told, alone, crashes>>

Tell ==
  /\ stream = "open"
  /\ told' = [status |-> job.status, progress |-> job.progress, attempts |-> job.attempts]
  /\ stream' = IF job.status \in Settled THEN "ended" ELSE "open"
  /\ UNCHANGED <<job, worker, child, alone, crashes>>

ProgressNext ==
  \/ Claim \/ Recover \/ RequestCancel \/ Expire \/ Open \/ Tell
  \/ \E n \in Claims : \/ Report(n) \/ Complete(n) \/ Crash(n) \/ OrphanDies(n)
                       \/ \E retryable \in BOOLEAN : Fail(n, retryable)

-----------------------------------------------------------------------------
(* However many workers die, what the last event says of the end is how the job  *)
(* stays, and 100 is told of a complete job alone. In an attempt that was claimed *)
(* when no child of an earlier one was alive, the number never goes back and     *)
(* complete means 100: a child whose worker has died goes on to report by the id *)
(* of the job (update_progress without an owner), and once the job is claimed    *)
(* again it writes over the progress of the later attempt, and of a complete job.*)
ProgressTrue ==
  [][/\ stream' = "ended" => job'.status \in {told'.status, "expired"}
     /\ told'.progress = 100 => told'.status \in {"complete", "expired"}
     /\ alone' =>
          /\ told'.attempts = told.attempts => told'.progress >= told.progress
          /\ told'.status = "complete" => told'.progress = 100]_progressVars

-----------------------------------------------------------------------------
(* The inductive invariant: who executes the job is who has claimed it last;    *)
(* the claims are bounded by the attempts and the crashes; what the stream has   *)
(* ended with stays; 100 is complete; and in an attempt of one child the row     *)
(* shows that child's last report, its worker alive or not, and no more has been *)
(* told than it shows.                                                          *)
Reported(k) == IF k = 0 THEN 1 ELSE Reports[k]

OwnerExecutes ==
  /\ \A n \in Claims : worker[n] => job.status = "processing" /\ job.owner = n
  /\ job.status = "processing" => job.owner = job.attempts /\ job.owner \in Claims

ClaimsBounded ==
  /\ job.attempts <= MaxAttempts + crashes
  /\ \/ job.status \in {"pending", "retry"}
     \/ job.status = "processing" /\ ~ worker[job.owner]
     => job.attempts < MaxAttempts + crashes

EndToldStays ==
  /\ stream = "ended" <=> told.status \in Settled
  /\ stream = "ended" => job.status \in {told.status, "expired"}

HundredIsComplete ==
  /\ job.progress = 100 => job.status \in {"complete", "expired"}
  /\ told.progress = 100 => told.status \in {"complete", "expired"}
  /\ told.attempts <= job.attempts

RowShowsChild ==
  /\ \A n \in Claims : child[n] # -1 => n = job.attempts /\ job.progress = Reported(child[n])
  /\ job.status = "complete" => job.progress = 100

ToldIsPast ==
  /\ told.attempts = job.attempts => told.progress <= job.progress
  /\ told.status = "complete" => told.progress = 100

ProgressInv ==
  /\ ProgressTypeOK /\ OwnerExecutes /\ ClaimsBounded /\ EndToldStays /\ HundredIsComplete
  /\ alone => RowShowsChild /\ ToldIsPast

=============================================================================
