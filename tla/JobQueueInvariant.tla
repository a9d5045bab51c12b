------------------------- MODULE JobQueueInvariant -------------------------
(***************************************************************************)
(* The inductive invariant behind the safety properties of JobQueue.  The  *)
(* first group of its parts holds whatever the leases do; the second one   *)
(* needs that no lease ran out under a living worker.                      *)
(***************************************************************************)
EXTENDS JobQueue

(* A worker inside _execute has a job and the number of its claim; what a    *)
(* handler has decided to write is one of the statuses that handler writes.  *)
LocalsOK ==
  \A w \in Workers :
    /\ pc[w] \in Busy => /\ current[w] \in Jobs
                         /\ attempt[w] > 0
                         /\ attempt[w] <= attempts[current[w]]
    /\ pc[w] = "failing" => verdict[w] \in {"cancelled", "retry", "failed"}
    /\ pc[w] = "completing" => verdict[w] \in {"cancelled", "complete"}

(* Two workers never execute the same claim. *)
ClaimsDistinct ==
  \A w, v \in Workers :
    /\ pc[w] \in Busy /\ pc[v] \in Busy
    /\ current[w] = current[v] /\ attempt[w] = attempt[v]
    => w = v

(* The row of a job in processing names a worker that is gone, or executes   *)
(* the last claim of the job.                                                *)
OwnerExecutes ==
  \A j \in Jobs : \A w \in Workers :
    Holds(w, j) /\ pc[w] # "gone" => Executes(w, j) /\ attempt[w] = attempts[j]

(* A published result has left the lease, and is no file of a claim that is *)
(* still being executed.                                                    *)
ResultSettled ==
  \A j \in Jobs :
    /\ result_path[j] <= attempts[j]
    /\ result_path[j] # 0 => /\ lease_owner[j] = NoWorker
                             /\ status[j] \in {"complete", "cancelled"}
    /\ \A w \in Workers : Executes(w, j) => attempt[w] # result_path[j]

(* A retry that will be written was decided below the limit, and a job that *)
(* waits for a claim has one left.                                          *)
AttemptsLeft ==
  /\ \A j \in Jobs : status[j] \in {"absent", "pending", "retry"} =>
                       attempts[j] < MaxAttempts + recovered[j]
  /\ \A w \in Workers :
       pc[w] = "failing" /\ verdict[w] = "retry" /\ lease_owner[current[w]] = w =>
         attempts[current[w]] < MaxAttempts

(* The file a worker is about to publish is there, unless the TTL is over: *)
(* only the sweep unlinks files of others, and only those of aged jobs.    *)
FileThere ==
  /\ \A w \in Workers :
       \/ pc[w] = "running" /\ child[w] \in {"wrote", "ok", "garbled"}
       \/ pc[w] = "completing" /\ verdict[w] = "complete"
       => aged[current[w]] \/ <<current[w], attempt[w]>> \in files
  /\ \A w \in Workers : \A row \in sweep[w] : aged[row[1]]

(* Without stalls a lease lapses only when its owner executes the job no   *)
(* more, and who executes a job owns it.                                   *)
LeaseGuards ==
  stalls = 0 =>
    /\ \A w \in Workers : pc[w] \in Busy => Holds(w, current[w])
    /\ \A j \in Jobs : lease[j] = "lapsed" => ~Executes(lease_owner[j], j)

(* Without stalls what a sweep has selected is still settled. *)
SweepSettled ==
  /\ \A w \in Workers : pc[w] = "marking" => <<current[w], attempt[w]>> \in sweep[w]
  /\ stalls = 0 =>
       \A w \in Workers : \A row \in sweep[w] : status[row[1]] \in Terminal \cup {"expired"}

IInv ==
  /\ TypeOK
  /\ LocalsOK
  /\ ClaimsDistinct
  /\ OwnerExecutes
  /\ ResultSettled
  /\ ResultIsFromLatestClaim
  /\ ResultKeptUntilTtl
  /\ AttemptsLeft
  /\ AttemptsBoundedByRecoveries
  /\ FileThere
  /\ LeaseGuards
  /\ SweepSettled
=============================================================================
