----------------------------- MODULE Documents -----------------------------
(***************************************************************************)
(* Uploads, documents and their jobs: the OCR routes of                    *)
(* web/routes/ocr_async.py, web/governance.py and the purge of             *)
(* web/job_registry.py, which share the `documents` and `jobs` tables and  *)
(* the object directory without a common transaction.                      *)
(*                                                                         *)
(* An upload request, its document, its source object and the job it may   *)
(* create have one name. A job is what JobPromise says of it, plus the     *)
(* gap between the moment its worker reads cancel_requested and the moment *)
(* it writes the outcome; leases and attempts are in JobQueue.             *)
(***************************************************************************)
EXTENDS Naturals

CONSTANTS
  Docs,        \* upload requests
  NoDoc,
  Keys,        \* Idempotency-Key values of one tenant
  Contents,    \* what payload_sha256 tells apart: digest and parameters
  Callers,     \* API processes that serve DELETE .../documents/{id}
  Sweepers,    \* worker processes that run expire_documents
  MaxCrashes,  \* bound: handlers cut off half way
  MaxFailures  \* bound: unlinks that raise OSError

ASSUME NoDocAssumption == NoDoc \notin Docs
ASSUME ProcsAssumption == Docs \cap (Callers \cup Sweepers) = {} /\ Callers \cap Sweepers = {}
ASSUME BoundsAssumption == MaxCrashes \in Nat /\ MaxFailures \in Nat

VARIABLES
  at,         \* where each request, caller and sweeper is in its handler
  key, content,
  answer,     \* the job a request was answered with
  target,     \* the document a deletion is about
  named,      \* the row the deletion read named a source_path
  found,      \* the deletion's SELECT found the job
  seen,       \* ... with a result_path
  doc, hold,
  path,       \* source_path is not ''
  over,       \* retention_until < now
  job, cancel,
  published,  \* result_path is not NULL
  verdict,    \* what the worker has decided to write
  ttl,        \* expires_at < now
  source, results,  \* the objects on disk
  crashes, failures

request   == <<key, content, answer>>
deletion  == <<target, named, found, seen>>
document  == <<doc, hold, path, over>>
queue     == <<job, cancel, published, verdict, ttl>>
objects   == <<source, results>>
bounds    == <<crashes, failures>>
vars      == <<at, request, deletion, document, queue, objects, bounds>>

Procs   == Docs \cup Callers \cup Sweepers
Settled == {"complete", "failed", "cancelled"}

TypeOK ==
  /\ at \in [Procs -> {"new", "saved", "counted", "registered", "discarding", "idle",
                       "checked", "marked", "cancelled", "unlinked", "answered", "ended"}]
  /\ key \in [Docs -> Keys \cup {NoDoc}] /\ content \in [Docs -> Contents \cup {NoDoc}]
  /\ answer \in [Docs -> Docs \cup {NoDoc}]
  /\ target \in [Procs -> Docs \cup {NoDoc}]
  /\ named \in [Procs -> BOOLEAN] /\ found \in [Procs -> BOOLEAN] /\ seen \in [Procs -> BOOLEAN]
  /\ doc \in [Docs -> {"none", "active", "deletion-pending", "deleted"}]
  /\ hold \in [Docs -> BOOLEAN] /\ path \in [Docs -> BOOLEAN] /\ over \in [Docs -> BOOLEAN]
  /\ job \in [Docs -> {"none", "pending", "processing", "expired"} \cup Settled]
  /\ cancel \in [Docs -> BOOLEAN] /\ published \in [Docs -> BOOLEAN]
  /\ verdict \in [Docs -> {"none"} \cup Settled] /\ ttl \in [Docs -> BOOLEAN]
  /\ source \subseteq Docs /\ results \subseteq Docs
  /\ crashes \in 0 .. MaxCrashes /\ failures \in 0 .. MaxFailures

Init ==
  /\ at = [p \in Procs |-> IF p \in Docs THEN "new" ELSE "idle"]
  /\ key = [d \in Docs |-> NoDoc] /\ content = [d \in Docs |-> NoDoc]
  /\ answer = [d \in Docs |-> NoDoc]
  /\ target = [p \in Procs |-> IF p \in Docs THEN p ELSE NoDoc]
  /\ named = [p \in Procs |-> FALSE]
  /\ found = [p \in Procs |-> FALSE] /\ seen = [p \in Procs |-> FALSE]
  /\ doc = [d \in Docs |-> "none"]
  /\ path = [d \in Docs |-> FALSE]
  /\ hold = [d \in Docs |-> FALSE] /\ over = [d \in Docs |-> FALSE]
  /\ job = [d \in Docs |-> "none"] /\ cancel = [d \in Docs |-> FALSE]
  /\ published = [d \in Docs |-> FALSE]
  /\ verdict = [d \in Docs |-> "none"] /\ ttl = [d \in Docs |-> FALSE]
  /\ source = {} /\ results = {}
  /\ crashes = 0 /\ failures = 0

-----------------------------------------------------------------------------
(* POST /api/ocr/.../async. *)

(* save_upload(durable=True). *)
Save(d, k, c) ==
  /\ at[d] = "new"
  /\ at' = [at EXCEPT ![d] = "saved"]
  /\ key' = [key EXCEPT ![d] = k] /\ content' = [content EXCEPT ![d] = c]
  /\ source' = source \cup {d}
  /\ UNCHANGED <<answer, deletion, document, queue, results, bounds>>

(* consume_quota lets the request pass, or raises 429 and ends it. *)
Admit(d) ==
  /\ at[d] = "saved"
  /\ \E next \in {"counted", "ended"} : at' = [at EXCEPT ![d] = next]
  /\ UNCHANGED <<request, deletion, document, queue, objects, bounds>>

Register(d) ==
  /\ at[d] = "counted"
  /\ at' = [at EXCEPT ![d] = "registered"]
  /\ doc' = [doc EXCEPT ![d] = "active"]
  /\ path' = [path EXCEPT ![d] = TRUE]
  /\ UNCHANGED <<request, deletion, hold, over, queue, objects, bounds>>

(* A definition whose name ends in _Faulty is the one after it with a         *)
(* plausible mistake; nothing uses it, the properties are tried against it.  *)

(* The row of the unique index (tenant_id, idempotency_key), if any. Faulty: *)
(* no such index.                                                            *)
Prior_Faulty(d) == {}

Prior(d) == {j \in Docs : job[j] # "none" /\ key[j] = key[d]}

(* create_job inserts. *)
CreateJob(d) ==
  /\ at[d] = "registered" /\ Prior(d) = {}
  /\ at' = [at EXCEPT ![d] = "answered"]
  /\ answer' = [answer EXCEPT ![d] = d]
  /\ job' = [job EXCEPT ![d] = "pending"]
  /\ UNCHANGED <<key, content, deletion, document, cancel, published, verdict, ttl,
                 objects, bounds>>

(* create_job returns the prior job, or raises ValueError; in both cases the *)
(* route deletes the document it has just registered.                        *)
ReplayJob(d) ==
  /\ at[d] = "registered"
  /\ \E j \in Prior(d) :
       answer' = [answer EXCEPT ![d] = IF content[j] = content[d] THEN j ELSE NoDoc]
  /\ at' = [at EXCEPT ![d] = "discarding"]
  /\ UNCHANGED <<key, content, deletion, document, queue, objects, bounds>>

-----------------------------------------------------------------------------
(* delete_document, for a discarded upload, a client or the retention sweep. *)

(* Clients learn of a document when its upload request is over. *)
Known(d) == doc[d] # "none" /\ at[d] \in {"answered", "ended"}

BeginDeletion(p, d) ==
  /\ at' = [at EXCEPT ![p] = "checked"]
  /\ target' = [target EXCEPT ![p] = d]
  /\ named' = [named EXCEPT ![p] = path[d]]
  /\ UNCHANGED <<request, found, seen, document, queue, objects, bounds>>

Discard(d) ==
  /\ at[d] = "discarding"
  /\ ~hold[d]
  /\ BeginDeletion(d, d)

ClientDelete(p, d) ==
  /\ p \in Callers /\ at[p] = "idle"
  /\ Known(d) /\ ~hold[d]
  /\ BeginDeletion(p, d)

(* The rows expire_documents selects. Faulty: only those whose source object *)
(* is still there.                                                           *)
Overdue_Faulty(d) == doc[d] = "active" /\ over[d] /\ ~hold[d] /\ d \in source

Overdue(d) == doc[d] = "active" /\ over[d] /\ ~hold[d]

(* expire_documents selects the row and delete_document reads it again. *)
RetentionDelete(p, d) ==
  /\ p \in Sweepers /\ at[p] = "idle"
  /\ Overdue(d)
  /\ BeginDeletion(p, d)

(* The SELECT of the jobs whose payload still names the document. Faulty:    *)
(* only those a worker executes.                                             *)
Finds_Faulty(d) == job[d] = "processing"

Finds(d) == job[d] \notin {"none", "expired"}

MarkPending(p) ==
  LET d == target[p] IN
  /\ at[p] = "checked"
  /\ at' = [at EXCEPT ![p] = "marked"]
  /\ found' = [found EXCEPT ![p] = Finds(d)]
  /\ seen' = [seen EXCEPT ![p] = published[d]]
  /\ doc' = [doc EXCEPT ![d] = "deletion-pending"]
  /\ UNCHANGED <<request, target, named, hold, path, over, queue, objects, bounds>>

(* request_cancel. Faulty: a job that is being processed is let be. *)
CancelFlag_Faulty(d) == cancel[d] \/ job[d] = "pending"

CancelFlag(d) == cancel[d] \/ job[d] \in {"pending", "processing"}

(* Faulty: a status of its own for jobs that are being cancelled. *)
CancelStatus_Faulty(d) == IF job[d] \in {"pending", "processing"} THEN "cancelling" ELSE job[d]

CancelStatus(d) == IF job[d] = "pending" THEN "cancelled" ELSE job[d]

(* secure_unlink of the result of a job, of its source, or of both: it        *)
(* swallows an OSError, and what could not be removed stays.                   *)
UnlinkOf(d, of_result, of_source) ==
  \E result_stays, source_stays \in BOOLEAN :
    /\ result_stays => of_result /\ d \in results
    /\ source_stays => of_source /\ d \in source
    /\ failures' = failures + (IF result_stays THEN 1 ELSE 0) + (IF source_stays THEN 1 ELSE 0)
    /\ failures' <= MaxFailures
    /\ results' = IF of_result /\ ~ result_stays THEN results \ {d} ELSE results
    /\ source'  = IF of_source /\ ~ source_stays THEN source \ {d} ELSE source

CancelAndUnlink(p) ==
  LET d == target[p] IN
  /\ at[p] = "marked"
  /\ at' = [at EXCEPT ![p] = "cancelled"]
  /\ IF found[p]
     THEN /\ cancel' = [cancel EXCEPT ![d] = CancelFlag(d)]
          /\ job' = [job EXCEPT ![d] = CancelStatus(d)]
     ELSE UNCHANGED <<cancel, job>>
  /\ UnlinkOf(d, seen[p], FALSE)
  /\ UNCHANGED <<request, deletion, document, published, verdict, ttl, crashes>>

UnlinkSource(p) ==
  /\ at[p] = "cancelled"
  /\ at' = [at EXCEPT ![p] = "unlinked"]
  /\ UnlinkOf(target[p], FALSE, named[p])
  /\ UNCHANGED <<request, deletion, document, queue, crashes>>

(* The row loses its source_path; the handler is over. *)
MarkDeleted(p) ==
  /\ at[p] = "unlinked"
  /\ at' = [at EXCEPT ![p] = IF p \in Docs THEN "answered" ELSE "idle"]
  /\ doc' = [doc EXCEPT ![target[p]] = "deleted"]
  /\ path' = [path EXCEPT ![target[p]] = FALSE]
  /\ target' = [target EXCEPT ![p] = IF p \in Docs THEN p ELSE NoDoc]
  /\ named' = [named EXCEPT ![p] = FALSE]
  /\ found' = [found EXCEPT ![p] = FALSE] /\ seen' = [seen EXCEPT ![p] = FALSE]
  /\ UNCHANGED <<request, hold, over, queue, objects, bounds>>

(* set_legal_hold; like clients, administrators act on documents they know. *)
SetHold(d) ==
  /\ Known(d)
  /\ hold' = [hold EXCEPT ![d] = ~@]
  /\ UNCHANGED <<at, request, deletion, doc, path, over, queue, objects, bounds>>

-----------------------------------------------------------------------------
(* The jobs. *)

(* DELETE /api/jobs/{id}. *)
RequestCancel(d) ==
  /\ job[d] \in {"pending", "processing"}
  /\ cancel' = [cancel EXCEPT ![d] = CancelFlag(d)]
  /\ job' = [job EXCEPT ![d] = CancelStatus(d)]
  /\ UNCHANGED <<at, request, deletion, document, published, verdict, ttl, objects, bounds>>

StartJob(d) ==
  /\ job[d] = "pending"
  /\ job' = [job EXCEPT ![d] = "processing"]
  /\ UNCHANGED <<at, request, deletion, document, cancel, published, verdict, ttl,
                 objects, bounds>>

(* The child reads the source object and leaves a result. *)
Produce(d) ==
  /\ job[d] = "processing" /\ verdict[d] = "none" /\ d \in source
  /\ results' = results \cup {d}
  /\ UNCHANGED <<at, request, deletion, document, queue, source, bounds>>

(* complete_job and fail_job read the row. A result that is not published may *)
(* be unlinked or left behind.                                                *)
Decide(d) ==
  /\ job[d] = "processing" /\ verdict[d] = "none"
  /\ \/ /\ cancel[d]
        /\ verdict' = [verdict EXCEPT ![d] = "cancelled"]
        /\ results' \in {results, results \ {d}}
     \/ /\ ~cancel[d] /\ d \in results
        /\ verdict' = [verdict EXCEPT ![d] = "complete"]
        /\ UNCHANGED results
     \/ /\ ~cancel[d]
        /\ verdict' = [verdict EXCEPT ![d] = "failed"]
        /\ UNCHANGED results
  /\ UNCHANGED <<at, request, deletion, document, job, cancel, published, ttl,
                 source, bounds>>

(* ... and write it. *)
Settle(d) ==
  /\ verdict[d] # "none"
  /\ job' = [job EXCEPT ![d] = verdict[d]]
  /\ published' = [published EXCEPT ![d] = verdict[d] = "complete"]
  /\ verdict' = [verdict EXCEPT ![d] = "none"]
  /\ UNCHANGED <<at, request, deletion, document, cancel, ttl, objects, bounds>>

(* The rows purge_old_jobs selects. Faulty: the status is not looked at; only *)
(* rows whose source object is still there.                                  *)
Purgeable_Faulty2(d) == job[d] \in Settled /\ ttl[d] /\ d \in source

Purgeable_Faulty(d) == job[d] \notin {"none", "expired"} /\ ttl[d]

Purgeable(d) == job[d] \in Settled /\ ttl[d]

(* purge_old_jobs on one row: whatever the unlinks have done, the row then   *)
(* forgets both paths. What it has selected stays settled (JobQueue's         *)
(* SweepSettled), so that selecting and marking make one step.                *)
Purge(d) ==
  /\ Purgeable(d)
  /\ job' = [job EXCEPT ![d] = "expired"]
  /\ published' = [published EXCEPT ![d] = FALSE]
  /\ UnlinkOf(d, published[d], TRUE)
  /\ UNCHANGED <<at, request, deletion, document, cancel, verdict, ttl, crashes>>

-----------------------------------------------------------------------------
TtlElapses(d) ==
  /\ job[d] # "none" /\ ~ttl[d]
  /\ ttl' = [ttl EXCEPT ![d] = TRUE]
  /\ UNCHANGED <<at, request, deletion, document, job, cancel, published, verdict,
                 objects, bounds>>

(* Seven days are longer than a request. *)
RetentionElapses(d) ==
  /\ Known(d) /\ ~over[d]
  /\ over' = [over EXCEPT ![d] = TRUE]
  /\ UNCHANGED <<at, request, deletion, doc, hold, path, queue, objects, bounds>>

(* The process of a handler dies; its state is lost. *)
Crash(p) ==
  /\ at[p] \notin {"new", "idle", "answered", "ended"} /\ crashes < MaxCrashes
  /\ crashes' = crashes + 1
  /\ at' = [at EXCEPT ![p] = IF p \in Docs THEN "ended" ELSE "idle"]
  /\ target' = [target EXCEPT ![p] = IF p \in Docs THEN p ELSE NoDoc]
  /\ named' = [named EXCEPT ![p] = FALSE]
  /\ found' = [found EXCEPT ![p] = FALSE] /\ seen' = [seen EXCEPT ![p] = FALSE]
  /\ UNCHANGED <<request, document, queue, objects, failures>>

DeletionStep(p) == MarkPending(p) \/ CancelAndUnlink(p) \/ UnlinkSource(p) \/ MarkDeleted(p)

RequestStep(d) ==
  \/ Admit(d) \/ Register(d) \/ CreateJob(d) \/ ReplayJob(d) \/ Discard(d)

JobStep(d) == StartJob(d) \/ Produce(d) \/ Decide(d) \/ Settle(d)

Next ==
  \/ \E d \in Docs : \/ \E k \in Keys, c \in Contents : Save(d, k, c)
                     \/ RequestStep(d) \/ JobStep(d)
                     \/ RequestCancel(d) \/ SetHold(d) \/ Purge(d)
                     \/ TtlElapses(d) \/ RetentionElapses(d)
                     \/ \E p \in Callers : ClientDelete(p, d)
                     \/ \E p \in Sweepers : RetentionDelete(p, d)
  \/ \E p \in Procs : DeletionStep(p) \/ Crash(p)

Spec == Init /\ [][Next]_vars

(* Handlers that were begun go on, a living worker executes and sweeps, and  *)
(* time passes; clients and administrators need not act.                     *)
Fairness ==
  /\ \A p \in Procs : WF_vars(DeletionStep(p))
  /\ \A d \in Docs : /\ WF_vars(RequestStep(d)) /\ WF_vars(JobStep(d))
                     /\ WF_vars(\E p \in Sweepers : RetentionDelete(p, d))
                     /\ WF_vars(Purge(d)) /\ WF_vars(TtlElapses(d))
                     /\ WF_vars(RetentionElapses(d))

FairSpec == Spec /\ Fairness

-----------------------------------------------------------------------------
(* Properties. *)

(* A job that may still run finds its source: no replay that discards its own *)
(* upload, no purge and no deletion of a document takes the object from under *)
(* a job that has not been cancelled first.                                   *)
OpenJobHasSource ==
  \A d \in Docs : job[d] \in {"pending", "processing"} /\ ~cancel[d] => d \in source

(* Requests with one key and one content, answered in whatever order, name    *)
(* one job, and a request with another content never gets it (create_job).    *)
RetriesShareOneJob ==
  \A d, e \in Docs :
    /\ at[d] = "answered" /\ at[e] = "answered" /\ key[d] = key[e]
    /\ answer[d] # NoDoc /\ answer[e] # NoDoc
    => answer[d] = answer[e] /\ content[d] = content[e]

(* Once a document is deleted its job neither starts nor goes on unnoticed:   *)
(* it is cancelled, or it will be at its worker's next look, unless that look *)
(* was already over (delete_document, request_cancel, complete_job).          *)
DeletionStopsJobs ==
  \A d \in Docs : doc[d] = "deleted" =>
    job[d] # "pending" /\ (job[d] = "processing" => cancel[d])

(* The jobs behave as JobPromise says, deletions and purges included. *)
Shown(s) == CASE s = "none" -> "none"
              [] s \in {"pending", "processing"} -> "open"
              [] OTHER -> s

Promise == INSTANCE JobPromise WITH
             Jobs <- Docs,
             phase <- [d \in Docs |-> Shown(job[d])],
             result <- [d \in Docs |-> IF published[d] THEN 1 ELSE 0]

JobsKeepPromise == Promise!Spec

(* What the retention sweep should delete is deleted in the end, unless a     *)
(* hold is set (expire_documents).                                            *)
RetentionEnforced ==
  \A d \in Docs : (doc[d] = "active" /\ over[d]) ~> (hold[d] \/ doc[d] = "deleted")

(* PRIVACY.md:6: "Legal hold prevents deletion." The source of a document    *)
(* whose hold nobody overtook stays.                                         *)
HeldSourceKept ==
  [][\A d \in Docs : hold[d] /\ doc[d] = "active" /\ d \in source => d \in source']_vars

(* A job that completed while its document was being deleted, after the        *)
(* deletion had looked at its result_path, keeps a result that can be          *)
(* downloaded. In the end it cannot (purge_old_jobs), whatever unlinks fail,   *)
(* and its file is gone, or is one that could not be removed.                  *)
DeletedResultsVanish ==
  \A d \in Docs : (doc[d] = "deleted" /\ published[d])
                    ~> (~published[d] /\ (d \in results => failures > 0))

(* README.md:46-47: "... expiration, and deletion propagation are persisted",  *)
(* and intake.py:214: "Lifecycle sweeps retry failures": a deletion that was   *)
(* begun is finished, and leaves no source object.                             *)
DeletionLeavesNothing ==
  \A d \in Docs :
    doc[d] \in {"deletion-pending", "deleted"} ~> (doc[d] = "deleted" /\ d \notin source)
=============================================================================
