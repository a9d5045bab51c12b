-------------------------- MODULE DocumentsInvariant --------------------------
(***************************************************************************)
(* The inductive invariant of Documents: what the routes, the deletions,   *)
(* the workers and the sweeps rely on without reading it.                  *)
(***************************************************************************)
EXTENDS Documents

Deleting == {"checked", "marked", "cancelled", "unlinked"}
Asking   == {"new", "saved", "counted", "registered"}

(* Whose steps may follow: a discarded upload deletes its own document, a       *)
(* client or a sweep one whose upload request is over.                          *)
HandlersOK ==
  /\ \A d \in Docs : at[d] # "idle" /\ target[d] = d
  /\ \A p \in Callers \cup Sweepers :
       /\ at[p] \in {"idle"} \cup Deleting
       /\ at[p] # "idle" => target[p] \in Docs /\ at[target[p]] \in {"answered", "ended"}

(* A request that is not answered has no job and nothing takes its object; a    *)
(* job exists from the moment its request is answered with it; a document's      *)
(* retention ends long after its upload request.                                *)
RequestsOK ==
  \A d \in Docs :
    /\ at[d] \in Asking => answer[d] = NoDoc /\ doc[d] \in {"none", "active"}
    /\ at[d] \in Asking \ {"new"} => d \in source
    /\ job[d] # "none" => at[d] = "answered"
    /\ over[d] => at[d] \in {"answered", "ended"}

(* One job for each key, and answers name the job of their key and content.     *)
AnswersOK ==
  /\ \A d, e \in Docs : job[d] # "none" /\ job[e] # "none" /\ key[d] = key[e] => d = e
  /\ \A d \in Docs : answer[d] # NoDoc =>
       job[answer[d]] # "none" /\ key[answer[d]] = key[d] /\ content[answer[d]] = content[d]

Stopped(d) == job[d] # "pending" /\ (job[d] = "processing" => cancel[d])

(* A deletion whose SELECT found no job overlooks none, and after its          *)
(* request_cancel the job is stopped for good.                                  *)
DeletionsOK ==
  \A p \in Procs :
    /\ at[p] = "marked" /\ ~found[p] => job[target[p]] \in {"none", "expired"}
    /\ at[p] \in {"cancelled", "unlinked"} => Stopped(target[p])

(* Who has decided writes to a row that is being processed still, and a result  *)
(* is published exactly of jobs that are complete.                              *)
OutcomesOK ==
  \A d \in Docs :
    /\ verdict[d] # "none" => job[d] = "processing"
    /\ published[d] <=> job[d] = "complete"

IInv ==
  /\ TypeOK /\ HandlersOK /\ RequestsOK /\ AnswersOK /\ DeletionsOK /\ OutcomesOK
  /\ OpenJobHasSource /\ DeletionStopsJobs
=============================================================================
