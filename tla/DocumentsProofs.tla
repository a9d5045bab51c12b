--------------------------- MODULE DocumentsProofs ---------------------------
(***************************************************************************)
(* Proofs about Documents: IInv is inductive, one lemma per action and one *)
(* step per part the action touches; the safety properties and the          *)
(* refinement of JobPromise follow.                                         *)
(***************************************************************************)
EXTENDS DocumentsInvariant, TLAPS

(* save_upload writes an object no row names yet.                             *)
LEMMA SaveStep ==
  ASSUME IInv, NEW d \in Docs, NEW k \in Keys, NEW c \in Contents, Save(d, k, c)
  PROVE  IInv'
<1>1. TypeOK'
  BY DEF IInv, TypeOK, Save, deletion, document, queue, bounds
<1>2. OutcomesOK' /\ DeletionStopsJobs'
  BY DEF IInv, OutcomesOK, DeletionStopsJobs, Save, document, queue, bounds
<1>3. HandlersOK'
  BY DEF IInv, HandlersOK, Save, deletion, bounds
<1>4. RequestsOK'
  BY DEF IInv, RequestsOK, Asking, Save, document, queue, bounds
<1>5. AnswersOK'
  BY DEF IInv, RequestsOK, AnswersOK, Asking, Save, queue, bounds
<1>6. DeletionsOK'
  BY DEF IInv, DeletionsOK, Stopped, Save, deletion, queue, bounds
<1>7. OpenJobHasSource'
  BY DEF IInv, OpenJobHasSource, Save, queue, bounds
<1> QED
  BY <1>1, <1>2, <1>3, <1>4, <1>5, <1>6, <1>7 DEF IInv

(* consume_quota lets pass or refuses.                                        *)
LEMMA AdmitStep ==
  ASSUME IInv, NEW d \in Docs, Admit(d)
  PROVE  IInv'
<1>1. TypeOK'
  BY DEF IInv, TypeOK, Settled, Procs, Admit, request, deletion, document, queue, objects,
         bounds
<1>2. AnswersOK' /\ OutcomesOK' /\ OpenJobHasSource' /\ DeletionStopsJobs'
  BY DEF IInv, AnswersOK, OutcomesOK, OpenJobHasSource, DeletionsOK, Stopped, OutcomesOK,
         DeletionStopsJobs, DeletionsOK, Stopped, Admit, request, deletion, document, queue,
         objects, bounds
<1>3. HandlersOK'
  BY DEF IInv, HandlersOK, Admit, deletion, bounds
<1>4. RequestsOK'
  BY DEF IInv, TypeOK, HandlersOK, RequestsOK, Procs, Asking, Admit, request, deletion,
         document, queue, objects, bounds
<1>5. DeletionsOK'
  BY DEF IInv, DeletionsOK, Stopped, Admit, deletion, queue, bounds
<1> QED
  BY <1>1, <1>2, <1>3, <1>4, <1>5 DEF IInv

(* The row of a new document; no deletion knows it.                           *)
LEMMA RegisterStep ==
  ASSUME IInv, NEW d \in Docs, Register(d)
  PROVE  IInv'
<1>1. TypeOK'
  BY DEF IInv, TypeOK, Settled, Procs, Register, request, deletion, queue, objects, bounds
<1>2. AnswersOK' /\ OutcomesOK' /\ OpenJobHasSource'
  BY DEF IInv, AnswersOK, OutcomesOK, OpenJobHasSource, DeletionsOK, Stopped, OutcomesOK,
         Register, request, deletion, queue, objects, bounds
<1>3. HandlersOK'
  BY DEF IInv, HandlersOK, Register, deletion, bounds
<1>4. RequestsOK'
  BY DEF IInv, TypeOK, HandlersOK, RequestsOK, Procs, Asking, Register, request, deletion,
         queue, objects, bounds
<1>5. DeletionsOK'
  BY DEF IInv, DeletionsOK, Stopped, Register, deletion, queue, bounds
<1>6. DeletionStopsJobs'
  BY DEF IInv, DeletionStopsJobs, Register, queue, bounds
<1> QED
  BY <1>1, <1>2, <1>3, <1>4, <1>5, <1>6 DEF IInv

(* create_job inserts: the key has no job, the object is there.               *)
LEMMA CreateJobStep ==
  ASSUME IInv, NEW d \in Docs, CreateJob(d)
  PROVE  IInv'
<1>1. TypeOK'
  BY DEF IInv, TypeOK, Settled, Procs, CreateJob, Prior, deletion, document, objects, bounds
<1>2. HandlersOK'
  BY DEF IInv, HandlersOK, CreateJob, deletion, bounds
<1>3. RequestsOK'
  BY DEF IInv, TypeOK, HandlersOK, RequestsOK, Procs, Asking, CreateJob, Prior, deletion,
         document, objects, bounds
<1>4. AnswersOK'
  BY DEF IInv, TypeOK, AnswersOK, CreateJob, Prior, bounds
<1>5. DeletionsOK'
  BY DEF IInv, HandlersOK, Procs, DeletionsOK, Stopped, Deleting, CreateJob, deletion, bounds
<1>6. OutcomesOK'
  BY DEF IInv, OutcomesOK, CreateJob, Prior, bounds
<1>7. OpenJobHasSource'
  BY DEF IInv, TypeOK, HandlersOK, RequestsOK, Procs, OpenJobHasSource, DeletionsOK, Stopped,
         OutcomesOK, Asking, CreateJob, Prior, deletion, document, objects, bounds
<1>8. DeletionStopsJobs'
  BY DEF IInv, RequestsOK, DeletionStopsJobs, Asking, CreateJob, document, bounds
<1> QED
  BY <1>1, <1>2, <1>3, <1>4, <1>5, <1>6, <1>7, <1>8 DEF IInv

(* create_job answers with the job of the key, if the contents agree.         *)
LEMMA ReplayJobStep ==
  ASSUME IInv, NEW d \in Docs, ReplayJob(d)
  PROVE  IInv'
<1>1. TypeOK'
  BY DEF IInv, TypeOK, Settled, Procs, ReplayJob, Prior, deletion, document, queue, objects,
         bounds
<1>2. OutcomesOK' /\ OpenJobHasSource' /\ DeletionStopsJobs'
  BY DEF IInv, OutcomesOK, OpenJobHasSource, DeletionsOK, Stopped, OutcomesOK,
         DeletionStopsJobs, DeletionsOK, Stopped, ReplayJob, Prior, deletion, document, queue,
         objects, bounds
<1>3. HandlersOK'
  BY DEF IInv, HandlersOK, ReplayJob, deletion, bounds
<1>4. RequestsOK'
  BY DEF IInv, TypeOK, HandlersOK, RequestsOK, Procs, Asking, ReplayJob, Prior, deletion,
         document, queue, objects, bounds
<1>5. AnswersOK'
  BY DEF IInv, AnswersOK, ReplayJob, Prior, queue, bounds
<1>6. DeletionsOK'
  BY DEF IInv, DeletionsOK, Stopped, ReplayJob, deletion, queue, bounds
<1> QED
  BY <1>1, <1>2, <1>3, <1>4, <1>5, <1>6 DEF IInv

(* A discarded upload deletes what it registered, for which there is no job.  *)
LEMMA DiscardStep ==
  ASSUME IInv, NEW d \in Docs, Discard(d)
  PROVE  IInv'
<1>1. TypeOK'
  BY DEF IInv, TypeOK, Settled, Procs, Discard, BeginDeletion, request, document, queue,
         objects, bounds
<1>2. AnswersOK' /\ OutcomesOK' /\ OpenJobHasSource' /\ DeletionStopsJobs'
  BY DEF IInv, AnswersOK, OutcomesOK, OpenJobHasSource, DeletionsOK, Stopped, OutcomesOK,
         DeletionStopsJobs, DeletionsOK, Stopped, Discard, BeginDeletion, request, document,
         queue, objects, bounds
<1>3. HandlersOK'
  BY DEF IInv, HandlersOK, Discard, BeginDeletion, bounds
<1>4. RequestsOK'
  BY DEF IInv, TypeOK, HandlersOK, RequestsOK, Procs, Asking, Discard, BeginDeletion, request,
         document, queue, objects, bounds
<1>5. DeletionsOK'
  BY DEF IInv, DeletionsOK, Stopped, Discard, BeginDeletion, queue, bounds
<1> QED
  BY <1>1, <1>2, <1>3, <1>4, <1>5 DEF IInv

(* A client deletes a document whose upload is over.                          *)
LEMMA ClientDeleteStep ==
  ASSUME IInv, NEW p \in Callers, NEW d \in Docs, ClientDelete(p, d)
  PROVE  IInv'
<1>1. TypeOK'
  BY DEF IInv, TypeOK, Settled, Procs, ClientDelete, BeginDeletion, Known, request, document,
         queue, objects, bounds
<1>2. AnswersOK' /\ OutcomesOK' /\ OpenJobHasSource' /\ DeletionStopsJobs'
  BY DEF IInv, AnswersOK, OutcomesOK, OpenJobHasSource, DeletionsOK, Stopped, OutcomesOK,
         DeletionStopsJobs, DeletionsOK, Stopped, ClientDelete, BeginDeletion, Known, request,
         document, queue, objects, bounds
<1>3. HandlersOK'
  BY DEF IInv, TypeOK, HandlersOK, Deleting, ClientDelete, BeginDeletion, Known, bounds
<1>4. RequestsOK'
  BY DEF IInv, TypeOK, HandlersOK, RequestsOK, Procs, Asking, ClientDelete, BeginDeletion,
         Known, request, document, queue, objects, bounds
<1>5. DeletionsOK'
  BY DEF IInv, DeletionsOK, Stopped, ClientDelete, BeginDeletion, queue, bounds
<1> QED
  BY <1>1, <1>2, <1>3, <1>4, <1>5 DEF IInv

(* The sweep deletes a document whose upload is over.                         *)
LEMMA RetentionDeleteStep ==
  ASSUME IInv, NEW p \in Sweepers, NEW d \in Docs, RetentionDelete(p, d)
  PROVE  IInv'
<1>1. TypeOK'
  BY DEF IInv, TypeOK, Settled, Procs, RetentionDelete, BeginDeletion, Overdue, request,
         document, queue, objects, bounds
<1>2. AnswersOK' /\ OutcomesOK' /\ OpenJobHasSource' /\ DeletionStopsJobs'
  BY DEF IInv, AnswersOK, OutcomesOK, OpenJobHasSource, DeletionsOK, Stopped, OutcomesOK,
         DeletionStopsJobs, DeletionsOK, Stopped, RetentionDelete, BeginDeletion, Overdue,
         request, document, queue, objects, bounds
<1>3. HandlersOK'
  BY DEF IInv, TypeOK, HandlersOK, RequestsOK, Deleting, RetentionDelete, BeginDeletion,
         Overdue, bounds
<1>4. RequestsOK'
  BY DEF IInv, TypeOK, HandlersOK, RequestsOK, Procs, Asking, RetentionDelete, BeginDeletion,
         Overdue, request, document, queue, objects, bounds
<1>5. DeletionsOK'
  BY DEF IInv, DeletionsOK, Stopped, RetentionDelete, BeginDeletion, queue, bounds
<1> QED
  BY <1>1, <1>2, <1>3, <1>4, <1>5 DEF IInv

(* The deletion looks for jobs of the document.                               *)
LEMMA MarkPendingStep ==
  ASSUME IInv, NEW p \in Procs, MarkPending(p)
  PROVE  IInv'
<1>1. TypeOK'
  <2>1. Finds(target[p]) \in BOOLEAN /\ published[target[p]] \in BOOLEAN
    BY DEF IInv, TypeOK, HandlersOK, Procs, MarkPending, Finds
  <2>2. found' \in [Procs -> BOOLEAN] /\ seen' \in [Procs -> BOOLEAN]
    BY <2>1 DEF IInv, TypeOK, MarkPending
  <2> QED
    BY <2>2 DEF IInv, TypeOK, HandlersOK, Procs, MarkPending, request, queue, objects, bounds
<1>2. AnswersOK' /\ OutcomesOK' /\ OpenJobHasSource'
  BY DEF IInv, AnswersOK, OutcomesOK, OpenJobHasSource, DeletionsOK, Stopped, OutcomesOK,
         MarkPending, Finds, request, deletion, queue, objects, bounds
<1>3. HandlersOK'
  BY DEF IInv, HandlersOK, Deleting, MarkPending, bounds
<1>4. RequestsOK'
  BY DEF IInv, TypeOK, HandlersOK, RequestsOK, Procs, Asking, MarkPending, Finds, request,
         deletion, queue, objects, bounds
<1>5. DeletionsOK'
  BY DEF IInv, TypeOK, Procs, DeletionsOK, Stopped, MarkPending, Finds, queue, bounds
<1>6. DeletionStopsJobs'
  BY DEF IInv, DeletionStopsJobs, MarkPending, queue, bounds
<1> QED
  BY <1>1, <1>2, <1>3, <1>4, <1>5, <1>6 DEF IInv

(* request_cancel stops the job that was found.                               *)
LEMMA CancelAndUnlinkStep ==
  ASSUME IInv, NEW p \in Procs, CancelAndUnlink(p)
  PROVE  IInv'
<1>1. TypeOK'
  <2>1. failures' \in 0 .. MaxFailures
    BY BoundsAssumption DEF IInv, TypeOK, CancelAndUnlink, UnlinkOf
  <2>2. source' = source /\ results' \subseteq Docs
    BY DEF IInv, TypeOK, CancelAndUnlink, UnlinkOf
  <2> QED
    BY <2>1, <2>2 DEF IInv, TypeOK, Settled, CancelAndUnlink, UnlinkOf, CancelFlag, CancelStatus, request,
           deletion, document
<1>2. HandlersOK'
  BY DEF IInv, HandlersOK, Deleting, CancelAndUnlink, UnlinkOf, deletion, bounds
<1>3. RequestsOK'
  BY DEF IInv, TypeOK, RequestsOK, Asking, CancelAndUnlink, UnlinkOf, CancelStatus, request, document,
         bounds
<1>4. AnswersOK'
  BY DEF IInv, TypeOK, AnswersOK, CancelAndUnlink, UnlinkOf, CancelStatus, request, bounds
<1>5. DeletionsOK'
  BY DEF IInv, TypeOK, HandlersOK, Procs, DeletionsOK, Stopped, CancelAndUnlink, UnlinkOf, CancelFlag,
         CancelStatus, deletion, bounds
<1>6. OutcomesOK'
  BY DEF IInv, TypeOK, OutcomesOK, CancelAndUnlink, UnlinkOf, CancelStatus, bounds
<1>7. OpenJobHasSource'
  BY DEF IInv, TypeOK, OpenJobHasSource, CancelAndUnlink, UnlinkOf, CancelFlag, CancelStatus, bounds
<1>8. DeletionStopsJobs'
  BY DEF IInv, TypeOK, DeletionStopsJobs, CancelAndUnlink, UnlinkOf, CancelFlag, CancelStatus, document,
         bounds
<1> QED
  BY <1>1, <1>2, <1>3, <1>4, <1>5, <1>6, <1>7, <1>8 DEF IInv

(* The object goes after the job was stopped.                                 *)
LEMMA UnlinkSourceStep ==
  ASSUME IInv, NEW p \in Procs, UnlinkSource(p)
  PROVE  IInv'
<1>1. TypeOK'
  <2>1. failures' \in 0 .. MaxFailures
    BY BoundsAssumption DEF IInv, TypeOK, UnlinkSource, UnlinkOf, bounds
  <2> QED
    BY <2>1 DEF IInv, TypeOK, UnlinkSource, UnlinkOf, request, deletion, document, queue
<1>2. AnswersOK' /\ OutcomesOK' /\ DeletionStopsJobs'
  BY DEF IInv, AnswersOK, OutcomesOK, DeletionStopsJobs, UnlinkSource, request, document,
         queue
<1>3. HandlersOK'
  BY DEF IInv, HandlersOK, Deleting, UnlinkSource, deletion
<1>4. RequestsOK'
  BY DEF IInv, HandlersOK, RequestsOK, Procs, Asking, UnlinkSource, UnlinkOf, request,
         document, queue
<1>5. DeletionsOK'
  BY DEF IInv, DeletionsOK, Stopped, UnlinkSource, deletion, queue
<1>6. OpenJobHasSource'
  BY DEF IInv, OpenJobHasSource, DeletionsOK, Stopped, UnlinkSource, UnlinkOf, queue
<1> QED
  BY <1>1, <1>2, <1>3, <1>4, <1>5, <1>6 DEF IInv

(* The document is deleted after the job was stopped.                         *)
LEMMA MarkDeletedStep ==
  ASSUME IInv, NEW p \in Procs, MarkDeleted(p)
  PROVE  IInv'
<1>1. TypeOK'
  BY DEF IInv, TypeOK, Settled, Procs, MarkDeleted, request, queue, objects, bounds
<1>2. AnswersOK' /\ OutcomesOK' /\ OpenJobHasSource'
  BY DEF IInv, AnswersOK, OutcomesOK, OpenJobHasSource, DeletionsOK, Stopped, OutcomesOK,
         MarkDeleted, request, queue, objects, bounds
<1>3. HandlersOK'
  BY DEF IInv, TypeOK, HandlersOK, MarkDeleted, bounds
<1>4. RequestsOK'
  BY DEF IInv, TypeOK, HandlersOK, RequestsOK, Procs, Asking, MarkDeleted, request, queue,
         objects, bounds
<1>5. DeletionsOK'
  BY DEF IInv, TypeOK, DeletionsOK, Stopped, MarkDeleted, queue, bounds
<1>6. DeletionStopsJobs'
  BY DEF IInv, DeletionStopsJobs, DeletionsOK, Stopped, MarkDeleted, queue, bounds
<1> QED
  BY <1>1, <1>2, <1>3, <1>4, <1>5, <1>6 DEF IInv

(* set_legal_hold.                                                            *)
LEMMA SetHoldStep ==
  ASSUME IInv, NEW d \in Docs, SetHold(d)
  PROVE  IInv'
<1>1. TypeOK'
  BY DEF IInv, TypeOK, Settled, Procs, SetHold, request, deletion, queue, objects, bounds
<1>2. HandlersOK' /\ RequestsOK' /\ AnswersOK' /\ DeletionsOK' /\ OutcomesOK' /\
       OpenJobHasSource' /\ DeletionStopsJobs'
  BY DEF IInv, HandlersOK, RequestsOK, AnswersOK, DeletionsOK, Stopped, OutcomesOK,
         OpenJobHasSource, DeletionsOK, Stopped, OutcomesOK, DeletionStopsJobs, DeletionsOK,
         Stopped, SetHold, request, deletion, queue, objects, bounds
<1> QED
  BY <1>1, <1>2 DEF IInv

(* DELETE /api/jobs.                                                          *)
LEMMA RequestCancelStep ==
  ASSUME IInv, NEW d \in Docs, RequestCancel(d)
  PROVE  IInv'
<1>1. TypeOK'
  BY DEF IInv, TypeOK, Settled, Procs, RequestCancel, CancelFlag, CancelStatus, request,
         deletion, document, objects, bounds
<1>2. HandlersOK'
  BY DEF IInv, HandlersOK, RequestCancel, deletion, bounds
<1>3. RequestsOK'
  BY DEF IInv, TypeOK, HandlersOK, RequestsOK, Procs, Asking, RequestCancel, CancelFlag,
         CancelStatus, request, deletion, document, objects, bounds
<1>4. AnswersOK'
  BY DEF IInv, AnswersOK, RequestCancel, CancelStatus, request, bounds
<1>5. DeletionsOK'
  BY DEF IInv, TypeOK, DeletionsOK, Stopped, RequestCancel, CancelFlag, CancelStatus,
         deletion, bounds
<1>6. OutcomesOK'
  BY DEF IInv, OutcomesOK, RequestCancel, CancelStatus, bounds
<1>7. OpenJobHasSource'
  BY DEF IInv, TypeOK, HandlersOK, RequestsOK, Procs, OpenJobHasSource, DeletionsOK, Stopped,
         OutcomesOK, Asking, RequestCancel, CancelFlag, CancelStatus, request, deletion,
         document, objects, bounds
<1>8. DeletionStopsJobs'
  BY DEF IInv, TypeOK, DeletionStopsJobs, RequestCancel, CancelFlag, CancelStatus, document,
         bounds
<1> QED
  BY <1>1, <1>2, <1>3, <1>4, <1>5, <1>6, <1>7, <1>8 DEF IInv

(* A claim; a job that was cancelled while pending is not pending any more.   *)
LEMMA StartJobStep ==
  ASSUME IInv, NEW d \in Docs, StartJob(d)
  PROVE  IInv'
<1>1. TypeOK'
  BY DEF IInv, TypeOK, Settled, Procs, StartJob, request, deletion, document, objects, bounds
<1>2. HandlersOK'
  BY DEF IInv, HandlersOK, StartJob, deletion, bounds
<1>3. RequestsOK'
  BY DEF IInv, TypeOK, HandlersOK, RequestsOK, Procs, Asking, StartJob, request, deletion,
         document, objects, bounds
<1>4. AnswersOK'
  BY DEF IInv, AnswersOK, StartJob, request, bounds
<1>5. DeletionsOK'
  BY DEF IInv, DeletionsOK, Stopped, StartJob, deletion, bounds
<1>6. OutcomesOK'
  BY DEF IInv, OutcomesOK, StartJob, bounds
<1>7. OpenJobHasSource'
  BY DEF IInv, TypeOK, HandlersOK, RequestsOK, Procs, OpenJobHasSource, DeletionsOK, Stopped,
         OutcomesOK, Asking, StartJob, request, deletion, document, objects, bounds
<1>8. DeletionStopsJobs'
  BY DEF IInv, DeletionStopsJobs, StartJob, document, bounds
<1> QED
  BY <1>1, <1>2, <1>3, <1>4, <1>5, <1>6, <1>7, <1>8 DEF IInv

(* The child.                                                                 *)
LEMMA ProduceStep ==
  ASSUME IInv, NEW d \in Docs, Produce(d)
  PROVE  IInv'
<1>1. TypeOK'
  BY DEF IInv, TypeOK, Produce, request, deletion, document, queue, bounds
<1>2. HandlersOK' /\ RequestsOK' /\ AnswersOK' /\ DeletionsOK' /\ OutcomesOK' /\
       OpenJobHasSource' /\ DeletionStopsJobs'
  BY DEF IInv, HandlersOK, RequestsOK, AnswersOK, DeletionsOK, Stopped, OutcomesOK,
         OpenJobHasSource, DeletionsOK, Stopped, OutcomesOK, DeletionStopsJobs, DeletionsOK,
         Stopped, Produce, request, deletion, document, queue, bounds
<1> QED
  BY <1>1, <1>2 DEF IInv

(* complete_job and fail_job read.                                            *)
LEMMA DecideStep ==
  ASSUME IInv, NEW d \in Docs, Decide(d)
  PROVE  IInv'
<1>1. TypeOK'
  BY DEF IInv, TypeOK, Settled, Decide, request, deletion, document, bounds
<1>2. HandlersOK' /\ RequestsOK' /\ AnswersOK' /\ DeletionsOK' /\ OpenJobHasSource' /\
       DeletionStopsJobs'
  BY DEF IInv, HandlersOK, RequestsOK, AnswersOK, DeletionsOK, Stopped, OpenJobHasSource,
         DeletionsOK, Stopped, DeletionStopsJobs, DeletionsOK, Stopped, Decide, request,
         deletion, document, bounds
<1>3. OutcomesOK'
  BY DEF IInv, TypeOK, OutcomesOK, Decide, bounds
<1> QED
  BY <1>1, <1>2, <1>3 DEF IInv

(* ... and write.                                                             *)
LEMMA SettleStep ==
  ASSUME IInv, NEW d \in Docs, Settle(d)
  PROVE  IInv'
<1>1. TypeOK'
  BY DEF IInv, TypeOK, Settled, Procs, Settle, request, deletion, document, objects, bounds
<1>2. HandlersOK'
  BY DEF IInv, HandlersOK, Settle, deletion, bounds
<1>3. RequestsOK'
  BY DEF IInv, TypeOK, OutcomesOK, Settled, HandlersOK, RequestsOK, Procs, Asking, Settle, request, deletion,
         document, objects, bounds
<1>4. AnswersOK'
  BY DEF IInv, OutcomesOK, AnswersOK, Settle, request, bounds
<1>5. DeletionsOK'
  BY DEF IInv, TypeOK, OutcomesOK, Settled, DeletionsOK, Stopped, Settle, deletion, bounds
<1>6. OutcomesOK'
  <2>1. /\ \A e \in Docs : e # d => /\ verdict'[e] = verdict[e] /\ job'[e] = job[e]
                                   /\ published'[e] = published[e]
        /\ verdict'[d] = "none" /\ job'[d] = verdict[d]
    BY DEF IInv, TypeOK, Settle
  <2>2. published'[d] <=> verdict[d] = "complete"
    BY DEF IInv, TypeOK, Settle
  <2> QED
    BY <2>1, <2>2 DEF IInv, OutcomesOK
<1>7. OpenJobHasSource'
  BY DEF IInv, TypeOK, HandlersOK, RequestsOK, Procs, OpenJobHasSource, DeletionsOK, Stopped,
         OutcomesOK, Asking, Settle, request, deletion, document, objects, bounds
<1>8. DeletionStopsJobs'
  BY DEF IInv, TypeOK, Settled, DeletionStopsJobs, Settle, document, bounds
<1> QED
  BY <1>1, <1>2, <1>3, <1>4, <1>5, <1>6, <1>7, <1>8 DEF IInv

(* purge_old_jobs takes the object of a job that is settled.                  *)
LEMMA PurgeStep ==
  ASSUME IInv, NEW d \in Docs, Purge(d)
  PROVE  IInv'
<1>1. TypeOK'
  <2>1. failures' \in 0 .. MaxFailures
    BY BoundsAssumption DEF IInv, TypeOK, Purge, UnlinkOf, bounds
  <2> QED
    BY <2>1 DEF IInv, TypeOK, Purge, UnlinkOf, request, deletion, document
<1>2. HandlersOK'
  BY DEF IInv, HandlersOK, Purge, deletion
<1>3. RequestsOK'
  BY DEF IInv, Settled, RequestsOK, Asking, Purge, Purgeable, UnlinkOf, request, document
<1>4. AnswersOK'
  BY DEF IInv, Settled, AnswersOK, Purge, Purgeable, request
<1>5. DeletionsOK'
  BY DEF IInv, DeletionsOK, Stopped, Purge, deletion
<1>6. OutcomesOK'
  BY DEF IInv, TypeOK, OutcomesOK, Settled, Purge, Purgeable
<1>7. OpenJobHasSource'
  BY DEF IInv, TypeOK, OpenJobHasSource, Purge, UnlinkOf
<1>8. DeletionStopsJobs'
  BY DEF IInv, DeletionStopsJobs, Purge, document
<1> QED
  BY <1>1, <1>2, <1>3, <1>4, <1>5, <1>6, <1>7, <1>8 DEF IInv

(* Time.                                                                      *)
LEMMA TtlElapsesStep ==
  ASSUME IInv, NEW d \in Docs, TtlElapses(d)
  PROVE  IInv'
<1>1. TypeOK'
  BY DEF IInv, TypeOK, Settled, Procs, TtlElapses, request, deletion, document, objects,
         bounds
<1>2. HandlersOK' /\ RequestsOK' /\ AnswersOK' /\ DeletionsOK' /\ OutcomesOK' /\
       OpenJobHasSource' /\ DeletionStopsJobs'
  BY DEF IInv, HandlersOK, RequestsOK, AnswersOK, DeletionsOK, Stopped, OutcomesOK,
         OpenJobHasSource, DeletionsOK, Stopped, OutcomesOK, DeletionStopsJobs, DeletionsOK,
         Stopped, TtlElapses, request, deletion, document, objects, bounds
<1> QED
  BY <1>1, <1>2 DEF IInv

(* Time.                                                                      *)
LEMMA RetentionElapsesStep ==
  ASSUME IInv, NEW d \in Docs, RetentionElapses(d)
  PROVE  IInv'
<1>1. TypeOK'
  BY DEF IInv, TypeOK, Settled, Procs, RetentionElapses, Known, request, deletion, queue,
         objects, bounds
<1>2. HandlersOK' /\ AnswersOK' /\ DeletionsOK' /\ OutcomesOK' /\ OpenJobHasSource' /\
       DeletionStopsJobs'
  BY DEF IInv, HandlersOK, AnswersOK, DeletionsOK, Stopped, OutcomesOK, OpenJobHasSource,
         DeletionsOK, Stopped, OutcomesOK, DeletionStopsJobs, DeletionsOK, Stopped,
         RetentionElapses, Known, request, deletion, queue, objects, bounds
<1>3. RequestsOK'
  BY DEF IInv, TypeOK, HandlersOK, RequestsOK, Procs, Asking, RetentionElapses, Known,
         request, deletion, queue, objects, bounds
<1> QED
  BY <1>1, <1>2, <1>3 DEF IInv

(* A handler that dies asks for nothing any more.                             *)
LEMMA CrashStep ==
  ASSUME IInv, NEW p \in Procs, Crash(p)
  PROVE  IInv'
<1>1. TypeOK'
  <2>1. crashes' \in 0 .. MaxCrashes
    BY BoundsAssumption DEF IInv, TypeOK, Crash, bounds
  <2> QED
    BY <2>1 DEF IInv, TypeOK, Settled, Procs, Crash, request, document, queue, objects
<1>2. AnswersOK' /\ OutcomesOK' /\ OpenJobHasSource' /\ DeletionStopsJobs'
  BY DEF IInv, AnswersOK, OutcomesOK, OpenJobHasSource, DeletionsOK, Stopped, OutcomesOK,
         DeletionStopsJobs, DeletionsOK, Stopped, Crash, request, document, queue, objects
<1>3. HandlersOK'
  BY DEF IInv, TypeOK, HandlersOK, Crash
<1>4. RequestsOK'
  BY DEF IInv, TypeOK, HandlersOK, RequestsOK, Procs, Asking, Crash, request, document, queue,
         objects
<1>5. DeletionsOK'
  BY DEF IInv, TypeOK, DeletionsOK, Stopped, Crash, queue
<1> QED
  BY <1>1, <1>2, <1>3, <1>4, <1>5 DEF IInv

(* A stuttering step changes nothing. *)
LEMMA StutterStep ==
  ASSUME IInv, UNCHANGED vars
  PROVE  IInv'
<1>1. TypeOK'
  BY DEF IInv, TypeOK, vars, request, deletion, document, queue, objects, bounds
<1> QED
  BY <1>1 DEF IInv, HandlersOK, RequestsOK, AnswersOK, DeletionsOK, Stopped, OutcomesOK,
         OpenJobHasSource, DeletionStopsJobs, vars, request, deletion, document, queue, objects

LEMMA InitIInv == Init => IInv
<1> SUFFICES ASSUME Init PROVE IInv
  OBVIOUS
<1>1. TypeOK
  BY BoundsAssumption DEF Init, TypeOK
<1>2. HandlersOK
  BY ProcsAssumption DEF Init, HandlersOK, Procs
<1>3. DeletionsOK
  BY DEF Init, DeletionsOK
<1>4. RequestsOK
  BY DEF Init, RequestsOK, Procs
<1>5. AnswersOK /\ OutcomesOK
  BY DEF Init, AnswersOK, OutcomesOK
<1>6. OpenJobHasSource /\ DeletionStopsJobs
  BY DEF Init, OpenJobHasSource, DeletionStopsJobs
<1> QED
  BY <1>1, <1>2, <1>3, <1>4, <1>5, <1>6 DEF IInv

(* Every step is one of those above. *)
LEMMA NextIInv == IInv /\ [Next]_vars => IInv'
<1> SUFFICES ASSUME IInv, [Next]_vars PROVE IInv'
  OBVIOUS
<1>1. CASE UNCHANGED vars
  BY <1>1, StutterStep
<1>2. ASSUME NEW d \in Docs, NEW k \in Keys, NEW c \in Contents, Save(d, k, c)
      PROVE  IInv'
  BY <1>2, SaveStep
<1>3. ASSUME NEW d \in Docs, RequestStep(d)
      PROVE  IInv'
  BY <1>3, AdmitStep, RegisterStep, CreateJobStep, ReplayJobStep, DiscardStep DEF RequestStep
<1>4. ASSUME NEW d \in Docs, JobStep(d)
      PROVE  IInv'
  BY <1>4, StartJobStep, ProduceStep, DecideStep, SettleStep DEF JobStep
<1>5. ASSUME NEW d \in Docs, RequestCancel(d) \/ SetHold(d) \/ Purge(d)
      PROVE  IInv'
  BY <1>5, RequestCancelStep, SetHoldStep, PurgeStep
<1>6. ASSUME NEW d \in Docs, TtlElapses(d) \/ RetentionElapses(d)
      PROVE  IInv'
  BY <1>6, TtlElapsesStep, RetentionElapsesStep
<1>7. ASSUME NEW d \in Docs, \/ \E p \in Callers : ClientDelete(p, d)
                             \/ \E p \in Sweepers : RetentionDelete(p, d)
      PROVE  IInv'
  BY <1>7, ClientDeleteStep, RetentionDeleteStep
<1>8. ASSUME NEW p \in Procs, DeletionStep(p) \/ Crash(p)
      PROVE  IInv'
  BY <1>8, MarkPendingStep, CancelAndUnlinkStep, UnlinkSourceStep, MarkDeletedStep, CrashStep
     DEF DeletionStep
<1> QED
  BY <1>1, <1>2, <1>3, <1>4, <1>5, <1>6, <1>7, <1>8 DEF Next

-----------------------------------------------------------------------------
(* The inductive invariant, for any uploads, keys, contents, processes, crashes *)
(* and failing unlinks.                                                         *)
THEOREM Invariance == Spec => []IInv
BY InitIInv, NextIInv, PTL DEF Spec

(* Every handler, row and object has its type.                                  *)
THEOREM TypeCorrect == Spec => []TypeOK
<1>1. IInv => TypeOK
  BY DEF IInv
<1> QED
  BY <1>1, Invariance, PTL

(* No discarded upload, purge or deletion takes the source object from under a  *)
(* job that has not been cancelled (create_job, delete_document, purge_old_jobs). *)
THEOREM SourcesKept == Spec => []OpenJobHasSource
<1>1. IInv => OpenJobHasSource
  BY DEF IInv
<1> QED
  BY <1>1, Invariance, PTL

(* After delete_document the job of the document does not start, and one that    *)
(* is executed finds that it is cancelled.                                      *)
THEOREM DeletedStop == Spec => []DeletionStopsJobs
<1>1. IInv => DeletionStopsJobs
  BY DEF IInv
<1> QED
  BY <1>1, Invariance, PTL

(* Retries of an upload, in any order and with any crashes between, are answered *)
(* with one job, and never with that of another content (create_job).           *)
THEOREM RetriesShare == Spec => []RetriesShareOneJob
<1>1. IInv => RetriesShareOneJob
  <2> SUFFICES ASSUME IInv, NEW d \in Docs, NEW e \in Docs, key[d] = key[e],
                      answer[d] # NoDoc, answer[e] # NoDoc
               PROVE  answer[d] = answer[e] /\ content[d] = content[e]
    BY DEF RetriesShareOneJob
  <2>1. answer[d] \in Docs /\ answer[e] \in Docs
    BY DEF IInv, TypeOK
  <2>2. /\ job[answer[d]] # "none" /\ key[answer[d]] = key[d] /\ content[answer[d]] = content[d]
        /\ job[answer[e]] # "none" /\ key[answer[e]] = key[e] /\ content[answer[e]] = content[e]
    BY DEF IInv, AnswersOK
  <2> QED
    BY <2>1, <2>2 DEF IInv, AnswersOK
<1> QED
  BY <1>1, Invariance, PTL

-----------------------------------------------------------------------------
(* What clients see of the jobs, as JobPromise says it. *)
phase  == [d \in Docs |-> Shown(job[d])]
result == [d \in Docs |-> IF published[d] THEN 1 ELSE 0]

LEMMA PromiseUnchanged ==
  ASSUME \A d \in Docs : Shown(job'[d]) = Shown(job[d]) /\ published'[d] = published[d]
  PROVE  UNCHANGED <<phase, result>>
BY DEF phase, result

(* A job is submitted. *)
LEMMA CreateJobPromise ==
  ASSUME IInv, NEW d \in Docs, CreateJob(d)
  PROVE  Promise!Submit(d)
<1>1. job[d] = "none" /\ job' = [job EXCEPT ![d] = "pending"] /\ published' = published
  BY DEF IInv, RequestsOK, CreateJob
<1>2. phase[d] = "none" /\ phase' = [phase EXCEPT ![d] = "open"] /\ result' = result
  BY <1>1 DEF IInv, TypeOK, phase, result, Shown
<1> QED
  BY <1>2 DEF Promise!Submit, phase, result

(* A job whose cancellation is accepted while it is pending is given up, one    *)
(* that is executed goes on: for a client and for a deletion.                   *)
LEMMA CancelPromise ==
  ASSUME IInv, NEW d \in Docs, UNCHANGED published,
         job' \in {job, [job EXCEPT ![d] = CancelStatus(d)]}
  PROVE  Promise!GiveUp(d) \/ UNCHANGED <<phase, result>>
<1>1. CASE job[d] = "pending" /\ job' # job
  <2>1. job' = [job EXCEPT ![d] = "cancelled"]
    BY <1>1 DEF CancelStatus
  <2>2. phase[d] = "open" /\ phase' = [phase EXCEPT ![d] = "cancelled"] /\ result' = result
    BY <1>1, <2>1 DEF IInv, TypeOK, phase, result, Shown
  <2> QED
    BY <2>2 DEF Promise!GiveUp, phase, result
<1>2. CASE job[d] # "pending" \/ job' = job
  <2>1. job' = job
    BY <1>2 DEF IInv, TypeOK, CancelStatus
  <2> QED
    BY <2>1 DEF phase, result
<1> QED
  BY <1>1, <1>2

(* The worker's outcome settles the job, once. *)
LEMMA SettlePromise ==
  ASSUME IInv, NEW d \in Docs, Settle(d)
  PROVE  Promise!Complete(d) \/ Promise!GiveUp(d)
<1>1. job[d] = "processing" /\ verdict[d] \in {"complete", "failed", "cancelled"} /\ ~ published[d]
  BY DEF IInv, TypeOK, OutcomesOK, Settle, Settled
<1>2. /\ job' = [job EXCEPT ![d] = verdict[d]]
      /\ \A e \in Docs : published'[e] <=> IF e = d THEN verdict[d] = "complete" ELSE published[e]
  BY DEF IInv, TypeOK, Settle
<1>3. phase[d] = "open" /\ phase' = [phase EXCEPT ![d] = verdict[d]]
  BY <1>1, <1>2 DEF IInv, TypeOK, phase, Shown
<1>4. CASE verdict[d] = "complete"
  <2>1. result' = [result EXCEPT ![d] = 1] /\ result'[d] = 1
    BY <1>2, <1>4 DEF result
  <2>2. phase[d] = "open" /\ phase' = [phase EXCEPT ![d] = "complete"]
    BY <1>3, <1>4
  <2>3. result'[d] \in Nat \ {0}
    BY <2>1
  <2>4. result' = [result EXCEPT ![d] = result'[d]]
    BY <2>1, Zenon
  <2> QED
    BY <2>2, <2>3, <2>4 DEF Promise!Complete, phase, result
<1>5. CASE verdict[d] # "complete"
  <2>1. result' = result
    BY <1>1, <1>2, <1>5 DEF result
  <2> QED
    BY <1>1, <1>3, <1>5, <2>1 DEF Promise!GiveUp, phase, result
<1> QED
  BY <1>4, <1>5

(* The purge expires the job and withdraws its result. *)
LEMMA PurgePromise ==
  ASSUME IInv, NEW d \in Docs, Purge(d)
  PROVE  Promise!Expire(d)
<1>1. job[d] \in Settled /\ job' = [job EXCEPT ![d] = "expired"]
      /\ published' = [published EXCEPT ![d] = FALSE]
  BY DEF Purge, Purgeable
<1>2. phase[d] \in Settled /\ phase' = [phase EXCEPT ![d] = "expired"]
  BY <1>1 DEF IInv, TypeOK, phase, Shown, Settled
<1>3. result' = [result EXCEPT ![d] = 0]
  BY <1>1 DEF IInv, TypeOK, result
<1> QED
  BY <1>2, <1>3 DEF Promise!Expire, Promise!Settled, Settled, phase, result

(* Uploads, deletions, retention, purges and crashes keep what JobPromise says:  *)
(* each step is a step of the promise or leaves what clients see alone.          *)
THEOREM DocumentsKeepPromise == Spec => JobsKeepPromise
<1>1. Init => Promise!Init
  BY DEF Init, Promise!Init, Shown
<1>2. IInv /\ [Next]_vars => [Promise!Next]_<<phase, result>>
  <2> SUFFICES ASSUME IInv, [Next]_vars PROVE [Promise!Next]_<<phase, result>>
    OBVIOUS
  <2>1. CASE UNCHANGED <<job, published>>
    BY <2>1, PromiseUnchanged
  <2>2. ASSUME NEW d \in Docs, CreateJob(d) \/ Settle(d) \/ Purge(d)
        PROVE  Promise!Next
    BY <2>2, CreateJobPromise, SettlePromise, PurgePromise DEF Promise!Next
  <2>3. ASSUME NEW d \in Docs, RequestCancel(d)
        PROVE  [Promise!Next]_<<phase, result>>
    BY <2>3, CancelPromise DEF Promise!Next, RequestCancel
  <2>4. ASSUME NEW p \in Procs, CancelAndUnlink(p)
        PROVE  [Promise!Next]_<<phase, result>>
    <3>1. target[p] \in Docs
      BY <2>4 DEF IInv, HandlersOK, Procs, CancelAndUnlink
    <3>2. UNCHANGED published /\ job' \in {job, [job EXCEPT ![target[p]] = CancelStatus(target[p])]}
      BY <2>4 DEF CancelAndUnlink
    <3> QED
      BY <3>1, <3>2, CancelPromise DEF Promise!Next
  <2>5. ASSUME NEW d \in Docs, StartJob(d)
        PROVE  UNCHANGED <<phase, result>>
    <3>1. \A e \in Docs : Shown(job'[e]) = Shown(job[e]) /\ published'[e] = published[e]
      BY <2>5 DEF IInv, StartJob, Shown
    <3> QED
      BY <3>1, PromiseUnchanged
  <2>6. \/ UNCHANGED <<job, published>>
        \/ \E d \in Docs : CreateJob(d) \/ Settle(d) \/ Purge(d) \/ RequestCancel(d) \/ StartJob(d)
        \/ \E p \in Procs : CancelAndUnlink(p)
    BY DEF Next, vars, queue, bounds, RequestStep, JobStep, DeletionStep, Save, Admit,
           Register, ReplayJob, Discard, ClientDelete, RetentionDelete, BeginDeletion,
           MarkPending, UnlinkSource, MarkDeleted, SetHold, Produce, Decide, TtlElapses,
           RetentionElapses, Crash
  <2> QED
    BY <2>1, <2>2, <2>3, <2>4, <2>5, <2>6
<1> QED
  BY <1>1, <1>2, Invariance, PTL DEF Spec, JobsKeepPromise, Promise!Spec, phase, result

=============================================================================
