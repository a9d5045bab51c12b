# A TLA+ model of makepdf

makepdf is a PDF toolkit: a Python library with a command line, and a FastAPI
service. The library functions are sequential and mostly calls into pypdf,
PyMuPDF and reportlab. What is hard to get right is the service: several web
processes and several workers share one SQLite database and one directory of
objects, every statement commits on its own, workers crash, leases run out,
clients repeat requests, and administrators hold or delete documents while all
this goes on. The model starts there, and goes on to what the library's functions
make of each other's files.

Paths below are relative to the repository; `web/` is `makepdf/web/`, `core/` is
`makepdf/core/`.

## Inventory

| Component | State it keeps | Operations | Interacts with |
|---|---|---|---|
| Durable queue, `web/job_registry.py` | table `jobs` | create, claim, recover, renew, cancel, complete, fail, purge | web processes, workers, object directory |
| Worker, `web/worker.py` | `worker_id`, the job it executes, the child, the time of the last sweep | main loop, `_execute` | queue, child, governance sweep |
| Child, `web/worker_task.py`, `web/routes/ocr_async.py` 30-149 | temporary files, one result object | checks the job, runs OCR, `os.replace`, prints the path | queue (status, progress), object directory |
| Submission, `web/routes/ocr_async.py` 156-247 | none | save, quota, register, create, discard | intake, governance, queue |
| Intake, `web/intake.py` | object directory | `save_upload`, `secure_unlink` | submission, governance, purge |
| Governance, `web/governance.py` | tables `documents`, `usage_daily`, `billing_exports` | register, hold, delete, expire, quota, billing | queue, intake, audit |
| Identity, `web/auth.py` | table `api_keys`, signing keys | issue, rotate, authenticate, sign and verify downloads | all routes |
| Audit, `append_audit`, `web/maintenance.py` | table `audit_events` (hash chain) | append, list, backup, verify | everything that writes |
| Job routes, `web/routes/jobs.py` | none | status, cancel, event stream, download | queue, identity |
| AI helpers and routes, `web/ai_helpers.py` | request log per process, `ai_results` | rate check, call, log, page through the log | external model |
| Cloud storage, workspaces, middleware, metrics | single rows, counters | thin handlers | |
| Page operations, `core/merger.py`, `cropper.py`, `bates.py`, ... | none but the files it reads and writes | merge, split, crop, number, label, compare | pypdf |
| Editing, forms, safeguards, `core/editor.py`, `forms.py`, `redaction.py`, ... | none but the files it reads and writes | draw, annotate, link, fill, flatten, encrypt, sign, redact, read back | pypdf, PyMuPDF, reportlab |
| CLI, launcher, synchronous routes | none | one library call each | library |

Behaviours that are hard, and where they bite:

* *Read, decide, write.* `complete_job` and `fail_job` read a row and write it in
  a second autocommit statement. Between the two a client cancels, another worker
  recovers and claims.
* *Crashes.* A worker can end anywhere; its child runs in a session of its own
  and may outlive it. A sweep or a deletion can end between an unlink and the
  UPDATE that goes with it.
* *Timeouts.* A lease of 60 s runs out under a worker that is alive but suspended;
  `_execute` ignores the answer of `renew_lease`.
* *Repeated requests.* A retried upload has a new object and a new document but
  the idempotency key of the first; the loser of the race must be discarded
  without harm to the winner.
* *No common transaction.* Database rows and files are changed one after the
  other, in four handlers (completion, purge, deletion, retention).
* *Eventual duties.* Jobs settle, settled jobs expire, documents past their
  retention are deleted.

* *Late reports.* A child reports progress by the id of its job alone, also when its
  worker has died and another attempt runs.
* *Credentials in time.* A signed URL outlives the key it was asked with and meets a
  service that has rotated its signing keys.
* *Pages over a growing log.* Rows are counted by one statement and selected by the next.
* *What a copy drops.* Most library functions fill a new writer with the pages of the old
  file. What they then copy or do not copy (metadata, form, attachments, signature)
  decides what the next function finds.

What makes each component correct is listed with the modules below and, for the
components that are not modelled yet, in the plan.

## Modules

| Module | Lines of code it models | Role |
|---|---|---|
| `JobPromise` | the client's view of a job | abstract specification |
| `JobQueue` | `job_registry.py`, `worker.py`, `worker_task.py` | the queue, its workers and children |
| `JobQueueInvariant` | | the inductive invariant |
| `JobQueueProofs` | | its proof and the theorems |
| `Documents` | `ocr_async.py` routes, `governance.py`, `intake.py`, purge | uploads, documents, deletion, retention |
| `DocumentsInvariant` | | its inductive invariant |
| `DocumentsProofs` | | the invariant's proof, the theorems, the refinement of `JobPromise` |
| `Accounts` | `auth.py` keys, `governance.py` quota and billing, `append_audit`, `maintenance.py` verification | keys, daily usage, audit log |
| `AccountsProofs` | | its inductive invariant's proof and the theorems |
| `Pages` | `merger.py`, `cropper.py`, `bates.py`, `stamps.py` | what they do to pages, as operators |
| `Navigation` | `toc.py`, `page_labels.py` | bookmarks and page labels, written and read, as operators |
| `Library` | the calls of these, `compare.py` | a directory of files and calls on it in any order |
| `LibraryProofs` | | what every call makes of a directory of files, and the theorems |
| `Contents` | the readers of `core/`: `links.py` 224-372, `text_extractor.py`, `image_extractor.py`, reports | what a document holds, how the readers tell it |
| `Edits` | `editor.py`, `watermark.py`, `headers_footers.py`, `markup.py`, `links.py`, `flatten.py`, `forms.py`, `compressor.py`, `optimizer.py`, `creator.py` | one action per function |
| `Safeguards` | `metadata.py`, `attachments.py`, `accessibility.py`, `encryption.py`, `signer.py`, `redaction.py` | one action per function |
| `Workbench` | | composes the three: calls in any order, and the properties |
| `WorkbenchProofs` | | what every call makes of a document, and the theorems |
| `Downloads` | `auth.py` 156-257, `routes/jobs.py` | credentials, signed URLs, who gets a result |
| `Progress` | `update_progress`, `ocr_async.py` 34-153, the event stream | what a client is told of progress |
| `AiCalls` | `ai_helpers.py`, what the AI routes log | rate limit, log, pages of the log |
| `DownloadsProofs`, `ProgressProofs` | | the theorems about `Downloads` and `Progress` |
| `Service` | | composes these three, which share no state |
| `ServiceProofs` | | the theorems about `AiCalls`, and the invariant of the composition |
| `MCJobQueue`, `MCDocuments`, `MCAccounts`, `MCLibrary`, `MCWorkbench`, `MCService` | | symmetry sets and arguments for TLC |

### JobQueue

The columns of `jobs` are functions on `Jobs`. Time appears only as what the
SQL conditions compare: `lease` is `none`, `live` or `lapsed` (lease_until < now),
`available` is available_at <= now, `aged` is expires_at < now; the actions
`LeaseRunsOut`, `Stall`, `BackoffElapses` and `TtlElapses` let time pass.
`result_path` and a file are named by the number of the claim that produced them
(the code draws a random name per execution, `worker_task.py:40`), so that the
model can tell an old result from a new one. `created` is the rank of the insert,
which is what `ORDER BY created_at` uses.

A worker is one incarnation of the process (`worker_id` holds a fresh uuid), so a
restart is another element of `Workers` that leaves `new`. Its program counter:

| pc | where the code is |
|---|---|
| `new` | not started; `StartWorker` is `recover_stale_jobs` |
| `idle` | the loop of `main`; `Claim`, `SweepSelect` |
| `running` | `_execute` from Popen to the end of the child |
| `failing` | in `fail_job`, after the SELECT, before the UPDATE |
| `completing` | in `complete_job`, after the SELECT, before the UPDATE |
| `sweeping`, `marking` | in `purge_old_jobs`: before the next unlink, before the UPDATE that follows it |
| `gone` | ended, by a signal between two jobs or by a crash |

`child` is the process the worker polls: `spawn`, `run`, `wrote`, and its end as
`ok`, `garbled` (last line is no JSON object with a path) or `bad` (exit code).
`Exit` may leave a running child among `orphans`, which can still write a file.
`Claim` contains the recovery UPDATE that runs in the same transaction, and `First`
ranges over rows that this recovery has just made available.

Three statements differ in their guards, and the model keeps the difference:
`fail_job` writes where the owner matches (`MayFail`), `complete_job` where owner
and and status match (`MayComplete`), and the cancelled branch of `complete_job` by id
alone (`CompleteCancelled`), leaving the lease in the row. `Unlinked` is `secure_unlink`, which
may leave the file without a word where `UnlinkFails` allows it.

Left out: `progress`, `stage`, `error`, `filename`; heartbeats; `run_job`, which
only tests call; several values of `kind` (the worker accepts both that exist); rows of
other tenants (no statement of the queue's own looks at the tenant, except
`request_cancel`, whose caller has checked it); audit events.

### JobPromise

Per job a `phase` and a `result`. A job is submitted, settles once (complete with a
result, failed or cancelled), and can then only expire, which withdraws the
result. `JobQueue` maps pending, retry and processing to `open`; `Documents` uses
the same promise for the jobs it embeds, so that the abstraction of the queue in
`Documents` is one the queue has been shown to implement (without stalls).

### Documents

An upload request, its document, its source object and the job it may create
share a name. `at` is where a request is in the route (`saved`, `counted`,
`registered`, `discarding`) and where any process that runs `delete_document` is
(`checked`, `marked`, `cancelled`, `unlinked`); that handler is the same actions for
the three callers: a route that discards a replayed upload, a client's DELETE and
the retention sweep. `named` is the source_path of the row it has read, `found` and
`seen` what its SELECT on `jobs` has returned. `Admit` is `consume_quota`, which passes or ends the request after the
object has been written. `UnlinkOf` is `secure_unlink` of a result, a source or (in the purge)
both, each of which may fail silently; what called it goes on as if it had not.

A job here is `pending`, `processing`, settled or `expired`, with the gap between the
moment its worker reads `cancel_requested` (`Decide`) and the moment it writes
(`Settle`), because a deletion may fall into it. Leases and attempts are in
`JobQueue`; a job whose row is stuck there is one that takes no further step here.

Simplifications: the SELECT on jobs and the UPDATE of the document in
`delete_document` are one step (nothing in the jobs table depends on the document's
status), so are `request_cancel` and the unlink that follows it, and select and mark
of `purge_old_jobs` (`SweepSettled`, proved for `JobQueue`, says the selected rows stay
settled). Each overdue document is deleted by a pass of its own; the loop of one
sweep over several rows is not modelled. `expire_documents` selects a row and
`delete_document` reads it again; the two are one step, and a hold set in between,
which makes the second raise 409, is described below.

### Accounts

Three tables (`api_keys`, `usage_daily`, `billing_exports`) and the audit log share one
module because their handlers share the chain: `audit_events` is one chain for all
tenants. A handler is an `async def` without an `await`, so one API process runs one at a
time; `start.sh` starts two processes, and these are `Procs`. `pc` is where the handler
is: after the SELECT of `rotate_api_key` (`read`), the INSERT of `create_api_key`
(`inserted`), its event (`recorded`), the UPDATE (`revoked`), and for `billing_usage` after
the usage (`counted`), the INSERT (`stored`) and the second SELECT (`selected`). `old`, `new`,
`reading` and `customer` are its locals. `AppendAudit` is one step because it is one
`BEGIN IMMEDIATE` transaction; so is `ConsumeQuota`. `Crash` is a process that ends or an
`append_audit` that raises: what has been committed stays.

A hash is the sequence of bodies it stands for, which is what collision-freedom means;
`Verifies` is the loop of `verify_database` over a log, and since a backup is a snapshot, that
every reachable log verifies is that every backup does. `handed`, `admitted` and `answers`
remember what clients were told. One day stands for all of them (rows of different days never
meet) and one counter for the three of `usage_daily`, which are counted and rolled back
together. Left out: roles, labels, expiry and `last_used_at`, events of jobs and documents.

### Pages, Navigation and Library

Library functions keep nothing between two calls but the files they write, and the
interesting behaviour is what one call finds of what another has left. `files` maps a path
(directory and stem) to a document; each action is one public function with its checks, in
the order it makes them, and `last` remembers the call, what it read and the paths it returned.
A refused call changes no file, except `Split` (the files before a bad range stay) and
`AddBatesToBatch` (the files before a missing input stay; a wrong position is refused at the
first file, `bates.py:313`).

A document is its pages, its outline and its label ranges; a page is an identity for its
content, `/Rotate`, media box and crop box, and the numbers and stamps drawn on it with their
place. `NoBox` is a page without a crop box, and `None` for all pages is the list of all
numbers. Coordinates are small whole numbers. `Rebuilt` is what pypdf's
`PdfWriter` leaves of the catalog when pages are added to a new one: nothing. Only `add_bookmarks`
clones the root, and keeps the rest. pypdf itself (`page.scale`, `page.cropbox`) is modelled from
its use and marked external. Loops over pages, entries and files (`Interleaved`, `Without`, `Bookmarked`,
`Split`, `AddBatesToBatch`) are recursive functions over places. `Open` uses
`SelectLastInSeq`. `Walk` goes through an outline as a reader does, along `/First` and `/Next`: `Following`
is where they lead, an item's first child (the first later item whose parent it is) and the next of its
siblings. Both lie further back, so that one recursive function over places is enough. `Meant`
states independently of stack and tree which entry lies under which.
`DocumentRecords` and `Linked` say what a file is: at least one page, media boxes that are no
lines or points, and bookmarks and labels that lead to pages.

Left out: metadata and its comparison, image stamps and angles, bleed, trim and art boxes, the
wording of labels, the layout of a table of contents (only how many pages it takes,
`FitFirst` and `FitNext`, which do not depend on the page size here).

### Contents, Edits, Safeguards and Workbench

One file, `doc`, and calls on it, each on what the last has written. A document is its pages
(what is drawn, the images, the annotations), its Info dictionary, what the catalog holds
besides (form, attachments, outline, language, display of the title, tags, XMP) and its
passwords. A text is one of a few terms; `drawn` is a set of pairs such as `<<"text", t>>`,
so that where on the page it is drawn is left out. `last` is the last call with its arguments and
whether it returned, `sealed` remembers what the pages showed when `sign` wrote them, and `gone` the texts that
redactions have removed and verified, until a call is given a text, which may be one of them (`Textless`
are the calls that are given none).

A form (`/AcroForm`) leads to fields. In what most programs write these are the widgets of the pages, and
the model has one object for both. `fill_form` parts them: it copies the pages with their widgets into a writer, but puts
the *reader's* form there, and then fills the copies. `apart` is that form's own fields (`FormFields` of the
document it read); `extract_form_data` and `list_form_fields` read the form, `verify_redaction` finds the texts of
both in the bytes, `flatten_*` goes by the widgets, and a scrub resets the widgets.

`Kept` is what most functions leave: the pages in a new writer, the old metadata over its own, no
catalog. `Overlaid` is what those leave that merge an overlay: no metadata either. The exceptions
are written out in the actions. PyMuPDF, which only `redaction.py` uses, keeps the catalog.

| Code | Model |
|---|---|
| `_validate_page`, `_add_annotation_to_page`, `_write_output` of `markup.py` | `InRange`, `Annotated`, `Kept` |
| `_page_dimensions` and the loop of `_merge_overlay` | `Indexable` and the comparison with `num + 1` in `Edit`: a negative number passes the first and matches nothing in the second |
| `_merge_appearance_into_page` | `Flattened`; what has no appearance stream goes without a trace |
| `_assert_safe_source`, `_apply_page_redactions`, `_scrub_document`, `verify_redaction`, `_finish` | `Redactable`, `Redacted`, `Scrubbed`, `VerifyRedaction`, `Finish` |
| `extract_links`, `list_form_fields`, `get_metadata`, ... | operators of `Contents` on a document |

Where the outcome is decided by a library the model chooses: whether the destination of an internal
link survives the copy of its page (`Copies`), whether pypdf accepts the plain strings and integers
`fill_form` and `compress` hand it, which images get smaller, what else a redaction rectangle covers,
and whether PyMuPDF finds a text that only the appearance of an annotation shows.

Assumed of the arguments: terms are ASCII (so that `verify_redaction` finds them in the bytes),
passwords are not empty, custom metadata does not name the entries of `sign`, the fields of a form
have distinct names, a text fits on one page. One call of `flatten_*` merges all appearances or
none. Left out: geometry, colours, fonts, dates, the contents of attachments.

### Downloads

Strings joined by dots are sequences of the parts between dots, so a user whose name has a dot is two
parts, and `VerifyDownload` takes the third part for the user and the rest for the signature, as
`split(".", 3)` does. A signature is the key and the joined parts it was made from. `Authenticates`
is `authenticate_api_key` with keys of the table and the one of the environment; `Answer` is the
whole of `job_download`, in the order of its checks. `RotateRing` is a restart of the service with the
next configuration of signing keys, which may still list the previous one. Nothing is revoked
in a URL, and the model has none that a client made up: hashes cannot be forged.
Key ids, job ids and tenants have no dots, a signing-key id names one secret for ever, and `API_KEY`
is set (there is no open mode).

### Progress

One job and its claims: `job` is its row, `worker` and `child` say of each claim whether its
worker lives and how often its child has reported. `Report` is `update_progress` without an owner,
as the OCR functions call it; `Reports` lists the numbers they send (`Share` is 85 for text and 80
for searchable files). `Crash` leaves the child running. `Tell` is one round of `job_progress_sse`.
The registry's own decisions are atomic and no lease lapses under a living worker: `JobQueue` has both.

### AiCalls

`buckets` is `_rate_log` of each API process; `RateCheck` drops what has left the window,
compares and appends, under the lock and before the key is looked at, so a caller whose key comes as
a Bearer token shares the bucket of its address. `serving` is the call a process waits for (one at a
time here); `AnswerCall` logs what the route logs of the reply, with a stamp that may be older than rows already
there, or loses it (`persist_ai_result` swallows every exception). `Popped` is where the loop of `_rate_check` stops, and
`Place` is where `ORDER BY created_at DESC` puts a row (among equals the first written, as
SQLite's sort leaves them when it selects without a filter). `CountRows` and `SelectRows` are the two
statements of `query_ai_results`; the reader turns to the next page until the last `totalPages`
it was told. In production these routes answer 410 (`app.py` 101-115) and none of this runs.

## Runs

| Run | Instance | Shows |
|---|---|---|
| `JobQueueFencing` | 1 job, 3 workers, 2 attempts, 2 exits, 2 stalls, unlinks that may fail; worker symmetry; 570 000 states | the inductive invariant (types are its first part), `ResultIsFromLatestClaim`, `ExclusiveExecution`, `ResultKeptUntilTtl`, `AttemptsBoundedByRecoveries`, `ResultNeverReplaced` |
| `JobQueueLive` | 2 jobs, 2 workers, 1 attempt, 1 exit, no stalls; fair; 290 000 states | `UncancelledJobsSettle`, `SettledJobsExpire`; JobQueue implements JobPromise |
| `DocumentsSafety` | 2 uploads, 1 key, 2 contents, 1 client deletion process, 1 sweeper, 1 crash; symmetry of uploads and contents; 1.4 million states | the inductive invariant with the types, `OpenJobHasSource`, `RetriesShareOneJob`, `DeletionStopsJobs`; the jobs implement JobPromise |
| `DocumentsRetention` | 2 uploads, 1 sweeper, 1 failing unlink; fair | `RetentionEnforced`, `DeletedResultsVanish` |
| `Accounts` | 2 tenants, 3 keys, 2 API processes, quota 1, 4 handlers, 1 crash; process symmetry; 1.1 million states | `AuditVerifies`, `AuditIsTrue`, `RotationKeepsAccess`, `ExportsAgree`, `UsageIsAdmitted`, the inductive invariant with the types |
| `Library` | 2 files of 2 and 1 pages (in two directories, or one named like the numbered copy of the other), 2 calls with good and bad arguments and three positions (one of them refused for Bates numbers); 113 000 states | the types, `PageAlgebra`, `BatchRunsOn`, `CropsStayInside`, `MarksOnPage`, `TargetsExist`, `NavigationReadsBack`, `ComparisonsSound` |
| `Workbench` | any 2 calls on one of 4 documents (a filled form with everything a catalog can hold, two blank pages, a signature field, a file `sign` wrote); 2 terms, names, passwords and image sizes, good and bad arguments, page numbers -1 to 1; 41 000 states | the inductive invariant (types, what a signature covers, that forms, widgets and links fit each other, and that what is gone is stored nowhere), `RedactedGone`, `SignatureCoversDrawing`, `ReadsBack`, `PagesSurvive` |
| `Service` | 2 keys that expire, the environment's key, 2 jobs of 2 tenants (one owner with a dot), 3 configurations of signing keys, 2 URLs; 1 job of 2 pages, 2 attempts, 1 crash; 2 API processes, 3 callers in 2 buckets, limit 1 per window, 3 calls; 730 000 states | the inductive invariants with the types, `DownloadsRight`, `ProgressTrue`, `RateBounded`, `PagesMissNothing` |
| `JobQueueCancelStuck`, `DocumentsHoldPurge`, `DocumentsDeletion`, `WorkbenchFilledForm` | the smallest instance that shows it | a documented promise that the code does not keep, see below |

Why these bounds are enough. Fencing needs a worker that is late, one that took
its job over and one that sweeps: three workers, one job; two stalls let a job be
taken over twice. A retry and a final failure need two attempts. With two jobs (`JobQueueLive`) the
order of claims matters and a sweep has two rows; with its one attempt a job is in `retry` only after a
recovery, and that the retries of `fail_job` keep the promise is the theorem `QueueKeepsPromise`. In `Documents` the interesting
conflict is between two uploads with one key; two contents give the conflict
answer (409). One crash or one failing unlink is what a single handler can suffer;
more of them repeat the same cases; the unlink may be that of a result or of a source. In `Accounts` two processes rotate one
key or export one day while a request is counted; three keys are one and two replacements,
four handlers issue, rotate twice and export. `MaxExits`, `MaxStalls`, `MaxCrashes`,
`MaxFailures`, `UnlinkFails`, `MaxHandlers`, `MaxCalls`, `MaxTime`, `MaxUrls`, `MaxHour` and `MaxAiCalls` are the only
bounds, each a guard of the action it names.
In `Library` two calls let every function work on the output of every other, and properties
of pairs of files (interleaving, comparison) see files of up to ten pages. In `Workbench` the documents to begin with hold what any earlier calls
could have left (and what other programs write), so two more calls are a function on the output of another; in `Service` a clock of
three steps lets a URL, a key and a window end in every order, two claims are what an orphan and its
successor need, and three calls fill one bucket in each process and leave three rows to page through. The theorems do not
depend on them (nor on the number of jobs and workers).

`CHECK_DEADLOCK FALSE` is set because every system here may stop: all workers may
have ended, all jobs may have expired, the clocks and calls of `Service` and `Workbench` are
used up at their bounds.

Every property is also tried against a faulty form of a guard of the code, named in
PROJECT.json: definitions that end in `_Faulty` stand next to the one they distort and
are used by nothing else.

### Fairness

`JobQueue!Fairness` asks that a worker that has not ended goes on (weak fairness
of all its steps together: it is one sequential process, polling without waiting on
anybody) and that the three clocks advance. `compose.yaml` restarts workers
(`restart: unless-stopped`), and the instances have one incarnation more than
`MaxExits`, which is what the fairness of `StartWorker` then means. Nothing is
assumed of clients, crashes, stalls or orphans. `Documents!Fairness` asks that a
handler that has begun goes on, that jobs are executed, that the sweeps run (a
worker sweeps every 60 seconds) and that time passes; clients and administrators
need not act, and a crash ends a handler for good.

## Where the code departs from its documents

Four runs end in a counterexample on purpose.

* `JobQueueCancelStuck`: `fail_job` reads the row, a client cancels (202), `fail_job`
  writes `retry`. The row now has `cancel_requested = 1` in status `retry`: no claim,
  recovery or purge selects it again, so the accepted cancellation never takes effect and
  the row is never purged. No crash is needed. The same end is reached when a worker dies
  after the request: recovery asks for `cancel_requested = 0`.
* `DocumentsHoldPurge`: `purge_old_jobs` unlinks the source of a settled job after 24
  hours whether or not its document is held ("Legal hold prevents deletion.").
* `DocumentsDeletion`: a deletion that was cut off stays `deletion-pending`, for the sweep
  selects only `active` documents ("expiration, and deletion propagation are persisted"). The same
  property fails without a crash when an unlink fails once: the row then loses its `source_path`
  and nobody tries again ("Lifecycle sweeps retry failures").
* `WorkbenchFilledForm`: what `fill_form` was given is not what `extract_form_data` then tells ("Extract all form
  field names and their current values"). The widgets on the first page show the new values, the fields of the form, which the
  function takes from its input (`forms.py:167-170`), keep the old ones. The entry is added under a plain `str`;
  whether pypdf writes that or raises is left open, and the run is about the file it writes.

Five more the model contains as steps, without a run of their own: `purge_old_jobs` sets
`result_path` to NULL whether or not the unlink of the result has succeeded, no later sweep selects the row, and the
file stays on disk for ever (`intake.py:214` says "Lifecycle sweeps retry failures"; `DeletedResultsVanish` says what does
hold: the row of a deleted document's job is withdrawn in the end, so that nobody can download the result, and
its file is gone unless an unlink failed); attempts exceed
`max_attempts` through recoveries, without limit, when a job kills its worker
(`AttemptsBoundedByRecoveries` says what does hold); a result file that is not
published (worker crashed after `os.replace`, refused UPDATE, orphaned child) is named
by no row and removed by nobody; a job that had decided to complete before a deletion
cancelled it keeps a downloadable result of a deleted document until its TTL (`DeletedResultsVanish` says that it
is withdrawn then); a hold
that is set after `delete_document` has looked does not stop the deletion. And an upload
that the quota refuses leaves its durable object behind (`Admit`).

Of the library four things are steps of the model that a caller may not expect, none of them
against a promise: a batch whose inputs share a stem returns one path twice; an input
that is the numbered copy of an earlier one is numbered again; page operations drop
bookmarks and labels without a word; labels are placed from the origin even where the media box
begins elsewhere (`MarksOnPage` speaks of the pages where it does not).

The `Workbench` modules contain more of this kind; the properties are stated so that they hold, and
their premises say where they would not:

* `redaction.py:41-50` looks for signature fields, not for what `sign` leaves in the metadata: a file
  signed by this library is redacted, and its signature dropped. When the verification raises, the
  output has already been written (`_finish`).
* `verify` says what the metadata says. Markup copies the metadata, so a file to which an annotation
  was added after signing is still called signed; drawing functions drop the signature, which is
  what `SignatureCoversDrawing` rests on.
* Nearly every function drops the form, the attachments, the language and the bookmarks: `add_attachment`
  those that were attached before, `set_language` and `set_title_display` each other's entry.
* `flatten_*` removes annotations without an appearance stream and draws nothing for them.
* `fill_form` fills the first page only, and a text that was redacted from the widgets may be left in the form's own
  fields; the verification finds it there and raises; `create_form` never selects a radio button.
* A negative page number passes the check of `editor.py` and draws nothing.
* `extract_links` compares pages by value and reports the first that is equal (`links.py:356`).
* `optimize(remove_metadata=True)` leaves the producer pypdf writes.

And the `Service` modules: `app.py:129` says 20 calls per hour and key, but each API process lets that
many through; a caller with a Bearer token shares its address's bucket with callers who have no key at all. An
owner whose user id has a dot (`start.sh` takes an e-mail address) gets URLs that never verify,
and so does an administrator who asks for somebody else's job, for the URL names who asked.
An orphaned child writes over the progress of a later attempt and of a completed job. `ProgressTrue` therefore speaks of
numbers only in attempts that were claimed when no child of an earlier one was alive (`alone`); that the end told stays, and that 100 is
told of complete jobs alone, it asks whatever has crashed. A row logged between the count and the
select of the last page pushes the oldest row to a page the reader is not told of
(`reader.exact`). `ai_results.py:4` says the log is written "from every AI route"; a call that fails before
the reply is logged only by `summarize`.

Of keys and statements the repository promises less, and the model shows how much less. A
rotation cut off after `RevokeOld` has revoked a key whose replacement nobody was told (only
its hash is stored), which is why `RotationKeepsAccess` asks for `crashes = 0`; one cut
off before it leaves both keys valid. Two rotations of one key both succeed. A statement
exported while its day still counts is frozen and never shows the rest of the day;
`UsageIsAdmitted` says it never shows more than happened.

## Proofs

`JobQueueProofs` proves, for every finite set of jobs, every set of workers, every
`MaxAttempts > 0` and all bounds (the named ASSUMEs of `JobQueue`):

| Theorem | States |
|---|---|
| `Invariance` | `Spec => []IInv` |
| `TypeCorrect` | `Spec => []TypeOK` |
| `Fencing` | `ResultIsFromLatestClaim` always holds |
| `ResultKept` | `ResultKeptUntilTtl` always holds |
| `AttemptsBounded` | `AttemptsBoundedByRecoveries` always holds |
| `Exclusive` | `ExclusiveExecution` always holds |
| `ResultStable` | `ResultNeverReplaced` |
| `QueueKeepsPromise` | if `MaxStalls = 0`, `Spec => KeepsPromise` |

None of the safety properties is inductive. The invariant `IInv` adds what the code
relies on silently:

* `ClaimsDistinct` and `OwnerExecutes`: no two workers hold one claim number, and a row in
  `processing` names a worker that is gone or that executes the *last* claim. With
  this the owner check of `complete_job` becomes a check of the claim number.
* `ResultSettled`: a published result has left the lease (the owner column is NULL), so
  no late `fail_job` can touch the row, and no executing worker has the number of its file,
  so no unlink of an unpublished file hits it.
* `AttemptsLeft`: a `retry` that is about to be written was decided below the limit and
  the row has not been claimed since.
* `FileThere`: the file about to be published exists unless the TTL is over; a sweep
  unlinks files of aged jobs only.
* `LeaseGuards` and `SweepSettled`: two parts conditional on `stalls = 0`. Who executes a
  job owns it; what a sweep has selected stays settled. They carry `Exclusive` and the refinement.

There is one lemma per action of `Next`, and under each one step per part of `IInv` that
the action can disturb; `NextIInv` puts them together. The refinement proof has a
lemma per group of actions that says which step of `JobPromise` it is; it needs
`MaxStalls = 0`, because a late worker's cancelled branch (by id alone) can turn a
complete job into a cancelled one once a lease has lapsed under it.

`AccountsProofs` proves, for all non-empty tenants, all keys, processes, quotas and bounds:

| Theorem | States |
|---|---|
| `Invariance` | `Spec => []IInv` |
| `TypeCorrect` | `Spec => []TypeOK` |
| `AuditCorrect` | `AuditVerifies` always holds |
| `AuditTruthful` | `AuditIsTrue` always holds |
| `RotationCorrect` | `RotationKeepsAccess` always holds |
| `UsageCorrect` | `ExportsAgree` always holds |
| `UsageAdmitted` | `UsageIsAdmitted` always holds |

`AuditVerifies` rests on one lemma about appending (`AppendSound`): the new event names the
last hash, so the check of every older event is untouched. `AuditIsTrue` speaks of rows that later
steps could change; `Kept` says what every step of the module leaves alone (rows and
revocations stay, a stored statement stays), `SaysKept` that a true event stays true then,
and `AppendTruth` adds that handlers record only what they have done. For the last part
`IInv` ties the locals of a handler to the rows it wrote (`KeyHandlersOK`,
`ExportHandlersOK`), and `ReplacementsKnown` says that whoever has revoked still holds the
replacement, from which `RotationKeepsAccess` follows.

`DownloadsProofs` and `ProgressProofs` prove about `Service`:

| Theorem | States |
|---|---|
| `DownloadsCorrect` | `DownloadsRight` and `DownloadsTypeOK` always hold |
| `ProgressCorrect` | `ProgressTrue`, and `ProgressInv` always holds |

`DownloadsCorrect` is for all credentials, name parts, jobs, tenants and signing-key configurations in which
the active key is one of the configured ones (`RingsAssumption`); `NoKey` authenticates nobody
(`KeysAssumption`), every user has a name (`NamesAssumption`), the time to live is not zero
(`TtlAssumption`). The inductive part is `UrlOK`: every URL ever given out is signed, with a key some
configuration had, for its job, *that job's* tenant and the user who asked. `TokenParts` says where the
parts of a token are, `SignatureInjective` that signatures over names without dots agree only for one
job and one user, and `Verified` follows `verify_download` through both. That the two
signatures are over equally many parts is what a name with dots breaks: for it
`VerifyDownload` takes the wrong part for the signature, and the proof shows that it then refuses.

`ProgressCorrect` is for any number of pages, attempts and crashes and any `Share` up to 85. What it says of the end
and of 100 holds with orphaned children too; what it says of the numbers in between is for attempts claimed `alone`, which
includes those whose own worker dies, and excludes those an orphan may write into. The
numbers come first: `Reports` never goes back and never reaches 100 (`ReportsBounds`, from two lemmas on
integer division). `OwnerExecutes` and `ClaimsBounded` hold whatever crashes: who executes the job has its
last claim, and each claim beyond `MaxAttempts` is paid for by a crash. So do `EndToldStays` and `HundredIsComplete`, because no
child reports 100. `RowShowsChild` and `ToldIsPast` are for attempts claimed `alone`: the row shows the last report of
the one child there is, and the stream has told no more. A claim while an orphan lives is exactly what lets a second
child write to the row. There is one lemma per action.

`DocumentsProofs` proves, for every set of uploads, keys, contents, callers and sweepers and any number of
crashes and failing unlinks (`ProcsAssumption`: an API process, a worker and a request are three
different things):

| Theorem | States |
|---|---|
| `Invariance` | `Spec => []IInv` |
| `TypeCorrect` | `Spec => []TypeOK` |
| `SourcesKept` | `OpenJobHasSource` always holds |
| `RetriesShare` | `RetriesShareOneJob` always holds |
| `DeletedStop` | `DeletionStopsJobs` always holds |
| `DocumentsKeepPromise` | `Spec => JobsKeepPromise` |

Every step of a handler is decided by what an earlier one has read, so `IInv` says what of it still
holds. `HandlersOK`: a deletion is about a document whose upload request is over, or is the discard of
that very request, so no deletion meets a request that is about to create the job. With
`RequestsOK` (a request that is not answered has its object and no job) this gives `DeletionsOK`: what the SELECT of
`delete_document` did not find is not created afterwards, and after `request_cancel` the job is
`Stopped` for good, for nothing takes a cancellation back. `OpenJobHasSource` and
`DeletionStopsJobs` follow and are parts of the invariant. `AnswersOK` (one job for each key, and
answers name the job of their key and content) gives `RetriesShareOneJob`. The refinement needs
`OutcomesOK`: a verdict is about a row that is still processing, and a result is published exactly
of the complete ones. There is one lemma per action, and one per action again for the step of `JobPromise` it is.

`ServiceProofs` proves about `AiCalls`, for any processes, callers, routes, limit, window, page size
and clock (`RateAssumption`, `HoursAssumption`, `RoutesAssumption`):

| Theorem | States |
|---|---|
| `AiInvariance` | `AiInv` always holds |
| `RateLimited` | `RateBounded` always holds |
| `NothingMissed` | `PagesMissNothing` always holds |
| `Invariance` | `IInv` of `Service` always holds |

`BucketsOK` says that a bucket is the end of what was admitted, and that what was popped has left the
window: the loop of `_rate_check` stops at the first time that is in it, and since the clock
does not go back, none before it returns. A call is admitted when fewer than the limit are left, so
the window that ends with it holds no more than the limit (`AdmittedFits`), and every other window
holds what it held. `ReaderOK` says that a row of the first page is seen or still to come:
`ORDER BY created_at DESC` gives a row the place after all newer ones, and appending, also of a row
stamped earlier, only adds newer ones (`AppendPushesBack`).

`WorkbenchProofs` proves, for all documents to begin with, all texts, names, passwords, image sizes and arguments of the
right types (`InitialAssumption`, `InputsAssumption`, `SizesAssumption`, `NoneAssumption`) and any number of calls. Documents
to begin with are `Whole` (`InitialWhole`): a field of the form is drawn by a widget, a form that is not
empty has the field of every widget, fields apart from the widgets are those of the form, and a link leads to a page of the file or nowhere. Files the library writes are;
the reports of the library contradict each other on a file that is not, so `Invariance` and `ReadBack` use it and
the other three do not need it:

| Theorem | States |
|---|---|
| `Invariance` | `Spec => []IInv` |
| `SignatureCovers` | `SignatureCoversDrawing` always holds |
| `RedactionHolds` | `RedactedGone` always holds |
| `PagesKept` | `PagesSurvive` |
| `ReadBack` | `ReadsBack` always holds |

The invariant is the types, `Whole` of the document, `Removed` and `Sealed`, which is `SignatureCoversDrawing` without its condition that the file is not
encrypted: `encrypt` copies pages and metadata, so the signature is back after `decrypt`.
`Right` says what every call but `sign` and the redactions makes of the document: it is a document; if it is
signed, the old one was and showed the same (`SameSignature`); and unless the call makes a document from nothing,
the pages are there with what was on them (`AllHold`). There are three ways to be right, and one lemma for each: carry the
metadata and draw nothing (`CarriesRight`), drop the signature (`DropsRight`), or start from nothing
(`MadeRight`); then one lemma per function. `Checked` is the same for the redactions: what they wrote is
not signed, and they return only what `verify_redaction` has found clean.

`RedactionHolds` says that this verification is enough. That a call returns means that the term is in none of the places
`verify_redaction` searches; `RedactedGone` speaks of what the readers tell, `Tells`, and of all later calls that are given
no text. Between the two is `Removed`: what is gone is `Stored` nowhere, not in a default or a field of the form either, from where flattening, a
scrub or a copied form would bring it back although no reader told it. `ToldIsStored` is that
the readers tell nothing else; `TextlessQuiet`, with a lemma for each function that is given no text, that such a call
stores no text that was not stored before, but the name of the tool. Searching less, for example not the
bytes of the file, leaves a comment or a default to be told later, which is the mutant of `RedactedGone`.
`Only`, which filters annotations and pictures, is a recursive function, so its type needs an
induction: the library's induction theorems take an operator, which the provers cannot
instantiate, but `Smallest` (every non-empty set of naturals has a least element, from the well-founded
induction of the library) does the same for a set (`UpTo`), and with it `SelectionExists` and
`OnlyType` are proved by hand.

`ReadBack` has ten parts, and the values `fill_form` was given are in none of them (`WorkbenchFilledForm`). Two hold of every file that is whole: `FieldsDrawn`, and `ReportsConsistent`, which says that
the reports of `optimizer.py`, `compressor.py`, `forms.py`, `links.py` and `accessibility.py` agree. The count of pictures
is a sum over pages (`Total`, a recursive function like `Only`): `PicturesAgree` says that it is zero exactly when no page has one,
and `ExtractsAll` that the names `extract_images` gives to what it finds on two pages, or twice on one, differ.
`LinksInside` needs that the page a link is resolved to is there, which is what `Whole` says of
links and every call keeps. The other eight speak of one call each: a lemma per call (`AddTextTells` to `EncryptTells`) says what
the reader finds in the document it wrote, `OthersSilent` that the other calls have nothing to keep, and one lemma per group
of `Next` puts them together.

`LibraryProofs` proves, for all files to begin with that are readable and whose bookmarks and labels lead to pages
(`FilesAssumption`), all paths, numbered stems and at least as many split stems as a call has ranges
(`PathsAssumption`), all whole-number geometry (`GeometryAssumption`), all arguments of the right types
(`ArgsAssumption`) and any number of calls:

| Theorem | States |
|---|---|
| `Invariance` | the five of the next rows always hold together |
| `TypeCorrect` | `TypeOK` always holds |
| `TargetsKept` | `TargetsExist` always holds |
| `BatchNumbered` | `BatchRunsOn` always holds |
| `CropsHold` | `CropsStayInside` always holds |
| `MarksHold` | `MarksOnPage` always holds |
| `NavigationHolds` | `NavigationReadsBack` always holds |
| `AlgebraAlways` | `PageAlgebra` always holds |
| `ComparisonsAlways` | `ComparisonsSound` always holds |

The inductive part is `TypeOK /\ TargetsExist`: what a call finds are documents with pages and with
bookmarks and labels that lead to them. The other three of `Invariance` speak of the last call and
follow from it at each step; `PageAlgebra` and `ComparisonsSound` follow from `TypeOK` alone, which says that
documents are finite sequences of pages. The proof has three floors. At the bottom is one page: a crop box
inside its media box stays there when it is inset or when both are scaled (`TimesKeeps`: multiplying by a
whole factor keeps an order), and a label placed in a page with room for it is inside the margins (`MarkedPage`).
Above it a list of pages: `Keeps` says that at least one page is left and crop boxes that were inside are inside, with one lemma
per function (`RotatedKeeps` to `TocKeeps`). On top a call: `Right` is what the document it writes has to be, `WroteStep`
and `StoppedStep` are the two ways a call ends, and each action has a lemma. `Interleaved`, `Without`, `Bookmarked`,
`Split` and the batch are recursive functions: `Recursion` and `Unique`, proved with `UpTo`, say that such a
function exists, has its type and is the only one, and `InterleavedPlaces` and `WithoutPlaces` are inductions over
places that say where every page is. That a batch is numbered as the merge is
`NumberedTwo`, and needs the two outputs to be different paths, as the property says. The theorems are about
batches of two files, which is what `Next` has.

`NavigationHolds` needs no more of the files than `TypeOK /\ TargetsExist`, but relates two programs that
share no data structure: `add_bookmarks` keeps a stack of levels, `extract_toc` walks a tree, and `Meant`
knows neither. Three invariants over the entries added connect them:

* `Stacked`: each item on the stack is a child of the one below it and the last of its siblings, levels
  and places increase, and an entry is on it exactly when everything after it is deeper. Popping what is not
  lower than the next entry (`OpenIs`) leaves exactly what is above that (`EntryStacked`), so that the height
  of the stack is the level `Meant` counts (`EntryRead`).
* `Spine`: the items that may still get children form a path on which every item is the last of its
  siblings. An item added there is met last by the walk, one level below the end of the path, and every other part of the walk is
  as it was (`ItemAdded`, an induction from the last place to the first with `DownTo`).
* `Walk` of the outline is that of the old one followed by the first entries of `Meant` (`BookmarksRead`, with `UpTo`).

`WalkExists` shows that the recursive function in `Walk` has a value at all, which its definition by
`CHOOSE` does not say. For labels, `LabelsWritten` is that the names of the styles differ, that none is that of
an absent one, and that no first number is the `Unset` one.

Only model-checked, and why: the liveness properties (`UncancelledJobsSettle`, `SettledJobsExpire`,
`RetentionEnforced`, `DeletedResultsVanish`), for fairness is beyond the prover.

## Plan

Next, in order:

1. The events of jobs: which transitions of `JobQueue` the audit log reports, and when it
   reports one that did not happen (`fail_job`).
2. The loop of one retention sweep over several rows, which an exception can end.
3. The rest of the page operations (metadata comparison, the other page boxes).

The composition of `JobQueue` and `Documents` is by `JobPromise`: both refine it over
the same phases. A joint module would add only leases to `Documents`.

## Not modelled

What external models answer and storage services keep (their handlers keep no state the rest
depends on); aggregates over the AI log and the parsing of replies; templates and static files;
configuration, start-up checks and metrics; the command line (166 commands, each of which parses
its arguments and calls one library function) and the launcher (a window that does the same); page
images and OCR, which are loops around programs that decide the outcome; dates; the certificate
files of `create_self_signed_cert`.
