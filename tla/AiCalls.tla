------------------------------- MODULE AiCalls -------------------------------
(***************************************************************************)
(* The AI routes: the sliding window of ai_rate_limiter, which every API    *)
(* process keeps for itself, the calls to the model, and the shared log      *)
(* ai_results that calls are appended to while somebody pages through it.    *)
(* In production the routes are closed (app.py, 410) and none of this runs. *)
(***************************************************************************)
EXTENDS Integers, Sequences, FiniteSets, SequencesExt

CONSTANTS
  Processes,  \* of uvicorn
  Callers,
  Bucket,     \* of each caller: its X-API-Key header, else its address
  Known,      \* the callers whose key is good, in whatever header it comes
  Routes,     \* the features that are called
  RateMax, Window,   \* 20 calls in 3600 seconds
  Limit,      \* rows on a page of the log
  MaxHour, MaxAiCalls   \* bounds: clock, calls

Features == {"summarize", "classify", "ai-fill-form", "smart-redact", "pdf-governance-review"}
Replies  == {"error", "prose", "object"}   \* of the model, as parse_ai_json finds it

ASSUME RateAssumption == RateMax \in Nat \ {0} /\ Window \in Nat /\ Limit \in Nat \ {0}
ASSUME HoursAssumption == MaxHour \in Nat /\ MaxAiCalls \in Nat
ASSUME RoutesAssumption == Routes \subseteq Features

VARIABLES
  hour,       \* the clock; it is not set back
  buckets,    \* _rate_log of each process
  serving,    \* of each process: the feature it waits for the model for, or "none"
  log,        \* ai_results in the order of id: [feature, success, at]
  reader,     \* who pages through the log, and which rows there were before
  admitted    \* history: when each process let a call of each bucket through

aiVars == <<hour, buckets, serving, log, reader, admitted>>

BucketNames == {Bucket[c] : c \in Callers}

AiTypeOK ==
  /\ hour \in 0 .. MaxHour
  /\ serving \in [Processes -> Routes \cup {"none"}]
  /\ {buckets, admitted} \subseteq [Processes -> [BucketNames -> Seq(0 .. MaxHour)]]
  /\ log \in Seq([feature : Routes, success : BOOLEAN, at : 0 .. MaxHour])
  /\ reader \in [page : Nat, total : Nat, rows : Nat, counting : BOOLEAN, exact : BOOLEAN,
                 seen : SUBSET DOMAIN log, before : SUBSET DOMAIN log]

NotReading == [page |-> 0, total |-> 0, rows |-> 0, counting |-> FALSE, exact |-> TRUE,
               seen |-> {}, before |-> {}]

AiInit ==
  /\ hour = 0 /\ log = <<>> /\ reader = NotReading
  /\ buckets = [p \in Processes |-> [b \in BucketNames |-> <<>>]] /\ admitted = buckets
  /\ serving = [p \in Processes |-> "none"]

-----------------------------------------------------------------------------
(* _rate_check. Faulty: a call that is as old as the window counts no more.     *)
InWindow_Faulty(at) == hour - at < Window

InWindow(at) == hour - at <= Window

(* Faulty: one too many. *)
Admits_Faulty(recent) == Len(recent) <= RateMax

Admits(recent) == Len(recent) < RateMax

(* How many times at the front are popped: until the first one in the window.   *)
Popped(times) ==
  CHOOSE n \in 0 .. Len(times) :
    /\ \A k \in 1 .. n : ~ InWindow(times[k])
    /\ n < Len(times) => InWindow(times[n + 1])

Recent(times) == SubSeq(times, Popped(times) + 1, Len(times))

LetThrough == FoldSet(LAMBDA p, n : n + FoldFunction(LAMBDA times, k : k + Len(times), 0, admitted[p]),
               0, Processes)

(* Refused or not, what has left the window is dropped. The limiter runs before *)
(* the key is looked at.                                                        *)
RateCheck(p, caller, feature) ==
  LET name   == Bucket[caller]
      recent == Recent(buckets[p][name])
      admits == Admits(recent)
  IN  /\ serving[p] = "none" /\ LetThrough < MaxAiCalls
      /\ buckets' = [buckets EXCEPT ![p][name] = IF admits THEN Append(recent, hour) ELSE recent]
      /\ admitted' = [admitted EXCEPT ![p][name] = IF admits THEN Append(@, hour) ELSE @]
      /\ serving' = [serving EXCEPT ![p] = IF admits /\ caller \in Known THEN feature ELSE @]
      /\ UNCHANGED <<hour, log, reader>>

(* What is logged of a call: nothing, a success or a failure. failed: the form   *)
(* cannot be filled or the redaction finds nothing.                             *)
Logged(feature, reply, preview, failed) ==
  CASE feature = "summarize"    -> {reply # "error"}
    [] feature = "ai-fill-form" -> IF reply = "error" THEN {}
                                   ELSE {reply = "object" /\ (preview \/ ~ failed)}
    [] feature = "smart-redact" -> IF reply = "error" \/ (failed /\ ~ preview) THEN {} ELSE {TRUE}
    [] OTHER                    -> IF reply = "error" THEN {} ELSE {TRUE}

(* persist_ai_result stamps the row before it waits for the database, and        *)
(* swallows every exception (lost).                                             *)
AnswerCall(p) ==
  \E reply \in Replies, preview, failed, lost \in BOOLEAN, late \in 0 .. 1 :
    /\ serving[p] # "none" /\ late <= hour
    /\ serving' = [serving EXCEPT ![p] = "none"]
    /\ LET outcome == Logged(serving[p], reply, preview, failed) IN
       \/ (lost \/ outcome = {}) /\ log' = log
       \/ /\ ~ lost
          /\ \E s \in outcome :
               log' = Append(log, [feature |-> serving[p], success |-> s, at |-> hour - late])
    /\ UNCHANGED <<hour, buckets, reader, admitted>>

-----------------------------------------------------------------------------
(* query_ai_results, and the pages the viewer turns: the latest rows first.     *)

Newer(i, j) == log[i].at > log[j].at \/ (log[i].at = log[j].at /\ i < j)

Place(id) == Cardinality({i \in DOMAIN log : Newer(i, id)}) + 1

(* Faulty: pages counted from 0. *)
Offset_Faulty(page) == page * Limit

Offset(page) == (page - 1) * Limit

PageIds(page) ==
  {id \in DOMAIN log : Offset(page) < Place(id) /\ Place(id) <= Offset(page) + Limit}

(* The rows are counted by one statement and selected by the next.              *)
CountRows ==
  /\ ~ reader.counting /\ (reader.page = 0 \/ reader.page < reader.total)
  /\ reader' = [reader EXCEPT !.counting = TRUE, !.rows = Len(log),
                              !.total = (Len(log) + Limit - 1) \div Limit,
                              !.before = IF reader.page = 0 THEN DOMAIN log ELSE @]
  /\ UNCHANGED <<hour, buckets, serving, log, admitted>>

SelectRows ==
  /\ reader.counting
  /\ reader' = [reader EXCEPT !.counting = FALSE, !.page = @ + 1,
                              !.exact = (reader.rows = Len(log)),
                              !.seen = @ \cup PageIds(reader.page + 1)]
  /\ UNCHANGED <<hour, buckets, serving, log, admitted>>

HourPasses ==
  /\ hour < MaxHour /\ hour' = hour + 1
  /\ UNCHANGED <<buckets, serving, log, reader, admitted>>

AiNext ==
  \/ \E p \in Processes, caller \in Callers, feature \in Routes : RateCheck(p, caller, feature)
  \/ \E p \in Processes : AnswerCall(p)
  \/ CountRows \/ SelectRows \/ HourPasses

-----------------------------------------------------------------------------
(* No process lets more than RateMax calls of one bucket through in any window, *)
(* closed at both ends: all of them together, that many times their number.     *)
RateBounded ==
  \A p \in Processes, name \in BucketNames, from \in 0 .. MaxHour :
    LET times == admitted[p][name] IN
    Cardinality({k \in DOMAIN times : times[k] \in from .. from + Window}) <= RateMax

(* Who has turned to the last page has seen every row that was there at the     *)
(* first one, whatever was appended in between, also rows stamped before those   *)
(* seen; some may be seen twice. A row appended between the two statements of   *)
(* the last page pushes the oldest one to a page the reader is not told of.     *)
PagesMissNothing ==
  ~ reader.counting /\ reader.page > 0 /\ reader.page >= reader.total /\ reader.exact =>
    reader.before \subseteq reader.seen

-----------------------------------------------------------------------------
(* What makes the two inductive.                                                *)

(* A bucket is the end of what was admitted to it; what was popped has left the *)
(* window for good, for the times are in order.                                 *)
BucketsOK ==
  \A p \in Processes, name \in BucketNames :
    LET times == admitted[p][name]
        gone  == Len(times) - Len(buckets[p][name])
    IN /\ gone \in Nat /\ Len(buckets[p][name]) <= RateMax
       /\ \A k \in DOMAIN buckets[p][name] : buckets[p][name][k] = times[gone + k]
       /\ \A k \in 1 .. gone : ~ InWindow(times[k])
       /\ \A k \in DOMAIN times : times[k] <= hour /\ \A j \in 1 .. k : times[j] <= times[k]

(* A row that was there at the first page has been seen or is still to come, for *)
(* rows that are appended only push it back.                                    *)
ReaderOK ==
  /\ \A id \in reader.before : id \in reader.seen \/ reader.page * Limit < Place(id)
  /\ reader.counting => reader.total = (reader.rows + Limit - 1) \div Limit

AiInv == AiTypeOK /\ BucketsOK /\ ReaderOK /\ RateBounded /\ PagesMissNothing

=============================================================================
