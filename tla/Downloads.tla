------------------------------ MODULE Downloads ------------------------------
(***************************************************************************)
(* Who gets the result of a job: API keys, the status and download routes   *)
(* of routes/jobs.py and the signed URLs of auth.py, while keys expire and   *)
(* are revoked, the signing keys are rotated, and results are purged.       *)
(*                                                                         *)
(* Strings joined by dots are sequences of their parts between dots, so     *)
(* that a name with dots is several parts and splitting is what it is in    *)
(* the code. Key ids, job ids and tenants have none. API_KEY is set, so     *)
(* there is no open mode.                                                   *)
(***************************************************************************)
EXTENDS Integers, Sequences, FiniteSets

CONSTANTS
  ApiKeys,    \* rows of api_keys
  Legacy,     \* API_KEY of the environment
  NoKey,      \* no header, or a string that is no key
  NameParts,  \* what stands between the dots of user names
  Identity,   \* of each key and Legacy: [tenant, user, admin]
  Lifetime,   \* of each key: expires_at
  Jobs, JobOwner,   \* of each job: [tenant, user]
  Rings,      \* the configurations of signing keys, in order: [active, keys]
  Ttl,        \* 300 seconds
  MaxTtl,     \* 900 seconds
  MaxTime, MaxUrls  \* bounds: clock, URLs given out

ASSUME TtlAssumption == Ttl \in Nat \ {0} /\ MaxTtl \in Nat /\ MaxTime \in Nat
ASSUME RingsAssumption == Rings # <<>> /\ \A r \in DOMAIN Rings : Rings[r].active \in Rings[r].keys

VARIABLES
  clock,
  revoked,    \* api_keys.revoked_at is set
  ring,       \* the configuration the service runs with
  status,     \* of each job
  stored,     \* the jobs whose result file is there
  urls        \* given out by job_status: [job, to, token]

downloadVars == <<clock, revoked, ring, status, stored, urls>>

Credentials == ApiKeys \cup {Legacy, NoKey}

(* A string has at least one part.                                              *)
UserNames == Seq(NameParts) \ {<<>>}

ASSUME KeysAssumption == NoKey \notin ApiKeys \cup {Legacy}
ASSUME NamesAssumption ==
  /\ \A key \in Credentials : Identity[key].user \in UserNames
  /\ \A job \in Jobs : JobOwner[job].user \in UserNames

DownloadsInit ==
  /\ clock = 0 /\ revoked = {} /\ ring = 1 /\ urls = {} /\ stored = {}
  /\ status = [j \in Jobs |-> "processing"]

-----------------------------------------------------------------------------
(* auth.py                                                                      *)

(* A key of the table that is not good any more is still compared with API_KEY: *)
(* it cannot equal it, for that does not begin like one.                        *)
Authenticates(key) ==
  key = Legacy \/ (key \in ApiKeys \ revoked /\ clock < Lifetime[key])

(* Whose hash a signature is: the key it was made with and the joined string.   *)
Signature(key, job, tenant, user, expires) ==
  [by |-> key, over |-> <<key, job, tenant>> \o user \o <<expires>>]

Least(a, b) == IF a < b THEN a ELSE b

SignDownload(job, identity) ==
  LET active  == Rings[ring].active
      expires == clock + Least(Ttl, MaxTtl)
  IN  <<active, expires>> \o identity.user
        \o <<Signature(active, job, identity.tenant, identity.user, expires)>>

Expiries == 0 .. clock + Least(Ttl, MaxTtl)

(* A URL is signed for its job, the tenant of that job and who asked for it.    *)
UrlOK(url) ==
  /\ url.job \in Jobs /\ url.to \in UserNames
  /\ \E key \in UNION {Rings[r].keys : r \in DOMAIN Rings}, expires \in Expiries :
       url.token = <<key, expires>> \o url.to
                     \o <<Signature(key, url.job, JobOwner[url.job].tenant, url.to, expires)>>

DownloadsTypeOK ==
  /\ clock \in 0 .. MaxTime /\ revoked \subseteq ApiKeys /\ ring \in DOMAIN Rings
  /\ status \in [Jobs -> {"processing", "complete", "expired"}] /\ stored \subseteq Jobs
  /\ \A url \in urls : UrlOK(url)

(* Faulty: only the key that signs now is accepted. *)
Accepted_Faulty == {Rings[ring].active}

Accepted == Rings[ring].keys

(* The third part is taken for the user, all that follows for the signature.   *)
(* <<>>: nobody.                                                                *)
VerifyDownload(token, job, tenant) ==
  IF /\ Len(token) >= 4
     /\ clock <= token[2] /\ token[2] <= clock + MaxTtl
     /\ token[1] \in Accepted
     /\ SubSeq(token, 4, Len(token)) = <<Signature(token[1], job, tenant, <<token[3]>>, token[2])>>
  THEN <<token[3]>> ELSE <<>>

-----------------------------------------------------------------------------
(* routes/jobs.py                                                               *)

MaySee(key, job) ==
  /\ Authenticates(key)
  /\ Identity[key].tenant = JobOwner[job].tenant
  /\ Identity[key].user = JobOwner[job].user \/ Identity[key].admin

Authorized(job, key, token) ==
  \/ MaySee(key, job)
  \/ token # <<>> /\ VerifyDownload(token, job, JobOwner[job].tenant) = JobOwner[job].user

Answer(job, key, token) ==
  IF ~ Authorized(job, key, token) THEN 404
  ELSE IF status[job] # "complete" THEN 409
  ELSE IF job \notin stored THEN 410
  ELSE 200

(* The URL is made out to who asks. *)
JobStatus(job, key) ==
  /\ MaySee(key, job) /\ status[job] = "complete" /\ Cardinality(urls) < MaxUrls
  /\ urls' = urls \cup {[job |-> job, to |-> Identity[key].user,
                         token |-> SignDownload(job, Identity[key])]}
  /\ UNCHANGED <<clock, revoked, ring, status, stored>>

CompleteJob(job) ==
  /\ status[job] = "processing"
  /\ status' = [status EXCEPT ![job] = "complete"] /\ stored' = stored \cup {job}
  /\ UNCHANGED <<clock, revoked, ring, urls>>

(* purge_old_jobs, delete_document: the file goes before the row tells, unless   *)
(* its unlink fails, which nobody is told.                                      *)
UnlinkResult(job) ==
  /\ status[job] = "complete" /\ stored' = stored \ {job}
  /\ UNCHANGED <<clock, revoked, ring, status, urls>>

ExpireJob(job) ==
  /\ status[job] = "complete"
  /\ status' = [status EXCEPT ![job] = "expired"]
  /\ UNCHANGED <<clock, revoked, ring, stored, urls>>

RevokeKey(key) ==
  /\ revoked' = revoked \cup {key}
  /\ UNCHANGED <<clock, ring, status, stored, urls>>

RotateRing ==
  /\ ring < Len(Rings) /\ ring' = ring + 1
  /\ UNCHANGED <<clock, revoked, status, stored, urls>>

TimePasses ==
  /\ clock < MaxTime /\ clock' = clock + 1
  /\ UNCHANGED <<revoked, ring, status, stored, urls>>

DownloadsNext ==
  \/ \E job \in Jobs : CompleteJob(job) \/ UnlinkResult(job) \/ ExpireJob(job)
  \/ \E job \in Jobs, key \in Credentials : JobStatus(job, key)
  \/ \E key \in ApiKeys : RevokeKey(key)
  \/ RotateRing \/ TimePasses

-----------------------------------------------------------------------------
Fresh(url) == clock <= url.token[2] /\ url.token[1] \in Rings[ring].keys

(* A signed URL opens the job it was made for, for its owner, as long as it is  *)
(* neither over nor signed with a key the service has dropped, whatever has     *)
(* become of the key it was asked with; and it opens nothing else, nor for      *)
(* longer than five minutes. The owner's name must have no dot: with one, the   *)
(* code refuses the owner's own URL.                                            *)
DownloadsRight ==
  \A url \in urls, job \in Jobs :
    LET answer == Answer(job, NoKey, url.token)
        own    == url.job = job /\ url.to = JobOwner[job].user
    IN  /\ own /\ Fresh(url) /\ Len(url.to) = 1 =>
             answer = (IF status[job] # "complete" THEN 409
                       ELSE IF job \in stored THEN 200 ELSE 410)
        /\ answer # 404 => own /\ Fresh(url) /\ url.token[2] - clock <= Ttl

=============================================================================
