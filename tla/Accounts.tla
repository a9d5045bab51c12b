------------------------------ MODULE Accounts ------------------------------
(***************************************************************************)
(* API keys, the daily usage of the tenants and the audit log:             *)
(* web/auth.py (create_api_key, rotate_api_key), web/governance.py         *)
(* (consume_quota, billing_usage) and append_audit of                      *)
(* web/job_registry.py with the check of web/maintenance.py.               *)
(*                                                                         *)
(* A handler is a coroutine that never awaits, so that one API process     *)
(* runs one handler at a time; the processes share the database, and every *)
(* statement outside BEGIN IMMEDIATE commits on its own. One day of usage  *)
(* and one counter stand for the three of usage_daily.                     *)
(***************************************************************************)
EXTENDS Integers, Sequences, FiniteSets

CONSTANTS
  Tenants,
  Keys,        \* key_id: the rows api_keys may get
  NoKey,
  Procs,       \* API processes
  Quota,       \* MAKEPDF_DAILY_REQUEST_QUOTA
  MaxHandlers, \* bound: handlers that append to the audit log
  MaxCrashes   \* bound: handlers cut off half way

ASSUME TenantsAssumption == Tenants # {}
ASSUME NoKeyAssumption == NoKey \notin Keys
ASSUME QuotaAssumption == Quota \in Nat
ASSUME LimitsAssumption == MaxHandlers \in Nat /\ MaxCrashes \in Nat

VARIABLES
  tenant, from, revoked, \* api_keys: its columns for the rows inserted so far
  rows,                  \* key_ids in api_keys
  usage,                 \* usage_daily.request_count
  statement,             \* billing_exports.usage_json; None until it is exported
  audit,                 \* audit_events by sequence
  pc, customer, old, new, reading, \* the handler of each process
  handed,                \* keys whose secret a client has been told
  admitted, answers,     \* history: requests let through, statements returned
  handlers, crashes

keyTable == <<rows, tenant, from, revoked>>
handler  == <<customer, old, new, reading>>
history  == <<handed, admitted, answers>>
limits   == <<handlers, crashes>>
vars     == <<keyTable, usage, statement, audit, pc, handler, history, limits>>

None == -1
Genesis == <<>>   \* the hash of no event, "0" * 64

(* A hash is collision-free: it is the sequence of bodies it stands for. *)
Hash(previous, body) == Append(previous, body)

Actions == {"api_key.created", "api_key.rotated", "billing.usage.exported"}
Bodies  == [tenant : Tenants, action : Actions, about : Keys \cup (0 .. Quota)]
Events  == [body : Bodies, previous : Seq(Bodies), hash : Seq(Bodies)]

TypeOK ==
  /\ rows \subseteq Keys
  /\ tenant \in [Keys -> Tenants] /\ from \in [Keys -> Keys \cup {NoKey}]
  /\ revoked \subseteq rows
  /\ usage \in [Tenants -> 0 .. Quota]
  /\ statement \in [Tenants -> {None} \cup (0 .. Quota)]
  /\ audit \in Seq(Events)
  /\ pc \in [Procs -> {"idle", "read", "inserted", "recorded", "revoked", "counted",
                       "stored", "selected"}]
  /\ customer \in [Procs -> Tenants]
  /\ old \in [Procs -> Keys \cup {NoKey}] /\ new \in [Procs -> Keys \cup {NoKey}]
  /\ reading \in [Procs -> {None} \cup (0 .. Quota)]
  /\ handed \subseteq rows
  /\ admitted \in [Tenants -> Nat]
  /\ answers \in [Tenants -> SUBSET (0 .. Quota)]
  /\ handlers \in 0 .. MaxHandlers /\ crashes \in 0 .. MaxCrashes

Init ==
  /\ rows = {} /\ revoked = {}
  /\ tenant = [k \in Keys |-> CHOOSE t \in Tenants : TRUE] /\ from = [k \in Keys |-> NoKey]
  /\ usage = [t \in Tenants |-> 0]
  /\ statement = [t \in Tenants |-> None]
  /\ audit = <<>>
  /\ pc = [p \in Procs |-> "idle"]
  /\ customer = [p \in Procs |-> CHOOSE t \in Tenants : TRUE]
  /\ old = [p \in Procs |-> NoKey] /\ new = [p \in Procs |-> NoKey]
  /\ reading = [p \in Procs |-> None]
  /\ handed = {}
  /\ admitted = [t \in Tenants |-> 0] /\ answers = [t \in Tenants |-> {}]
  /\ handlers = 0 /\ crashes = 0

-----------------------------------------------------------------------------
(* append_audit. A definition whose name ends in _Faulty is the one after it  *)
(* with a plausible mistake; nothing uses it, the properties are tried        *)
(* against it.                                                                *)

(* The hash of the event before. Faulty: of the last event of the tenant,    *)
(* as if each tenant had a chain of its own.                                 *)
Previous_Faulty(t) ==
  LET own == {i \in DOMAIN audit : audit[i].body.tenant = t} IN
  IF own = {} THEN Genesis
  ELSE audit[CHOOSE i \in own : \A j \in own : j <= i].hash

Previous(t) == IF audit = <<>> THEN Genesis ELSE audit[Len(audit)].hash

AppendAudit(t, action, about) ==
  LET body == [tenant |-> t, action |-> action, about |-> about] IN
  audit' = Append(audit, [body |-> body, previous |-> Previous(t),
                          hash |-> Hash(Previous(t), body)])

(* verify_database: every event names the hash before it, and its own digest *)
(* is that of its body.                                                      *)
Verifies(log) ==
  \A i \in DOMAIN log :
    /\ log[i].previous = IF i = 1 THEN Genesis ELSE log[i - 1].hash
    /\ log[i].hash = Hash(log[i].previous, log[i].body)

-----------------------------------------------------------------------------
(* POST /api/governance/keys and .../keys/{id}/rotate. *)

Begin(p, t, place) ==
  /\ pc[p] = "idle" /\ handlers < MaxHandlers
  /\ handlers' = handlers + 1
  /\ pc' = [pc EXCEPT ![p] = place]
  /\ customer' = [customer EXCEPT ![p] = t]

(* An administrator asks for a new key; create_api_key comes next. *)
IssueKey(p, t) ==
  /\ Begin(p, t, "read")
  /\ UNCHANGED <<keyTable, usage, statement, audit, old, new, reading, history, crashes>>

(* rotate_api_key up to its SELECT. *)
RotateRead(p, k) ==
  /\ k \in rows \ revoked
  /\ Begin(p, tenant[k], "read")
  /\ old' = [old EXCEPT ![p] = k]
  /\ UNCHANGED <<keyTable, usage, statement, audit, new, reading, history, crashes>>

(* create_api_key's INSERT. *)
InsertKey(p, k) ==
  /\ pc[p] = "read" /\ k \notin rows
  /\ pc' = [pc EXCEPT ![p] = "inserted"]
  /\ rows' = rows \cup {k}
  /\ tenant' = [tenant EXCEPT ![k] = customer[p]]
  /\ from' = [from EXCEPT ![k] = old[p]]
  /\ new' = [new EXCEPT ![p] = k]
  /\ UNCHANGED <<revoked, usage, statement, audit, customer, old, reading, history, limits>>

Return(p) ==
  /\ pc' = [pc EXCEPT ![p] = "idle"]
  /\ old' = [old EXCEPT ![p] = NoKey] /\ new' = [new EXCEPT ![p] = NoKey]
  /\ reading' = [reading EXCEPT ![p] = None]
  /\ UNCHANGED customer

(* Its audit event, and for a key that replaces none the answer. *)
RecordKey(p) ==
  /\ pc[p] = "inserted"
  /\ AppendAudit(customer[p], "api_key.created", new[p])
  /\ IF old[p] = NoKey
     THEN Return(p) /\ handed' = handed \cup {new[p]}
     ELSE pc' = [pc EXCEPT ![p] = "recorded"] /\ UNCHANGED <<handler, handed>>
  /\ UNCHANGED <<keyTable, usage, statement, admitted, answers, limits>>

(* Faulty: revokes before there is a replacement. *)
MayRevoke_Faulty(p) == pc[p] = "read" /\ old[p] # NoKey

MayRevoke(p) == pc[p] = "recorded"

RevokeOld(p) ==
  /\ MayRevoke(p)
  /\ pc' = [pc EXCEPT ![p] = "revoked"]
  /\ revoked' = revoked \cup {old[p]}
  /\ UNCHANGED <<rows, tenant, from, usage, statement, audit, handler, history, limits>>

RecordRotation(p) ==
  /\ pc[p] = "revoked"
  /\ AppendAudit(customer[p], "api_key.rotated", old[p])
  /\ Return(p)
  /\ handed' = handed \cup {new[p]}
  /\ UNCHANGED <<keyTable, usage, statement, admitted, answers, limits>>

-----------------------------------------------------------------------------
(* Usage. *)

(* consume_quota is one transaction: the row is counted up and, if that is    *)
(* over the quota, rolled back. Faulty: without the rollback.                 *)
Counted_Faulty(t) == usage[t] + 1

Counted(t) == usage[t]

ConsumeQuota(t) ==
  \/ /\ usage[t] + 1 <= Quota
     /\ usage' = [usage EXCEPT ![t] = @ + 1]
     /\ admitted' = [admitted EXCEPT ![t] = @ + 1]
     /\ UNCHANGED <<keyTable, statement, audit, pc, handler, handed, answers, limits>>
  \/ /\ usage[t] + 1 > Quota
     /\ usage' = [usage EXCEPT ![t] = Counted(t)]
     /\ UNCHANGED <<keyTable, statement, audit, pc, handler, history, limits>>

(* billing_usage: SELECT the usage, ... *)
ReadUsage(p, t) ==
  /\ Begin(p, t, "counted")
  /\ reading' = [reading EXCEPT ![p] = usage[t]]
  /\ UNCHANGED <<keyTable, usage, statement, audit, old, new, history, crashes>>

(* ... INSERT ... ON CONFLICT(tenant_id,day) DO NOTHING, ... Faulty: DO      *)
(* UPDATE.                                                                   *)
Stored_Faulty(t, value) == value

Stored(t, value) == IF statement[t] = None THEN value ELSE statement[t]

StoreStatement(p) ==
  /\ pc[p] = "counted"
  /\ pc' = [pc EXCEPT ![p] = "stored"]
  /\ statement' = [statement EXCEPT ![customer[p]] = Stored(customer[p], reading[p])]
  /\ UNCHANGED <<keyTable, usage, audit, handler, history, limits>>

(* ... SELECT what is stored, ... *)
SelectStatement(p) ==
  /\ pc[p] = "stored"
  /\ pc' = [pc EXCEPT ![p] = "selected"]
  /\ reading' = [reading EXCEPT ![p] = statement[customer[p]]]
  /\ UNCHANGED <<keyTable, usage, statement, audit, customer, old, new, history, limits>>

(* ... and record its digest with the answer. *)
RecordExport(p) ==
  /\ pc[p] = "selected"
  /\ AppendAudit(customer[p], "billing.usage.exported", reading[p])
  /\ answers' = [answers EXCEPT ![customer[p]] = @ \cup {reading[p]}]
  /\ Return(p)
  /\ UNCHANGED <<keyTable, usage, statement, handed, admitted, limits>>

(* The process dies, or append_audit raises because the database is locked:  *)
(* what is committed stays.                                                  *)
Crash(p) ==
  /\ pc[p] # "idle" /\ crashes < MaxCrashes
  /\ crashes' = crashes + 1
  /\ Return(p)
  /\ UNCHANGED <<keyTable, usage, statement, audit, history, handlers>>

-----------------------------------------------------------------------------
Next ==
  \/ \E p \in Procs :
       \/ \E t \in Tenants : IssueKey(p, t) \/ ReadUsage(p, t)
       \/ \E k \in Keys : RotateRead(p, k) \/ InsertKey(p, k)
       \/ RecordKey(p) \/ RevokeOld(p) \/ RecordRotation(p)
       \/ StoreStatement(p) \/ SelectStatement(p) \/ RecordExport(p)
       \/ Crash(p)
  \/ \E t \in Tenants : ConsumeQuota(t)

Spec == Init /\ [][Next]_vars

-----------------------------------------------------------------------------
(* Properties. *)

(* Whatever processes append in whatever order, and whatever handlers are cut *)
(* off, the log verifies as verify_database verifies a backup of it.          *)
AuditVerifies == Verifies(audit)

(* The log tells no tale: a created key is in the table under that tenant, a  *)
(* rotated key is revoked and has a replacement, and a digest is that of the  *)
(* stored statement (append_audit comes after what it records).               *)
AuditIsTrue ==
  \A i \in DOMAIN audit :
    LET b == audit[i].body IN
    /\ b.action = "api_key.created" => b.about \in rows /\ tenant[b.about] = b.tenant
    /\ b.action = "api_key.rotated" =>
         b.about \in revoked /\ \E k \in rows : from[k] = b.about /\ tenant[k] = b.tenant
    /\ b.action = "billing.usage.exported" =>
         b.about # None /\ statement[b.tenant] = b.about

(* Unless a process dies, who rotates a key is not locked out: a key is       *)
(* revoked only when a replacement has been told or is about to be.           *)
RotationKeepsAccess ==
  crashes = 0 => \A k \in revoked :
    \E n \in rows : from[n] = k /\ (n \in handed \/ \E p \in Procs : new[p] = n)

(* All exports of a day return one statement, however many administrators    *)
(* export while requests are still being counted (billing_usage).            *)
ExportsAgree ==
  \A t \in Tenants : answers[t] \subseteq {statement[t]} \ {None}

(* What is counted is what was let through, and never beyond the quota        *)
(* (consume_quota); a statement shows no usage that did not happen.           *)
UsageIsAdmitted ==
  \A t \in Tenants : usage[t] = admitted[t] /\ usage[t] <= Quota /\ statement[t] <= usage[t]

-----------------------------------------------------------------------------
(* What the proofs need besides: where a handler is, its locals are those of  *)
(* a row it has written or read.                                              *)

Rotating == {"recorded", "revoked"}

KeyHandlersOK ==
  \A p \in Procs :
    /\ old[p] # NoKey => old[p] \in rows /\ tenant[old[p]] = customer[p]
    /\ old[p] # NoKey => pc[p] \in {"read", "inserted"} \cup Rotating
    /\ pc[p] \in Rotating => old[p] # NoKey
    /\ pc[p] \in {"inserted"} \cup Rotating =>
         new[p] \in rows /\ tenant[new[p]] = customer[p] /\ from[new[p]] = old[p]
    /\ pc[p] = "revoked" => old[p] \in revoked

(* A rotation that has revoked has its replacement in hand. *)
ReplacementsKnown ==
  crashes = 0 => \A k \in revoked :
    \E n \in rows :
      /\ from[n] = k
      /\ n \in handed \/ \E p \in Procs : new[p] = n /\ pc[p] \in {"inserted"} \cup Rotating

ExportHandlersOK ==
  \A p \in Procs :
    /\ pc[p] = "counted" => reading[p] \in 0 .. usage[customer[p]]
    /\ pc[p] = "stored" => statement[customer[p]] # None
    /\ pc[p] = "selected" => reading[p] # None /\ reading[p] = statement[customer[p]]

IInv ==
  /\ TypeOK
  /\ AuditVerifies
  /\ AuditIsTrue
  /\ KeyHandlersOK
  /\ ReplacementsKnown
  /\ ExportHandlersOK
  /\ ExportsAgree
  /\ UsageIsAdmitted
=============================================================================
