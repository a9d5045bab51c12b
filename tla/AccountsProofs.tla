--------------------------- MODULE AccountsProofs ---------------------------
(***************************************************************************)
(* Proofs about Accounts: the log always verifies and tells the truth,     *)
(* rotations keep access, exports agree and the quota is exact, for any    *)
(* tenants, keys and processes.                                            *)
(***************************************************************************)
EXTENDS Accounts, SequenceTheorems, TLAPS

Subjects == Keys \cup (0 .. Quota)

(* An append keeps the log verifiable and leaves what is there alone. *)
LEMMA AppendSound ==
  ASSUME audit \in Seq(Events), AuditVerifies,
         NEW t \in Tenants, NEW action \in Actions, NEW about \in Subjects,
         AppendAudit(t, action, about)
  PROVE  /\ audit' \in Seq(Events)
         /\ AuditVerifies'
         /\ Len(audit') = Len(audit) + 1
         /\ \A i \in DOMAIN audit : audit'[i] = audit[i]
         /\ audit'[Len(audit) + 1].body = [tenant |-> t, action |-> action, about |-> about]
<1> DEFINE body == [tenant |-> t, action |-> action, about |-> about]
           event == [body |-> body, previous |-> Previous(t),
                     hash |-> Hash(Previous(t), body)]
<1>1. body \in Bodies
  BY DEF Bodies, Subjects
<1>2. Previous(t) \in Seq(Bodies)
  <2>1. CASE audit = <<>>
    BY <2>1 DEF Previous, Genesis
  <2>2. CASE audit # <<>>
    <3>1. Len(audit) \in DOMAIN audit
      BY <2>2
    <3>2. audit[Len(audit)] \in Events
      BY <3>1
    <3> QED BY <2>2, <3>2 DEF Previous, Events
  <2> QED BY <2>1, <2>2
<1>3. event \in Events
  BY <1>1, <1>2 DEF Events, Hash
<1>4. audit' = Append(audit, event)
  BY DEF AppendAudit
<1>5. /\ audit' \in Seq(Events) /\ Len(audit') = Len(audit) + 1
      /\ \A i \in DOMAIN audit : audit'[i] = audit[i]
      /\ audit'[Len(audit) + 1] = event
  BY <1>3, <1>4
<1>6. AuditVerifies'
  <2> SUFFICES ASSUME NEW i \in DOMAIN audit'
               PROVE  /\ audit'[i].previous = IF i = 1 THEN Genesis ELSE audit'[i - 1].hash
                      /\ audit'[i].hash = Hash(audit'[i].previous, audit'[i].body)
    BY DEF AuditVerifies, Verifies
  <2>1. CASE i \in DOMAIN audit
    <3>1. i # 1 => i - 1 \in DOMAIN audit
      BY <2>1
    <3> QED BY <2>1, <3>1, <1>5 DEF AuditVerifies, Verifies
  <2>2. CASE i = Len(audit) + 1
    <3>1. Previous(t) = IF i = 1 THEN Genesis ELSE audit[i - 1].hash
      BY <2>2 DEF Previous
    <3>2. i # 1 => i - 1 \in DOMAIN audit
      BY <2>2
    <3> QED BY <2>2, <3>1, <3>2, <1>5
  <2> QED BY <2>1, <2>2, <1>5
<1> QED BY <1>5, <1>6

(* What an event says. *)
Says(b) ==
  /\ b.action = "api_key.created" => b.about \in rows /\ tenant[b.about] = b.tenant
  /\ b.action = "api_key.rotated" =>
       b.about \in revoked /\ \E k \in rows : from[k] = b.about /\ tenant[k] = b.tenant
  /\ b.action = "billing.usage.exported" =>
       b.about # None /\ statement[b.tenant] = b.about

LEMMA TruthIsSaid == AuditIsTrue <=> \A i \in DOMAIN audit : Says(audit[i].body)
BY DEF AuditIsTrue, Says

(* Rows are only added and revoked; a statement, once stored, is kept. *)
Kept ==
  /\ rows \subseteq rows' /\ revoked \subseteq revoked'
  /\ \A k \in rows : tenant'[k] = tenant[k] /\ from'[k] = from[k]
  /\ \A t \in Tenants : statement[t] # None => statement'[t] = statement[t]

(* So what was true stays true. *)
LEMMA SaysKept ==
  ASSUME Kept, NEW b \in Bodies, Says(b)
  PROVE  Says(b)'
BY DEF Kept, Says, Bodies

LEMMA TruthKept ==
  ASSUME TypeOK, AuditIsTrue, Kept, UNCHANGED audit
  PROVE  AuditIsTrue'
<1> SUFFICES ASSUME NEW i \in DOMAIN audit
             PROVE  Says(audit[i].body)'
  BY DEF AuditIsTrue, Says
<1>1. audit[i] \in Events
  BY DEF TypeOK
<1>2. audit[i].body \in Bodies
  BY <1>1 DEF Events
<1>3. Says(audit[i].body)
  BY TruthIsSaid
<1>4. \A c \in Bodies : Says(c) => Says(c)'
  BY SaysKept
<1> QED BY <1>2, <1>3, <1>4

(* A replacement in hand stays in hand or is told. *)
LEMMA ReplacementsStay ==
  ASSUME TypeOK, ReplacementsKnown, Kept, UNCHANGED revoked, UNCHANGED crashes,
         handed \subseteq handed',
         \A q \in Procs : pc[q] \in {"inserted"} \cup Rotating =>
           \/ new[q] \in handed'
           \/ new'[q] = new[q] /\ pc'[q] \in {"inserted"} \cup Rotating
  PROVE  ReplacementsKnown'
<1> SUFFICES ASSUME crashes = 0, NEW k \in revoked
             PROVE  \E n \in rows' :
                      /\ from'[n] = k
                      /\ n \in handed' \/ \E p \in Procs :
                           new'[p] = n /\ pc'[p] \in {"inserted"} \cup Rotating
  BY DEF ReplacementsKnown, Rotating
<1>1. PICK n \in rows :
        /\ from[n] = k
        /\ n \in handed \/ \E p \in Procs : new[p] = n /\ pc[p] \in {"inserted"} \cup Rotating
  BY DEF ReplacementsKnown
<1>2. n \in rows' /\ from'[n] = k
  BY <1>1 DEF Kept
<1>3. CASE n \in handed
  BY <1>2, <1>3
<1>4. CASE \E p \in Procs : new[p] = n /\ pc[p] \in {"inserted"} \cup Rotating
  BY <1>2, <1>4
<1> QED BY <1>1, <1>3, <1>4

(* An event that is true is appended. *)
LEMMA AppendTruth ==
  ASSUME TypeOK, AuditVerifies, AuditIsTrue, Kept,
         NEW t \in Tenants, NEW action \in Actions, NEW about \in Subjects,
         AppendAudit(t, action, about),
         Says([tenant |-> t, action |-> action, about |-> about])'
  PROVE  AuditVerifies' /\ AuditIsTrue'
<1>1. /\ audit' \in Seq(Events) /\ AuditVerifies'
      /\ Len(audit') = Len(audit) + 1
      /\ \A i \in DOMAIN audit : audit'[i] = audit[i]
      /\ audit'[Len(audit) + 1].body = [tenant |-> t, action |-> action, about |-> about]
  BY AppendSound DEF TypeOK
<1>2. \A c \in Bodies : Says(c) => Says(c)'
  BY SaysKept
<1>3. ASSUME NEW i \in DOMAIN audit'
      PROVE  Says(audit[i].body)'
  <2>1. CASE i \in DOMAIN audit
    <3>1. audit[i] \in Events
      BY <2>1 DEF TypeOK
    <3>2. audit[i].body \in Bodies /\ audit'[i].body = audit[i].body
      BY <2>1, <3>1, <1>1 DEF Events
    <3>3. Says(audit[i].body)
      BY <2>1, TruthIsSaid
    <3> QED BY <1>2, <3>2, <3>3
  <2>2. CASE i = Len(audit) + 1
    BY <2>2, <1>1
  <2> QED BY <2>1, <2>2, <1>1 DEF TypeOK
<1>4. AuditIsTrue'
  BY <1>3 DEF AuditIsTrue, Says
<1> QED BY <1>1, <1>4

(* IssueKey starts a handler. *)
LEMMA IssueKeyStep ==
  ASSUME IInv, NEW p \in Procs, NEW t \in Tenants, IssueKey(p, t)
  PROVE  IInv'
<1> USE DEF IInv, IssueKey, Begin, keyTable, history
<1>1. TypeOK'
  BY LimitsAssumption DEF TypeOK
<1>2. Kept
  BY DEF TypeOK, Kept
<1>3. AuditVerifies' /\ AuditIsTrue'
  BY <1>2, TruthKept DEF AuditVerifies, Verifies
<1>4. KeyHandlersOK'
  BY DEF TypeOK, KeyHandlersOK, Rotating
<1>5. ReplacementsKnown'
  BY <1>2, ReplacementsStay DEF TypeOK, Rotating
<1>6. ExportHandlersOK' /\ ExportsAgree'
  BY DEF TypeOK, ExportHandlersOK, ExportsAgree, None
<1>7. UsageIsAdmitted'
  BY DEF TypeOK, UsageIsAdmitted
<1> QED BY <1>1, <1>2, <1>3, <1>4, <1>5, <1>6, <1>7

(* RotateRead starts a handler with a key of its tenant. *)
LEMMA RotateReadStep ==
  ASSUME IInv, NEW p \in Procs, NEW k \in Keys, RotateRead(p, k)
  PROVE  IInv'
<1> USE DEF IInv, RotateRead, Begin, keyTable, history
<1>1. TypeOK'
  BY LimitsAssumption DEF TypeOK
<1>2. Kept
  BY DEF TypeOK, Kept
<1>3. AuditVerifies' /\ AuditIsTrue'
  BY <1>2, TruthKept DEF AuditVerifies, Verifies
<1>4. KeyHandlersOK'
  BY DEF TypeOK, KeyHandlersOK, Rotating
<1>5. ReplacementsKnown'
  BY <1>2, ReplacementsStay DEF TypeOK, Rotating
<1>6. ExportHandlersOK' /\ ExportsAgree'
  BY DEF TypeOK, ExportHandlersOK, ExportsAgree, None
<1>7. UsageIsAdmitted'
  BY DEF TypeOK, UsageIsAdmitted
<1> QED BY <1>1, <1>2, <1>3, <1>4, <1>5, <1>6, <1>7

(* The new row changes no other. *)
LEMMA InsertKeyStep ==
  ASSUME IInv, NEW p \in Procs, NEW k \in Keys, InsertKey(p, k)
  PROVE  IInv'
<1> USE DEF IInv, InsertKey, history, limits
<1>1. TypeOK'
  BY DEF TypeOK
<1>2. Kept
  BY DEF TypeOK, Kept
<1>3. AuditVerifies' /\ AuditIsTrue'
  BY <1>2, TruthKept DEF AuditVerifies, Verifies
<1>4. KeyHandlersOK'
  BY DEF TypeOK, KeyHandlersOK, Rotating
<1>5. ReplacementsKnown'
  BY <1>2, ReplacementsStay DEF TypeOK, Rotating
<1>6. ExportHandlersOK' /\ ExportsAgree'
  BY DEF TypeOK, ExportHandlersOK, ExportsAgree, None
<1>7. UsageIsAdmitted'
  BY DEF TypeOK, UsageIsAdmitted
<1> QED BY <1>1, <1>2, <1>3, <1>4, <1>5, <1>6, <1>7

(* The event of a created key. *)
LEMMA RecordKeyStep ==
  ASSUME IInv, NEW p \in Procs, RecordKey(p)
  PROVE  IInv'
<1> USE DEF IInv, RecordKey, Return, keyTable, handler, limits
<1>1. TypeOK'
  <2>1. PICK t \in Tenants, about \in Subjects : t = customer[p] /\ about = new[p]
    BY DEF TypeOK, Subjects, KeyHandlersOK, Rotating, ExportHandlersOK, None
  <2>2. audit' \in Seq(Events)
    <3>1. AppendAudit(t, "api_key.created", about)
      BY <2>1
    <3> QED BY <3>1, AppendSound DEF TypeOK, Actions
  <2>3. new[p] \in rows
    BY DEF KeyHandlersOK, Rotating
  <2>4. CASE old[p] = NoKey
    BY <2>2, <2>3, <2>4 DEF TypeOK
  <2>5. CASE old[p] # NoKey
    BY <2>2, <2>5 DEF TypeOK
  <2> QED BY <2>4, <2>5
<1>2. Kept
  BY DEF TypeOK, Kept
<1>3. AuditVerifies' /\ AuditIsTrue'
  <2>1. PICK t \in Tenants, about \in Subjects : t = customer[p] /\ about = new[p]
    BY DEF TypeOK, Subjects, KeyHandlersOK, Rotating, ExportHandlersOK, None
  <2>2. AppendAudit(t, "api_key.created", about)
    BY <2>1
  <2>3. Says([tenant |-> t, action |-> "api_key.created", about |-> about])'
    BY <2>1 DEF TypeOK, Says, KeyHandlersOK, Rotating, ExportHandlersOK
  <2> QED BY <1>2, <2>2, <2>3, AppendTruth DEF Actions
<1>4. KeyHandlersOK'
  <2>1. CASE old[p] = NoKey
    BY <2>1 DEF TypeOK, KeyHandlersOK, Rotating
  <2>2. CASE old[p] # NoKey
    BY <2>2 DEF TypeOK, KeyHandlersOK, Rotating
  <2> QED BY <2>1, <2>2
<1>5. ReplacementsKnown'
  BY <1>2, ReplacementsStay DEF TypeOK, Rotating
<1>6. ExportHandlersOK' /\ ExportsAgree'
  BY DEF TypeOK, ExportHandlersOK, ExportsAgree, None
<1>7. UsageIsAdmitted'
  BY DEF TypeOK, UsageIsAdmitted
<1> QED BY <1>1, <1>2, <1>3, <1>4, <1>5, <1>6, <1>7

(* The old key is revoked while its replacement is in hand. *)
LEMMA RevokeOldStep ==
  ASSUME IInv, NEW p \in Procs, RevokeOld(p)
  PROVE  IInv'
<1> USE DEF IInv, RevokeOld, MayRevoke, handler, history, limits
<1>1. TypeOK'
  BY DEF TypeOK, KeyHandlersOK, Rotating
<1>2. Kept
  BY DEF TypeOK, Kept
<1>3. AuditVerifies' /\ AuditIsTrue'
  BY <1>2, TruthKept DEF AuditVerifies, Verifies
<1>4. KeyHandlersOK'
  BY DEF TypeOK, KeyHandlersOK, Rotating
<1>5. ReplacementsKnown'
  BY DEF TypeOK, ReplacementsKnown, KeyHandlersOK, Rotating
<1>6. ExportHandlersOK' /\ ExportsAgree'
  BY DEF TypeOK, ExportHandlersOK, ExportsAgree, None
<1>7. UsageIsAdmitted'
  BY DEF TypeOK, UsageIsAdmitted
<1> QED BY <1>1, <1>2, <1>3, <1>4, <1>5, <1>6, <1>7

(* The event of a rotation, and the answer. *)
LEMMA RecordRotationStep ==
  ASSUME IInv, NEW p \in Procs, RecordRotation(p)
  PROVE  IInv'
<1> USE DEF IInv, RecordRotation, Return, keyTable, limits
<1>1. TypeOK'
  <2>1. PICK t \in Tenants, about \in Subjects : t = customer[p] /\ about = old[p]
    BY DEF TypeOK, Subjects, KeyHandlersOK, Rotating, ExportHandlersOK, None
  <2>2. audit' \in Seq(Events)
    <3>1. AppendAudit(t, "api_key.rotated", about)
      BY <2>1
    <3> QED BY <3>1, AppendSound DEF TypeOK, Actions
  <2> QED BY <2>2 DEF TypeOK, KeyHandlersOK, Rotating, ExportHandlersOK, None
<1>2. Kept
  BY DEF TypeOK, Kept
<1>3. AuditVerifies' /\ AuditIsTrue'
  <2>1. PICK t \in Tenants, about \in Subjects : t = customer[p] /\ about = old[p]
    BY DEF TypeOK, Subjects, KeyHandlersOK, Rotating, ExportHandlersOK, None
  <2>2. AppendAudit(t, "api_key.rotated", about)
    BY <2>1
  <2>3. Says([tenant |-> t, action |-> "api_key.rotated", about |-> about])'
    BY <2>1 DEF TypeOK, Says, KeyHandlersOK, Rotating, ExportHandlersOK
  <2> QED BY <1>2, <2>2, <2>3, AppendTruth DEF Actions
<1>4. KeyHandlersOK'
  BY DEF TypeOK, KeyHandlersOK, Rotating
<1>5. ReplacementsKnown'
  BY <1>2, ReplacementsStay DEF TypeOK, Rotating
<1>6. ExportHandlersOK' /\ ExportsAgree'
  BY DEF TypeOK, ExportHandlersOK, ExportsAgree, None
<1>7. UsageIsAdmitted'
  BY DEF TypeOK, UsageIsAdmitted
<1> QED BY <1>1, <1>2, <1>3, <1>4, <1>5, <1>6, <1>7

(* A request is counted and let through, or neither. *)
LEMMA ConsumeQuotaStep ==
  ASSUME IInv, NEW t \in Tenants, ConsumeQuota(t)
  PROVE  IInv'
<1> USE DEF IInv, ConsumeQuota, Counted, keyTable, handler, history, limits
<1>1. TypeOK'
  BY DEF TypeOK
<1>2. Kept
  BY DEF TypeOK, Kept
<1>3. AuditVerifies' /\ AuditIsTrue'
  BY <1>2, TruthKept DEF AuditVerifies, Verifies
<1>4. KeyHandlersOK'
  BY DEF TypeOK, KeyHandlersOK, Rotating
<1>5. ReplacementsKnown'
  BY <1>2, ReplacementsStay DEF TypeOK, Rotating
<1>6. ExportHandlersOK' /\ ExportsAgree'
  <2>1. \A u \in Tenants : usage[u] \in 0 .. Quota /\ usage'[u] \in {usage[u], usage[u] + 1}
    BY DEF TypeOK
  <2>2. UNCHANGED <<pc, reading, customer, statement, answers>>
    OBVIOUS
  <2>3. \A q \in Procs : reading[q] \in 0 .. usage[customer[q]] => reading[q] \in 0 .. usage'[customer[q]]
    <3> SUFFICES ASSUME NEW q \in Procs, reading[q] \in 0 .. usage[customer[q]]
                 PROVE  reading[q] \in 0 .. usage'[customer[q]]
      OBVIOUS
    <3>1. customer[q] \in Tenants
      BY DEF TypeOK
    <3> QED BY <2>1, <3>1, QuotaAssumption
  <2> QED BY <2>2, <2>3 DEF ExportHandlersOK, ExportsAgree
<1>7. UsageIsAdmitted'
  <2> SUFFICES ASSUME NEW u \in Tenants
                PROVE  usage'[u] = admitted'[u] /\ usage'[u] <= Quota /\ statement'[u] <= usage'[u]
    BY DEF UsageIsAdmitted
  <2>1. usage[u] \in 0 .. Quota /\ admitted[u] \in Nat /\ statement[u] \in {-1} \cup (0 .. Quota)
    BY DEF TypeOK, None
  <2>2. usage[u] = admitted[u] /\ usage[u] <= Quota /\ statement[u] <= usage[u]
    BY DEF UsageIsAdmitted
  <2>3. usage'[u] \in {usage[u], usage[u] + 1} /\ usage'[u] = admitted'[u]
    <3>1. CASE /\ usage' = [usage EXCEPT ![t] = @ + 1]
               /\ admitted' = [admitted EXCEPT ![t] = @ + 1]
      <4>1. CASE u = t
        BY <2>2, <3>1, <4>1 DEF TypeOK
      <4>2. CASE u # t
        BY <2>2, <3>1, <4>2 DEF TypeOK
      <4> QED BY <4>1, <4>2
    <3>2. CASE usage' = [usage EXCEPT ![t] = usage[t]] /\ UNCHANGED admitted
      <4>1. usage' = usage
        BY <3>2 DEF TypeOK
      <4> QED BY <2>2, <3>2, <4>1
    <3> QED BY <3>1, <3>2
  <2>4. usage'[u] \in 0 .. Quota
    BY <1>1 DEF TypeOK
  <2> QED BY <2>1, <2>2, <2>3, <2>4, QuotaAssumption
<1> QED BY <1>1, <1>2, <1>3, <1>4, <1>5, <1>6, <1>7

(* ReadUsage starts a handler. *)
LEMMA ReadUsageStep ==
  ASSUME IInv, NEW p \in Procs, NEW t \in Tenants, ReadUsage(p, t)
  PROVE  IInv'
<1> USE DEF IInv, ReadUsage, Begin, keyTable, history
<1>1. TypeOK'
  BY LimitsAssumption DEF TypeOK
<1>2. Kept
  BY DEF TypeOK, Kept
<1>3. AuditVerifies' /\ AuditIsTrue'
  BY <1>2, TruthKept DEF AuditVerifies, Verifies
<1>4. KeyHandlersOK'
  BY DEF TypeOK, KeyHandlersOK, Rotating
<1>5. ReplacementsKnown'
  BY <1>2, ReplacementsStay DEF TypeOK, Rotating
<1>6. ExportHandlersOK' /\ ExportsAgree'
  BY DEF TypeOK, ExportHandlersOK, ExportsAgree, None
<1>7. UsageIsAdmitted'
  BY DEF TypeOK, UsageIsAdmitted
<1> QED BY <1>1, <1>2, <1>3, <1>4, <1>5, <1>6, <1>7

(* Only the first statement of a day is stored. *)
LEMMA StoreStatementStep ==
  ASSUME IInv, NEW p \in Procs, StoreStatement(p)
  PROVE  IInv'
<1> USE DEF IInv, StoreStatement, Stored, keyTable, handler, history, limits
<1>1. TypeOK'
  BY DEF TypeOK
<1>2. Kept
  BY DEF TypeOK, Kept
<1>3. AuditVerifies' /\ AuditIsTrue'
  BY <1>2, TruthKept DEF AuditVerifies, Verifies
<1>4. KeyHandlersOK'
  BY DEF TypeOK, KeyHandlersOK, Rotating
<1>5. ReplacementsKnown'
  BY <1>2, ReplacementsStay DEF TypeOK, Rotating
<1>6. ExportHandlersOK' /\ ExportsAgree'
  BY DEF TypeOK, ExportHandlersOK, ExportsAgree, None
<1>7. UsageIsAdmitted'
  BY QuotaAssumption DEF TypeOK, UsageIsAdmitted, ExportHandlersOK, None
<1> QED BY <1>1, <1>2, <1>3, <1>4, <1>5, <1>6, <1>7

(* What is stored is read. *)
LEMMA SelectStatementStep ==
  ASSUME IInv, NEW p \in Procs, SelectStatement(p)
  PROVE  IInv'
<1> USE DEF IInv, SelectStatement, keyTable, history, limits
<1>1. TypeOK'
  BY DEF TypeOK
<1>2. Kept
  BY DEF TypeOK, Kept
<1>3. AuditVerifies' /\ AuditIsTrue'
  BY <1>2, TruthKept DEF AuditVerifies, Verifies
<1>4. KeyHandlersOK'
  BY DEF TypeOK, KeyHandlersOK, Rotating
<1>5. ReplacementsKnown'
  BY <1>2, ReplacementsStay DEF TypeOK, Rotating
<1>6. ExportHandlersOK' /\ ExportsAgree'
  BY DEF TypeOK, ExportHandlersOK, ExportsAgree, None
<1>7. UsageIsAdmitted'
  BY DEF TypeOK, UsageIsAdmitted
<1> QED BY <1>1, <1>2, <1>3, <1>4, <1>5, <1>6, <1>7

(* The event of an export, and the answer. *)
LEMMA RecordExportStep ==
  ASSUME IInv, NEW p \in Procs, RecordExport(p)
  PROVE  IInv'
<1> USE DEF IInv, RecordExport, Return, keyTable, limits
<1>1. TypeOK'
  <2>1. PICK t \in Tenants, about \in Subjects : t = customer[p] /\ about = reading[p]
    BY DEF TypeOK, Subjects, KeyHandlersOK, Rotating, ExportHandlersOK, None
  <2>2. audit' \in Seq(Events)
    <3>1. AppendAudit(t, "billing.usage.exported", about)
      BY <2>1
    <3> QED BY <3>1, AppendSound DEF TypeOK, Actions
  <2> QED BY <2>2 DEF TypeOK, KeyHandlersOK, Rotating, ExportHandlersOK, None
<1>2. Kept
  BY DEF TypeOK, Kept
<1>3. AuditVerifies' /\ AuditIsTrue'
  <2>1. PICK t \in Tenants, about \in Subjects : t = customer[p] /\ about = reading[p]
    BY DEF TypeOK, Subjects, KeyHandlersOK, Rotating, ExportHandlersOK, None
  <2>2. AppendAudit(t, "billing.usage.exported", about)
    BY <2>1
  <2>3. Says([tenant |-> t, action |-> "billing.usage.exported", about |-> about])'
    BY <2>1 DEF TypeOK, Says, KeyHandlersOK, Rotating, ExportHandlersOK
  <2> QED BY <1>2, <2>2, <2>3, AppendTruth DEF Actions
<1>4. KeyHandlersOK'
  BY DEF TypeOK, KeyHandlersOK, Rotating
<1>5. ReplacementsKnown'
  BY <1>2, ReplacementsStay DEF TypeOK, Rotating
<1>6. ExportHandlersOK' /\ ExportsAgree'
  BY DEF TypeOK, ExportHandlersOK, ExportsAgree, None
<1>7. UsageIsAdmitted'
  BY DEF TypeOK, UsageIsAdmitted
<1> QED BY <1>1, <1>2, <1>3, <1>4, <1>5, <1>6, <1>7

(* A handler is cut off. *)
LEMMA CrashStep ==
  ASSUME IInv, NEW p \in Procs, Crash(p)
  PROVE  IInv'
<1> USE DEF IInv, Crash, Return, keyTable, history
<1>1. TypeOK'
  BY LimitsAssumption DEF TypeOK
<1>2. Kept
  BY DEF TypeOK, Kept
<1>3. AuditVerifies' /\ AuditIsTrue'
  BY <1>2, TruthKept DEF AuditVerifies, Verifies
<1>4. KeyHandlersOK'
  BY DEF TypeOK, KeyHandlersOK, Rotating
<1>5. ReplacementsKnown'
  BY LimitsAssumption DEF TypeOK, ReplacementsKnown
<1>6. ExportHandlersOK' /\ ExportsAgree'
  BY DEF TypeOK, ExportHandlersOK, ExportsAgree, None
<1>7. UsageIsAdmitted'
  BY DEF TypeOK, UsageIsAdmitted
<1> QED BY <1>1, <1>2, <1>3, <1>4, <1>5, <1>6, <1>7

(* Nothing changes. *)
LEMMA StutterStep ==
  ASSUME IInv, UNCHANGED vars
  PROVE  IInv'
<1> USE DEF IInv, vars, keyTable, handler, history, limits
<1>1. TypeOK'
  BY DEF TypeOK
<1>2. Kept
  BY DEF TypeOK, Kept
<1>3. AuditVerifies' /\ AuditIsTrue'
  BY <1>2, TruthKept DEF AuditVerifies, Verifies
<1>4. KeyHandlersOK'
  BY DEF TypeOK, KeyHandlersOK, Rotating
<1>5. ReplacementsKnown'
  BY <1>2, ReplacementsStay DEF TypeOK, Rotating
<1>6. ExportHandlersOK' /\ ExportsAgree'
  BY DEF TypeOK, ExportHandlersOK, ExportsAgree, None
<1>7. UsageIsAdmitted'
  BY DEF TypeOK, UsageIsAdmitted
<1> QED BY <1>1, <1>2, <1>3, <1>4, <1>5, <1>6, <1>7

LEMMA InitIInv == Init => IInv
<1> SUFFICES ASSUME Init
             PROVE  IInv
  OBVIOUS
<1> USE DEF Init
<1>1. TypeOK
  BY TenantsAssumption, QuotaAssumption, LimitsAssumption DEF TypeOK, None
<1>2. AuditVerifies /\ AuditIsTrue
  BY DEF AuditVerifies, Verifies, AuditIsTrue
<1>3. KeyHandlersOK /\ ReplacementsKnown
  BY DEF KeyHandlersOK, ReplacementsKnown, Rotating
<1>4. ExportHandlersOK /\ ExportsAgree
  BY DEF ExportHandlersOK, ExportsAgree
<1>5. UsageIsAdmitted
  BY QuotaAssumption DEF UsageIsAdmitted, None
<1> QED BY <1>1, <1>2, <1>3, <1>4, <1>5 DEF IInv

LEMMA NextIInv == IInv /\ [Next]_vars => IInv'
<1> SUFFICES ASSUME IInv, [Next]_vars
             PROVE  IInv'
  OBVIOUS
<1>1. ASSUME NEW p \in Procs, NEW t \in Tenants, IssueKey(p, t) \/ ReadUsage(p, t)
      PROVE  IInv'
  BY <1>1, IssueKeyStep, ReadUsageStep
<1>2. ASSUME NEW p \in Procs, NEW k \in Keys, RotateRead(p, k) \/ InsertKey(p, k)
      PROVE  IInv'
  BY <1>2, RotateReadStep, InsertKeyStep
<1>3. ASSUME NEW p \in Procs, RecordKey(p) \/ RevokeOld(p) \/ RecordRotation(p)
      PROVE  IInv'
  BY <1>3, RecordKeyStep, RevokeOldStep, RecordRotationStep
<1>4. ASSUME NEW p \in Procs, StoreStatement(p) \/ SelectStatement(p) \/ RecordExport(p)
      PROVE  IInv'
  BY <1>4, StoreStatementStep, SelectStatementStep, RecordExportStep
<1>5. ASSUME NEW p \in Procs, Crash(p)
      PROVE  IInv'
  BY <1>5, CrashStep
<1>6. ASSUME NEW t \in Tenants, ConsumeQuota(t)
      PROVE  IInv'
  BY <1>6, ConsumeQuotaStep
<1>7. ASSUME UNCHANGED vars
      PROVE  IInv'
  BY <1>7, StutterStep
<1> QED BY <1>1, <1>2, <1>3, <1>4, <1>5, <1>6, <1>7 DEF Next

(* IInv is an inductive invariant of Accounts. *)
THEOREM Invariance == Spec => []IInv
BY InitIInv, NextIInv, PTL DEF Spec

(* The columns and the locals of the handlers have their types. *)
THEOREM TypeCorrect == Spec => []TypeOK
<1>1. IInv => TypeOK
  BY DEF IInv
<1> QED BY <1>1, Invariance, PTL

(* Whichever processes append, and whichever handlers are cut off, the hash   *)
(* chain verifies (append_audit, verify_database).                            *)
THEOREM AuditCorrect == Spec => []AuditVerifies
<1>1. IInv => AuditVerifies
  BY DEF IInv
<1> QED BY <1>1, Invariance, PTL

(* What the log says of keys and exports is so: handlers record what they     *)
(* have done, and nothing undoes it.                                          *)
THEOREM AuditTruthful == Spec => []AuditIsTrue
<1>1. IInv => AuditIsTrue
  BY DEF IInv
<1> QED BY <1>1, Invariance, PTL

(* A rotation that no crash cuts off locks nobody out.                        *)
THEOREM RotationCorrect == Spec => []RotationKeepsAccess
<1>1. IInv => RotationKeepsAccess
  BY DEF IInv, ReplacementsKnown, RotationKeepsAccess
<1> QED BY <1>1, Invariance, PTL

(* All exports of a day give one statement (billing_usage).                   *)
THEOREM UsageCorrect == Spec => []ExportsAgree
<1>1. IInv => ExportsAgree
  BY DEF IInv
<1> QED BY <1>1, Invariance, PTL

(* What is counted and billed is what consume_quota let through, never more    *)
(* than the quota.                                                             *)
THEOREM UsageAdmitted == Spec => []UsageIsAdmitted
<1>1. IInv => UsageIsAdmitted
  BY DEF IInv
<1> QED BY <1>1, Invariance, PTL

=============================================================================
