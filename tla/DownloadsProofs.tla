--------------------------- MODULE DownloadsProofs ---------------------------
(***************************************************************************)
(* Signed URLs open what they should and nothing else, for all keys, names, *)
(* jobs, tenants and configurations of signing keys.                        *)
(***************************************************************************)
EXTENDS Service, SequenceTheorems, TLAPS

(* Where the parts of a token are.                                              *)
LEMMA TokenParts ==
  ASSUME NEW P, NEW to \in Seq(P), NEW key, NEW expires, NEW sig
  PROVE  LET token == <<key, expires>> \o to \o <<sig>> IN
         /\ Len(token) = Len(to) + 3
         /\ token[1] = key /\ token[2] = expires
         /\ \A i \in 1 .. Len(to) : token[i + 2] = to[i]
         /\ token[Len(to) + 3] = sig
         /\ token \in Seq(P \cup {key, expires, sig})
<1> DEFINE S == P \cup {key, expires, sig}
<1>1. <<key, expires>> \in Seq(S) /\ to \in Seq(S) /\ <<sig>> \in Seq(S)
  OBVIOUS
<1> DEFINE front == <<key, expires>> \o to
<1>2. front \in Seq(S) /\ Len(front) = Len(to) + 2
  BY <1>1
<1>3. front[1] = key /\ front[2] = expires /\ \A i \in 1 .. Len(to) : front[i + 2] = to[i]
  BY <1>1
<1> HIDE DEF front
<1>4. front \o <<sig>> \in Seq(S) /\ Len(front \o <<sig>>) = Len(to) + 3
  BY <1>1, <1>2
<1>5. \A i \in 1 .. Len(front) : (front \o <<sig>>)[i] = front[i]
  BY <1>1, <1>2
<1>6. (front \o <<sig>>)[Len(front) + 1] = sig
  BY <1>1, <1>2
<1>7. Len(to) \in Nat
  OBVIOUS
<1> QED
  BY <1>2, <1>3, <1>4, <1>5, <1>6, <1>7 DEF front

(* Where the job and a name without dots are in what is signed.                 *)
LEMMA SignedParts ==
  ASSUME NEW key, NEW j, NEW tenant, NEW user, NEW expires
  PROVE  LET over == <<key, j, tenant>> \o <<user>> \o <<expires>> IN
         over[2] = j /\ over[4] = user
<1> DEFINE S == {key, j, tenant, user, expires}
<1>1. <<key, j, tenant>> \in Seq(S) /\ <<user>> \in Seq(S) /\ <<expires>> \in Seq(S)
  OBVIOUS
<1> DEFINE front == <<key, j, tenant>> \o <<user>>
<1>2. front \in Seq(S) /\ Len(front) = 4
  BY <1>1
<1>3. front[2] = j /\ front[4] = user
  BY <1>1
<1> HIDE DEF front
<1> DEFINE end == <<expires>>
<1>4. end \in Seq(S) /\ Len(end) = 1
  BY <1>1
<1> HIDE DEF end, S
<1> DEFINE over == front \o end
<1>5. \A i \in 1 .. Len(front) + Len(end) :
        over[i] = IF i <= Len(front) THEN front[i] ELSE end[i - Len(front)]
  BY <1>2, <1>4, ConcatProperties
<1> HIDE DEF over
<1>6. over[2] = front[2] /\ over[4] = front[4]
  BY <1>2, <1>4, <1>5
<1> QED
  BY <1>3, <1>6 DEF front, end, over

(* Signatures of names without dots agree only for one job and one name.        *)
LEMMA SignatureInjective ==
  ASSUME NEW k1, NEW j1, NEW t1, NEW u1, NEW e1, NEW k2, NEW j2, NEW t2, NEW u2, NEW e2,
         Signature(k1, j1, t1, <<u1>>, e1) = Signature(k2, j2, t2, <<u2>>, e2)
  PROVE  j1 = j2 /\ u1 = u2
<1> DEFINE a == <<k1, j1, t1>> \o <<u1>> \o <<e1>>
           b == <<k2, j2, t2>> \o <<u2>> \o <<e2>>
<1>1. a = b
  BY DEF Signature
<1>2. a[2] = j1 /\ a[4] = u1
  BY SignedParts
<1>3. b[2] = j2 /\ b[4] = u2
  BY SignedParts
<1> HIDE DEF a, b
<1> QED
  BY <1>1, <1>2, <1>3

-----------------------------------------------------------------------------
(* verify_download of a URL that was given out: it names the user it was made   *)
(* out to, for its own job only and as long as it is fresh, and then if the     *)
(* name has no dot.                                                             *)
LEMMA Verified ==
  ASSUME NEW url, NEW j \in Jobs, DownloadsTypeOK, UrlOK(url)
  PROVE  LET user == VerifyDownload(url.token, j, JobOwner[j].tenant) IN
         /\ user # <<>> => /\ url.job = j /\ url.to = user
                           /\ Fresh(url) /\ url.token[2] - clock <= Ttl
         /\ url.job = j /\ Fresh(url) /\ Len(url.to) = 1 => user = url.to
<1> DEFINE tenant == JobOwner[j].tenant
           token  == url.token
           to     == url.to
           user   == VerifyDownload(token, j, tenant)
           tail   == SubSeq(token, 4, Len(token))
<1>1. PICK key \in UNION {Rings[r].keys : r \in DOMAIN Rings}, expires \in Expiries :
        token = <<key, expires>> \o to \o <<Signature(key, url.job, JobOwner[url.job].tenant, to, expires)>>
  BY DEF UrlOK
<1> DEFINE sig == Signature(key, url.job, JobOwner[url.job].tenant, to, expires)
           S   == NameParts \cup {key, expires, sig}
<1>2. to \in Seq(NameParts) /\ to # <<>> /\ url.job \in Jobs
  BY DEF UrlOK, UserNames
<1>2a. token = <<key, expires>> \o to \o <<sig>>
  BY <1>1
<1> HIDE DEF sig, token, to
<1>3. /\ Len(token) = Len(to) + 3
      /\ token[1] = key /\ token[2] = expires
      /\ \A i \in 1 .. Len(to) : token[i + 2] = to[i]
      /\ token[Len(to) + 3] = sig
      /\ token \in Seq(S)
  BY <1>2a, <1>2, TokenParts
<1>4. clock \in Nat /\ expires \in Nat /\ expires <= clock + Ttl /\ expires <= clock + MaxTtl
  BY TtlAssumption DEF DownloadsTypeOK, Expiries, Least
<1>5. Len(to) \in Nat /\ Len(to) >= 1
  BY <1>2
<1> HIDE DEF S
<1>6. tail \in Seq(S) /\ Len(tail) = Len(to) /\ \A i \in 1 .. Len(to) : tail[i] = token[4 + i - 1]
  <2>1. Len(token) \in Int /\ \A i \in 4 .. Len(token) : token[i] \in S
    BY <1>3, <1>5
  <2> QED
    BY <1>3, <1>5, <2>1, SubSeqProperties
<1>7. Len(to) = 1 => to = <<to[1]>> /\ token[3] = to[1] /\ token[4] = sig /\ tail = <<sig>>
  <2> SUFFICES ASSUME Len(to) = 1
               PROVE  to = <<to[1]>> /\ token[3] = to[1] /\ token[4] = sig /\ tail = <<sig>>
    OBVIOUS
  <2>1. token[3] = to[1] /\ token[4] = sig
    BY <1>3
  <2>2. to = <<to[1]>>
    BY <1>2
  <2>3. tail[1] = sig
    BY <1>6, <2>1
  <2> HIDE DEF tail
  <2>4. tail = <<tail[1]>>
    BY <1>6
  <2> QED
    BY <2>1, <2>2, <2>3, <2>4
<1> HIDE DEF tail
<1>8. ASSUME user # <<>>
      PROVE  url.job = j /\ to = user /\ Fresh(url) /\ token[2] - clock <= Ttl
  <2>1. /\ clock <= token[2] /\ token[1] \in Rings[ring].keys
        /\ tail = <<Signature(token[1], j, tenant, <<token[3]>>, token[2])>>
        /\ user = <<token[3]>>
    BY <1>8 DEF VerifyDownload, Accepted, tail
  <2>2. Len(to) = 1
    BY <1>6, <2>1
  <2>3. Signature(key, url.job, JobOwner[url.job].tenant, <<to[1]>>, expires)
          = Signature(token[1], j, tenant, <<to[1]>>, token[2])
    BY <1>7, <2>1, <2>2 DEF sig
  <2>4. url.job = j
    BY <2>3, SignatureInjective
  <2>5. to = user
    BY <1>7, <2>1, <2>2
  <2>6. Fresh(url)
    BY <2>1 DEF Fresh, token
  <2>7. token[2] - clock <= Ttl
    BY <1>3, <1>4, TtlAssumption
  <2> QED
    BY <2>4, <2>5, <2>6, <2>7
<1>9. ASSUME url.job = j, Fresh(url), Len(to) = 1
      PROVE  user = to
  <2>1. clock <= token[2] /\ token[2] <= clock + MaxTtl /\ token[1] \in Accepted /\ Len(token) >= 4
    BY <1>3, <1>4, <1>9 DEF Fresh, Accepted, token
  <2>2. tail = <<Signature(token[1], j, tenant, <<token[3]>>, token[2])>>
    BY <1>3, <1>7, <1>9 DEF sig
  <2> QED
    BY <1>7, <1>9, <2>1, <2>2 DEF VerifyDownload, tail
<1> QED
  BY <1>8, <1>9 DEF token, to

(* What the type invariant says of URLs is enough for the answers.              *)
LEMMA AnswersRight == DownloadsTypeOK => DownloadsRight
<1> SUFFICES ASSUME DownloadsTypeOK, NEW url \in urls, NEW j \in Jobs
             PROVE  LET answer == Answer(j, NoKey, url.token)
                        own    == url.job = j /\ url.to = JobOwner[j].user
                    IN  /\ own /\ Fresh(url) /\ Len(url.to) = 1 =>
                             answer = (IF status[j] # "complete" THEN 409
                                       ELSE IF j \in stored THEN 200 ELSE 410)
                        /\ answer # 404 => own /\ Fresh(url) /\ url.token[2] - clock <= Ttl
  BY DEF DownloadsRight
<1>1. ~ MaySee(NoKey, j)
  BY KeysAssumption DEF MaySee, Authenticates
<1>2. JobOwner[j].user # <<>>
  BY NamesAssumption DEF UserNames
<1>3. UrlOK(url)
  BY DEF DownloadsTypeOK
<1> DEFINE user == VerifyDownload(url.token, j, JobOwner[j].tenant)
<1>4. /\ user # <<>> => /\ url.job = j /\ url.to = user
                        /\ Fresh(url) /\ url.token[2] - clock <= Ttl
      /\ url.job = j /\ Fresh(url) /\ Len(url.to) = 1 => user = url.to
  BY <1>3, Verified
<1>5. url.token # <<>>
  <2>1. PICK key, expires :
          url.token = <<key, expires>> \o url.to
                        \o <<Signature(key, url.job, JobOwner[url.job].tenant, url.to, expires)>>
    BY <1>3 DEF UrlOK
  <2>2. url.to \in Seq(NameParts)
    BY <1>3 DEF UrlOK, UserNames
  <2> HIDE <1>4
  <2>3. Len(url.token) = Len(url.to) + 3
    BY <2>1, <2>2, TokenParts
  <2>4. Len(url.to) \in Nat
    BY <2>2
  <2> QED
    BY <2>3, <2>4
<1>6. Authorized(j, NoKey, url.token) <=> user = JobOwner[j].user
  BY <1>1, <1>5 DEF Authorized
<1> HIDE DEF user
<1> QED
  BY <1>2, <1>4, <1>6 DEF Answer

-----------------------------------------------------------------------------
(* A URL that job_status gives out is one of the invariant.                     *)
LEMMA SignedOK ==
  ASSUME DownloadsTypeOK, NEW j \in Jobs, NEW key \in Credentials, MaySee(key, j)
  PROVE  UrlOK([job |-> j, to |-> Identity[key].user, token |-> SignDownload(j, Identity[key])])
<1> DEFINE active  == Rings[ring].active
           expires == clock + Least(Ttl, MaxTtl)
<1>1. active \in UNION {Rings[r].keys : r \in DOMAIN Rings}
  BY RingsAssumption DEF DownloadsTypeOK
<1>2. expires \in Expiries
  BY TtlAssumption DEF DownloadsTypeOK, Expiries, Least
<1>3. Identity[key].user \in UserNames
  BY NamesAssumption
<1>4. Identity[key].tenant = JobOwner[j].tenant
  BY DEF MaySee
<1> QED
  BY <1>1, <1>2, <1>3, <1>4 DEF UrlOK, SignDownload

(* No URL of the invariant is lost when time passes.                            *)
LEMMA UrlsStayOK ==
  ASSUME DownloadsTypeOK, NEW url \in urls, clock' \in Nat, clock <= clock'
  PROVE  UrlOK(url)'
<1>1. UrlOK(url)
  BY DEF DownloadsTypeOK
<1>2. Expiries \subseteq Expiries'
  <2>1. Least(Ttl, MaxTtl) \in Nat /\ clock \in Nat
    BY TtlAssumption DEF Least, DownloadsTypeOK
  <2> QED
    BY <2>1 DEF Expiries
<1> QED
  BY <1>1, <1>2 DEF UrlOK

(* The tables, the clock and the URLs given out keep their types.               *)
LEMMA DownloadsTypeStep ==
  ASSUME DownloadsTypeOK, [Next]_vars
  PROVE  DownloadsTypeOK'
<1> USE DEF DownloadsTypeOK
<1>1. CASE DownloadsNext
  <2>1. CASE \E j \in Jobs : CompleteJob(j) \/ UnlinkResult(j) \/ ExpireJob(j)
    <3>1. clock' = clock /\ urls' = urls /\ revoked' = revoked /\ ring' = ring
      BY <2>1 DEF CompleteJob, UnlinkResult, ExpireJob
    <3>2. \A url \in urls' : UrlOK(url)'
      BY <3>1, UrlsStayOK
    <3>3. status' \in [Jobs -> {"processing", "complete", "expired"}] /\ stored' \subseteq Jobs
      BY <2>1 DEF CompleteJob, UnlinkResult, ExpireJob
    <3> QED
      BY <3>1, <3>2, <3>3
  <2>2. ASSUME NEW j \in Jobs, NEW key \in Credentials, JobStatus(j, key)
        PROVE  DownloadsTypeOK'
    <3> DEFINE new == [job |-> j, to |-> Identity[key].user, token |-> SignDownload(j, Identity[key])]
    <3>1. UrlOK(new)
      BY <2>2, SignedOK DEF JobStatus
    <3>2. clock' = clock /\ urls' = urls \cup {new}
      BY <2>2 DEF JobStatus
    <3> HIDE DEF new
    <3>3. ASSUME NEW url \in urls' PROVE UrlOK(url)'
      <4>1. CASE url \in urls
        BY <3>2, <4>1, UrlsStayOK
      <4>2. CASE url = new
        <5>1. UrlOK(url)
          BY <3>1, <4>2
        <5> QED
          BY <3>2, <5>1 DEF UrlOK, Expiries
      <4> QED
        BY <3>2, <4>1, <4>2
    <3>4. \A url \in urls' : UrlOK(url)'
      BY <3>3
    <3> QED
      BY <2>2, <3>4 DEF JobStatus
  <2>3. CASE \E key \in ApiKeys : RevokeKey(key)
    <3>1. \A url \in urls' : UrlOK(url)'
      BY <2>3, UrlsStayOK DEF RevokeKey
    <3> QED
      BY <2>3, <3>1 DEF RevokeKey
  <2>4. CASE RotateRing
    <3>1. \A url \in urls' : UrlOK(url)'
      BY <2>4, UrlsStayOK DEF RotateRing
    <3> QED
      BY <2>4, <3>1, RingsAssumption DEF RotateRing
  <2>5. CASE TimePasses
    <3>1. \A url \in urls' : UrlOK(url)'
      BY <2>5, UrlsStayOK, TtlAssumption DEF TimePasses
    <3> QED
      BY <2>5, <3>1, TtlAssumption DEF TimePasses
  <2> QED
    BY <1>1, <2>1, <2>2, <2>3, <2>4, <2>5 DEF DownloadsNext
<1>2. CASE UNCHANGED downloadVars
  <2>1. \A url \in urls' : UrlOK(url)'
    BY <1>2, UrlsStayOK DEF downloadVars
  <2> QED
    BY <1>2, <2>1 DEF downloadVars
<1> QED
  BY <1>1, <1>2 DEF Next, vars, DownloadsStep, ProgressStep, AiStep

(* Every URL ever given out is signed for its job, its job's tenant and who     *)
(* asked for it (DownloadsTypeOK), so job_download answers it as DownloadsRight  *)
(* says, whatever is revoked, rotated, purged or over in between.               *)
THEOREM DownloadsCorrect == Spec => [](DownloadsTypeOK /\ DownloadsRight)
<1>1. Init => DownloadsTypeOK
  BY RingsAssumption, TtlAssumption DEF Init, DownloadsInit, DownloadsTypeOK
<1>2. DownloadsTypeOK /\ [Next]_vars => DownloadsTypeOK'
  BY DownloadsTypeStep
<1> QED
  BY <1>1, <1>2, AnswersRight, PTL DEF Spec
=============================================================================
