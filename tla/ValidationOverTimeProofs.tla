------------------------ MODULE ValidationOverTimeProofs ------------------------
(***************************************************************************)
(* The verdicts of ValidationOverTime for every timeline and every         *)
(* configuration.  A report outlives the state it was made in, so the      *)
(* properties rest on what reports say of that state: Recorded.            *)
(***************************************************************************)
EXTENDS ValidationOverTime, TLAPS

\* What a report records: the CMS is valid or it is not; an offline report has
\* no revocation result; an answer that reports the revocation, and one that a
\* strict lookup did not get, are never turned into trust; a verified timestamp of a certificate that is not revoked leads to
\* full trust; and that timestamp is the one the report speaks of.
Recorded ==
  report.done =>
    /\ report.result.crypto \in {"valid", "invalid"}
    /\ ~report.online => report.result.revocation = "none"
    /\ (report.online /\ report.answered /\ report.result.revokedAt # NoTime)
         => ~report.result.trusted
    /\ (report.online /\ ~report.answered /\ StrictLookup) => ~report.result.trusted
    /\ (/\ report.online /\ report.answered /\ report.used # NoTime
        /\ report.result.revokedAt = NoTime)
         => /\ report.result.trusted /\ report.result.revocation = "valid"
            /\ report.result.certificate = "valid"
    /\ report.used # NoTime =>
         report.result.timestamp = report.used /\ InValidity(report.used)

\* Keys are used while their certificate is valid.
SignedInValidity == signature # NoSignature => InValidity(signature.made)

IInv == TypeOK /\ SignedInValidity /\ (~report.done => report = NoReport) /\ Recorded

-----------------------------------------------------------------------------
\* The time a path is validated at is a time, and that of the signature if its
\* timestamp was verified.
LEMMA PathTimes ==
  ASSUME TypeOK, NEW online \in BOOLEAN
  PROVE  /\ ValidationTimeUsed \in Nat \cup {NoTime}
         /\ PathTime(online) \in Nat \cup {NoTime}
         /\ ReferenceTime \in Nat \cup {NoTime}
         /\ TimestampTime \in Nat \cup {NoTime}
         /\ (online /\ ValidationTimeUsed # NoTime) => PathTime(online) = signature.made
         /\ ValidationTimeUsed # NoTime =>
              /\ ValidationTimeUsed = signature.made /\ TimestampTime = signature.made
              /\ signature # NoSignature
  BY DEF TypeOK, ValidationTimeUsed, PathTime, ReferenceTime, TimestampTime, TokenVerified,
         NoTime, NoSignature, Signature

\* The status of a path is one of three.
LEMMA OverallStatuses ==
  ASSUME NEW answered \in BOOLEAN
  PROVE  /\ OverallStatus(answered) \in {"valid", "revoked", "invalid"}
         /\ (answered /\ revokedAt # NoTime) => OverallStatus(answered) # "valid"
         /\ (~answered /\ StrictLookup) => OverallStatus(answered) = "invalid"
         /\ (answered /\ revokedAt = NoTime /\ InValidity(PathTime(TRUE)))
              => OverallStatus(answered) = "valid"
  <1>1. CASE ~InValidity(PathTime(TRUE))
    BY <1>1 DEF OverallStatus
  <1>2. CASE InValidity(PathTime(TRUE)) /\ answered
    BY <1>2 DEF OverallStatus
  <1>3. CASE InValidity(PathTime(TRUE)) /\ ~answered
    BY <1>3, TimelineAssumption DEF OverallStatus
  <1> QED BY <1>1, <1>2, <1>3

\* A certificate is valid, or it is said what is wrong with it.
LEMMA CertificateValidities ==
  ASSUME TypeOK, NEW online \in BOOLEAN, NEW answered \in BOOLEAN
  PROVE  /\ CertificateValidity(online, answered)
              \in {"valid", "expired", "notYetValid", "revoked", "untrusted",
                  "incomplete", "error"}
         /\ (online /\ OverallStatus(answered) = "valid")
              => CertificateValidity(online, answered) = "valid"
  <1>1. CASE online
    BY <1>1, OverallStatuses DEF CertificateValidity
  <1>2. CASE ~online
    <2>1. now < ValidFrom \/ now > ValidUntil \/ InValidity(now)
      BY TimelineAssumption DEF TypeOK, InValidity
    <2> QED BY <1>2, <2>1 DEF CertificateValidity
  <1> QED BY <1>1, <1>2

\* What verification hands to the policies is a SignatureVerificationResult.
LEMMA ResultTyped ==
  ASSUME TypeOK,
         NEW online \in BOOLEAN, NEW answered \in BOOLEAN, NEW crypto \in {"valid", "invalid"},
         NEW digest \in BOOLEAN, NEW integrity \in BOOLEAN, NEW extended \in {"yes", "no", "none"}
  PROVE  Result(online, answered, crypto, digest, integrity, extended) \in ResultType
  <1>1. ChainTrusted(online, answered) \in BOOLEAN
    BY DEF ChainTrusted, InValidity
  <1>2. OverallStatus(answered) \in {"valid", "revoked", "invalid"}
    BY OverallStatuses
  <1>3. revokedAt \in Int /\ ReferenceTime \in Int /\ TimestampTime \in Int
    BY PathTimes DEF TypeOK, NoTime
  <1> QED BY <1>1, <1>2, <1>3, CertificateValidities DEF Result, ResultType

-----------------------------------------------------------------------------
\* Before the first signature the invariant holds.
LEMMA InitInv == Init => IInv
  BY DEF Init, IInv, TypeOK, SignedInValidity, Recorded, NoReport, NoSignature, Signature,
         NoTime, ResultType

\* A signature keeps it.
LEMMA SignInv ==
  ASSUME IInv, NEW token \in {"none", "good", "wrong"}, Sign(token)
  PROVE  IInv'
  BY DEF IInv, Sign, TypeOK, SignedInValidity, Recorded, Signature, InValidity, NoReport

\* So does a verification, whatever its inputs answer.
LEMMA VerifyInv ==
  ASSUME IInv,
         NEW online \in BOOLEAN, NEW answered \in BOOLEAN, NEW crypto \in {"valid", "invalid"},
         NEW digest \in BOOLEAN, NEW integrity \in BOOLEAN, NEW extended \in {"yes", "no", "none"},
         Verify(online, answered, crypto, digest, integrity, extended)
  PROVE  IInv'
  <1> DEFINE r == Result(online, answered, crypto, digest, integrity, extended)
  <1>1. r \in ResultType
    BY ResultTyped DEF IInv
  <1>2. TypeOK'
    BY <1>1, PathTimes DEF IInv, Verify, TypeOK
  <1>3. SignedInValidity'
    BY DEF IInv, Verify, SignedInValidity, InValidity
  <1>4. /\ r.crypto = crypto
        /\ r.revocation = (IF online THEN OverallStatus(answered) ELSE "none")
        /\ r.trusted = ChainTrusted(online, answered)
        /\ r.certificate = CertificateValidity(online, answered)
        /\ r.revokedAt = revokedAt /\ r.timestamp = TimestampTime
    BY DEF Result
  <1>5. /\ (online /\ answered /\ revokedAt # NoTime) => ~ChainTrusted(online, answered)
        /\ (online /\ ~answered /\ StrictLookup) => ~ChainTrusted(online, answered)
    BY OverallStatuses DEF ChainTrusted
  <1>6. (online /\ answered /\ ValidationTimeUsed # NoTime /\ revokedAt = NoTime)
          => /\ ChainTrusted(online, answered) /\ OverallStatus(answered) = "valid"
             /\ CertificateValidity(online, answered) = "valid"
    <2> HAVE online /\ answered /\ ValidationTimeUsed # NoTime /\ revokedAt = NoTime
    <2>1. InValidity(PathTime(TRUE))
      BY PathTimes DEF IInv, Verify, SignedInValidity
    <2>2. OverallStatus(answered) = "valid"
      BY <2>1, OverallStatuses
    <2> QED BY <2>1, <2>2, CertificateValidities DEF ChainTrusted, IInv
  <1>7. /\ report'.done /\ report'.online = online /\ report'.answered = answered
        /\ report'.used = ValidationTimeUsed /\ report'.result = r
    BY DEF Verify
  <1>8. ValidationTimeUsed # NoTime =>
          r.timestamp = ValidationTimeUsed /\ InValidity(ValidationTimeUsed)
    BY <1>4, PathTimes DEF IInv, SignedInValidity
  <1>9. Recorded'
    BY <1>4, <1>5, <1>6, <1>7, <1>8 DEF Recorded, InValidity
  <1> QED BY <1>2, <1>3, <1>7, <1>9 DEF IInv

\* The clock and the CA leave signature and report alone.
LEMMA EnvironmentInv ==
  ASSUME IInv, Revoke \/ Tick \/ UNCHANGED vars
  PROVE  IInv'
  BY DEF IInv, Revoke, Tick, vars, TypeOK, SignedInValidity, Recorded, InValidity, NoReport

\* Reports keep what they recorded, whatever happens later.
THEOREM Invariance == Spec => []IInv
  <1>1. ASSUME IInv, [Next]_vars PROVE IInv'
    BY <1>1, SignInv, VerifyInv, EnvironmentInv DEF Next
  <1> QED BY InitInv, <1>1, PTL DEF Spec

-----------------------------------------------------------------------------
\* What each overall status says of the sub-verifications.
LEMMA StatusCases ==
  ASSUME NEW r \in ResultType
  PROVE  /\ Status(r) = "valid"
              <=> r.integrity /\ r.crypto = "valid" /\ r.digest /\ r.trusted
         /\ Status(r) = "invalid"
              <=> ~r.integrity \/ r.crypto = "invalid" \/ (r.crypto = "valid" /\ ~r.digest)
         /\ Status(r) \in {"valid", "invalid", "indeterminate", "validButUntrusted"}
  <1>1. /\ r.crypto \in {"valid", "invalid", "unknown"}
        /\ r.integrity \in BOOLEAN /\ r.digest \in BOOLEAN /\ r.trusted \in BOOLEAN
    BY DEF ResultType
  <1>2. CASE ~r.integrity
    <2>1. Status(r) = "invalid"
      BY <1>2, Zenon DEF Status
    <2> QED BY <1>2, <2>1
  <1>3. CASE r.integrity /\ r.crypto = "invalid"
    <2>1. Status(r) = "invalid"
      BY <1>3, Zenon DEF Status
    <2> QED BY <1>3, <2>1
  <1>4. CASE r.integrity /\ r.crypto = "unknown"
    <2>1. Status(r) = "indeterminate"
      BY <1>4 DEF Status
    <2> QED BY <1>4, <2>1
  <1>5. CASE r.integrity /\ r.crypto = "valid" /\ ~r.digest
    <2>1. Status(r) = "invalid"
      BY <1>5 DEF Status
    <2> QED BY <1>5, <2>1
  <1>6. CASE r.integrity /\ r.crypto = "valid" /\ r.digest /\ r.trusted
    <2>1. Status(r) = "valid"
      BY <1>6 DEF Status
    <2> QED BY <1>6, <2>1
  <1>7. CASE r.integrity /\ r.crypto = "valid" /\ r.digest /\ ~r.trusted
    <2>1. Status(r) = "validButUntrusted"
      BY <1>7 DEF Status
    <2> QED BY <1>7, <2>1
  <1> QED BY <1>1, <1>2, <1>3, <1>4, <1>5, <1>6, <1>7

\* The basic policy passes nothing that the stricter of its checks refuse.
LEMMA BasicCases ==
  ASSUME NEW r \in ResultType
  PROVE  /\ Basic(r) = "passed"
              <=> /\ r.crypto = "valid" /\ r.digest /\ r.integrity /\ r.trusted
                  /\ ~ModificationsFail(r)
         /\ (r.crypto # "unknown" /\ Status(r) # "indeterminate" /\ Basic(r) # "passed")
              => Basic(r) = "failed"
  <1> DEFINE ok == r.crypto = "valid" /\ r.digest /\ r.integrity /\ r.trusted
                     /\ ~ModificationsFail(r)
  <1>1. CASE r.crypto = "unknown"
    <2>1. Basic(r) = "indeterminate"
      BY <1>1, Zenon DEF Basic
    <2> QED BY <1>1, <2>1
  <1>2. CASE r.crypto # "unknown" /\ ok
    <2>1. Basic(r) = "passed"
      BY <1>2, Zenon DEF Basic
    <2> QED BY <1>2, <2>1
  <1>3. CASE r.crypto # "unknown" /\ ~ok /\ Status(r) = "indeterminate"
    <2>1. Basic(r) = "indeterminate"
      BY <1>3, Zenon DEF Basic
    <2> QED BY <1>3, <2>1
  <1>4. CASE r.crypto # "unknown" /\ ~ok /\ Status(r) # "indeterminate"
    <2>1. Basic(r) = "failed"
      BY <1>4, Zenon DEF Basic
    <2> QED BY <1>4, <2>1
  <1> QED BY <1>1, <1>2, <1>3, <1>4

\* The report proves one time, that of the timestamp.
LEMMA ProvedTime ==
  ASSUME NEW r \in ResultType
  PROVE  \A t \in ProvedTimes(r) : t = r.timestamp /\ t # NoTime
  <1>1. \A o \in ValidationObjects(r) : o.poe = NoTime \/ o.poe = r.timestamp
    BY DEF ValidationObjects
  <1>2. BestSignatureTime(r).proof = "validation"
          => BestSignatureTime(r).time = r.timestamp /\ r.timestamp # NoTime
    BY DEF BestSignatureTime
  <1> QED BY <1>1, <1>2 DEF ProvedTimes

-----------------------------------------------------------------------------
\* The type invariant: what reaches the policies is one of the values that the
\* library's SignatureVerificationResult has.
THEOREM TypeCorrect == Spec => []TypeOK
  BY Invariance, PTL DEF IInv

\* What PKIX passes is valid, passed by the basic policy and TOTAL-PASSED in the
\* report, and what the report calls TOTAL-FAILED passes neither and is
\* explained: for every result a verification can have.
THEOREM PassedCorrect == Spec => []PassedMeansValid
  <1>1. ASSUME TypeOK PROVE PassedMeansValid
    <2> DEFINE r == report.result
    <2>1. r \in ResultType
      BY <1>1 DEF TypeOK
    <2>2. ASSUME Pkix(r) = "passed"
          PROVE  Basic(r) = "passed" /\ Status(r) = "valid" /\ MainIndication(r) = "TOTAL-PASSED"
      <3>1. r.crypto = "valid" /\ r.digest /\ r.integrity /\ r.trusted /\ ~ModificationsFail(r)
        BY <2>1, <2>2 DEF Pkix, PkixFails, ResultType
      <3> QED BY <2>1, <3>1, StatusCases, BasicCases DEF MainIndication
    <2>3. ASSUME MainIndication(r) = "TOTAL-FAILED"
          PROVE  /\ Pkix(r) = "failed" /\ Basic(r) # "passed"
                 /\ CryptoFindings(r) # {} /\ CryptoFindings(r) \subseteq SubIndications(r)
      <3>1. Status(r) = "invalid"
        BY <2>3 DEF MainIndication
      <3>2. ~r.integrity \/ r.crypto = "invalid" \/ ~r.digest
        BY <2>1, <3>1, StatusCases
      <3>3. Pkix(r) = "failed"
        BY <3>2 DEF Pkix, PkixFails
      <3>4. Basic(r) # "passed"
        BY <2>1, <3>2, BasicCases
      <3>5. CryptoFindings(r) # {}
        BY <3>2 DEF CryptoFindings
      <3>6. CryptoFindings(r) \subseteq SubIndications(r)
        BY <3>1, <3>5 DEF SubIndications, OrUnexplained
      <3> QED BY <3>3, <3>4, <3>5, <3>6
    <2> QED BY <2>2, <2>3 DEF PassedMeansValid
  <1> QED BY <1>1, TypeCorrect, PTL

\* A verified timestamp keeps a signature valid for as long as the TSA's
\* certificate is, with no bound on the clock, and the report proves no time but
\* that of the timestamp.
THEOREM LongTermCorrect == Spec => []LongTermValidity
  <1>1. ASSUME IInv PROVE LongTermValidity
    <2> DEFINE r == report.result
    <2> SUFFICES ASSUME report.done, report.online, report.answered, Genuine,
                        report.used # NoTime, r.revokedAt = NoTime, ~EnforceCurrentTime
                 PROVE  /\ Pkix(r) = "passed" /\ Status(r) = "valid"
                        /\ MainIndication(r) = "TOTAL-PASSED"
                        /\ \A t \in ProvedTimes(r) : InValidity(t) /\ t = report.used
      BY DEF LongTermValidity
    <2>1. /\ r.trusted /\ r.revocation = "valid" /\ r.certificate = "valid"
          /\ r.timestamp = report.used /\ InValidity(report.used)
          /\ r \in ResultType
      BY <1>1 DEF IInv, Recorded, TypeOK
    <2>2. r.crypto = "valid" /\ r.digest /\ r.integrity /\ r.extended = "no"
      BY DEF Genuine
    <2>3. Status(r) = "valid"
      BY <2>1, <2>2, StatusCases
    <2>4. Pkix(r) = "passed"
      BY <2>1, <2>2 DEF Pkix, PkixFails, RevocationFails, RevocationOpen, ModificationsFail, NotCurrent
    <2>5. MainIndication(r) = "TOTAL-PASSED"
      BY <2>3 DEF MainIndication
    <2>6. \A t \in ProvedTimes(r) : InValidity(t) /\ t = report.used
      BY <2>1, ProvedTime
    <2> QED BY <2>3, <2>4, <2>5, <2>6
  <1> QED BY <1>1, Invariance, PTL

\* No configuration of the policies and no length of the grace period lets a
\* signature pass that was made with a key already revoked.
THEOREM LateUseCorrect == Spec => []LateUseRefused
  <1>1. ASSUME IInv PROVE LateUseRefused
    <2> DEFINE r == report.result
    <2> SUFFICES ASSUME report.done, report.online, report.answered, r.revokedAt # NoTime
                 PROVE  /\ Pkix(r) = "failed" /\ Basic(r) = "failed"
                        /\ Status(r) # "valid" /\ MainIndication(r) # "TOTAL-PASSED"
      BY DEF LateUseRefused
    <2>2. ~r.trusted /\ r \in ResultType
      BY <1>1 DEF IInv, Recorded, TypeOK
    <2>3. r.crypto # "unknown" /\ r.crypto \in {"valid", "invalid"}
      BY <1>1 DEF IInv, Recorded
    <2>4. Pkix(r) = "failed"
      BY <2>2 DEF Pkix, PkixFails
    <2>5. Status(r) # "valid" /\ MainIndication(r) # "TOTAL-PASSED"
      BY <2>2, StatusCases DEF MainIndication
    <2>6. Status(r) \in {"invalid", "validButUntrusted"}
      BY <2>2, <2>3, Zenon DEF Status
    <2>7. Basic(r) = "failed"
      BY <2>2, <2>3, <2>6, BasicCases
    <2> QED BY <2>4, <2>5, <2>7
  <1> QED BY <1>1, Invariance, PTL

\* A question that was not asked stays open and a strict lookup without an answer
\* is a failure, over every timeline: PKIX passes neither.
THEOREM AnsweredCorrect == Spec => []PassedMeansAnswered
  <1>1. ASSUME IInv PROVE PassedMeansAnswered
    <2> DEFINE r == report.result
    <2> SUFFICES ASSUME report.done, RequireRevocation, Pkix(r) = "passed"
                 PROVE  report.online /\ (StrictLookup => report.answered)
      BY DEF PassedMeansAnswered
    <2>1. r.trusted /\ r.revocation # "none"
      BY DEF Pkix, PkixFails, RevocationOpen
    <2> QED BY <1>1, <2>1 DEF IInv, Recorded
  <1> QED BY <1>1, Invariance, PTL
=============================================================================
