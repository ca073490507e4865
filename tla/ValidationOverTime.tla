-------------------------- MODULE ValidationOverTime --------------------------
(***************************************************************************)
(* One signature, verified now or years later, online or offline: which    *)
(* time its certificate path is validated at, what revocation checking     *)
(* tells, and what the policies make of it (verify/mod.rs steps B2, C, G   *)
(* and H, verify_chain_online; policy/pkix.rs determine_validation_time).  *)
(*                                                                         *)
(* The signer's path is one certificate here; PathValidation has the rest. *)
(***************************************************************************)
EXTENDS EtsiReport

CONSTANTS ValidFrom, ValidUntil, (* validity of the signer's certificate     *)
          TsaUntil,              (* end of validity of the TSA's certificate *)
          StrictLookup,          (* revocation_config.require_revocation_check *)
          MaxTime                (* bound on the clock                       *)

ASSUME TimelineAssumption ==
  /\ ValidFrom \in Nat /\ ValidUntil \in Nat /\ TsaUntil \in Nat /\ MaxTime \in Nat
  /\ StrictLookup \in BOOLEAN

VARIABLES now,       \* the clock
          signature, \* when it was made and the signature timestamp in its CMS
          revokedAt, \* when the signer's certificate was revoked
          report     \* the last verification

vars == <<now, signature, revokedAt, report>>

\* token: "none", "good", or "wrong" if its imprint is not of this signature
Signature(made, token) == [made |-> made, token |-> token]
NoSignature == Signature(NoTime, "none")
NoReport == [done |-> FALSE, online |-> FALSE, answered |-> FALSE, used |-> NoTime,
             path |-> NoTime, asOf |-> NoTime,
             result |-> [crypto |-> "invalid", digest |-> FALSE, integrity |-> FALSE,
                         trusted |-> FALSE, certificate |-> "error", revocation |-> "none",
                         revokedAt |-> NoTime, extended |-> "none", timestamp |-> NoTime,
                         reference |-> NoTime]]

Init == now = 0 /\ signature = NoSignature /\ revokedAt = NoTime /\ report = NoReport

-----------------------------------------------------------------------------
InValidity(t) == ValidFrom <= t /\ t <= ValidUntil

\* verify_timestamp_token validates the TSA's chain at the current time
TokenVerified == signature.token = "good" /\ now <= TsaUntil

\* validation_time_used: the token's time if it is fully verified
ValidationTimeUsed == IF TokenVerified THEN signature.made ELSE NoTime

\* timestamp_time is set by any token that parses
TimestampTime == IF signature.token # "none" THEN signature.made ELSE NoTime

\* determine_validation_time: timestamp_time, verified or not; /M holds a PDF
\* date (D:20260101...), which is not the RFC 3339 that is parsed for, so the
\* fallback is the clock
ReferenceTime == IF TimestampTime # NoTime THEN TimestampTime ELSE now

\* Mutant: the path is validated at the current time.
PathTimeNow(online) == now

\* verify_chain uses the clock, validate_certificate_path the given time if any
PathTime(online) ==
  IF online /\ ValidationTimeUsed # NoTime THEN ValidationTimeUsed ELSE now

\* Mutant: no answer is no objection.
OverallStatusLenient(answered) ==
  IF ~InValidity(PathTime(TRUE)) THEN "invalid"
  ELSE IF answered /\ revokedAt # NoTime THEN "revoked" ELSE "valid"

\* overall_status of an online validation; a status that is unknown for lack
\* of an answer ends in "valid" unless the configuration requires the check
OverallStatus(answered) ==
  CASE ~InValidity(PathTime(TRUE))                                       -> "invalid"
    [] InValidity(PathTime(TRUE)) /\ answered /\ revokedAt # NoTime      -> "revoked"
    [] InValidity(PathTime(TRUE)) /\ answered /\ revokedAt = NoTime      -> "valid"
    [] InValidity(PathTime(TRUE)) /\ ~answered /\ StrictLookup           -> "invalid"
    [] InValidity(PathTime(TRUE)) /\ ~answered /\ ~StrictLookup          -> "valid"

\* Mutant: an anchor is enough.
ChainTrustedByAnchor(online, answered) == InValidity(PathTime(online))

ChainTrusted(online, answered) ==
  /\ InValidity(PathTime(online))
  /\ online => OverallStatus(answered) \notin {"revoked", "invalid"}

\* Mutant: the status of the path is handed on as it is.
CertificateValidityRaw(online, answered) == IF online THEN OverallStatus(answered) ELSE "valid"

CertificateValidity(online, answered) ==
  IF online
  THEN CASE OverallStatus(answered) = "revoked" -> "revoked"
         [] OverallStatus(answered) = "invalid" -> "error"
         [] OverallStatus(answered) = "valid"   -> "valid"
  ELSE CASE now < ValidFrom  -> "notYetValid"
         [] now > ValidUntil -> "expired"
         [] InValidity(now)  -> "valid"

Result(online, answered, crypto, digest, integrity, extended) ==
  [crypto |-> crypto, digest |-> digest, integrity |-> integrity,
   trusted |-> ChainTrusted(online, answered),
   certificate |-> CertificateValidity(online, answered),
   revocation |-> IF online THEN OverallStatus(answered) ELSE "none",
   revokedAt |-> revokedAt, extended |-> extended,
   timestamp |-> TimestampTime, reference |-> ReferenceTime]

-----------------------------------------------------------------------------
Sign(token) ==
  /\ signature = NoSignature /\ InValidity(now)
  /\ signature' = Signature(now, token)
  /\ UNCHANGED <<now, revokedAt, report>>

\* answered: OCSP or CRL gave an answer; the other facts are those that earlier
\* steps of verify_single_signature found
Verify(online, answered, crypto, digest, integrity, extended) ==
  /\ signature # NoSignature
  /\ report' = [done |-> TRUE, online |-> online, answered |-> answered,
                used |-> ValidationTimeUsed, path |-> PathTime(online), asOf |-> now,
                result |-> Result(online, answered, crypto, digest, integrity, extended)]
  /\ UNCHANGED <<now, signature, revokedAt>>

\* the CA revokes the certificate
Revoke ==
  /\ revokedAt = NoTime
  /\ revokedAt' = now
  /\ UNCHANGED <<now, signature, report>>

Tick == now < MaxTime /\ now' = now + 1 /\ UNCHANGED <<signature, revokedAt, report>>

Next ==
  \/ \E token \in {"none", "good", "wrong"} : Sign(token)
  \/ \E online, answered, digest, integrity \in BOOLEAN, crypto \in {"valid", "invalid"},
        extended \in {"yes", "no", "none"} :
       Verify(online, answered, crypto, digest, integrity, extended)
  \/ Revoke \/ Tick

Spec == Init /\ [][Next]_vars

-----------------------------------------------------------------------------
Genuine == /\ report.result.crypto = "valid" /\ report.result.digest
           /\ report.result.integrity /\ report.result.extended = "no"

\* The clock, the signature and the last report keep their types.
TypeOK ==
  /\ now \in Nat
  /\ signature \in [made : Nat \cup {NoTime}, token : {"none", "good", "wrong"}]
  /\ revokedAt \in Nat \cup {NoTime}
  /\ report \in [done : BOOLEAN, online : BOOLEAN, answered : BOOLEAN,
                 used : Nat \cup {NoTime}, path : Nat \cup {NoTime},
                 asOf : Nat \cup {NoTime}, result : ResultType]

\* The stricter policy is the stricter one, and the report follows: what PKIX
\* passes, the basic policy passes too, the overall status is valid and the
\* report TOTAL-PASSED. What it calls TOTAL-FAILED neither policy passes, and
\* the sub-indications name the check that failed.
PassedMeansValid ==
  LET r == report.result
  IN  /\ Pkix(r) = "passed" =>
           Basic(r) = "passed" /\ Status(r) = "valid" /\ MainIndication(r) = "TOTAL-PASSED"
      /\ MainIndication(r) = "TOTAL-FAILED" =>
           /\ Pkix(r) = "failed" /\ Basic(r) # "passed"
           /\ CryptoFindings(r) # {} /\ CryptoFindings(r) \subseteq SubIndications(r)

\* A genuine signature with a verified timestamp passes online however long
\* after its certificate expired, as long as nobody revoked the certificate;
\* the report says TOTAL-PASSED and proves only times at which it was valid.
LongTermValidity ==
  (/\ report.done /\ report.online /\ report.answered /\ Genuine
   /\ report.used # NoTime /\ report.result.revokedAt = NoTime /\ ~EnforceCurrentTime)
    => /\ Pkix(report.result) = "passed" /\ Status(report.result) = "valid"
       /\ MainIndication(report.result) = "TOTAL-PASSED"
       /\ \A t \in ProvedTimes(report.result) : InValidity(t) /\ t = report.used

\* A signature made after its certificate was revoked, or so shortly before that
\* the grace period does not save it, is refused by both policies, by the status
\* and in the report, whatever token it carries, as soon as a verification gets
\* an answer.  (What the grace period should save is another matter: GraceSaves.)
LateUseRefused ==
  (/\ report.done /\ report.online /\ report.answered /\ report.result.revokedAt # NoTime
   /\ signature.made + Grace >= report.result.revokedAt) =>
    /\ Pkix(report.result) = "failed" /\ Basic(report.result) = "failed"
    /\ Status(report.result) # "valid" /\ MainIndication(report.result) # "TOTAL-PASSED"

\* Where the policy requires the revocation check, PKIX passes only after asking
\* online; and where the lookup is strict too, only with an answer: one that
\* failed or ran out of time is not mistaken for "not revoked".
PassedMeansAnswered ==
  (report.done /\ RequireRevocation /\ Pkix(report.result) = "passed") =>
    report.online /\ (StrictLookup => report.answered)

-----------------------------------------------------------------------------
(* What the documentation says beyond that. *)

\* The times that the report calls proofs of existence are those of verified
\* timestamps.
ProofsAreVerified ==
  report.done => \A t \in ProvedTimes(report.result) : t = report.used

\* A genuine signature whose verified timestamp, with the grace period added, is
\* before the revocation of the certificate passes PKIX.
GraceSaves ==
  (/\ report.done /\ report.online /\ report.answered /\ Genuine /\ ~EnforceCurrentTime
   /\ report.used # NoTime /\ report.result.revokedAt # NoTime
   /\ report.used + Grace < report.result.revokedAt)
    => Pkix(report.result) = "passed"
=============================================================================
