--------------------------- MODULE ValidationPolicy ---------------------------
(***************************************************************************)
(* From the results of the sub-verifications to a verdict: the overall     *)
(* status (verify/mod.rs compute_overall_status) and the conclusions of    *)
(* the two policies (policy/basic.rs, policy/pkix.rs).                     *)
(***************************************************************************)
EXTENDS Integers

CONSTANTS RequireRevocation,      (* require_revocation_check                *)
          RequireNoModifications, (* require_no_modifications                *)
          EnforceCurrentTime,     (* enforce_current_time_validation         *)
          Grace                   (* grace_period                            *)

ASSUME PolicyAssumption ==
  /\ RequireRevocation \in BOOLEAN /\ RequireNoModifications \in BOOLEAN
  /\ EnforceCurrentTime \in BOOLEAN
  /\ Grace \in Nat

NoTime == -1

\* SignatureVerificationResult, as far as verdicts depend on it.  revocation:
\* "none" offline; extended: "none" if the revision analysis failed; timestamp:
\* timestamp_time; reference: the time determine_validation_time finds
ResultType ==
  [crypto : {"valid", "invalid", "unknown"}, digest : BOOLEAN, integrity : BOOLEAN,
   trusted : BOOLEAN,
   certificate : {"valid", "expired", "notYetValid", "revoked", "untrusted", "incomplete", "error"},
   revocation : {"none", "valid", "revoked", "unknown", "invalid"}, revokedAt : Int,
   extended : {"yes", "no", "none"}, timestamp : Int, reference : Int]

\* compute_overall_status
Status(r) ==
  CASE ~r.integrity                                            -> "invalid"
    [] r.integrity /\ r.crypto = "invalid"                     -> "invalid"
    [] r.integrity /\ r.crypto = "unknown"                     -> "indeterminate"
    [] r.integrity /\ r.crypto = "valid" /\ ~r.digest          -> "invalid"
    [] r.integrity /\ r.crypto = "valid" /\ r.digest /\ r.trusted  -> "valid"
    [] r.integrity /\ r.crypto = "valid" /\ r.digest /\ ~r.trusted -> "validButUntrusted"

ModificationsFail(r) == RequireNoModifications /\ r.extended = "yes"

\* BasicPdfSignaturePolicy::evaluate
Basic(r) ==
  LET ok == r.crypto = "valid" /\ r.digest /\ r.integrity /\ r.trusted /\ ~ModificationsFail(r)
  IN  CASE r.crypto = "unknown"                                         -> "indeterminate"
        [] r.crypto # "unknown" /\ ok                                   -> "passed"
        [] r.crypto # "unknown" /\ ~ok /\ Status(r) = "indeterminate"   -> "indeterminate"
        [] r.crypto # "unknown" /\ ~ok /\ Status(r) # "indeterminate"   -> "failed"

\* check_revocation_grace_period
WithinGrace(r) == r.reference + Grace < r.revokedAt

\* PkixPdfSignaturePolicy::evaluate: the checks that fail, and those that
\* leave it open
RevocationFails(r) == r.revocation = "invalid" \/ (r.revocation = "revoked" /\ ~WithinGrace(r))
RevocationOpen(r)  == RequireRevocation /\ r.revocation \in {"unknown", "none"}
NotCurrent(r)      == EnforceCurrentTime /\ r.certificate \in {"expired", "notYetValid"}

\* Mutant: the integrity check is left to the caller.
PkixFailsWithoutIntegrity(r) == \/ r.crypto = "invalid" \/ ~r.digest \/ ~r.trusted
                                \/ RevocationFails(r) \/ ModificationsFail(r) \/ NotCurrent(r)

PkixFails(r) == \/ r.crypto = "invalid" \/ ~r.digest \/ ~r.integrity \/ ~r.trusted
                \/ RevocationFails(r) \/ ModificationsFail(r) \/ NotCurrent(r)

Pkix(r) == IF PkixFails(r) THEN "failed"
           ELSE IF r.crypto = "unknown" \/ RevocationOpen(r) THEN "indeterminate"
           ELSE "passed"
=============================================================================
