------------------------------ MODULE EtsiReport ------------------------------
(***************************************************************************)
(* What the ETSI TS 119 102-2 report says of a verification result         *)
(* (report/generator.rs, report/types.rs): the indications, the best       *)
(* signature time, and the validation objects with their proofs of         *)
(* existence.  XML, names and identifiers are left out.                    *)
(***************************************************************************)
EXTENDS ValidationPolicy

\* map_status_to_indications goes by the status; a policy is not asked
MainIndication(r) ==
  IF Status(r) = "valid" THEN "TOTAL-PASSED"
  ELSE IF Status(r) = "invalid" THEN "TOTAL-FAILED" ELSE "INDETERMINATE"

CryptoFindings(r) ==
  {s \in {"SIG_CRYPTO_FAILURE"} : r.crypto = "invalid"}
    \cup {s \in {"CRYPTO_CONSTRAINTS_FAILURE"} : r.crypto = "unknown"}
    \cup {s \in {"HASH_FAILURE"} : ~r.digest}
    \cup {s \in {"FORMAT_FAILURE"} : ~r.integrity}

TimeFindings(r) ==
  {s \in {"EXPIRED"} : r.certificate = "expired"}
    \cup {s \in {"NOT_YET_VALID"} : r.certificate = "notYetValid"}

ChainFindings(r) ==
  {s \in {"NO_CERTIFICATE_CHAIN_FOUND"} : r.certificate = "untrusted"}
    \cup {s \in {"CERTIFICATE_CHAIN_GENERAL_FAILURE"} : r.certificate = "incomplete"}

Unexplained == {"SIGNATURE_PROCESSING_ERROR"}
OrUnexplained(findings) == IF findings = {} THEN Unexplained ELSE findings

SubIndications(r) ==
  IF Status(r) = "valid" THEN {}
  ELSE IF Status(r) = "validButUntrusted" THEN {"NO_CERTIFICATE_CHAIN_FOUND"}
  ELSE IF Status(r) = "invalid"
  THEN OrUnexplained(CryptoFindings(r) \cup TimeFindings(r) \cup ChainFindings(r)
                       \cup {s \in {"REVOKED"} : r.certificate = "revoked"})
  ELSE OrUnexplained(TimeFindings(r) \cup ChainFindings(r))

\* BestSignatureTime: timestamp_time as a proof by validation, or else /M as
\* what the signer provided
BestSignatureTime(r) ==
  IF r.timestamp # NoTime THEN [proof |-> "validation", time |-> r.timestamp]
  ELSE [proof |-> "provided", time |-> NoTime]

\* collect_validation_objects: add_certificate and add_timestamp, whose proof
\* of existence is timestamp_time too
ValidationObjects(r) ==
  {[type |-> "certificate", poe |-> NoTime]}
    \cup {[type |-> "timestamp", poe |-> t] : t \in {r.timestamp} \ {NoTime}}

\* times the report calls proved by validation
ProvedTimes(r) ==
  {o.poe : o \in {o \in ValidationObjects(r) : o.poe # NoTime}}
    \cup {b.time : b \in {b \in {BestSignatureTime(r)} : b.proof = "validation"}}
=============================================================================
