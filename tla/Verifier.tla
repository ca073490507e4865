------------------------------- MODULE Verifier -------------------------------
(***************************************************************************)
(* verify_pdf over the files that signing, other programs and time leave   *)
(* behind: what is reported for each signature of a file, what the basic   *)
(* policy concludes from it, and how both change as the file grows.        *)
(*                                                                         *)
(* Verification reads the file only, so reports are operators of it.  The  *)
(* byte-level half of the integrity check is in Integrity, certificate     *)
(* paths are in PathValidation; here a chain is trusted by its signer.     *)
(***************************************************************************)
EXTENDS SignedDocument, Inspection, ValidationPolicy

CONSTANT TrustedKinds   (* kinds of signatures whose certificates lead to an *)
                        (* anchor of the store that is asked: the signature  *)
                        (* store, or the TSA store for timestamps            *)

ASSUME TrustAssumption == TrustedKinds \subseteq SignatureKinds

-----------------------------------------------------------------------------
\* Mutant: the signature that ends first is taken for the last one.
IsLastByMin(doc, i) == \A j \in ExtractedSignatures(doc) : i <= j

\* is_last: no extracted signature ends later (signed_revision_end)
IsLast(doc, i) == \A j \in ExtractedSignatures(doc) : j <= i

\* integrity_ok: the final signature must reach the end of the file
IntegrityHolds(doc, i) == IsLast(doc, i) => i = Len(doc)

IsTimestamp(doc, i) == doc[i].sig.what = "timestamp"

\* verify_single_signature and verify_doc_timestamp_signature, offline.  A
\* signature over other bytes fails in its CMS, a token in its message imprint;
\* one that was cut short does not parse, and no certificate is found in it.
ResultFor(doc, i) ==
  LET parsed  == IsWhole(doc[i].sig.cms)
      trusted == parsed /\ doc[i].sig.what \in TrustedKinds
  IN
  [crypto |-> IF parsed /\ (Verifies(doc, i) \/ IsTimestamp(doc, i)) THEN "valid" ELSE "invalid",
   digest |-> parsed /\ (Verifies(doc, i) \/ ~IsTimestamp(doc, i)),
   integrity |-> IntegrityHolds(doc, i),
   trusted |-> trusted,
   certificate |-> CASE trusted -> "valid" [] parsed /\ ~trusted -> "untrusted"
                     [] OTHER -> "incomplete",
   revocation |-> "none", revokedAt |-> NoTime,
   extended |-> IF ExtendedByNonSafe(doc, i) THEN "yes" ELSE "no",
   timestamp |-> NoTime, reference |-> NoTime]

StatusOf(doc, i) == Status(ResultFor(doc, i))
BasicOf(doc, i)  == Basic(ResultFor(doc, i))

\* apply_document_timestamp_levels: a valid timestamp that covers the revision
\* of the signature; signatures carry no timestamp of their own here
LevelOf(doc, i) ==
  IF IsTimestamp(doc, i) THEN "unknown"
  ELSE IF \E j \in ExtractedSignatures(doc) :
            IsTimestamp(doc, j) /\ i < j /\ StatusOf(doc, j) = "valid"
       THEN "BT" ELSE "BB"

-----------------------------------------------------------------------------
\* The files a step of the library's own started from and what it made of one.
OwnStep(base) ==
  Extends(file', base) /\ Len(base) + 1 .. Len(file') \subseteq OwnRevisions(file')

\* A B-T request that succeeds returns a file whose new signature verifies as a
\* valid B-T signature, after other requests have moved the saved file on and
\* whatever the file held before (tests/verify_test.rs checks one such file),
\* except that a CMS whose last byte is zero is cut short and invalid: then the
\* signature is lost, or the timestamp and with it the level.
DeliveredLevelVerifies ==
  [][\A r \in Requests :
       (Waiting(r) /\ req[r].level = "BT" /\ req'[r].st = "ok") =>
         LET i == Len(req[r].base) + 1
             whole(k) == IsWhole(file'[k].sig.cms)
         IN  /\ {i, i + 1} \subseteq ExtractedSignatures(file')
             /\ \A k \in {i, i + 1} :
                  StatusOf(file', k) = IF whole(k) THEN "valid" ELSE "invalid"
             /\ LevelOf(file', i) = IF whole(i + 1) THEN "BT" ELSE "BB"]_vars

\* Another signature or timestamp of the library never spoils the report of an
\* earlier one: what was valid stays valid, at no lower level.  The check that
\* the final signature reaches the end of the file must pass from one to the
\* next.
EarlierSignaturesStayValid ==
  [][\A b \in {file} \cup {BaseOf(r) : r \in Requests} :
       OwnStep(b) =>
         \A i \in ExtractedSignatures(b) : StatusOf(b, i) = "valid" =>
           /\ i \in ExtractedSignatures(file') /\ StatusOf(file', i) = "valid"
           /\ LevelOf(b, i) = "BT" => LevelOf(file', i) = "BT"]_vars

\* Unless a harmless edit comes first, alterations after a signature that ends
\* a revision of its own fail the policy: no signature, timestamp or DSS between
\* the signature and the alteration hides it, and none appended later does.
NotShielded ==
  \A i \in ExtractedSignatures(file), j \in DOMAIN file :
    (/\ i < j /\ AltersDocument(file, j) /\ FindSignatureRevision(file, i)
     /\ \A k \in i + 1 .. j - 1 : file[k].sig # NoSig \/ ValidDss(file, k))
      => BasicOf(file, i) = "failed"

\* The inspection and the verifier describe the same file: every signature that
\* is verified is listed, with its own CMS behind its object number; one that the
\* analysis takes for a revision ends where the inspection ends that revision;
\* what is shown to cover every byte is what covers the whole document; and a
\* certified file shows the certification its /Perms names.
InspectionAgrees ==
  /\ \A i \in ExtractedSignatures(file) :
       LET info == SignatureFieldInfo(file, i)
       IN  /\ i \in InspectedSignatures(file)
           /\ CmsByObject(file, info.objNum) = {file[i].sig.cms}
           /\ FindSignatureRevision(file, i) =>
                info.coverage.covered = RevisionInfo(file, i).byteEnd
           /\ (info.coverage.covered = info.coverage.fileSize /\ EndsInNewline) =>
                CoversWholeDocument(file, i)
  /\ (DirectFields /\ Store(file)[Catalog].perms # 0) =>
       \E i \in InspectedSignatures(file) :
         LET info == SignatureFieldInfo(file, i)
         IN  info.docMdp /\ info.objNum = Store(file)[Catalog].perms

-----------------------------------------------------------------------------
(* What the documentation says beyond that. *)

\* What passes the policy has no non-safe updates after it.
PassedMeansUnmodified ==
  \A i \in ExtractedSignatures(file) : BasicOf(file, i) = "passed" =>
    \A j \in i + 1 .. Len(file) : SafeUpdate(file, j)
=============================================================================
