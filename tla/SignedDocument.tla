--------------------------- MODULE SignedDocument ---------------------------
(***************************************************************************)
(* Signing, other programs and the revision analysis together: what the    *)
(* library promises about a file it has signed, however its own requests   *)
(* and foreign updates interleave.                                         *)
(***************************************************************************)
EXTENDS Signing, OtherPrograms

\* Of the objects these files may hold, the one that the catalog names without
\* showing it is /Metadata.
ASSUME ReferredAssumption ==
  /\ Metadata \in InfoIds
  /\ InfoIds \cup FontIds \cup ActionIds \subseteq {Metadata}

SignatureKinds == {"none", "approval", "certify", "timestamp", "thirdParty"}

-----------------------------------------------------------------------------
Waiting(r) == req[r].st \in {"awaitingToken", "prepared"}
BaseOf(r) == IF Waiting(r) THEN req[r].base ELSE file

Extends(doc, base) == Len(base) < Len(doc) /\ SubSeq(doc, 1, Len(base)) = base

\* Revisions of doc made by the library: other programs leave no such kind.
OwnRevisions(doc) == {i \in DOMAIN doc : doc[i].sig.what \in {"approval", "certify", "timestamp"}}

ExtendsBy(doc, base, n) == Len(doc) = Len(base) + n /\ SubSeq(doc, 1, Len(base)) = base

\* the revisions that a request of this level is answered with
UpdatesOf(level) == CASE level \in {"BB", "TS"} -> 1 [] level = "BT" -> 2 [] level = "BLT" -> 3

\* A finished operation returns the very file it was given, however the saved
\* one has moved on, and behind it every revision of the level it was asked for:
\* nothing that others appended meanwhile, no byte of the base rewritten, and no
\* lower level when the time-stamping authority fails or none is configured.
OutputExtendsInput ==
  [][file' # file =>
       LET finished == {r \in Requests : req'[r] # req[r]}
       IN  IF finished = {} THEN ExtendsBy(file', file, 1)
           ELSE \A r \in finished :
                  ExtendsBy(file', BaseOf(r), UpdatesOf(req'[r].level))]_vars

\* The signature a finished operation adds verifies over the bytes before it,
\* a timestamp over the signed file included, unless the caller gave
\* finalize_signature the answer to another request's hash.
NewSignaturesVerify ==
  [][\A r \in Requests :
       (Waiting(r) /\ req'[r].st = "ok") =>
         \/ \A i \in Len(req[r].base) + 1 .. Len(file') : Verifies(file', i)
         \/ \E s \in Requests \ {r} : /\ req[s].st = "prepared" /\ req[s].over # req[r].over
                                      /\ \E zero \in LastZero :
                                           file' = InjectCms(req[r].out, req[s].over, zero)]_vars

\* An update of the library overwrites no object but the catalog, the form and
\* one page, and every number it allocates is one no revision used and /Size
\* exceeds, in either xref format, over files whose /Size runs ahead and after
\* any history of updates.
OverwritesOnlyHooks ==
  \A i \in OwnRevisions(file) :
    LET form == Store(file)[Catalog].form.id
    IN  /\ Changed(file, i) \subseteq {Catalog, form} \cup ToSet(PageIds)
        /\ Cardinality(Changed(file, i) \cap ToSet(PageIds)) = 1
        /\ \A n \in DOMAIN file[i].objs : n < file[i].size
        /\ file[i - 1].size <= file[i].size

\* Every signature ever put in the file is still a field of its form
\* (update_acroform_dict "appends the sig field to /Fields").
SignaturesReachable ==
  \A i \in DOMAIN file : file[i].sig # NoSig => i \in AnalysedSignatures(file)

\* The original file holds no /Fields that is a reference.
DirectFields ==
  \A n \in DOMAIN file[1].objs :
    file[1].objs[n].kind = "acroform" => file[1].objs[n].fields.shape # "ref"

\* Over files with a direct /Fields, absent or inline forms included, signing
\* hides no earlier signature, whoever made it: all of them are still fields of
\* the form and extracted by the verifier.
SignaturesStayListed ==
  DirectFields => SignaturesReachable /\ AnalysedSignatures(file) = ExtractedSignatures(file)

-----------------------------------------------------------------------------
(* What the revision analysis says of such files. *)

\* Structures whose hooks the analysis can tell from edits: no null in the
\* catalog, whose entry never matches itself, and no /Annots that is a
\* reference, which signing wraps in an array.
Comparable ==
  \A n \in DOMAIN file[1].objs :
    /\ file[1].objs[n].kind = "catalog" => ~file[1].objs[n].null
    /\ file[1].objs[n].kind = "page" => file[1].objs[n].annots.shape # "ref"

\* Revision j changes what a reader of the document sees.
AltersDocument(doc, j) ==
  LET prev == Store(SubSeq(doc, 1, j - 1))
      curr == Store(SubSeq(doc, 1, j))
  IN  \/ prev[Content] # curr[Content] \/ prev[TextField] # curr[TextField]
      \/ prev[Catalog].lang # curr[Catalog].lang
      \/ \E p \in ToSet(PageIds) :
           \E a \in AnnotRefs(curr, curr[p]) \ AnnotRefs(prev, prev[p]) :
             a \in DOMAIN curr /\ curr[a] = Annotation(FALSE)

\* No signature is reported to cover the whole document once a later revision
\* altered the document, however many safe revisions lie in between.
AlterationsShow ==
  \A i, j \in DOMAIN file :
    (i < j /\ file[i].sig # NoSig /\ AltersDocument(file, j)) => ~CoversWholeDocument(file, i)

\* A signature that lost coverage does not regain it when the file grows; the
\* classification of old revisions depends on the newest form.
CoverageNeverRegained ==
  [][\A b \in {file} \cup {BaseOf(r) : r \in Requests} :
       Extends(file', b) =>
         \A i \in DOMAIN b : (b[i].sig # NoSig /\ CoversWholeDocument(file', i))
                               => CoversWholeDocument(b, i)]_vars

\* The last line of every revision is one line: its %%EOF is neither the last
\* byte nor followed by empty lines.
EndsInNewline == \A i \in DOMAIN file : file[i].tail \in {<<"LF">>, <<"CR", "LF">>}

\* Neither benign edits nor the library's own signatures and timestamps make an
\* earlier signature look modified: it covers the whole document unless it is
\* followed by an alteration, or by the certification of a file that is already
\* certified, which replaces /Perms.
OnlyAlterationsShow ==
  (Comparable /\ EndsInNewline) => \A i \in AnalysedSignatures(file) :
    CoversWholeDocument(file, i) \/
      \E j \in i + 1 .. Len(file) :
        \/ AltersDocument(file, j)
        \/ /\ file[j].sig.what = "certify"
           /\ \E k \in 1 .. j - 1 : file[k].sig.what = "certify"

\* A signature is reported as extended by non-safe updates only if an alteration
\* comes behind it, and before anything but signatures, timestamps and DSSs:
\* neither harmless edits nor the library's own later revisions lead to it, be
\* they certifications that replace /Perms.
BlamedForAlterations ==
  Comparable => \A i \in AnalysedSignatures(file) :
    ExtendedByNonSafe(file, i) =>
      \E j \in i + 1 .. Len(file) :
        /\ AltersDocument(file, j)
        /\ \A k \in i + 1 .. j - 1 : file[k].sig # NoSig \/ ValidDss(file, k)

-----------------------------------------------------------------------------
(* Signing implements the ledger: a revision is remembered by the kind of  *)
(* its signature, an open request by what it was given and what it adds.   *)

KindsOf(doc) == [i \in DOMAIN doc |-> doc[i].sig.what]

LedgerOrders ==
  {<<"timestamp">>} \cup {<<k>> : k \in Kinds \cup {"approval"}}
                    \cup {<<k, "timestamp">> : k \in Kinds}

Ledger == INSTANCE SignatureLedger WITH
  Orders  <- LedgerOrders,
  Ledgers <- {KindsOf(doc) : doc \in BaseDocs},
  ledger  <- KindsOf(file),
  pending <- [r \in Requests |->
                IF req[r].st \in {"awaitingToken", "prepared"}
                THEN LET n == Len(req[r].base)
                     IN  <<KindsOf(req[r].base),
                           SubSeq(KindsOf(req[r].out), n + 1, Len(req[r].out))>>
                ELSE <<>>]

\* Every operation adds exactly what was asked to exactly the file it was given,
\* or nothing at all, even when other requests finish and other programs write
\* while it waits.
ImplementsLedger == Ledger!Spec
=============================================================================
