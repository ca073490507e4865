# A verification development for underskrift

TLA+ models of the PDF signing library in `src/` (crate `underskrift`, paths
below are relative to the crate's `src/` directory), checked with TLC on small
instances and, for most of the properties, proved with TLAPS for all instances. `PROJECT.json` maps every definition to
the lines it models, lists the runs, the mutants that each property catches, the
places where code and documentation disagree, the hazards and the theorems.

## 1. The system

The library signs PDF files by appending *incremental updates* and verifies files
that may have been extended by itself and by other programs. It keeps no state
between calls; the state is the file that the application saves, plus what an
operation holds while it waits for a remote signer, a time-stamping authority (TSA)
or a revocation service.

| Component | State it keeps | Operations | Interacts with |
|---|---|---|---|
| Incremental writer (`core/incremental.rs`, `core/byte_range.rs`) | output buffer, offsets of objects and of the two placeholders | `write`, `compute`, `backpatch`, then hash and injection in `signer.rs` | called by all signing operations |
| AcroForm and page hooks (`core/acroform.rs`, `sig_dict.rs`, `sig_field.rs`, `doc_mdp.rs`) | none; edits the parsed document | `ensure_acroform`, `add_annot_to_page`, `/Perms` | signing operations |
| Local signer (`signer.rs`) | the working copy of one request | `sign`, `apply_pades_level`, `validate_options` | writer, CMS builder, TSA |
| Remote signer (`remote.rs`) | `PreparedSignature`, held by the caller | `prepare_signature`, `finalize_signature` | an external signing service |
| Document timestamps (`core/doc_timestamp.rs`) | the prepared file while the TSA answers | `prepare_doc_timestamp`, `add_document_timestamp[_pool]` | TSA, writer |
| Revision analysis (`core/revision.rs`) | list of revisions with their classification | `analyze`, `covers_whole_document`, `is_extended_by_non_safe_updates` | verifier |
| Extraction (`verify/extractor.rs`) | none | `extract_signatures` | verifier |
| Integrity check (`verify/integrity.rs`) | none | `verify_byte_range_ex` | verifier |
| Path validation (`verify/chain_verify.rs`) | chain and per-certificate entries while lookups run | `verify_chain`, `validate_certificate_path` | trust store, OCSP/CRL clients |
| Verifier (`verify/mod.rs`, `verify/report.rs`) | results of one report | `verify_pdf` and its steps | all of the above, policies |
| Policies (`policy/`) | configuration | `evaluate` | verifier |
| CMS builder and verification (`cms/`, `verify/cms_verify.rs`, `crypto/`) | none | `build`, `pre_sign`, `complete_cms`, `verify_cms`, `verify_timestamp_token` | signer, verifier |
| DSS (`ltv/dss.rs`) | the builder's lists, filled over several calls | `collect_validation_data`, `add_vri_entry`, `build_dss_dict` | OCSP/CRL clients, inspection |
| SVT (`svt/`) | none; an SVT lives in the seal of a file | `issue`, `create_svt_sealed_pdf`, `extract_svt_jwt_from_token`, `verify_jwt`, `check_expiry`, `validate_signature` | verifier (a seal is a document timestamp), path validation |
| ETSI report (`report/`) | validation objects of one report | `generate`, `map_status_to_indications` | results of the verifier |
| Inspection (`inspect/`) | none | `inspect_signatures`, `extract_cms_by_object` | applications, beside the verifier |
| SACI (`saci/`), appearance (`visual/`) | none | see section 6 | |

Hard behaviours:

* **Offsets over a growing buffer.** The ByteRange is patched, the digest computed
  and the signature injected in three steps; each may only touch bytes the others
  leave alone.
* **Open requests.** A prepared remote signature or an awaited timestamp works on a
  copy of the file; other requests finish and other programs write meanwhile; answers
  come late, never, or to the wrong request; a TSA may fail after the key was used.
* **Judging history.** Whether a signature still covers the document depends on every
  later revision, on their order, on the newest form, and on newline bytes.
* **Time.** Certificates expire, are revoked, and revocation services do not answer;
  different steps of the verifier use different clocks. An SVT, its issuer's chain, the
  seal around it and the signature it speaks for age apart from each other.
* **Collecting.** One request after the other is awaited, each can fail or be abandoned,
  and CAs issue newer answers in between.

What must hold, per component: the writer selects and signs everything but
`/Contents`; signing appends, never rewrites, delivers the level asked for or nothing,
and keeps earlier signatures listed and valid; the analysis shows every alteration
and blames nothing harmless; what passes the integrity check hides nothing; a trusted
path is a genuine path; what a policy passes is valid and the report says the same; an
SVT speaks for the signature it was issued for and for no other; a timestamp proves what
was there; collected material has no unexplained gaps and reads back as it was written;
inspection and verification describe the same file.

## 2. Modules

```
IncrementalWriter                      PdfDocument ─┬─ OtherPrograms ────┐
      │                                             └─ RevisionAnalysis ─│── Inspection
SignThenVerify ── instance of ── Integrity              │                │      │
      │                              │               Signing             │      │
OwnAndForeign ──────────────── ForeignRange             └─ SignedDocument┘── refines ── SignatureLedger
                                                              │                 │
PathValidation                                             Verifier ────────────┘
                                                              │
             ┌─ CmsSigning                          ValidationPolicy
CryptoTerms ─┼─ TimestampTokens ─┐                            │
             └─ SvtTokens ───────┴─ SealedDocument        EtsiReport
                                                              │
DssCollection                                        ValidationOverTime
```

The proofs about a module are in a module of their own: `IncrementalWriterProofs`,
`PathValidationProofs`, `CmsSigningProofs`, `SealedDocumentProofs`, `DssCollectionProofs`,
`ForeignRangeProofs`, `ValidationOverTimeProofs`; those about `Verifier` and what it extends are
in `SignedDocumentProofs`.

`MCIncrementalWriter`, `MCVerifier`, `MCPathValidation`, `MCCmsSigning`, `MCSealedDocument` and `MCDssCollection` give the constants the small
sets of the runs; `ValidationOverTime` is checked as it is. `MCIncrementalWriter` extends `OwnAndForeign` and `MCVerifier`
extends `Verifier`, so that one state space serves the properties of both levels.

* **`IncrementalWriter`** runs `IncrementalWriter::write`, `backpatch`, the digest of
  `sign` step 10 and the injection of step 12 byte by byte. A byte is a tagged value:
  its tag says what it is (original, delimiter, padding, digit, signature), so the
  properties can say where each kind ends up. A job gives the original's length, the
  objects, the order of the dictionary's keys, the xref format and the reserve. The
  width of a ByteRange integer is a constant (10 in the code, 2 in the run) so that
  the files that no longer fit exist.
* **`PdfDocument`** has the document as a sequence of revisions (object number → value)
  and the pure steps that all signing operations share: `MaxId`, `EnsureAcroForm`,
  `SignatureRevision`. A digest is ideal: a CMS carries the bytes it is over, and
  `Verifies` compares them with the file's. It also carries whether its DER ends in a zero
  byte, which readers of `/Contents` take for padding (`IsWhole`).
* **`RevisionAnalysis`** is `core/revision.rs`: EOF scan, diffs, `classify_revision`
  with both classifiers, and the three questions of the verifier. The objects that the
  classifiers waive by reference are constants: those of `/Extensions`, `/Metadata` and
  `/Info` (`InfoIds`), fonts of the form (`FontIds`) and an `/OpenAction` (`ActionIds`). The
  files of the runs have one of them, a metadata stream, that other programs edit.
* **`Signing`** is the state machine of requests over the saved file: `Sign`,
  `AddDocumentTimestamp`, `TokenArrives`, `TsaFails`, `PrepareSignature`,
  `FinalizeSignature`, and `ForeignUpdate` for other programs. `OtherPrograms` has the
  shapes of files and updates of other producers (external).
* **`SignedDocument`** composes them and states the properties; **`SignatureLedger`** is
  the abstract promise (a request adds exactly what was asked to exactly what it was
  given, or nothing), and `ImplementsLedger` the refinement: a revision maps to the kind
  of its signature, an open request to the pair of what it was given and what it adds.
* **`Integrity`** has `verify_byte_range_ex` and the extractor's trimming as operators
  on characters. **`ForeignRange`** applies them to arbitrary files and ranges,
  **`SignThenVerify`** to the output of the writer, and **`OwnAndForeign`** is one verifier
  that is handed both.
* **`PathValidation`** is `build_chain` one loop iteration at a time, the store check, one
  lookup per certificate (an await in the code) and `compute_path_status`, while CAs revoke.
* **`ValidationPolicy`** has `compute_overall_status` and both policies as operators;
  **`ValidationOverTime`** verifies one signature at any time before and after expiry and
  revocation; **`Verifier`** is `verify_pdf` over the files of `SignedDocument`.
* **`CmsSigning`** is what the ideal digest of the other modules leaves out: `build`, and
  `pre_sign`/`complete_cms` around a service that also answers other requests;
  `SoftwareSigner::sign_hash` per key and scheme; `verify_cms` with the second pass that
  `verify_single_signature` makes when the CMS names another digest algorithm. Hashes and
  signatures are terms of **`CryptoTerms`**, which say what was hashed by which algorithm
  and signed by which key, and which of them `verify_cms_signature` accepts.
* **`TimestampTokens`** builds the tokens of seals (`svt/embed.rs`) and of a TSA, and verifies
  them with `verify_doc_timestamp` in the two passes of `verify_doc_timestamp_signature`.
  **`SvtTokens`** has the issuer, the registry of algorithms and the validator of SVTs.
* **`SealedDocument`** puts both to work: files at rest that are signed, sealed with SVTs that
  an application had issued, timestamped, extended by others and damaged, while time passes.
  Unlike in `PdfDocument` the revisions have no structure here but what hashes depend on, and
  a signature is a term, so that the SVT's hashes of signature, attributes and data exist.
* **`EtsiReport`** has `map_status_to_indications`, the best signature time and the validation
  objects with their proofs of existence; it extends the policies and `ValidationOverTime`
  asks of it what it asks of them.
* **`Inspection`** is `inspect_signatures` and `extract_cms_by_object` over the files of
  `PdfDocument`; `Verifier` compares its account with its own (`InspectionAgrees`).
* **`DssCollection`** is `DssBuilder`: `collect_validation_data` with one action per answer or
  failure of a request, dropping of its future, VRI entries, `build_dss_dict` into the
  document's objects, and `extract_dss` of the inspection, which reads them back.

Operators whose comment starts with "Mutant:" are variants of the definition that
follows them, with a plausible mistake; `PROJECT.json` says which property each one breaks.

## 3. Runs

| Run | What it asks |
|---|---|
| `writer` | offsets, ranges, digest, xref sections, refusal of too wide values; what the extractor takes from the writer's output and whether the integrity check passes on it; can anything hide behind a ByteRange that passes, in files of any origin |
| `concurrent` | two open requests and foreign updates: each result extends the file its request was given, what is delivered has the level asked for and verifies (unless CMS or token end in a zero byte), earlier signatures stay valid, ledger refinement |
| `history` | long histories of files of every shape, and the reports over them: alterations show, harmless updates are not blamed, coverage never comes back; the inspection agrees |
| `path` | path validation with and without required revocation checks (`strict`), revocations meanwhile; termination |
| `over_time` | verdicts and report before and after expiry and revocation, with and without answers |
| `cms` | every kind of key, scheme, digest and profile, local and remote: what verifies was signed, and what was signed verifies |
| `sealed` | SVTs and document timestamps years later: what they vouch for is true, and what is true they vouch for |
| `dss` | collections with failures, newer answers and dropped futures: gaps only where both requests failed, and every DSS reads back |

All of them pass. Some properties of `history` have a condition that names what the
code does not handle: `DirectFields` (`/Fields` is not a reference), `Comparable` (no
`/Annots` that is a reference, no null inside the catalog) and `EndsInNewline` (one
newline follows each `%%EOF`). Section 5 says what happens without; the properties
that matter for safety, `AlterationsShow` first, hold for all files.

Runs that find a documented statement violated (each explained under "findings" in
`PROJECT.json`):

| Run | What it shows |
|---|---|
| `masked` | a harmless update hides later alterations from the policies |
| `ecdsa` | `SoftwareSigner` hashes once too often for ECDSA keys: such signatures do not verify |
| `grace` | the grace period of the PKIX policy, documented to save signatures made before a revocation, saves none: the chain is untrusted as soon as the path is revoked (`verify/mod.rs:886`), before `policy/pkix.rs:442` asks when it was |
| `unverified_proof` | the ETSI report gives the time of a token that failed verification as a proof of existence |

### Bounds

* `writer`: originals and objects a few bytes long, chosen so that
  the ByteRange values fall on both sides of the integer width; reserves of 2 and 3
  bytes, signatures one byte shorter, equal and longer. All layouts of the keys around
  `/Contents` and `/ByteRange` appear. Files of other origin: all of four characters and
  longer ones with a hex string of up to four, with every range that stays in or just leaves
  the file. The theorems remove these bounds.
* The theorems of section 4 remove the bounds of `concurrent` and of most of `history`.
* `concurrent`: two requests, with other programs writing in between, and
  new operations on files of fewer than `MaxRevisions` = 3 revisions. Two requests are
  enough for a fork, an overtaking and a swap of answers. Each new CMS or token may end in a
  zero byte.
* `history`: one request, files of up to four revisions, which is
  enough for signature, harmless update, alteration and another signature in any order.
  Two pages and at most one appearance object, since neither is looped over.
* `path`: at most four embedded certificates with clashing names, serials and a cycle;
  depth 3 instead of 10, so that one of the chains (`DeepLeaf`) reaches the limit.
* `over_time`: six ticks, with validity periods and a grace period in which every order of
  signing, expiry, TSA expiry and revocation fits.
* `cms`: two documents and two preparations are enough to swap answers; one SHA-3 variant
  stands for the three, which the code treats alike.
* `sealed`: files of up to four revisions with up to two signatures, sealed or timestamped
  once or twice, one SVT of any issuer for one or both signatures; a clock of three
  instants, with one issuer's chain ending at the first and those of sealers and TSA at the
  second; damage of one revision. Issuers are trusted themselves, below the CA, unknown,
  unknown with another's certificate, and of a kind that cannot sign. The theorems
  remove these bounds.
* `dss`: two collections over three chains that share a CA or are one certificate long, one
  CA update per CA, two DSSs, VRI entries of one signature. `GapsOnlyWhereBothFailed`
  and `DssReadsBack` are proved without the bounds.

### Deadlock and fairness

Runs that model one computation (`writer`, `path`, `cms`)
stop when it is done, bounded histories stop at `MaxRevisions`, `MaxTime` or the bounds
on calls of `dss`; those configurations turn the deadlock check off. Fairness is assumed in one place:
`FairSpec` of `PathValidation` has weak fairness of `Validate`, because validation is one
sequential computation whose lookups end by answer or time limit. Nothing is assumed of
revocations, of the TSA, of remote signers or of other programs.

## 4. Proofs

Every theorem is for all values of the constants that the modules' assumptions admit; TLC
evaluates these assumptions on the instances of the runs.

**Files at rest and open requests** (`SignedDocumentProofs`): any number of requests, files
of any length, any pages and appearances, other programs writing in between.

* `Invariance`: `IInv` says that the saved file and the files of open requests are sequences
  of revisions, and that a request which waits holds (`Holds`) a file that extends what it
  was given by revisions with signatures of its own, over the digest that it asked for.
* `OutputCorrect`, `NewSignaturesCorrect`: `OutputExtendsInput`, `NewSignaturesVerify`. A
  step of a request fails, opens, signs at once or completes (`StepCases`), and only the last
  two replace the file, by what `Holds` describes: the file that this request was given and
  one revision for each update of what it was asked for (`UpdatesOf`).
* `Refinement`: `ImplementsLedger`. The initial states map to initial states (`LedgerInit`)
  and every step to a step of `SignatureLedger` or to a stutter (`LedgerStep`).

The hypothesis `ForeignAreUnsigned` of these theorems says that updates of other programs are
revisions without a signature of this library (they can sign, before the file gets here).

**The object graph and what is reported of it** (`SignedDocumentProofs` as well). The hypotheses
`EditorsOnly` and `KnownBases` say that other programs update files as the editors of
`OtherPrograms` do and that files start as its `BaseDoc` or `ThirdPartySigned` makes them, with any
pages, slack and line ends; all runs are instances of them.

* `FilesInvariance`: `FilesInv`, for the saved file and that of every request, says `DocInv`:
  the object graph at the end of every revision is `WellFormed` (catalog, pages, content and
  text field are where they belong, references to a form or an array lead to one), and every
  revision is a `GraphStep` from the graph before (no object changes its kind, a form loses
  no field, a signature field does not change). Revisions of this library besides follow what
  `Hooks` describes: new numbers for dictionary and field, the catalog, the form and one page
  rewritten with one entry more.
* `OverwritesCorrect`, `ListedCorrect`: `OverwritesOnlyHooks` and `SignaturesStayListed`
* `AlterationsCorrect`, `NotShieldedCorrect`: `AlterationsShow` and `NotShielded`. What the
  classifiers call safe alters nothing a reader sees (`SafeAltersNothing`), whatever the
  newest form is that they consult; so an alteration is an unsafe revision.
* `OnlyAlterationsCorrect`: `OnlyAlterationsShow`, the converse, for the default classifier
  (`~Strict`; the strict one refuses harmless updates on purpose). It needs an invariant of
  its own, since a comparison of entries can also fail on what is well formed: graphs stay
  `Tame` (numbers in streams and fields are numbers, entries refer to objects that exist,
  only a certification fills `/Perms`) from a base that is `Fresh`. Then every update of an
  editor changes what a reader sees or is `Harmless`, and this library's own revisions pass
  as the signature, timestamp and DSS revisions that they are.
* `BlamedCorrect`: `BlamedForAlterations`, the converse of `NotShielded` for the question that
  policies ask, by the same case analysis: the revision that is blamed is none of the
  library's, because those end a revision and stay listed (`OwnEndsRevision`).
* `CoverageCorrect`: the action property `CoverageNeverRegained`. A signature's revision that
  a later file still finds in its place ended there in the earlier one (`EndsStable`), and
  was as safe (`SafeStable`).
* `EarlierCorrect`: the action property `EarlierSignaturesStayValid`, from `ListedOnward` and
  from what `DocInv` says of revisions of this library: they end in a line feed.
* `DeliveredCorrect`: `DeliveredLevelVerifies`, where signer and TSA are trusted. What the
  property excepts (a CMS or token that ends in a zero byte) is what the code does wrong.
* `InspectionCorrect`: `InspectionAgrees`. The inspection adds up where revisions end
  (`RevisionEnds`, a recursion over the revisions) and the analysis scans each from its own
  marker; the ends grow (`EndsGrow`), so only the last revision reaches the end of the file, and
  where the scanner takes all there is, no newline was left over for the next. CMS are found
  by object number, so the dictionaries of different signatures have different ones
  (`DictsDistinct`), and `/Perms` names a dictionary that a certification made (`PermsOnward`).

None of these properties is inductive: each compares two graphs, and that they are
well formed depends on all revisions before. The invariant is about revisions, so
that a step only has to look at the one it appends: the graph after a revision is the one
before overwritten (`AtStep`), a graph whose rewritten objects are of the old kind and well
formed stays well formed (`WellFormedStep`), and there is one lemma per shape of revision:
`HookedGraph` for signatures, `PlainGraph`, `AnnotateEdit` and `DssEdit` for editors,
`BaseGraph` and `ThirdPartyGraph` for the files that other producers start.

**The writer** (`IncrementalWriterProofs`), for every job, signature length, reserve and integer
width that `WriterAssumption` admits: `Invariance`, `TypeCorrect`, `RangesCorrect`,
`SignedBytesCorrect` and `ContentsCorrect` (`RangesExcludeOnlyContents`,
`SignedBytesUnchanged`, `ContentsHoldTheSignature`) and `OriginalCorrect` (the action property
`OriginalUntouched`). The properties are not inductive: while the dictionary is being
written nothing ties the recorded offsets to the buffer's contents. `IInv` adds, per phase
of the writer, where the placeholders lie (both inside the appended part, disjoint, and as
long as recorded) and that every byte written later lies behind them. Each action has
one lemma that it preserves `IInv`; appending leaves recorded positions alone, patching
and injecting overwrite exactly one placeholder. The digest is then taken over positions
that injection does not touch.

Two more invariants and a property of the verifier stand on it:

* `XrefCorrect` (`XrefFindsEveryObject`) by `XrefInv`: the entries are exactly the objects in
  the buffer, no number comes twice and none is 0, an object that is not yet written has no
  entry, and no object begins inside a placeholder, so that patching moves none. That sorting
  the entries and grouping them into subsections loses none is shown of the recursive
  functions behind them, by induction (`SortedEntries`, `GroupLists`, `SectionLists`).
* `OwnOutputCorrect` (`OwnOutputPasses`): the gap in the ranges of a finished file is exactly
  what the extractor decodes, a hex string whose digits are the signature and the padding;
  trimming leaves the signature, less a last byte that is zero (`SignatureCut`), and only
  zeros follow, which is what the integrity check compares.
* `RefusedCorrect` (`RefusedIffTooWide`) by `WidthInv`, which ties the outcome to the recorded
  lengths. The number of digits and the powers of ten are recursive functions as well;
  `WideNumbers` says that a number has more than `w` digits iff it is at least 10 to the `w`.

Both inductions are written out: a solution of the recursion is exhibited, and a least number
for which the claim fails is led to a contradiction.

**ByteRanges of other producers** (`ForeignRangeProofs`): `NothingHiddenCorrect`
(`PassedLeavesOutOnlyContents`) for any file, range and parsed `/Contents`, the library's own
output among them. That the check has
decided as the conditions of `verify_byte_range_ex` say of the file it was given (`Decided`) is
the invariant; what then lies in the gap is the hex string of the signature, digit by digit.

**Certificate paths** (`PathValidationProofs`): `TrustedCorrect` (`TrustedIsSound`) for any
certificates, embedded in any order, circles among them, and revocations at any time. `IInv`
says that the chain starts at the signer and continues among the embedded certificates, and
that the results so far (`Describes`) are true of one certificate each: what was revoked before
validation began is reported so or was not answered for. `PathFoundCorrect`
(`PathFoundIfUnambiguous`) under `RootsOnly`: the anchors are self-issued, since chain building
moves past an intermediate anchor. Its invariant `SearchInv` says that the chain follows issuers and why it
ended where it did; where every issuer is unique, chain and expected path agree step by step, and
neither goes further than a root. `StepsBounded` is the action property that every step of
`Validate` lowers `StepsLeft` (certificates that the chain can still take, then lookups to go)
and that revocations meanwhile leave it alone, also where certificates certify each other in a
circle; that some step is taken at all needs the fairness and stays with TLC.

**The CMS** (`CmsSigningProofs`), for any signers, documents and answers of the service:
`VerifiedCorrect` and `RemoteCorrect` (`VerifiedMeansSigned`, `RemoteEqualsLocal`), and
`OwnCorrect` (`OwnSignatureVerifies`) under `SchemesFit`: a signer's scheme is one that
`SoftwareSigner` uses for its kind of key. `build` and `pre_sign` with `complete_cms` are
operators of their own (`BuiltCms`; `PreSigned` and `Completed`), and `RemoteCorrect` shows that
a service that answers what it was asked makes of the second what the first makes. `IInv` follows the attributes from `pre_sign` over the
session to the CMS, and says that every hash ever sent to the service is of such attributes.

**Seals** (`SealedDocumentProofs`): `VouchesCorrect`, `SpeaksCorrect`, `AgedCorrect` and
`SealsCorrect` (`TimestampVouches`, `SvtSpeaksForThisSignature`, `AgedSignatureStaysValid`,
`SealVerifies`, the last one under `SchemesFit`) for files of any length and any signers, issuers and
sealers that `SealAssumption` and `SvtAssumption` admit. `IInv` relates the file to what
happened: a token's imprint and time are of something its maker saw, every CMS names its
maker, a seal carries an SVT that was issued, and every claim in an SVT is about a signature it
was issued for. Appending and damage leave contents as they are, so only the step that
makes a token or an SVT has something to show. The properties follow because hashes are
injective: a matching imprint is of the bytes in the file, and a matching claim is about this
signature and its revision. `SealsCorrect` needs the converse, `MadeInvariance`: every
token in the file was made over its revision by the one who attested it.

**Validation material** (`DssCollectionProofs`): `GapsCorrect` (`GapsOnlyWhereBothFailed`) for
chains of any length and any number of collections, updates and DSSs. `IInv` ties the running job
to what lies behind it: an awaited certificate has an issuer, a CA's number never falls below
the one at the start of the call, and every certificate before the current one is answered
or recorded as unanswered. Answers once collected stay (`AnsweredStays`), so each step has
to look at the certificate it leaves only. `DssReadsBackCorrect` (`DssReadsBack`) for any number
of DSSs, entries and collections and any order of a `HashMap`'s keys: `DssInv` says that the
references of every DSS lead to the lists it was built from (`HoldsDss`) and that the builder has
only grown since (`Grown`). Building appends streams, so what a reference led to stays there
(`AddArrayHolds`, `WrittenHolds`), and the order of the keys reaches every entry because an
injective sequence of all their number is onto. The recursions over chains, entries and lists
have solutions by `RecursionExists`; that skipping empty items is monotone
(`WithDataExtends`) gives the prefixes.

**Verdicts over time** (`ValidationOverTimeProofs`), for every timeline and configuration that
`TimelineAssumption` and `PolicyAssumption` admit: `TypeCorrect`, `PassedCorrect`
(`PassedMeansValid`, from the type of the result alone, by going through the conditions of
policies and indications), `LongTermCorrect`, `LateUseCorrect` and `AnsweredCorrect`
(`LongTermValidity`, `LateUseRefused`, `PassedMeansAnswered`). A report outlives the state it
was made in (the clock runs on, the CA revokes later), so these need an invariant on reports,
`Recorded`, and one on when keys are used, `SignedInValidity`: a path that is validated at the
time of a verified timestamp is inside its validity only because the key was used then.

### Only model-checked

`Terminates` of `path` is a liveness property, which the proof system cannot treat; of it
`StepsBounded` is proved. Every other property of a passing run is a theorem. The statements
that the runs of the second table refute have counterexamples and no proofs.

## 5. Abstractions to keep in mind

* Cryptography is ideal: hashes have no collisions, and a signature verifies over what it
  was made for and nothing else. Outside `CmsSigning` and `SealedDocument` a signature is
  over the bytes of the file themselves, which is what an RSA key with SHA-2 amounts to there.
* `CmsSigning` verifies what this library builds. CMS of other producers (several
  SignerInfos, missing attributes) and the re-encoding fallback of
  `verify_signer_info_signature` are absent.
* Objects are compared as values; a stream that is written again unchanged is equal
  to itself. PDF syntax, compression and encryption are absent.
* Tokens in `SealedDocument` are whole or their revision is damaged outside of `/Contents`;
  damage of the token itself is a parse error or a failed signature and is left out.
* An SVT's time and policy claims, which nothing in the library interprets, are absent.
* Updates that free objects, hybrid xref files and files the parser rejects are absent.
* The trust store, the revocation clients and the TSA client are in the external crate
  `tsp_ltv` and are modelled by what this code relies on.

### Met while modelling

Behaviour of the code that differs from what its documentation suggests, or that a user
should know, and that no run is kept for. The models have it as the code does it.

* Revision analysis compares entries as they are written: if a page's `/Annots` is a
  reference, or the catalog has a null inside one of its entries, harmless revisions
  (this library's own among them) count as unsafe (`core/revision.rs:728-901`).
* If no newline follows the last `%%EOF`, the newline that a later update starts with is
  counted to the earlier revision, whose signature then no longer reaches its end
  (`core/revision.rs:224`).
* The extractor does not follow an indirect `/Fields` (`verify/extractor.rs`), nor does the
  inspection (`inspect/signatures.rs:152`); signing such a file replaces the reference by an
  array of the new field alone (`core/acroform.rs:145`).
* The extractor pops every trailing zero byte of `/Contents`, also one that belongs to the
  DER; a CMS or token that ends in a zero byte comes back short (`verify/extractor.rs:163`) and
  no longer parses (`verify/cms_verify.rs:120`), so that a signature this library made is
  Invalid, or loses the level its timestamp gave it. The integrity check passes all the same.
  `SignThenVerify` has the bytes, `PdfDocument` and `Verifier` the consequence:
  `OwnOutputPasses` and `DeliveredLevelVerifies` name the exception. Only `SealedDocument`, which
  starts at the token, leaves it out.
* A sound signature followed by a DSS is reported Invalid when it is the last one, because
  the final signature must reach the end of the file (`verify/mod.rs:187`).
* Chain building skips an issuer that shares its serial number with a certificate already
  in the chain, and keeps the root if it is appended in the last iteration, where the root's
  own validity counts too (`verify/chain_verify.rs:493-555`, `RootKept`). A trust anchor that
  is an intermediate CA is only found if it is not embedded itself: otherwise the chain goes on
  to the CA's issuer and the path is sought from there.
* Revocation that nobody answered for is reported Valid with a placeholder source unless
  the `RevocationConfig` requires it, and the policy's own `require_revocation_check` sees
  only that result (`verify/chain_verify.rs:424`): an unanswered lookup passes, where
  `policy/pkix.rs:28` says that it is INDETERMINATE. `PassedMeansAnswered` asks for an answer
  where `StrictLookup` is on.
* Online validation checks a path at the time of the timestamp, so the policy's check of
  the current time never fires; offline validation uses the clock although the report
  names the timestamp's time (`verify/chain_verify.rs:98`, `verify/mod.rs:383`).
* `/M` is a PDF date, which the policy's RFC 3339 parser never accepts (`policy/pkix.rs:161`).
* RSA with SHA-3 is signed as PSS with SHA-3, but PSS is only verified with SHA-2; a remote
  ECDSA key verifies only with its curve's own digest; Ed25519 is verified over the
  attributes, but a remote service is sent their hash (`verify/cms_verify.rs:1338-1362`).
  `Verifiable` of `CmsSigning` says which signers remain.
* The messageDigest attribute of a document timestamp is not compared with its TSTInfo;
  the comment at `verify/cms_verify.rs:810` says that the signature verification does so.
  `VerifyDocTimestamp` checks what the code checks.
* `verify_jwt` of an SVT does not look at its expiry; callers have to call `check_expiry`.
  A certificate that is trusted itself or found by `kid` is used whatever its validity
  (`svt/validator.rs:349-385`); without any hint the first trusted one is used.
* EdDSA is in the registry of SVT algorithms, but neither issuer nor validator has a
  signer for it (`svt/algo.rs`, `svt/issuer.rs:290`).
* A seal's algorithm identifier goes by the curve, and P-521 has none
  (`svt/embed.rs:409`), while `PdfCmsBuilder` goes by the digest.
* The ETSI indications follow the status and not the policy: a genuine signature of a revoked
  certificate is INDETERMINATE with NO_CERTIFICATE_CHAIN_FOUND, since REVOKED is a
  sub-indication of TOTAL-FAILED only (`report/generator.rs:614`, `:642`).
* `validation_time_used` is `None` without a verified timestamp, although its comment says
  that it is the current time then (`verify/report.rs:86`).
* The last certificate of a chain is never asked about, also if it is the only one and no
  root; OCSP responses are not deduplicated; reading a DSS drops empty streams
  (`ltv/dss.rs:115`, `inspect/signatures.rs:418`).
* `digest_algorithm` of `SigningOptions` and of `RemoteSigningOptions` is ignored: the
  signer's is used (`signer.rs:631`, `remote.rs:331`).

## 6. Not modelled, and the plan

Modelled: writer, documents, signing, revision analysis, integrity, path validation, policies,
the report pipeline, CMS, SVT and seals, ETSI indications, inspection, DSS.

The plan of proofs is done. Of the hazards, those without a property are listed in `PROJECT.json`
with the reason: objects that updates free or drop, names and strings written without escapes,
the analysis that fails and the recursion over a DSS depend on PDF syntax, which the models do
without, and the reference time of the PKIX policy decides no verdict.

Not modelled, per component:

* *Verifier*: the fallback for files whose revision analysis fails. The analysis fails when a
  prefix of the file does not parse, which the external PDF parser decides.
* *CMS verification*: CMS of other producers and the re-encoding of DER.
* *ETSI report*: XML, signer information, quality and attribute values are copied from the
  result. *Inspection*: the listings of objects and ASN.1 values are printed as they are.
* *Extraction*: textual metadata of signatures. *Trust store, OCSP, CRL and TSA clients*: in
  the external crate `tsp_ltv`.
* *Appearance* (`visual/`) draws; its effect on the file is a number of streams, which
  `PdfDocument` has. *SACI* parses one extension, *metadata* reads one dictionary, error
  types have no behaviour: none has state or an effect on verdicts.
