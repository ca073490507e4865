------------------------------- MODULE Signing -------------------------------
(***************************************************************************)
(* The signing operations over a saved PDF: PdfSigner::sign with its PAdES *)
(* levels (signer.rs), the three-phase remote protocol (remote.rs) and     *)
(* document timestamps (core/doc_timestamp.rs).                            *)
(*                                                                         *)
(* An operation that awaits an answer, from the remote signer or from the  *)
(* time-stamping authority, keeps a copy of the file it started from; the  *)
(* application saves whatever a finished operation returns.  Several       *)
(* requests can be open at once, and other programs update the saved file  *)
(* in between (ForeignUpdates).                                            *)
(***************************************************************************)
EXTENDS RevisionAnalysis

CONSTANTS Requests,      (* operations that can be open at the same time     *)
          BaseDocs,      (* files the application may start from             *)
          MaxRevisions,  (* bound: no operation starts on a file of this     *)
                         (* many revisions                                   *)
          Appearances,   (* numbers of appearance objects a local signature  *)
                         (* may bring                                        *)
          AskedPages,    (* page indices that options may name, existing     *)
                         (* ones or not                                      *)
          Kinds,         (* what signatures may be asked for: "approval",    *)
                         (* "certify"                                        *)
          Levels,        (* PAdES levels asked for: "BB", "BT", "BLT"        *)
          LastZero,      (* whether the CMS of a new signature or token may  *)
                         (* end in a zero byte                               *)
          ForeignUpdates(_) (* updates other programs may append to a file   *)

ASSUME SigningAssumption ==
  /\ Kinds \subseteq {"approval", "certify"} /\ Levels \subseteq {"BB", "BT", "BLT"}
  /\ Appearances \subseteq Nat /\ AskedPages \subseteq Nat /\ LastZero \subseteq BOOLEAN
  /\ \A doc \in BaseDocs : IsDocument(doc)

VARIABLES file,  \* the PDF the application has saved
          req    \* what each request is doing

vars == <<file, req>>

\* level: what was asked for; base: the file the request was given; out: the
\* file it works on; over: the bytes whose digest was sent out; err: why it failed
Request(st, level, base, out, over, err) ==
  [st |-> st, level |-> level, base |-> base, out |-> out, over |-> over, err |-> err]

Idle == Request("idle", "none", <<>>, <<>>, <<>>, "none")
Succeeded(level) == Request("ok", level, <<>>, <<>>, <<>>, "none")
Failed(err) == Request("failed", "none", <<>>, <<>>, <<>>, err)

Free(r) == req[r].st \in {"idle", "ok", "failed"}
Room == Len(file) < MaxRevisions

Init ==
  /\ file \in BaseDocs
  /\ req = [r \in Requests |-> Idle]

Set(r, value) == req' = [req EXCEPT ![r] = value]

\* The application saves the file that a finished operation returns.
Return(r, level, out) == Set(r, Succeeded(level)) /\ file' = out

Fail(r, err) == Set(r, Failed(err)) /\ UNCHANGED file

-----------------------------------------------------------------------------
(* Document timestamps: prepare_doc_timestamp, then the TSA is awaited. *)

\* Mutant: the digest is taken before the timestamp revision is written.
AwaitTokenEarlyDigest(r, level, base, doc, page) ==
  IF CanHook(doc, page)
  THEN LET out == WithSignature(doc, "timestamp", page, 0)
       IN  /\ Set(r, Request("awaitingToken", level, base, out, Blank(doc), "none"))
           /\ UNCHANGED file
  ELSE Fail(r, "AcroForm")

\* prepares doc and sends its digest, for a request that was given base
AwaitToken(r, level, base, doc, page) ==
  IF CanHook(doc, page)
  THEN LET out == WithSignature(doc, "timestamp", page, 0)
       IN  /\ Set(r, Request("awaitingToken", level, base, out, Blank(out), "none"))
           /\ UNCHANGED file
  ELSE Fail(r, "AcroForm")

\* add_document_timestamp, add_document_timestamp_pool
AddDocumentTimestamp(r) ==
  /\ Free(r) /\ Room
  /\ \E page \in AskedPages : AwaitToken(r, "TS", file, file, page)

\* the token is over the digest that was sent: the TSA client checks that
TokenArrives(r) ==
  /\ req[r].st = "awaitingToken"
  /\ \/ \E zero \in LastZero : Return(r, req[r].level, InjectCms(req[r].out, req[r].over, zero))
     \/ Fail(r, "SignatureTooLarge")

\* Mutant: without a token the file is returned as it was signed.
TsaFailsDowngrade(r) ==
  /\ req[r].st = "awaitingToken"
  /\ Return(r, req[r].level, Front(req[r].out))

TsaFails(r) ==
  /\ req[r].st = "awaitingToken"
  /\ Fail(r, "Tsp")

-----------------------------------------------------------------------------
(* PdfSigner::sign *)

\* apply_pades_level: the timestamp goes on page 0, whatever page was signed
ApplyPadesLevel(r, level, base, signed, tsaUrl) ==
  CASE level = "BB"             -> Return(r, level, signed)
    [] level = "BT" /\ tsaUrl   -> AwaitToken(r, level, base, signed, 0)
    [] level = "BT" /\ ~tsaUrl  -> Fail(r, "Configuration")
    [] level = "BLT"            -> Fail(r, "Configuration")

\* allowed: the registry admits the algorithms and validate_options the
\* options; fits: the CMS is no longer than content_size
Sign(r, what, level, page, visuals, allowed, fits, tsaUrl) ==
  /\ Free(r) /\ Room
  /\ IF ~allowed THEN Fail(r, "Refused")
     ELSE IF ~CanHook(file, page) THEN Fail(r, "AcroForm")
     ELSE IF ~fits THEN Fail(r, "SignatureTooLarge")
     ELSE LET out == WithSignature(file, what, page, visuals)
          IN  \E zero \in LastZero :
                ApplyPadesLevel(r, level, file, InjectCms(out, Blank(out), zero), tsaUrl)

-----------------------------------------------------------------------------
(* Remote signing *)

\* prepare_signature: the hash of the signed attributes goes to the service
PrepareSignature(r, page, allowed) ==
  /\ Free(r) /\ Room
  /\ IF ~allowed THEN Fail(r, "Refused")
     ELSE IF ~CanHook(file, page) THEN Fail(r, "AcroForm")
     ELSE LET out == WithSignature(file, "approval", page, 0)
          IN  /\ Set(r, Request("prepared", "BB", file, out, Blank(out), "none"))
              /\ UNCHANGED file

\* Mutant: the prepared revision is put on top of what is saved by now.
FinalizeSignatureRebased(r, answer, fits) ==
  /\ req[r].st = "prepared"
  /\ req[answer].st = "prepared"
  /\ IF fits THEN \E zero \in LastZero : Return(r, "BB",
                    InjectCms(Append(file, Last(req[r].out)), req[answer].over, zero))
             ELSE Fail(r, "SignatureTooLarge")

\* finalize_signature takes whatever signature the caller hands it: the
\* service answers for any hash it has been sent, and answers can be mixed up
FinalizeSignature(r, answer, fits) ==
  /\ req[r].st = "prepared"
  /\ req[answer].st = "prepared"
  /\ IF fits THEN \E zero \in LastZero :
                    Return(r, "BB", InjectCms(req[r].out, req[answer].over, zero))
             ELSE Fail(r, "SignatureTooLarge")

-----------------------------------------------------------------------------
\* another program appends an incremental update to the saved file
ForeignUpdate ==
  /\ Room
  /\ \E rev \in ForeignUpdates(file) : file' = Append(file, rev)
  /\ UNCHANGED req

Next ==
  \/ \E r \in Requests :
       \/ \E what \in Kinds, level \in Levels, page \in AskedPages, v \in Appearances,
             allowed, fits, tsaUrl \in BOOLEAN :
            Sign(r, what, level, page, v, allowed, fits, tsaUrl)
       \/ AddDocumentTimestamp(r) \/ TokenArrives(r) \/ TsaFails(r)
       \/ \E page \in AskedPages, allowed \in BOOLEAN : PrepareSignature(r, page, allowed)
       \/ \E answer \in Requests, fits \in BOOLEAN : FinalizeSignature(r, answer, fits)
  \/ ForeignUpdate

Spec == Init /\ [][Next]_vars
=============================================================================
