----------------------------- MODULE Inspection -----------------------------
(***************************************************************************)
(* inspect/signatures.rs: what the inspection of a file reports of its     *)
(* signatures, their coverage and the file's revisions.  It reads the file *)
(* with rules of its own, so that applications see two accounts of one     *)
(* file, this one and that of the verifier.                                *)
(*                                                                         *)
(* Offsets count the %%EOF marker of a revision and the bytes behind it;   *)
(* all that precedes the marker counts as one byte.                        *)
(***************************************************************************)
EXTENDS RevisionAnalysis

EofMarker == 5

\* detect_revisions: every newline behind the marker belongs to the revision,
\* which starts where the one before ends
RevisionEnds(doc) ==
  LET end[i \in 0 .. Len(doc)] ==
        IF i = 0 THEN 0 ELSE end[i - 1] + 1 + EofMarker + Len(AfterEof(doc, i))
  IN  end

RevisionInfo(doc, i) ==
  [byteStart |-> RevisionEnds(doc)[i - 1], byteEnd |-> RevisionEnds(doc)[i]]

\* offset behind the %%EOF of revision i
EofOffset(doc, i) == RevisionInfo(doc, i).byteStart + 1 + EofMarker

FileSize(doc) == EofOffset(doc, Len(doc)) + Len(doc[Len(doc)].tail)

\* /Fields must be an array itself; an empty /Contents is listed all the same
InspectedSignatures(doc) ==
  LET st == Store(doc)
      fs == FormOf(st).fields
      ds == SigDictsOf(st, IF fs.shape = "array" THEN fs.items ELSE <<>>)
  IN  {i \in DOMAIN doc : doc[i].sig # NoSig /\ doc[i].sig.dict \in ds}

\* compute_coverage: what ByteRange and gap add up to, of the file's size
Coverage(doc, i) == [covered |-> EofOffset(doc, i) + Len(doc[i].tail), fileSize |-> FileSize(doc)]

SignatureFieldInfo(doc, i) ==
  [objNum |-> doc[i].sig.dict, coverage |-> Coverage(doc, i), empty |-> doc[i].sig.cms = NoCms,
   docMdp |-> doc[i].sig.what = "certify"]

\* extract_cms_by_object: the /Contents of a dictionary, if there are any
CmsByObject(doc, n) ==
  {doc[i].sig.cms : i \in {i \in DOMAIN doc : doc[i].sig.dict = n /\ doc[i].sig.cms # NoCms}}
=============================================================================
