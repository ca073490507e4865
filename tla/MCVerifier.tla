----------------------------- MODULE MCVerifier -----------------------------
(* Base files and bounds for the runs of Verifier. *)
EXTENDS Verifier

MCPageIds == <<2, 3>>
LF == <<"LF">>

\* files in which nothing is indirect but the form, no entry holds null and
\* the last line ends in one newline, of either xref format
PlainDocs ==
  { BaseDoc("none",   "array", "absent", FALSE, TRUE,  LF, 2),
    BaseDoc("inline", "array", "array",  FALSE, FALSE, LF, 0),
    BaseDoc("ref",    "array", "absent", FALSE, FALSE, LF, 2),
    ThirdPartySigned(BaseDoc("ref", "array", "array", FALSE, TRUE, LF, 0), <<"CR", "LF">>) }

FewPlainDocs ==
  { BaseDoc("ref", "array", "array", FALSE, FALSE, LF, 0),
    ThirdPartySigned(BaseDoc("ref", "array", "absent", FALSE, TRUE, LF, 0), LF),
    BaseDoc("other", "array", "absent", FALSE, FALSE, LF, 0) }

\* structures the modules disagree on: a page whose /Annots is a reference to an
\* array, a catalog with an entry such as /OpenAction [3 0 R /XYZ null null 0],
\* and signed files whose last line ends in every way
OddDocs ==
  { BaseDoc("ref", "array", "ref", FALSE, FALSE, LF, 0),
    BaseDoc("ref", "array", "absent", TRUE, FALSE, LF, 0) }
    \cup { ThirdPartySigned(BaseDoc("ref", "array", "array", FALSE, FALSE, LF, 0), tail) :
             tail \in {<<>>, <<"CR">>, <<"LF", "LF">>} }
    \cup { ThirdPartySigned(BaseDoc("ref", "ref", "ref", TRUE, FALSE, LF, 0), LF) }

AllDocs == PlainDocs \cup OddDocs
SignedDocs == { ThirdPartySigned(BaseDoc("ref", "array", "array", FALSE, FALSE, LF, 0), LF) }

\* an update that alters the document and a harmless one
FewUpdates(doc) ==
  LET st == Store(doc)
  IN  {Update(doc, objs, LF, NoSig) : objs \in {ChangeContent(st), SavePage(st)}}
=============================================================================
