-------------------------- MODULE RevisionAnalysis --------------------------
(***************************************************************************)
(* core/revision.rs: which incremental updates after a signature are safe, *)
(* and what that says about each signature.  The verifier reads only these *)
(* answers (verify/mod.rs), so a verdict about "modified after signing" is *)
(* a verdict of this module.                                               *)
(***************************************************************************)
EXTENDS PdfDocument

CONSTANTS
  Strict,    (* TRUE: StrictSafeObjectClassifier, FALSE: the default             *)
  InfoIds,   (* objects that the trailer's /Info and the catalog's /Extensions   *)
             (* and /Metadata refer to                                           *)
  FontIds,   (* the /DR of an indirect form and its /Font, if they are indirect  *)
  ActionIds  (* the object of an /OpenAction array of one reference              *)

\* the updates of the model redirect none of these references
ASSUME ClassifierAssumption ==
  Strict \in BOOLEAN /\ InfoIds \cup FontIds \cup ActionIds \subseteq Nat \ {0}

-----------------------------------------------------------------------------
(* scan_eof_markers and find_signature_revision *)

\* An update that follows a file without a final newline supplies one first
\* (IncrementalWriter), and the scanner cannot tell whose newline it is.
AfterEof(doc, i) ==
  LET t == doc[i].tail
  IN  IF i < Len(doc) /\ (t = <<>> \/ Last(t) # "LF") THEN Append(t, "LF") ELSE t

\* Mutant: CR LF counts as one newline byte.
ScannedTailOneByte(doc, i) == IF AfterEof(doc, i) = <<>> THEN 0 ELSE 1

\* the scanner takes one LF, one CR or one CR LF into the revision
ScannedTail(doc, i) ==
  LET t == AfterEof(doc, i)
  IN  CASE t = <<>>                                       -> 0
        [] t # <<>> /\ t[1] = "LF"                        -> 1
        [] Len(t) > 1 /\ t[1] = "CR" /\ t[2] = "LF"       -> 2
        [] t # <<>> /\ t[1] = "CR" /\ ~(Len(t) > 1 /\ t[2] = "LF") -> 1

\* the covered length of the signature in revision i is a revision boundary
FindSignatureRevision(doc, i) == ScannedTail(doc, i) = Len(doc[i].tail)

IsSignatureRevision(doc, i) ==
  i \in AnalysedSignatures(doc) /\ doc[i].sig.what # "timestamp" /\ FindSignatureRevision(doc, i)
IsDocTimestamp(doc, i) ==
  i \in AnalysedSignatures(doc) /\ doc[i].sig.what = "timestamp" /\ FindSignatureRevision(doc, i)

-----------------------------------------------------------------------------
(* objects_match, is_invisible_annotation, is_only_new_annotations *)

IsDictionary(obj) == obj.kind \notin {"array", "stream", "xref"}
IsAnnotation(obj) == obj.kind \in {"annot", "field"}

Invisible(obj, sigRev) ==
  /\ IsAnnotation(obj)
  /\ obj.hidden \/ (obj.kind = "field" /\ sigRev)

\* every key but /Annots equal; an entry that holds null never matches itself,
\* and /Fields may differ in a signature revision, not appear or disappear
OtherKeysMatch(old, new, sigRev) ==
  /\ old.kind = new.kind
  /\ CASE old.kind = "page"     -> old.content = new.content /\ ~old.null /\ ~new.null
       [] old.kind = "acroform" -> /\ old.flags = new.flags
                                   /\ \/ old.fields = new.fields
                                      \/ /\ sigRev
                                         /\ old.fields # Absent /\ new.fields # Absent
       [] OTHER                 -> old = new

\* the references found in /Annots; nested arrays are references like any other
AnnotRefs(st, obj) == IF obj.kind = "page" THEN ToSet(Items(st, obj.annots)) ELSE {}

OnlyNewAnnotations(prev, curr, n, sigRev) ==
  LET old == prev[n]
      new == curr[n]
  IN  IF IsAnnotation(old) /\ IsAnnotation(new)
      THEN Invisible(new, sigRev)
      ELSE /\ IsDictionary(old) /\ IsDictionary(new)
           /\ OtherKeysMatch(old, new, sigRev)
           /\ AnnotRefs(prev, old) \subseteq AnnotRefs(curr, new)
           /\ \A a \in AnnotRefs(curr, new) \ AnnotRefs(prev, old) :
                a \in DOMAIN curr /\ Invisible(curr[a], sigRev)

-----------------------------------------------------------------------------
(* classify_revision *)

\* Catalog keys present on both sides whose values do not match, and keys that
\* only the new side has.  Keys that were removed are not looked at.
ChangedRootItems(old, new) ==
  {k \in {"AcroForm", "Perms", "DSS", "Extensions", "Lang", "nulls"} :
     CASE k = "AcroForm" -> old.form # FormNone /\ new.form # FormNone /\ old.form # new.form
       [] k = "Perms"    -> old.perms # 0 /\ new.perms # 0 /\ old.perms # new.perms
       [] k = "DSS"      -> old.dss # 0 /\ new.dss # 0 /\ old.dss # new.dss
       [] k = "Extensions" -> old.ext # 0 /\ new.ext # 0 /\ old.ext # new.ext
       [] k = "Lang"     -> old.lang # 0 /\ new.lang # 0 /\ old.lang # new.lang
       [] k = "nulls"    -> old.null /\ new.null}

AddedRootItems(old, new) ==
  {k \in {"AcroForm", "Perms", "DSS", "Extensions", "Lang"} :
     CASE k = "AcroForm" -> old.form = FormNone /\ new.form # FormNone
       [] k = "Perms"    -> old.perms = 0 /\ new.perms # 0
       [] k = "DSS"      -> old.dss = 0 /\ new.dss # 0
       [] k = "Extensions" -> old.ext = 0 /\ new.ext # 0
       [] k = "Lang"     -> old.lang = 0 /\ new.lang # 0}

\* DefaultSafeObjectClassifier: descriptions of the document, the DSS and
\* everything it refers to
ClassifierSafe(st) ==
  LET d == st[Catalog].dss
  IN  IF Strict THEN {} ELSE InfoIds \cup (IF d = 0 THEN {} ELSE {d} \cup st[d].refs)

\* add_root_safe_objects, in updates that rewrite the catalog: an indirect form
\* with its fonts, and a one-reference /OpenAction
RootSafe(st, rootUpdate) ==
  LET form == st[Catalog].form
  IN  IF ~rootUpdate THEN {}
      ELSE ActionIds \cup (IF form.at = "ref" THEN {form.id} \cup FontIds ELSE {})

Changed(doc, i) == DOMAIN doc[i].objs \cap Written(SubSeq(doc, 1, i - 1))

Unclassified == [safe |-> TRUE, dss |-> FALSE]

Classify(doc, i) ==
  IF i = 1 THEN Unclassified
  ELSE LET prev    == Store(SubSeq(doc, 1, i - 1))
           curr    == Store(SubSeq(doc, 1, i))
           sigRev  == IsSignatureRevision(doc, i) \/ IsDocTimestamp(doc, i)
           changed == Changed(doc, i)
           root    == Catalog \in changed
           items   == IF root THEN ChangedRootItems(prev[Catalog], curr[Catalog]) ELSE {}
           added   == IF root THEN AddedRootItems(prev[Catalog], curr[Catalog]) ELSE {}
           safe    == {n \in changed \ {Catalog} : OnlyNewAnnotations(prev, curr, n, sigRev)}
                        \cup RootSafe(curr, root) \cup ClassifierSafe(curr)
           ok      == items \subseteq {"AcroForm"} /\ changed \ {Catalog} \subseteq safe
       IN  [safe |-> ok, dss |-> root /\ ok /\ items = {}
                               /\ added \in {{"DSS"}, {"DSS", "Extensions"}}]

SafeUpdate(doc, i) == Classify(doc, i).safe
ValidDss(doc, i)   == Classify(doc, i).dss

-----------------------------------------------------------------------------
(* What the verifier asks about the signature in revision i. *)

\* Mutant: only the newest revision is asked.
CoversUpToLast(doc, i) ==
  FindSignatureRevision(doc, i) /\ (i < Len(doc) => SafeUpdate(doc, Len(doc)))

CoversWholeDocument(doc, i) ==
  /\ FindSignatureRevision(doc, i)
  /\ \A j \in i + 1 .. Len(doc) : SafeUpdate(doc, j)

\* Mutant: any ordinary update counts, safe or not.
ExtendedByAny(doc, i) ==
  /\ FindSignatureRevision(doc, i)
  /\ \E j \in i + 1 .. Len(doc) :
       ~IsSignatureRevision(doc, j) /\ ~IsDocTimestamp(doc, j) /\ ~ValidDss(doc, j)

\* Mutant: the very next revision decides.
ExtendedByNext(doc, i) ==
  /\ FindSignatureRevision(doc, i)
  /\ i < Len(doc) /\ ~SafeUpdate(doc, i + 1)
  /\ ~IsSignatureRevision(doc, i + 1) /\ ~IsDocTimestamp(doc, i + 1) /\ ~ValidDss(doc, i + 1)

\* the first later revision that is neither signature nor timestamp nor DSS
\* decides
ExtendedByNonSafe(doc, i) ==
  /\ FindSignatureRevision(doc, i)
  /\ \E j \in i + 1 .. Len(doc) :
       /\ ~SafeUpdate(doc, j)
       /\ ~IsSignatureRevision(doc, j) /\ ~IsDocTimestamp(doc, j) /\ ~ValidDss(doc, j)
       /\ \A k \in i + 1 .. j - 1 :
            IsSignatureRevision(doc, k) \/ IsDocTimestamp(doc, k) \/ ValidDss(doc, k)
=============================================================================
