--------------------------- MODULE OtherPrograms ---------------------------
(***************************************************************************)
(* Files that other producers hand to the library, and the incremental     *)
(* updates other programs append to a signed file.  External: none of this *)
(* is the library's code; the shapes are those its code distinguishes      *)
(* (core/acroform.rs, core/revision.rs, core/parser.rs).                   *)
(***************************************************************************)
EXTENDS PdfDocument

Content == 4      \* the content stream of the pages
TextField == 5    \* a form field that is not a signature
AnnotsArray == 6  \* the array an indirect /Annots of page 0 refers to
FieldsArray == 7  \* the array an indirect /Fields refers to
FormId == 8       \* an indirect AcroForm
Metadata == 9     \* the stream of the catalog's /Metadata

ASSUME OtherProgramsAssumption ==
  /\ PageIds # <<>>
  /\ ToSet(PageIds) \cup {Catalog} \subseteq Nat \ (Content .. Metadata)

\* form: "none", "inline", "ref" or "other"; fields and annots: shapes of
\* /Fields and of the first page's /Annots
BaseObjects(form, fields, annots, null) ==
  LET f == CASE fields = "array" -> Direct(<<TextField>>)
             [] fields = "ref"   -> Indirect(FieldsArray)
      a == CASE annots = "array"  -> Direct(<<TextField>>)
             [] annots = "ref"    -> Indirect(AnnotsArray)
             [] annots = "absent" -> Absent
      entry == CASE form = "none"   -> FormNone
                 [] form = "inline" -> FormInline(AcroForm(f, 0))
                 [] form = "ref"    -> FormRef(FormId)
                 [] form = "other"  -> FormOther
  IN  Obj(Catalog, [CatalogObj(entry, null) EXCEPT !.lang = 1])
        ++ [n \in ToSet(PageIds) |-> Page(IF n = PageIds[1] THEN a ELSE Absent, Content, FALSE)]
        ++ Obj(Content, Stream(0)) ++ Obj(TextField, Field("Tx", 0))
        ++ Obj(AnnotsArray, ArrayObj(<<TextField>>))
        ++ Obj(FieldsArray, ArrayObj(<<TextField>>))
        ++ Obj(FormId, AcroForm(f, 0)) ++ Obj(Metadata, Stream(0))

\* slack: numbers the source's /Size exceeds what it uses by
BaseDoc(form, fields, annots, null, stream, tail, slack) ==
  <<Revision(BaseObjects(form, fields, annots, null), Metadata + 1 + slack, stream, tail, NoSig)>>

Update(doc, objs, tail, sig) ==
  LET last == doc[Len(doc)]
  IN  Revision(objs, MaxOf({last.size, MaxOf(DOMAIN objs) + 1}), last.stream, tail, sig)

\* An entry with one more item, as a program does it that follows references:
\* <<entry, objects rewritten>>.
Extend(st, entry, item) ==
  IF entry.shape = "ref"
  THEN <<entry, Obj(entry.ref, ArrayObj(Append(st[entry.ref].items, item)))>>
  ELSE <<Direct(Append(entry.items, item)), <<>>>>

\* a signature by another program, on the first page of a file whose form is
\* an indirect object
ThirdPartySigned(doc, tail) ==
  LET st    == Store(doc)
      dict  == MaxId(doc) + 1
      field == dict + 1
      form  == st[Catalog].form.id
      page  == PageIds[1]
      fs    == Extend(st, st[form].fields, field)
      as    == Extend(st, st[page].annots, field)
      objs  == Obj(dict, SigDict("thirdParty")) ++ Obj(field, Field("Sig", dict))
                 ++ Obj(form, AcroForm(fs[1], SigFlags)) ++ fs[2]
                 ++ Obj(page, [st[page] EXCEPT !.annots = as[1]]) ++ as[2]
      out   == Append(doc, Update(doc, objs, tail,
                 [what |-> "thirdParty", dict |-> dict, cms |-> NoCms]))
  IN  InjectCms(out, Blank(out), FALSE)

-----------------------------------------------------------------------------
(* Updates other programs append. *)

ChangeContent(st) == Obj(Content, Stream(st[Content].data + 1))
FillField(st)     == Obj(TextField, Field("Tx", st[TextField].v + 1))
ChangeLang(st)    == Obj(Catalog, [st[Catalog] EXCEPT !.lang = @ + 1])
SavePage(st)      == Obj(PageIds[1], st[PageIds[1]])
ChangeMetadata(st) == Obj(Metadata, Stream(st[Metadata].data + 1))

\* a DSS with one certificate stream, and one more stream in an existing DSS
AddDss(st, next, ext) ==
  Obj(next, Dss({next + 1})) ++ Obj(next + 1, Stream(next + 1))
    ++ Obj(Catalog, [st[Catalog] EXCEPT !.dss = next, !.ext = IF ext THEN 1 ELSE @])
GrowDss(st, next) ==
  Obj(st[Catalog].dss, Dss(st[st[Catalog].dss].refs \cup {next})) ++ Obj(next, Stream(next))

AnnotatePage(st, next, hidden) ==
  LET page == PageIds[Len(PageIds)]
      as   == Extend(st, st[page].annots, next)
  IN  Obj(next, Annotation(hidden)) ++ Obj(page, [st[page] EXCEPT !.annots = as[1]]) ++ as[2]

SafeEdits(st, next) ==
  {SavePage(st), ChangeMetadata(st), AnnotatePage(st, next, TRUE)}
    \cup (IF st[Catalog].dss = 0 THEN {AddDss(st, next, e) : e \in BOOLEAN}
                                 ELSE {GrowDss(st, next)})
UnsafeEdits(st, next) ==
  {ChangeContent(st), FillField(st), ChangeLang(st), AnnotatePage(st, next, FALSE)}

EditorUpdates(doc) ==
  LET st   == Store(doc)
      next == MaxId(doc) + 1
  IN  {Update(doc, objs, <<"LF">>, NoSig) : objs \in SafeEdits(st, next) \cup UnsafeEdits(st, next)}
=============================================================================
