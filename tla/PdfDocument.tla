----------------------------- MODULE PdfDocument -----------------------------
(***************************************************************************)
(* A PDF file as the library sees it: a sequence of revisions, each an     *)
(* incremental update that writes some objects, and the object graph that  *)
(* its cross-reference chain resolves to.  Byte offsets are the subject of *)
(* IncrementalWriter; here a revision is what one update appended.         *)
(*                                                                         *)
(* The operators are the pure steps that sign, prepare_signature and       *)
(* prepare_doc_timestamp share: allocate objects, hook the new field into  *)
(* the AcroForm and the page (core/acroform.rs), and collect the objects   *)
(* the writer appends.                                                     *)
(***************************************************************************)
EXTENDS Integers, Sequences, SequencesExt, FiniteSets, TLC

CONSTANTS Catalog,  (* object number of the root catalog                     *)
          PageIds   (* sequence of the object numbers of the pages; page p   *)
                    (* of the code is entry p + 1                            *)

ASSUME DocumentAssumption ==
  /\ Catalog \in Nat \ {0}
  /\ PageIds \in Seq(Nat \ {0, Catalog})

-----------------------------------------------------------------------------
(* Values.  0 stands for an absent reference. *)

\* a set of objects: one, and the objects f together with those of g that f lacks
Obj(n, value) == [k \in {n} |-> value]
f ++ g == [n \in DOMAIN f \cup DOMAIN g |-> IF n \in DOMAIN f THEN f[n] ELSE g[n]]

\* an entry such as /Fields or /Annots: absent, an array, or a reference to one
Absent      == [shape |-> "absent", items |-> <<>>, ref |-> 0]
Direct(s)   == [shape |-> "array",  items |-> s,    ref |-> 0]
Indirect(n) == [shape |-> "ref",    items |-> <<>>, ref |-> n]

AcroForm(fields, flags) == [kind |-> "acroform", fields |-> fields, flags |-> flags]
NoForm == AcroForm(Absent, 0)

\* the catalog's /AcroForm entry; "other" is neither reference nor dictionary
FormNone       == [at |-> "none",   dict |-> NoForm, id |-> 0]
FormInline(af) == [at |-> "inline", dict |-> af,     id |-> 0]
FormRef(n)     == [at |-> "ref",    dict |-> NoForm, id |-> n]
FormOther      == [at |-> "other",  dict |-> NoForm, id |-> 0]

\* null: the object holds an entry whose direct value is, or contains, null
CatalogObj(form, null) ==
  [kind |-> "catalog", form |-> form, perms |-> 0, dss |-> 0, ext |-> 0, lang |-> 0,
   null |-> null]
Page(annots, content, null) ==
  [kind |-> "page", annots |-> annots, content |-> content, null |-> null]
ArrayObj(s)     == [kind |-> "array", items |-> s]
Stream(v)       == [kind |-> "stream", data |-> v]
Dss(refs)       == [kind |-> "dss", refs |-> refs]
XrefStreamObj   == [kind |-> "xref"]
\* hidden: one of the conditions of is_invisible_annotation other than the
\* one about widgets of signature revisions holds
Annotation(hidden) == [kind |-> "annot", hidden |-> hidden]
Field(ft, v)       == [kind |-> "field", ft |-> ft, v |-> v, hidden |-> FALSE]
SigDict(what)      == [kind |-> "sig", what |-> what]

-----------------------------------------------------------------------------
(* Revisions and documents. *)

\* over: the bytes it signs; zero: the last byte of its DER is zero, which the
\* readers of /Contents take for padding
Cms(over, zero) == [over |-> over, zero |-> zero]
NoCms == Cms(<<>>, FALSE)
NoSig == [what |-> "none", dict |-> 0, cms |-> NoCms]

\* objs: object number -> value written; size: the trailer's /Size; stream:
\* the section is an XRef stream; tail: the bytes after the %%EOF marker
Revision(objs, size, stream, tail, sig) ==
  [objs |-> objs, size |-> size, stream |-> stream, tail |-> tail, sig |-> sig]

\* a revision as Revision makes it, and files of such
IsRevision(rev) ==
  /\ rev = Revision(rev.objs, rev.size, rev.stream, rev.tail, rev.sig)
  /\ rev.sig = [what |-> rev.sig.what, dict |-> rev.sig.dict, cms |-> rev.sig.cms]
  /\ rev.sig.cms = Cms(rev.sig.cms.over, rev.sig.cms.zero)
IsDocument(doc) ==
  /\ doc # <<>> /\ doc \in Seq(ToSet(doc))
  /\ \A i \in DOMAIN doc : IsRevision(doc[i])

Written(doc) == UNION {DOMAIN doc[i].objs : i \in DOMAIN doc}

\* the object graph: the newest revision that wrote a number defines it
Store(doc) ==
  [n \in Written(doc) |->
     LET newest == CHOOSE i \in DOMAIN doc :
                     /\ n \in DOMAIN doc[i].objs
                     /\ \A j \in DOMAIN doc : n \in DOMAIN doc[j].objs => j <= i
     IN  doc[newest].objs[n]]

MaxOf(S) == CHOOSE m \in S \cup {0} : \A k \in S : k <= m
\* Mutant: only the newest cross-reference section is looked at.
MaxIdOfLast(doc) == MaxOf(DOMAIN doc[Len(doc)].objs)

\* lopdf's max_id: the largest number in the merged cross-reference table
MaxId(doc) == MaxOf(Written(doc))

\* The bytes a signature in the last revision covers: all but its /Contents.
Blank(doc) == [doc EXCEPT ![Len(doc)].sig.cms = NoCms]

\* an ideal digest: a signature verifies over these bytes and no others
Verifies(doc, i) ==
  /\ doc[i].sig # NoSig
  /\ doc[i].sig.cms.over = Blank(SubSeq(doc, 1, i))

-----------------------------------------------------------------------------
(* core/acroform.rs *)

SigFlags == 3

\* Mutant: the field becomes the only one.
UpdateAcroFormReplacing(af, field) ==
  [af EXCEPT !.flags = SigFlags, !.fields = Direct(<<field>>)]

UpdateAcroForm(af, field) ==
  [af EXCEPT !.flags = SigFlags,
             !.fields = IF @.shape = "array" THEN Direct(Append(@.items, field))
                                             ELSE Direct(<<field>>)]

AddAnnot(page, field) ==
  [page EXCEPT !.annots =
     CASE @.shape = "array"  -> Direct(Append(@.items, field))
       [] @.shape = "ref"    -> Direct(<<@.ref, field>>)
       [] @.shape = "absent" -> Direct(<<field>>)]

CanHook(doc, page) ==
  /\ page + 1 \in DOMAIN PageIds
  /\ Store(doc)[Catalog].form.at # "other"

\* ensure_acroform: the catalog, form and page as changed; newForm is the
\* number a form gets that was absent or inline
EnsureAcroForm(st, field, page, newForm) ==
  LET form == st[Catalog].form
      id   == IF form.at = "ref" THEN form.id ELSE newForm
      af   == CASE form.at = "ref"    -> UpdateAcroForm(st[form.id], field)
                [] form.at = "inline" -> UpdateAcroForm(form.dict, field)
                [] form.at = "none"   -> AcroForm(Direct(<<field>>), SigFlags)
      pid  == PageIds[page + 1]
  IN  Obj(Catalog, [st[Catalog] EXCEPT !.form = FormRef(id)])
        ++ Obj(id, af) ++ Obj(pid, AddAnnot(st[pid], field))

-----------------------------------------------------------------------------
(* One signature revision, before its /Contents is filled. *)

\* /DocMDP: a certification signature also enters itself in /Perms
CatalogPerms(objs, what, dict) ==
  IF what = "certify" THEN [objs EXCEPT ![Catalog].perms = dict] ELSE objs

\* what: "approval", "certify" or "timestamp"; visuals: how many appearance
\* objects come with it.  Numbers are handed out as doc.add_object does.
SignatureRevision(doc, what, page, visuals) ==
  LET dict  == MaxId(doc) + 1
      field == dict + visuals + 1
      extra == [n \in dict + 1 .. dict + visuals |-> Stream(n)]
      hook  == EnsureAcroForm(Store(doc), field, page, field + 1)
      objs  == Obj(dict, SigDict(what)) ++ Obj(field, Field("Sig", dict)) ++ extra
                 ++ CatalogPerms(hook, what, dict)
      last  == doc[Len(doc)]
      top   == MaxOf(DOMAIN objs)
      num   == 1 + MaxOf({top, last.size - 1})
      all   == IF last.stream THEN objs ++ Obj(num, XrefStreamObj) ELSE objs
      size  == IF last.stream THEN num + 1 ELSE MaxOf({last.size, top + 1})
  IN  Revision(all, size, last.stream, <<"LF">>,
               [what |-> what, dict |-> dict, cms |-> NoCms])

\* Mutant: the last revision is rewritten instead of a new one appended.
WithSignatureRewriting(doc, what, page, visuals) ==
  [doc EXCEPT ![Len(doc)] = SignatureRevision(doc, what, page, visuals)]

WithSignature(doc, what, page, visuals) ==
  Append(doc, SignatureRevision(doc, what, page, visuals))

\* write the CMS into the placeholder of the last revision
InjectCms(doc, over, zero) == [doc EXCEPT ![Len(doc)].sig.cms = Cms(over, zero)]

-----------------------------------------------------------------------------
(* Who sees which signature fields. *)

FormOf(st) == CASE st[Catalog].form.at = "ref"    -> st[st[Catalog].form.id]
                [] st[Catalog].form.at = "inline" -> st[Catalog].form.dict
                [] OTHER -> NoForm

\* an array entry with its reference followed
Items(st, entry) ==
  CASE entry.shape = "array"  -> entry.items
    [] entry.shape = "ref"    -> IF entry.ref \in DOMAIN st /\ st[entry.ref].kind = "array"
                                 THEN st[entry.ref].items ELSE <<>>
    [] entry.shape = "absent" -> <<>>

\* signature dictionaries that a list of field references leads to
SigDictsOf(st, items) ==
  {st[n].v : n \in {k \in ToSet(items) \cap DOMAIN st :
                      st[k].kind = "field" /\ st[k].ft = "Sig" /\ st[k].v # 0}}

\* verify/extractor.rs: every trailing zero of /Contents is taken for padding, so
\* a CMS that ends in one is cut short, and what is left does not parse
IsWhole(cms) == ~cms.zero

\* verify/extractor.rs and core/parser.rs: /Fields must be an array itself, and
\* an empty /Contents is an unsigned placeholder
ExtractedSignatures(doc) ==
  LET st == Store(doc)
      fs == FormOf(st).fields
      ds == SigDictsOf(st, IF fs.shape = "array" THEN fs.items ELSE <<>>)
  IN  {i \in DOMAIN doc : /\ doc[i].sig # NoSig /\ doc[i].sig.dict \in ds
                          /\ doc[i].sig.cms # NoCms}

\* core/revision.rs get_acroform_fields: a reference is followed
AnalysedSignatures(doc) ==
  LET st == Store(doc)
      ds == SigDictsOf(st, Items(st, FormOf(st).fields))
  IN  {i \in DOMAIN doc : doc[i].sig # NoSig /\ doc[i].sig.dict \in ds}
=============================================================================
