------------------------- MODULE SignedDocumentProofs -------------------------
(***************************************************************************)
(* What signing promises about saved files and what verification finds in  *)
(* them, for files of any length and structure, any number of open         *)
(* requests and any updates of other programs.                             *)
(*                                                                         *)
(* The first part is about revisions as such: IInv says what a request     *)
(* that waits holds.  The second part is about the object graph that the   *)
(* revisions write, with updates of editors and base files of other        *)
(* producers.  Its properties speak of the graphs before and after a       *)
(* revision, and those are well formed only because every revision since   *)
(* the base kept them so: DocInv says of every prefix of the file that its *)
(* graph is WellFormed, and of every revision (StepOk) that it kept the    *)
(* kind of each object, the fields a form lists and signature fields       *)
(* (GraphStep), and, where it is a signature's, that it wrote only what    *)
(* hooks in the field (Hooks).  FilesInv says so of the file and of each   *)
(* open request.                                                           *)
(***************************************************************************)
EXTENDS Verifier, FiniteSetTheorems, WellFoundedInduction, TLAPS

-----------------------------------------------------------------------------
(* Sets of naturals. *)

\* Every nonempty set of naturals has a least element.
LEMMA LeastElement ==
  ASSUME NEW T, T \subseteq Nat, T # {}
  PROVE  \E x \in T : \A y \in T : x <= y
<1> DEFINE R == OpToRel(<, Nat)
<1>1. IsWellFoundedOn(R, Nat)  BY NatLessThanWellFounded
<1>2. \E x \in T : \A y \in T : ~(<<y, x>> \in R)
  <2> HIDE DEF R
  <2> QED BY <1>1, WFMin
<1>3. \E x \in T : \A y \in T : ~(y < x)
  BY <1>2 DEF OpToRel
<1> HIDE DEF R
<1> QED BY <1>3

\* Every nonempty set of naturals with a bound has a greatest element.
LEMMA GreatestElement ==
  ASSUME NEW S, S \subseteq Nat, S # {}, NEW b \in Nat, \A s \in S : s <= b
  PROVE  \E m \in S : \A s \in S : s <= m
<1> DEFINE T == {c \in Nat : \A s \in S : s <= c}
<1>1. T \subseteq Nat /\ T # {}  OBVIOUS
<1>2. PICK x \in T : \A y \in T : x <= y
  <2> HIDE DEF T
  <2> QED BY <1>1, LeastElement
<1>3. x \in Nat /\ \A s \in S : s <= x  BY <1>2
<1>4. \A c \in Nat : (\A s \in S : s <= c) => x <= c  BY <1>2
<1> HIDE DEF T
<1>5. SUFFICES ASSUME x \notin S PROVE FALSE  BY <1>3
<1>6. PICK s \in S : TRUE  OBVIOUS
<1>7. s \in Nat /\ s <= x /\ s # x  BY <1>3, <1>5
<1>8. x - 1 \in Nat  BY <1>3, <1>7
<1>9. \A t \in S : t \in Nat /\ t <= x /\ t # x  BY <1>3, <1>5
<1>10. \A t \in S : t <= x - 1  BY <1>3, <1>9
<1> QED BY <1>3, <1>4, <1>8, <1>10

\* A set that holds 0 and every successor of its naturals holds all naturals.
LEMMA SetInduction ==
  ASSUME NEW S, 0 \in S, \A n \in Nat : n \in S => n + 1 \in S
  PROVE  Nat \subseteq S
<1>1. SUFFICES ASSUME Nat \ S # {} PROVE FALSE
  OBVIOUS
<1>2. PICK x \in Nat \ S : \A y \in Nat \ S : x <= y
  BY <1>1, LeastElement
<1>3. x \in Nat /\ x # 0  BY <1>2
<1>4. x - 1 \in Nat /\ x - 1 \in S  BY <1>2, <1>3
<1>5. (x - 1) + 1 \in S  BY <1>4
<1> QED BY <1>2, <1>3, <1>5

-----------------------------------------------------------------------------
(* Files as sequences of revisions. *)

\* A file is a function over the numbers of its revisions.
LEMMA DocumentFacts ==
  ASSUME NEW doc, IsDocument(doc)
  PROVE  /\ Len(doc) \in Nat /\ Len(doc) >= 1 /\ DOMAIN doc = 1 .. Len(doc)
         /\ \E S : doc \in Seq(S)
         /\ \A i \in 1 .. Len(doc) : IsRevision(doc[i])
  BY DEF IsDocument

\* Functions over 1 .. n whose values are revisions are files.
LEMMA DocumentByRevisions ==
  ASSUME NEW n \in Nat, n >= 1, NEW doc, doc = [i \in 1 .. n |-> doc[i]],
         \A i \in 1 .. n : IsRevision(doc[i])
  PROVE  IsDocument(doc) /\ Len(doc) = n
  <1>1. DOMAIN doc = 1 .. n
    OBVIOUS
  <1>2. doc \in [1 .. n -> ToSet(doc)]
    BY <1>1 DEF ToSet
  <1>3. doc \in Seq(ToSet(doc)) /\ Len(doc) = n
    BY <1>2
  <1>4. doc # <<>>
    BY <1>3
  <1> QED BY <1>1, <1>3, <1>4 DEF IsDocument

\* A file with one more revision is a file that keeps the earlier ones.
LEMMA AppendDocument ==
  ASSUME NEW doc, IsDocument(doc), NEW rev, IsRevision(rev)
  PROVE  /\ IsDocument(Append(doc, rev))
         /\ Len(Append(doc, rev)) = Len(doc) + 1
         /\ \A i \in 1 .. Len(doc) : Append(doc, rev)[i] = doc[i]
         /\ Append(doc, rev)[Len(doc) + 1] = rev
  <1> DEFINE d == Append(doc, rev)
             n == Len(doc)
  <1>1. PICK S : doc \in Seq(S)
    BY DocumentFacts
  <1>2. doc \in Seq(S \cup {rev}) /\ n \in Nat
    BY <1>1
  <1>3. /\ d \in Seq(S \cup {rev}) /\ Len(d) = n + 1
        /\ \A i \in 1 .. n : d[i] = doc[i]
        /\ d[n + 1] = rev
    BY <1>2
  <1>4. \A i \in 1 .. n + 1 : IsRevision(d[i])
    BY <1>2, <1>3, DocumentFacts
  <1>5. d = [i \in 1 .. n + 1 |-> d[i]]
    <2> HIDE DEF d, n
    <2> QED BY <1>2, <1>3
  <1>6. IsDocument(d)
    <2> HIDE DEF d, n
    <2> QED BY <1>2, <1>4, <1>5, DocumentByRevisions
  <1> QED BY <1>3, <1>6

\* A placeholder is a CMS over nothing.
LEMMA NoCmsFacts ==
  NoCms = Cms(NoCms.over, NoCms.zero)
BY DEF NoCms, Cms

\* The last revision with another CMS.
WithCms(rev, over, zero) == [rev EXCEPT !.sig = [rev.sig EXCEPT !.cms = Cms(over, zero)]]

\* The injected CMS is all that inject_cms changes of a revision.
LEMMA WithCmsFacts ==
  ASSUME NEW rev, IsRevision(rev), NEW over, NEW zero
  PROVE  /\ IsRevision(WithCms(rev, over, zero))
         /\ WithCms(rev, over, zero).sig.cms.over = over
         /\ WithCms(rev, over, zero).sig.cms.zero = zero
         /\ WithCms(rev, over, zero).sig.what = rev.sig.what
         /\ WithCms(rev, over, zero).sig.dict = rev.sig.dict
         /\ WithCms(rev, over, zero).objs = rev.objs /\ WithCms(rev, over, zero).size = rev.size
         /\ WithCms(rev, over, zero).stream = rev.stream
         /\ WithCms(rev, over, zero).tail = rev.tail
         /\ \A other, z : WithCms(WithCms(rev, other, z), over, zero) = WithCms(rev, over, zero)
  <1> DEFINE sig(o, z) == [what |-> rev.sig.what, dict |-> rev.sig.dict, cms |-> Cms(o, z)]
             with(o, z) == Revision(rev.objs, rev.size, rev.stream, rev.tail, sig(o, z))
  <1>1. rev.sig = [what |-> rev.sig.what, dict |-> rev.sig.dict, cms |-> rev.sig.cms]
    BY DEF IsRevision
  <1>2. \A o, z : [rev.sig EXCEPT !.cms = Cms(o, z)] = sig(o, z)
    BY <1>1
  <1>3. rev = Revision(rev.objs, rev.size, rev.stream, rev.tail, rev.sig)
    BY DEF IsRevision
  <1>4. \A o, z : WithCms(rev, o, z) = with(o, z)
    BY <1>2, <1>3 DEF WithCms, Revision
  <1>5. \A o, z : /\ with(o, z).sig = sig(o, z)
                  /\ with(o, z).objs = rev.objs /\ with(o, z).size = rev.size
                  /\ with(o, z).stream = rev.stream /\ with(o, z).tail = rev.tail
    BY DEF Revision
  <1>6. \A o, z : WithCms(with(o, z), over, zero) = with(over, zero)
    BY DEF WithCms, Revision
  <1>7. IsRevision(with(over, zero))
    BY <1>5 DEF IsRevision, Cms
  <1>8. /\ WithCms(rev, over, zero) = with(over, zero)
        /\ \A o, z : WithCms(WithCms(rev, o, z), over, zero) = WithCms(rev, over, zero)
    <2>1. WithCms(rev, over, zero) = with(over, zero)
      BY <1>4
    <2>2. ASSUME NEW o, NEW z
          PROVE  WithCms(WithCms(rev, o, z), over, zero) = WithCms(rev, over, zero)
      <3>1. WithCms(rev, o, z) = with(o, z)
        BY <1>4
      <3>2. WithCms(with(o, z), over, zero) = with(over, zero)
        BY <1>6
      <3> HIDE DEF with
      <3> QED BY <2>1, <3>1, <3>2
    <2> QED BY <2>1, <2>2
  <1>9. /\ with(over, zero).sig = sig(over, zero)
        /\ sig(over, zero).cms.over = over /\ sig(over, zero).cms.zero = zero
    BY <1>5 DEF Cms
  <1> QED BY <1>5, <1>7, <1>8, <1>9

\* Injecting a CMS changes the CMS of the last revision only, and not the
\* bytes that it is over.
LEMMA InjectFacts ==
  ASSUME NEW doc, IsDocument(doc), NEW over, NEW zero
  PROVE  /\ IsDocument(InjectCms(doc, over, zero))
         /\ Len(InjectCms(doc, over, zero)) = Len(doc)
         /\ \A i \in 1 .. Len(doc) - 1 : InjectCms(doc, over, zero)[i] = doc[i]
         /\ InjectCms(doc, over, zero)[Len(doc)] = WithCms(doc[Len(doc)], over, zero)
         /\ Blank(InjectCms(doc, over, zero)) = Blank(doc)
  <1> DEFINE n == Len(doc)
             d(o, z) == [i \in 1 .. n |-> IF i = n THEN WithCms(doc[n], o, z) ELSE doc[i]]
  <1>1. n \in Nat /\ n >= 1 /\ DOMAIN doc = 1 .. n /\ IsRevision(doc[n])
    BY DocumentFacts
  <1>2. doc = [i \in 1 .. n |-> doc[i]]
    BY DocumentFacts
  <1>3. \A o, z : InjectCms(doc, o, z) = d(o, z)
    BY <1>1, <1>2 DEF InjectCms, WithCms
  <1>4. \A i \in 1 .. n : IsRevision(d(over, zero)[i])
    BY <1>1, WithCmsFacts, DocumentFacts
  <1>5. IsDocument(d(over, zero)) /\ Len(d(over, zero)) = n
    <2>1. d(over, zero) = [i \in 1 .. n |-> d(over, zero)[i]]
      OBVIOUS
    <2> HIDE DEF d, n
    <2> QED BY <2>1, <1>1, <1>4, DocumentByRevisions
  <1>0. PICK no : no = FALSE
    OBVIOUS
  <1>6. Blank(doc) = d(<<>>, no)
    BY <1>0, <1>1, <1>2 DEF Blank, WithCms, NoCms
  <1>7. Blank(d(over, zero)) = d(<<>>, no)
    <2>1. d(over, zero)[n] = WithCms(doc[n], over, zero)
      BY <1>1
    <2>2. WithCms(d(over, zero)[n], <<>>, no) = WithCms(doc[n], <<>>, no)
      BY <2>1, <1>1, WithCmsFacts
    <2>3. Blank(d(over, zero)) =
            [i \in 1 .. n |-> IF i = n THEN WithCms(d(over, zero)[n], <<>>, no)
                              ELSE d(over, zero)[i]]
      BY <1>0, <1>1, <1>5 DEF Blank, WithCms, NoCms
    <2> QED BY <2>2, <2>3
  <1>8. InjectCms(doc, over, zero) = d(over, zero) /\ Blank(d(over, zero)) = Blank(doc)
    BY <1>3, <1>6, <1>7
  <1>9. /\ \A i \in 1 .. n - 1 : d(over, zero)[i] = doc[i]
        /\ d(over, zero)[n] = WithCms(doc[n], over, zero)
    <2>1. \A i \in 1 .. n - 1 : i \in 1 .. n /\ i # n
      <3> HIDE DEF n, d
      <3> QED BY <1>1
    <2>2. n \in 1 .. n
      BY <1>1
    <2> QED BY <2>1, <2>2
  <1> QED BY <1>5, <1>8, <1>9

\* One file extends another when it is longer and starts with its revisions.
LEMMA ExtendsFacts ==
  ASSUME NEW doc, IsDocument(doc), NEW base, IsDocument(base)
  PROVE  Extends(doc, base) <=> /\ Len(base) < Len(doc)
                                /\ \A i \in 1 .. Len(base) : doc[i] = base[i]
  <1> DEFINE m == Len(base)
  <1>1. PICK S : doc \in Seq(S)
    BY DocumentFacts
  <1>2. PICK T : base \in Seq(T)
    BY DocumentFacts
  <1>3. m \in Nat /\ Len(doc) \in Nat
    BY <1>1, <1>2
  <1>4. m < Len(doc) => SubSeq(doc, 1, m) = [i \in 1 .. m |-> doc[i]]
    BY <1>1, <1>3
  <1>5. base = [i \in 1 .. m |-> base[i]]
    BY <1>2
  <1> HIDE DEF m
  <1> QED BY <1>3, <1>4, <1>5 DEF Extends, m

\* What a signature is over does not depend on later revisions.
LEMMA VerifiesStable ==
  ASSUME NEW doc, IsDocument(doc), NEW base, IsDocument(base),
         NEW i \in 1 .. Len(doc), i <= Len(base),
         \A k \in 1 .. i : doc[k] = base[k]
  PROVE  SubSeq(doc, 1, i) = SubSeq(base, 1, i) /\ (Verifies(doc, i) <=> Verifies(base, i))
  <1>1. PICK S : doc \in Seq(S)
    BY DocumentFacts
  <1>2. PICK T : base \in Seq(T)
    BY DocumentFacts
  <1>3. i \in Nat /\ i >= 1
    BY DocumentFacts
  <1>4. SubSeq(doc, 1, i) = [k \in 1 .. i |-> doc[k]]
    BY <1>1, <1>3
  <1>5. SubSeq(base, 1, i) = [k \in 1 .. i |-> base[k]]
    BY <1>2, <1>3
  <1>6. SubSeq(doc, 1, i) = SubSeq(base, 1, i) /\ doc[i] = base[i]
    BY <1>3, <1>4, <1>5
  <1> QED BY <1>6 DEF Verifies

\* A CMS made over the file around its placeholder verifies once injected.
LEMMA InjectedVerifies ==
  ASSUME NEW doc, IsDocument(doc), doc[Len(doc)].sig.what # "none", NEW zero
  PROVE  Verifies(InjectCms(doc, Blank(doc), zero), Len(doc))
  <1> DEFINE n == Len(doc)
             d == InjectCms(doc, Blank(doc), zero)
  <1>1. n \in Nat /\ n >= 1 /\ IsRevision(doc[n])
    BY DocumentFacts
  <1>2. IsDocument(d) /\ Len(d) = n /\ d[n] = WithCms(doc[n], Blank(doc), zero) /\ Blank(d) = Blank(doc)
    BY InjectFacts
  <1>3. d[n].sig.cms.over = Blank(doc) /\ d[n].sig.what = doc[n].sig.what
    BY <1>1, <1>2, WithCmsFacts
  <1>4. d[n].sig # NoSig
    BY <1>3 DEF NoSig
  <1>5. SubSeq(d, 1, n) = d
    <2>1. PICK S : d \in Seq(S)
      <3> HIDE DEF d
      <3> QED BY <1>2, DocumentFacts
    <2> HIDE DEF d
    <2> QED BY <1>2, <2>1
  <1> HIDE DEF d, n
  <1> QED BY <1>2, <1>3, <1>4, <1>5 DEF Verifies, n, d

-----------------------------------------------------------------------------
(* The revisions that signing appends. *)

\* The revision a signature appends is a revision, and ends in a line feed.
LEMMA SignatureRevisionFacts ==
  ASSUME NEW doc, NEW what, NEW page, NEW visuals
  PROVE  /\ IsRevision(SignatureRevision(doc, what, page, visuals))
         /\ SignatureRevision(doc, what, page, visuals).sig.what = what
         /\ SignatureRevision(doc, what, page, visuals).tail = <<"LF">>
  <1> DEFINE made(objs, size, stream, dict) ==
               Revision(objs, size, stream, <<"LF">>, [what |-> what, dict |-> dict, cms |-> NoCms])
  <1>1. \E objs, size, stream, dict :
          SignatureRevision(doc, what, page, visuals) = made(objs, size, stream, dict)
    BY Zenon DEF SignatureRevision
  <1>2. \A objs, size, stream, dict :
          /\ IsRevision(made(objs, size, stream, dict))
          /\ made(objs, size, stream, dict).sig.what = what
          /\ made(objs, size, stream, dict).tail = <<"LF">>
    BY DEF Revision, IsRevision, NoCms, Cms
  <1> HIDE DEF made
  <1> QED BY <1>1, <1>2

\* A file with one more revision that awaits its CMS.
LEMMA WithSignatureFacts ==
  ASSUME NEW doc, IsDocument(doc), NEW what, NEW page, NEW visuals
  PROVE  LET out == WithSignature(doc, what, page, visuals)
         IN  /\ IsDocument(out) /\ Len(out) = Len(doc) + 1
             /\ \A i \in 1 .. Len(doc) : out[i] = doc[i]
             /\ out[Len(doc) + 1].sig.what = what
             /\ out[Len(doc) + 1] = SignatureRevision(doc, what, page, visuals)
  BY SignatureRevisionFacts, AppendDocument DEF WithSignature

-----------------------------------------------------------------------------
(* Requests. *)

\* Updates of other programs are revisions without a signature of the library's.
ForeignAreUnsigned ==
  \A doc : \A rev \in ForeignUpdates(doc) : IsRevision(rev) /\ rev.sig = NoSig

IsRequest(x) == x = Request(x.st, x.level, x.base, x.out, x.over, x.err)
Open(x) == x.st \in {"awaitingToken", "prepared"}

\* the kinds of what a request has added to the file it was given
Added(x) == SubSeq(KindsOf(x.out), Len(x.base) + 1, Len(x.out))

\* What an open request holds: the file it was given, extended by signatures of
\* which all but the last are complete, as many as its level asks for, and the
\* digest of the last one.
Holds(x) ==
  /\ IsDocument(x.base) /\ IsDocument(x.out) /\ Extends(x.out, x.base)
  /\ x.over = Blank(x.out)
  /\ x.out[Len(x.out)].sig.what # "none"
  /\ \A i \in Len(x.base) + 1 .. Len(x.out) - 1 : Verifies(x.out, i)
  /\ Len(x.out) = Len(x.base) + UpdatesOf(x.level)
  /\ x.st = "prepared" => x.level = "BB"

TypeInv ==
  /\ IsDocument(file)
  /\ req = [r \in Requests |-> req[r]]
  /\ \A r \in Requests : IsRequest(req[r])
RequestInv == \A r \in Requests : Open(req[r]) => Holds(req[r])

IInv == TypeInv /\ RequestInv

\* Every step is of one of these forms.
Fails(r) == \E err : Fail(r, err)
Opens(r) ==
  /\ Free(r) /\ UNCHANGED file
  /\ \E x : /\ Set(r, x) /\ IsRequest(x) /\ Open(x) /\ Holds(x)
            /\ x.base = file /\ Added(x) \in LedgerOrders
SignsAtOnce(r) ==
  /\ Free(r)
  /\ \E what \in Kinds : \E page, visuals, zero :
       LET out == WithSignature(file, what, page, visuals)
       IN  Return(r, "BB", InjectCms(out, Blank(out), zero))
Completes(r) ==
  /\ Open(req[r])
  /\ \E s \in Requests : \E level : \E zero \in LastZero :
       /\ s = r \/ (req[r].st = "prepared" /\ req[s].st = "prepared")
       /\ level = req[r].level \/ (req[r].st = "prepared" /\ level = "BB")
       /\ Return(r, level, InjectCms(req[r].out, req[s].over, zero))

\* A request consists of what it was made from.
LEMMA RequestFacts ==
  ASSUME NEW st, NEW level, NEW base, NEW out, NEW over, NEW err
  PROVE  LET x == Request(st, level, base, out, over, err)
         IN  /\ IsRequest(x) /\ x.st = st /\ x.level = level /\ x.base = base
             /\ x.out = out /\ x.over = over /\ x.err = err
  BY DEF Request, IsRequest

\* A request that has appended a signature to doc, which is what it was given
\* and possibly one complete signature.
LEMMA OpenedHolds ==
  ASSUME NEW base, IsDocument(base), NEW doc, IsDocument(doc),
         \/ doc = base
         \/ /\ Len(doc) = Len(base) + 1 /\ \A i \in 1 .. Len(base) : doc[i] = base[i]
            /\ Verifies(doc, Len(doc)),
         NEW what, what # "none", NEW page, NEW visuals, NEW st, NEW level,
         Len(doc) + 1 = Len(base) + UpdatesOf(level), st = "prepared" => level = "BB",
         NEW out, out = WithSignature(doc, what, page, visuals),
         NEW x, x = Request(st, level, base, out, Blank(out), "none")
  PROVE  /\ Holds(x)
         /\ Added(x) = IF Len(doc) = Len(base) THEN <<what>> ELSE <<doc[Len(doc)].sig.what, what>>
  <1> DEFINE n == Len(doc)
             m == Len(base)
  <1>1. /\ n \in Nat /\ n >= 1 /\ m \in Nat /\ m >= 1 /\ n \in {m, m + 1}
        /\ \A i \in 1 .. m : doc[i] = base[i]
    BY DocumentFacts
  <1>2. /\ IsDocument(out) /\ Len(out) = n + 1 /\ out[n + 1].sig.what = what
        /\ \A i \in 1 .. n : out[i] = doc[i]
    BY WithSignatureFacts
  <1>3. x.base = base /\ x.out = out /\ x.over = Blank(out) /\ x.st = st /\ x.level = level
    BY RequestFacts
  <1>4. Extends(out, base)
    <2> HIDE DEF n, m
    <2>1. \A i \in 1 .. m : out[i] = base[i]
      BY <1>1, <1>2
    <2>2. Len(base) < Len(out)
      BY <1>1, <1>2 DEF m
    <2> QED BY <1>2, <2>1, <2>2, ExtendsFacts DEF m
  <1>5. ASSUME NEW i \in m + 1 .. n
        PROVE  Verifies(out, i)
    <2> HIDE DEF n, m
    <2>1. i = n /\ n = m + 1 /\ i \in 1 .. Len(out) /\ i <= n
      BY <1>1, <1>2, <1>5
    <2>2. Verifies(doc, n)
      BY <2>1 DEF n, m
    <2>3. \A k \in 1 .. i : out[k] = doc[k]
      BY <1>1, <1>2, <2>1
    <2> QED BY <1>2, <2>1, <2>2, <2>3, VerifiesStable DEF n
  <1>6. Holds(x)
    <2> HIDE DEF n, m
    <2>1. Len(out) - 1 = n
      BY <1>1, <1>2
    <2>2. Len(out) = Len(base) + UpdatesOf(level)
      BY <1>1, <1>2 DEF n, m
    <2>3. \A i \in Len(base) + 1 .. Len(out) - 1 : Verifies(out, i)
      BY <1>5, <2>1 DEF m
    <2>4. out[Len(out)].sig.what # "none"
      BY <1>1, <1>2
    <2> QED BY <1>2, <1>3, <1>4, <2>2, <2>3, <2>4 DEF Holds
  <1>7. Added(x) = IF n = m THEN <<what>> ELSE <<doc[n].sig.what, what>>
    <2> HIDE DEF n, m
    <2> DEFINE kinds == KindsOf(out)
    <2>1. DOMAIN out = 1 .. n + 1
      BY <1>2, DocumentFacts
    <2>2. kinds = [i \in 1 .. n + 1 |-> out[i].sig.what]
      BY <2>1 DEF KindsOf
    <2>3. kinds \in Seq({out[i].sig.what : i \in 1 .. n + 1}) /\ Len(kinds) = n + 1
      BY <1>1, <2>2
    <2>4. Added(x) = SubSeq(kinds, m + 1, n + 1)
      BY <1>2, <1>3 DEF Added, m
    <2>5. kinds[n] = doc[n].sig.what /\ kinds[n + 1] = what
      BY <1>1, <1>2, <2>2
    <2> HIDE DEF kinds
    <2>6. CASE n = m
      BY <1>1, <2>3, <2>4, <2>5, <2>6
    <2>7. CASE n = m + 1
      BY <1>1, <2>3, <2>4, <2>5, <2>7
    <2> QED BY <1>1, <2>6, <2>7
  <1> QED BY <1>6, <1>7

\* A document timestamp that is sent for opens the request, or nothing changes.
LEMMA AwaitCases ==
  ASSUME TypeInv, NEW r \in Requests, Free(r), NEW level, NEW doc, IsDocument(doc), NEW page,
         \/ doc = file
         \/ /\ Len(doc) = Len(file) + 1 /\ \A i \in 1 .. Len(file) : doc[i] = file[i]
            /\ Verifies(doc, Len(doc)) /\ doc[Len(doc)].sig.what \in Kinds,
         Len(doc) + 1 = Len(file) + UpdatesOf(level),
         AwaitToken(r, level, file, doc, page)
  PROVE  Fails(r) \/ Opens(r)
  <1>1. CASE ~CanHook(doc, page)
    BY <1>1 DEF AwaitToken, Fails
  <1>2. CASE CanHook(doc, page)
    <2> DEFINE out == WithSignature(doc, "timestamp", page, 0)
               x   == Request("awaitingToken", level, file, out, Blank(out), "none")
    <2>1. Set(r, x) /\ UNCHANGED file
      BY <1>2 DEF AwaitToken
    <2>2. IsRequest(x) /\ Open(x) /\ x.base = file
      BY RequestFacts DEF Open
    <2>3. IsDocument(file)
      BY DEF TypeInv
    <2>4. /\ Holds(x)
          /\ Added(x) = IF Len(doc) = Len(file) THEN <<"timestamp">>
                        ELSE <<doc[Len(doc)].sig.what, "timestamp">>
      <3> DEFINE st == "awaitingToken"
      <3>1. st = "prepared" => level = "BB"
        OBVIOUS
      <3> HIDE DEF out, st
      <3> QED BY <2>3, <3>1, OpenedHolds DEF out, st
    <2>5. Added(x) \in LedgerOrders
      <3>1. Len(doc) # Len(file) => doc[Len(doc)].sig.what \in Kinds
        OBVIOUS
      <3> HIDE DEF x
      <3> QED BY <2>4, <3>1 DEF LedgerOrders
    <2> HIDE DEF x
    <2> QED BY <2>1, <2>2, <2>4, <2>5 DEF Opens
  <1> QED BY <1>1, <1>2

\* A signature over the saved file, with its CMS.
LEMMA SignedFacts ==
  ASSUME NEW doc, IsDocument(doc), NEW what, what # "none", NEW page, NEW visuals,
         NEW out, out = WithSignature(doc, what, page, visuals),
         NEW zero, NEW signed, signed = InjectCms(out, Blank(out), zero)
  PROVE  /\ IsDocument(signed) /\ Len(signed) = Len(doc) + 1
         /\ \A i \in 1 .. Len(doc) : signed[i] = doc[i]
         /\ Verifies(signed, Len(signed)) /\ signed[Len(signed)].sig.what = what
  <1>1. /\ IsDocument(out) /\ Len(out) = Len(doc) + 1 /\ out[Len(doc) + 1].sig.what = what
        /\ \A i \in 1 .. Len(doc) : out[i] = doc[i]
    BY WithSignatureFacts
  <1>2. Len(doc) \in Nat
    BY DocumentFacts
  <1>3. /\ IsDocument(signed) /\ Len(signed) = Len(out)
        /\ \A i \in 1 .. Len(out) - 1 : signed[i] = out[i]
        /\ signed[Len(out)] = WithCms(out[Len(out)], Blank(out), zero)
    BY <1>1, InjectFacts
  <1>4. IsRevision(out[Len(out)])
    BY <1>1, <1>2, DocumentFacts
  <1>5. signed[Len(out)].sig.what = what
    BY <1>1, <1>3, <1>4, WithCmsFacts
  <1>6. Verifies(signed, Len(out))
    BY <1>1, InjectedVerifies
  <1> QED BY <1>1, <1>2, <1>3, <1>5, <1>6

\* Signing at once either fails or leaves one signed file.
LEMMA SignCases ==
  ASSUME TypeInv, NEW r \in Requests, NEW what \in Kinds, NEW level \in Levels, NEW page,
         NEW visuals, NEW allowed, NEW fits, NEW tsaUrl \in BOOLEAN,
         Sign(r, what, level, page, visuals, allowed, fits, tsaUrl)
  PROVE  Fails(r) \/ Opens(r) \/ SignsAtOnce(r)
  <1> DEFINE out    == WithSignature(file, what, page, visuals)
             signed(zero) == InjectCms(out, Blank(out), zero)
  <1>1. Free(r) /\ IsDocument(file) /\ what # "none"
    BY SigningAssumption DEF Sign, TypeInv
  <1>2. Fails(r) \/ \E zero \in LastZero : ApplyPadesLevel(r, level, file, signed(zero), tsaUrl)
    BY DEF Sign, Fails
  <1>3. ASSUME NEW zero \in LastZero
        PROVE  /\ IsDocument(signed(zero)) /\ Len(signed(zero)) = Len(file) + 1
               /\ \A i \in 1 .. Len(file) : signed(zero)[i] = file[i]
               /\ Verifies(signed(zero), Len(signed(zero)))
               /\ signed(zero)[Len(signed(zero))].sig.what = what
    <2> DEFINE done == signed(zero)
    <2>1. done = InjectCms(out, Blank(out), zero)
      OBVIOUS
    <2> HIDE DEF out, signed, done
    <2>2. /\ IsDocument(done) /\ Len(done) = Len(file) + 1
          /\ \A i \in 1 .. Len(file) : done[i] = file[i]
          /\ Verifies(done, Len(done)) /\ done[Len(done)].sig.what = what
      BY <1>1, <2>1, SignedFacts DEF out
    <2> QED BY <2>2 DEF done
  <1>4. ASSUME NEW zero \in LastZero, ApplyPadesLevel(r, level, file, signed(zero), tsaUrl)
        PROVE  Fails(r) \/ Opens(r) \/ SignsAtOnce(r)
    <2> DEFINE done == signed(zero)
    <2>1. \/ Fails(r)
          \/ level = "BB" /\ Return(r, "BB", done)
          \/ level = "BT" /\ AwaitToken(r, level, file, done, 0)
      <3>1. ApplyPadesLevel(r, level, file, done, tsaUrl)
        BY <1>4
      <3> HIDE DEF done
      <3> QED BY <3>1, SigningAssumption DEF ApplyPadesLevel, Fails
    <2>2. CASE Return(r, "BB", done)
      BY <1>1, <2>2 DEF SignsAtOnce
    <2>3. CASE level = "BT" /\ AwaitToken(r, level, file, done, 0)
      <3>1. /\ IsDocument(done) /\ Len(done) = Len(file) + 1
            /\ \A i \in 1 .. Len(file) : done[i] = file[i]
            /\ Verifies(done, Len(done)) /\ done[Len(done)].sig.what = what
        BY <1>3
      <3> HIDE DEF done
      <3>2. Len(done) + 1 = Len(file) + UpdatesOf(level)
        BY <1>1, <2>3, <3>1, DocumentFacts DEF UpdatesOf
      <3> QED BY <1>1, <2>3, <3>1, <3>2, AwaitCases
    <2> QED BY <2>1, <2>2, <2>3
  <1> HIDE DEF signed
  <1> QED BY <1>2, <1>4

\* What a step does to a request: it fails, opens, signs at once or completes;
\* or another program updates the file.
LEMMA StepCases ==
  ASSUME IInv, Next
  PROVE  \/ ForeignUpdate
         \/ \E r \in Requests : Fails(r) \/ Opens(r) \/ SignsAtOnce(r) \/ Completes(r)
  <1>0. TypeInv /\ IsDocument(file)
    BY DEF IInv, TypeInv
  <1>1. ASSUME NEW r \in Requests, NEW what \in Kinds, NEW level \in Levels, NEW page \in AskedPages,
               NEW v \in Appearances, NEW allowed \in BOOLEAN, NEW fits \in BOOLEAN,
               NEW tsaUrl \in BOOLEAN, Sign(r, what, level, page, v, allowed, fits, tsaUrl)
        PROVE  Fails(r) \/ Opens(r) \/ SignsAtOnce(r)
    BY <1>0, <1>1, SignCases
  <1>2. ASSUME NEW r \in Requests, AddDocumentTimestamp(r)
        PROVE  Fails(r) \/ Opens(r)
    <2> DEFINE level == "TS"
    <2>1. PICK page \in AskedPages : Free(r) /\ AwaitToken(r, level, file, file, page)
      BY <1>2 DEF AddDocumentTimestamp
    <2>2. Len(file) + 1 = Len(file) + UpdatesOf(level)
      BY DEF UpdatesOf
    <2> HIDE DEF level
    <2> QED BY <1>0, <2>1, <2>2, AwaitCases
  <1>3. ASSUME NEW r \in Requests, TokenArrives(r)
        PROVE  Fails(r) \/ Completes(r)
    <2>1. CASE Fail(r, "SignatureTooLarge")
      BY <2>1 DEF Fails
    <2>2. CASE \E zero \in LastZero :
                 Return(r, req[r].level, InjectCms(req[r].out, req[r].over, zero))
      <3>1. Open(req[r])
        BY <1>3 DEF TokenArrives, Open
      <3> QED BY <2>2, <3>1 DEF Completes
    <2> QED BY <1>3, <2>1, <2>2 DEF TokenArrives
  <1>4. ASSUME NEW r \in Requests, TsaFails(r)
        PROVE  Fails(r)
    BY <1>4 DEF TsaFails, Fails
  <1>5. ASSUME NEW r \in Requests, NEW page \in AskedPages, NEW allowed \in BOOLEAN,
               PrepareSignature(r, page, allowed)
        PROVE  Fails(r) \/ Opens(r)
    <2> DEFINE out == WithSignature(file, "approval", page, 0)
               x   == Request("prepared", "BB", file, out, Blank(out), "none")
    <2>1. Free(r)
      BY <1>5 DEF PrepareSignature
    <2>2. Fails(r) \/ (Set(r, x) /\ UNCHANGED file)
      BY <1>5 DEF PrepareSignature, Fails
    <2>3. IsRequest(x) /\ Open(x) /\ x.base = file
      BY RequestFacts DEF Open
    <2>4. Holds(x) /\ Added(x) = <<"approval">>
      <3> DEFINE level == "BB"
                 st == "prepared"
                 what == "approval"
      <3>1. /\ Len(file) + 1 = Len(file) + UpdatesOf(level) /\ level = "BB"
            /\ what # "none" /\ what = "approval"
        BY DEF UpdatesOf
      <3>2. x = Request(st, level, file, out, Blank(out), "none")
            /\ out = WithSignature(file, what, page, 0)
        OBVIOUS
      <3> HIDE DEF out, level, st, what, x
      <3>3. Holds(x) /\ Added(x) = IF Len(file) = Len(file) THEN <<what>>
                                   ELSE <<file[Len(file)].sig.what, what>>
        BY <1>0, <3>1, <3>2, OpenedHolds
      <3> QED BY <3>1, <3>3
    <2>5. Added(x) \in LedgerOrders
      <3> HIDE DEF x
      <3> QED BY <2>4 DEF LedgerOrders
    <2> HIDE DEF x
    <2> QED BY <2>1, <2>2, <2>3, <2>4, <2>5 DEF Opens
  <1>6. ASSUME NEW r \in Requests, NEW answer \in Requests, NEW fits \in BOOLEAN,
               FinalizeSignature(r, answer, fits)
        PROVE  Fails(r) \/ Completes(r)
    <2>1. Open(req[r]) /\ req[r].st = "prepared" /\ req[answer].st = "prepared"
      BY <1>6 DEF FinalizeSignature, Open
    <2>2. \/ Fail(r, "SignatureTooLarge")
          \/ \E zero \in LastZero : Return(r, "BB", InjectCms(req[r].out, req[answer].over, zero))
      BY <1>6 DEF FinalizeSignature
    <2> QED BY <2>1, <2>2 DEF Fails, Completes
  <1> QED BY <1>1, <1>2, <1>3, <1>4, <1>5, <1>6 DEF Next

\* What a completed request returns: the file it was given and its signatures.
LEMMA CompletedFacts ==
  ASSUME NEW x, Holds(x), NEW over, NEW zero, NEW doc, doc = InjectCms(x.out, over, zero)
  PROVE  /\ IsDocument(doc) /\ Len(doc) = Len(x.out) /\ Extends(doc, x.base)
         /\ KindsOf(doc) = KindsOf(x.out)
         /\ over = x.over => \A i \in Len(x.base) + 1 .. Len(doc) : Verifies(doc, i)
  <1> DEFINE n == Len(x.out)
             m == Len(x.base)
  <1>1. /\ IsDocument(x.base) /\ IsDocument(x.out) /\ x.over = Blank(x.out)
        /\ x.out[n].sig.what # "none"
        /\ m < n /\ \A i \in 1 .. m : x.out[i] = x.base[i]
        /\ \A i \in m + 1 .. n - 1 : Verifies(x.out, i)
    BY ExtendsFacts DEF Holds
  <1>2. n \in Nat /\ n >= 1 /\ m \in Nat /\ IsRevision(x.out[n])
    BY <1>1, DocumentFacts
  <1>3. /\ IsDocument(doc) /\ Len(doc) = n /\ doc[n] = WithCms(x.out[n], over, zero)
        /\ \A i \in 1 .. n - 1 : doc[i] = x.out[i]
    BY <1>1, InjectFacts
  <1>4. doc[n].sig.what = x.out[n].sig.what
    BY <1>2, <1>3, WithCmsFacts
  <1> HIDE DEF n, m
  <1>5. Extends(doc, x.base)
    <2>1. \A i \in 1 .. m : doc[i] = x.base[i]
      BY <1>1, <1>2, <1>3
    <2> QED BY <1>1, <1>3, <2>1, ExtendsFacts DEF m
  <1>6. KindsOf(doc) = KindsOf(x.out)
    <2>1. DOMAIN doc = 1 .. n /\ DOMAIN x.out = 1 .. n
      BY <1>1, <1>3, DocumentFacts DEF n
    <2>2. \A i \in 1 .. n : doc[i].sig.what = x.out[i].sig.what
      BY <1>2, <1>3, <1>4
    <2> QED BY <2>1, <2>2 DEF KindsOf
  <1>7. ASSUME over = x.over, NEW i \in m + 1 .. n
        PROVE  Verifies(doc, i)
    <2>1. CASE i = n
      BY <1>1, <1>3, <1>7, <2>1, InjectedVerifies DEF n
    <2>2. CASE i # n
      <3>1. i \in m + 1 .. n - 1 /\ i \in 1 .. Len(doc) /\ i <= Len(x.out)
        BY <1>2, <1>3, <2>2 DEF n
      <3>2. \A k \in 1 .. i : doc[k] = x.out[k]
        BY <1>2, <1>3, <3>1
      <3> QED BY <1>1, <1>3, <3>1, <3>2, VerifiesStable
    <2> QED BY <2>1, <2>2
  <1> QED BY <1>3, <1>5, <1>6, <1>7 DEF n, m

-----------------------------------------------------------------------------
(* The invariant. *)

\* Set changes the one request.
LEMMA SetFacts ==
  ASSUME TypeInv, NEW r \in Requests, NEW x, Set(r, x)
  PROVE  /\ req' = [s \in Requests |-> IF s = r THEN x ELSE req[s]]
         /\ req'[r] = x /\ \A s \in Requests \ {r} : req'[s] = req[s]
  <1>1. req = [s \in Requests |-> req[s]]
    BY DEF TypeInv
  <1>2. req' = [req EXCEPT ![r] = x]
    BY DEF Set
  <1> QED BY <1>1, <1>2

\* A step that leaves a file and replaces one request keeps the invariant when
\* the request is in order.
LEMMA SetInv ==
  ASSUME IInv, IsDocument(file'), NEW r \in Requests, NEW x, Set(r, x), IsRequest(x),
         Open(x) => Holds(x)
  PROVE  IInv'
  <1>1. /\ req' = [s \in Requests |-> IF s = r THEN x ELSE req[s]]
        /\ req'[r] = x /\ \A s \in Requests \ {r} : req'[s] = req[s]
    BY SetFacts DEF IInv
  <1>2. TypeInv'
    BY <1>1 DEF IInv, TypeInv
  <1>3. RequestInv'
    BY <1>1 DEF IInv, RequestInv
  <1> QED BY <1>2, <1>3 DEF IInv

\* Requests that are over hold no document.
LEMMA FinishedFacts ==
  ASSUME NEW level, NEW err
  PROVE  /\ IsRequest(Succeeded(level)) /\ ~Open(Succeeded(level)) /\ Succeeded(level).st = "ok"
         /\ IsRequest(Failed(err)) /\ ~Open(Failed(err)) /\ Failed(err).st = "failed"
         /\ IsRequest(Idle) /\ ~Open(Idle)
  BY DEF Succeeded, Failed, Idle, IsRequest, Open, Request

\* A file of another producer and no request satisfy the invariant.
LEMMA InitInv == Init => IInv
  <1> SUFFICES ASSUME Init PROVE IInv
    OBVIOUS
  <1>1. IsDocument(file)
    BY SigningAssumption DEF Init
  <1>2. req = [r \in Requests |-> req[r]] /\ \A r \in Requests : req[r] = Idle
    BY DEF Init
  <1> QED BY <1>1, <1>2, FinishedFacts DEF IInv, TypeInv, RequestInv

\* Every step keeps the invariant.
LEMMA StepInv ==
  ASSUME ForeignAreUnsigned, IInv, [Next]_vars
  PROVE  IInv'
  <1>0. IsDocument(file)
    BY DEF IInv, TypeInv
  <1>1. CASE UNCHANGED vars
    BY <1>1 DEF vars, IInv, TypeInv, RequestInv
  <1>2. CASE ForeignUpdate
    <2>1. PICK rev \in ForeignUpdates(file) : file' = Append(file, rev)
      BY <1>2 DEF ForeignUpdate
    <2>2. IsDocument(file')
      BY <1>0, <2>1, AppendDocument DEF ForeignAreUnsigned
    <2>3. req' = req
      BY <1>2 DEF ForeignUpdate
    <2> QED BY <2>2, <2>3 DEF IInv, TypeInv, RequestInv
  <1>3. ASSUME NEW r \in Requests, Fails(r)
        PROVE  IInv'
    <2>1. PICK err : Set(r, Failed(err)) /\ file' = file
      BY <1>3 DEF Fails, Fail
    <2> QED BY <1>0, <2>1, SetInv, FinishedFacts
  <1>4. ASSUME NEW r \in Requests, Opens(r)
        PROVE  IInv'
    BY <1>0, <1>4, SetInv DEF Opens
  <1>5. ASSUME NEW r \in Requests, SignsAtOnce(r)
        PROVE  IInv'
    <2>1. PICK what, page, visuals, zero :
            /\ what \in Kinds
            /\ LET out == WithSignature(file, what, page, visuals)
               IN  Return(r, "BB", InjectCms(out, Blank(out), zero))
      BY <1>5 DEF SignsAtOnce
    <2>2. what # "none"
      BY <2>1, SigningAssumption
    <2>3. IsDocument(file') /\ Set(r, Succeeded("BB"))
      BY <1>0, <2>1, <2>2, SignedFacts DEF Return
    <2> QED BY <2>3, SetInv, FinishedFacts
  <1>6. ASSUME NEW r \in Requests, Completes(r)
        PROVE  IInv'
    <2>1. PICK s, level, zero :
            s \in Requests /\ Return(r, level, InjectCms(req[r].out, req[s].over, zero))
      BY <1>6 DEF Completes
    <2>2. Holds(req[r])
      BY <1>6 DEF Completes, IInv, RequestInv
    <2>3. IsDocument(file') /\ Set(r, Succeeded(level))
      BY <2>1, <2>2, CompletedFacts DEF Return
    <2> QED BY <2>3, SetInv, FinishedFacts
  <1>7. CASE Next
    BY <1>2, <1>3, <1>4, <1>5, <1>6, <1>7, StepCases
  <1> QED BY <1>1, <1>7

\* The files at rest and with open requests are sequences of revisions, and what
\* a request holds extends what it was given by signatures of its own.
THEOREM Invariance ==
  ASSUME ForeignAreUnsigned
  PROVE  Spec => []IInv
  <1>1. IInv /\ [Next]_vars => IInv'
    BY StepInv
  <1> QED BY <1>1, InitInv, PTL DEF Spec

-----------------------------------------------------------------------------
(* Nothing that a request was given is rewritten. *)

\* A file with more revisions extends the file without them.
LEMMA ExtendsByFacts ==
  ASSUME NEW doc, IsDocument(doc), NEW d, IsDocument(d), NEW n \in Nat, Len(d) = Len(doc) + n,
         \A i \in 1 .. Len(doc) : d[i] = doc[i]
  PROVE  ExtendsBy(d, doc, n)
  <1>1. PICK S : d \in Seq(S)
    BY DocumentFacts
  <1>2. PICK T : doc \in Seq(T)
    BY DocumentFacts
  <1> DEFINE m == Len(doc)
  <1>3. m \in Nat /\ Len(d) = m + n /\ Len(d) \in Nat
    BY <1>1, <1>2
  <1>4. SubSeq(d, 1, m) = [i \in 1 .. m |-> d[i]]
    BY <1>1, <1>3
  <1>5. doc = [i \in 1 .. m |-> doc[i]]
    BY <1>2
  <1> HIDE DEF m
  <1> QED BY <1>3, <1>4, <1>5 DEF ExtendsBy, m

\* OutputExtendsInput: what a finished request returns is the file it was given
\* and all revisions of its level, whatever was saved meanwhile.
THEOREM OutputCorrect ==
  ASSUME ForeignAreUnsigned
  PROVE  Spec => OutputExtendsInput
  <1> DEFINE finished == {r \in Requests : req'[r] # req[r]}
             extended == IF finished = {} THEN ExtendsBy(file', file, 1)
                         ELSE \A r \in finished :
                                ExtendsBy(file', BaseOf(r), UpdatesOf(req'[r].level))
  <1>1. ASSUME IInv, Next
        PROVE  file' # file => extended
    <2>0. IsDocument(file) /\ TypeInv
      BY <1>1 DEF IInv, TypeInv
    <2>1. CASE ForeignUpdate
      <3>1. PICK rev \in ForeignUpdates(file) : file' = Append(file, rev)
        BY <2>1 DEF ForeignUpdate
      <3>2. IsDocument(file') /\ Len(file') = Len(file) + 1 /\ \A i \in 1 .. Len(file) : file'[i] = file[i]
        BY <2>0, <3>1, AppendDocument DEF ForeignAreUnsigned
      <3>3. ExtendsBy(file', file, 1)
        BY <2>0, <3>2, ExtendsByFacts
      <3>4. finished = {}
        BY <2>1 DEF ForeignUpdate
      <3> QED BY <3>3, <3>4
    <2>2. ASSUME NEW r \in Requests, Fails(r) \/ Opens(r)
          PROVE  file' = file
      BY <2>2 DEF Fails, Opens, Fail
    <2>3. ASSUME NEW r \in Requests, SignsAtOnce(r)
          PROVE  extended
      <3>1. PICK what, page, visuals, zero :
              /\ what \in Kinds
              /\ LET out == WithSignature(file, what, page, visuals)
                 IN  Return(r, "BB", InjectCms(out, Blank(out), zero))
        BY <2>3 DEF SignsAtOnce
      <3>2. what # "none"
        BY <3>1, SigningAssumption
      <3>3. IsDocument(file') /\ Len(file') = Len(file) + 1 /\ \A i \in 1 .. Len(file) : file'[i] = file[i]
        BY <2>0, <3>1, <3>2, SignedFacts DEF Return
      <3>4. ExtendsBy(file', file, 1)
        BY <2>0, <3>3, ExtendsByFacts
      <3>5. req'[r] = Succeeded("BB") /\ \A t \in Requests \ {r} : req'[t] = req[t]
        BY <2>0, <3>1, SetFacts DEF Return
      <3>6. UpdatesOf(req'[r].level) = 1
        <4>1. req'[r].level = "BB"
          BY <3>5 DEF Succeeded, Request
        <4> QED BY <4>1 DEF UpdatesOf
      <3>7. BaseOf(r) = file
        BY <2>3 DEF SignsAtOnce, Free, BaseOf, Waiting
      <3> QED BY <3>4, <3>5, <3>6, <3>7
    <2>4. ASSUME NEW r \in Requests, Completes(r)
          PROVE  extended
      <3>1. PICK s, level, zero :
              /\ s \in Requests
              /\ level = req[r].level \/ (req[r].st = "prepared" /\ level = "BB")
              /\ Return(r, level, InjectCms(req[r].out, req[s].over, zero))
        BY <2>4 DEF Completes
      <3>2. Holds(req[r]) /\ BaseOf(r) = req[r].base /\ Open(req[r])
        BY <1>1, <2>4 DEF Completes, IInv, RequestInv, BaseOf, Waiting, Open
      <3>3. /\ Len(file') = Len(req[r].out) /\ Extends(file', BaseOf(r))
            /\ req'[r] = Succeeded(level) /\ \A t \in Requests \ {r} : req'[t] = req[t]
        <4>1. file' = InjectCms(req[r].out, req[s].over, zero) /\ Set(r, Succeeded(level))
          BY <3>1 DEF Return
        <4>2. Len(file') = Len(req[r].out) /\ Extends(file', req[r].base)
          BY <3>2, <4>1, CompletedFacts
        <4>3. req'[r] = Succeeded(level) /\ \A t \in Requests \ {r} : req'[t] = req[t]
          BY <2>0, <4>1, SetFacts
        <4> QED BY <3>2, <4>2, <4>3
      <3>4. level = req[r].level /\ req'[r].level = level
        BY <3>1, <3>2, <3>3 DEF Holds, Succeeded, Request
      <3>5. ExtendsBy(file', BaseOf(r), UpdatesOf(req'[r].level))
        BY <3>2, <3>3, <3>4 DEF Holds, ExtendsBy, Extends
      <3>6. req'[r] # req[r]
        BY <3>2, <3>3, FinishedFacts
      <3> QED BY <3>3, <3>5, <3>6
    <2> HIDE DEF extended, finished
    <2> QED BY <1>1, <2>1, <2>2, <2>3, <2>4, StepCases
  <1>2. IInv /\ [Next]_vars => [file' # file => extended]_vars
    BY <1>1
  <1>3. Spec => []IInv
    BY Invariance
  <1> QED BY <1>2, <1>3, PTL DEF Spec, OutputExtendsInput

\* A request that was waiting and has succeeded completed its signature.
LEMMA Completion ==
  ASSUME IInv, [Next]_vars, NEW r \in Requests, Waiting(r), req'[r].st = "ok"
  PROVE  Completes(r) /\ Holds(req[r])
  <1>0. TypeInv /\ req[r].st # "ok" /\ ~Free(r) /\ Open(req[r])
    BY DEF IInv, Waiting, Free, Open
  <1>1. req'[r] # req[r]
    BY <1>0
  <1>2. ~ForeignUpdate /\ ~UNCHANGED vars
    BY <1>1 DEF ForeignUpdate, vars
  <1>3. PICK t \in Requests : Fails(t) \/ Opens(t) \/ SignsAtOnce(t) \/ Completes(t)
    BY <1>2, StepCases
  <1>4. \E x : Set(t, x)
    BY <1>3 DEF Fails, Fail, Opens, SignsAtOnce, Completes, Return
  <1>5. t = r
    BY <1>0, <1>1, <1>4, SetFacts
  <1>6. ~Fails(r)
    <2>1. SUFFICES ASSUME Fails(r) PROVE FALSE
      OBVIOUS
    <2>2. PICK err : Set(r, Failed(err))
      BY <2>1 DEF Fails, Fail
    <2> QED BY <1>0, <2>2, SetFacts, FinishedFacts
  <1>7. Completes(r)
    BY <1>0, <1>3, <1>5, <1>6 DEF Opens, SignsAtOnce
  <1>8. Holds(req[r])
    BY <1>0 DEF IInv, RequestInv
  <1> QED BY <1>7, <1>8

\* NewSignaturesVerify: what a completed request adds verifies, unless it was
\* handed the answer to another digest.
THEOREM NewSignaturesCorrect ==
  ASSUME ForeignAreUnsigned
  PROVE  Spec => NewSignaturesVerify
  <1> DEFINE verified(r) ==
        \/ \A i \in Len(req[r].base) + 1 .. Len(file') : Verifies(file', i)
        \/ \E s \in Requests \ {r} : /\ req[s].st = "prepared" /\ req[s].over # req[r].over
                                     /\ \E zero \in LastZero :
                                          file' = InjectCms(req[r].out, req[s].over, zero)
  <1>1. ASSUME IInv, [Next]_vars, NEW r \in Requests, Waiting(r), req'[r].st = "ok"
        PROVE  verified(r)
    <2>7. Completes(r) /\ Holds(req[r])
      BY <1>1, Completion
    <2>8. PICK s, level, zero :
            /\ s \in Requests /\ zero \in LastZero
            /\ s = r \/ req[s].st = "prepared"
            /\ Return(r, level, InjectCms(req[r].out, req[s].over, zero))
      BY <2>7 DEF Completes
    <2>9. file' = InjectCms(req[r].out, req[s].over, zero) /\ Holds(req[r])
      BY <2>7, <2>8 DEF Return
    <2>10. CASE req[s].over = req[r].over
      BY <2>9, <2>10, CompletedFacts
    <2>11. CASE req[s].over # req[r].over
      BY <2>8, <2>9, <2>11
    <2> QED BY <2>10, <2>11
  <1>2. IInv /\ [Next]_vars
          => [\A r \in Requests : (Waiting(r) /\ req'[r].st = "ok") => verified(r)]_vars
    BY <1>1
  <1>3. Spec => []IInv
    BY Invariance
  <1> QED BY <1>2, <1>3, PTL DEF Spec, NewSignaturesVerify

-----------------------------------------------------------------------------
(* What the reports rest on. *)

\* The editors of OtherPrograms are such programs.
LEMMA EditorsAreUnsigned ==
  \A doc : \A rev \in EditorUpdates(doc) : IsRevision(rev) /\ rev.sig = NoSig
  <1>1. \A objs, size, stream, tail : LET rev == Revision(objs, size, stream, tail, NoSig)
                                     IN  IsRevision(rev) /\ rev.sig = NoSig
    BY DEF Revision, IsRevision, NoSig, NoCms, Cms
  <1>2. \A doc : \A rev \in EditorUpdates(doc) :
          \E objs, size, stream, tail : rev = Revision(objs, size, stream, tail, NoSig)
    BY Zenon DEF EditorUpdates, Update
  <1> QED BY <1>1, <1>2

-----------------------------------------------------------------------------
(* Signing implements the ledger of SignatureLedger. *)

\* The ledger of a file has one entry per revision.
LEMMA KindsFacts ==
  ASSUME NEW doc, IsDocument(doc)
  PROVE  /\ KindsOf(doc) = [i \in 1 .. Len(doc) |-> doc[i].sig.what]
         /\ Len(KindsOf(doc)) = Len(doc) /\ Len(doc) \in Nat
         /\ \E S : KindsOf(doc) \in Seq(S)
  <1> DEFINE kinds == KindsOf(doc)
             n     == Len(doc)
             S     == {doc[i].sig.what : i \in 1 .. n}
  <1>1. DOMAIN doc = 1 .. n /\ n \in Nat
    BY DocumentFacts
  <1>2. kinds = [i \in 1 .. n |-> doc[i].sig.what]
    BY <1>1 DEF KindsOf
  <1>3. kinds \in [1 .. n -> S]
    BY <1>2
  <1>4. kinds \in Seq(S) /\ Len(kinds) = n
    <2> HIDE DEF kinds, S, n
    <2> QED BY <1>1, <1>3
  <1> QED BY <1>1, <1>2, <1>4

\* One more revision is one more entry at its end.
LEMMA AppendKinds ==
  ASSUME NEW doc, IsDocument(doc), NEW d, IsDocument(d), Len(d) = Len(doc) + 1,
         \A i \in 1 .. Len(doc) : d[i] = doc[i],
         NEW what, d[Len(d)].sig.what = what
  PROVE  /\ KindsOf(d) = Append(KindsOf(doc), what)
         /\ KindsOf(d) = KindsOf(doc) \o <<what>>
  <1> DEFINE old == KindsOf(doc)
             new == KindsOf(d)
             n   == Len(doc)
  <1>1. /\ old = [i \in 1 .. n |-> doc[i].sig.what] /\ Len(old) = n /\ n \in Nat
        /\ new = [i \in 1 .. n + 1 |-> d[i].sig.what] /\ Len(new) = n + 1
    BY KindsFacts
  <1>2. PICK S : old \in Seq(S)
    BY KindsFacts
  <1>3. PICK T : new \in Seq(T)
    BY KindsFacts
  <1>4. (\A i \in 1 .. n : new[i] = old[i]) /\ new[n + 1] = what
    <2>1. (\A i \in 1 .. n : d[i] = doc[i]) /\ d[n + 1].sig.what = what
      OBVIOUS
    <2> HIDE DEF old, new, n
    <2> QED BY <1>1, <2>1
  <1> HIDE DEF old, new, n
  <1> DEFINE longer == Append(old, what)
             U      == S \cup {what}
  <1>5. old \in Seq(U) /\ what \in U
    BY <1>2
  <1>6. /\ longer \in Seq(U) /\ Len(longer) = n + 1 /\ longer[n + 1] = what
        /\ \A i \in 1 .. n : longer[i] = old[i]
    <2> HIDE DEF U
    <2> QED BY <1>1, <1>5
  <1>7. longer = old \o <<what>>
    <2> HIDE DEF U
    <2> QED BY <1>5
  <1>8. longer = [i \in 1 .. n + 1 |-> longer[i]] /\ new = [i \in 1 .. n + 1 |-> new[i]]
    <2> HIDE DEF U, longer
    <2> QED BY <1>1, <1>6
  <1>9. \A i \in 1 .. n + 1 : longer[i] = new[i]
    <2> HIDE DEF U, longer
    <2>1. n \in Nat
      BY <1>1
    <2>2. \A i \in 1 .. n + 1 : i \in 1 .. n \/ i = n + 1
      BY <2>1
    <2> QED BY <1>4, <1>6, <2>2
  <1>10. longer = new
    <2> HIDE DEF longer
    <2> QED BY <1>8, <1>9
  <1> QED BY <1>7, <1>10 DEF old, new

\* The kinds of an open file are those of its base and what has been added.
LEMMA AddedKinds ==
  ASSUME NEW x, Holds(x)
  PROVE  KindsOf(x.out) = KindsOf(x.base) \o Added(x)
  <1> DEFINE m    == Len(x.base)
             n    == Len(x.out)
             base == KindsOf(x.base)
             out  == KindsOf(x.out)
  <1>1. /\ IsDocument(x.base) /\ IsDocument(x.out) /\ m < n
        /\ \A i \in 1 .. m : x.out[i] = x.base[i]
    BY ExtendsFacts DEF Holds
  <1>2. /\ m \in Nat /\ base = [i \in 1 .. m |-> x.base[i].sig.what] /\ Len(base) = m
        /\ n \in Nat /\ out = [i \in 1 .. n |-> x.out[i].sig.what] /\ Len(out) = n
    BY <1>1, KindsFacts
  <1>3. PICK S : base \in Seq(S)
    BY <1>1, KindsFacts
  <1>4. PICK T : out \in Seq(T)
    BY <1>1, KindsFacts
  <1>5. Added(x) = SubSeq(out, m + 1, n)
    BY DEF Added
  <1> HIDE DEF m, n, base, out
  <1>6. \A i \in 1 .. m : out[i] = base[i]
    BY <1>1, <1>2
  <1>7. out = base \o SubSeq(out, m + 1, n)
    BY <1>1, <1>2, <1>3, <1>4, <1>6
  <1> QED BY <1>5, <1>7 DEF base, out

\* what the ledger remembers of a request
PendingOf(x) == IF Open(x) THEN <<KindsOf(x.base), Added(x)>> ELSE <<>>
LedgerPending == [r \in Requests |-> PendingOf(req[r])]

\* The ledger's definitions under the refinement mapping.
LEMMA LedgerFacts ==
  /\ Ledger!vars = <<KindsOf(file), LedgerPending>>
  /\ Ledger!Init <=> /\ KindsOf(file) \in {KindsOf(doc) : doc \in BaseDocs}
                     /\ LedgerPending = [r \in Requests |-> <<>>]
  /\ (KindsOf(file') = KindsOf(file) /\ LedgerPending' = LedgerPending)
       => UNCHANGED Ledger!vars
  BY DEF Ledger!vars, Ledger!Init, Ledger!NotOpen, LedgerPending, PendingOf, Open, Added

\* Set changes the one pending entry.
LEMMA PendingSet ==
  ASSUME TypeInv, NEW r \in Requests, NEW x, Set(r, x)
  PROVE  /\ LedgerPending' = [LedgerPending EXCEPT ![r] = PendingOf(x)]
         /\ PendingOf(x) = PendingOf(req[r]) => LedgerPending' = LedgerPending
  <1>1. req' = [s \in Requests |-> IF s = r THEN x ELSE req[s]]
    BY SetFacts
  <1>2. LedgerPending' = [s \in Requests |-> IF s = r THEN PendingOf(x) ELSE PendingOf(req[s])]
    <2>1. LedgerPending' = [s \in Requests |-> PendingOf(req'[s])]
      BY DEF LedgerPending, PendingOf, Added, Open
    <2> QED BY <1>1, <2>1
  <1> QED BY <1>2 DEF LedgerPending

\* Initial states map to initial states.
LEMMA LedgerInit == Init => Ledger!Init
  <1> SUFFICES ASSUME Init PROVE Ledger!Init
    OBVIOUS
  <1>1. KindsOf(file) \in {KindsOf(doc) : doc \in BaseDocs}
    BY DEF Init
  <1>2. \A r \in Requests : req[r] = Idle
    BY DEF Init
  <1>3. LedgerPending = [r \in Requests |-> <<>>]
    BY <1>2, FinishedFacts DEF LedgerPending, PendingOf
  <1> QED BY <1>1, <1>3, LedgerFacts

\* The steps of the ledger in terms of the file and what is remembered.
LEMMA LedgerActions ==
  /\ (KindsOf(file') = Append(KindsOf(file), "none") /\ LedgerPending' = LedgerPending)
       => Ledger!Next
  /\ \A order \in LedgerOrders :
       (KindsOf(file') = KindsOf(file) \o order /\ LedgerPending' = LedgerPending) => Ledger!Next
  /\ \A r \in Requests : \A order \in LedgerOrders :
       (/\ LedgerPending[r] = <<>> /\ KindsOf(file') = KindsOf(file)
        /\ LedgerPending' = [LedgerPending EXCEPT ![r] = <<KindsOf(file), order>>]) => Ledger!Next
  /\ \A r \in Requests :
       (/\ LedgerPending[r] # <<>> /\ KindsOf(file') = KindsOf(file)
        /\ LedgerPending' = [LedgerPending EXCEPT ![r] = <<>>]) => Ledger!Next
  /\ \A r \in Requests :
       (/\ LedgerPending[r] # <<>>
        /\ KindsOf(file') = LedgerPending[r][1] \o LedgerPending[r][2]
        /\ LedgerPending' = [LedgerPending EXCEPT ![r] = <<>>]) => Ledger!Next
  <1> DEFINE pending == [r \in Requests |->
                IF req[r].st \in {"awaitingToken", "prepared"}
                THEN LET n == Len(req[r].base)
                     IN  <<KindsOf(req[r].base),
                           SubSeq(KindsOf(req[r].out), n + 1, Len(req[r].out))>>
                ELSE <<>>]
  <1>1. LedgerPending = pending /\ LedgerPending' = pending'
    BY DEF LedgerPending, PendingOf, Open, Added
  <1>2. \A order \in LedgerOrders :
       (KindsOf(file') = KindsOf(file) \o order /\ pending' = pending) => Ledger!Next
    BY DEF Ledger!Next, Ledger!AtOnce
  <1>3. (KindsOf(file') = Append(KindsOf(file), "none") /\ pending' = pending) => Ledger!Next
    BY DEF Ledger!Next, Ledger!Foreign
  <1>4. \A r \in Requests : \A order \in LedgerOrders :
       (/\ pending[r] = <<>> /\ KindsOf(file') = KindsOf(file)
        /\ pending' = [pending EXCEPT ![r] = <<KindsOf(file), order>>]) => Ledger!Next
    BY DEF Ledger!Next, Ledger!Begin, Ledger!NotOpen
  <1>5. \A r \in Requests :
       (/\ pending[r] # <<>> /\ KindsOf(file') = KindsOf(file)
        /\ pending' = [pending EXCEPT ![r] = <<>>]) => Ledger!Next
    BY DEF Ledger!Next, Ledger!GiveUp, Ledger!NotOpen
  <1>6. \A r \in Requests :
       (/\ pending[r] # <<>> /\ KindsOf(file') = pending[r][1] \o pending[r][2]
        /\ pending' = [pending EXCEPT ![r] = <<>>]) => Ledger!Next
    BY DEF Ledger!Next, Ledger!Complete, Ledger!NotOpen
  <1> HIDE DEF pending
  <1> QED BY <1>1, <1>2, <1>3, <1>4, <1>5, <1>6

\* Every step maps to a step of the ledger or to a stutter.
LEMMA LedgerStep ==
  ASSUME ForeignAreUnsigned, IInv, [Next]_vars
  PROVE  [Ledger!Next]_(Ledger!vars)
  <1>0. TypeInv /\ IsDocument(file)
    BY DEF IInv, TypeInv
  <1>1. CASE UNCHANGED vars
    <2>1. KindsOf(file') = KindsOf(file) /\ LedgerPending' = LedgerPending
      BY <1>1 DEF vars, LedgerPending, PendingOf, Added, Open
    <2> QED BY <2>1, LedgerFacts
  <1>2. CASE ForeignUpdate
    <2>1. PICK rev \in ForeignUpdates(file) : file' = Append(file, rev)
      BY <1>2 DEF ForeignUpdate
    <2>2. /\ IsDocument(file') /\ Len(file') = Len(file) + 1
          /\ \A i \in 1 .. Len(file) : file'[i] = file[i]
          /\ file'[Len(file')].sig.what = "none"
      <3>1. IsRevision(rev) /\ rev.sig.what = "none"
        BY DEF ForeignAreUnsigned, NoSig
      <3> QED BY <1>0, <2>1, <3>1, AppendDocument
    <2>3. KindsOf(file') = Append(KindsOf(file), "none")
      BY <1>0, <2>2, AppendKinds
    <2>4. LedgerPending' = LedgerPending
      BY <1>2 DEF ForeignUpdate, LedgerPending, PendingOf, Added, Open
    <2> QED BY <2>3, <2>4, LedgerActions
  <1>3. ASSUME NEW r \in Requests, Fails(r)
        PROVE  [Ledger!Next]_(Ledger!vars)
    <2>1. PICK err : Set(r, Failed(err)) /\ file' = file
      BY <1>3 DEF Fails, Fail
    <2>2. PendingOf(Failed(err)) = <<>>
      BY FinishedFacts DEF PendingOf
    <2>3. CASE Open(req[r])
      <3>1. LedgerPending[r] # <<>>
        BY <2>3 DEF LedgerPending, PendingOf
      <3> QED BY <1>0, <2>1, <2>2, <3>1, PendingSet, LedgerActions
    <2>4. CASE ~Open(req[r])
      <3>1. PendingOf(req[r]) = <<>>
        BY <2>4 DEF PendingOf
      <3>2. LedgerPending' = LedgerPending
        BY <1>0, <2>1, <2>2, <3>1, PendingSet
      <3> QED BY <2>1, <3>2, LedgerFacts
    <2> QED BY <2>3, <2>4
  <1>4. ASSUME NEW r \in Requests, Opens(r)
        PROVE  [Ledger!Next]_(Ledger!vars)
    <2>1. PICK x : Set(r, x) /\ Open(x) /\ x.base = file /\ Added(x) \in LedgerOrders
      BY <1>4 DEF Opens
    <2>2. PendingOf(x) = <<KindsOf(file), Added(x)>> /\ file' = file
      BY <1>4, <2>1 DEF PendingOf, Opens
    <2>3. LedgerPending[r] = <<>>
      BY <1>4 DEF Opens, LedgerPending, PendingOf, Free, Open
    <2>4. LedgerPending' = [LedgerPending EXCEPT ![r] = <<KindsOf(file), Added(x)>>]
      BY <1>0, <2>1, <2>2, PendingSet
    <2> QED BY <2>1, <2>2, <2>3, <2>4, LedgerActions
  <1>5. ASSUME NEW r \in Requests, SignsAtOnce(r)
        PROVE  [Ledger!Next]_(Ledger!vars)
    <2>1. PICK what, page, visuals, zero :
            /\ what \in Kinds
            /\ LET out == WithSignature(file, what, page, visuals)
               IN  Return(r, "BB", InjectCms(out, Blank(out), zero))
      BY <1>5 DEF SignsAtOnce
    <2>2. what # "none" /\ <<what>> \in LedgerOrders
      BY <2>1, SigningAssumption DEF LedgerOrders
    <2>3. /\ IsDocument(file') /\ Len(file') = Len(file) + 1
          /\ \A i \in 1 .. Len(file) : file'[i] = file[i]
          /\ file'[Len(file')].sig.what = what
      BY <1>0, <2>1, <2>2, SignedFacts DEF Return
    <2>4. KindsOf(file') = KindsOf(file) \o <<what>>
      BY <1>0, <2>3, AppendKinds
    <2>5. PendingOf(req[r]) = <<>> /\ PendingOf(Succeeded("BB")) = <<>>
      BY <1>5, FinishedFacts DEF SignsAtOnce, PendingOf, Free, Open
    <2>6. LedgerPending' = LedgerPending
      BY <1>0, <2>1, <2>5, PendingSet DEF Return
    <2> QED BY <2>2, <2>4, <2>6, LedgerActions
  <1>6. ASSUME NEW r \in Requests, Completes(r)
        PROVE  [Ledger!Next]_(Ledger!vars)
    <2>1. PICK s, level, zero : Return(r, level, InjectCms(req[r].out, req[s].over, zero))
      BY <1>6 DEF Completes
    <2>2. Open(req[r]) /\ Holds(req[r])
      BY <1>6 DEF Completes, IInv, RequestInv
    <2>3. KindsOf(file') = KindsOf(req[r].base) \o Added(req[r])
      BY <2>1, <2>2, CompletedFacts, AddedKinds DEF Return
    <2>4. /\ LedgerPending[r] # <<>>
          /\ LedgerPending[r][1] = KindsOf(req[r].base) /\ LedgerPending[r][2] = Added(req[r])
      BY <2>2 DEF LedgerPending, PendingOf
    <2>5. PendingOf(Succeeded(level)) = <<>>
      BY FinishedFacts DEF PendingOf
    <2>6. LedgerPending' = [LedgerPending EXCEPT ![r] = <<>>]
      BY <1>0, <2>1, <2>5, PendingSet DEF Return
    <2> QED BY <2>3, <2>4, <2>6, LedgerActions
  <1>7. CASE Next
    BY <1>2, <1>3, <1>4, <1>5, <1>6, <1>7, StepCases
  <1> QED BY <1>1, <1>7

\* ImplementsLedger: every operation is all or nothing on the file it was given,
\* for any number of requests, revisions, appearances and foreign updates.
THEOREM Refinement ==
  ASSUME ForeignAreUnsigned
  PROVE  Spec => ImplementsLedger
  <1>1. IInv /\ [Next]_vars => [Ledger!Next]_(Ledger!vars)
    BY LedgerStep
  <1>2. Spec => []IInv
    BY Invariance
  <1> QED BY <1>1, <1>2, LedgerInit, PTL DEF Spec, ImplementsLedger, Ledger!Spec

-----------------------------------------------------------------------------
(* Object graphs of files that grow. *)

\* The newest revision that wrote a number defines the object.
LEMMA StoreValue ==
  ASSUME NEW doc, IsDocument(doc), NEW i \in 1 .. Len(doc), NEW n \in DOMAIN doc[i].objs,
         \A j \in 1 .. Len(doc) : n \in DOMAIN doc[j].objs => j <= i
  PROVE  n \in DOMAIN Store(doc) /\ Store(doc)[n] = doc[i].objs[n]
  <1> DEFINE Newest(k) == /\ n \in DOMAIN doc[k].objs
                          /\ \A j \in DOMAIN doc : n \in DOMAIN doc[j].objs => j <= k
  <1>1. DOMAIN doc = 1 .. Len(doc) /\ Len(doc) \in Nat
    BY DocumentFacts
  <1>2. n \in Written(doc)
    BY <1>1 DEF Written
  <1>3. Newest(i) /\ i \in DOMAIN doc
    BY <1>1
  <1>4. \A k \in DOMAIN doc : Newest(k) => k = i
    BY <1>1
  <1> DEFINE newest == CHOOSE k \in DOMAIN doc : Newest(k)
  <1>5. newest = i
    <2> HIDE DEF Newest
    <2> QED BY <1>3, <1>4
  <1>6. Store(doc)[n] = doc[newest].objs[n]
    BY <1>2 DEF Store
  <1> QED BY <1>2, <1>5, <1>6 DEF Store

\* Every object of a file was written by one of its revisions, the newest that did.
LEMMA StoreDefined ==
  ASSUME NEW doc, IsDocument(doc), NEW n \in DOMAIN Store(doc)
  PROVE  \E i \in 1 .. Len(doc) :
            /\ n \in DOMAIN doc[i].objs /\ Store(doc)[n] = doc[i].objs[n]
            /\ \A j \in 1 .. Len(doc) : n \in DOMAIN doc[j].objs => j <= i
  <1>1. DOMAIN doc = 1 .. Len(doc) /\ Len(doc) \in Nat
    BY DocumentFacts
  <1> DEFINE W == {i \in 1 .. Len(doc) : n \in DOMAIN doc[i].objs}
  <1>2. W \subseteq Nat /\ W # {} /\ \A i \in W : i <= Len(doc)
    BY <1>1 DEF Store, Written
  <1>3. PICK i \in W : \A j \in W : j <= i
    <2> HIDE DEF W
    <2> QED BY <1>1, <1>2, GreatestElement
  <1>4. i \in 1 .. Len(doc) /\ n \in DOMAIN doc[i].objs
        /\ \A j \in 1 .. Len(doc) : n \in DOMAIN doc[j].objs => j <= i
    BY <1>3
  <1>5. Store(doc)[n] = doc[i].objs[n]
    <2> HIDE DEF W
    <2> QED BY <1>4, StoreValue
  <1> QED BY <1>4, <1>5

\* Object graphs depend on what revisions wrote only.
LEMMA StoreSame ==
  ASSUME NEW doc, IsDocument(doc), NEW other, IsDocument(other), Len(other) = Len(doc),
         \A i \in 1 .. Len(doc) : other[i].objs = doc[i].objs
  PROVE  Store(other) = Store(doc) /\ Written(other) = Written(doc)
  <1>1. DOMAIN doc = 1 .. Len(doc) /\ DOMAIN other = 1 .. Len(doc)
    BY DocumentFacts
  <1>2. Written(other) = Written(doc)
    BY <1>1 DEF Written
  <1>3. DOMAIN Store(other) = Written(doc) /\ DOMAIN Store(doc) = Written(doc)
    BY <1>2 DEF Store
  <1>4. ASSUME NEW n \in Written(doc)
        PROVE  Store(other)[n] = Store(doc)[n]
    <2>1. PICK i \in 1 .. Len(doc) :
            /\ n \in DOMAIN doc[i].objs /\ Store(doc)[n] = doc[i].objs[n]
            /\ \A j \in 1 .. Len(doc) : n \in DOMAIN doc[j].objs => j <= i
      BY <1>3, StoreDefined
    <2>2. \A j \in 1 .. Len(other) : n \in DOMAIN other[j].objs => j <= i
      BY <2>1
    <2>3. i \in 1 .. Len(other) /\ n \in DOMAIN other[i].objs
      BY <2>1
    <2>4. Store(other)[n] = other[i].objs[n]
      BY <2>2, <2>3, StoreValue
    <2> QED BY <2>1, <2>4
  <1>5. Store(other) = [n \in Written(doc) |-> Store(other)[n]]
        /\ Store(doc) = [n \in Written(doc) |-> Store(doc)[n]]
    BY <1>2 DEF Store
  <1> QED BY <1>2, <1>4, <1>5

\* One more revision puts what it writes over what was there.
LEMMA StoreAppend ==
  ASSUME NEW doc, IsDocument(doc), NEW rev, IsRevision(rev)
  PROVE  LET st == Store(doc)
             st2 == Store(Append(doc, rev))
         IN  /\ DOMAIN st2 = DOMAIN rev.objs \cup DOMAIN st
             /\ \A n \in DOMAIN rev.objs : st2[n] = rev.objs[n]
             /\ \A n \in DOMAIN st : n \notin DOMAIN rev.objs => st2[n] = st[n]
  <1> DEFINE d == Append(doc, rev)
             k == Len(doc)
  <1>1. /\ IsDocument(d) /\ Len(d) = k + 1 /\ d[k + 1] = rev /\ k \in Nat /\ DOMAIN d = 1 .. k + 1
        /\ DOMAIN doc = 1 .. k /\ \A i \in 1 .. k : d[i] = doc[i]
    BY AppendDocument, DocumentFacts
  <1> HIDE DEF d, k
  <1>2. Written(d) = DOMAIN rev.objs \cup Written(doc)
    BY <1>1 DEF Written
  <1>3. DOMAIN Store(d) = Written(d) /\ DOMAIN Store(doc) = Written(doc)
    BY DEF Store
  <1>4. ASSUME NEW n \in DOMAIN rev.objs
        PROVE  Store(d)[n] = rev.objs[n]
    <2>1. k + 1 \in 1 .. Len(d) /\ n \in DOMAIN d[k + 1].objs
      BY <1>1
    <2>2. \A j \in 1 .. Len(d) : n \in DOMAIN d[j].objs => j <= k + 1
      BY <1>1
    <2>3. Store(d)[n] = d[k + 1].objs[n]
      BY <1>1, <2>1, <2>2, StoreValue
    <2> QED BY <1>1, <2>3
  <1>5. ASSUME NEW n \in DOMAIN Store(doc), n \notin DOMAIN rev.objs
        PROVE  Store(d)[n] = Store(doc)[n]
    <2>1. PICK i \in 1 .. k :
            /\ n \in DOMAIN doc[i].objs /\ Store(doc)[n] = doc[i].objs[n]
            /\ \A j \in 1 .. k : n \in DOMAIN doc[j].objs => j <= i
      BY StoreDefined DEF k
    <2>2. \A j \in 1 .. Len(d) : n \in DOMAIN d[j].objs => j <= i
      <3> SUFFICES ASSUME NEW j \in 1 .. Len(d), n \in DOMAIN d[j].objs PROVE j <= i
        OBVIOUS
      <3>1. j # k + 1
        BY <1>1, <1>5
      <3>2. j \in 1 .. k
        BY <1>1, <3>1
      <3> QED BY <1>1, <2>1, <3>2
    <2>3. i \in 1 .. Len(d) /\ d[i] = doc[i]
      BY <1>1
    <2>4. Store(d)[n] = d[i].objs[n]
      BY <1>1, <2>1, <2>2, <2>3, StoreValue
    <2> QED BY <2>1, <2>3, <2>4
  <1> QED BY <1>2, <1>3, <1>4, <1>5 DEF d

\* A file cut off behind one of its revisions is a file.
LEMMA PrefixFacts ==
  ASSUME NEW doc, IsDocument(doc), NEW i \in 1 .. Len(doc)
  PROVE  /\ IsDocument(SubSeq(doc, 1, i)) /\ Len(SubSeq(doc, 1, i)) = i
         /\ \A k \in 1 .. i : SubSeq(doc, 1, i)[k] = doc[k]
         /\ i = Len(doc) => SubSeq(doc, 1, i) = doc
         /\ i > 1 => SubSeq(doc, 1, i) = Append(SubSeq(doc, 1, i - 1), doc[i])
  <1> DEFINE d == SubSeq(doc, 1, i)
  <1>1. PICK S : doc \in Seq(S)
    BY DocumentFacts
  <1>2. /\ i \in Nat /\ i >= 1 /\ Len(doc) \in Nat
        /\ \A k \in 1 .. Len(doc) : IsRevision(doc[k])
    BY DocumentFacts
  <1>3. d = [k \in 1 .. i |-> doc[k]]
    BY <1>1, <1>2
  <1>4. d = [k \in 1 .. i |-> d[k]] /\ \A k \in 1 .. i : d[k] = doc[k] /\ IsRevision(d[k])
    BY <1>2, <1>3
  <1>5. IsDocument(d) /\ Len(d) = i
    <2> HIDE DEF d
    <2> QED BY <1>2, <1>4, DocumentByRevisions
  <1>6. i = Len(doc) => d = doc
    BY <1>1, <1>3
  <1>7. ASSUME i > 1
        PROVE  d = Append(SubSeq(doc, 1, i - 1), doc[i])
    <2> DEFINE e == SubSeq(doc, 1, i - 1)
               m == i - 1
    <2>1. m \in Nat /\ m + 1 = i /\ m <= Len(doc) /\ m >= 1
      BY <1>2, <1>7
    <2>2. e \in Seq(S) /\ Len(e) = m /\ \A k \in 1 .. m : e[k] = doc[k]
      BY <1>1, <2>1
    <2>3. doc[i] \in S
      BY <1>1
    <2> HIDE DEF e
    <2>4. Append(e, doc[i]) = [k \in 1 .. m + 1 |-> IF k = m + 1 THEN doc[i] ELSE e[k]]
      BY <2>2, <2>3
    <2>5. \A k \in 1 .. m + 1 : k \in 1 .. m \/ k = m + 1
      BY <2>1
    <2> HIDE DEF m
    <2>6. Append(e, doc[i]) = [k \in 1 .. m + 1 |-> doc[k]]
      BY <2>1, <2>2, <2>4, <2>5
    <2> QED BY <1>3, <2>1, <2>6 DEF e, m
  <1> QED BY <1>4, <1>5, <1>6, <1>7

\* The object graph behind revision i.
At(doc, i) == Store(SubSeq(doc, 1, i))

\* The last graph is that of the file; numbers stay in use.
LEMMA AtFacts ==
  ASSUME NEW doc, IsDocument(doc)
  PROVE  /\ Store(doc) = At(doc, Len(doc))
         /\ \A i \in 1 .. Len(doc) : DOMAIN At(doc, i) = Written(SubSeq(doc, 1, i))
  <1>1. Len(doc) \in 1 .. Len(doc)
    BY DocumentFacts
  <1>2. Store(doc) = At(doc, Len(doc))
    BY <1>1, PrefixFacts DEF At
  <1>3. \A i \in 1 .. Len(doc) : DOMAIN At(doc, i) = Written(SubSeq(doc, 1, i))
    BY DEF At, Store
  <1> QED BY <1>2, <1>3

\* the graph curr is prev with the objects objs written over it
Overwrites(prev, objs, curr) ==
  /\ DOMAIN curr = DOMAIN objs \cup DOMAIN prev
  /\ \A n \in DOMAIN objs : curr[n] = objs[n]
  /\ \A n \in DOMAIN prev : n \notin DOMAIN objs => curr[n] = prev[n]

\* What a revision does to the object graph before it.
LEMMA AtStep ==
  ASSUME NEW doc, IsDocument(doc), NEW i \in 2 .. Len(doc)
  PROVE  Overwrites(At(doc, i - 1), doc[i].objs, At(doc, i))
  <1> DEFINE d == SubSeq(doc, 1, i - 1)
  <1>1. i \in 1 .. Len(doc) /\ i - 1 \in 1 .. Len(doc) /\ i > 1
    BY DocumentFacts
  <1>2. IsDocument(d)
    BY <1>1, PrefixFacts
  <1>3. SubSeq(doc, 1, i) = Append(d, doc[i])
    BY <1>1, PrefixFacts
  <1>4. IsRevision(doc[i])
    BY <1>1, DocumentFacts
  <1> HIDE DEF d
  <1>5. LET st == Store(d)
            st2 == Store(Append(d, doc[i]))
        IN  /\ DOMAIN st2 = DOMAIN doc[i].objs \cup DOMAIN st
            /\ \A n \in DOMAIN doc[i].objs : st2[n] = doc[i].objs[n]
            /\ \A n \in DOMAIN st : n \notin DOMAIN doc[i].objs => st2[n] = st[n]
    BY <1>2, <1>4, StoreAppend
  <1> QED BY <1>3, <1>5 DEF At, d, Overwrites

\* Files that agree on what their first revisions wrote agree on the graphs.
LEMMA AtSame ==
  ASSUME NEW doc, IsDocument(doc), NEW other, IsDocument(other),
         NEW i \in 1 .. Len(doc), i <= Len(other),
         \A k \in 1 .. i : other[k].objs = doc[k].objs
  PROVE  At(other, i) = At(doc, i)
  <1> DEFINE d == SubSeq(doc, 1, i)
             e == SubSeq(other, 1, i)
  <1>1. i \in 1 .. Len(other)
    BY DocumentFacts
  <1>2. IsDocument(d) /\ Len(d) = i /\ \A k \in 1 .. i : d[k] = doc[k]
    BY PrefixFacts
  <1>3. IsDocument(e) /\ Len(e) = i /\ \A k \in 1 .. i : e[k] = other[k]
    BY <1>1, PrefixFacts
  <1> HIDE DEF d, e
  <1>4. Store(e) = Store(d)
    BY <1>2, <1>3, StoreSame
  <1> QED BY <1>4 DEF At, d, e

-----------------------------------------------------------------------------
(* Object graphs the library and the editors leave behind. *)

IsList(s) == \E S : s \in Seq(S)

EntryOk(st, e) ==
  /\ e = [shape |-> e.shape, items |-> e.items, ref |-> e.ref]
  /\ e.shape \in {"absent", "array", "ref"} /\ IsList(e.items)
  /\ e.shape = "absent" => e = Absent
  /\ e.shape = "ref" => e.ref \in DOMAIN st /\ st[e.ref].kind = "array"

FormOk(st, f) ==
  /\ f = [at |-> f.at, dict |-> f.dict, id |-> f.id]
  /\ f.at \in {"none", "inline", "ref", "other"}
  /\ f.at = "none" => f = FormNone
  /\ f.at = "inline" => /\ f.dict = AcroForm(f.dict.fields, f.dict.flags)
                        /\ EntryOk(st, f.dict.fields)
  /\ f.at = "ref" => /\ f = FormRef(f.id)
                     /\ f.id \in DOMAIN st /\ st[f.id].kind = "acroform"

CatalogOk(st, v) ==
  /\ v = [kind |-> "catalog", form |-> v.form, perms |-> v.perms, dss |-> v.dss, ext |-> v.ext,
          lang |-> v.lang, null |-> v.null]
  /\ v.lang \in Nat \ {0}
  /\ FormOk(st, v.form)
  /\ v.dss # 0 => v.dss \in DOMAIN st /\ st[v.dss].kind = "dss"

\* an object refers to objects of the kinds its reader expects
ValueOk(st, v) ==
  /\ v.kind = "catalog" => CatalogOk(st, v)
  /\ v.kind = "page" => v = Page(v.annots, v.content, FALSE) /\ EntryOk(st, v.annots)
  /\ v.kind = "acroform" => v = AcroForm(v.fields, v.flags) /\ EntryOk(st, v.fields)
  /\ v.kind = "array" => v = ArrayObj(v.items) /\ IsList(v.items)
  /\ v.kind = "field" => v = Field(v.ft, v.v)
  /\ v.kind = "dss" => /\ v = Dss(v.refs)
                       /\ \A n \in v.refs : n # Content /\ n \in DOMAIN st /\ st[n].kind = "stream"

\* what can be found at a fixed place in every file
PlacesOk(st) ==
  /\ Catalog \in DOMAIN st /\ st[Catalog].kind = "catalog"
  /\ Content \in DOMAIN st /\ st[Content] = Stream(st[Content].data)
  /\ TextField \in DOMAIN st /\ st[TextField] = Field("Tx", st[TextField].v)
  /\ Metadata \in DOMAIN st /\ st[Metadata].kind = "stream"
  /\ \A p \in ToSet(PageIds) : p \in DOMAIN st /\ st[p].kind = "page"

WellFormed(st) ==
  /\ \E b \in Nat : DOMAIN st \subseteq 1 .. b
  /\ PlacesOk(st)
  /\ \A n \in DOMAIN st : ValueOk(st, st[n])

\* objects stay, and stay of their kind
KindsKept(prev, curr) ==
  DOMAIN prev \subseteq DOMAIN curr /\ \A n \in DOMAIN prev : curr[n].kind = prev[n].kind

\* Objects keep their references in order when the others keep their kinds.
LEMMA ValueOkKept ==
  ASSUME NEW prev, NEW curr, KindsKept(prev, curr), NEW v, ValueOk(prev, v)
  PROVE  ValueOk(curr, v)
  <1>1. \A e : EntryOk(prev, e) => EntryOk(curr, e)
    BY DEF KindsKept, EntryOk
  <1>2. \A f : FormOk(prev, f) => FormOk(curr, f)
    BY <1>1 DEF KindsKept, FormOk
  <1>3. v.kind = "catalog" => CatalogOk(curr, v)
    BY <1>2 DEF ValueOk, CatalogOk, KindsKept
  <1>4. v.kind = "page" => v = Page(v.annots, v.content, FALSE) /\ EntryOk(curr, v.annots)
    BY <1>1 DEF ValueOk
  <1>5. v.kind = "acroform" => v = AcroForm(v.fields, v.flags) /\ EntryOk(curr, v.fields)
    BY <1>1 DEF ValueOk
  <1>6. v.kind = "dss" => /\ v = Dss(v.refs)
                          /\ \A n \in v.refs : n # Content /\ n \in DOMAIN curr /\ curr[n].kind = "stream"
    BY DEF ValueOk, KindsKept
  <1> QED BY <1>3, <1>4, <1>5, <1>6 DEF ValueOk

\* No page is a form, array, stream or DSS, and neither is the catalog.
LEMMA PlaceFacts ==
  ASSUME NEW st, WellFormed(st)
  PROVE  /\ CatalogOk(st, st[Catalog]) /\ st[Catalog].kind = "catalog"
         /\ st[Content].kind = "stream" /\ st[TextField].kind = "field"
         /\ Catalog # Content /\ Catalog # TextField /\ Content # TextField
         /\ \A p \in ToSet(PageIds) : /\ p \notin {Catalog, Content, TextField}
                                      /\ st[p] = Page(st[p].annots, st[p].content, FALSE)
                                      /\ EntryOk(st, st[p].annots)
  <1>1. PlacesOk(st) /\ \A n \in DOMAIN st : ValueOk(st, st[n])
    BY DEF WellFormed
  <1>2. Catalog \in DOMAIN st /\ st[Catalog].kind = "catalog" /\ CatalogOk(st, st[Catalog])
    BY <1>1 DEF PlacesOk, ValueOk
  <1>3. st[Content].kind = "stream" /\ st[TextField].kind = "field"
    BY <1>1 DEF PlacesOk, Stream, Field
  <1>4. \A p \in ToSet(PageIds) : /\ st[p].kind = "page"
                                  /\ st[p] = Page(st[p].annots, st[p].content, FALSE)
                                  /\ EntryOk(st, st[p].annots)
    BY <1>1 DEF PlacesOk, ValueOk
  <1>5. \A p \in ToSet(PageIds) : p # Catalog /\ p # Content /\ p # TextField
    BY <1>2, <1>3, <1>4
  <1> QED BY <1>2, <1>3, <1>4, <1>5

\* What add_root_safe_objects and the classifier let pass are forms, the DSS and
\* its streams, and objects that do not show.
LEMMA WaivedKinds ==
  ASSUME NEW st, WellFormed(st), NEW root \in BOOLEAN,
         NEW n \in RootSafe(st, root) \cup ClassifierSafe(st)
  PROVE  /\ n \notin {Content, TextField} \cup ToSet(PageIds)
         /\ n \in DOMAIN st => st[n].kind \in {"acroform", "dss", "stream"}
  <1> DEFINE Listed == InfoIds \cup FontIds \cup ActionIds
             Shown  == {Content, TextField} \cup ToSet(PageIds)
             Sorts  == {"acroform", "dss", "stream"}
  <1>1. CatalogOk(st, st[Catalog])
    BY PlaceFacts
  <1>6. /\ st[Content].kind = "stream" /\ st[TextField].kind = "field"
        /\ \A p \in ToSet(PageIds) : st[p].kind = "page"
    BY DEF WellFormed, PlacesOk, Stream, Field
  <1>5. n \in Listed => n \notin Shown /\ (n \in DOMAIN st => st[n].kind \in Sorts)
    <2>1. n \in Listed => n = Metadata
      BY ReferredAssumption
    <2>2. Metadata \notin Shown
      BY OtherProgramsAssumption DEF Metadata, Content, TextField
    <2>3. st[Metadata].kind = "stream"
      BY DEF WellFormed, PlacesOk
    <2> HIDE DEF Listed, Shown
    <2> QED BY <2>1, <2>2, <2>3
  <1>2. \A m \in DOMAIN st : ValueOk(st, st[m])
    BY DEF WellFormed
  <1>3. CASE n \in RootSafe(st, root)
    <2>1. n \in Listed \/ (n \in DOMAIN st /\ st[n].kind = "acroform")
      BY <1>1, <1>3 DEF RootSafe, CatalogOk, FormOk
    <2> HIDE DEF Listed
    <2> QED BY <1>5, <1>6, <2>1
  <1>4. CASE n \in ClassifierSafe(st)
    <2> DEFINE d == st[Catalog].dss
    <2>5. n \in Listed \/ (d # 0 /\ n \in {d} \cup st[d].refs)
      BY <1>4 DEF ClassifierSafe
    <2> HIDE DEF Listed, Shown
    <2>4. SUFFICES ASSUME n \notin Listed
                   PROVE  n \notin Shown /\ (n \in DOMAIN st => st[n].kind \in Sorts)
      BY <1>5 DEF Shown, Sorts
    <2>1. d # 0 /\ n \in {d} \cup st[d].refs
      BY <2>4, <2>5
    <2>2. d \in DOMAIN st /\ st[d].kind = "dss"
      BY <1>1, <2>1 DEF CatalogOk
    <2> HIDE DEF d
    <2>3. n = d \/ (n # Content /\ n \in DOMAIN st /\ st[n].kind = "stream")
      BY <1>2, <2>1, <2>2 DEF ValueOk
    <2> QED BY <1>6, <2>2, <2>3 DEF Shown
  <1> QED BY <1>3, <1>4

\* Classify for an update of a file.
LEMMA ClassifyFacts ==
  ASSUME NEW doc, NEW j, j # 1
  PROVE  LET prev    == At(doc, j - 1)
             curr    == At(doc, j)
             sigRev  == IsSignatureRevision(doc, j) \/ IsDocTimestamp(doc, j)
             changed == Changed(doc, j)
             root    == Catalog \in changed
         IN  SafeUpdate(doc, j) <=>
               /\ root => ChangedRootItems(prev[Catalog], curr[Catalog]) \subseteq {"AcroForm"}
               /\ \A n \in changed \ {Catalog} :
                    \/ OnlyNewAnnotations(prev, curr, n, sigRev)
                    \/ n \in RootSafe(curr, root) \cup ClassifierSafe(curr)
  <1> DEFINE prev    == At(doc, j - 1)
             curr    == At(doc, j)
             sigRev  == IsSignatureRevision(doc, j) \/ IsDocTimestamp(doc, j)
             changed == Changed(doc, j)
             root    == Catalog \in changed
             items   == IF root THEN ChangedRootItems(prev[Catalog], curr[Catalog]) ELSE {}
             safe    == {n \in changed \ {Catalog} : OnlyNewAnnotations(prev, curr, n, sigRev)}
                          \cup RootSafe(curr, root) \cup ClassifierSafe(curr)
             ok      == items \subseteq {"AcroForm"} /\ changed \ {Catalog} \subseteq safe
  <1>1. SafeUpdate(doc, j) = ok
    BY DEF SafeUpdate, Classify, At
  <1>2. ok <=> /\ root => ChangedRootItems(prev[Catalog], curr[Catalog]) \subseteq {"AcroForm"}
               /\ \A n \in changed \ {Catalog} :
                    \/ OnlyNewAnnotations(prev, curr, n, sigRev)
                    \/ n \in RootSafe(curr, root) \cup ClassifierSafe(curr)
    <2> HIDE DEF changed, sigRev, prev, curr, root
    <2> QED OBVIOUS
  <1> QED BY <1>1, <1>2

\* What an update changed is what it wrote over.
LEMMA ChangedFacts ==
  ASSUME NEW doc, IsDocument(doc), NEW j \in 2 .. Len(doc)
  PROVE  /\ Changed(doc, j) = DOMAIN doc[j].objs \cap DOMAIN At(doc, j - 1)
         /\ \A n \in DOMAIN At(doc, j - 1) :
              n \notin Changed(doc, j) => At(doc, j)[n] = At(doc, j - 1)[n]
  <1>1. j - 1 \in 1 .. Len(doc)
    BY DocumentFacts
  <1>2. Changed(doc, j) = DOMAIN doc[j].objs \cap DOMAIN At(doc, j - 1)
    <2> DEFINE k == j - 1
    <2>1. k \in 1 .. Len(doc) /\ Changed(doc, j) = DOMAIN doc[j].objs \cap Written(SubSeq(doc, 1, k))
      BY <1>1 DEF Changed
    <2> HIDE DEF k
    <2>2. DOMAIN At(doc, k) = Written(SubSeq(doc, 1, k))
      BY <2>1, AtFacts
    <2> QED BY <2>1, <2>2 DEF k
  <1>3. \A n \in DOMAIN At(doc, j - 1) :
          n \notin DOMAIN doc[j].objs => At(doc, j)[n] = At(doc, j - 1)[n]
    <2>1. IsDocument(doc) /\ j \in 2 .. Len(doc)
      OBVIOUS
    <2>2. Overwrites(At(doc, j - 1), doc[j].objs, At(doc, j))
      BY ONLY <2>1, AtStep
    <2> QED BY <2>2 DEF Overwrites
  <1> QED BY <1>2, <1>3

\* An update that the analysis calls safe alters nothing a reader sees, unless
\* it is a signature revision that rewrites a form field.
LEMMA SafeAltersNothing ==
  ASSUME NEW doc, IsDocument(doc), NEW j \in 2 .. Len(doc),
         WellFormed(At(doc, j - 1)), WellFormed(At(doc, j)),
         KindsKept(At(doc, j - 1), At(doc, j)),
         \/ At(doc, j)[TextField] = At(doc, j - 1)[TextField]
         \/ ~(IsSignatureRevision(doc, j) \/ IsDocTimestamp(doc, j)),
         SafeUpdate(doc, j)
  PROVE  ~AltersDocument(doc, j)
  <1> DEFINE prev    == At(doc, j - 1)
             curr    == At(doc, j)
             sigRev  == IsSignatureRevision(doc, j) \/ IsDocTimestamp(doc, j)
             changed == Changed(doc, j)
             root    == Catalog \in changed
  <1>1. j # 1 /\ root \in BOOLEAN /\ sigRev \in BOOLEAN
    BY DocumentFacts
  <1>2. /\ root => ChangedRootItems(prev[Catalog], curr[Catalog]) \subseteq {"AcroForm"}
        /\ \A n \in changed \ {Catalog} :
             \/ OnlyNewAnnotations(prev, curr, n, sigRev)
             \/ n \in RootSafe(curr, root) \cup ClassifierSafe(curr)
    BY <1>1, ClassifyFacts
  <1>3. /\ changed \subseteq DOMAIN prev
        /\ \A n \in DOMAIN prev : n \notin changed => curr[n] = prev[n]
    BY ChangedFacts
  <1>4. WellFormed(prev) /\ WellFormed(curr) /\ KindsKept(prev, curr)
    OBVIOUS
  <1>5. curr[TextField] = prev[TextField] \/ ~sigRev
    OBVIOUS
  <1>6. AltersDocument(doc, j) <=>
          \/ prev[Content] # curr[Content] \/ prev[TextField] # curr[TextField]
          \/ prev[Catalog].lang # curr[Catalog].lang
          \/ \E p \in ToSet(PageIds) :
               \E a \in AnnotRefs(curr, curr[p]) \ AnnotRefs(prev, prev[p]) :
                 a \in DOMAIN curr /\ curr[a] = Annotation(FALSE)
    BY DEF AltersDocument, At
  <1>7. \A n \in RootSafe(curr, root) \cup ClassifierSafe(curr) :
          /\ n \notin {Content, TextField} \cup ToSet(PageIds)
          /\ n \in DOMAIN curr => curr[n].kind \in {"acroform", "dss", "stream"}
    <2> HIDE DEF curr, root
    <2> QED BY <1>1, <1>4, WaivedKinds
  <1> HIDE DEF prev, curr, sigRev, changed, root
  <1>8. PlacesOk(prev) /\ PlacesOk(curr)
    BY <1>4 DEF WellFormed
  <1>9. prev[Content] = curr[Content]
    <2>1. Content \in DOMAIN prev /\ Content # Catalog /\ prev[Content].kind = "stream"
      BY <1>4, <1>8, PlaceFacts DEF PlacesOk
    <2>2. ~OnlyNewAnnotations(prev, curr, Content, sigRev)
      BY <2>1 DEF OnlyNewAnnotations, IsAnnotation, IsDictionary
    <2>3. Content \notin changed
      BY <1>2, <1>7, <2>1, <2>2
    <2> QED BY <1>3, <2>1, <2>3
  <1>10. prev[TextField] = curr[TextField]
    <2>1. TextField \in DOMAIN prev /\ TextField # Catalog /\ prev[TextField].kind = "field"
          /\ curr[TextField].kind = "field" /\ curr[TextField].hidden = FALSE
      BY <1>4, <1>8, PlaceFacts DEF PlacesOk, Field
    <2>2. ASSUME ~sigRev PROVE ~OnlyNewAnnotations(prev, curr, TextField, sigRev)
      BY <2>1, <2>2 DEF OnlyNewAnnotations, IsAnnotation, Invisible
    <2>3. ~sigRev => TextField \notin changed
      BY <1>2, <1>7, <2>1, <2>2
    <2> QED BY <1>3, <1>5, <2>1, <2>3
  <1>11. prev[Catalog].lang = curr[Catalog].lang
    <2>1. prev[Catalog].lang # 0 /\ curr[Catalog].lang # 0
      BY <1>4, PlaceFacts DEF CatalogOk
    <2>2. CASE Catalog \in changed
      <3>1. "Lang" \notin ChangedRootItems(prev[Catalog], curr[Catalog])
        BY <1>2, <2>2 DEF root
      <3> QED BY <2>1, <3>1 DEF ChangedRootItems
    <2>3. CASE Catalog \notin changed
      BY <1>3, <1>8, <2>3 DEF PlacesOk
    <2> QED BY <2>2, <2>3
  <1>12. ASSUME NEW p \in ToSet(PageIds),
                NEW a \in AnnotRefs(curr, curr[p]) \ AnnotRefs(prev, prev[p]),
                a \in DOMAIN curr, curr[a] = Annotation(FALSE)
         PROVE  FALSE
    <2>1. /\ p \in DOMAIN prev /\ p # Catalog
          /\ prev[p].kind = "page" /\ curr[p].kind = "page"
          /\ EntryOk(prev, prev[p].annots)
      BY <1>4, <1>8, PlaceFacts DEF PlacesOk
    <2>2. ~Invisible(curr[a], sigRev)
      BY <1>12 DEF Invisible, IsAnnotation, Annotation
    <2>3. CASE p \in changed
      <3>1. OnlyNewAnnotations(prev, curr, p, sigRev)
        BY <1>2, <1>7, <2>1, <2>3
      <3> QED BY <1>12, <2>1, <2>2, <3>1 DEF OnlyNewAnnotations, IsAnnotation
    <2>4. CASE p \notin changed
      <3>1. curr[p] = prev[p]
        BY <1>3, <2>1, <2>4
      <3> DEFINE e == prev[p].annots
      <3>2. Items(curr, e) # Items(prev, e)
        BY <1>12, <2>1, <3>1 DEF AnnotRefs
      <3>3. EntryOk(prev, e)
        BY <2>1
      <3> HIDE DEF e
      <3>4. e.shape = "ref" /\ e.ref \in DOMAIN prev /\ prev[e.ref].kind = "array"
        BY <3>2, <3>3 DEF EntryOk, Items
      <3>5. e.ref \in DOMAIN curr /\ curr[e.ref].kind = "array"
        BY <1>4, <3>4 DEF KindsKept
      <3>6. e.ref \in changed /\ e.ref # Catalog
        <4>1. e.ref \notin changed => curr[e.ref] = prev[e.ref]
          BY <1>3, <3>4
        <4> QED BY <1>8, <3>2, <3>4, <3>5, <4>1 DEF Items, PlacesOk
      <3>7. ~OnlyNewAnnotations(prev, curr, e.ref, sigRev)
        BY <3>4 DEF OnlyNewAnnotations, IsAnnotation, IsDictionary
      <3> QED BY <1>2, <1>7, <3>5, <3>6, <3>7
    <2> QED BY <2>3, <2>4
  <1> QED BY <1>6, <1>9, <1>10, <1>11, <1>12

-----------------------------------------------------------------------------
(* The objects a signature revision writes. *)

\* The largest of a bounded set of numbers.
LEMMA MaxOfFacts ==
  ASSUME NEW S, NEW b \in Nat, \A k \in S : k \in Nat /\ k <= b
  PROVE  /\ MaxOf(S) \in Nat /\ \A k \in S : k <= MaxOf(S)
         /\ MaxOf(S) <= b
  <1>1. S \cup {0} \subseteq Nat /\ S \cup {0} # {} /\ \A k \in S \cup {0} : k <= b
    OBVIOUS
  <1>2. \E m \in S \cup {0} : \A k \in S \cup {0} : k <= m
    BY <1>1, GreatestElement
  <1>3. \E m \in S \cup {0} : \A k \in S : k <= m
    BY <1>2
  <1>4. MaxOf(S) \in S \cup {0} /\ \A k \in S : k <= MaxOf(S)
    BY <1>3 DEF MaxOf
  <1> QED BY <1>1, <1>4

\* the fields a form lists itself
FieldItems(af) == IF af.fields.shape = "array" THEN af.fields.items ELSE <<>>

FormNumber(st, field) ==
  IF st[Catalog].form.at = "ref" THEN st[Catalog].form.id ELSE field + 1

AnnotsWith(annots, field) ==
  IF annots.shape = "array" THEN Direct(Append(annots.items, field))
  ELSE IF annots.shape = "ref" THEN Direct(<<annots.ref, field>>) ELSE Direct(<<field>>)

\* the form of a graph, with the references in place
LEMMA FormOfFacts ==
  ASSUME NEW st, WellFormed(st)
  PROVE  /\ FormOf(st) = AcroForm(FormOf(st).fields, FormOf(st).flags)
         /\ EntryOk(st, FormOf(st).fields) /\ IsList(FieldItems(FormOf(st)))
  <1> DEFINE f == st[Catalog].form
  <1>1. FormOk(st, f) /\ \A n \in DOMAIN st : ValueOk(st, st[n])
    BY PlaceFacts DEF CatalogOk, WellFormed
  <1>2. f.at = "ref" => st[f.id] = AcroForm(st[f.id].fields, st[f.id].flags)
                        /\ EntryOk(st, st[f.id].fields)
    BY <1>1 DEF FormOk, ValueOk
  <1>3. f.at = "inline" => f.dict = AcroForm(f.dict.fields, f.dict.flags)
                           /\ EntryOk(st, f.dict.fields)
    BY <1>1 DEF FormOk
  <1>4. NoForm = AcroForm(NoForm.fields, NoForm.flags) /\ NoForm.fields = Absent
    BY DEF NoForm, AcroForm
  <1>5. EntryOk(st, Absent)
    <2>1. <<>> \in Seq({})
      OBVIOUS
    <2>2. IsList(<<>>)
      BY <2>1 DEF IsList
    <2> QED BY <2>2 DEF EntryOk, Absent
  <1>6. FormOf(st) = IF f.at = "ref" THEN st[f.id] ELSE IF f.at = "inline" THEN f.dict ELSE NoForm
    BY DEF FormOf
  <1>7. /\ FormOf(st) = AcroForm(FormOf(st).fields, FormOf(st).flags)
        /\ EntryOk(st, FormOf(st).fields)
    BY <1>2, <1>3, <1>4, <1>5, <1>6
  <1>8. IsList(FieldItems(FormOf(st)))
    <2>1. <<>> \in Seq({})
      OBVIOUS
    <2> QED BY <1>7, <2>1 DEF FieldItems, EntryOk, IsList
  <1> QED BY <1>7, <1>8

\* One set of objects over another.
LEMMA Overlay ==
  ASSUME NEW f, NEW g
  PROVE  /\ DOMAIN (f ++ g) = DOMAIN f \cup DOMAIN g
         /\ \A n \in DOMAIN f : (f ++ g)[n] = f[n]
         /\ \A n \in DOMAIN g : n \notin DOMAIN f => (f ++ g)[n] = g[n]
BY DEF ++

\* A set of one object.
LEMMA Single ==
  ASSUME NEW a, NEW x
  PROVE  DOMAIN Obj(a, x) = {a} /\ Obj(a, x)[a] = x
BY DEF Obj

\* h is what ensure_acroform makes of the graph st for a new field; id is the
\* number of the form, pid that of the page, and c the catalog there was
Hooking(st, field, page, free, id, pid, c, h) ==
  /\ WellFormed(st) /\ field \in Nat /\ page + 1 \in DOMAIN PageIds /\ st[Catalog].form.at # "other"
  /\ free = field + 1 /\ free \notin DOMAIN st /\ id = FormNumber(st, field)
  /\ pid = PageIds[page + 1] /\ c = st[Catalog] /\ h = EnsureAcroForm(st, field, page, free)

\* and these are the objects it consists of
Hooked(st, field, id, pid, c, h) ==
  /\ DOMAIN h = {Catalog, id, pid}
  /\ Catalog # id /\ Catalog # pid /\ id # pid
  /\ h[Catalog] = [kind |-> "catalog", form |-> FormRef(id), perms |-> c.perms,
                   dss |-> c.dss, ext |-> c.ext, lang |-> c.lang, null |-> c.null]
  /\ h[id] = AcroForm(Direct(Append(FieldItems(FormOf(st)), field)), SigFlags)
  /\ h[pid] = Page(AnnotsWith(st[pid].annots, field), st[pid].content, FALSE)

\* ensure_acroform appends the field to the form's own list, which it makes
\* indirect, and to the page's.
LEMMA HookObjects ==
  ASSUME NEW st, NEW field, NEW page, NEW free, NEW id, NEW pid, NEW c, NEW h,
         Hooking(st, field, page, free, id, pid, c, h)
  PROVE  Hooked(st, field, id, pid, c, h)
  <1> DEFINE form == c.form
             af   == CASE form.at = "ref"    -> UpdateAcroForm(st[form.id], field)
                       [] form.at = "inline" -> UpdateAcroForm(form.dict, field)
                       [] form.at = "none"   -> AcroForm(Direct(<<field>>), SigFlags)
             new  == [c EXCEPT !.form = FormRef(id)]
  <1>0. /\ WellFormed(st) /\ field \in Nat /\ page + 1 \in DOMAIN PageIds /\ c.form.at # "other"
        /\ free = field + 1 /\ free \notin DOMAIN st /\ id = FormNumber(st, field)
        /\ pid = PageIds[page + 1] /\ c = st[Catalog] /\ h = EnsureAcroForm(st, field, page, free)
    BY DEF Hooking
  <1> USE <1>0
  <1>1. pid \in ToSet(PageIds) /\ pid \in DOMAIN st /\ Catalog \in DOMAIN st
    BY DEF ToSet, WellFormed, PlacesOk
  <1>2. /\ CatalogOk(st, c) /\ c.kind = "catalog" /\ pid # Catalog
        /\ st[pid] = Page(st[pid].annots, st[pid].content, FALSE) /\ EntryOk(st, st[pid].annots)
    BY <1>1, PlaceFacts
  <1>3. FormOk(st, form)
    BY <1>2 DEF CatalogOk
  <1>4. id # Catalog /\ id # pid
    <2>1. CASE form.at = "ref"
      <3>1. id = form.id /\ st[id].kind = "acroform"
        BY <1>3, <2>1 DEF FormNumber, FormOk
      <3>2. st[pid].kind = "page"
        BY <1>2 DEF Page
      <3> QED BY <1>2, <3>1, <3>2
    <2>2. CASE form.at # "ref"
      <3>1. id = field + 1
        BY <2>2 DEF FormNumber
      <3> QED BY <1>1, <3>1
    <2> QED BY <2>1, <2>2
  <1>5. h = Obj(Catalog, new) ++ Obj(id, af) ++ Obj(pid, AddAnnot(st[pid], field))
    BY <1>1 DEF EnsureAcroForm, FormNumber
  <1>6. new = [kind |-> "catalog", form |-> FormRef(id), perms |-> c.perms,
               dss |-> c.dss, ext |-> c.ext, lang |-> c.lang, null |-> c.null]
    BY <1>2 DEF CatalogOk
  <1>7. af = AcroForm(Direct(Append(FieldItems(FormOf(st)), field)), SigFlags)
    <2> DEFINE old == FormOf(st)
    <2>1. Append(<<>>, field) = <<field>>
      OBVIOUS
    <2>2. old = AcroForm(old.fields, old.flags)
      BY FormOfFacts
    <2>3. UpdateAcroForm(old, field) = AcroForm(Direct(Append(FieldItems(old), field)), SigFlags)
      <3> HIDE DEF old
      <3> DEFINE fs == old.fields
                 gs == old.flags
      <3>1. old = [kind |-> "acroform", fields |-> fs, flags |-> gs]
        BY <2>2 DEF AcroForm
      <3> HIDE DEF fs, gs
      <3> DEFINE to == IF fs.shape = "array" THEN Direct(Append(fs.items, field))
                                              ELSE Direct(<<field>>)
      <3>2. old.fields = fs
        BY <3>1
      <3>3. UpdateAcroForm(old, field) = [[old EXCEPT !.flags = SigFlags] EXCEPT !.fields = to]
        BY <3>1, <3>2 DEF UpdateAcroForm
      <3>4. UpdateAcroForm(old, field) = [kind |-> "acroform", fields |-> to, flags |-> SigFlags]
        <4> HIDE DEF to
        <4> QED BY <3>1, <3>3
      <3> QED BY <2>1, <3>4 DEF FieldItems, AcroForm, fs
    <2>4. CASE form.at = "ref"
      BY <2>3, <2>4 DEF FormOf
    <2>5. CASE form.at = "inline"
      BY <2>3, <2>5 DEF FormOf
    <2>6. CASE form.at = "none"
      BY <2>1, <2>6 DEF FormOf, NoForm, AcroForm, Absent, FieldItems
    <2> QED BY <1>3, <2>4, <2>5, <2>6 DEF FormOk
  <1>8. AddAnnot(st[pid], field) = Page(AnnotsWith(st[pid].annots, field), st[pid].content, FALSE)
    <2> DEFINE pg == st[pid]
    <2>1. pg = Page(pg.annots, pg.content, FALSE) /\ pg.annots.shape \in {"absent", "array", "ref"}
      BY <1>2 DEF EntryOk
    <2> HIDE DEF pg
    <2> DEFINE an == pg.annots
               ct == pg.content
    <2>2. pg = [kind |-> "page", annots |-> an, content |-> ct, null |-> FALSE]
      BY <2>1 DEF Page
    <2>3. an.shape \in {"absent", "array", "ref"}
      BY <2>1
    <2> HIDE DEF an, ct
    <2>4. \A x : [pg EXCEPT !.annots = x] = Page(x, ct, FALSE)
      <3> DEFINE no == FALSE
      <3>1. pg = [kind |-> "page", annots |-> an, content |-> ct, null |-> no]
        BY <2>2
      <3> HIDE DEF no
      <3>2. \A x : [pg EXCEPT !.annots = x] = [kind |-> "page", annots |-> x, content |-> ct, null |-> no]
        BY <3>1
      <3> QED BY <3>2 DEF Page, no
    <2>5. AddAnnot(pg, field) = [pg EXCEPT !.annots = AnnotsWith(an, field)]
      <3>1. pg.annots = an
        BY DEF an
      <3> QED BY <2>3, <3>1 DEF AddAnnot, AnnotsWith
    <2> QED BY <2>4, <2>5 DEF pg, an, ct
  <1> HIDE DEF new, af
  <1>9. /\ DOMAIN h = {Catalog, id, pid} /\ h[Catalog] = new /\ h[id] = af
        /\ h[pid] = AddAnnot(st[pid], field)
    <2> DEFINE g == Obj(Catalog, new) ++ Obj(id, af)
               pg == AddAnnot(st[pid], field)
    <2>1. DOMAIN g = {Catalog, id} /\ g[Catalog] = new /\ g[id] = af
      <3> DEFINE a == Obj(Catalog, new)
                 b == Obj(id, af)
      <3>1. DOMAIN a = {Catalog} /\ a[Catalog] = new /\ DOMAIN b = {id} /\ b[id] = af
        BY Single
      <3> HIDE DEF a, b
      <3>2. DOMAIN (a ++ b) = {Catalog, id} /\ (a ++ b)[Catalog] = new /\ (a ++ b)[id] = af
        BY <1>4, <3>1 DEF ++
      <3> QED BY <3>2 DEF a, b
    <2>2. h = g ++ Obj(pid, pg)
      BY <1>5
    <2> DEFINE b == Obj(pid, pg)
    <2> HIDE DEF g, pg
    <2>4. DOMAIN b = {pid} /\ b[pid] = pg
      BY Single
    <2> HIDE DEF b
    <2>3. DOMAIN h = {Catalog, id, pid} /\ h[Catalog] = g[Catalog] /\ h[id] = g[id] /\ h[pid] = pg
      <3>1. h = g ++ b
        BY <2>2 DEF b
      <3>2. pid \notin DOMAIN g
        BY <1>2, <1>4, <2>1
      <3> QED BY <2>1, <2>4, <3>1, <3>2 DEF ++
    <2> QED BY <2>1, <2>3 DEF pg
  <1> QED BY ONLY <1>2, <1>4, <1>6, <1>7, <1>8, <1>9 DEF Hooked

\* A signature revision of the library, seen from the graph st it hooks into.
Hooks(st, rev, dict, field, id, pid) ==
  LET objs == rev.objs
      c    == st[Catalog]
      form == FormOf(st)
  IN  /\ pid \in ToSet(PageIds)
      /\ Catalog # id /\ Catalog # pid /\ id # pid /\ dict # field
      /\ dict \notin DOMAIN st /\ field \notin DOMAIN st
      /\ dict \notin {Catalog, id, pid} /\ field \notin {Catalog, id, pid}
      /\ IF c.form.at = "ref" THEN id = c.form.id ELSE id \notin DOMAIN st
      /\ {dict, field, Catalog, id, pid} \subseteq DOMAIN objs
      /\ objs[dict] = SigDict(rev.sig.what) /\ objs[field] = Field("Sig", dict)
      /\ objs[Catalog] = [kind |-> "catalog", form |-> FormRef(id),
                          perms |-> IF rev.sig.what = "certify" THEN dict ELSE c.perms,
                          dss |-> c.dss, ext |-> c.ext, lang |-> c.lang, null |-> c.null]
      /\ objs[id] = AcroForm(Direct(Append(FieldItems(form), field)), SigFlags)
      /\ objs[pid] = Page(AnnotsWith(st[pid].annots, field), st[pid].content, FALSE)
      /\ \A n \in DOMAIN objs \ {dict, field, Catalog, id, pid} :
            n \notin DOMAIN st /\ (objs[n] = Stream(n) \/ objs[n] = XrefStreamObj)

\* ... and from the revision before it.
Follows(last, rev) ==
  /\ rev.tail = <<"LF">> /\ rev.size \in Nat /\ last.size <= rev.size
  /\ \A n \in DOMAIN rev.objs : n \in Nat \ {0} /\ n < rev.size

\* The numbers of a graph end with the largest.
LEMMA MaxIdFacts ==
  ASSUME NEW doc, WellFormed(Store(doc))
  PROVE  MaxId(doc) \in Nat /\ \A n \in DOMAIN Store(doc) : n \in Nat \ {0} /\ n <= MaxId(doc)
  <1>1. DOMAIN Store(doc) = Written(doc)
    BY DEF Store
  <1>2. PICK b \in Nat : Written(doc) \subseteq 1 .. b
    BY <1>1 DEF WellFormed
  <1>3. \A k \in Written(doc) : k \in Nat /\ k <= b
    BY <1>2
  <1>4. MaxOf(Written(doc)) \in Nat /\ \A k \in Written(doc) : k <= MaxOf(Written(doc))
    BY <1>2, <1>3, MaxOfFacts
  <1> QED BY <1>1, <1>2, <1>4 DEF MaxId

\* What sign and its like write, as SignatureRevision puts it together.
LEMMA SignatureObjects ==
  ASSUME NEW doc, IsDocument(doc), WellFormed(Store(doc)), doc[Len(doc)].size \in Nat \ {0},
         NEW what, NEW page, CanHook(doc, page), NEW visuals \in Nat,
         NEW rev, rev = SignatureRevision(doc, what, page, visuals)
  PROVE  /\ IsRevision(rev) /\ rev.sig.what = what /\ rev.sig.cms = NoCms
         /\ \E field, id, pid : Hooks(Store(doc), rev, rev.sig.dict, field, id, pid)
         /\ rev.sig.dict # 0 /\ Follows(doc[Len(doc)], rev)
  <1> DEFINE st    == Store(doc)
             m     == MaxId(doc)
             dict  == m + 1
             field == dict + visuals + 1
             free  == field + 1
             extra == [n \in dict + 1 .. dict + visuals |-> Stream(n)]
             hook  == EnsureAcroForm(st, field, page, free)
             perms == CatalogPerms(hook, what, dict)
             two   == Obj(dict, SigDict(what)) ++ Obj(field, Field("Sig", dict))
             three == two ++ extra
             objs  == three ++ perms
             last  == doc[Len(doc)]
             top   == MaxOf(DOMAIN objs)
             num   == 1 + MaxOf({top, last.size - 1})
             all   == IF last.stream THEN objs ++ Obj(num, XrefStreamObj) ELSE objs
             size  == IF last.stream THEN num + 1 ELSE MaxOf({last.size, top + 1})
             sig   == [what |-> what, dict |-> dict, cms |-> NoCms]
             id    == FormNumber(st, field)
             pid   == PageIds[page + 1]
             c     == st[Catalog]
  <1>1. rev = Revision(all, size, last.stream, <<"LF">>, sig)
    BY Zenon DEF SignatureRevision
  <1>2. /\ IsRevision(rev) /\ rev.sig = sig /\ rev.objs = all /\ rev.size = size
        /\ rev.tail = <<"LF">>
    <2> HIDE DEF all, size, last, dict
    <2> QED BY <1>1 DEF Revision, IsRevision, NoCms, Cms
  <1>3. m \in Nat /\ \A n \in DOMAIN st : n \in Nat \ {0} /\ n <= m
    BY MaxIdFacts
  <1>4. WellFormed(st) /\ page + 1 \in DOMAIN PageIds /\ c.form.at # "other"
    BY DEF CanHook
  <1>5. pid \in ToSet(PageIds)
    BY <1>4 DEF ToSet
  <1> HIDE DEF m
  <1>6. /\ dict \in Nat /\ dict > m /\ field \in Nat /\ free \in Nat /\ field > dict /\ free > field
        /\ \A n \in dict + 1 .. dict + visuals : n \in Nat /\ n > dict /\ n < field
    BY <1>3
  <1>7. /\ Catalog \in DOMAIN st /\ pid \in DOMAIN st
        /\ dict \notin DOMAIN st /\ field \notin DOMAIN st /\ free \notin DOMAIN st
    <2>1. Catalog \in DOMAIN st /\ pid \in DOMAIN st
      <3> HIDE DEF st, pid
      <3> QED BY <1>4, <1>5 DEF WellFormed, PlacesOk
    <2> QED BY <1>3, <1>6, <2>1
  <1> HIDE DEF st, dict, field, free
  <1>8. /\ DOMAIN hook = {Catalog, id, pid}
        /\ Catalog # id /\ Catalog # pid /\ id # pid
        /\ hook[Catalog] = [kind |-> "catalog", form |-> FormRef(id), perms |-> c.perms,
                            dss |-> c.dss, ext |-> c.ext, lang |-> c.lang, null |-> c.null]
        /\ hook[id] = AcroForm(Direct(Append(FieldItems(FormOf(st)), field)), SigFlags)
        /\ hook[pid] = Page(AnnotsWith(st[pid].annots, field), st[pid].content, FALSE)
    <2>1. /\ hook = EnsureAcroForm(st, field, page, free) /\ free \notin DOMAIN st /\ free = field + 1
          /\ id = FormNumber(st, field) /\ pid = PageIds[page + 1] /\ c = st[Catalog]
      BY <1>7 DEF free
    <2>2. field \in Nat /\ WellFormed(st) /\ page + 1 \in DOMAIN PageIds /\ st[Catalog].form.at # "other"
      BY <1>4, <1>6
    <2> HIDE DEF hook, id, pid, c
    <2>3. Hooking(st, field, page, free, id, pid, c, hook)
      BY <2>1, <2>2 DEF Hooking
    <2>4. Hooked(st, field, id, pid, c, hook)
      BY ONLY <2>3, HookObjects
    <2> QED BY ONLY <2>4 DEF Hooked
  <1>9. IF c.form.at = "ref" THEN id = c.form.id /\ id \in DOMAIN st ELSE id = free
    <2>1. c.form.at = "ref" => c.form.id \in DOMAIN st
      BY <1>4, PlaceFacts DEF CatalogOk, FormOk
    <2> QED BY <2>1 DEF FormNumber, free
  <1>10. id \in Nat \ {0} /\ (id \in DOMAIN st \/ id = free)
    BY <1>3, <1>6, <1>9
  <1> HIDE DEF id, pid, c
  <1>11. dict \notin {Catalog, id, pid} /\ field \notin {Catalog, id, pid}
    BY <1>6, <1>7, <1>10
  <1>12. /\ DOMAIN perms = {Catalog, id, pid} /\ perms[id] = hook[id] /\ perms[pid] = hook[pid]
         /\ perms[Catalog] = [kind |-> "catalog", form |-> FormRef(id),
                              perms |-> IF what = "certify" THEN dict ELSE c.perms,
                              dss |-> c.dss, ext |-> c.ext, lang |-> c.lang, null |-> c.null]
    <2> HIDE DEF hook
    <2>1. CASE what = "certify"
      <3>1. perms = [hook EXCEPT ![Catalog] = [hook[Catalog] EXCEPT !.perms = dict]]
        BY <2>1 DEF CatalogPerms
      <3>2. hook = [n \in {Catalog, id, pid} |-> hook[n]]
        BY <1>8 DEF hook, EnsureAcroForm, ++
      <3> DEFINE nul == c.null
                 fr  == FormRef(id)
      <3>3. [hook[Catalog] EXCEPT !.perms = dict] =
              [kind |-> "catalog", form |-> fr, perms |-> dict,
               dss |-> c.dss, ext |-> c.ext, lang |-> c.lang, null |-> nul]
        <4>1. hook[Catalog] = [kind |-> "catalog", form |-> fr, perms |-> c.perms,
                               dss |-> c.dss, ext |-> c.ext, lang |-> c.lang, null |-> nul]
          BY <1>8
        <4> HIDE DEF nul, fr
        <4> QED BY <4>1
      <3> HIDE DEF nul, fr, perms
      <3>4. /\ perms[Catalog] = [hook[Catalog] EXCEPT !.perms = dict]
            /\ DOMAIN perms = {Catalog, id, pid} /\ perms[id] = hook[id] /\ perms[pid] = hook[pid]
        BY <1>8, <3>1, <3>2
      <3> QED BY <2>1, <3>3, <3>4 DEF nul, fr
    <2>2. CASE what # "certify"
      BY <1>8, <2>2 DEF CatalogPerms
    <2> QED BY <2>1, <2>2
  <1> HIDE DEF hook, perms
  <1>13. /\ DOMAIN two = {dict, field} /\ two[dict] = SigDict(what) /\ two[field] = Field("Sig", dict)
    <2> DEFINE a == Obj(dict, SigDict(what))
               b == Obj(field, Field("Sig", dict))
    <2>1. DOMAIN a = {dict} /\ a[dict] = SigDict(what) /\ DOMAIN b = {field} /\ b[field] = Field("Sig", dict)
      BY Single
    <2>2. field # dict
      BY <1>6
    <2> HIDE DEF a, b
    <2>3. DOMAIN (a ++ b) = {dict, field} /\ (a ++ b)[dict] = SigDict(what)
          /\ (a ++ b)[field] = Field("Sig", dict)
      BY <2>1, <2>2 DEF ++
    <2> QED BY <2>3 DEF a, b
  <1>14. /\ DOMAIN three = {dict, field} \cup (dict + 1 .. dict + visuals)
         /\ three[dict] = SigDict(what) /\ three[field] = Field("Sig", dict)
         /\ \A n \in dict + 1 .. dict + visuals : three[n] = Stream(n)
    <2> DEFINE E == dict + 1 .. dict + visuals
    <2>1. DOMAIN extra = E /\ \A n \in E : extra[n] = Stream(n) /\ n \notin {dict, field}
      BY <1>6
    <2> HIDE DEF two, extra, E
    <2> QED BY <1>13, <2>1 DEF ++, E
  <1> DEFINE E == dict + 1 .. dict + visuals
  <1>15. \A n \in {dict, field} \cup E : n \notin {Catalog, id, pid} /\ n \in Nat \ {0} /\ n <= free
                                          /\ n \notin DOMAIN st
    BY <1>3, <1>6, <1>7, <1>10
  <1>16. \A n \in E : n \notin {dict, field}
    BY <1>6
  <1>17. /\ DOMAIN objs = {dict, field} \cup E \cup {Catalog, id, pid}
         /\ objs[dict] = SigDict(what) /\ objs[field] = Field("Sig", dict)
         /\ \A n \in E : objs[n] = Stream(n)
         /\ objs[Catalog] = perms[Catalog] /\ objs[id] = perms[id] /\ objs[pid] = perms[pid]
    <2> HIDE DEF three, E
    <2> QED BY <1>12, <1>14, <1>15 DEF ++, E
  <1> HIDE DEF objs, E
  <1>18. \A n \in DOMAIN objs : n \in Nat \ {0} /\ n <= free
    BY <1>3, <1>6, <1>7, <1>10, <1>15, <1>17
  <1>19. top \in Nat /\ \A n \in DOMAIN objs : n <= top
    BY <1>6, <1>18, MaxOfFacts
  <1>20. last.size \in Nat \ {0}
    OBVIOUS
  <1> DEFINE ls == last.size
  <1> HIDE DEF top, last
  <1>21. num \in Nat /\ num > top /\ ls <= num
    <2> DEFINE S == {top, ls - 1}
               b == top + ls
    <2>1. b \in Nat /\ \A k \in S : k \in Nat /\ k <= b
      BY <1>19, <1>20
    <2> HIDE DEF b, S
    <2>2. MaxOf(S) \in Nat /\ \A k \in S : k <= MaxOf(S)
      BY <2>1, MaxOfFacts
    <2> QED BY <1>19, <1>20, <2>2 DEF S
  <1>22. LET x == MaxOf({ls, top + 1}) IN x \in Nat /\ ls <= x /\ top < x
    <2> DEFINE S == {ls, top + 1}
               b == top + ls + 1
    <2>1. b \in Nat /\ \A k \in S : k \in Nat /\ k <= b
      BY <1>19, <1>20
    <2> HIDE DEF b, S
    <2>2. MaxOf(S) \in Nat /\ \A k \in S : k <= MaxOf(S)
      BY <2>1, MaxOfFacts
    <2> QED BY <1>19, <1>20, <2>2 DEF S
  <1> HIDE DEF num
  <1>23. /\ size \in Nat /\ ls <= size /\ top < size /\ (last.stream => num < size)
    BY <1>19, <1>20, <1>21, <1>22
  <1>24. /\ \A n \in DOMAIN objs : n \in DOMAIN all /\ all[n] = objs[n]
         /\ \A n \in DOMAIN all \ DOMAIN objs : n = num /\ last.stream /\ all[n] = XrefStreamObj
    <2> DEFINE x == Obj(num, XrefStreamObj)
    <2>1. DOMAIN x = {num} /\ x[num] = XrefStreamObj
      BY Single
    <2> HIDE DEF x
    <2>2. /\ DOMAIN (objs ++ x) = DOMAIN objs \cup {num}
          /\ \A n \in DOMAIN objs : (objs ++ x)[n] = objs[n]
          /\ num \notin DOMAIN objs => (objs ++ x)[num] = XrefStreamObj
      BY <2>1 DEF ++
    <2>3. all = IF last.stream THEN objs ++ x ELSE objs
      BY DEF x
    <2> HIDE DEF all
    <2> QED BY <2>2, <2>3
  <1>25. num \notin DOMAIN st
    <2>1. free <= top \/ field <= top
      BY <1>17, <1>19
    <2> QED BY <1>3, <1>6, <1>19, <1>21, <2>1 
  <1> HIDE DEF all, size
  <1>26. \A n \in DOMAIN rev.objs : n \in Nat \ {0} /\ n < rev.size
    BY <1>2, <1>18, <1>19, <1>21, <1>23, <1>24
  <1>27. Follows(last, rev)
    BY <1>2, <1>20, <1>23, <1>26 DEF Follows
  <1>28. Hooks(st, rev, dict, field, id, pid)
    <2>1. \A n \in DOMAIN all \ {dict, field, Catalog, id, pid} :
            n \notin DOMAIN st /\ (all[n] = Stream(n) \/ all[n] = XrefStreamObj)
      BY <1>15, <1>17, <1>24, <1>25
    <2>2. IF c.form.at = "ref" THEN id = c.form.id ELSE id \notin DOMAIN st
      BY <1>7, <1>9
    <2>3. dict # field
      BY <1>6
    <2>4. /\ {dict, field, Catalog, id, pid} \subseteq DOMAIN all
          /\ all[dict] = SigDict(what) /\ all[field] = Field("Sig", dict)
          /\ all[Catalog] = perms[Catalog] /\ all[id] = perms[id] /\ all[pid] = perms[pid]
      BY <1>17, <1>24
    <2>5. rev.sig.what = what
      BY <1>2
    <2> QED BY <1>2, <1>5, <1>7, <1>8, <1>11, <1>12, <2>1, <2>2, <2>3, <2>4, <2>5 DEF Hooks, c
  <1>29. rev.sig.what = what /\ rev.sig.cms = NoCms /\ rev.sig.dict = dict /\ dict # 0
    BY <1>2, <1>3, <1>6
  <1> QED BY <1>2, <1>27, <1>28, <1>29 DEF st, last

-----------------------------------------------------------------------------
(* What revisions keep. *)

\* a signature field of dictionary d that every reader of the form's list sees
Listed(st, d) ==
  /\ FormOf(st).fields.shape = "array" /\ d # 0
  /\ \E n \in ToSet(FormOf(st).fields.items) : n \in DOMAIN st /\ st[n] = Field("Sig", d)

\* no revision changes the kind of an object, a signature field, or which object
\* is the form; lists of fields only grow
GraphStep(prev, curr) ==
  /\ WellFormed(curr) /\ KindsKept(prev, curr)
  /\ \A n \in DOMAIN prev : (prev[n].kind = "field" /\ prev[n].ft = "Sig") => curr[n] = prev[n]
  /\ prev[Catalog].form.at = "ref" => curr[Catalog].form = prev[Catalog].form
  /\ FormOf(prev).fields.shape = "array" =>
       /\ FormOf(curr).fields.shape = "array"
       /\ ToSet(FormOf(prev).fields.items) \subseteq ToSet(FormOf(curr).fields.items)

\* nothing a reader sees changes
Quiet(prev, curr) ==
  /\ curr[Content] = prev[Content] /\ curr[TextField] = prev[TextField]
  /\ curr[Catalog].lang = prev[Catalog].lang
  /\ \A p \in ToSet(PageIds) :
       \A a \in AnnotRefs(curr, curr[p]) \ AnnotRefs(prev, prev[p]) :
         a \in DOMAIN curr => curr[a].kind # "annot"

\* A list with one more item.
LEMMA AppendList ==
  ASSUME NEW s, IsList(s), NEW x
  PROVE  IsList(Append(s, x)) /\ ToSet(Append(s, x)) = ToSet(s) \cup {x}
  <1> DEFINE t == Append(s, x)
  <1>1. PICK S : s \in Seq(S)
    BY DEF IsList
  <1>2. s \in Seq(S \cup {x})
    BY <1>1
  <1>3. /\ t \in Seq(S \cup {x}) /\ Len(t) = Len(s) + 1 /\ Len(s) \in Nat /\ t[Len(s) + 1] = x
        /\ \A i \in 1 .. Len(s) : t[i] = s[i]
        /\ DOMAIN s = 1 .. Len(s)
    BY <1>2
  <1> HIDE DEF t
  <1>4. DOMAIN t = 1 .. Len(s) + 1
    BY <1>3
  <1>5. \A i \in 1 .. Len(s) + 1 : i \in 1 .. Len(s) \/ i = Len(s) + 1
    BY <1>3
  <1>6. ToSet(t) = ToSet(s) \cup {x}
    BY <1>3, <1>4, <1>5 DEF ToSet
  <1>7. IsList(t)
    BY <1>3 DEF IsList
  <1> QED BY <1>6, <1>7 DEF t

\* A list of one item, and of two.
LEMMA ShortLists ==
  ASSUME NEW x, NEW y
  PROVE  /\ IsList(<<x>>) /\ ToSet(<<x>>) = {x}
         /\ IsList(<<x, y>>) /\ ToSet(<<x, y>>) = {x, y}
  <1>1. IsList(<<x>>) /\ IsList(<<x, y>>)
    <2>1. <<x>> \in Seq({x, y}) /\ <<x, y>> \in Seq({x, y})
      OBVIOUS
    <2> QED BY <2>1 DEF IsList
  <1>2. DOMAIN <<x>> = {1} /\ DOMAIN <<x, y>> = {1, 2}
    OBVIOUS
  <1> QED BY <1>1, <1>2 DEF ToSet

\* Values of a kind are well formed when that kind's condition holds.
LEMMA ValueCases ==
  ASSUME NEW st, NEW v
  PROVE  /\ v.kind \in {"sig", "stream", "xref", "annot"} => ValueOk(st, v)
         /\ v.kind = "field" /\ v = Field(v.ft, v.v) => ValueOk(st, v)
         /\ v.kind = "array" /\ v = ArrayObj(v.items) /\ IsList(v.items) => ValueOk(st, v)
         /\ v.kind = "acroform" /\ v = AcroForm(v.fields, v.flags) /\ EntryOk(st, v.fields) => ValueOk(st, v)
         /\ v.kind = "page" /\ v = Page(v.annots, v.content, FALSE) /\ EntryOk(st, v.annots) => ValueOk(st, v)
         /\ v.kind = "catalog" /\ CatalogOk(st, v) => ValueOk(st, v)
BY DEF ValueOk

\* A page is a page with its annotations.
LEMMA PageKind ==
  ASSUME NEW e, NEW ct
  PROVE  Page(e, ct, FALSE).kind = "page" /\ Page(e, ct, FALSE).annots = e
         /\ Page(e, ct, FALSE).content = ct
BY DEF Page

\* The values revisions write.
LEMMA MadeValues ==
  ASSUME NEW st
  PROVE  /\ \A x : SigDict(x).kind = "sig" /\ Stream(x).kind = "stream"
         /\ \A x : ValueOk(st, SigDict(x)) /\ ValueOk(st, Stream(x))
         /\ XrefStreamObj.kind = "xref" /\ ValueOk(st, XrefStreamObj)
         /\ \A ft, x : Field(ft, x).kind = "field" /\ Field(ft, x).ft = ft /\ Field(ft, x).v = x
         /\ \A ft, x : ValueOk(st, Field(ft, x))
  <1>1. \A x : SigDict(x).kind = "sig" /\ Stream(x).kind = "stream"
    BY DEF SigDict, Stream
  <1>2. XrefStreamObj.kind = "xref"
    BY DEF XrefStreamObj
  <1>3. \A ft, x : Field(ft, x).kind = "field" /\ Field(ft, x).ft = ft /\ Field(ft, x).v = x
    BY DEF Field
  <1>4. \A ft, x : ValueOk(st, Field(ft, x))
    <2> SUFFICES ASSUME NEW ft, NEW x PROVE ValueOk(st, Field(ft, x))
      OBVIOUS
    <2> DEFINE v == Field(ft, x)
    <2>1. v.kind = "field" /\ v = Field(v.ft, v.v)
      BY <1>3
    <2> HIDE DEF v
    <2>2. ValueOk(st, v)
      BY <2>1, ValueCases
    <2> QED BY <2>2 DEF v
  <1>5. \A x : ValueOk(st, SigDict(x)) /\ ValueOk(st, Stream(x))
    BY <1>1, ValueCases
  <1>6. ValueOk(st, XrefStreamObj)
    BY <1>2, ValueCases
  <1> QED BY <1>1, <1>2, <1>3, <1>4, <1>5, <1>6

\* Forms, pages and arrays that revisions write.
LEMMA MadeDictionaries ==
  ASSUME NEW st, NEW e, EntryOk(st, e), NEW s, IsList(s), NEW x
  PROVE  /\ AcroForm(e, x).kind = "acroform" /\ ValueOk(st, AcroForm(e, x))
         /\ Page(e, x, FALSE).kind = "page" /\ ValueOk(st, Page(e, x, FALSE))
         /\ ArrayObj(s).kind = "array" /\ ValueOk(st, ArrayObj(s))
  <1>1. LET v == AcroForm(e, x) IN v.kind = "acroform" /\ v = AcroForm(v.fields, v.flags) /\ v.fields = e
    BY DEF AcroForm
  <1>2. LET v == Page(e, x, FALSE)
        IN  v.kind = "page" /\ v = Page(v.annots, v.content, FALSE) /\ v.annots = e
    <2> DEFINE no == FALSE
               v  == Page(e, x, no)
    <2>1. no = FALSE
      OBVIOUS
    <2> HIDE DEF no
    <2>2. v.kind = "page" /\ v = Page(v.annots, v.content, no) /\ v.annots = e
      BY DEF Page
    <2> QED BY <2>1, <2>2
  <1>3. LET v == ArrayObj(s) IN v.kind = "array" /\ v = ArrayObj(v.items) /\ v.items = s
    BY DEF ArrayObj
  <1> DEFINE af == AcroForm(e, x)
             pg == Page(e, x, FALSE)
             ar == ArrayObj(s)
  <1>4. af.kind = "acroform" /\ af = AcroForm(af.fields, af.flags) /\ EntryOk(st, af.fields)
    BY <1>1
  <1>5. pg.kind = "page" /\ pg = Page(pg.annots, pg.content, FALSE) /\ EntryOk(st, pg.annots)
    BY <1>2
  <1>6. ar.kind = "array" /\ ar = ArrayObj(ar.items) /\ IsList(ar.items)
    BY <1>3
  <1> HIDE DEF af, pg, ar
  <1>7. ValueOk(st, af) /\ ValueOk(st, pg) /\ ValueOk(st, ar)
    BY <1>4, <1>5, <1>6, ValueCases
  <1> QED BY <1>4, <1>5, <1>6, <1>7 DEF af, pg, ar

\* A graph stays well formed when what is written is.
LEMMA WellFormedStep ==
  ASSUME NEW prev, WellFormed(prev), NEW objs, NEW curr, Overwrites(prev, objs, curr),
         KindsKept(prev, curr), NEW b \in Nat, DOMAIN objs \subseteq 1 .. b,
         \A n \in DOMAIN objs : ValueOk(curr, objs[n]),
         curr[Content] = Stream(curr[Content].data),
         curr[TextField] = Field("Tx", curr[TextField].v)
  PROVE  WellFormed(curr)
  <1>1. PICK k \in Nat : DOMAIN prev \subseteq 1 .. k
    BY DEF WellFormed
  <1>2. \E m \in Nat : DOMAIN curr \subseteq 1 .. m
    <2>1. b + k \in Nat /\ 1 .. b \subseteq 1 .. b + k /\ 1 .. k \subseteq 1 .. b + k
      BY <1>1
    <2> QED BY <1>1, <2>1 DEF Overwrites
  <1>3. PlacesOk(prev) /\ \A n \in DOMAIN prev : ValueOk(prev, prev[n])
    BY DEF WellFormed
  <1>4. PlacesOk(curr)
    BY <1>3 DEF PlacesOk, KindsKept
  <1>5. ASSUME NEW n \in DOMAIN curr
        PROVE  ValueOk(curr, curr[n])
    <2>1. CASE n \in DOMAIN objs
      BY <2>1 DEF Overwrites
    <2>2. CASE n \notin DOMAIN objs
      <3>1. n \in DOMAIN prev /\ curr[n] = prev[n]
        BY <2>2 DEF Overwrites
      <3> QED BY <1>3, <3>1, ValueOkKept
    <2> QED BY <2>1, <2>2
  <1> QED BY <1>2, <1>4, <1>5 DEF WellFormed

\* A page with one more annotation.
LEMMA AnnotsWithFacts ==
  ASSUME NEW prev, NEW curr, KindsKept(prev, curr), NEW e, EntryOk(prev, e), NEW field
  PROVE  /\ EntryOk(curr, AnnotsWith(e, field))
         /\ ToSet(Items(curr, AnnotsWith(e, field)))
              \subseteq ToSet(Items(prev, e)) \cup {field} \cup (IF e.shape = "ref" THEN {e.ref} ELSE {})
  <1> DEFINE a == AnnotsWith(e, field)
  <1>1. \A s : IsList(s) => EntryOk(curr, Direct(s)) /\ Items(curr, Direct(s)) = s
    BY DEF EntryOk, Direct, Items, Absent
  <1>2. CASE e.shape = "array"
    <2>1. a = Direct(Append(e.items, field)) /\ IsList(e.items) /\ Items(prev, e) = e.items
      BY <1>2 DEF AnnotsWith, EntryOk, Items
    <2> QED BY <1>1, <2>1, AppendList
  <1>3. CASE e.shape = "ref"
    <2>1. a = Direct(<<e.ref, field>>)
      BY <1>3 DEF AnnotsWith
    <2>2. IsList(<<e.ref, field>>) /\ ToSet(<<e.ref, field>>) = {e.ref, field}
      BY ShortLists
    <2>3. EntryOk(curr, a) /\ ToSet(Items(curr, a)) = {e.ref, field}
      BY <1>1, <2>1, <2>2
    <2> QED BY <1>3, <2>3
  <1>4. CASE e.shape = "absent"
    <2>1. a = Direct(<<field>>)
      BY <1>4 DEF AnnotsWith
    <2> QED BY <1>1, <1>4, <2>1, ShortLists
  <1> QED BY <1>2, <1>3, <1>4 DEF EntryOk

\* A signature revision of the library keeps all of that, alters nothing a reader
\* sees, and lists its field.
LEMMA HookedGraph ==
  ASSUME NEW prev, WellFormed(prev), NEW rev, NEW curr, Overwrites(prev, rev.objs, curr),
         NEW b \in Nat, DOMAIN rev.objs \subseteq 1 .. b,
         NEW dict, dict # 0, NEW field, NEW id, NEW pid, Hooks(prev, rev, dict, field, id, pid)
  PROVE  /\ GraphStep(prev, curr) /\ Quiet(prev, curr) /\ Listed(curr, dict)
         /\ curr[Catalog].form = FormRef(id)
         /\ DOMAIN rev.objs \cap DOMAIN prev \subseteq {Catalog, id, pid}
  <1> DEFINE objs == rev.objs
             c    == prev[Catalog]
             form == FormOf(prev)
             list == Append(FieldItems(form), field)
             ann  == prev[pid].annots
             perms == IF rev.sig.what = "certify" THEN dict ELSE c.perms
             pg   == Page(AnnotsWith(ann, field), prev[pid].content, FALSE)
  <1>1. /\ pid \in ToSet(PageIds)
        /\ Catalog # id /\ Catalog # pid /\ id # pid /\ dict # field
        /\ dict \notin DOMAIN prev /\ field \notin DOMAIN prev
        /\ dict \notin {Catalog, id, pid} /\ field \notin {Catalog, id, pid}
        /\ IF c.form.at = "ref" THEN id = c.form.id ELSE id \notin DOMAIN prev
        /\ {dict, field, Catalog, id, pid} \subseteq DOMAIN objs
        /\ objs[dict] = SigDict(rev.sig.what) /\ objs[field] = Field("Sig", dict)
        /\ objs[Catalog] = [kind |-> "catalog", form |-> FormRef(id), perms |-> perms,
                            dss |-> c.dss, ext |-> c.ext, lang |-> c.lang, null |-> c.null]
        /\ objs[id] = AcroForm(Direct(list), SigFlags)
        /\ objs[pid] = pg
        /\ \A n \in DOMAIN objs \ {dict, field, Catalog, id, pid} :
              n \notin DOMAIN prev /\ (objs[n] = Stream(n) \/ objs[n] = XrefStreamObj)
    BY DEF Hooks
  <1>0. pg.kind = "page" /\ pg.annots = AnnotsWith(ann, field)
    BY PageKind
  <1>2. /\ DOMAIN curr = DOMAIN objs \cup DOMAIN prev
        /\ \A n \in DOMAIN objs : curr[n] = objs[n]
        /\ \A n \in DOMAIN prev : n \notin DOMAIN objs => curr[n] = prev[n]
    BY DEF Overwrites
  <1>3. /\ CatalogOk(prev, c) /\ c.kind = "catalog"
        /\ prev[Content].kind = "stream" /\ prev[TextField].kind = "field"
        /\ Content # Catalog /\ TextField # Catalog
        /\ \A p \in ToSet(PageIds) : /\ p \notin {Catalog, Content, TextField}
                                     /\ prev[p] = Page(prev[p].annots, prev[p].content, FALSE)
                                     /\ EntryOk(prev, prev[p].annots)
    BY PlaceFacts
  <1>4. PlacesOk(prev) /\ \A n \in DOMAIN prev : ValueOk(prev, prev[n])
    BY DEF WellFormed
  <1>5. IsList(FieldItems(form)) /\ EntryOk(prev, form.fields)
    BY FormOfFacts
  <1>6. c.form.at = "ref" => id \in DOMAIN prev /\ prev[id].kind = "acroform" /\ c.form = FormRef(id)
    BY <1>1, <1>3 DEF CatalogOk, FormOk
  <1>23. \A st : EntryOk(st, AnnotsWith(ann, field)) => ValueOk(st, pg)
    <2>1. <<>> \in Seq({})
      OBVIOUS
    <2>2. IsList(<<>>)
      BY <2>1 DEF IsList
    <2> DEFINE e == AnnotsWith(ann, field)
    <2> HIDE DEF e
    <2> QED BY <2>2, MadeDictionaries DEF e
  <1> HIDE DEF c, form, ann, perms, list, objs, pg
  <1>7. ASSUME NEW n \in DOMAIN prev
        PROVE  curr[n].kind = prev[n].kind /\ (curr[n] = prev[n] \/ n \in {Catalog, id, pid})
    <2>1. CASE n \notin DOMAIN objs
      BY <1>2, <2>1
    <2>2. CASE n = Catalog
      BY <1>1, <1>2, <1>3, <2>2 DEF c
    <2>3. CASE n = id
      BY <1>1, <1>2, <1>6, <2>3 DEF AcroForm
    <2>4. CASE n = pid
      <3>1. curr[pid].kind = "page" /\ prev[pid].kind = "page"
        BY <1>0, <1>1, <1>2, <1>4 DEF PlacesOk
      <3> QED BY <2>4, <3>1
    <2> QED BY <1>1, <2>1, <2>2, <2>3, <2>4
  <1>8. KindsKept(prev, curr)
    BY <1>2, <1>7 DEF KindsKept
  <1>9. Content \in DOMAIN prev /\ TextField \in DOMAIN prev /\ Catalog \in DOMAIN prev
        /\ \A p \in ToSet(PageIds) : p \in DOMAIN prev /\ prev[p].kind = "page"
    BY <1>4 DEF PlacesOk
  <1>10. curr[Content] = prev[Content] /\ curr[TextField] = prev[TextField]
    <2>1. Content # id /\ TextField # id
      BY <1>1, <1>3, <1>6, <1>9
    <2> QED BY <1>1, <1>3, <1>7, <1>9, <2>1
  <1>11. IsList(list) /\ ToSet(list) = ToSet(FieldItems(form)) \cup {field}
    BY <1>5, AppendList DEF list
  <1>12. EntryOk(curr, AnnotsWith(ann, field))
    BY <1>1, <1>3, <1>8, AnnotsWithFacts DEF ann
  <1>13. ASSUME NEW n \in DOMAIN objs
         PROVE  ValueOk(curr, objs[n])
    <2>1. CASE n = Catalog
      <3>1. curr[id].kind = "acroform" /\ id \in DOMAIN curr
        BY <1>1, <1>2 DEF AcroForm
      <3>2. FormOk(curr, FormRef(id))
        BY <3>1 DEF FormOk, FormRef
      <3>3. c.lang \in Nat \ {0} /\ (c.dss # 0 => c.dss \in DOMAIN curr /\ curr[c.dss].kind = "dss")
        BY <1>3, <1>8 DEF CatalogOk, KindsKept
      <3> DEFINE fr  == FormRef(id)
                 nul == c.null
      <3>4. objs[n] = [kind |-> "catalog", form |-> fr, perms |-> perms,
                       dss |-> c.dss, ext |-> c.ext, lang |-> c.lang, null |-> nul]
        BY <1>1, <2>1
      <3>5. FormOk(curr, fr)
        BY <3>2
      <3> HIDE DEF fr, nul
      <3>6. CatalogOk(curr, objs[n]) /\ objs[n].kind = "catalog"
        BY <3>3, <3>4, <3>5 DEF CatalogOk
      <3> QED BY <3>6, ValueCases
    <2>2. CASE n = id
      <3>1. EntryOk(curr, Direct(list))
        BY <1>11 DEF EntryOk, Direct, Absent
      <3> DEFINE e == Direct(list)
      <3>2. EntryOk(curr, e) /\ objs[n] = AcroForm(e, SigFlags)
        BY <1>1, <2>2, <3>1
      <3> HIDE DEF e
      <3> QED BY <1>11, <3>2, MadeDictionaries
    <2>3. CASE n = pid
      BY <1>1, <1>12, <1>23, <2>3
    <2>4. CASE n \notin {Catalog, id, pid}
      BY <1>1, <2>4, MadeValues
    <2> QED BY <2>1, <2>2, <2>3, <2>4
  <1>14. WellFormed(curr)
    <2>1. prev[Content] = Stream(prev[Content].data) /\ prev[TextField] = Field("Tx", prev[TextField].v)
      BY <1>4 DEF PlacesOk
    <2>2. Overwrites(prev, objs, curr) /\ DOMAIN objs \subseteq 1 .. b
      BY DEF objs
    <2> QED BY <1>8, <1>10, <1>13, <2>1, <2>2, WellFormedStep
  <1>15. curr[Catalog].form = FormRef(id) /\ curr[Catalog].lang = c.lang
    BY <1>1, <1>2
  <1>16. FormOf(curr) = AcroForm(Direct(list), SigFlags)
    <2>1. curr[Catalog].form.at = "ref" /\ curr[Catalog].form.id = id
      BY <1>15 DEF FormRef
    <2> QED BY <1>1, <1>2, <2>1 DEF FormOf
  <1>17. FormOf(curr).fields.shape = "array" /\ FormOf(curr).fields.items = list
    BY <1>16 DEF AcroForm, Direct
  <1>18. GraphStep(prev, curr)
    <2>1. ASSUME NEW n \in DOMAIN prev, prev[n].kind = "field"
          PROVE  curr[n] = prev[n]
      <3>1. prev[pid].kind = "page"
        BY <1>1, <1>9
      <3> QED BY <1>1, <1>3, <1>6, <1>7, <2>1, <3>1 DEF c
    <2>2. form.fields.shape = "array" => FieldItems(form) = form.fields.items
      BY DEF FieldItems
    <2> QED BY <1>6, <1>8, <1>11, <1>14, <1>15, <1>17, <2>1, <2>2 DEF GraphStep, c, form
  <1>19. Listed(curr, dict)
    <2>1. field \in DOMAIN curr /\ curr[field] = Field("Sig", dict)
      BY <1>1, <1>2
    <2> QED BY <1>11, <1>17, <2>1 DEF Listed
  <1>20. ASSUME NEW p \in ToSet(PageIds), NEW a \in AnnotRefs(curr, curr[p]) \ AnnotRefs(prev, prev[p]),
                a \in DOMAIN curr
         PROVE  curr[a].kind # "annot"
    <2>1. prev[p].kind = "page" /\ curr[p].kind = "page"
      BY <1>7, <1>9
    <2>2. a \in ToSet(Items(curr, curr[p].annots)) /\ a \notin ToSet(Items(prev, prev[p].annots))
      BY <1>20, <2>1 DEF AnnotRefs
    <2>3. CASE p = pid
      <3>1. curr[p].annots = AnnotsWith(ann, field)
        BY <1>0, <1>1, <1>2, <2>3
      <3>2. EntryOk(prev, ann) /\ prev[p].annots = ann
        BY <1>1, <1>3, <2>3 DEF ann
      <3>3. a = field \/ (ann.shape = "ref" /\ a = ann.ref)
        BY <1>8, <2>2, <3>1, <3>2, AnnotsWithFacts
      <3>4. a = field => curr[a].kind = "field"
        BY <1>1, <1>2 DEF Field
      <3>5. ann.shape = "ref" /\ a = ann.ref => curr[a].kind = "array"
        BY <1>8, <3>2 DEF EntryOk, KindsKept
      <3> QED BY <3>3, <3>4, <3>5
    <2>4. CASE p # pid
      <3>1. curr[p] = prev[p]
        <4>1. p # id
          BY <1>1, <1>6, <1>9, <2>1
        <4> QED BY <1>3, <1>7, <1>9, <2>4, <4>1
      <3>2. EntryOk(prev, prev[p].annots)
        BY <1>3
      <3> DEFINE e == prev[p].annots
      <3>3. Items(curr, e) # Items(prev, e) /\ EntryOk(prev, e)
        BY <2>2, <3>1, <3>2
      <3> HIDE DEF e
      <3>4. e.shape = "ref" /\ e.ref \in DOMAIN prev /\ prev[e.ref].kind = "array"
        BY <3>3 DEF EntryOk, Items
      <3>5. e.ref \notin {Catalog, id, pid}
        <4>1. prev[pid].kind = "page"
          BY <1>1, <1>9
        <4> QED BY <1>1, <1>3, <1>6, <3>4, <4>1 DEF c
      <3>6. curr[e.ref] = prev[e.ref] /\ e.ref \in DOMAIN curr
        BY <1>2, <1>7, <3>4, <3>5
      <3> QED BY <3>3, <3>4, <3>6 DEF Items
    <2> QED BY <2>3, <2>4
  <1>21. Quiet(prev, curr)
    BY <1>10, <1>15, <1>20 DEF Quiet, c
  <1>22. DOMAIN objs \cap DOMAIN prev \subseteq {Catalog, id, pid}
    BY <1>1
  <1> QED BY <1>15, <1>18, <1>19, <1>21, <1>22 DEF objs

-----------------------------------------------------------------------------
(* Files the library and the editors leave behind. *)

IsOwn(rev) == rev.sig.what \in {"approval", "certify", "timestamp"}

\* objects that an update of OtherPrograms may write over prev
IsEdit(prev, objs) ==
  \E next \in Nat : /\ \A n \in DOMAIN prev : n < next
                    /\ objs \in SafeEdits(prev, next) \cup UnsafeEdits(prev, next)

\* pages list their annotations themselves, and only ones that exist
OwnAnnots(st) ==
  \A p \in ToSet(PageIds) :
    st[p].annots.shape # "ref" /\ ToSet(st[p].annots.items) \subseteq DOMAIN st

\* the graph of a file without signatures and DSS
Fresh(st) ==
  /\ st[Content].data \in Nat /\ st[TextField].v \in Nat
  /\ st[Catalog].perms = 0 /\ st[Catalog].ext = 0
  /\ \A p \in ToSet(PageIds) : ToSet(st[p].annots.items) \subseteq DOMAIN st

\* revision i is an edit, a signature of the library or one of another program
StepOk(doc, i) ==
  /\ GraphStep(At(doc, i - 1), At(doc, i))
  /\ doc[i].sig # NoSig => Quiet(At(doc, i - 1), At(doc, i))
  /\ doc[i].sig = NoSig => IsEdit(At(doc, i - 1), doc[i].objs) /\ doc[i].tail = <<"LF">>
  /\ IsOwn(doc[i]) =>
       /\ Follows(doc[i - 1], doc[i]) /\ Listed(At(doc, i), doc[i].sig.dict)
       /\ \E field, id, pid : Hooks(At(doc, i - 1), doc[i], doc[i].sig.dict, field, id, pid)
  /\ (doc[i].sig # NoSig /\ ~IsOwn(doc[i])) =>
       /\ i = 2 /\ At(doc, i - 1)[Catalog].form.at = "ref"
       /\ At(doc, i)[Catalog] = At(doc, i - 1)[Catalog]
       /\ OwnAnnots(At(doc, i - 1)) => OwnAnnots(At(doc, i))
       /\ doc[i].sig.dict \in DOMAIN At(doc, i)
       /\ FormOf(At(doc, i - 1)).fields.shape # "ref" => Listed(At(doc, i), doc[i].sig.dict)

DocInv(doc) ==
  /\ IsDocument(doc) /\ WellFormed(At(doc, 1)) /\ Fresh(At(doc, 1)) /\ doc[1].sig = NoSig
  /\ \A i \in 1 .. Len(doc) : doc[i].size \in Nat \ {0} /\ doc[i].tail \in Seq({"CR", "LF"})
  /\ \A i \in 2 .. Len(doc) : StepOk(doc, i)

\* Every graph of such a file is well formed.
LEMMA GraphsWellFormed ==
  ASSUME NEW doc, DocInv(doc)
  PROVE  /\ \A i \in 1 .. Len(doc) : WellFormed(At(doc, i))
         /\ WellFormed(Store(doc))
  <1>1. IsDocument(doc) /\ Len(doc) \in 1 .. Len(doc) /\ Len(doc) \in Nat
    BY DocumentFacts DEF DocInv
  <1>2. ASSUME NEW i \in 1 .. Len(doc)
        PROVE  WellFormed(At(doc, i))
    <2>1. i = 1 \/ i \in 2 .. Len(doc)
      BY <1>1
    <2> QED BY <2>1 DEF DocInv, StepOk, GraphStep
  <1> QED BY <1>1, <1>2, AtFacts

\* A revision is judged by what it wrote, where it ends and whose it is.
LEMMA StepSame ==
  ASSUME NEW doc, IsDocument(doc), NEW d, IsDocument(d), NEW i \in 2 .. Len(doc), i <= Len(d),
         \A k \in 1 .. i : /\ d[k].objs = doc[k].objs /\ d[k].size = doc[k].size
                           /\ d[k].tail = doc[k].tail
                           /\ d[k].sig.what = doc[k].sig.what /\ d[k].sig.dict = doc[k].sig.dict
                           /\ (d[k].sig = NoSig <=> doc[k].sig = NoSig),
         StepOk(doc, i)
  PROVE  StepOk(d, i)
  <1>1. i \in 1 .. Len(doc) /\ i - 1 \in 1 .. Len(doc) /\ i - 1 <= Len(d) /\ i \in 1 .. i
        /\ i - 1 \in 1 .. i
    BY DocumentFacts
  <1>2. \A k \in 1 .. i - 1 : k \in 1 .. i
    BY <1>1
  <1>3. At(d, i) = At(doc, i)
    BY <1>1, AtSame
  <1>4. At(d, i - 1) = At(doc, i - 1)
    BY <1>1, <1>2, AtSame
  <1> DEFINE r == d[i]
             s == doc[i]
  <1>5. /\ r.objs = s.objs /\ r.size = s.size /\ r.tail = s.tail
        /\ r.sig.what = s.sig.what /\ r.sig.dict = s.sig.dict
        /\ (r.sig = NoSig <=> s.sig = NoSig) /\ d[i - 1].size = doc[i - 1].size
    BY <1>1
  <1> HIDE DEF r, s
  <1>6. \A dict, field, id, pid :
          Hooks(At(doc, i - 1), s, dict, field, id, pid)
            => Hooks(At(doc, i - 1), r, dict, field, id, pid)
    BY <1>5 DEF Hooks
  <1>7. Follows(doc[i - 1], s) => Follows(d[i - 1], r)
    BY <1>5 DEF Follows
  <1>8. IsOwn(r) <=> IsOwn(s)
    BY <1>5 DEF IsOwn
  <1> QED BY <1>3, <1>4, <1>5, <1>6, <1>7, <1>8 DEF StepOk, r, s

\* A file stays such a file when only its CMS data change.
LEMMA SameInv ==
  ASSUME NEW doc, DocInv(doc), NEW d, IsDocument(d), Len(d) = Len(doc),
         \A k \in 1 .. Len(doc) : /\ d[k].objs = doc[k].objs /\ d[k].size = doc[k].size
                                  /\ d[k].tail = doc[k].tail
                                  /\ d[k].sig.what = doc[k].sig.what /\ d[k].sig.dict = doc[k].sig.dict
                                  /\ (d[k].sig = NoSig <=> doc[k].sig = NoSig)
  PROVE  DocInv(d)
  <1>1. IsDocument(doc) /\ Len(doc) \in Nat /\ 1 \in 1 .. Len(doc)
    BY DocumentFacts DEF DocInv
  <1>2. ASSUME NEW i \in 2 .. Len(doc)
        PROVE  StepOk(d, i)
    <2>1. i <= Len(d) /\ \A k \in 1 .. i : k \in 1 .. Len(doc)
      BY <1>1
    <2>2. StepOk(doc, i)
      BY DEF DocInv
    <2> QED BY <1>1, <2>1, <2>2, StepSame
  <1>3. At(d, 1) = At(doc, 1)
    <2>1. \A k \in 1 .. 1 : k \in 1 .. Len(doc)
      BY <1>1
    <2> QED BY <1>1, <2>1, AtSame
  <1>4. d[1].sig = NoSig
    BY <1>1 DEF DocInv
  <1> QED BY <1>2, <1>3, <1>4 DEF DocInv

\* ... and when a CMS is written into its last revision.
LEMMA InjectInv ==
  ASSUME NEW doc, DocInv(doc), doc[Len(doc)].sig.what # "none", NEW over, NEW zero
  PROVE  DocInv(InjectCms(doc, over, zero))
  <1> DEFINE d == InjectCms(doc, over, zero)
             n == Len(doc)
  <1>1. IsDocument(doc) /\ n \in Nat /\ n >= 1 /\ IsRevision(doc[n])
    BY DocumentFacts DEF DocInv
  <1>2. IsDocument(d) /\ Len(d) = n /\ d[n] = WithCms(doc[n], over, zero)
        /\ \A i \in 1 .. n - 1 : d[i] = doc[i]
    BY <1>1, InjectFacts
  <1>3. /\ d[n].objs = doc[n].objs /\ d[n].size = doc[n].size /\ d[n].tail = doc[n].tail
        /\ d[n].sig.what = doc[n].sig.what /\ d[n].sig.dict = doc[n].sig.dict
    BY <1>1, <1>2, WithCmsFacts
  <1>4. d[n].sig # NoSig /\ doc[n].sig # NoSig
    BY <1>3 DEF NoSig
  <1> HIDE DEF d, n
  <1>5. ASSUME NEW k \in 1 .. n
        PROVE  /\ d[k].objs = doc[k].objs /\ d[k].size = doc[k].size
               /\ d[k].tail = doc[k].tail
               /\ d[k].sig.what = doc[k].sig.what /\ d[k].sig.dict = doc[k].sig.dict
               /\ (d[k].sig = NoSig <=> doc[k].sig = NoSig)
    <2>1. k = n \/ k \in 1 .. n - 1
      BY <1>1
    <2> QED BY <1>2, <1>3, <1>4, <2>1
  <1>6. DocInv(d)
    BY <1>2, <1>5, SameInv DEF n
  <1> QED BY <1>6 DEF d

\* ... and when a revision is appended that is in order.
LEMMA AppendInv ==
  ASSUME NEW doc, DocInv(doc), NEW rev, IsRevision(rev), rev.size \in Nat \ {0},
         rev.tail \in Seq({"CR", "LF"}), StepOk(Append(doc, rev), Len(doc) + 1)
  PROVE  DocInv(Append(doc, rev))
  <1> DEFINE d == Append(doc, rev)
             n == Len(doc)
  <1>1. IsDocument(doc) /\ n \in Nat /\ n >= 1
    BY DocumentFacts DEF DocInv
  <1>2. /\ IsDocument(d) /\ Len(d) = n + 1 /\ d[n + 1] = rev
        /\ \A i \in 1 .. n : d[i] = doc[i]
    BY <1>1, AppendDocument
  <1>3. StepOk(d, n + 1)
    OBVIOUS
  <1> HIDE DEF d, n
  <1>4. ASSUME NEW i \in 2 .. n + 1
        PROVE  StepOk(d, i)
    <2>1. CASE i = n + 1
      BY <1>3, <2>1
    <2>2. CASE i # n + 1
      <3>1. i \in 2 .. n /\ i <= Len(d)
        BY <1>1, <1>2, <2>2
      <3>2. \A k \in 1 .. i : d[k] = doc[k]
        BY <1>1, <1>2, <3>1
      <3>3. StepOk(doc, i)
        BY <3>1 DEF DocInv, n
      <3> QED BY <1>1, <1>2, <3>1, <3>2, <3>3, StepSame DEF n
    <2> QED BY <2>1, <2>2
  <1>5. At(d, 1) = At(doc, 1)
    <2>1. 1 \in 1 .. n /\ 1 <= Len(d) /\ \A k \in 1 .. 1 : d[k] = doc[k]
      BY <1>1, <1>2
    <2> QED BY <1>1, <1>2, <2>1, AtSame DEF n
  <1>6. \A i \in 1 .. n + 1 : d[i].size \in Nat \ {0} /\ d[i].tail \in Seq({"CR", "LF"})
    <2>1. \A i \in 1 .. n + 1 : i \in 1 .. n \/ i = n + 1
      BY <1>1
    <2> QED BY <1>2, <2>1 DEF DocInv, n
  <1>7. WellFormed(At(d, 1)) /\ d[1].sig = NoSig
    <2>1. 1 \in 1 .. n
      BY <1>1
    <2> QED BY <1>2, <1>5, <2>1 DEF DocInv
  <1>9. Fresh(At(d, 1))
    BY <1>5 DEF DocInv
  <1>8. DocInv(d)
    BY <1>2, <1>4, <1>6, <1>7, <1>9 DEF DocInv
  <1> QED BY <1>8 DEF d

\* The graph of a file with one more revision.
LEMMA AppendGraphs ==
  ASSUME NEW doc, IsDocument(doc), NEW rev, IsRevision(rev)
  PROVE  LET d == Append(doc, rev)
             i == Len(doc) + 1
         IN  /\ IsDocument(d) /\ Len(d) = i /\ i - 1 = Len(doc) /\ i \in 2 .. i
             /\ d[i] = rev /\ d[i - 1] = doc[Len(doc)]
             /\ At(d, i - 1) = Store(doc) /\ Overwrites(Store(doc), rev.objs, At(d, i))
  <1> DEFINE d == Append(doc, rev)
             n == Len(doc)
             i == n + 1
  <1>1. n \in Nat /\ n >= 1
    BY DocumentFacts
  <1>2. /\ IsDocument(d) /\ Len(d) = n + 1 /\ d[n + 1] = rev
        /\ \A k \in 1 .. n : d[k] = doc[k]
    BY AppendDocument
  <1> HIDE DEF d
  <1>3. At(d, n) = Store(doc)
    <2>1. n \in 1 .. n /\ n <= Len(d)
      BY <1>1, <1>2
    <2>2. At(d, n) = At(doc, n)
      BY <1>2, <2>1, AtSame
    <2> QED BY <2>2, AtFacts
  <1> HIDE DEF n
  <1>4. i - 1 = n /\ i \in 2 .. i /\ i \in 2 .. Len(d) /\ n \in 1 .. n
    BY <1>1, <1>2
  <1>5. Overwrites(Store(doc), rev.objs, At(d, i))
    <2>1. Overwrites(At(d, i - 1), d[i].objs, At(d, i))
      BY <1>2, <1>4, AtStep
    <2>2. d[i] = rev /\ At(d, i - 1) = Store(doc)
      BY <1>2, <1>3, <1>4
    <2> QED BY <2>1, <2>2 DEF Overwrites
  <1> QED BY <1>2, <1>3, <1>4, <1>5 DEF d, n

\* Signing leaves such a file.
LEMMA SignedInv ==
  ASSUME NEW doc, DocInv(doc), NEW what \in {"approval", "certify", "timestamp"}, NEW page,
         CanHook(doc, page), NEW visuals \in Nat
  PROVE  DocInv(WithSignature(doc, what, page, visuals))
  <1> DEFINE rev == SignatureRevision(doc, what, page, visuals)
             n   == Len(doc)
             d   == Append(doc, rev)
             st  == Store(doc)
             dict == rev.sig.dict
  <1>1. IsDocument(doc) /\ n \in 1 .. n /\ n \in Nat /\ doc[n].size \in Nat \ {0} /\ WellFormed(st)
    BY DocumentFacts, GraphsWellFormed DEF DocInv
  <1>2. /\ IsRevision(rev) /\ rev.sig.what = what /\ dict # 0 /\ Follows(doc[n], rev)
        /\ \E field, id, pid : Hooks(st, rev, dict, field, id, pid)
    BY <1>1, SignatureObjects
  <1> HIDE DEF rev
  <1>3. /\ Len(d) = n + 1 /\ (n + 1) - 1 = n /\ d[n + 1] = rev /\ d[n] = doc[n]
        /\ At(d, n) = st /\ Overwrites(st, rev.objs, At(d, n + 1))
    BY <1>1, <1>2, AppendGraphs
  <1>4. PICK field, id, pid : Hooks(st, rev, dict, field, id, pid)
    BY <1>2
  <1>5. rev.size \in Nat \ {0} /\ rev.tail = <<"LF">> /\ DOMAIN rev.objs \subseteq 1 .. rev.size
    BY <1>1, <1>2 DEF Follows
  <1>6. /\ GraphStep(st, At(d, n + 1)) /\ Quiet(st, At(d, n + 1))
        /\ Listed(At(d, n + 1), dict)
    <2> HIDE DEF d, st, n, dict
    <2> QED BY <1>1, <1>2, <1>3, <1>4, <1>5, HookedGraph
  <1>7. rev.sig # NoSig /\ IsOwn(rev)
    BY <1>2 DEF NoSig, IsOwn
  <1>8. StepOk(d, n + 1)
    <2> HIDE DEF d, st, n
    <2> QED BY <1>2, <1>3, <1>6, <1>7 DEF StepOk
  <1>9. rev.tail \in Seq({"CR", "LF"})
    BY <1>5
  <1>10. DocInv(d)
    BY <1>2, <1>5, <1>8, <1>9, AppendInv
  <1> QED BY <1>10 DEF WithSignature, rev

-----------------------------------------------------------------------------
(* Updates of other programs. *)

\* objs leaves the form, its fields and /Perms to others and keeps the kind of
\* what it writes over
PlainEdit(prev, objs) ==
  /\ \A n \in DOMAIN objs \cap DOMAIN prev :
       /\ objs[n].kind = prev[n].kind /\ prev[n].kind # "acroform"
       /\ prev[n].kind = "field" => n = TextField
  /\ Content \in DOMAIN objs => objs[Content] = Stream(objs[Content].data)
  /\ TextField \in DOMAIN objs => objs[TextField] = Field("Tx", objs[TextField].v)
  /\ Catalog \in DOMAIN objs => /\ objs[Catalog].form = prev[Catalog].form
                               /\ objs[Catalog].perms = prev[Catalog].perms

\* Such an update keeps what revisions keep.
LEMMA PlainGraph ==
  ASSUME NEW prev, WellFormed(prev), NEW objs, NEW curr, Overwrites(prev, objs, curr),
         NEW b \in Nat, DOMAIN objs \subseteq 1 .. b, PlainEdit(prev, objs),
         KindsKept(prev, curr) => \A n \in DOMAIN objs : ValueOk(curr, objs[n])
  PROVE  GraphStep(prev, curr)
  <1> DEFINE f == prev[Catalog].form
  <1>1. /\ DOMAIN curr = DOMAIN objs \cup DOMAIN prev
        /\ \A n \in DOMAIN objs : curr[n] = objs[n]
        /\ \A n \in DOMAIN prev : n \notin DOMAIN objs => curr[n] = prev[n]
    BY DEF Overwrites
  <1>2. KindsKept(prev, curr)
    BY <1>1 DEF KindsKept, PlainEdit
  <1>3. PlacesOk(prev) /\ FormOk(prev, f)
    BY PlaceFacts DEF WellFormed, CatalogOk
  <1>4. WellFormed(curr)
    <2>1. curr[Content] = Stream(curr[Content].data)
      BY <1>1, <1>3 DEF PlainEdit, PlacesOk
    <2>2. curr[TextField] = Field("Tx", curr[TextField].v)
      BY <1>1, <1>3 DEF PlainEdit, PlacesOk
    <2> QED BY <1>2, <2>1, <2>2, WellFormedStep
  <1>5. curr[Catalog].form = f
    BY <1>1, <1>3 DEF PlainEdit, PlacesOk
  <1>6. FormOf(curr) = FormOf(prev)
    <2>1. f.at = "ref" => f.id \in DOMAIN prev /\ prev[f.id].kind = "acroform"
      BY <1>3 DEF FormOk
    <2>2. f.at = "ref" => curr[f.id] = prev[f.id]
      BY <1>1, <2>1 DEF PlainEdit
    <2> HIDE DEF f
    <2>3. FormOf(prev) = IF f.at = "ref" THEN prev[f.id] ELSE IF f.at = "inline" THEN f.dict ELSE NoForm
      BY DEF FormOf, f
    <2>4. FormOf(curr) = IF f.at = "ref" THEN curr[f.id] ELSE IF f.at = "inline" THEN f.dict ELSE NoForm
      BY <1>5 DEF FormOf
    <2> QED BY <2>2, <2>3, <2>4
  <1>7. ASSUME NEW n \in DOMAIN prev, prev[n].kind = "field", prev[n].ft = "Sig"
        PROVE  curr[n] = prev[n]
    <2>1. prev[TextField].ft = "Tx"
      BY <1>3, MadeValues DEF PlacesOk
    <2> QED BY <1>1, <1>7, <2>1 DEF PlainEdit
  <1> QED BY <1>2, <1>4, <1>5, <1>6, <1>7 DEF GraphStep

\* A list entry with one more item, followed where it is a reference.
LEMMA ExtendFactsOf ==
  ASSUME NEW prev, NEW e, EntryOk(prev, e), \A n \in DOMAIN prev : ValueOk(prev, prev[n]), NEW item,
         NEW x, x = Extend(prev, e, item)
  PROVE  /\ \A curr : KindsKept(prev, curr) =>
              /\ EntryOk(curr, x[1])
              /\ \A n \in DOMAIN x[2] : ValueOk(curr, x[2][n])
         /\ \A n \in DOMAIN x[2] : /\ e.shape = "ref" /\ n = e.ref /\ n \in DOMAIN prev
                                   /\ prev[n].kind = "array" /\ x[2][n].kind = "array"
                                   /\ x[2][n] = ArrayObj(Append(prev[n].items, item))
         /\ IF e.shape = "ref" THEN x[1] = e /\ DOMAIN x[2] = {e.ref}
            ELSE x[1] = Direct(Append(e.items, item)) /\ DOMAIN x[2] = {}
  <1>1. \A st, s : IsList(s) => EntryOk(st, Direct(s))
    BY DEF EntryOk, Direct, Absent
  <1>2. CASE e.shape = "ref"
    <2> DEFINE s == prev[e.ref].items
               l == Append(s, item)
               y == Obj(e.ref, ArrayObj(l))
    <2>1. e.ref \in DOMAIN prev /\ prev[e.ref].kind = "array"
      BY <1>2 DEF EntryOk
    <2>2. IsList(s)
      BY <2>1 DEF ValueOk
    <2>3. IsList(l)
      BY <2>2, AppendList
    <2>4. x = <<e, y>>
      BY <1>2 DEF Extend
    <2>5. DOMAIN y = {e.ref} /\ y[e.ref] = ArrayObj(l)
      BY Single
    <2>6. ArrayObj(l).kind = "array" /\ \A st : ValueOk(st, ArrayObj(l))
      <3> HIDE DEF l
      <3>1. \A st : EntryOk(st, Direct(l))
        BY <1>1, <2>3
      <3> DEFINE d == Direct(l)
      <3> HIDE DEF d
      <3>2. ASSUME NEW st PROVE ArrayObj(l).kind = "array" /\ ValueOk(st, ArrayObj(l))
        BY <2>3, <3>1, MadeDictionaries DEF d
      <3> QED BY <3>2
    <2> HIDE DEF y
    <2>7. x[1] = e /\ x[2] = y
      BY <2>4
    <2>8. \A curr : KindsKept(prev, curr) => EntryOk(curr, e)
      BY DEF KindsKept, EntryOk
    <2> QED BY <1>2, <2>1, <2>5, <2>6, <2>7, <2>8
  <1>3. CASE e.shape # "ref"
    <2> DEFINE l == Append(e.items, item)
               d == Direct(l)
    <2>1. IsList(l)
      BY AppendList DEF EntryOk
    <2>2. x = <<d, <<>>>>
      BY <1>3 DEF Extend
    <2>3. \A st : EntryOk(st, d)
      BY <1>1, <2>1
    <2> HIDE DEF d
    <2>4. x[1] = d /\ x[2] = <<>> /\ DOMAIN x[2] = {}
      BY <2>2
    <2> QED BY <1>3, <2>3, <2>4 DEF d
  <1> QED BY <1>2, <1>3

\* A page with other annotations.
LEMMA PageWith ==
  ASSUME NEW pg, pg = Page(pg.annots, pg.content, FALSE), NEW x
  PROVE  [pg EXCEPT !.annots = x] = Page(x, pg.content, FALSE)
  <1> DEFINE no == FALSE
             as == pg.annots
             ct == pg.content
  <1>1. pg = [kind |-> "page", annots |-> as, content |-> ct, null |-> no]
    BY DEF Page
  <1> HIDE DEF no, as, ct
  <1>2. [pg EXCEPT !.annots = x] = [kind |-> "page", annots |-> x, content |-> ct, null |-> no]
    BY <1>1
  <1> QED BY <1>2 DEF Page, no, ct

\* A catalog with another language, and one with a DSS.
WithLang(c)      == [c EXCEPT !.lang = @ + 1]
WithDss(c, d, e) == [c EXCEPT !.dss = d, !.ext = e]

\* Both are what their entries say.
LEMMA CatalogEntries ==
  ASSUME NEW st, NEW c, CatalogOk(st, c), c.kind = "catalog", NEW d, NEW e
  PROVE  /\ WithLang(c) = [kind |-> "catalog", form |-> c.form, perms |-> c.perms, dss |-> c.dss,
                           ext |-> c.ext, lang |-> c.lang + 1, null |-> c.null]
         /\ WithDss(c, d, e) = [kind |-> "catalog", form |-> c.form, perms |-> c.perms, dss |-> d,
                                ext |-> e, lang |-> c.lang, null |-> c.null]
  <1> DEFINE f == c.form
             p == c.perms
             s == c.dss
             x == c.ext
             l == c.lang
             n == c.null
  <1>1. c = [kind |-> "catalog", form |-> f, perms |-> p, dss |-> s, ext |-> x, lang |-> l, null |-> n]
    BY DEF CatalogOk
  <1> HIDE DEF f, p, s, x, l, n
  <1>2. WithLang(c) = [kind |-> "catalog", form |-> f, perms |-> p, dss |-> s, ext |-> x,
                       lang |-> l + 1, null |-> n]
    BY <1>1 DEF WithLang
  <1>3. WithDss(c, d, e) = [kind |-> "catalog", form |-> f, perms |-> p, dss |-> d, ext |-> e,
                            lang |-> l, null |-> n]
    <2> DEFINE c1 == [c EXCEPT !.dss = d]
    <2>1. c1 = [kind |-> "catalog", form |-> f, perms |-> p, dss |-> d, ext |-> x,
                lang |-> l, null |-> n]
      BY <1>1
    <2>2. WithDss(c, d, e) = [c1 EXCEPT !.ext = e]
      BY DEF WithDss
    <2> HIDE DEF c1
    <2> QED BY <2>1, <2>2
  <1> QED BY <1>2, <1>3 DEF f, p, s, x, l, n

\* A catalog with another language is one.
LEMMA LangFacts ==
  ASSUME NEW st, NEW c, CatalogOk(st, c), c.kind = "catalog"
  PROVE  /\ WithLang(c).kind = "catalog" /\ WithLang(c).form = c.form
         /\ WithLang(c).perms = c.perms
         /\ WithLang(c).lang = c.lang + 1 /\ CatalogOk(st, WithLang(c))
  <1> DEFINE v == WithLang(c)
  <1>1. v = [kind |-> "catalog", form |-> c.form, perms |-> c.perms, dss |-> c.dss,
             ext |-> c.ext, lang |-> c.lang + 1, null |-> c.null]
    BY CatalogEntries
  <1>2. c.lang + 1 \in Nat \ {0}
    BY DEF CatalogOk
  <1> HIDE DEF v
  <1> DEFINE n == c.null
  <1>3. v = [kind |-> "catalog", form |-> c.form, perms |-> c.perms, dss |-> c.dss,
             ext |-> c.ext, lang |-> c.lang + 1, null |-> n]
    BY <1>1
  <1> HIDE DEF n
  <1>4. CatalogOk(st, v)
    BY <1>2, <1>3 DEF CatalogOk
  <1> QED BY <1>3, <1>4 DEF v

\* A catalog with a DSS is one where the DSS is.
LEMMA WithDssFacts ==
  ASSUME NEW st, NEW c, CatalogOk(st, c), c.kind = "catalog", NEW d, NEW e
  PROVE  /\ WithDss(c, d, e).kind = "catalog" /\ WithDss(c, d, e).form = c.form
         /\ WithDss(c, d, e).perms = c.perms
         /\ \A st2 : (KindsKept(st, st2) /\ d \in DOMAIN st2 /\ st2[d].kind = "dss")
                       => CatalogOk(st2, WithDss(c, d, e))
  <1> DEFINE v == WithDss(c, d, e)
             n == c.null
  <1>1. v = [kind |-> "catalog", form |-> c.form, perms |-> c.perms, dss |-> d,
             ext |-> e, lang |-> c.lang, null |-> n]
    BY CatalogEntries
  <1> HIDE DEF v, n
  <1>2. ASSUME NEW st2, KindsKept(st, st2), d \in DOMAIN st2, st2[d].kind = "dss"
        PROVE  CatalogOk(st2, v)
    <2>1. \A y : EntryOk(st, y) => EntryOk(st2, y)
      BY <1>2 DEF KindsKept, EntryOk
    <2>2. FormOk(st, c.form) /\ c.lang \in Nat \ {0}
      BY DEF CatalogOk
    <2>3. FormOk(st2, c.form)
      BY <1>2, <2>1, <2>2 DEF KindsKept, FormOk
    <2> QED BY <1>1, <1>2, <2>2, <2>3 DEF CatalogOk
  <1> QED BY <1>1, <1>2 DEF v

\* an update in order, with numbers up to b
EditOk(prev, objs, b) ==
  /\ PlainEdit(prev, objs) /\ DOMAIN objs \subseteq 1 .. b
  /\ \A curr : (KindsKept(prev, curr) /\ Overwrites(prev, objs, curr))
                 => \A n \in DOMAIN objs : ValueOk(curr, objs[n])

\* One object written over.
LEMMA SingleEdit ==
  ASSUME NEW prev, NEW b, NEW n \in DOMAIN prev, n \in 1 .. b, NEW v,
         v.kind = prev[n].kind, v.kind # "acroform", v.kind = "field" => n = TextField,
         n = Content => v = Stream(v.data), n = TextField => v = Field("Tx", v.v),
         n = Catalog => v.form = prev[Catalog].form /\ v.perms = prev[Catalog].perms,
         \A curr : KindsKept(prev, curr) => ValueOk(curr, v)
  PROVE  EditOk(prev, Obj(n, v), b)
  <1> DEFINE objs == Obj(n, v)
  <1>1. DOMAIN objs = {n} /\ objs[n] = v
    BY Single
  <1> HIDE DEF objs
  <1>2. EditOk(prev, objs, b)
    BY <1>1 DEF EditOk, PlainEdit
  <1> QED BY <1>2 DEF objs

\* A new annotation on a page.
LEMMA AnnotateEdit ==
  ASSUME NEW prev, WellFormed(prev), NEW next \in Nat, \A n \in DOMAIN prev : n \in Nat \ {0} /\ n < next,
         NEW hidden, NEW page \in ToSet(PageIds), NEW objs,
         objs = LET as == Extend(prev, prev[page].annots, next)
                IN  Obj(next, Annotation(hidden)) ++ Obj(page, [prev[page] EXCEPT !.annots = as[1]])
                      ++ as[2]
  PROVE  EditOk(prev, objs, next + 1)
  <1> DEFINE e  == prev[page].annots
             as == Extend(prev, e, next)
             an == Annotation(hidden)
             pg == [prev[page] EXCEPT !.annots = as[1]]
             o1 == Obj(next, an)
             o2 == Obj(page, pg)
             o3 == as[2]
  <1>1. /\ page \in DOMAIN prev /\ prev[page].kind = "page" /\ page \notin {Catalog, Content, TextField}
        /\ prev[page] = Page(e, prev[page].content, FALSE) /\ EntryOk(prev, e)
        /\ prev[Content].kind = "stream" /\ prev[TextField].kind = "field" /\ prev[Catalog].kind = "catalog"
    BY PlaceFacts DEF WellFormed, PlacesOk
  <1>2. \A n \in DOMAIN prev : ValueOk(prev, prev[n])
    BY DEF WellFormed
  <1>3. /\ \A curr : KindsKept(prev, curr) =>
              /\ EntryOk(curr, as[1])
              /\ \A n \in DOMAIN o3 : ValueOk(curr, o3[n])
        /\ \A n \in DOMAIN o3 : /\ n = e.ref /\ n \in DOMAIN prev
                                /\ prev[n].kind = "array" /\ o3[n].kind = "array"
    <2> HIDE DEF e, as
    <2> QED BY <1>1, <1>2, ExtendFactsOf DEF as
  <1>4. pg = Page(as[1], prev[page].content, FALSE)
    BY <1>1, PageWith
  <1>5. pg.kind = "page" /\ \A curr : KindsKept(prev, curr) => ValueOk(curr, pg)
    <2> DEFINE a == as[1]
    <2>1. <<>> \in Seq({})
      OBVIOUS
    <2>2. IsList(<<>>)
      BY <2>1 DEF IsList
    <2>3. \A curr : KindsKept(prev, curr) => EntryOk(curr, a)
      BY <1>3
    <2>4. Page(a, prev[page].content, FALSE).kind = "page"
      BY PageKind
    <2> HIDE DEF a
    <2>5. ASSUME NEW curr, KindsKept(prev, curr)
          PROVE  ValueOk(curr, Page(a, prev[page].content, FALSE))
      <3>1. EntryOk(curr, a)
        BY <2>3, <2>5
      <3> QED BY <2>2, <3>1, MadeDictionaries
    <2> HIDE DEF pg
    <2> DEFINE q == Page(a, prev[page].content, FALSE)
    <2>6. pg = q /\ q.kind = "page" /\ \A curr : KindsKept(prev, curr) => ValueOk(curr, q)
      BY <1>4, <2>4, <2>5 DEF a
    <2> HIDE DEF q
    <2> QED BY <2>6
  <1>6. an.kind = "annot" /\ \A curr : ValueOk(curr, an)
    <2>1. an.kind = "annot"
      <3> DEFINE h == hidden
      <3> HIDE DEF h
      <3> QED BY DEF Annotation
    <2> HIDE DEF an
    <2> QED BY <2>1, ValueCases
  <1>7. DOMAIN o1 = {next} /\ o1[next] = an /\ DOMAIN o2 = {page} /\ o2[page] = pg
    BY Single
  <1>8. objs = o1 ++ o2 ++ o3
    OBVIOUS
  <1> HIDE DEF o1, o2, o3, pg, an
  <1>9. next \notin DOMAIN prev /\ next # page
    BY <1>1
  <1>10. page \notin DOMAIN o3
    BY <1>1, <1>3
  <1>11. /\ DOMAIN (o1 ++ o2) = {next, page}
         /\ (o1 ++ o2)[next] = an /\ (o1 ++ o2)[page] = pg
    BY <1>7, <1>9 DEF ++
  <1> DEFINE o4 == o1 ++ o2
  <1> HIDE DEF o4
  <1>12. /\ DOMAIN objs = {next, page} \cup DOMAIN o3 /\ objs[next] = an /\ objs[page] = pg
         /\ \A n \in DOMAIN o3 : objs[n] = o3[n]
    <2>1. \A n \in DOMAIN o3 : n \notin {next, page}
      BY <1>3, <1>9, <1>10
    <2>2. objs = o4 ++ o3 /\ DOMAIN o4 = {next, page} /\ o4[next] = an /\ o4[page] = pg
      BY <1>8, <1>11 DEF o4
    <2> QED BY <2>1, <2>2 DEF ++
  <1> HIDE DEF e
  <1>13. PlainEdit(prev, objs)
    <2>1. Content # next /\ TextField # next /\ Catalog # next
      <3>1. Content \in DOMAIN prev /\ TextField \in DOMAIN prev /\ Catalog \in DOMAIN prev
        BY DEF WellFormed, PlacesOk
      <3> QED BY <1>9, <3>1
    <2>2. Content \notin DOMAIN o3 /\ TextField \notin DOMAIN o3 /\ Catalog \notin DOMAIN o3
      BY <1>1, <1>3
    <2>3. Content \notin DOMAIN objs /\ TextField \notin DOMAIN objs /\ Catalog \notin DOMAIN objs
      BY <1>1, <1>12, <2>1, <2>2
    <2>4. \A n \in DOMAIN objs \cap DOMAIN prev : n = page \/ n \in DOMAIN o3
      BY <1>9, <1>12
    <2>5. \A n \in DOMAIN objs \cap DOMAIN prev :
             objs[n].kind = prev[n].kind /\ prev[n].kind \in {"page", "array"}
      BY <1>1, <1>3, <1>5, <1>12, <2>4
    <2> QED BY <2>3, <2>5 DEF PlainEdit
  <1>14. DOMAIN objs \subseteq 1 .. next + 1
    <2>1. \A n \in DOMAIN objs : n = next \/ n \in DOMAIN prev
      BY <1>1, <1>3, <1>12
    <2>2. next # 0
      BY <1>1
    <2> QED BY <2>1, <2>2
  <1>15. ASSUME NEW curr, KindsKept(prev, curr), NEW n \in DOMAIN objs
         PROVE  ValueOk(curr, objs[n])
    BY <1>3, <1>5, <1>6, <1>12, <1>15 
  <1> QED BY <1>13, <1>14, <1>15 DEF EditOk

\* A DSS, or another stream in it.
LEMMA DssEdit ==
  ASSUME NEW prev, WellFormed(prev), NEW next \in Nat, \A n \in DOMAIN prev : n \in Nat \ {0} /\ n < next
  PROVE  /\ \A ext : EditOk(prev, AddDss(prev, next, ext), next + 1)
         /\ prev[Catalog].dss # 0 => EditOk(prev, GrowDss(prev, next), next + 1)
  <1> DEFINE c == prev[Catalog]
  <1>1. /\ CatalogOk(prev, c) /\ c.kind = "catalog"
        /\ prev[Content].kind = "stream" /\ prev[TextField].kind = "field"
        /\ Catalog \in DOMAIN prev /\ Content \in DOMAIN prev /\ TextField \in DOMAIN prev
        /\ \A n \in DOMAIN prev : ValueOk(prev, prev[n])
    BY PlaceFacts DEF WellFormed, PlacesOk
  <1>2. /\ next \notin DOMAIN prev /\ next + 1 \notin DOMAIN prev /\ next # next + 1 /\ next # 0
        /\ \A n \in DOMAIN prev : n \in 1 .. next + 1
    BY <1>1
  <1>3. \A x : Dss(x).kind = "dss" /\ Dss(x).refs = x
    BY DEF Dss
  <1> HIDE DEF c
  <1>4. ASSUME NEW ext
        PROVE  EditOk(prev, AddDss(prev, next, ext), next + 1)
    <2> DEFINE y  == IF ext THEN 1 ELSE c.ext
               c2 == [c EXCEPT !.dss = next, !.ext = y]
               d  == Dss({next + 1})
               s  == Stream(next + 1)
               o1 == Obj(next, d)
               o2 == Obj(next + 1, s)
               o3 == Obj(Catalog, c2)
               objs == AddDss(prev, next, ext)
    <2>1. objs = o1 ++ o2 ++ o3
      BY DEF AddDss, c
    <2>2. /\ c2.kind = "catalog" /\ c2.form = c.form /\ c2.perms = c.perms
          /\ \A curr : (KindsKept(prev, curr) /\ next \in DOMAIN curr /\ curr[next].kind = "dss")
                         => CatalogOk(curr, c2)
      <3> HIDE DEF y
      <3>1. c2 = WithDss(c, next, y)
        BY DEF WithDss
      <3> HIDE DEF c2
      <3> QED BY <1>1, <3>1, WithDssFacts
    <2>3. d.kind = "dss" /\ d.refs = {next + 1} /\ d = Dss(d.refs) /\ s.kind = "stream"
      BY <1>3, MadeValues
    <2>4. DOMAIN o1 = {next} /\ o1[next] = d /\ DOMAIN o2 = {next + 1} /\ o2[next + 1] = s
          /\ DOMAIN o3 = {Catalog} /\ o3[Catalog] = c2
      BY Single
    <2> HIDE DEF c2, d, s, o1, o2, o3, objs
    <2>5. DOMAIN (o1 ++ o2) = {next, next + 1} /\ (o1 ++ o2)[next] = d /\ (o1 ++ o2)[next + 1] = s
      BY <1>2, <2>4 DEF ++
    <2> DEFINE o4 == o1 ++ o2
    <2>6. objs = o4 ++ o3 /\ DOMAIN o4 = {next, next + 1} /\ o4[next] = d /\ o4[next + 1] = s
      BY <2>1, <2>5
    <2> HIDE DEF o4
    <2>7. /\ DOMAIN objs = {next, next + 1, Catalog} /\ objs[next] = d /\ objs[next + 1] = s
          /\ objs[Catalog] = c2
      BY <1>1, <1>2, <2>4, <2>6 DEF ++
    <2>8. PlainEdit(prev, objs)
      <3>1. Content # Catalog /\ TextField # Catalog
        BY <1>1, PlaceFacts
      <3>2. Content \notin DOMAIN objs /\ TextField \notin DOMAIN objs
        BY <1>1, <1>2, <2>7, <3>1
      <3>3. \A n \in DOMAIN objs \cap DOMAIN prev : n = Catalog
        BY <1>2, <2>7
      <3> QED BY <1>1, <2>2, <2>7, <3>2, <3>3 DEF PlainEdit, c
    <2>9. DOMAIN objs \subseteq 1 .. next + 1
      BY <1>1, <1>2, <2>7
    <2>10. ASSUME NEW curr, KindsKept(prev, curr), Overwrites(prev, objs, curr), NEW n \in DOMAIN objs
           PROVE  ValueOk(curr, objs[n])
      <3>1. /\ next \in DOMAIN curr /\ curr[next] = d /\ next + 1 \in DOMAIN curr /\ curr[next + 1] = s
        BY <2>7, <2>10 DEF Overwrites
      <3>2. CASE n = Catalog
        <4>1. CatalogOk(curr, c2)
          BY <2>2, <2>3, <2>10, <3>1
        <4> QED BY <2>2, <2>7, <3>2, <4>1, ValueCases
      <3>3. CASE n = next
        <4>1. next + 1 # Content
          BY <1>1, <1>2
        <4> QED BY <2>3, <2>7, <3>1, <3>3, <4>1 DEF ValueOk
      <3>4. CASE n = next + 1
        BY <2>3, <2>7, <3>4, ValueCases
      <3> QED BY <2>7, <3>2, <3>3, <3>4
    <2>11. EditOk(prev, objs, next + 1)
      BY <2>8, <2>9, <2>10 DEF EditOk
    <2> QED BY <2>11 DEF objs
  <1>5. ASSUME c.dss # 0
        PROVE  EditOk(prev, GrowDss(prev, next), next + 1)
    <2> DEFINE k  == c.dss
               r  == prev[k].refs
               d  == Dss(r \cup {next})
               s  == Stream(next)
               o1 == Obj(k, d)
               o2 == Obj(next, s)
               objs == GrowDss(prev, next)
    <2>1. objs = o1 ++ o2
      BY DEF GrowDss, c
    <2>2. k \in DOMAIN prev /\ prev[k].kind = "dss"
      BY <1>1, <1>5 DEF CatalogOk
    <2>3. \A n \in r : n # Content /\ n \in DOMAIN prev /\ prev[n].kind = "stream"
      <3> HIDE DEF k
      <3> QED BY <1>1, <2>2 DEF ValueOk
    <2>4. d.kind = "dss" /\ d.refs = r \cup {next} /\ d = Dss(d.refs) /\ s.kind = "stream"
      BY <1>3, MadeValues
    <2>5. DOMAIN o1 = {k} /\ o1[k] = d /\ DOMAIN o2 = {next} /\ o2[next] = s
      BY Single
    <2> HIDE DEF d, s, o1, o2, objs, k, r
    <2>6. DOMAIN objs = {k, next} /\ objs[k] = d /\ objs[next] = s
      BY <1>2, <2>1, <2>2, <2>5 DEF ++
    <2>7. PlainEdit(prev, objs)
      <3>1. Content \notin DOMAIN objs /\ TextField \notin DOMAIN objs /\ Catalog \notin DOMAIN objs
        BY <1>1, <1>2, <2>2, <2>6 DEF c
      <3>2. \A n \in DOMAIN objs \cap DOMAIN prev : n = k
        BY <1>2, <2>6
      <3> QED BY <2>2, <2>4, <2>6, <3>1, <3>2 DEF PlainEdit
    <2>8. DOMAIN objs \subseteq 1 .. next + 1
      BY <1>2, <2>2, <2>6
    <2>9. ASSUME NEW curr, KindsKept(prev, curr), Overwrites(prev, objs, curr), NEW n \in DOMAIN objs
          PROVE  ValueOk(curr, objs[n])
      <3>1. next \in DOMAIN curr /\ curr[next] = s
        BY <2>6, <2>9 DEF Overwrites
      <3>2. CASE n = k
        <4>1. next # Content
          BY <1>1, <1>2
        <4>2. \A m \in d.refs : m # Content /\ m \in DOMAIN curr /\ curr[m].kind = "stream"
          BY <2>3, <2>4, <2>9, <3>1, <4>1 DEF KindsKept
        <4> QED BY <2>4, <2>6, <3>2, <4>2 DEF ValueOk
      <3>3. CASE n = next
        BY <2>4, <2>6, <3>3, ValueCases
      <3> QED BY <2>6, <3>2, <3>3
    <2>10. EditOk(prev, objs, next + 1)
      BY <2>7, <2>8, <2>9 DEF EditOk
    <2> QED BY <2>10 DEF objs
  <1> QED BY <1>4, <1>5 DEF c

\* The updates of OtherPrograms are in order.
LEMMA EditsAreOk ==
  ASSUME NEW prev, WellFormed(prev), NEW next \in Nat, \A n \in DOMAIN prev : n \in Nat \ {0} /\ n < next,
         NEW objs \in SafeEdits(prev, next) \cup UnsafeEdits(prev, next)
  PROVE  EditOk(prev, objs, next + 1)
  <1> DEFINE first == PageIds[1]
             last  == PageIds[Len(PageIds)]
             c     == prev[Catalog]
  <1>1. /\ CatalogOk(prev, c) /\ c.kind = "catalog"
        /\ prev[Content] = Stream(prev[Content].data) /\ prev[TextField] = Field("Tx", prev[TextField].v)
        /\ prev[Content].kind = "stream" /\ prev[TextField].kind = "field"
        /\ Catalog \in DOMAIN prev /\ Content \in DOMAIN prev /\ TextField \in DOMAIN prev
        /\ Catalog # Content /\ Catalog # TextField /\ Content # TextField
        /\ \A n \in DOMAIN prev : ValueOk(prev, prev[n])
    BY PlaceFacts DEF WellFormed, PlacesOk
  <1>2. first \in ToSet(PageIds) /\ last \in ToSet(PageIds)
    <2>1. 1 \in DOMAIN PageIds /\ Len(PageIds) \in DOMAIN PageIds
      BY DocumentAssumption, OtherProgramsAssumption
    <2> QED BY <2>1 DEF ToSet
  <1>3. first \in DOMAIN prev /\ prev[first].kind = "page" /\ first \notin {Catalog, Content, TextField}
    BY <1>2, PlaceFacts DEF WellFormed, PlacesOk
  <1>4. \A n \in DOMAIN prev : n \in 1 .. next + 1
    OBVIOUS
  <1>5. EditOk(prev, SavePage(prev), next + 1)
    <2>1. \A curr : KindsKept(prev, curr) => ValueOk(curr, prev[first])
      BY <1>1, <1>3, ValueOkKept
    <2> QED BY <1>3, <1>4, <2>1, SingleEdit DEF SavePage
  <1>12. EditOk(prev, ChangeMetadata(prev), next + 1)
    <2> DEFINE v == Stream(prev[Metadata].data + 1)
    <2>1. v = Stream(v.data) /\ v.kind = "stream"
      BY DEF Stream
    <2> HIDE DEF v
    <2>2. \A curr : ValueOk(curr, v)
      BY <2>1, ValueCases
    <2>3. Metadata \in DOMAIN prev /\ prev[Metadata].kind = "stream"
      BY DEF WellFormed, PlacesOk
    <2>4. Metadata # Catalog /\ Metadata # TextField
      BY <1>1, <2>3
    <2>5. EditOk(prev, Obj(Metadata, v), next + 1)
      BY <1>4, <2>1, <2>2, <2>3, <2>4, SingleEdit
    <2> QED BY <2>5 DEF ChangeMetadata, v
  <1>6. EditOk(prev, ChangeContent(prev), next + 1)
    <2> DEFINE v == Stream(prev[Content].data + 1)
    <2>1. v = Stream(v.data) /\ v.kind = "stream"
      BY DEF Stream
    <2> HIDE DEF v
    <2>2. \A curr : ValueOk(curr, v)
      BY <2>1, ValueCases
    <2>3. EditOk(prev, Obj(Content, v), next + 1)
      BY <1>1, <1>4, <2>1, <2>2, SingleEdit
    <2> QED BY <2>3 DEF ChangeContent, v
  <1>7. EditOk(prev, FillField(prev), next + 1)
    <2> DEFINE v == Field("Tx", prev[TextField].v + 1)
    <2>1. v = Field("Tx", v.v) /\ v.kind = "field" /\ \A curr : ValueOk(curr, v)
      BY MadeValues
    <2> HIDE DEF v
    <2>2. EditOk(prev, Obj(TextField, v), next + 1)
      BY <1>1, <1>4, <2>1, SingleEdit
    <2> QED BY <2>2 DEF FillField, v
  <1>8. EditOk(prev, ChangeLang(prev), next + 1)
    <2> DEFINE v == [c EXCEPT !.lang = @ + 1]
    <2>1. v.kind = "catalog" /\ v.form = c.form /\ v.perms = c.perms /\ CatalogOk(prev, v)
      <3>1. v = WithLang(c)
        BY DEF WithLang
      <3> HIDE DEF v, c
      <3> QED BY <1>1, <3>1, LangFacts
    <2> HIDE DEF v, c
    <2>2. ValueOk(prev, v)
      BY <2>1, ValueCases
    <2>3. \A curr : KindsKept(prev, curr) => ValueOk(curr, v)
      BY <2>2, ValueOkKept
    <2>4. EditOk(prev, Obj(Catalog, v), next + 1)
      BY <1>1, <1>4, <2>1, <2>3, SingleEdit DEF c
    <2> QED BY <2>4 DEF ChangeLang, v, c
  <1>9. \A hidden : EditOk(prev, AnnotatePage(prev, next, hidden), next + 1)
    <2> SUFFICES ASSUME NEW hidden PROVE EditOk(prev, AnnotatePage(prev, next, hidden), next + 1)
      OBVIOUS
    <2> DEFINE o == LET as == Extend(prev, prev[last].annots, next)
                    IN  Obj(next, Annotation(hidden)) ++ Obj(last, [prev[last] EXCEPT !.annots = as[1]])
                          ++ as[2]
    <2>1. EditOk(prev, o, next + 1)
      BY <1>2, AnnotateEdit
    <2> QED BY <2>1 DEF AnnotatePage
  <1>10. CASE objs \in SafeEdits(prev, next)
    <2>1. /\ \A ext : EditOk(prev, AddDss(prev, next, ext), next + 1)
          /\ c.dss # 0 => EditOk(prev, GrowDss(prev, next), next + 1)
      BY DssEdit
    <2> HIDE DEF c
    <2>2. \/ objs = SavePage(prev) \/ objs = ChangeMetadata(prev)
          \/ objs = AnnotatePage(prev, next, TRUE)
          \/ \E e \in BOOLEAN : objs = AddDss(prev, next, e)
          \/ c.dss # 0 /\ objs = GrowDss(prev, next)
      BY <1>10 DEF SafeEdits, c
    <2> DEFINE yes == TRUE
    <2>3. EditOk(prev, AnnotatePage(prev, next, yes), next + 1)
      BY <1>9
    <2> QED BY <1>5, <1>12, <2>1, <2>2, <2>3
  <1>11. CASE objs \in UnsafeEdits(prev, next)
    <2> DEFINE no == FALSE
    <2>1. EditOk(prev, AnnotatePage(prev, next, no), next + 1)
      BY <1>9
    <2> QED BY <1>6, <1>7, <1>8, <1>11, <2>1 DEF UnsafeEdits
  <1> QED BY <1>10, <1>11

\* Editing leaves such a file.
LEMMA EditInv ==
  ASSUME NEW doc, DocInv(doc), NEW rev \in EditorUpdates(doc)
  PROVE  DocInv(Append(doc, rev))
  <1> DEFINE st   == Store(doc)
             n    == Len(doc)
             next == MaxId(doc) + 1
             d    == Append(doc, rev)
  <1>1. /\ IsDocument(doc) /\ n \in 1 .. n /\ n \in Nat /\ doc[n].size \in Nat \ {0}
        /\ WellFormed(st)
    BY DocumentFacts, GraphsWellFormed DEF DocInv
  <1>2. next \in Nat /\ \A k \in DOMAIN st : k \in Nat \ {0} /\ k < next
    BY <1>1, MaxIdFacts
  <1>3. PICK objs \in SafeEdits(st, next) \cup UnsafeEdits(st, next) :
          rev = Update(doc, objs, <<"LF">>, NoSig)
    BY DEF EditorUpdates
  <1> HIDE DEF next, st
  <1>4. EditOk(st, objs, next + 1)
    BY <1>1, <1>2, EditsAreOk
  <1> DEFINE top  == MaxOf(DOMAIN objs)
             size == MaxOf({doc[n].size, top + 1})
  <1>5. rev = Revision(objs, size, doc[n].stream, <<"LF">>, NoSig)
    BY <1>3 DEF Update
  <1>6. DOMAIN objs \subseteq 1 .. next + 1 /\ next + 1 \in Nat
    BY <1>2, <1>4 DEF EditOk
  <1>7. top \in Nat
    <2>1. \A k \in DOMAIN objs : k \in Nat /\ k <= next + 1
      BY <1>6
    <2> QED BY <1>6, <2>1, MaxOfFacts
  <1> HIDE DEF top
  <1>8. size \in Nat \ {0}
    <2> DEFINE S == {doc[n].size, top + 1}
               b == doc[n].size + top + 1
    <2>1. b \in Nat /\ \A k \in S : k \in Nat /\ k <= b
      BY <1>1, <1>7
    <2>2. doc[n].size \in S
      OBVIOUS
    <2> HIDE DEF b, S
    <2>3. MaxOf(S) \in Nat /\ \A k \in S : k <= MaxOf(S)
      BY <2>1, MaxOfFacts
    <2> QED BY <1>1, <2>2, <2>3 DEF S
  <1> HIDE DEF size
  <1>9. /\ rev.objs = objs /\ rev.size = size /\ rev.tail = <<"LF">> /\ rev.sig = NoSig
        /\ IsRevision(rev) /\ ~IsOwn(rev)
    BY <1>5 DEF Revision, IsRevision, NoSig, NoCms, Cms, IsOwn
  <1>10. /\ Len(d) = n + 1 /\ (n + 1) - 1 = n /\ d[n + 1] = rev
         /\ At(d, n) = st /\ Overwrites(st, objs, At(d, n + 1))
    BY <1>1, <1>9, AppendGraphs DEF st
  <1>11. GraphStep(st, At(d, n + 1))
    <2> DEFINE curr == At(d, n + 1)
    <2>1. Overwrites(st, objs, curr)
      BY <1>10
    <2> HIDE DEF curr
    <2>2. PlainEdit(st, objs) /\ (KindsKept(st, curr) => \A k \in DOMAIN objs : ValueOk(curr, objs[k]))
      BY <1>4, <2>1 DEF EditOk
    <2> QED BY <1>1, <1>6, <2>1, <2>2, PlainGraph DEF curr
  <1>12. IsEdit(st, objs)
    BY <1>2 DEF IsEdit
  <1>13. StepOk(d, n + 1)
    <2> HIDE DEF d, n
    <2> QED BY <1>9, <1>10, <1>11, <1>12 DEF StepOk
  <1>14. rev.tail \in Seq({"CR", "LF"})
    BY <1>9
  <1> QED BY <1>8, <1>9, <1>13, <1>14, AppendInv

-----------------------------------------------------------------------------
(* Files of other producers. *)

\* A sequence of naturals has a bound.
LEMMA Bounded ==
  ASSUME NEW s \in Seq(Nat)
  PROVE  \E b \in Nat : \A x \in ToSet(s) : x <= b
  <1> DEFINE Upto(n, b) == \A i \in 1 .. Len(s) : i <= n => s[i] <= b
             S == {n \in Nat : \E b \in Nat : Upto(n, b)}
  <1>0. Len(s) \in Nat /\ \A i \in 1 .. Len(s) : s[i] \in Nat
    OBVIOUS
  <1>1. 0 \in S
    <2>1. Upto(0, 0)
      OBVIOUS
    <2> HIDE DEF Upto
    <2> QED BY <2>1
  <1>2. ASSUME NEW n \in Nat, n \in S
        PROVE  n + 1 \in S
    <2>1. PICK b \in Nat : Upto(n, b)
      BY <1>2
    <2> DEFINE c == IF n + 1 \in 1 .. Len(s) THEN b + s[n + 1] ELSE b
    <2>2. c \in Nat /\ b <= c /\ (n + 1 \in 1 .. Len(s) => s[n + 1] <= c)
      BY <1>0
    <2> HIDE DEF c
    <2>3. ASSUME NEW i \in 1 .. Len(s), i <= n + 1
          PROVE  s[i] <= c
      <3>1. CASE i = n + 1
        BY <2>2, <3>1
      <3>2. CASE i # n + 1
        <4>1. i <= n
          BY <2>3, <3>2
        <4>2. s[i] <= b
          BY <2>1, <4>1
        <4> QED BY <1>0, <2>2, <4>2
      <3> QED BY <3>1, <3>2
    <2>4. Upto(n + 1, c) /\ n + 1 \in Nat
      BY <2>3
    <2> HIDE DEF Upto
    <2> QED BY <2>2, <2>4
  <1>3. Nat \subseteq S
    <2> HIDE DEF S
    <2> QED BY <1>1, <1>2, SetInduction
  <1>4. PICK b \in Nat : Upto(Len(s), b)
    <2>1. Len(s) \in S
      BY <1>0, <1>3
    <2> HIDE DEF Upto
    <2> QED BY <2>1
  <1>5. \A i \in 1 .. Len(s) : s[i] <= b
    BY <1>0, <1>4
  <1>6. \A x \in ToSet(s) : x <= b
    BY <1>5 DEF ToSet
  <1> QED BY <1>6

\* A file of another producer, as the modules distinguish them, and such a file
\* signed by another program.
KnownBase(doc) ==
  \E form \in {"none", "inline", "ref", "other"}, fields \in {"array", "ref"},
     annots \in {"array", "ref", "absent"}, null \in BOOLEAN, stream \in BOOLEAN, slack \in Nat,
     tail \in Seq({"CR", "LF"}) :
    LET base == BaseDoc(form, fields, annots, null, stream, tail, slack)
    IN  \/ doc = base
        \/ form = "ref" /\ \E t \in Seq({"CR", "LF"}) : doc = ThirdPartySigned(base, t)

\* The entries of such a file and its objects.
FieldsEntry(fields) == IF fields = "array" THEN Direct(<<TextField>>) ELSE Indirect(FieldsArray)
AnnotsEntry(annots) ==
  IF annots = "array" THEN Direct(<<TextField>>)
  ELSE IF annots = "ref" THEN Indirect(AnnotsArray) ELSE Absent
FormEntry(form, f) ==
  IF form = "none" THEN FormNone
  ELSE IF form = "inline" THEN FormInline(AcroForm(f, 0))
  ELSE IF form = "ref" THEN FormRef(FormId) ELSE FormOther
BaseShape(objs, entry, f, a, null) ==
  /\ DOMAIN objs = {Catalog} \cup ToSet(PageIds) \cup (Content .. Metadata)
  /\ objs[Catalog] = [kind |-> "catalog", form |-> entry, perms |-> 0, dss |-> 0,
                      ext |-> 0, lang |-> 1, null |-> null]
  /\ \A p \in ToSet(PageIds) : objs[p] = Page(IF p = PageIds[1] THEN a ELSE Absent, Content, FALSE)
  /\ objs[Content] = Stream(0) /\ objs[TextField] = Field("Tx", 0)
  /\ objs[AnnotsArray] = ArrayObj(<<TextField>>) /\ objs[FieldsArray] = ArrayObj(<<TextField>>)
  /\ objs[FormId] = AcroForm(f, 0) /\ objs[Metadata] = Stream(0)
  /\ objs = [n \in DOMAIN objs |-> objs[n]]

\* BaseObjects makes those objects.
LEMMA BaseFacts ==
  ASSUME NEW form \in {"none", "inline", "ref", "other"}, NEW fields \in {"array", "ref"},
         NEW annots \in {"array", "ref", "absent"}, NEW null
  PROVE  BaseShape(BaseObjects(form, fields, annots, null), FormEntry(form, FieldsEntry(fields)),
                   FieldsEntry(fields), AnnotsEntry(annots), null)
  <1> DEFINE objs == BaseObjects(form, fields, annots, null)
             f == IF fields = "array" THEN Direct(<<TextField>>) ELSE Indirect(FieldsArray)
             a == IF annots = "array" THEN Direct(<<TextField>>)
                  ELSE IF annots = "ref" THEN Indirect(AnnotsArray) ELSE Absent
             entry == IF form = "none" THEN FormNone
                      ELSE IF form = "inline" THEN FormInline(AcroForm(f, 0))
                      ELSE IF form = "ref" THEN FormRef(FormId) ELSE FormOther
             cat == [CatalogObj(entry, null) EXCEPT !.lang = 1]
             page(p) == Page(IF p = PageIds[1] THEN a ELSE Absent, Content, FALSE)
             pages == [n \in ToSet(PageIds) |-> page(n)]
             af    == AcroForm(f, 0)
             list  == ArrayObj(<<TextField>>)
             o1 == Obj(Catalog, cat)
             o2 == o1 ++ pages
             o3 == o2 ++ Obj(Content, Stream(0))
             o4 == o3 ++ Obj(TextField, Field("Tx", 0))
             o5 == o4 ++ Obj(AnnotsArray, list)
             o6 == o5 ++ Obj(FieldsArray, list)
             o7 == o6 ++ Obj(FormId, af)
             o8 == o7 ++ Obj(Metadata, Stream(0))
  <1>1. objs = o8
    <2>1. f = CASE fields = "array" -> Direct(<<TextField>>) [] fields = "ref" -> Indirect(FieldsArray)
      OBVIOUS
    <2>2. a = CASE annots = "array" -> Direct(<<TextField>>) [] annots = "ref" -> Indirect(AnnotsArray)
                [] annots = "absent" -> Absent
      OBVIOUS
    <2>3. entry = CASE form = "none" -> FormNone [] form = "inline" -> FormInline(AcroForm(f, 0))
                    [] form = "ref" -> FormRef(FormId) [] form = "other" -> FormOther
      <3> HIDE DEF f
      <3> QED OBVIOUS
    <2> QED BY <2>1, <2>2, <2>3, Zenon DEF BaseObjects
  <1> HIDE DEF objs
  <1>2. cat = [kind |-> "catalog", form |-> entry, perms |-> 0, dss |-> 0, ext |-> 0, lang |-> 1,
               null |-> null]
    <2> HIDE DEF entry
    <2> QED BY DEF CatalogObj
  <1> HIDE DEF f, a, entry, cat, page, af, list
  <1>3. /\ Content = 4 /\ TextField = 5 /\ AnnotsArray = 6 /\ FieldsArray = 7 /\ FormId = 8 /\ Metadata = 9
        /\ \A n \in {Catalog} \cup ToSet(PageIds) : n \in Nat /\ n \notin 4 .. 9
        /\ Catalog \notin ToSet(PageIds)
    <2>1. Content = 4 /\ TextField = 5 /\ AnnotsArray = 6 /\ FieldsArray = 7 /\ FormId = 8 /\ Metadata = 9
      BY DEF Content, TextField, AnnotsArray, FieldsArray, FormId, Metadata
    <2>2. Catalog \notin ToSet(PageIds)
      BY DocumentAssumption DEF ToSet
    <2> QED BY <2>1, <2>2, OtherProgramsAssumption
  <1> DEFINE P == {Catalog} \cup ToSet(PageIds)
  <1>4. \A n \in {4, 5, 6, 7, 8, 9} : n \notin P
    BY <1>3
  <1>5. DOMAIN o2 = P /\ o2[Catalog] = cat /\ \A p \in ToSet(PageIds) : o2[p] = page(p)
    <2>1. DOMAIN o1 = {Catalog} /\ o1[Catalog] = cat
      BY Single
    <2>2. DOMAIN pages = ToSet(PageIds) /\ \A p \in ToSet(PageIds) : pages[p] = page(p)
      OBVIOUS
    <2> HIDE DEF o1, pages
    <2> QED BY <1>3, <2>1, <2>2 DEF ++
  <1> HIDE DEF P
  <1>6. DOMAIN o3 = P \cup {4} /\ (\A n \in P : o3[n] = o2[n]) /\ o3[4] = Stream(0)
    <2>1. o3 = o2 ++ Obj(4, Stream(0))
      BY <1>3
    <2>2. DOMAIN o2 = P /\ 4 \notin DOMAIN o2
      BY <1>4, <1>5
    <2> HIDE DEF o2, o3
    <2> QED BY <2>1, <2>2, Single DEF ++
  <1>7. DOMAIN o4 = P \cup {4, 5} /\ (\A n \in P \cup {4} : o4[n] = o3[n]) /\ o4[5] = Field("Tx", 0)
    <2> DEFINE o == Obj(TextField, Field("Tx", 0))
    <2>1. DOMAIN o = {5} /\ o[5] = Field("Tx", 0)
      BY <1>3, Single
    <2>2. o4 = o3 ++ o
      OBVIOUS
    <2>3. DOMAIN o3 = P \cup {4} /\ 5 \notin DOMAIN o3
      BY <1>4, <1>6
    <2> HIDE DEF o, o3, o4
    <2> QED BY <2>1, <2>2, <2>3 DEF ++
  <1>8. DOMAIN o5 = P \cup {4, 5, 6} /\ (\A n \in P \cup {4, 5} : o5[n] = o4[n]) /\ o5[6] = list
    <2> DEFINE o == Obj(AnnotsArray, list)
    <2>1. DOMAIN o = {6} /\ o[6] = list
      BY <1>3, Single
    <2>2. o5 = o4 ++ o
      OBVIOUS
    <2>3. DOMAIN o4 = P \cup {4, 5} /\ 6 \notin DOMAIN o4
      BY <1>4, <1>7
    <2> HIDE DEF o, o4, o5
    <2> QED BY <2>1, <2>2, <2>3 DEF ++
  <1>9. DOMAIN o6 = P \cup {4, 5, 6, 7} /\ (\A n \in P \cup {4, 5, 6} : o6[n] = o5[n]) /\ o6[7] = list
    <2> DEFINE o == Obj(FieldsArray, list)
    <2>1. DOMAIN o = {7} /\ o[7] = list
      BY <1>3, Single
    <2>2. o6 = o5 ++ o
      OBVIOUS
    <2>3. DOMAIN o5 = P \cup {4, 5, 6} /\ 7 \notin DOMAIN o5
      BY <1>4, <1>8
    <2> HIDE DEF o, o5, o6
    <2> QED BY <2>1, <2>2, <2>3 DEF ++
  <1>10. DOMAIN o7 = P \cup {4, 5, 6, 7, 8} /\ (\A n \in P \cup {4, 5, 6, 7} : o7[n] = o6[n]) /\ o7[8] = af
    <2> DEFINE o == Obj(FormId, af)
    <2>1. DOMAIN o = {8} /\ o[8] = af
      BY <1>3, Single
    <2>2. o7 = o6 ++ o
      OBVIOUS
    <2>3. DOMAIN o6 = P \cup {4, 5, 6, 7} /\ 8 \notin DOMAIN o6
      BY <1>4, <1>9
    <2> HIDE DEF o, o6, o7
    <2> QED BY <2>1, <2>2, <2>3 DEF ++
  <1>22. /\ DOMAIN o8 = P \cup {4, 5, 6, 7, 8, 9}
         /\ \A n \in P \cup {4, 5, 6, 7, 8} : o8[n] = o7[n]
         /\ o8[9] = Stream(0)
    <2> DEFINE o == Obj(Metadata, Stream(0))
    <2>1. DOMAIN o = {9} /\ o[9] = Stream(0)
      BY <1>3, Single
    <2>2. o8 = o7 ++ o
      OBVIOUS
    <2>3. DOMAIN o7 = P \cup {4, 5, 6, 7, 8} /\ 9 \notin DOMAIN o7
      BY <1>4, <1>10
    <2> HIDE DEF o, o7, o8
    <2> QED BY <2>1, <2>2, <2>3 DEF ++
  <1> HIDE DEF o2, o3, o4, o5, o6, o7, o8
  <1>11. DOMAIN objs = P \cup (Content .. Metadata)
    <2>1. 4 .. 9 = {4, 5, 6, 7, 8, 9}
      OBVIOUS
    <2> QED BY <1>1, <1>3, <1>22, <2>1
  <1>12. \A n \in P : objs[n] = o2[n]
    BY <1>1, <1>6, <1>7, <1>8, <1>9, <1>10, <1>22
  <1>13. /\ objs[Catalog] = cat /\ \A p \in ToSet(PageIds) : objs[p] = page(p)
    BY <1>5, <1>12 DEF P
  <1>14. objs[4] = Stream(0) /\ objs[5] = Field("Tx", 0) /\ objs[6] = list /\ objs[7] = list
         /\ objs[8] = af /\ objs[9] = Stream(0)
    BY <1>1, <1>6, <1>7, <1>8, <1>9, <1>10, <1>22
  <1>15. o8 = [n \in DOMAIN o8 |-> o8[n]]
    <2> DEFINE o == Obj(Metadata, Stream(0))
    <2>1. o8 = o7 ++ o
      BY DEF o8
    <2> HIDE DEF o
    <2> QED BY <2>1 DEF ++
  <1>16. f = FieldsEntry(fields) /\ a = AnnotsEntry(annots)
    BY DEF f, a, FieldsEntry, AnnotsEntry
  <1>17. entry = FormEntry(form, f)
    BY DEF entry, FormEntry
  <1>18. /\ objs[Content] = Stream(0) /\ objs[TextField] = Field("Tx", 0)
         /\ objs[AnnotsArray] = ArrayObj(<<TextField>>) /\ objs[FieldsArray] = ArrayObj(<<TextField>>)
         /\ objs[FormId] = AcroForm(f, 0) /\ objs[Metadata] = Stream(0)
    BY <1>3, <1>14 DEF af, list
  <1>19. \A p \in ToSet(PageIds) : objs[p] = Page(IF p = PageIds[1] THEN a ELSE Absent, Content, FALSE)
    BY <1>13 DEF page
  <1>20. DOMAIN objs = {Catalog} \cup ToSet(PageIds) \cup (Content .. Metadata)
    BY <1>11 DEF P
  <1>21. BaseShape(objs, entry, f, a, null)
    BY <1>1, <1>2, <1>13, <1>15, <1>18, <1>19, <1>20 DEF BaseShape
  <1> QED BY <1>16, <1>17, <1>21 DEF objs

\* Its object graph is well formed.
LEMMA BaseGraph ==
  ASSUME NEW form \in {"none", "inline", "ref", "other"}, NEW fields \in {"array", "ref"},
         NEW annots \in {"array", "ref", "absent"}, NEW null
  PROVE  WellFormed(BaseObjects(form, fields, annots, null))
  <1> DEFINE objs == BaseObjects(form, fields, annots, null)
             f == FieldsEntry(fields)
             a == AnnotsEntry(annots)
             af == AcroForm(f, 0)
             entry == FormEntry(form, f)
  <1>1. /\ DOMAIN objs = {Catalog} \cup ToSet(PageIds) \cup (Content .. Metadata)
        /\ objs[Catalog] = [kind |-> "catalog", form |-> entry, perms |-> 0, dss |-> 0,
                            ext |-> 0, lang |-> 1, null |-> null]
        /\ \A p \in ToSet(PageIds) :
             objs[p] = Page(IF p = PageIds[1] THEN a ELSE Absent, Content, FALSE)
        /\ objs[Content] = Stream(0) /\ objs[TextField] = Field("Tx", 0)
        /\ objs[AnnotsArray] = ArrayObj(<<TextField>>)
        /\ objs[FieldsArray] = ArrayObj(<<TextField>>)
        /\ objs[FormId] = af /\ objs[Metadata] = Stream(0)
    <2>1. BaseShape(objs, entry, f, a, null)
      BY BaseFacts
    <2> HIDE DEF objs, f, a, entry
    <2> QED BY <2>1 DEF BaseShape
  <1> HIDE DEF objs, af
  <1>2. Content = 4 /\ TextField = 5 /\ AnnotsArray = 6 /\ FieldsArray = 7 /\ FormId = 8 /\ Metadata = 9
    BY DEF Content, TextField, AnnotsArray, FieldsArray, FormId, Metadata
  <1>3. 4 .. 9 = {4, 5, 6, 7, 8, 9}
    OBVIOUS
  <1>4. IsList(<<>>) /\ IsList(<<TextField>>)
    <2>1. <<>> \in Seq({})
      OBVIOUS
    <2> QED BY <2>1, ShortLists DEF IsList
  <1>5. ArrayObj(<<TextField>>).kind = "array"
    BY DEF ArrayObj
  <1>6. EntryOk(objs, Absent) /\ EntryOk(objs, Direct(<<TextField>>))
    BY <1>4 DEF EntryOk, Absent, Direct
  <1>7. EntryOk(objs, Indirect(FieldsArray)) /\ EntryOk(objs, Indirect(AnnotsArray))
    <2>1. FieldsArray \in DOMAIN objs /\ objs[FieldsArray].kind = "array"
          /\ AnnotsArray \in DOMAIN objs /\ objs[AnnotsArray].kind = "array"
      BY <1>1, <1>2, <1>3, <1>5
    <2> QED BY <1>4, <2>1 DEF EntryOk, Indirect
  <1>8. EntryOk(objs, f) /\ EntryOk(objs, a)
    BY <1>6, <1>7 DEF FieldsEntry, AnnotsEntry
  <1> HIDE DEF f, a
  <1>9. af.kind = "acroform" /\ ValueOk(objs, af) /\ af = AcroForm(af.fields, af.flags)
        /\ af.fields = f
    <2>1. af.kind = "acroform" /\ ValueOk(objs, af)
      BY <1>4, <1>8, MadeDictionaries DEF af
    <2>2. af.fields = f
      BY DEF af, AcroForm
    <2> QED BY <2>1, <2>2 DEF ValueOk
  <1>10. FormOk(objs, entry)
    <2>1. FormId \in DOMAIN objs /\ objs[FormId].kind = "acroform"
      BY <1>1, <1>2, <1>3, <1>9
    <2>2. FormOk(objs, FormNone) /\ FormOk(objs, FormOther)
      BY DEF FormOk, FormNone, FormOther
    <2>3. FormOk(objs, FormRef(FormId))
      BY <2>1 DEF FormOk, FormRef
    <2>4. FormOk(objs, FormInline(af))
      BY <1>8, <1>9 DEF FormOk, FormInline
    <2> QED BY <2>2, <2>3, <2>4 DEF FormEntry, af
  <1> HIDE DEF entry
  <1>11. objs[Catalog].kind = "catalog" /\ ValueOk(objs, objs[Catalog])
    <2> DEFINE c == objs[Catalog]
    <2>1. c.kind = "catalog" /\ CatalogOk(objs, c)
      BY <1>1, <1>10 DEF CatalogOk
    <2> HIDE DEF c
    <2>2. ValueOk(objs, c)
      BY <2>1, ValueCases
    <2> QED BY <2>1, <2>2 DEF c
  <1>12. ASSUME NEW p \in ToSet(PageIds)
         PROVE  objs[p].kind = "page" /\ ValueOk(objs, objs[p])
    <2> DEFINE e == IF p = PageIds[1] THEN a ELSE Absent
    <2>1. EntryOk(objs, e)
      BY <1>6, <1>8
    <2>2. objs[p] = Page(e, Content, FALSE)
      BY <1>1
    <2> HIDE DEF e
    <2> QED BY <1>4, <2>1, <2>2, MadeDictionaries
  <1>13. PlacesOk(objs)
    <2>1. objs[Content] = Stream(objs[Content].data) /\ objs[TextField] = Field("Tx", objs[TextField].v)
      BY <1>1 DEF Stream, Field
    <2>2. Metadata \in DOMAIN objs /\ objs[Metadata].kind = "stream"
      BY <1>1, <1>2, <1>3 DEF Stream
    <2> QED BY <1>1, <1>2, <1>3, <1>11, <1>12, <2>1, <2>2 DEF PlacesOk
  <1>14. ASSUME NEW n \in DOMAIN objs
         PROVE  ValueOk(objs, objs[n])
    <2>1. ValueOk(objs, ArrayObj(<<TextField>>))
      <3> DEFINE e == Absent
      <3>1. EntryOk(objs, e)
        BY <1>6
      <3> HIDE DEF e
      <3> QED BY <1>4, <3>1, MadeDictionaries
    <2>2. ValueOk(objs, Stream(0)) /\ ValueOk(objs, Field("Tx", 0))
      BY MadeValues
    <2>3. n \in {Catalog} \cup ToSet(PageIds) \cup {Content, TextField, AnnotsArray, FieldsArray, FormId, Metadata}
      BY <1>1, <1>2, <1>3
    <2> QED BY <1>1, <1>9, <1>11, <1>12, <2>1, <2>2, <2>3
  <1>15. \E b \in Nat : DOMAIN objs \subseteq 1 .. b
    <2>1. PageIds \in Seq(Nat) /\ Catalog \in Nat \ {0} /\ \A p \in ToSet(PageIds) : p \in Nat \ {0}
      BY DocumentAssumption DEF ToSet
    <2>2. PICK b \in Nat : \A p \in ToSet(PageIds) : p <= b
      BY <2>1, Bounded
    <2>3. \A n \in DOMAIN objs : n \in 1 .. b + Catalog + 9
      BY <1>1, <1>2, <1>3, <2>1, <2>2
    <2>4. b + Catalog + 9 \in Nat
      BY <2>1, <2>2
    <2> QED BY <2>3, <2>4
  <1>16. WellFormed(objs)
    BY <1>13, <1>14, <1>15 DEF WellFormed
  <1> QED BY <1>16 DEF objs

\* Nothing in it is signed, and what its pages list exists.
LEMMA FreshGraph ==
  ASSUME NEW form \in {"none", "inline", "ref", "other"}, NEW fields \in {"array", "ref"},
         NEW annots \in {"array", "ref", "absent"}, NEW null
  PROVE  Fresh(BaseObjects(form, fields, annots, null))
  <1> DEFINE objs == BaseObjects(form, fields, annots, null)
             a == AnnotsEntry(annots)
             entry == FormEntry(form, FieldsEntry(fields))
  <1>1. BaseShape(objs, entry, FieldsEntry(fields), a, null)
    BY BaseFacts
  <1> HIDE DEF objs, entry
  <1>2. /\ objs[Content] = Stream(0) /\ objs[TextField] = Field("Tx", 0) /\ TextField \in DOMAIN objs
        /\ \A p \in ToSet(PageIds) : objs[p] = Page(IF p = PageIds[1] THEN a ELSE Absent, Content, FALSE)
    <2>1. DOMAIN objs = {Catalog} \cup ToSet(PageIds) \cup (Content .. Metadata)
      BY <1>1 DEF BaseShape
    <2>2. TextField \in Content .. Metadata
      BY DEF Content, TextField, Metadata
    <2> HIDE DEF a
    <2> QED BY <1>1, <2>1, <2>2 DEF BaseShape
  <1>3. objs[Catalog].perms = 0 /\ objs[Catalog].ext = 0
    BY <1>1 DEF BaseShape
  <1>4. Stream(0).data = 0 /\ Field("Tx", 0).v = 0
    BY DEF Stream, Field
  <1>5. ToSet(a.items) \subseteq {TextField} /\ ToSet(Absent.items) = {}
    <2>1. ToSet(<<TextField>>) = {TextField} /\ ToSet(<<>>) = {}
      BY DEF ToSet
    <2> QED BY <2>1 DEF AnnotsEntry, Direct, Indirect, Absent
  <1> HIDE DEF a
  <1>6. ASSUME NEW p \in ToSet(PageIds) PROVE ToSet(objs[p].annots.items) \subseteq DOMAIN objs
    <2> DEFINE x  == IF p = PageIds[1] THEN a ELSE Absent
               ct == Content
    <2>1. objs[p] = Page(x, ct, FALSE)
      BY <1>2
    <2>2. ToSet(x.items) \subseteq {TextField}
      BY <1>5
    <2> HIDE DEF x, ct
    <2>3. Page(x, ct, FALSE).annots = x
      BY PageKind
    <2> QED BY <1>2, <2>1, <2>2, <2>3
  <1>7. Fresh(objs)
    BY <1>2, <1>3, <1>4, <1>6 DEF Fresh
  <1> QED BY <1>7 DEF objs

\* Such a file is in order.
LEMMA BaseInv ==
  ASSUME NEW form \in {"none", "inline", "ref", "other"}, NEW fields \in {"array", "ref"},
         NEW annots \in {"array", "ref", "absent"}, NEW null, NEW stream,
         NEW tail \in Seq({"CR", "LF"}), NEW slack \in Nat
  PROVE  LET base == BaseDoc(form, fields, annots, null, stream, tail, slack)
         IN  /\ DocInv(base) /\ Len(base) = 1
             /\ Store(base) = BaseObjects(form, fields, annots, null)
  <1> DEFINE objs == BaseObjects(form, fields, annots, null)
             rev  == Revision(objs, Metadata + 1 + slack, stream, tail, NoSig)
             base == <<rev>>
  <1>1. WellFormed(objs)
    BY BaseGraph
  <1>9. Fresh(objs)
    BY FreshGraph
  <1>2. objs = [n \in DOMAIN objs |-> objs[n]]
    <2>1. BaseShape(objs, FormEntry(form, FieldsEntry(fields)), FieldsEntry(fields),
                    AnnotsEntry(annots), null)
      BY BaseFacts
    <2> HIDE DEF objs
    <2> QED BY <2>1 DEF BaseShape
  <1> HIDE DEF objs
  <1>3. /\ IsRevision(rev) /\ rev.objs = objs /\ rev.sig = NoSig /\ rev.tail = tail
        /\ rev.size \in Nat \ {0}
    BY DEF Revision, IsRevision, NoSig, NoCms, Cms, Metadata
  <1> HIDE DEF rev
  <1>4. base \in Seq({rev}) /\ Len(base) = 1 /\ base[1] = rev /\ base = [i \in 1 .. 1 |-> base[i]]
    OBVIOUS
  <1> HIDE DEF base
  <1>5. IsDocument(base)
    <2> DEFINE one == 1
    <2>1. one \in Nat /\ one >= 1 /\ base = [i \in 1 .. one |-> base[i]]
          /\ \A i \in 1 .. one : IsRevision(base[i])
      BY <1>3, <1>4
    <2> HIDE DEF one
    <2> QED BY <2>1, DocumentByRevisions
  <1>6. Store(base) = objs
    <2>1. Written(base) = DOMAIN objs
      <3>1. DOMAIN base = {1}
        BY <1>4
      <3> QED BY <1>3, <1>4, <3>1 DEF Written
    <2>2. ASSUME NEW n \in DOMAIN objs PROVE Store(base)[n] = objs[n]
      <3>1. 1 \in 1 .. Len(base) /\ n \in DOMAIN base[1].objs
            /\ \A j \in 1 .. Len(base) : n \in DOMAIN base[j].objs => j <= 1
        BY <1>3, <1>4
      <3> QED BY <1>3, <1>4, <1>5, <3>1, StoreValue
    <2>3. Store(base) = [n \in DOMAIN objs |-> Store(base)[n]]
      BY <2>1 DEF Store
    <2> QED BY <1>2, <2>2, <2>3
  <1>7. At(base, 1) = objs
    BY <1>4, <1>5, <1>6, AtFacts
  <1>8. DocInv(base)
    <2>1. \A i \in 1 .. Len(base) : i = 1
      BY <1>4
    <2>2. \A i \in 2 .. Len(base) : FALSE
      BY <1>4
    <2> QED BY <1>1, <1>3, <1>4, <1>5, <1>7, <1>9, <2>1, <2>2 DEF DocInv
  <1> QED BY <1>4, <1>6, <1>8 DEF BaseDoc, base, rev, objs

\* The objects that another program's signature writes.
ThirdPartyObjects(st, dict, field, form, page, fs, ns) ==
  Obj(dict, SigDict("thirdParty")) ++ Obj(field, Field("Sig", dict))
    ++ Obj(form, AcroForm(fs[1], SigFlags)) ++ fs[2]
    ++ Obj(page, [st[page] EXCEPT !.annots = ns[1]]) ++ ns[2]

\* curr is the graph st, of a file that was never signed, with the objects of
\* another application's signature written over it
ThirdPartyStep(st, form, page, fs, ns, dict, field, objs, curr) ==
  /\ WellFormed(st) /\ st[Catalog].form = FormRef(form)
  /\ \A n \in DOMAIN st : st[n].kind = "field" => n = TextField
  /\ page \in ToSet(PageIds)
  /\ \A p \in ToSet(PageIds) : p # page => st[p].annots = Absent
  /\ dict \in Nat /\ field = dict + 1
  /\ \A n \in DOMAIN st : n \in Nat \ {0} /\ n < dict
  /\ fs = Extend(st, st[form].fields, field) /\ ns = Extend(st, st[page].annots, field)
  /\ (st[page].annots.shape = "ref" /\ st[form].fields.shape = "ref")
       => st[page].annots.ref # st[form].fields.ref
  /\ objs = ThirdPartyObjects(st, dict, field, form, page, fs, ns)
  /\ Overwrites(st, objs, curr)

\* They are a step of the graph that changes nothing a reader sees, when the
\* file's fields are in a form of their own.
LEMMA ThirdPartyGraph ==
  ASSUME NEW st, NEW form, NEW page, NEW fs, NEW ns, NEW dict, NEW field, NEW objs, NEW curr,
         ThirdPartyStep(st, form, page, fs, ns, dict, field, objs, curr)
  PROVE  /\ GraphStep(st, curr) /\ Quiet(st, curr)
         /\ st[Catalog].form.at = "ref" /\ curr[Catalog] = st[Catalog]
         /\ FormOf(st).fields.shape # "ref" => Listed(curr, dict)
         /\ OwnAnnots(st) => OwnAnnots(curr)
         /\ dict \in DOMAIN curr
         /\ \A n \in DOMAIN objs : n \in Nat \ {0} /\ n <= field
  <1> DEFINE f  == st[form].fields
             e  == st[page].annots
             af == AcroForm(fs[1], SigFlags)
             pg == Page(ns[1], st[page].content, FALSE)
             sd == SigDict("thirdParty")
             fd == Field("Sig", dict)
             o1 == Obj(dict, sd)
             o2 == o1 ++ Obj(field, fd)
             o3 == o2 ++ Obj(form, af)
             o4 == o3 ++ fs[2]
             o5 == o4 ++ Obj(page, pg)
  <1>0. /\ WellFormed(st) /\ st[Catalog].form = FormRef(form) /\ dict \in Nat /\ field = dict + 1
        /\ \A n \in DOMAIN st : st[n].kind = "field" => n = TextField
        /\ page \in ToSet(PageIds)
        /\ \A p \in ToSet(PageIds) : p # page => st[p].annots = Absent
        /\ \A n \in DOMAIN st : n \in Nat \ {0} /\ n < dict
        /\ fs = Extend(st, st[form].fields, field) /\ ns = Extend(st, st[page].annots, field)
        /\ (st[page].annots.shape = "ref" /\ st[form].fields.shape = "ref")
             => st[page].annots.ref # st[form].fields.ref
        /\ objs = ThirdPartyObjects(st, dict, field, form, page, fs, ns)
        /\ Overwrites(st, objs, curr)
    BY DEF ThirdPartyStep
  <1> USE <1>0
  <1>1. /\ CatalogOk(st, st[Catalog]) /\ st[Catalog].kind = "catalog"
        /\ st[Content].kind = "stream" /\ st[TextField].kind = "field"
        /\ Catalog # Content /\ Catalog # TextField /\ Content # TextField
        /\ \A p \in ToSet(PageIds) : /\ p \notin {Catalog, Content, TextField}
                                     /\ st[p] = Page(st[p].annots, st[p].content, FALSE)
                                     /\ EntryOk(st, st[p].annots)
    BY PlaceFacts
  <1>2. PlacesOk(st) /\ \A n \in DOMAIN st : ValueOk(st, st[n])
    BY DEF WellFormed
  <1>3. /\ Content \in DOMAIN st /\ TextField \in DOMAIN st /\ Catalog \in DOMAIN st
        /\ \A p \in ToSet(PageIds) : p \in DOMAIN st /\ st[p].kind = "page"
    BY <1>2 DEF PlacesOk
  <1>4. form \in DOMAIN st /\ st[form].kind = "acroform"
    <2>1. st[Catalog].form.at = "ref" /\ st[Catalog].form.id = form
      BY DEF FormRef
    <2> QED BY <1>1, <2>1 DEF CatalogOk, FormOk
  <1>5. st[form] = AcroForm(f, st[form].flags) /\ EntryOk(st, f)
    BY <1>2, <1>4 DEF ValueOk
  <1>6. EntryOk(st, e) /\ st[page] = Page(e, st[page].content, FALSE)
    BY <1>1
  <1>7. [st[page] EXCEPT !.annots = ns[1]] = pg
    BY <1>1, PageWith
  <1>8. fs = Extend(st, f, field) /\ ns = Extend(st, e, field)
    OBVIOUS
  <1>9. f.shape = "ref" /\ e.shape = "ref" => f.ref # e.ref
    OBVIOUS
  <1> HIDE DEF f, e
  <1>10. /\ \A c : KindsKept(st, c) => /\ EntryOk(c, fs[1])
                                       /\ \A n \in DOMAIN fs[2] : ValueOk(c, fs[2][n])
         /\ \A n \in DOMAIN fs[2] : /\ f.shape = "ref" /\ n = f.ref /\ n \in DOMAIN st
                                    /\ st[n].kind = "array" /\ fs[2][n].kind = "array"
                                    /\ fs[2][n] = ArrayObj(Append(st[n].items, field))
         /\ IF f.shape = "ref" THEN fs[1] = f /\ DOMAIN fs[2] = {f.ref}
            ELSE fs[1] = Direct(Append(f.items, field)) /\ DOMAIN fs[2] = {}
    BY <1>2, <1>5, <1>8, ExtendFactsOf
  <1>11. /\ \A c : KindsKept(st, c) => /\ EntryOk(c, ns[1])
                                       /\ \A n \in DOMAIN ns[2] : ValueOk(c, ns[2][n])
         /\ \A n \in DOMAIN ns[2] : /\ e.shape = "ref" /\ n = e.ref /\ n \in DOMAIN st
                                    /\ st[n].kind = "array" /\ ns[2][n].kind = "array"
                                    /\ ns[2][n] = ArrayObj(Append(st[n].items, field))
         /\ IF e.shape = "ref" THEN ns[1] = e /\ DOMAIN ns[2] = {e.ref}
            ELSE ns[1] = Direct(Append(e.items, field)) /\ DOMAIN ns[2] = {}
    <2>1. EntryOk(st, e) /\ ns = Extend(st, e, field) /\ \A n \in DOMAIN st : ValueOk(st, st[n])
      BY <1>2, <1>6, <1>8
    <2> QED BY ONLY <2>1, ExtendFactsOf
  <1>12. dict \notin DOMAIN st /\ field \notin DOMAIN st /\ dict # field /\ dict # 0
    <2>1. dict # 0
      BY <1>3
    <2> QED BY <2>1
  <1>13. objs = o5 ++ ns[2]
    <2> DEFINE w == [st[page] EXCEPT !.annots = ns[1]]
    <2>1. w = pg
      BY <1>7
    <2>2. ThirdPartyObjects(st, dict, field, form, page, fs, ns) = o4 ++ Obj(page, w) ++ ns[2]
      BY Zenon DEF ThirdPartyObjects
    <2> HIDE DEF w, o4, pg
    <2> QED BY <2>1, <2>2, Zenon
  <1>14. sd.kind = "sig" /\ fd.kind = "field" /\ (\A c : ValueOk(c, sd) /\ ValueOk(c, fd))
    <2> DEFINE who == "thirdParty"
               ft  == "Sig"
    <2> HIDE DEF who, ft
    <2>1. ASSUME NEW c
          PROVE  /\ SigDict(who).kind = "sig" /\ ValueOk(c, SigDict(who))
                 /\ Field(ft, dict).kind = "field" /\ ValueOk(c, Field(ft, dict))
      BY ONLY MadeValues
    <2> QED BY <2>1 DEF who, ft
  <1>15. /\ pg.kind = "page" /\ pg.annots = ns[1] /\ pg.content = st[page].content
         /\ af.kind = "acroform" /\ af.fields = fs[1]
    <2> DEFINE x == ns[1]
               ct == st[page].content
    <2>1. af.kind = "acroform" /\ af.fields = fs[1]
      BY DEF AcroForm
    <2> HIDE DEF x, ct
    <2>2. Page(x, ct, FALSE).kind = "page" /\ Page(x, ct, FALSE).annots = x
          /\ Page(x, ct, FALSE).content = ct
      BY PageKind
    <2> QED BY <2>1, <2>2 DEF x, ct
  <1>16. \A c : KindsKept(st, c) => ValueOk(c, af) /\ ValueOk(c, pg)
    <2> SUFFICES ASSUME NEW c, KindsKept(st, c) PROVE ValueOk(c, af) /\ ValueOk(c, pg)
      OBVIOUS
    <2>1. IsList(<<>>)
      <3>1. <<>> \in Seq({})
        OBVIOUS
      <3> QED BY <3>1 DEF IsList
    <2> DEFINE x == fs[1]
               y == ns[1]
    <2>2. EntryOk(c, x) /\ EntryOk(c, y)
      BY <1>10, <1>11
    <2> HIDE DEF x, y
    <2> QED BY <2>1, <2>2, MadeDictionaries DEF x, y
  <1> HIDE DEF sd, fd, af, pg
  <1>17. form # page /\ form \notin {dict, field} /\ page \notin {dict, field}
    BY <1>3, <1>4, <1>12
  <1>18. DOMAIN o1 = {dict} /\ o1[dict] = sd
    BY Single
  <1>19. DOMAIN o2 = {dict, field} /\ o2[dict] = sd /\ o2[field] = fd
    <2> HIDE DEF o1
    <2> DEFINE o == Obj(field, fd)
    <2>1. field \notin DOMAIN o1 /\ DOMAIN o = {field} /\ o[field] = fd
      BY <1>12, <1>18, Single
    <2>2. o2 = o1 ++ o
      OBVIOUS
    <2> HIDE DEF o, o2
    <2> QED BY <1>18, <2>1, <2>2 DEF ++
  <1>20. DOMAIN o3 = {dict, field, form} /\ o3[dict] = sd /\ o3[field] = fd /\ o3[form] = af
    <2> HIDE DEF o2
    <2> DEFINE o == Obj(form, af)
    <2>1. form \notin DOMAIN o2 /\ DOMAIN o = {form} /\ o[form] = af
      BY <1>17, <1>19, Single
    <2>2. o3 = o2 ++ o
      OBVIOUS
    <2> HIDE DEF o, o3
    <2> QED BY <1>19, <2>1, <2>2 DEF ++
  <1>21. \A n \in DOMAIN fs[2] \cup DOMAIN ns[2] : n \notin {dict, field, form, page, Catalog, Content, TextField}
    BY <1>1, <1>3, <1>4, <1>10, <1>11, <1>12
  <1>22. /\ DOMAIN o4 = {dict, field, form} \cup DOMAIN fs[2]
         /\ o4[dict] = sd /\ o4[field] = fd /\ o4[form] = af
         /\ \A n \in DOMAIN fs[2] : o4[n] = fs[2][n]
    <2> HIDE DEF o3
    <2> QED BY <1>20, <1>21 DEF ++
  <1>23. /\ DOMAIN o5 = {dict, field, form, page} \cup DOMAIN fs[2]
         /\ o5[dict] = sd /\ o5[field] = fd /\ o5[form] = af /\ o5[page] = pg
         /\ \A n \in DOMAIN fs[2] : o5[n] = fs[2][n]
    <2> HIDE DEF o4
    <2> DEFINE o == Obj(page, pg)
    <2>1. page \notin DOMAIN o4
      BY <1>17, <1>21, <1>22
    <2>0. DOMAIN o = {page} /\ o[page] = pg
      BY Single
    <2>2. o5 = o4 ++ o
      OBVIOUS
    <2> HIDE DEF o, o5
    <2> QED BY <1>17, <1>21, <1>22, <2>0, <2>1, <2>2 DEF ++
  <1>24. /\ DOMAIN objs = {dict, field, form, page} \cup DOMAIN fs[2] \cup DOMAIN ns[2]
         /\ objs[dict] = sd /\ objs[field] = fd /\ objs[form] = af /\ objs[page] = pg
         /\ \A n \in DOMAIN fs[2] : objs[n] = fs[2][n]
         /\ \A n \in DOMAIN ns[2] : objs[n] = ns[2][n]
    <2> HIDE DEF o5
    <2>1. \A n \in DOMAIN ns[2] : n \notin DOMAIN o5
      BY <1>9, <1>10, <1>11, <1>21, <1>23
    <2>2. objs = o5 ++ ns[2]
      BY <1>13
    <2> DEFINE g == ns[2]
    <2>3. \A n \in DOMAIN g : n \notin DOMAIN o5
      BY <2>1
    <2> HIDE DEF g
    <2>4. DOMAIN objs = DOMAIN o5 \cup DOMAIN g
      BY <2>2 DEF ++, g
    <2>5. \A n \in DOMAIN o5 : objs[n] = o5[n]
      BY <2>2 DEF ++
    <2>6. \A n \in DOMAIN g : objs[n] = g[n]
      BY <2>2, <2>3 DEF ++, g
    <2> QED BY <1>23, <2>4, <2>5, <2>6 DEF g
  <1> HIDE DEF o1, o2, o3, o4, o5
  <1>25. /\ DOMAIN curr = DOMAIN objs \cup DOMAIN st
         /\ \A n \in DOMAIN objs : curr[n] = objs[n]
         /\ \A n \in DOMAIN st : n \notin DOMAIN objs => curr[n] = st[n]
    BY DEF Overwrites
  <1>26. ASSUME NEW n \in DOMAIN st
         PROVE  curr[n].kind = st[n].kind
    BY <1>3, <1>4, <1>10, <1>11, <1>12, <1>15, <1>24, <1>25
  <1>27. KindsKept(st, curr)
    BY <1>25, <1>26 DEF KindsKept
  <1>28. Catalog \notin DOMAIN objs /\ Content \notin DOMAIN objs /\ TextField \notin DOMAIN objs
    BY <1>1, <1>3, <1>4, <1>12, <1>21, <1>24
  <1>29. curr[Catalog] = st[Catalog] /\ curr[Content] = st[Content] /\ curr[TextField] = st[TextField]
    BY <1>3, <1>25, <1>28
  <1>30. \A n \in DOMAIN objs : ValueOk(curr, objs[n])
    BY <1>10, <1>11, <1>14, <1>16, <1>24, <1>27
  <1>31. \A n \in DOMAIN objs : n \in Nat \ {0} /\ n <= field
    BY <1>3, <1>4, <1>10, <1>11, <1>12, <1>24
  <1>32. WellFormed(curr)
    <2>1. DOMAIN objs \subseteq 1 .. field /\ field \in Nat
      BY <1>31
    <2>2. st[Content] = Stream(st[Content].data) /\ st[TextField] = Field("Tx", st[TextField].v)
      BY <1>2 DEF PlacesOk
    <2> QED BY <1>27, <1>29, <1>30, <2>1, <2>2, WellFormedStep
  <1>33. FormOf(st) = st[form] /\ FormOf(curr) = af
    <2>1. st[Catalog].form.at = "ref" /\ st[Catalog].form.id = form
      BY DEF FormRef
    <2>2. curr[Catalog].form.at = "ref" /\ curr[Catalog].form.id = form /\ curr[form] = af
      BY <1>24, <1>25, <1>29, <2>1
    <2> QED BY <2>1, <2>2 DEF FormOf
  <1>34. FormOf(st).fields.shape = "array" =>
           /\ FormOf(curr).fields.shape = "array"
           /\ ToSet(FormOf(st).fields.items) \subseteq ToSet(FormOf(curr).fields.items)
    <2> SUFFICES ASSUME f.shape = "array"
                 PROVE  fs[1].shape = "array" /\ ToSet(f.items) \subseteq ToSet(fs[1].items)
      BY <1>15, <1>33 DEF f
    <2>1. fs[1].shape = "array" /\ fs[1].items = Append(f.items, field)
      BY <1>10 DEF Direct
    <2> DEFINE s == f.items
    <2>2. IsList(s)
      BY <1>5 DEF EntryOk
    <2> HIDE DEF s
    <2>3. ToSet(Append(s, field)) = ToSet(s) \cup {field}
      BY <2>2, AppendList
    <2> QED BY <2>1, <2>3 DEF s
  <1>35. ASSUME NEW n \in DOMAIN st, st[n].kind = "field", st[n].ft = "Sig"
         PROVE  curr[n] = st[n]
    BY <1>29, <1>35
  <1>36. GraphStep(st, curr)
    BY <1>27, <1>29, <1>32, <1>34, <1>35 DEF GraphStep
  <1>37. ASSUME NEW p \in ToSet(PageIds), NEW a \in AnnotRefs(curr, curr[p]) \ AnnotRefs(st, st[p]),
                a \in DOMAIN curr
         PROVE  curr[a].kind # "annot"
    <2>1. st[p].kind = "page" /\ curr[p].kind = "page" /\ p \in DOMAIN st
      BY <1>3, <1>26
    <2>2. a \in ToSet(Items(curr, curr[p].annots)) /\ a \notin ToSet(Items(st, st[p].annots))
      BY <1>37, <2>1 DEF AnnotRefs
    <2>3. CASE p # page
      <3>1. curr[p] = st[p] /\ st[p].annots = Absent
        <4>1. p \notin DOMAIN objs
          BY <1>3, <1>4, <1>10, <1>11, <1>12, <1>24, <2>1, <2>3
        <4> QED BY <1>25, <2>1, <2>3, <4>1
      <3> QED BY <2>2, <3>1 DEF Items, Absent
    <2>4. CASE p = page
      <3>1. curr[p].annots = ns[1] /\ st[p].annots = e
        BY <1>15, <1>24, <1>25, <2>4 DEF e
      <3>2. a = field
        <4>1. CASE e.shape = "ref"
          <5>1. /\ ns[1] = e /\ e.ref \in DOMAIN ns[2] /\ e.ref \in DOMAIN st
                /\ st[e.ref].kind = "array" /\ ns[2][e.ref].kind = "array"
                /\ ns[2][e.ref] = ArrayObj(Append(st[e.ref].items, field))
            BY <1>11, <4>1
          <5>2. curr[e.ref] = ns[2][e.ref] /\ e.ref \in DOMAIN curr
            BY <1>24, <1>25, <5>1
          <5>3. Items(st, e) = st[e.ref].items /\ Items(curr, e) = Append(st[e.ref].items, field)
            BY <4>1, <5>1, <5>2 DEF Items, ArrayObj
          <5> DEFINE s == st[e.ref].items
          <5>4. IsList(s)
            BY <1>2, <5>1 DEF ValueOk
          <5>5. a \in ToSet(Append(s, field)) /\ a \notin ToSet(s)
            BY <2>2, <3>1, <5>1, <5>3
          <5> HIDE DEF s
          <5>6. ToSet(Append(s, field)) = ToSet(s) \cup {field}
            BY ONLY <5>4, AppendList
          <5> QED BY ONLY <5>5, <5>6
        <4>2. CASE e.shape # "ref"
          <5>1. ns[1] = Direct(Append(e.items, field))
            BY <1>11, <4>2
          <5>2. Items(curr, ns[1]) = Append(e.items, field)
            <6> DEFINE l == Append(e.items, field)
            <6>1. ns[1] = [shape |-> "array", items |-> l, ref |-> 0]
              BY <5>1 DEF Direct
            <6> HIDE DEF l
            <6>2. ns[1].shape = "array" /\ ns[1].items = l
              BY ONLY <6>1
            <6> QED BY <6>2 DEF Items, l
          <5>3. Items(st, e) = e.items /\ IsList(e.items)
            BY <1>6, <4>2 DEF EntryOk, Items, Absent
          <5> DEFINE s == e.items
          <5>4. IsList(s) /\ a \in ToSet(Append(s, field)) /\ a \notin ToSet(s)
            BY <2>2, <3>1, <5>2, <5>3
          <5> HIDE DEF s
          <5> QED BY <5>4, AppendList
        <4> QED BY <4>1, <4>2
      <3> QED BY <1>14, <1>24, <1>25, <3>2
    <2> QED BY <2>3, <2>4
  <1>38. Quiet(st, curr)
    BY <1>29, <1>37 DEF Quiet
  <1>39. ASSUME f.shape # "ref"
         PROVE  Listed(curr, dict)
    <2>1. fs[1] = Direct(Append(f.items, field)) /\ IsList(f.items)
      BY <1>5, <1>10, <1>39 DEF EntryOk
    <2>2. FormOf(curr).fields.shape = "array" /\ FormOf(curr).fields.items = Append(f.items, field)
      BY <1>15, <1>33, <2>1 DEF Direct
    <2>3. field \in ToSet(FormOf(curr).fields.items)
      <3> DEFINE s == f.items
      <3> HIDE DEF s
      <3>1. IsList(s) /\ FormOf(curr).fields.items = Append(s, field)
        BY <2>1, <2>2 DEF s
      <3>2. ToSet(Append(s, field)) = ToSet(s) \cup {field}
        BY <3>1, AppendList
      <3> QED BY <3>1, <3>2
    <2>4. field \in DOMAIN curr /\ curr[field] = Field("Sig", dict)
      BY <1>24, <1>25 DEF fd
    <2> QED BY <1>12, <2>2, <2>3, <2>4 DEF Listed
  <1>40. st[Catalog].form.at = "ref"
    BY DEF FormRef
  <1>41. ASSUME OwnAnnots(st), NEW p \in ToSet(PageIds)
         PROVE  curr[p].annots.shape # "ref" /\ ToSet(curr[p].annots.items) \subseteq DOMAIN curr
    <2>1. st[p].annots.shape # "ref" /\ ToSet(st[p].annots.items) \subseteq DOMAIN curr
      BY <1>25, <1>41 DEF OwnAnnots
    <2>2. CASE p # page
      <3>1. st[p].kind = "page" /\ p \in DOMAIN st /\ p \notin DOMAIN objs
        BY <1>3, <1>4, <1>10, <1>11, <1>12, <1>24, <2>2
      <3> QED BY <1>25, <2>1, <3>1
    <2>3. CASE p = page
      <3>1. curr[p].annots = ns[1] /\ st[p].annots = e
        BY <1>15, <1>24, <1>25, <2>3 DEF e
      <3>2. ns[1] = Direct(Append(e.items, field)) /\ IsList(e.items) /\ field \in DOMAIN curr
        BY <1>6, <1>11, <1>24, <1>25, <2>1, <3>1 DEF EntryOk
      <3> DEFINE s == e.items
      <3>3. ns[1] = Direct(Append(s, field)) /\ IsList(s) /\ ToSet(s) \subseteq DOMAIN curr
        BY <2>1, <3>1, <3>2
      <3> HIDE DEF s
      <3>4. ToSet(Append(s, field)) = ToSet(s) \cup {field}
        BY ONLY <3>3, AppendList
      <3> DEFINE l == Append(s, field)
      <3>5. ns[1] = Direct(l) /\ ToSet(l) \subseteq DOMAIN curr
        BY <3>2, <3>3, <3>4
      <3> HIDE DEF l
      <3> QED BY <3>1, <3>5 DEF Direct
    <2> QED BY <2>2, <2>3
  <1>42. OwnAnnots(st) => OwnAnnots(curr)
    BY <1>41 DEF OwnAnnots
  <1>43. dict \in DOMAIN curr
    BY <1>24, <1>25
  <1> QED BY <1>29, <1>31, <1>33, <1>36, <1>38, <1>39, <1>40, <1>42, <1>43 DEF f

\* A file that another program signed is in order, and its signature complete.
LEMMA ThirdPartyInv ==
  ASSUME NEW fields \in {"array", "ref"}, NEW annots \in {"array", "ref", "absent"}, NEW null,
         NEW stream, NEW tail \in Seq({"CR", "LF"}), NEW slack \in Nat, NEW t \in Seq({"CR", "LF"})
  PROVE  LET doc == ThirdPartySigned(BaseDoc("ref", fields, annots, null, stream, tail, slack), t)
         IN  DocInv(doc) /\ Len(doc) = 2 /\ doc[2].sig.cms.over # <<>>
  <1> DEFINE base  == BaseDoc("ref", fields, annots, null, stream, tail, slack)
             st    == Store(base)
             dict  == MaxId(base) + 1
             field == dict + 1
             form  == st[Catalog].form.id
             page  == PageIds[1]
             fs    == Extend(st, st[form].fields, field)
             ns    == Extend(st, st[page].annots, field)
             objs  == ThirdPartyObjects(st, dict, field, form, page, fs, ns)
             sig   == [what |-> "thirdParty", dict |-> dict, cms |-> NoCms]
             rev   == Update(base, objs, t, sig)
             out   == Append(base, rev)
  <1>1. ThirdPartySigned(base, t) = InjectCms(out, Blank(out), FALSE)
    BY Zenon DEF ThirdPartySigned, ThirdPartyObjects
  <1>2. /\ DocInv(base) /\ Len(base) = 1 /\ st = BaseObjects("ref", fields, annots, null)
    BY BaseInv
  <1>3. WellFormed(st) /\ IsDocument(base) /\ base[1].size \in Nat \ {0}
    BY <1>2, GraphsWellFormed DEF DocInv
  <1>4. dict \in Nat /\ \A n \in DOMAIN st : n \in Nat \ {0} /\ n < dict
    BY <1>3, MaxIdFacts
  <1> DEFINE f == FieldsEntry(fields)
             a == AnnotsEntry(annots)
  <1>5. /\ DOMAIN st = {Catalog} \cup ToSet(PageIds) \cup (Content .. Metadata)
        /\ st[Catalog] = [kind |-> "catalog", form |-> FormRef(FormId), perms |-> 0, dss |-> 0,
                          ext |-> 0, lang |-> 1, null |-> null]
        /\ \A p \in ToSet(PageIds) :
             st[p] = Page(IF p = PageIds[1] THEN a ELSE Absent, Content, FALSE)
        /\ st[Content] = Stream(0) /\ st[TextField] = Field("Tx", 0)
        /\ st[AnnotsArray] = ArrayObj(<<TextField>>)
        /\ st[FieldsArray] = ArrayObj(<<TextField>>)
        /\ st[FormId] = AcroForm(f, 0) /\ st[Metadata] = Stream(0)
    <2> DEFINE given == "ref"
    <2>1. given \in {"none", "inline", "ref", "other"} /\ st = BaseObjects(given, fields, annots, null)
      BY <1>2
    <2>2. FormEntry(given, f) = FormRef(FormId)
      BY DEF FormEntry
    <2> HIDE DEF given, st
    <2>3. BaseShape(st, FormEntry(given, f), f, a, null)
      BY <2>1, BaseFacts
    <2> HIDE DEF f, a
    <2> QED BY <2>2, <2>3 DEF BaseShape
  <1> HIDE DEF base, st, dict, f, a
  <1>6. form = FormId /\ st[Catalog].form = FormRef(form)
    BY <1>5 DEF FormRef
  <1>7. page \in ToSet(PageIds)
    <2>1. 1 \in DOMAIN PageIds
      BY DocumentAssumption, OtherProgramsAssumption
    <2> QED BY <2>1 DEF ToSet
  <1>8. st[form].fields = f /\ st[page].annots = a
        /\ \A p \in ToSet(PageIds) : p # page => st[p].annots = Absent
    <2>1. st[form].fields = f
      BY <1>5, <1>6 DEF AcroForm
    <2>2. \A p \in ToSet(PageIds) : st[p].annots = IF p = PageIds[1] THEN a ELSE Absent
      <3> SUFFICES ASSUME NEW p \in ToSet(PageIds)
                   PROVE  st[p].annots = IF p = PageIds[1] THEN a ELSE Absent
        OBVIOUS
      <3> DEFINE x  == IF p = PageIds[1] THEN a ELSE Absent
                 ct == Content
                 pg == Page(x, ct, FALSE)
      <3>1. st[p] = pg
        BY <1>5
      <3> HIDE DEF x, ct
      <3>2. pg.annots = x
        BY PageKind
      <3> HIDE DEF pg
      <3> QED BY <3>1, <3>2 DEF x
    <2> QED BY <1>7, <2>1, <2>2
  <1>9. (a.shape = "ref" /\ f.shape = "ref") => a.ref # f.ref
    BY DEF a, f, FieldsEntry, AnnotsEntry, Direct, Indirect, Absent, AnnotsArray, FieldsArray
  <1>10. \A n \in DOMAIN st : st[n].kind = "field" => n = TextField
    <2>2. \A n \in DOMAIN st : \/ n = Catalog \/ n \in ToSet(PageIds)
                               \/ n \in {Content, TextField, AnnotsArray, FieldsArray, FormId, Metadata}
      <3>1. Content = 4 /\ TextField = 5 /\ AnnotsArray = 6 /\ FieldsArray = 7 /\ FormId = 8 /\ Metadata = 9
        BY DEF Content, TextField, AnnotsArray, FieldsArray, FormId, Metadata
      <3>2. 4 .. 9 = {4, 5, 6, 7, 8, 9}
        OBVIOUS
      <3> QED BY <1>5, <3>1, <3>2
    <2>3. ArrayObj(<<TextField>>).kind = "array" /\ Stream(0).kind = "stream"
          /\ AcroForm(f, 0).kind = "acroform" /\ st[Catalog].kind = "catalog"
      BY <1>5 DEF ArrayObj, Stream, AcroForm
    <2>4. ASSUME NEW p \in ToSet(PageIds) PROVE st[p].kind = "page"
      <3> DEFINE x  == IF p = PageIds[1] THEN a ELSE Absent
                 ct == Content
                 pg == Page(x, ct, FALSE)
      <3>1. st[p] = pg
        BY <1>5
      <3> HIDE DEF x, ct
      <3>2. pg.kind = "page"
        BY PageKind
      <3> HIDE DEF pg
      <3> QED BY <3>1, <3>2
    <2> QED BY <1>5, <2>2, <2>3, <2>4
  <1> DEFINE curr == At(out, 2)
             size == MaxOf({base[1].size, MaxOf(DOMAIN objs) + 1})
  <1>11. rev = Revision(objs, size, base[1].stream, t, sig)
    BY <1>2 DEF Update
  <1>12. rev.objs = objs /\ rev.tail = t /\ rev.sig = sig /\ rev.size = size /\ IsRevision(rev)
         /\ rev.sig.what = "thirdParty"
    <2> HIDE DEF objs, size
    <2>1. rev.objs = objs /\ rev.tail = t /\ rev.sig = sig /\ rev.size = size
          /\ rev.stream = base[1].stream
      BY <1>11 DEF Revision
    <2>2. sig.cms = NoCms /\ sig.what = "thirdParty" /\ sig.dict = dict
      OBVIOUS
    <2>3. sig = [what |-> sig.what, dict |-> sig.dict, cms |-> sig.cms]
      BY <2>2
    <2> HIDE DEF sig, dict
    <2> QED BY <1>11, <2>1, <2>2, <2>3, NoCmsFacts DEF IsRevision
  <1> HIDE DEF form, page, objs, rev
  <1>13. /\ IsDocument(out) /\ Len(out) = 2 /\ out[2] = rev
         /\ At(out, 1) = st /\ Overwrites(st, objs, curr)
    <2> DEFINE n == Len(base)
    <2>1. /\ IsDocument(out) /\ Len(out) = n + 1 /\ out[n + 1] = rev
          /\ At(out, (n + 1) - 1) = Store(base) /\ Overwrites(Store(base), rev.objs, At(out, n + 1))
      BY <1>3, <1>12, AppendGraphs
    <2> HIDE DEF out, n
    <2>2. n + 1 = 2 /\ (n + 1) - 1 = 1
      BY <1>2 DEF n
    <2> QED BY <1>12, <2>1, <2>2 DEF st
  <1> HIDE DEF out
  <1> DEFINE c == curr
  <1>14. /\ GraphStep(st, c) /\ Quiet(st, c)
         /\ st[Catalog].form.at = "ref" /\ (FormOf(st).fields.shape # "ref" => Listed(c, dict))
         /\ c[Catalog] = st[Catalog] /\ (OwnAnnots(st) => OwnAnnots(c)) /\ dict \in DOMAIN c
         /\ \A n \in DOMAIN objs : n \in Nat \ {0} /\ n <= field
    <2>1. fs = Extend(st, st[form].fields, field) /\ ns = Extend(st, st[page].annots, field)
          /\ field = dict + 1
      OBVIOUS
    <2>2. objs = ThirdPartyObjects(st, dict, field, form, page, fs, ns)
      BY DEF objs
    <2>3. Overwrites(st, objs, c)
      BY <1>13
    <2>4. st[page].annots.shape = "ref" /\ st[form].fields.shape = "ref"
            => st[page].annots.ref # st[form].fields.ref
      BY <1>8, <1>9
    <2> HIDE DEF fs, ns, field, c
    <2>5. ThirdPartyStep(st, form, page, fs, ns, dict, field, objs, c)
      BY <1>3, <1>4, <1>6, <1>7, <1>8, <1>10, <2>1, <2>2, <2>3, <2>4 DEF ThirdPartyStep
    <2> QED BY ONLY <2>5, ThirdPartyGraph
  <1>15. size \in Nat \ {0}
    <2> DEFINE top == MaxOf(DOMAIN objs)
               ls  == base[1].size
               S   == {ls, top + 1}
    <2>1. top \in Nat
      <3>1. field \in Nat
        BY <1>4
      <3>2. \A k \in DOMAIN objs : k \in Nat /\ k <= field
        BY <1>14
      <3> HIDE DEF field
      <3> QED BY <3>1, <3>2, MaxOfFacts
    <2> HIDE DEF top
    <2> DEFINE b == ls + top + 1
    <2>2. b \in Nat /\ ls \in S /\ ls \in Nat \ {0} /\ \A k \in S : k \in Nat /\ k <= b
      BY <1>3, <2>1
    <2> HIDE DEF b, S, ls
    <2>3. MaxOf(S) \in Nat /\ \A k \in S : k <= MaxOf(S)
      BY <2>2, MaxOfFacts
    <2>4. MaxOf(S) \in Nat \ {0}
      BY <2>2, <2>3
    <2> QED BY <2>4 DEF S, ls, top
  <1> HIDE DEF size
  <1>16. StepOk(out, 2)
    <2>1. rev.sig # NoSig /\ ~IsOwn(rev) /\ rev.sig.dict = dict
      BY <1>12 DEF NoSig, IsOwn
    <2> QED BY <1>13, <1>14, <2>1 DEF StepOk
  <1>17. DocInv(out)
    <2>1. StepOk(Append(base, rev), Len(base) + 1)
      BY <1>2, <1>16 DEF out
    <2>2. rev.size \in Nat \ {0} /\ rev.tail \in Seq({"CR", "LF"})
      BY <1>12, <1>15
    <2> QED BY <1>2, <1>12, <2>1, <2>2, AppendInv DEF out
  <1>0. PICK no : no = FALSE
    OBVIOUS
  <1> DEFINE doc == InjectCms(out, Blank(out), no)
  <1>18. DocInv(doc)
    <2>1. out[Len(out)].sig.what # "none"
      BY <1>12, <1>13
    <2> QED BY <1>17, <2>1, InjectInv
  <1>19. Len(doc) = 2 /\ doc[2] = WithCms(rev, Blank(out), no)
    BY <1>13, InjectFacts
  <1>20. doc[2].sig.cms.over = Blank(out)
    BY <1>12, <1>19, WithCmsFacts
  <1>21. Blank(out) # <<>>
    <2>1. DOMAIN out = 1 .. 2
      BY <1>13, DocumentFacts
    <2>2. DOMAIN Blank(out) = 1 .. 2
      BY <2>1 DEF Blank
    <2>3. 1 \in 1 .. 2 /\ 1 \notin DOMAIN <<>>
      OBVIOUS
    <2> HIDE DEF out
    <2> QED BY ONLY <2>2, <2>3
  <1>22. ThirdPartySigned(base, t) = doc
    BY <1>0, <1>1
  <1> HIDE DEF doc
  <1> QED BY <1>18, <1>19, <1>20, <1>21, <1>22 DEF base

\* Every signature has its CMS.
Complete(doc) == \A i \in 1 .. Len(doc) : doc[i].sig # NoSig => doc[i].sig.cms.over # <<>>

\* The files of other producers are in order.
LEMMA KnownBaseInv ==
  ASSUME NEW doc, KnownBase(doc)
  PROVE  DocInv(doc) /\ Complete(doc)
  <1>1. PICK form \in {"none", "inline", "ref", "other"}, fields \in {"array", "ref"},
             annots \in {"array", "ref", "absent"}, null \in BOOLEAN, stream \in BOOLEAN, slack \in Nat,
             tail \in Seq({"CR", "LF"}) :
          LET base == BaseDoc(form, fields, annots, null, stream, tail, slack)
          IN  \/ doc = base
              \/ form = "ref" /\ \E t \in Seq({"CR", "LF"}) : doc = ThirdPartySigned(base, t)
    BY DEF KnownBase
  <1>2. CASE doc = BaseDoc(form, fields, annots, null, stream, tail, slack)
    <2>1. DocInv(doc) /\ Len(doc) = 1
      BY <1>2, BaseInv
    <2>2. \A i \in 1 .. 1 : doc[i].sig = NoSig
      BY <2>1 DEF DocInv
    <2> QED BY <2>1, <2>2 DEF Complete
  <1>3. ASSUME form = "ref", NEW t \in Seq({"CR", "LF"}),
               doc = ThirdPartySigned(BaseDoc(form, fields, annots, null, stream, tail, slack), t)
        PROVE  DocInv(doc) /\ Complete(doc)
    <2>1. DocInv(doc) /\ Len(doc) = 2 /\ doc[2].sig.cms.over # <<>>
      BY <1>3, ThirdPartyInv
    <2>2. doc[1].sig = NoSig /\ \A i \in 1 .. 2 : i = 1 \/ i = 2
      BY <2>1 DEF DocInv
    <2> QED BY <2>1, <2>2 DEF Complete
  <1> QED BY <1>1, <1>2, <1>3

-----------------------------------------------------------------------------
(* What a file keeps as it grows. *)

\* What revisions keep one by one they keep together.
LEMMA GraphStepTrans ==
  ASSUME NEW a, NEW b, NEW c, GraphStep(a, b), GraphStep(b, c)
  PROVE  GraphStep(a, c)
  <1>1. KindsKept(a, c) /\ WellFormed(c)
    BY DEF GraphStep, KindsKept
  <1>2. \A n \in DOMAIN a : (a[n].kind = "field" /\ a[n].ft = "Sig") => c[n] = a[n]
    BY DEF GraphStep, KindsKept
  <1>3. a[Catalog].form.at = "ref" => c[Catalog].form = a[Catalog].form
    BY DEF GraphStep
  <1>4. FormOf(a).fields.shape = "array" =>
          /\ FormOf(c).fields.shape = "array"
          /\ ToSet(FormOf(a).fields.items) \subseteq ToSet(FormOf(c).fields.items)
    BY DEF GraphStep
  <1> QED BY <1>1, <1>2, <1>3, <1>4 DEF GraphStep

\* From one revision to any later one.
LEMMA Onward ==
  ASSUME NEW doc, DocInv(doc), NEW i \in 1 .. Len(doc), NEW j \in i .. Len(doc)
  PROVE  GraphStep(At(doc, i), At(doc, j))
  <1> DEFINE Bad == {k \in Nat : k \in i .. Len(doc) /\ ~GraphStep(At(doc, i), At(doc, k))}
  <1>1. Len(doc) \in Nat /\ i \in Nat /\ i >= 1
    BY DocumentFacts DEF DocInv
  <1>2. SUFFICES ASSUME Bad # {} PROVE FALSE
    BY <1>1
  <1>3. PICK k \in Bad : \A m \in Bad : k <= m
    <2>1. Bad \subseteq Nat
      OBVIOUS
    <2> HIDE DEF Bad
    <2> QED BY <1>2, <2>1, LeastElement
  <1>4. k \in i .. Len(doc) /\ ~GraphStep(At(doc, i), At(doc, k))
    BY <1>3
  <1>5. k # i
    <2>1. WellFormed(At(doc, i))
      BY GraphsWellFormed
    <2>2. GraphStep(At(doc, i), At(doc, i))
      BY <2>1 DEF GraphStep, KindsKept
    <2> QED BY <1>4, <2>2
  <1>6. k - 1 \in i .. Len(doc) /\ k - 1 \in Nat /\ k - 1 < k /\ k \in 2 .. Len(doc)
    BY <1>1, <1>4, <1>5
  <1>7. GraphStep(At(doc, i), At(doc, k - 1))
    BY <1>1, <1>3, <1>6
  <1>8. GraphStep(At(doc, k - 1), At(doc, k))
    BY <1>6 DEF DocInv, StepOk
  <1> QED BY <1>4, <1>7, <1>8, GraphStepTrans

\* A field that is listed stays listed.
LEMMA ListedOnward ==
  ASSUME NEW prev, NEW curr, GraphStep(prev, curr), NEW d, Listed(prev, d)
  PROVE  Listed(curr, d)
  <1>1. PICK n \in ToSet(FormOf(prev).fields.items) : n \in DOMAIN prev /\ prev[n] = Field("Sig", d)
    BY DEF Listed
  <1>2. prev[n].kind = "field" /\ prev[n].ft = "Sig"
    BY <1>1 DEF Field
  <1>3. n \in DOMAIN curr /\ curr[n] = Field("Sig", d)
    BY <1>1, <1>2 DEF GraphStep, KindsKept
  <1> QED BY <1>1, <1>3 DEF GraphStep, Listed

\* A listed field leads both readers to its signature dictionary.
LEMMA ListedIsRead ==
  ASSUME NEW st, NEW d, Listed(st, d)
  PROVE  /\ FormOf(st).fields.shape = "array"
         /\ Items(st, FormOf(st).fields) = FormOf(st).fields.items
         /\ d \in SigDictsOf(st, FormOf(st).fields.items)
  <1> DEFINE fs == FormOf(st).fields
  <1>1. fs.shape = "array" /\ d # 0
    BY DEF Listed
  <1>2. PICK n \in ToSet(fs.items) : n \in DOMAIN st /\ st[n] = Field("Sig", d)
    BY DEF Listed
  <1>3. st[n].kind = "field" /\ st[n].ft = "Sig" /\ st[n].v = d
    BY <1>2, MadeValues
  <1> HIDE DEF fs
  <1>4. Items(st, fs) = fs.items
    BY <1>1 DEF Items
  <1>5. d \in SigDictsOf(st, fs.items)
    BY <1>1, <1>2, <1>3 DEF SigDictsOf
  <1> QED BY <1>1, <1>4, <1>5 DEF fs

\* The library's signatures are fields of the form from their revision on.
LEMMA OwnListed ==
  ASSUME NEW doc, DocInv(doc), NEW i \in 1 .. Len(doc), IsOwn(doc[i])
  PROVE  /\ Listed(Store(doc), doc[i].sig.dict) /\ i \in AnalysedSignatures(doc)
         /\ i > 1 /\ doc[i].sig # NoSig /\ doc[i].tail = <<"LF">>
         /\ doc[i].sig.cms.over # <<>> => i \in ExtractedSignatures(doc)
  <1> DEFINE st == Store(doc)
             fs == FormOf(st).fields
             d  == doc[i].sig.dict
  <1>1. IsDocument(doc) /\ Len(doc) \in 1 .. Len(doc) /\ DOMAIN doc = 1 .. Len(doc)
    BY DocumentFacts DEF DocInv
  <1>2. i # 1 /\ doc[i].sig # NoSig
    BY DEF DocInv, IsOwn, NoSig
  <1>3. i \in 2 .. Len(doc) /\ Len(doc) \in i .. Len(doc) /\ i > 1
    BY <1>1, <1>2
  <1>4. Listed(At(doc, i), d) /\ doc[i].tail = <<"LF">>
    BY <1>3 DEF DocInv, StepOk, Follows
  <1>5. st = At(doc, Len(doc))
    BY <1>1, AtFacts
  <1>6. Listed(st, d)
    BY <1>3, <1>4, <1>5, Onward, ListedOnward
  <1>7. fs.shape = "array" /\ Items(st, fs) = fs.items /\ d \in SigDictsOf(st, fs.items)
    BY <1>6, ListedIsRead
  <1>8. AnalysedSignatures(doc) =
          {k \in DOMAIN doc : doc[k].sig # NoSig /\ doc[k].sig.dict \in SigDictsOf(st, Items(st, fs))}
    BY DEF AnalysedSignatures
  <1>9. ExtractedSignatures(doc) =
          {k \in DOMAIN doc : /\ doc[k].sig # NoSig
                              /\ doc[k].sig.dict \in
                                   SigDictsOf(st, IF fs.shape = "array" THEN fs.items ELSE <<>>)
                              /\ doc[k].sig.cms # NoCms}
    BY DEF ExtractedSignatures
  <1>10. doc[i].sig.cms.over # <<>> => doc[i].sig.cms # NoCms
    BY DEF NoCms, Cms
  <1> HIDE DEF st, fs
  <1> QED BY <1>1, <1>2, <1>3, <1>4, <1>6, <1>7, <1>8, <1>9, <1>10 DEF st

-----------------------------------------------------------------------------
(* The saved file and the files of open requests. *)

\* Other programs update files as the editors of OtherPrograms do, and start
\* with the files the modules distinguish.
EditorsOnly == \A doc : ForeignUpdates(doc) \subseteq EditorUpdates(doc)
KnownBases  == \A doc \in BaseDocs : KnownBase(doc)

\* What an open request works on: the file it was given and signatures of its
\* own that all but the last are complete; a B-T request awaits the timestamp
\* over its signature.
Work(x) ==
  /\ DocInv(x.base) /\ Complete(x.base) /\ DocInv(x.out) /\ x.over # <<>>
  /\ \A i \in 1 .. Len(x.out) - 1 : x.out[i].sig # NoSig => x.out[i].sig.cms.over # <<>>
  /\ IsOwn(x.out[Len(x.out)])
  /\ x.level = "BT" =>
       /\ Len(x.out) = Len(x.base) + 2 /\ x.st = "awaitingToken"
       /\ x.out[Len(x.base) + 1].sig.what \in Kinds /\ x.out[Len(x.base) + 2].sig.what = "timestamp"

FilesInv ==
  /\ DocInv(file) /\ Complete(file)
  /\ \A r \in Requests : Open(req[r]) => Work(req[r])

\* The editors are programs that leave no signature of the library's.
LEMMA OnlyEditors ==
  ASSUME EditorsOnly
  PROVE  ForeignAreUnsigned
BY EditorsAreUnsigned DEF EditorsOnly, ForeignAreUnsigned

\* A blanked file is a file.
LEMMA BlankFacts ==
  ASSUME NEW doc, IsDocument(doc)
  PROVE  Blank(doc) # <<>>
  <1>1. DOMAIN doc = 1 .. Len(doc) /\ Len(doc) \in Nat /\ Len(doc) >= 1
    BY DocumentFacts
  <1>2. DOMAIN Blank(doc) = 1 .. Len(doc)
    BY <1>1 DEF Blank
  <1>3. 1 \in DOMAIN Blank(doc)
    BY <1>1, <1>2
  <1> QED BY <1>3

\* Completing a signature: the file is in order and complete.
LEMMA InjectComplete ==
  ASSUME NEW out, DocInv(out), IsOwn(out[Len(out)]), NEW over, over # <<>>, NEW zero,
         \A i \in 1 .. Len(out) - 1 : out[i].sig # NoSig => out[i].sig.cms.over # <<>>
  PROVE  DocInv(InjectCms(out, over, zero)) /\ Complete(InjectCms(out, over, zero))
  <1> DEFINE d == InjectCms(out, over, zero)
             n == Len(out)
  <1>1. IsDocument(out) /\ n \in Nat /\ n >= 1 /\ IsRevision(out[n])
    BY DocumentFacts DEF DocInv
  <1>2. /\ Len(d) = n /\ d[n] = WithCms(out[n], over, zero)
        /\ \A i \in 1 .. n - 1 : d[i] = out[i]
    BY <1>1, InjectFacts
  <1>3. d[n].sig.cms.over = over
    BY <1>1, <1>2, WithCmsFacts
  <1>4. out[n].sig.what # "none"
    BY DEF IsOwn
  <1>5. DocInv(d)
    BY <1>4, InjectInv
  <1> HIDE DEF d, n
  <1>6. \A i \in 1 .. n : i = n \/ i \in 1 .. n - 1
    BY <1>1
  <1>7. Complete(d)
    BY <1>2, <1>3, <1>6 DEF Complete, n
  <1> QED BY <1>5, <1>7 DEF d

\* A signature that awaits its CMS behind a complete file.
LEMMA AwaitingWork ==
  ASSUME NEW doc, DocInv(doc), Complete(doc), NEW what \in {"approval", "certify", "timestamp"},
         NEW page, CanHook(doc, page), NEW visuals \in Nat,
         NEW out, out = WithSignature(doc, what, page, visuals)
  PROVE  /\ DocInv(out) /\ Len(out) = Len(doc) + 1 /\ IsOwn(out[Len(out)]) /\ Blank(out) # <<>>
         /\ \A i \in 1 .. Len(out) - 1 : out[i].sig # NoSig => out[i].sig.cms.over # <<>>
         /\ \A i \in 1 .. Len(doc) : out[i] = doc[i]
         /\ out[Len(out)].sig.what = what
  <1>1. IsDocument(doc) /\ Len(doc) \in Nat
    BY DocumentFacts DEF DocInv
  <1>2. /\ IsDocument(out) /\ Len(out) = Len(doc) + 1 /\ out[Len(doc) + 1].sig.what = what
        /\ \A i \in 1 .. Len(doc) : out[i] = doc[i]
    BY <1>1, WithSignatureFacts
  <1>3. DocInv(out)
    BY SignedInv
  <1>4. IsOwn(out[Len(out)]) /\ Blank(out) # <<>>
    BY <1>2, BlankFacts DEF IsOwn
  <1>5. \A i \in 1 .. Len(out) - 1 : out[i].sig # NoSig => out[i].sig.cms.over # <<>>
    BY <1>1, <1>2 DEF Complete
  <1> QED BY <1>2, <1>3, <1>4, <1>5

\* How the steps change what is saved and what is open.
Waits(r) == UNCHANGED file /\ \E x : Set(r, x) /\ Open(x) /\ Work(x)
Saves(r) == \E level : Set(r, Succeeded(level)) /\ DocInv(file') /\ Complete(file')

\* A timestamp that is sent for.
LEMMA AwaitWork ==
  ASSUME DocInv(file), Complete(file), NEW r \in Requests, NEW level, NEW doc, DocInv(doc), Complete(doc),
         level = "BT" => /\ Len(doc) = Len(file) + 1 /\ doc[Len(doc)].sig.what \in Kinds,
         NEW page, AwaitToken(r, level, file, doc, page)
  PROVE  Fails(r) \/ Waits(r)
  <1>1. CASE ~CanHook(doc, page)
    BY <1>1 DEF AwaitToken, Fails
  <1>2. CASE CanHook(doc, page)
    <2> DEFINE out == WithSignature(doc, "timestamp", page, 0)
               over == Blank(out)
               x   == Request("awaitingToken", level, file, out, over, "none")
    <2>1. Set(r, x) /\ UNCHANGED file
      BY <1>2 DEF AwaitToken
    <2>2. /\ DocInv(out) /\ Len(out) = Len(doc) + 1 /\ IsOwn(out[Len(out)]) /\ over # <<>>
          /\ \A i \in 1 .. Len(out) - 1 : out[i].sig # NoSig => out[i].sig.cms.over # <<>>
          /\ \A i \in 1 .. Len(doc) : out[i] = doc[i]
          /\ out[Len(out)].sig.what = "timestamp"
      <3> DEFINE what == "timestamp"
                 none == 0
      <3>1. out = WithSignature(doc, what, page, none)
            /\ what \in {"approval", "certify", "timestamp"} /\ none \in Nat
        OBVIOUS
      <3>2. what = "timestamp"
        OBVIOUS
      <3> HIDE DEF what, none, out
      <3> QED BY <1>2, <3>1, <3>2, AwaitingWork
    <2>3. /\ x.st = "awaitingToken" /\ x.base = file /\ x.out = out /\ x.level = level
          /\ x.over = over
      BY RequestFacts
    <2>4. Len(doc) \in Nat /\ Len(doc) >= 1 /\ Len(file) \in Nat
      BY DocumentFacts DEF DocInv
    <2> HIDE DEF out, over, x
    <2>5. level = "BT" =>
            /\ Len(out) = Len(file) + 2
            /\ out[Len(file) + 1].sig.what \in Kinds /\ out[Len(file) + 2].sig.what = "timestamp"
      <3> SUFFICES ASSUME level = "BT"
                   PROVE  /\ Len(out) = Len(file) + 2
                          /\ out[Len(file) + 1].sig.what \in Kinds /\ out[Len(file) + 2].sig.what = "timestamp"
        OBVIOUS
      <3>1. Len(doc) = Len(file) + 1 /\ Len(out) = Len(file) + 2 /\ Len(doc) \in 1 .. Len(doc)
        BY <2>2, <2>4
      <3> QED BY <2>2, <3>1
    <2>6. Open(x) /\ Work(x)
      BY <2>2, <2>3, <2>5 DEF Open, Work
    <2> QED BY <2>1, <2>6 DEF Waits
  <1> QED BY <1>1, <1>2

\* sign: it fails, returns a signed file or sends for a timestamp over one.
LEMMA SignWork ==
  ASSUME DocInv(file), Complete(file), NEW r \in Requests, NEW what \in Kinds, NEW level \in Levels,
         NEW page, NEW visuals \in Appearances, NEW allowed, NEW fits, NEW tsaUrl \in BOOLEAN,
         Sign(r, what, level, page, visuals, allowed, fits, tsaUrl)
  PROVE  Fails(r) \/ Waits(r) \/ Saves(r)
  <1> DEFINE out    == WithSignature(file, what, page, visuals)
             over   == Blank(out)
             done(zero) == InjectCms(out, over, zero)
  <1>1. \/ Fails(r)
        \/ /\ CanHook(file, page)
           /\ \E zero \in LastZero : ApplyPadesLevel(r, level, file, done(zero), tsaUrl)
    BY DEF Sign, Fails
  <1>2. SUFFICES ASSUME CanHook(file, page), NEW zero \in LastZero, NEW signed,
                        signed = done(zero), ApplyPadesLevel(r, level, file, signed, tsaUrl)
                 PROVE  Fails(r) \/ Waits(r) \/ Saves(r)
    BY <1>1
  <1>3. what \in {"approval", "certify", "timestamp"} /\ visuals \in Nat
    BY SigningAssumption
  <1>4. /\ DocInv(out) /\ Len(out) = Len(file) + 1 /\ IsOwn(out[Len(out)]) /\ over # <<>>
        /\ \A i \in 1 .. Len(out) - 1 : out[i].sig # NoSig => out[i].sig.cms.over # <<>>
        /\ out[Len(out)].sig.what = what
    <2> HIDE DEF out
    <2> QED BY <1>2, <1>3, AwaitingWork DEF out
  <1> HIDE DEF out, over
  <1>5. DocInv(signed) /\ Complete(signed)
    BY <1>2, <1>4, InjectComplete
  <1>6. Len(signed) = Len(file) + 1 /\ signed[Len(signed)].sig.what = what
    <2>1. IsDocument(out) /\ IsRevision(out[Len(out)])
      BY <1>4, DocumentFacts DEF DocInv
    <2>2. Len(signed) = Len(out) /\ signed[Len(out)] = WithCms(out[Len(out)], over, zero)
      BY <1>2, <2>1, InjectFacts
    <2>3. signed[Len(out)].sig.what = what
      BY <1>4, <2>1, <2>2, WithCmsFacts
    <2> QED BY <1>4, <2>2, <2>3
  <1>7. \/ Fails(r)
        \/ level = "BB" /\ Return(r, "BB", signed)
        \/ AwaitToken(r, level, file, signed, 0)
    BY <1>2, SigningAssumption DEF ApplyPadesLevel, Fails
  <1>8. ASSUME Return(r, "BB", signed)
        PROVE  Saves(r)
    BY <1>5, <1>8 DEF Return, Saves
  <1>9. ASSUME AwaitToken(r, level, file, signed, 0)
        PROVE  Fails(r) \/ Waits(r)
    BY <1>5, <1>6, <1>9, AwaitWork
  <1> QED BY <1>7, <1>8, <1>9

\* Every step is of one of these forms.
LEMMA WorkCases ==
  ASSUME FilesInv, Next
  PROVE  \/ ForeignUpdate
         \/ \E r \in Requests : Fails(r) \/ Waits(r) \/ Saves(r)
  <1>0. DocInv(file) /\ Complete(file)
    BY DEF FilesInv
  <1>1. ASSUME NEW r \in Requests, NEW what \in Kinds, NEW level \in Levels, NEW page \in AskedPages,
               NEW v \in Appearances, NEW allowed \in BOOLEAN, NEW fits \in BOOLEAN,
               NEW tsaUrl \in BOOLEAN, Sign(r, what, level, page, v, allowed, fits, tsaUrl)
        PROVE  Fails(r) \/ Waits(r) \/ Saves(r)
    BY <1>0, <1>1, SignWork
  <1>2. ASSUME NEW r \in Requests, AddDocumentTimestamp(r)
        PROVE  Fails(r) \/ Waits(r)
    <2>1. PICK page \in AskedPages : AwaitToken(r, "TS", file, file, page)
      BY <1>2 DEF AddDocumentTimestamp
    <2> DEFINE level == "TS"
    <2>2. AwaitToken(r, level, file, file, page) /\ level # "BT"
      BY <2>1
    <2> HIDE DEF level
    <2> QED BY <1>0, <2>2, AwaitWork
  <1>3. ASSUME NEW r \in Requests, NEW s \in Requests, Open(req[r]), Open(req[s]), NEW level,
               NEW zero, Return(r, level, InjectCms(req[r].out, req[s].over, zero))
        PROVE  Saves(r)
    <2>1. Work(req[r]) /\ req[s].over # <<>>
      BY <1>3 DEF FilesInv, Work
    <2>2. DocInv(file') /\ Complete(file')
      <3>1. file' = InjectCms(req[r].out, req[s].over, zero)
        BY <1>3 DEF Return
      <3> QED BY <2>1, <3>1, InjectComplete DEF Work
    <2> QED BY <1>3, <2>2 DEF Return, Saves
  <1>4. ASSUME NEW r \in Requests, TokenArrives(r)
        PROVE  Fails(r) \/ Saves(r)
    <2>1. Open(req[r])
      BY <1>4 DEF TokenArrives, Open
    <2>2. \/ Fail(r, "SignatureTooLarge")
          \/ \E zero : Return(r, req[r].level, InjectCms(req[r].out, req[r].over, zero))
      BY <1>4 DEF TokenArrives
    <2> QED BY <1>3, <2>1, <2>2 DEF Fails
  <1>5. ASSUME NEW r \in Requests, TsaFails(r)
        PROVE  Fails(r)
    BY <1>5 DEF TsaFails, Fails
  <1>6. ASSUME NEW r \in Requests, NEW page \in AskedPages, NEW allowed \in BOOLEAN,
               PrepareSignature(r, page, allowed)
        PROVE  Fails(r) \/ Waits(r)
    <2> DEFINE out  == WithSignature(file, "approval", page, 0)
               over == Blank(out)
               x    == Request("prepared", "BB", file, out, over, "none")
    <2>1. Fails(r) \/ (CanHook(file, page) /\ Set(r, x) /\ UNCHANGED file)
      BY <1>6 DEF PrepareSignature, Fails
    <2>2. SUFFICES ASSUME CanHook(file, page), Set(r, x), UNCHANGED file
                   PROVE  Waits(r)
      BY <2>1
    <2>3. /\ DocInv(out) /\ IsOwn(out[Len(out)]) /\ over # <<>>
          /\ \A i \in 1 .. Len(out) - 1 : out[i].sig # NoSig => out[i].sig.cms.over # <<>>
      <3> DEFINE what == "approval"
                 none == 0
      <3>1. out = WithSignature(file, what, page, none)
            /\ what \in {"approval", "certify", "timestamp"} /\ none \in Nat
        OBVIOUS
      <3> HIDE DEF what, none, out
      <3> QED BY <1>0, <2>2, <3>1, AwaitingWork
    <2>4. x.st = "prepared" /\ x.base = file /\ x.out = out /\ x.level = "BB" /\ x.over = over
      BY RequestFacts
    <2> HIDE DEF out, over, x
    <2>5. Open(x) /\ Work(x)
      BY <1>0, <2>3, <2>4 DEF Open, Work
    <2> QED BY <2>2, <2>5 DEF Waits
  <1>7. ASSUME NEW r \in Requests, NEW answer \in Requests, NEW fits \in BOOLEAN,
               FinalizeSignature(r, answer, fits)
        PROVE  Fails(r) \/ Saves(r)
    <2>1. Open(req[r]) /\ Open(req[answer])
      BY <1>7 DEF FinalizeSignature, Open
    <2>2. \/ Fail(r, "SignatureTooLarge")
          \/ \E zero : Return(r, "BB", InjectCms(req[r].out, req[answer].over, zero))
      BY <1>7 DEF FinalizeSignature
    <2> QED BY <1>3, <2>1, <2>2 DEF Fails
  <1> QED BY <1>1, <1>2, <1>4, <1>5, <1>6, <1>7 DEF Next

\* The files are in order when the protocol starts, and stay so.
LEMMA FilesStep ==
  ASSUME EditorsOnly, TypeInv, FilesInv, [Next]_vars
  PROVE  FilesInv'
  <1>1. CASE UNCHANGED vars
    BY <1>1 DEF vars, FilesInv
  <1>2. CASE ForeignUpdate
    <2>1. PICK rev \in ForeignUpdates(file) : file' = Append(file, rev)
      BY <1>2 DEF ForeignUpdate
    <2>2. rev \in EditorUpdates(file) /\ DocInv(file) /\ Complete(file)
      BY <2>1 DEF EditorsOnly, FilesInv
    <2>3. DocInv(file')
      BY <2>1, <2>2, EditInv
    <2>4. Complete(file')
      <3>1. IsRevision(rev) /\ rev.sig = NoSig /\ IsDocument(file)
        BY <2>2, EditorsAreUnsigned DEF DocInv
      <3>2. /\ Len(file') = Len(file) + 1 /\ file'[Len(file) + 1] = rev
            /\ \A i \in 1 .. Len(file) : file'[i] = file[i]
        BY <2>1, <3>1, AppendDocument
      <3>3. \A i \in 1 .. Len(file) + 1 : i \in 1 .. Len(file) \/ i = Len(file) + 1
        BY <3>1, DocumentFacts
      <3> QED BY <2>2, <3>1, <3>2, <3>3 DEF Complete
    <2>5. req' = req
      BY <1>2 DEF ForeignUpdate
    <2> QED BY <2>3, <2>4, <2>5 DEF FilesInv
  <1>3. ASSUME NEW r \in Requests, NEW x, Set(r, x), Open(x) => Work(x), DocInv(file'), Complete(file')
        PROVE  FilesInv'
    <2>1. req'[r] = x /\ \A s \in Requests \ {r} : req'[s] = req[s]
      BY <1>3, SetFacts
    <2> QED BY <1>3, <2>1 DEF FilesInv
  <1>4. ASSUME NEW r \in Requests, Fails(r)
        PROVE  FilesInv'
    <2>1. PICK err : Set(r, Failed(err)) /\ file' = file
      BY <1>4 DEF Fails, Fail
    <2> QED BY <1>3, <2>1, FinishedFacts DEF FilesInv
  <1>5. ASSUME NEW r \in Requests, Waits(r)
        PROVE  FilesInv'
    BY <1>3, <1>5 DEF Waits, FilesInv
  <1>6. ASSUME NEW r \in Requests, Saves(r)
        PROVE  FilesInv'
    BY <1>3, <1>6, FinishedFacts DEF Saves
  <1>7. CASE Next
    BY <1>2, <1>4, <1>5, <1>6, <1>7, WorkCases
  <1> QED BY <1>1, <1>7

\* The saved file, and whatever an open request works on, is a base file followed
\* by revisions in order, each of which hooks what it adds into the graph before
\* it.
THEOREM FilesInvariance ==
  ASSUME EditorsOnly, KnownBases
  PROVE  Spec => [](IInv /\ FilesInv)
  <1>1. Init => FilesInv
    <2> SUFFICES ASSUME Init PROVE FilesInv
      OBVIOUS
    <2>1. DocInv(file) /\ Complete(file)
      BY KnownBaseInv DEF KnownBases, Init
    <2>2. \A r \in Requests : ~Open(req[r])
      BY FinishedFacts DEF Init
    <2> QED BY <2>1, <2>2 DEF FilesInv
  <1>2. IInv /\ FilesInv /\ [Next]_vars => (IInv /\ FilesInv)'
    BY OnlyEditors, StepInv, FilesStep DEF IInv
  <1> QED BY <1>1, <1>2, InitInv, PTL DEF Spec

-----------------------------------------------------------------------------
(* What the revision analysis says of these files. *)

\* A signature alters nothing a reader sees.
LEMMA SignatureAltersNothing ==
  ASSUME NEW doc, DocInv(doc), NEW j \in 2 .. Len(doc), doc[j].sig # NoSig
  PROVE  ~AltersDocument(doc, j)
  <1> DEFINE prev == At(doc, j - 1)
             curr == At(doc, j)
  <1>1. Quiet(prev, curr)
    BY DEF DocInv, StepOk
  <1>2. AltersDocument(doc, j) <=>
          \/ prev[Content] # curr[Content] \/ prev[TextField] # curr[TextField]
          \/ prev[Catalog].lang # curr[Catalog].lang
          \/ \E p \in ToSet(PageIds) :
               \E a \in AnnotRefs(curr, curr[p]) \ AnnotRefs(prev, prev[p]) :
                 a \in DOMAIN curr /\ curr[a] = Annotation(FALSE)
    BY DEF AltersDocument, At
  <1>3. Annotation(FALSE).kind = "annot"
    BY DEF Annotation
  <1> HIDE DEF prev, curr
  <1> QED BY <1>1, <1>2, <1>3 DEF Quiet

\* What alters the document is an unsafe update, and no signature.
LEMMA AlterationIsUnsafe ==
  ASSUME NEW doc, DocInv(doc), NEW j \in 2 .. Len(doc), AltersDocument(doc, j)
  PROVE  ~SafeUpdate(doc, j) /\ doc[j].sig = NoSig
  <1>1. doc[j].sig = NoSig
    BY SignatureAltersNothing
  <1>2. ~(IsSignatureRevision(doc, j) \/ IsDocTimestamp(doc, j))
    BY <1>1 DEF IsSignatureRevision, IsDocTimestamp, AnalysedSignatures
  <1>3. IsDocument(doc) /\ j \in 1 .. Len(doc) /\ j - 1 \in 1 .. Len(doc)
    BY DocumentFacts DEF DocInv
  <1>4. WellFormed(At(doc, j - 1)) /\ WellFormed(At(doc, j))
    BY <1>3, GraphsWellFormed
  <1>5. KindsKept(At(doc, j - 1), At(doc, j))
    BY DEF DocInv, StepOk, GraphStep
  <1> QED BY <1>1, <1>2, <1>3, <1>4, <1>5, SafeAltersNothing

\* AlterationsShow: a signature followed by an alteration is never reported to
\* cover the whole document.
THEOREM AlterationsCorrect ==
  ASSUME EditorsOnly, KnownBases
  PROVE  Spec => []AlterationsShow
  <1>1. ASSUME DocInv(file)
        PROVE  AlterationsShow
    <2>1. SUFFICES ASSUME NEW i \in DOMAIN file, NEW j \in DOMAIN file, i < j, AltersDocument(file, j)
                   PROVE  ~CoversWholeDocument(file, i)
      BY DEF AlterationsShow
    <2>2. DOMAIN file = 1 .. Len(file) /\ Len(file) \in Nat
      BY <1>1, DocumentFacts DEF DocInv
    <2>3. j \in 2 .. Len(file) /\ j \in i + 1 .. Len(file)
      BY <2>1, <2>2
    <2>4. ~SafeUpdate(file, j)
      BY <1>1, <2>1, <2>3, AlterationIsUnsafe
    <2> QED BY <2>3, <2>4 DEF CoversWholeDocument
  <1>2. IInv /\ FilesInv => AlterationsShow
    BY <1>1 DEF FilesInv
  <1> QED BY <1>2, FilesInvariance, PTL

\* What a signature revision of the library writes over.
LEMMA OwnChanges ==
  ASSUME NEW doc, DocInv(doc), NEW i \in 1 .. Len(doc), IsOwn(doc[i])
  PROVE  \E pid \in ToSet(PageIds) :
           /\ pid \in Changed(doc, i)
           /\ Changed(doc, i) \subseteq {Catalog, Store(doc)[Catalog].form.id, pid}
           /\ Catalog \notin ToSet(PageIds) /\ Store(doc)[Catalog].form.id \notin ToSet(PageIds)
  <1> DEFINE prev == At(doc, i - 1)
             curr == At(doc, i)
             rev  == doc[i]
  <1>1. IsDocument(doc) /\ i \in 2 .. Len(doc) /\ i - 1 \in 1 .. Len(doc) /\ Len(doc) \in i .. Len(doc)
    BY OwnListed, DocumentFacts DEF DocInv
  <1>2. PICK field, id, pid : Hooks(prev, rev, rev.sig.dict, field, id, pid)
    BY <1>1 DEF DocInv, StepOk
  <1>3. WellFormed(prev)
    BY <1>1, GraphsWellFormed
  <1>4. GraphStep(curr, Store(doc))
    BY <1>1, Onward, AtFacts
  <1>5. Overwrites(prev, rev.objs, curr)
    BY <1>1, AtStep
  <1>6. Changed(doc, i) = DOMAIN rev.objs \cap DOMAIN prev
    BY <1>1, ChangedFacts
  <1> HIDE DEF prev, curr, rev
  <1> DEFINE c == prev[Catalog]
  <1>7. /\ pid \in ToSet(PageIds) /\ {Catalog, id, pid} \subseteq DOMAIN rev.objs
        /\ DOMAIN rev.objs \cap DOMAIN prev \subseteq {Catalog, id, pid}
        /\ rev.objs[Catalog].form = FormRef(id)
        /\ IF c.form.at = "ref" THEN id = c.form.id ELSE id \notin DOMAIN prev
    BY <1>2 DEF Hooks
  <1>8. curr[Catalog].form = FormRef(id)
    BY <1>5, <1>7 DEF Overwrites
  <1>9. Store(doc)[Catalog].form.id = id
    BY <1>4, <1>8 DEF GraphStep, FormRef
  <1>10. \A p \in ToSet(PageIds) : p \in DOMAIN prev /\ prev[p].kind = "page"
    BY <1>3 DEF WellFormed, PlacesOk
  <1>11. c.kind = "catalog" /\ FormOk(prev, c.form)
    BY <1>3, PlaceFacts DEF CatalogOk
  <1>12. id \notin ToSet(PageIds) /\ Catalog \notin ToSet(PageIds)
    BY <1>7, <1>10, <1>11 DEF FormOk
  <1> QED BY <1>6, <1>7, <1>9, <1>10, <1>12

\* OverwritesOnlyHooks: a signature writes over the catalog, the form and one
\* page, and no number it uses was in use or is out of /Size.
THEOREM OverwritesCorrect ==
  ASSUME EditorsOnly, KnownBases
  PROVE  Spec => []OverwritesOnlyHooks
  <1>1. ASSUME DocInv(file)
        PROVE  OverwritesOnlyHooks
    <2> DEFINE form == Store(file)[Catalog].form.id
    <2>1. SUFFICES ASSUME NEW i \in OwnRevisions(file)
                   PROVE  /\ Changed(file, i) \subseteq {Catalog, form} \cup ToSet(PageIds)
                          /\ Cardinality(Changed(file, i) \cap ToSet(PageIds)) = 1
                          /\ \A n \in DOMAIN file[i].objs : n < file[i].size
                          /\ file[i - 1].size <= file[i].size
      BY DEF OverwritesOnlyHooks
    <2>2. i \in 1 .. Len(file) /\ IsOwn(file[i])
      BY <1>1, <2>1, DocumentFacts DEF OwnRevisions, IsOwn, DocInv
    <2>3. i \in 2 .. Len(file)
      BY <1>1, <2>2, OwnListed
    <2>4. Follows(file[i - 1], file[i])
      BY <1>1, <2>2, <2>3 DEF DocInv, StepOk
    <2>5. PICK pid \in ToSet(PageIds) :
            /\ pid \in Changed(file, i) /\ Changed(file, i) \subseteq {Catalog, form, pid}
            /\ Catalog \notin ToSet(PageIds) /\ form \notin ToSet(PageIds)
      BY <1>1, <2>2, OwnChanges
    <2>6. Changed(file, i) \cap ToSet(PageIds) = {pid}
      BY <2>5
    <2>7. Cardinality(Changed(file, i) \cap ToSet(PageIds)) = 1
      BY <2>6, FS_Singleton
    <2> QED BY <2>4, <2>5, <2>7 DEF Follows
  <1>2. IInv /\ FilesInv => OverwritesOnlyHooks
    BY <1>1 DEF FilesInv
  <1> QED BY <1>2, FilesInvariance, PTL

\* A signature whose field is listed is one for both readers.
LEMMA ListedIsExtracted ==
  ASSUME NEW doc, DocInv(doc), NEW i \in 1 .. Len(doc), doc[i].sig # NoSig,
         NEW k \in 1 .. Len(doc), Listed(At(doc, k), doc[i].sig.dict)
  PROVE  /\ Listed(Store(doc), doc[i].sig.dict) /\ i \in AnalysedSignatures(doc)
         /\ doc[i].sig.cms.over # <<>> => i \in ExtractedSignatures(doc)
  <1> DEFINE st == Store(doc)
             fs == FormOf(st).fields
             d  == doc[i].sig.dict
  <1>1. IsDocument(doc) /\ Len(doc) \in k .. Len(doc) /\ i \in DOMAIN doc
    BY DocumentFacts DEF DocInv
  <1>2. st = At(doc, Len(doc))
    BY <1>1, AtFacts
  <1>3. Listed(st, d)
    BY <1>1, <1>2, Onward, ListedOnward
  <1>4. fs.shape = "array" /\ Items(st, fs) = fs.items /\ d \in SigDictsOf(st, fs.items)
    BY <1>3, ListedIsRead
  <1>5. AnalysedSignatures(doc) =
          {m \in DOMAIN doc : doc[m].sig # NoSig /\ doc[m].sig.dict \in SigDictsOf(st, Items(st, fs))}
    BY DEF AnalysedSignatures
  <1>6. ExtractedSignatures(doc) =
          {m \in DOMAIN doc : /\ doc[m].sig # NoSig
                              /\ doc[m].sig.dict \in
                                   SigDictsOf(st, IF fs.shape = "array" THEN fs.items ELSE <<>>)
                              /\ doc[m].sig.cms # NoCms}
    BY DEF ExtractedSignatures
  <1>7. doc[i].sig.cms.over # <<>> => doc[i].sig.cms # NoCms
    BY DEF NoCms, Cms
  <1> HIDE DEF st, fs
  <1> QED BY <1>1, <1>3, <1>4, <1>5, <1>6, <1>7 DEF st

\* The first graph is the first revision.
LEMMA FirstGraph ==
  ASSUME NEW doc, IsDocument(doc), NEW n \in DOMAIN At(doc, 1)
  PROVE  n \in DOMAIN doc[1].objs /\ At(doc, 1)[n] = doc[1].objs[n]
  <1> DEFINE d == SubSeq(doc, 1, 1)
  <1>1. 1 \in 1 .. Len(doc)
    BY DocumentFacts
  <1>2. IsDocument(d) /\ Len(d) = 1 /\ d[1] = doc[1]
    BY <1>1, PrefixFacts
  <1>3. n \in DOMAIN Store(d) /\ At(doc, 1) = Store(d)
    BY DEF At
  <1> HIDE DEF d
  <1>4. PICK i \in 1 .. Len(d) : n \in DOMAIN d[i].objs /\ Store(d)[n] = d[i].objs[n]
    BY <1>2, <1>3, StoreDefined
  <1>5. i = 1
    BY <1>2
  <1> QED BY <1>2, <1>3, <1>4, <1>5

\* SignaturesStayListed: over a direct /Fields every signature ever made stays a
\* field of the form and is extracted, whoever made it.
THEOREM ListedCorrect ==
  ASSUME EditorsOnly, KnownBases
  PROVE  Spec => []SignaturesStayListed
  <1>1. ASSUME DocInv(file), Complete(file), DirectFields
        PROVE  SignaturesReachable /\ AnalysedSignatures(file) = ExtractedSignatures(file)
    <2>1. IsDocument(file) /\ DOMAIN file = 1 .. Len(file)
      BY <1>1, DocumentFacts DEF DocInv
    <2>2. ASSUME NEW i \in 1 .. Len(file), file[i].sig # NoSig
          PROVE  i \in AnalysedSignatures(file) /\ i \in ExtractedSignatures(file)
      <3> DEFINE first == At(file, 1)
                 c     == first[Catalog]
      <3>1. file[i].sig.cms.over # <<>>
        BY <1>1, <2>2 DEF Complete
      <3>2. CASE IsOwn(file[i])
        BY <1>1, <2>2, <3>1, <3>2, OwnListed
      <3>3. CASE ~IsOwn(file[i])
        <4>1. i \in 2 .. Len(file)
          BY <1>1, <2>1, <2>2, DocumentFacts DEF DocInv
        <4>2. /\ i = 2 /\ c.form.at = "ref" /\ FormOf(first) = first[c.form.id]
              /\ FormOf(first).fields.shape # "ref" => Listed(At(file, i), file[i].sig.dict)
          <5>1. /\ i = 2 /\ At(file, i - 1)[Catalog].form.at = "ref"
                /\ FormOf(At(file, i - 1)).fields.shape # "ref"
                     => Listed(At(file, i), file[i].sig.dict)
            BY <1>1, <2>2, <3>3, <4>1 DEF DocInv, StepOk
          <5>2. FormOf(first) = first[c.form.id]
            BY <5>1 DEF FormOf
          <5> QED BY <5>1, <5>2
        <4>3. WellFormed(first)
          BY <1>1 DEF DocInv
        <4>4. c.form.id \in DOMAIN first /\ first[c.form.id].kind = "acroform"
          BY <4>2, <4>3, PlaceFacts DEF CatalogOk, FormOk
        <4>5. /\ c.form.id \in DOMAIN file[1].objs
              /\ first[c.form.id] = file[1].objs[c.form.id]
          BY <2>1, <4>4, FirstGraph
        <4>6. FormOf(first).fields.shape # "ref"
          <5> HIDE DEF first
          <5> QED BY <1>1, <4>2, <4>4, <4>5 DEF DirectFields
        <4> QED BY <1>1, <2>2, <3>1, <4>2, <4>6, ListedIsExtracted
      <3> QED BY <3>2, <3>3
    <2>3. \A i : i \in AnalysedSignatures(file) \/ i \in ExtractedSignatures(file)
                   => i \in 1 .. Len(file) /\ file[i].sig # NoSig
      BY <2>1 DEF AnalysedSignatures, ExtractedSignatures
    <2> QED BY <2>1, <2>2, <2>3 DEF SignaturesReachable
  <1>2. IInv /\ FilesInv => SignaturesStayListed
    BY <1>1 DEF FilesInv, SignaturesStayListed
  <1> QED BY <1>2, FilesInvariance, PTL

\* A signature of the library ends a revision of its own.
LEMMA OwnEndsRevision ==
  ASSUME NEW doc, DocInv(doc), NEW i \in 1 .. Len(doc), IsOwn(doc[i])
  PROVE  FindSignatureRevision(doc, i) /\ (IsSignatureRevision(doc, i) \/ IsDocTimestamp(doc, i))
  <1> DEFINE t == doc[i].tail
  <1>1. t = <<"LF">> /\ i \in AnalysedSignatures(doc)
    BY OwnListed
  <1>2. Len(t) = 1 /\ t[1] = "LF" /\ t # <<>> /\ Last(t) = "LF"
    BY <1>1 DEF Last
  <1>3. AfterEof(doc, i) = t
    BY <1>2 DEF AfterEof
  <1>4. ScannedTail(doc, i) = 1
    BY <1>2, <1>3 DEF ScannedTail
  <1> QED BY <1>1, <1>2, <1>4 DEF FindSignatureRevision, IsSignatureRevision, IsDocTimestamp

\* A DSS update is a safe one.
LEMMA DssIsSafe ==
  ASSUME NEW doc, NEW j \in Nat, j # 1, ValidDss(doc, j)
  PROVE  SafeUpdate(doc, j)
BY DEF ValidDss, SafeUpdate, Classify

\* What is known of every signature's verdict.
LEMMA VerdictFacts ==
  ASSUME NEW doc, NEW i, NEW r, r = ResultFor(doc, i)
  PROVE  /\ r.crypto \in {"valid", "invalid"}
         /\ r.digest \in BOOLEAN /\ r.integrity \in BOOLEAN /\ r.trusted \in BOOLEAN
         /\ ExtendedByNonSafe(doc, i) => r.extended = "yes"
BY DEF ResultFor, IntegrityHolds, IsWhole

\* NotShielded: an alteration behind signatures and DSS updates fails the policy
\* that forbids modifications.
THEOREM NotShieldedCorrect ==
  ASSUME EditorsOnly, KnownBases, RequireNoModifications
  PROVE  Spec => []NotShielded
  <1>1. ASSUME DocInv(file), NEW i \in ExtractedSignatures(file), NEW j \in DOMAIN file,
               i < j, AltersDocument(file, j), FindSignatureRevision(file, i),
               \A k \in i + 1 .. j - 1 : file[k].sig # NoSig \/ ValidDss(file, k)
        PROVE  BasicOf(file, i) = "failed"
    <2>1. /\ IsDocument(file) /\ DOMAIN file = 1 .. Len(file) /\ Len(file) \in Nat
          /\ i \in 1 .. Len(file) /\ file[i].sig # NoSig
      BY <1>1, DocumentFacts DEF DocInv, ExtractedSignatures
    <2>2. i # 1
      BY <1>1, <2>1 DEF DocInv
    <2>3. j \in 2 .. Len(file) /\ j \in i + 1 .. Len(file) /\ j # 1 /\ j \in Nat
      BY <1>1, <2>1
    <2>4. ~SafeUpdate(file, j) /\ file[j].sig = NoSig
      BY <1>1, <2>3, AlterationIsUnsafe
    <2>5. ~IsSignatureRevision(file, j) /\ ~IsDocTimestamp(file, j) /\ ~ValidDss(file, j)
      BY <2>3, <2>4, DssIsSafe DEF IsSignatureRevision, IsDocTimestamp, AnalysedSignatures
    <2>6. ASSUME NEW k \in i + 1 .. j - 1
          PROVE  IsSignatureRevision(file, k) \/ IsDocTimestamp(file, k) \/ ValidDss(file, k)
      <3>1. k \in 2 .. Len(file) /\ k \in 1 .. Len(file) /\ k # 2
        BY <2>1, <2>2, <2>3
      <3>2. file[k].sig # NoSig => IsOwn(file[k])
        BY <1>1, <3>1 DEF DocInv, StepOk
      <3> QED BY <1>1, <3>1, <3>2, OwnEndsRevision
    <2>7. ExtendedByNonSafe(file, i)
      BY <1>1, <2>3, <2>4, <2>5, <2>6 DEF ExtendedByNonSafe
    <2> DEFINE r == ResultFor(file, i)
    <2>8. /\ r.crypto \in {"valid", "invalid"} /\ r.extended = "yes"
          /\ r.digest \in BOOLEAN /\ r.integrity \in BOOLEAN /\ r.trusted \in BOOLEAN
      BY <2>7, VerdictFacts
    <2> HIDE DEF r
    <2>9. Status(r) # "indeterminate"
      BY <2>8 DEF Status
    <2>10. Basic(r) = "failed"
      BY <2>8, <2>9 DEF Basic, ModificationsFail
    <2> QED BY <2>10 DEF r, BasicOf
  <1>2. IInv /\ FilesInv => NotShielded
    BY <1>1 DEF FilesInv, NotShielded
  <1> QED BY <1>2, FilesInvariance, PTL

-----------------------------------------------------------------------------
(* Updates that do not look like alterations. *)

\* A graph whose changes the analysis can tell from hooks.
Tame(st) ==
  /\ st[Content].data \in Nat /\ st[TextField].v \in Nat
  /\ st[Catalog].ext \in {0, 1} /\ ~st[Catalog].null
  /\ OwnAnnots(st)

\* a reader sees a change from prev to curr
Visible(prev, curr) ==
  \/ prev[Content] # curr[Content] \/ prev[TextField] # curr[TextField]
  \/ prev[Catalog].lang # curr[Catalog].lang
  \/ \E p \in ToSet(PageIds) :
       \E a \in AnnotRefs(curr, curr[p]) \ AnnotRefs(prev, prev[p]) :
         a \in DOMAIN curr /\ curr[a] = Annotation(FALSE)

\* the analysis calls the update that rewrote changed a safe one
Harmless(prev, curr, changed, sigRev) ==
  /\ Catalog \in changed => ChangedRootItems(prev[Catalog], curr[Catalog]) \subseteq {"AcroForm"}
  /\ \A n \in changed \ {Catalog} :
       \/ OnlyNewAnnotations(prev, curr, n, sigRev)
       \/ n \in RootSafe(curr, Catalog \in changed) \cup ClassifierSafe(curr)

\* prev with the objects objs over it, both in order
Updated(prev, objs, curr) ==
  /\ WellFormed(prev) /\ WellFormed(curr) /\ KindsKept(prev, curr)
  /\ Overwrites(prev, objs, curr) /\ Tame(prev)

\* What a page lists itself is what it refers to.
LEMMA OwnRefs ==
  ASSUME NEW st, WellFormed(st), OwnAnnots(st), NEW p \in ToSet(PageIds)
  PROVE  AnnotRefs(st, st[p]) = ToSet(st[p].annots.items)
  <1> DEFINE e == st[p].annots
  <1>1. /\ st[p] = Page(e, st[p].content, FALSE) /\ EntryOk(st, e)
        /\ e.shape # "ref"
    BY PlaceFacts DEF OwnAnnots
  <1>2. st[p].kind = "page"
    BY DEF WellFormed, PlacesOk
  <1> HIDE DEF e
  <1>3. Items(st, e) = e.items
    BY <1>1 DEF EntryOk, Items, Absent
  <1> QED BY <1>2, <1>3 DEF AnnotRefs, e

\* A page that gains nothing but invisible annotations passes.
LEMMA PagePasses ==
  ASSUME NEW prev, NEW curr, WellFormed(prev), WellFormed(curr), OwnAnnots(prev), OwnAnnots(curr),
         NEW p \in ToSet(PageIds), curr[p].content = prev[p].content, NEW sigRev,
         ToSet(prev[p].annots.items) \subseteq ToSet(curr[p].annots.items),
         \A a \in ToSet(curr[p].annots.items) \ ToSet(prev[p].annots.items) :
           a \in DOMAIN curr /\ Invisible(curr[a], sigRev)
  PROVE  OnlyNewAnnotations(prev, curr, p, sigRev)
  <1> DEFINE old == prev[p]
             new == curr[p]
  <1>1. AnnotRefs(prev, old) = ToSet(old.annots.items) /\ AnnotRefs(curr, new) = ToSet(new.annots.items)
    BY OwnRefs
  <1>2. old.kind = "page" /\ new.kind = "page" /\ ~old.null /\ ~new.null
    <2>1. old = Page(old.annots, old.content, FALSE) /\ new = Page(new.annots, new.content, FALSE)
      BY PlaceFacts
    <2>2. \A e, ct : Page(e, ct, FALSE).kind = "page" /\ ~Page(e, ct, FALSE).null
      BY DEF Page
    <2> HIDE DEF old, new
    <2> QED BY <2>1, <2>2
  <1>3. old.content = new.content
    OBVIOUS
  <1>4. \A a \in AnnotRefs(curr, new) \ AnnotRefs(prev, old) : a \in DOMAIN curr /\ Invisible(curr[a], sigRev)
    BY <1>1
  <1>5. AnnotRefs(prev, old) \subseteq AnnotRefs(curr, new)
    BY <1>1
  <1> HIDE DEF old, new
  <1>6. OtherKeysMatch(old, new, sigRev)
    BY <1>2, <1>3 DEF OtherKeysMatch
  <1>7. ~IsAnnotation(old) /\ IsDictionary(old) /\ IsDictionary(new)
    BY <1>2 DEF IsAnnotation, IsDictionary
  <1> QED BY <1>4, <1>5, <1>6, <1>7 DEF OnlyNewAnnotations, old, new

\* A catalog in which only the form, and entries that were absent, differ passes.
LEMMA RootPasses ==
  ASSUME NEW old, NEW new, ~old.null, new.lang = old.lang,
         old.perms = 0 \/ new.perms = old.perms, old.dss = 0 \/ new.dss = old.dss,
         old.ext = 0 \/ new.ext = 0 \/ new.ext = old.ext
  PROVE  ChangedRootItems(old, new) \subseteq {"AcroForm"}
  <1>1. ASSUME NEW k \in ChangedRootItems(old, new), k # "AcroForm"
        PROVE  FALSE
    <2>1. k \in {"Perms", "DSS", "Extensions", "Lang", "nulls"}
      BY <1>1 DEF ChangedRootItems
    <2>2. k # "Perms"
      BY <1>1 DEF ChangedRootItems
    <2>3. k # "DSS"
      BY <1>1 DEF ChangedRootItems
    <2>4. k # "Extensions"
      BY <1>1 DEF ChangedRootItems
    <2>5. k # "Lang"
      BY <1>1 DEF ChangedRootItems
    <2>6. k # "nulls"
      BY <1>1 DEF ChangedRootItems
    <2> QED BY <2>1, <2>2, <2>3, <2>4, <2>5, <2>6
  <1> QED BY <1>1

\* A graph stays tame when what is written is.
LEMMA TameKept ==
  ASSUME NEW prev, NEW objs, NEW curr, Updated(prev, objs, curr),
         Content \in DOMAIN objs => objs[Content].data \in Nat,
         TextField \in DOMAIN objs => objs[TextField].v \in Nat,
         Catalog \in DOMAIN objs => objs[Catalog].ext \in {0, 1} /\ ~objs[Catalog].null,
         \A p \in ToSet(PageIds) \cap DOMAIN objs :
           objs[p].annots.shape # "ref" /\ ToSet(objs[p].annots.items) \subseteq DOMAIN curr
  PROVE  Tame(curr)
  <1>1. /\ Catalog \in DOMAIN prev /\ Content \in DOMAIN prev /\ TextField \in DOMAIN prev
        /\ \A p \in ToSet(PageIds) : p \in DOMAIN prev
    BY DEF Updated, WellFormed, PlacesOk
  <1>2. /\ curr[Content].data \in Nat /\ curr[TextField].v \in Nat
        /\ curr[Catalog].ext \in {0, 1} /\ ~curr[Catalog].null
    BY <1>1 DEF Updated, Overwrites, Tame
  <1>3. OwnAnnots(curr)
    <2> SUFFICES ASSUME NEW p \in ToSet(PageIds)
                 PROVE  curr[p].annots.shape # "ref" /\ ToSet(curr[p].annots.items) \subseteq DOMAIN curr
      BY DEF OwnAnnots
    <2>1. CASE p \in DOMAIN objs
      BY <2>1 DEF Updated, Overwrites
    <2>2. CASE p \notin DOMAIN objs
      <3>1. curr[p] = prev[p] /\ DOMAIN prev \subseteq DOMAIN curr
        BY <1>1, <2>2 DEF Updated, Overwrites
      <3> QED BY <3>1 DEF Updated, Tame, OwnAnnots
    <2> QED BY <2>1, <2>2
  <1> QED BY <1>2, <1>3 DEF Tame

\* what an editor's update does
Effects(prev, objs, curr, sigRev) ==
  /\ Tame(curr) /\ curr[Catalog].perms = prev[Catalog].perms
  /\ Visible(prev, curr) \/ Harmless(prev, curr, DOMAIN objs \cap DOMAIN prev, sigRev)

\* The graph around an update.
LEMMA WrittenPlaces ==
  ASSUME NEW prev, NEW objs, NEW curr, Updated(prev, objs, curr)
  PROVE  /\ CatalogOk(prev, prev[Catalog]) /\ prev[Catalog].kind = "catalog"
         /\ prev[Content] = Stream(prev[Content].data) /\ prev[TextField] = Field("Tx", prev[TextField].v)
         /\ prev[Content].data \in Nat /\ prev[TextField].v \in Nat
         /\ prev[Catalog].ext \in {0, 1} /\ ~prev[Catalog].null
         /\ Catalog \in DOMAIN prev /\ Content \in DOMAIN prev /\ TextField \in DOMAIN prev
         /\ Catalog # Content /\ Catalog # TextField /\ Content # TextField
         /\ \A p \in ToSet(PageIds) :
              /\ p \in DOMAIN prev /\ p \notin {Catalog, Content, TextField}
              /\ prev[p] = Page(prev[p].annots, prev[p].content, FALSE)
              /\ EntryOk(prev, prev[p].annots) /\ prev[p].annots.shape # "ref"
              /\ ToSet(prev[p].annots.items) \subseteq DOMAIN prev
BY PlaceFacts DEF Updated, Tame, OwnAnnots, WellFormed, PlacesOk

\* objs is the object n of prev with the value v, and so is the update
Rewrites(prev, n, v, objs, curr) == n \in DOMAIN prev /\ objs = Obj(n, v) /\ Updated(prev, objs, curr)
Rewritten(prev, n, v, objs, curr) ==
  /\ DOMAIN objs = {n} /\ objs[n] = v /\ DOMAIN objs \cap DOMAIN prev = {n}
  /\ curr[n] = v /\ DOMAIN curr = DOMAIN prev
  /\ \A m \in DOMAIN prev : m # n => curr[m] = prev[m]

\* One object written over: nothing else changes.
LEMMA SingleEffects ==
  ASSUME NEW prev, NEW n, NEW v, NEW objs, NEW curr, Rewrites(prev, n, v, objs, curr)
  PROVE  Rewritten(prev, n, v, objs, curr)
  <1>1. DOMAIN objs = {n} /\ objs[n] = v
    BY Single DEF Rewrites
  <1> QED BY <1>1 DEF Rewrites, Rewritten, Updated, Overwrites

\* Saving a page as it is changes nothing.
LEMMA SavePageEffects ==
  ASSUME NEW prev, NEW objs, objs = SavePage(prev), NEW curr, Updated(prev, objs, curr), NEW sigRev
  PROVE  Effects(prev, objs, curr, sigRev)
  <1> DEFINE p == PageIds[1]
  <1>1. p \in ToSet(PageIds)
    BY DocumentAssumption, OtherProgramsAssumption DEF ToSet
  <1>2. objs = Obj(p, prev[p])
    BY DEF SavePage
  <1> HIDE DEF p
  <1>3. p \in DOMAIN prev /\ p # Catalog /\ p # Content /\ p # TextField /\ Catalog \in DOMAIN prev
    BY <1>1, WrittenPlaces
  <1> DEFINE v == prev[p]
  <1>4. /\ DOMAIN objs = {p} /\ objs[p] = v /\ DOMAIN objs \cap DOMAIN prev = {p}
        /\ curr[p] = v /\ DOMAIN curr = DOMAIN prev
        /\ \A m \in DOMAIN prev : m # p => curr[m] = prev[m]
    <2> HIDE DEF v
    <2>1. Rewrites(prev, p, v, objs, curr)
      BY <1>2, <1>3 DEF Rewrites, v
    <2>2. Rewritten(prev, p, v, objs, curr)
      BY ONLY <2>1, SingleEffects
    <2> QED BY <2>2 DEF Rewritten
  <1>5. Tame(curr)
    <2>1. v.annots.shape # "ref" /\ ToSet(v.annots.items) \subseteq DOMAIN curr
      BY <1>1, <1>4, WrittenPlaces
    <2> HIDE DEF v
    <2> QED BY <1>3, <1>4, <2>1, TameKept
  <1>6. OnlyNewAnnotations(prev, curr, p, sigRev)
    <2>1. curr[p] = prev[p]
      BY <1>4
    <2> QED BY <1>1, <1>5, <2>1, PagePasses DEF Updated, Tame
  <1>7. Harmless(prev, curr, {p}, sigRev)
    BY <1>3, <1>6 DEF Harmless
  <1> QED BY <1>3, <1>4, <1>5, <1>7 DEF Effects

\* Another content, field value or language shows.
LEMMA PlainEffects ==
  ASSUME NEW prev, NEW objs, objs \in {ChangeContent(prev), FillField(prev), ChangeLang(prev)},
         NEW curr, Updated(prev, objs, curr), NEW sigRev
  PROVE  Effects(prev, objs, curr, sigRev)
  <1>0. /\ CatalogOk(prev, prev[Catalog]) /\ prev[Catalog].kind = "catalog"
        /\ prev[Content] = Stream(prev[Content].data) /\ prev[TextField] = Field("Tx", prev[TextField].v)
        /\ prev[Content].data \in Nat /\ prev[TextField].v \in Nat
        /\ prev[Catalog].ext \in {0, 1} /\ ~prev[Catalog].null
        /\ Catalog \in DOMAIN prev /\ Content \in DOMAIN prev /\ TextField \in DOMAIN prev
        /\ Catalog # Content /\ Catalog # TextField /\ Content # TextField
        /\ \A p \in ToSet(PageIds) : p \in DOMAIN prev /\ p \notin {Catalog, Content, TextField}
    BY WrittenPlaces
  <1>1. CASE objs = ChangeContent(prev)
    <2> DEFINE k == prev[Content].data
               v == Stream(k + 1)
    <2>1. objs = Obj(Content, v)
      BY <1>1 DEF ChangeContent
    <2>2. v.data = k + 1 /\ Stream(k).data = k
      BY DEF Stream
    <2> HIDE DEF v
    <2>3. /\ DOMAIN objs = {Content} /\ objs[Content] = v /\ curr[Content] = v
          /\ \A m \in DOMAIN prev : m # Content => curr[m] = prev[m]
      <3> DEFINE n == Content
      <3>1. n = Content /\ Rewrites(prev, n, v, objs, curr)
        BY <1>0, <2>1 DEF Rewrites
      <3> HIDE DEF n
      <3>2. Rewritten(prev, n, v, objs, curr)
        BY ONLY <3>1, SingleEffects
      <3> QED BY <3>1, <3>2 DEF Rewritten
    <2>4. prev[Content] # curr[Content]
      BY <1>0, <2>2, <2>3
    <2>5. Tame(curr)
      BY <1>0, <2>2, <2>3, TameKept
    <2> QED BY <1>0, <2>3, <2>4, <2>5 DEF Effects, Visible
  <1>2. CASE objs = FillField(prev)
    <2> DEFINE k == prev[TextField].v
               v == Field("Tx", k + 1)
    <2>1. objs = Obj(TextField, v)
      BY <1>2 DEF FillField
    <2>2. v.v = k + 1 /\ Field("Tx", k).v = k
      BY MadeValues
    <2> HIDE DEF v
    <2>3. /\ DOMAIN objs = {TextField} /\ objs[TextField] = v /\ curr[TextField] = v
          /\ \A m \in DOMAIN prev : m # TextField => curr[m] = prev[m]
      <3> DEFINE n == TextField
      <3>1. n = TextField /\ Rewrites(prev, n, v, objs, curr)
        BY <1>0, <2>1 DEF Rewrites
      <3> HIDE DEF n
      <3>2. Rewritten(prev, n, v, objs, curr)
        BY ONLY <3>1, SingleEffects
      <3> QED BY <3>1, <3>2 DEF Rewritten
    <2>4. prev[TextField] # curr[TextField]
      BY <1>0, <2>2, <2>3
    <2>5. Tame(curr)
      BY <1>0, <2>2, <2>3, TameKept
    <2> QED BY <1>0, <2>3, <2>4, <2>5 DEF Effects, Visible
  <1>3. CASE objs = ChangeLang(prev)
    <2> DEFINE c == prev[Catalog]
               v == WithLang(c)
    <2>1. objs = Obj(Catalog, v)
      BY <1>3 DEF ChangeLang, WithLang
    <2>2. v.lang = c.lang + 1 /\ c.lang \in Nat
      <3> HIDE DEF c
      <3>1. v.lang = c.lang + 1
        BY <1>0, LangFacts DEF c
      <3> QED BY <1>0, <3>1 DEF CatalogOk, c
    <2>3. v.perms = c.perms /\ v.ext = c.ext /\ v.null = c.null
      <3> HIDE DEF c
      <3> DEFINE one == 1
                 nil == 0
      <3> HIDE DEF one, nil
      <3>1. v = [kind |-> "catalog", form |-> c.form, perms |-> c.perms, dss |-> c.dss,
                 ext |-> c.ext, lang |-> c.lang + 1, null |-> c.null]
        BY <1>0, CatalogEntries DEF c
      <3> HIDE DEF v
      <3> QED BY <3>1
    <2> HIDE DEF v
    <2>4. /\ DOMAIN objs = {Catalog} /\ objs[Catalog] = v /\ curr[Catalog] = v
          /\ \A m \in DOMAIN prev : m # Catalog => curr[m] = prev[m]
      <3>1. Rewrites(prev, Catalog, v, objs, curr)
        BY <1>0, <2>1 DEF Rewrites
      <3>2. Rewritten(prev, Catalog, v, objs, curr)
        BY ONLY <3>1, SingleEffects
      <3> QED BY <3>2 DEF Rewritten
    <2>5. prev[Catalog].lang # curr[Catalog].lang
      BY <2>2, <2>4
    <2>6. Tame(curr)
      BY <1>0, <2>3, <2>4, TameKept
    <2> QED BY <2>3, <2>4, <2>5, <2>6 DEF Effects, Visible
  <1> QED BY <1>1, <1>2, <1>3

\* objs is a new annotation on a page, and so is the update
Annotates(prev, objs, curr, next, hidden) ==
  /\ next \in Nat /\ next \notin DOMAIN prev
  /\ objs = AnnotatePage(prev, next, hidden) /\ Updated(prev, objs, curr)
Annotated(prev, objs, next, hidden) ==
  \E page \in ToSet(PageIds) :
    /\ DOMAIN objs = {next, page} /\ objs[next] = Annotation(hidden)
    /\ objs[page].content = prev[page].content /\ objs[page].annots.shape # "ref"
    /\ ToSet(objs[page].annots.items) = ToSet(prev[page].annots.items) \cup {next}

\* What annotating a page that lists its annotations itself writes.
LEMMA AnnotateObjects ==
  ASSUME NEW prev, NEW objs, NEW curr, NEW next, NEW hidden, Annotates(prev, objs, curr, next, hidden)
  PROVE  Annotated(prev, objs, next, hidden)
  <1> DEFINE page == PageIds[Len(PageIds)]
             e  == prev[page].annots
             x  == Extend(prev, e, next)
             an == Annotation(hidden)
             pg == [prev[page] EXCEPT !.annots = x[1]]
             l  == Append(e.items, next)
             o1 == Obj(next, an)
             o2 == Obj(page, pg)
             o3 == x[2]
  <1>1. page \in ToSet(PageIds)
    <2>1. Len(PageIds) \in DOMAIN PageIds
      BY DocumentAssumption, OtherProgramsAssumption
    <2> QED BY <2>1 DEF ToSet
  <1>0. Updated(prev, objs, curr) /\ next \notin DOMAIN prev
    BY DEF Annotates
  <1>2. objs = o1 ++ o2 ++ o3
    BY DEF Annotates, AnnotatePage
  <1> HIDE DEF page
  <1>3. /\ page \in DOMAIN prev /\ prev[page] = Page(e, prev[page].content, FALSE)
        /\ EntryOk(prev, e) /\ e.shape # "ref"
    BY <1>0, <1>1, WrittenPlaces
  <1>4. \A n \in DOMAIN prev : ValueOk(prev, prev[n])
    BY <1>0 DEF Updated, WellFormed
  <1>5. x[1] = Direct(l) /\ DOMAIN o3 = {}
    <2> HIDE DEF e, x
    <2> QED BY <1>3, <1>4, ExtendFactsOf DEF x
  <1>6. ToSet(l) = ToSet(e.items) \cup {next}
    <2>1. IsList(e.items)
      BY <1>3 DEF EntryOk
    <2> HIDE DEF e
    <2> QED BY <2>1, AppendList
  <1>7. pg.annots = x[1] /\ pg.content = prev[page].content
    <2> HIDE DEF e, x
    <2>1. pg = Page(x[1], prev[page].content, FALSE)
      BY <1>3, PageWith DEF e
    <2> DEFINE a  == x[1]
               ct == prev[page].content
    <2>2. pg = Page(a, ct, FALSE)
      BY <2>1
    <2> HIDE DEF pg, a, ct
    <2>3. pg.annots = a /\ pg.content = ct
      BY <2>2, PageKind
    <2> QED BY <2>3 DEF a, ct
  <1>11. Direct(l).items = l /\ Direct(l).shape # "ref"
    <2> HIDE DEF l
    <2> QED BY DEF Direct
  <1>8. DOMAIN o1 = {next} /\ o1[next] = an /\ DOMAIN o2 = {page} /\ o2[page] = pg
    BY Single
  <1> HIDE DEF o1, o2, o3, pg, an, x, l, e
  <1>9. next # page
    BY <1>0, <1>3
  <1>10. DOMAIN objs = {next, page} /\ objs[next] = an /\ objs[page] = pg
    BY <1>2, <1>5, <1>8, <1>9 DEF ++
  <1> QED BY <1>1, <1>5, <1>6, <1>7, <1>10, <1>11 DEF an, e, Annotated

\* An annotation shows unless it is hidden.
LEMMA AnnotateEffects ==
  ASSUME NEW prev, NEW objs, NEW curr, Updated(prev, objs, curr), NEW next \in Nat,
         next \notin DOMAIN prev, NEW hidden \in BOOLEAN, objs = AnnotatePage(prev, next, hidden), NEW sigRev
  PROVE  Effects(prev, objs, curr, sigRev)
  <1>1. PICK page \in ToSet(PageIds) :
           /\ DOMAIN objs = {next, page} /\ objs[next] = Annotation(hidden)
           /\ objs[page].content = prev[page].content /\ objs[page].annots.shape # "ref"
           /\ ToSet(objs[page].annots.items) = ToSet(prev[page].annots.items) \cup {next}
    <2>1. Annotates(prev, objs, curr, next, hidden)
      BY DEF Annotates
    <2>2. Annotated(prev, objs, next, hidden)
      BY ONLY <2>1, AnnotateObjects
    <2> QED BY <2>2 DEF Annotated
  <1> DEFINE an == Annotation(hidden)
             pg == objs[page]
  <1>4. an.kind = "annot" /\ an.hidden = hidden
    BY DEF Annotation
  <1>5. /\ DOMAIN objs = {next, page} /\ objs[next] = an /\ objs[page] = pg
        /\ pg.content = prev[page].content /\ pg.annots.shape # "ref"
        /\ ToSet(pg.annots.items) = ToSet(prev[page].annots.items) \cup {next}
    BY <1>1
  <1> HIDE DEF an, pg
  <1>6. /\ page \in DOMAIN prev /\ page \notin {Catalog, Content, TextField}
        /\ Catalog \in DOMAIN prev /\ Content \in DOMAIN prev /\ TextField \in DOMAIN prev
        /\ ToSet(prev[page].annots.items) \subseteq DOMAIN prev
        /\ \A p \in ToSet(PageIds) : p \in DOMAIN prev
    BY WrittenPlaces
  <1>7. /\ next \in DOMAIN curr /\ curr[next] = an /\ curr[page] = pg /\ DOMAIN prev \subseteq DOMAIN curr
        /\ curr[Catalog] = prev[Catalog]
    BY <1>5, <1>6 DEF Updated, Overwrites
  <1>8. Tame(curr)
    <2>1. next \notin ToSet(PageIds) /\ Catalog \notin DOMAIN objs /\ Content \notin DOMAIN objs
          /\ TextField \notin DOMAIN objs
      BY <1>5, <1>6
    <2>2. pg.annots.shape # "ref" /\ ToSet(pg.annots.items) \subseteq DOMAIN curr
      BY <1>5, <1>6, <1>7
    <2>3. \A p \in ToSet(PageIds) \cap DOMAIN objs :
            objs[p].annots.shape # "ref" /\ ToSet(objs[p].annots.items) \subseteq DOMAIN curr
      BY <1>5, <2>1, <2>2
    <2> QED BY <2>1, <2>3, TameKept
  <1>9. ToSet(curr[page].annots.items) = ToSet(prev[page].annots.items) \cup {next}
        /\ next \notin ToSet(prev[page].annots.items)
    BY <1>5, <1>6, <1>7
  <1>10. CASE hidden
    <2>1. Invisible(an, sigRev)
      BY <1>4, <1>10 DEF Invisible, IsAnnotation
    <2>2. OnlyNewAnnotations(prev, curr, page, sigRev)
      BY <1>5, <1>7, <1>8, <1>9, <2>1, PagePasses DEF Updated, Tame
    <2>3. DOMAIN objs \cap DOMAIN prev = {page}
      BY <1>5, <1>6
    <2>4. Harmless(prev, curr, {page}, sigRev)
      BY <1>6, <2>2 DEF Harmless
    <2> QED BY <1>7, <1>8, <2>3, <2>4 DEF Effects
  <1>11. CASE ~hidden
    <2>1. an = Annotation(FALSE)
      BY <1>11 DEF an
    <2>2. AnnotRefs(curr, curr[page]) = ToSet(curr[page].annots.items)
          /\ AnnotRefs(prev, prev[page]) = ToSet(prev[page].annots.items)
      BY <1>8, OwnRefs DEF Updated, Tame
    <2>3. Visible(prev, curr)
      BY <1>7, <1>9, <2>1, <2>2 DEF Visible
    <2> QED BY <1>7, <1>8, <2>3 DEF Effects
  <1> QED BY <1>10, <1>11

\* A first DSS and one more stream in it do not show.
LEMMA DssEffects ==
  ASSUME NEW prev, NEW objs, NEW curr, Updated(prev, objs, curr), ~Strict, NEW next \in Nat,
         \A n \in DOMAIN prev : n \in Nat \ {0} /\ n < next, NEW sigRev,
         \/ prev[Catalog].dss = 0 /\ \E ext \in BOOLEAN : objs = AddDss(prev, next, ext)
         \/ prev[Catalog].dss # 0 /\ objs = GrowDss(prev, next)
  PROVE  Effects(prev, objs, curr, sigRev)
  <1> DEFINE c == prev[Catalog]
  <1>1. /\ CatalogOk(prev, c) /\ c.kind = "catalog" /\ c.ext \in {0, 1} /\ ~c.null
        /\ Catalog \in DOMAIN prev /\ Content \in DOMAIN prev /\ TextField \in DOMAIN prev
        /\ prev[Content] = Stream(prev[Content].data) /\ prev[TextField] = Field("Tx", prev[TextField].v)
        /\ Catalog # Content /\ Catalog # TextField
        /\ \A p \in ToSet(PageIds) :
             /\ p \in DOMAIN prev /\ p \notin {Catalog, Content, TextField}
             /\ prev[p] = Page(prev[p].annots, prev[p].content, FALSE)
    BY WrittenPlaces
  <1>2. next \notin DOMAIN prev /\ next + 1 \notin DOMAIN prev /\ next # next + 1
    OBVIOUS
  <1> HIDE DEF c
  <1>3. ASSUME c.dss = 0, NEW ext \in BOOLEAN, objs = AddDss(prev, next, ext)
        PROVE  Effects(prev, objs, curr, sigRev)
    <2> DEFINE y  == IF ext THEN 1 ELSE c.ext
               c2 == WithDss(c, next, y)
               d  == Dss({next + 1})
               s  == Stream(next + 1)
               o1 == Obj(next, d)
               o2 == Obj(next + 1, s)
               o3 == Obj(Catalog, c2)
    <2>1. objs = o1 ++ o2 ++ o3
      BY <1>3 DEF AddDss, WithDss, c
    <2>2. y \in {0, 1}
      BY <1>1
    <2> HIDE DEF y
    <2>3. /\ c2.perms = c.perms /\ c2.ext = y /\ c2.lang = c.lang /\ c2.null = c.null
      <3>1. c2 = [kind |-> "catalog", form |-> c.form, perms |-> c.perms, dss |-> next,
                  ext |-> y, lang |-> c.lang, null |-> c.null]
        BY <1>1, CatalogEntries
      <3> HIDE DEF c2
      <3> QED BY <3>1
    <2>4. DOMAIN o1 = {next} /\ DOMAIN o2 = {next + 1} /\ DOMAIN o3 = {Catalog} /\ o3[Catalog] = c2
      BY Single
    <2> HIDE DEF c2, o1, o2, o3
    <2>5. DOMAIN objs = {next, next + 1, Catalog} /\ objs[Catalog] = c2
      <3> DEFINE o4 == o1 ++ o2
      <3>1. DOMAIN o4 = {next, next + 1} /\ objs = o4 ++ o3
        BY <2>1, <2>4 DEF ++
      <3> HIDE DEF o4
      <3> QED BY <1>1, <1>2, <2>4, <3>1 DEF ++
    <2>6. curr[Catalog] = c2 /\ DOMAIN objs \cap DOMAIN prev = {Catalog}
      BY <1>1, <1>2, <2>5 DEF Updated, Overwrites
    <2>7. Tame(curr)
      <3>1. Content \notin DOMAIN objs /\ TextField \notin DOMAIN objs
            /\ \A p \in ToSet(PageIds) : p \notin DOMAIN objs
        BY <1>1, <1>2, <2>5
      <3>2. objs[Catalog].ext \in {0, 1} /\ ~objs[Catalog].null
        BY <1>1, <2>2, <2>3, <2>5
      <3> QED BY <3>1, <3>2, TameKept
    <2>8. ChangedRootItems(c, c2) \subseteq {"AcroForm"}
      <3>1. c.ext = 0 \/ c2.ext = 0 \/ c2.ext = c.ext
        BY <1>1, <2>2, <2>3
      <3> QED BY <1>1, <1>3, <2>3, <3>1, RootPasses
    <2>9. Harmless(prev, curr, {Catalog}, sigRev)
      BY <2>6, <2>8 DEF Harmless, c
    <2> QED BY <2>3, <2>6, <2>7, <2>9 DEF Effects, c
  <1>4. ASSUME c.dss # 0, objs = GrowDss(prev, next)
        PROVE  Effects(prev, objs, curr, sigRev)
    <2> DEFINE k  == c.dss
               d  == Dss(prev[k].refs \cup {next})
               s  == Stream(next)
               o1 == Obj(k, d)
               o2 == Obj(next, s)
    <2>1. objs = o1 ++ o2
      BY <1>4 DEF GrowDss, c
    <2>2. k \in DOMAIN prev /\ prev[k].kind = "dss"
      BY <1>1, <1>4 DEF CatalogOk
    <2>3. DOMAIN o1 = {k} /\ DOMAIN o2 = {next}
      BY Single
    <2> HIDE DEF o1, o2, k
    <2>4. DOMAIN objs = {k, next}
      BY <2>1, <2>3 DEF ++
    <2>5. k # Catalog /\ k # Content /\ k # TextField /\ k \notin ToSet(PageIds)
      <3>1. prev[Content].kind = "stream" /\ prev[TextField].kind = "field"
            /\ \A p \in ToSet(PageIds) : prev[p].kind = "page"
        BY PlaceFacts DEF Updated, WellFormed, PlacesOk
      <3> QED BY <1>1, <2>2, <3>1 DEF c
    <2>6. /\ DOMAIN objs \cap DOMAIN prev = {k} /\ curr[Catalog] = c
          /\ Catalog \notin DOMAIN objs /\ Content \notin DOMAIN objs /\ TextField \notin DOMAIN objs
          /\ \A p \in ToSet(PageIds) : p \notin DOMAIN objs
      BY <1>1, <1>2, <2>2, <2>4, <2>5 DEF Updated, Overwrites, c
    <2>7. Tame(curr)
      BY <2>6, TameKept
    <2>8. k \in ClassifierSafe(curr)
      BY <1>4, <2>6 DEF ClassifierSafe, k
    <2>9. Harmless(prev, curr, {k}, sigRev)
      BY <2>5, <2>8 DEF Harmless
    <2> QED BY <2>6, <2>7, <2>9 DEF Effects, c
  <1> QED BY <1>3, <1>4 DEF c

\* New metadata pass the classifier.
LEMMA MetadataEffects ==
  ASSUME NEW prev, NEW objs, objs = ChangeMetadata(prev), NEW curr, Updated(prev, objs, curr),
         ~Strict, NEW sigRev
  PROVE  Effects(prev, objs, curr, sigRev)
  <1> DEFINE v == Stream(prev[Metadata].data + 1)
  <1>1. /\ Metadata \in DOMAIN prev /\ prev[Metadata].kind = "stream" /\ Catalog \in DOMAIN prev
        /\ prev[Catalog].kind = "catalog" /\ Metadata # Catalog
        /\ Metadata \notin {Content, TextField} \cup ToSet(PageIds)
    <2>1. Metadata \notin {Content, TextField} \cup ToSet(PageIds)
      BY OtherProgramsAssumption DEF Metadata, Content, TextField
    <2>2. PlacesOk(prev)
      BY DEF Updated, WellFormed
    <2> QED BY <2>1, <2>2 DEF PlacesOk
  <1>2. objs = Obj(Metadata, v)
    BY DEF ChangeMetadata
  <1> HIDE DEF v
  <1>3. Rewritten(prev, Metadata, v, objs, curr)
    BY <1>1, <1>2, SingleEffects DEF Rewrites
  <1>4. Tame(curr)
    <2>1. /\ Content \notin DOMAIN objs /\ TextField \notin DOMAIN objs /\ Catalog \notin DOMAIN objs
          /\ \A p \in ToSet(PageIds) : p \notin DOMAIN objs
      BY <1>1, <1>3 DEF Rewritten
    <2> QED BY <2>1, TameKept
  <1>5. curr[Catalog] = prev[Catalog]
    BY <1>1, <1>3 DEF Rewritten
  <1>6. Metadata \in ClassifierSafe(curr)
    BY ReferredAssumption DEF ClassifierSafe
  <1>7. Harmless(prev, curr, {Metadata}, sigRev)
    BY <1>1, <1>6 DEF Harmless
  <1> QED BY <1>3, <1>4, <1>5, <1>7 DEF Effects, Rewritten

\* Every update of an editor shows or passes.
LEMMA EditEffects ==
  ASSUME NEW prev, NEW objs, NEW curr, Updated(prev, objs, curr), ~Strict, IsEdit(prev, objs), NEW sigRev
  PROVE  Effects(prev, objs, curr, sigRev)
  <1>1. PICK next \in Nat : /\ \A n \in DOMAIN prev : n < next
                            /\ objs \in SafeEdits(prev, next) \cup UnsafeEdits(prev, next)
    BY DEF IsEdit
  <1>2. \A n \in DOMAIN prev : n \in Nat \ {0} /\ n < next
    BY <1>1 DEF Updated, WellFormed
  <1>3. next \notin DOMAIN prev
    BY <1>2
  <1> DEFINE yes == TRUE
             no  == FALSE
  <1>4. /\ yes \in BOOLEAN /\ no \in BOOLEAN
        /\ \/ objs = SavePage(prev) \/ objs = ChangeMetadata(prev)
           \/ objs = AnnotatePage(prev, next, yes)
           \/ objs = AnnotatePage(prev, next, no)
           \/ objs \in {ChangeContent(prev), FillField(prev), ChangeLang(prev)}
           \/ prev[Catalog].dss = 0 /\ \E ext \in BOOLEAN : objs = AddDss(prev, next, ext)
           \/ prev[Catalog].dss # 0 /\ objs = GrowDss(prev, next)
    BY <1>1 DEF SafeEdits, UnsafeEdits
  <1> HIDE DEF yes, no
  <1>5. CASE objs = SavePage(prev)
    BY <1>5, SavePageEffects
  <1>6. CASE objs = AnnotatePage(prev, next, yes)
    BY <1>3, <1>4, <1>6, AnnotateEffects
  <1>7. CASE objs = AnnotatePage(prev, next, no)
    BY <1>3, <1>4, <1>7, AnnotateEffects
  <1>8. CASE objs \in {ChangeContent(prev), FillField(prev), ChangeLang(prev)}
    BY <1>8, PlainEffects
  <1>9. CASE \/ prev[Catalog].dss = 0 /\ \E ext \in BOOLEAN : objs = AddDss(prev, next, ext)
             \/ prev[Catalog].dss # 0 /\ objs = GrowDss(prev, next)
    BY <1>2, <1>9, DssEffects
  <1>10. CASE objs = ChangeMetadata(prev)
    BY <1>10, MetadataEffects
  <1> QED BY <1>4, <1>5, <1>6, <1>7, <1>8, <1>9, <1>10

\* A list of annotations with one more.
LEMMA AnnotsWithItems ==
  ASSUME NEW st, NEW e, EntryOk(st, e), e.shape # "ref", NEW field
  PROVE  /\ AnnotsWith(e, field).shape # "ref"
         /\ ToSet(AnnotsWith(e, field).items) = ToSet(e.items) \cup {field}
  <1>1. \A s : Direct(s).items = s /\ Direct(s).shape # "ref"
    BY DEF Direct
  <1>2. CASE e.shape = "array"
    <2> DEFINE s == Append(e.items, field)
    <2>1. ToSet(s) = ToSet(e.items) \cup {field}
      BY AppendList DEF EntryOk
    <2> HIDE DEF s
    <2>2. AnnotsWith(e, field) = Direct(s)
      BY <1>2 DEF AnnotsWith, s
    <2> QED BY <1>1, <2>1, <2>2
  <1>3. CASE e.shape = "absent"
    <2> DEFINE s == <<field>>
    <2>1. ToSet(s) = {field}
      BY ShortLists
    <2>2. ToSet(e.items) = {}
      BY <1>3 DEF EntryOk, Absent, ToSet
    <2> HIDE DEF s
    <2>3. AnnotsWith(e, field) = Direct(s)
      BY <1>3 DEF AnnotsWith, s
    <2> QED BY <1>1, <2>1, <2>2, <2>3
  <1> QED BY <1>2, <1>3 DEF EntryOk

\* A signature of the library passes as a signature revision, unless it
\* certifies a file that has /Perms already.
LEMMA OwnEffects ==
  ASSUME NEW prev, NEW rev, NEW curr, Updated(prev, rev.objs, curr),
         NEW dict, NEW field, NEW id, NEW pid, Hooks(prev, rev, dict, field, id, pid),
         NEW sigRev, sigRev
  PROVE  /\ Tame(curr)
         /\ rev.sig.what # "certify" => curr[Catalog].perms = prev[Catalog].perms
         /\ (rev.sig.what # "certify" \/ prev[Catalog].perms = 0)
               => Harmless(prev, curr, DOMAIN rev.objs \cap DOMAIN prev, sigRev)
  <1> DEFINE objs    == rev.objs
             c       == prev[Catalog]
             what    == rev.sig.what
             changed == DOMAIN objs \cap DOMAIN prev
             e       == prev[pid].annots
             pg      == objs[pid]
             fd      == objs[field]
             cat     == objs[Catalog]
  <1>1. /\ pid \in ToSet(PageIds) /\ id # pid /\ Catalog # id /\ Catalog # pid
        /\ dict \notin DOMAIN prev /\ field \notin DOMAIN prev
        /\ IF c.form.at = "ref" THEN id = c.form.id ELSE id \notin DOMAIN prev
        /\ {dict, field, Catalog, id, pid} \subseteq DOMAIN objs
        /\ fd = Field("Sig", dict)
        /\ pg = Page(AnnotsWith(e, field), prev[pid].content, FALSE)
        /\ \A n \in DOMAIN objs \ {dict, field, Catalog, id, pid} : n \notin DOMAIN prev
    BY DEF Hooks
  <1>2. cat = [kind |-> "catalog", form |-> FormRef(id),
               perms |-> IF what = "certify" THEN dict ELSE c.perms,
               dss |-> c.dss, ext |-> c.ext, lang |-> c.lang, null |-> c.null]
    BY DEF Hooks
  <1> HIDE DEF c, what, cat
  <1>3. /\ cat.form = FormRef(id) /\ cat.perms = IF what = "certify" THEN dict ELSE c.perms
        /\ cat.dss = c.dss /\ cat.ext = c.ext /\ cat.lang = c.lang /\ cat.null = c.null
    BY <1>2
  <1>4. /\ CatalogOk(prev, c) /\ c.kind = "catalog" /\ c.ext \in {0, 1} /\ ~c.null
        /\ Catalog \in DOMAIN prev /\ Content \in DOMAIN prev /\ TextField \in DOMAIN prev
        /\ Catalog # Content /\ Catalog # TextField
        /\ \A p \in ToSet(PageIds) : p \in DOMAIN prev /\ p \notin {Catalog, Content, TextField}
        /\ EntryOk(prev, e) /\ e.shape # "ref" /\ ToSet(e.items) \subseteq DOMAIN prev
    BY <1>1, WrittenPlaces DEF c
  <1>5. /\ prev[Content].kind = "stream" /\ prev[TextField].kind = "field"
        /\ \A p \in ToSet(PageIds) : prev[p].kind = "page"
    BY PlaceFacts DEF Updated, WellFormed, PlacesOk
  <1>6. id \in DOMAIN prev => prev[id].kind = "acroform"
    BY <1>1, <1>4 DEF CatalogOk, FormOk
  <1>7. Catalog \in changed /\ changed \subseteq {Catalog, id, pid}
    BY <1>1, <1>4
  <1>8. /\ Content \notin DOMAIN objs /\ TextField \notin DOMAIN objs
        /\ \A p \in ToSet(PageIds) \cap DOMAIN objs : p = pid
    <2>1. \A n \in DOMAIN prev \cap DOMAIN objs : n \in {Catalog, id, pid}
      BY <1>7
    <2> HIDE DEF objs
    <2> QED BY <1>1, <1>4, <1>5, <1>6, <2>1
  <1>9. pg.annots = AnnotsWith(e, field) /\ pg.content = prev[pid].content
    <2> DEFINE a  == AnnotsWith(e, field)
               ct == prev[pid].content
    <2>1. pg = Page(a, ct, FALSE)
      BY <1>1
    <2> HIDE DEF pg, a, ct
    <2>2. pg.annots = a /\ pg.content = ct
      BY <2>1, PageKind
    <2> QED BY <2>2 DEF a, ct
  <1>10. pg.annots.shape # "ref" /\ ToSet(pg.annots.items) = ToSet(e.items) \cup {field}
    <2> HIDE DEF e, pg
    <2>1. EntryOk(prev, e) /\ e.shape # "ref"
      BY <1>4
    <2>2. /\ AnnotsWith(e, field).shape # "ref"
          /\ ToSet(AnnotsWith(e, field).items) = ToSet(e.items) \cup {field}
      BY ONLY <2>1, AnnotsWithItems
    <2> QED BY <1>9, <2>2
  <1>11. /\ curr[Catalog] = cat /\ curr[pid] = pg /\ field \in DOMAIN curr /\ curr[field] = fd
         /\ DOMAIN prev \subseteq DOMAIN curr
    BY <1>1 DEF Updated, Overwrites, cat
  <1> HIDE DEF pg, fd, e
  <1>12. Tame(curr)
    <2>1. cat.ext \in {0, 1} /\ ~cat.null
      BY <1>3, <1>4
    <2>2. pg.annots.shape # "ref" /\ ToSet(pg.annots.items) \subseteq DOMAIN curr
      BY <1>4, <1>10, <1>11
    <2>3. \A p \in ToSet(PageIds) \cap DOMAIN objs :
            objs[p].annots.shape # "ref" /\ ToSet(objs[p].annots.items) \subseteq DOMAIN curr
      BY <1>8, <2>2 DEF pg
    <2>4. /\ Updated(prev, objs, curr)
          /\ Catalog \in DOMAIN objs => objs[Catalog].ext \in {0, 1} /\ ~objs[Catalog].null
      BY <2>1 DEF cat
    <2> HIDE DEF objs
    <2> QED BY <1>8, <2>3, <2>4, TameKept
  <1>13. Invisible(fd, sigRev)
    <2>1. fd.kind = "field"
      BY <1>1, MadeValues
    <2> QED BY <2>1 DEF Invisible, IsAnnotation
  <1>14. OnlyNewAnnotations(prev, curr, pid, sigRev)
    <2>1. /\ curr[pid].content = prev[pid].content
          /\ ToSet(prev[pid].annots.items) \subseteq ToSet(curr[pid].annots.items)
          /\ \A a \in ToSet(curr[pid].annots.items) \ ToSet(prev[pid].annots.items) : a = field
      BY <1>9, <1>10, <1>11 DEF e
    <2>2. WellFormed(prev) /\ WellFormed(curr) /\ OwnAnnots(prev) /\ OwnAnnots(curr)
      BY <1>12 DEF Updated, Tame
    <2> QED BY <1>1, <1>11, <1>13, <2>1, <2>2, PagePasses
  <1>15. id \in RootSafe(curr, Catalog \in changed)
    <2>1. FormRef(id).at = "ref" /\ FormRef(id).id = id
      BY DEF FormRef
    <2> QED BY <1>3, <1>7, <1>11, <2>1 DEF RootSafe
  <1>16. (what # "certify" \/ c.perms = 0) => ChangedRootItems(c, cat) \subseteq {"AcroForm"}
    <2>1. SUFFICES ASSUME what # "certify" \/ c.perms = 0 PROVE ChangedRootItems(c, cat) \subseteq {"AcroForm"}
      OBVIOUS
    <2>2. c.perms = 0 \/ cat.perms = c.perms
      BY <1>3, <2>1
    <2> QED BY <1>3, <1>4, <2>2, RootPasses
  <1>17. (what # "certify" \/ c.perms = 0) => Harmless(prev, curr, changed, sigRev)
    <2>1. \A n \in changed \ {Catalog} : n = id \/ n = pid
      BY <1>7
    <2> HIDE DEF changed
    <2> QED BY <1>11, <1>14, <1>15, <1>16, <2>1 DEF Harmless, c
  <1>18. what # "certify" => curr[Catalog].perms = c.perms
    BY <1>3, <1>11
  <1> QED BY <1>12, <1>17, <1>18 DEF c, what

\* What a revision of a file does to a tame graph: nothing a reader sees that
\* passes for safe, and nothing else that does not, but certifying twice.
LEMMA StepEffects ==
  ASSUME NEW doc, DocInv(doc), ~Strict, NEW j \in 2 .. Len(doc), Tame(At(doc, j - 1))
  PROVE  /\ Tame(At(doc, j))
         /\ \/ doc[j].sig.what = "certify"
            \/ At(doc, j)[Catalog].perms = At(doc, j - 1)[Catalog].perms
         /\ (doc[j].sig = NoSig \/ IsOwn(doc[j])) =>
               \/ AltersDocument(doc, j) \/ SafeUpdate(doc, j)
               \/ doc[j].sig.what = "certify" /\ At(doc, j - 1)[Catalog].perms # 0
  <1> DEFINE prev   == At(doc, j - 1)
             curr   == At(doc, j)
             rev    == doc[j]
             sigRev == IsSignatureRevision(doc, j) \/ IsDocTimestamp(doc, j)
             chg    == Changed(doc, j)
  <1>1. IsDocument(doc) /\ j - 1 \in 1 .. Len(doc) /\ j \in 1 .. Len(doc) /\ j # 1
    BY DocumentFacts DEF DocInv
  <1>2. StepOk(doc, j)
    BY DEF DocInv
  <1>3. Updated(prev, rev.objs, curr)
    <2>1. Overwrites(prev, rev.objs, curr)
      BY <1>1, AtStep
    <2>2. WellFormed(prev) /\ WellFormed(curr)
      BY <1>1, GraphsWellFormed
    <2>3. KindsKept(prev, curr)
      BY <1>2 DEF StepOk, GraphStep
    <2> HIDE DEF prev, curr, rev
    <2> QED BY <2>1, <2>2, <2>3 DEF Updated, prev
  <1>4. chg = DOMAIN rev.objs \cap DOMAIN prev
    BY <1>1, ChangedFacts
  <1>5. SafeUpdate(doc, j) <=> Harmless(prev, curr, chg, sigRev)
    <2>1. SafeUpdate(doc, j) <=>
            /\ Catalog \in chg => ChangedRootItems(prev[Catalog], curr[Catalog]) \subseteq {"AcroForm"}
            /\ \A n \in chg \ {Catalog} :
                 \/ OnlyNewAnnotations(prev, curr, n, sigRev)
                 \/ n \in RootSafe(curr, Catalog \in chg) \cup ClassifierSafe(curr)
      BY <1>1, ClassifyFacts
    <2> HIDE DEF prev, curr, chg, sigRev
    <2> QED BY <2>1 DEF Harmless
  <1>6. AltersDocument(doc, j) <=> Visible(prev, curr)
    BY DEF AltersDocument, Visible, At
  <1>7. CASE rev.sig = NoSig
    <2>1. IsEdit(prev, rev.objs)
      BY <1>2, <1>7 DEF StepOk
    <2> HIDE DEF prev, curr, rev, chg, sigRev
    <2>2. Effects(prev, rev.objs, curr, sigRev)
      <3> DEFINE objs == rev.objs
      <3>1. Updated(prev, objs, curr) /\ IsEdit(prev, objs)
        BY <1>3, <2>1
      <3> HIDE DEF objs
      <3>2. Effects(prev, objs, curr, sigRev)
        BY <3>1, EditEffects
      <3> QED BY <3>2 DEF objs
    <2>3. /\ Tame(curr) /\ curr[Catalog].perms = prev[Catalog].perms
          /\ Visible(prev, curr) \/ Harmless(prev, curr, chg, sigRev)
      BY <1>4, <2>2 DEF Effects
    <2>4. /\ Tame(At(doc, j)) /\ At(doc, j)[Catalog].perms = At(doc, j - 1)[Catalog].perms
          /\ AltersDocument(doc, j) \/ SafeUpdate(doc, j)
      BY <1>5, <1>6, <2>3 DEF prev, curr
    <2> QED BY <2>4
  <1>8. CASE IsOwn(rev)
    <2>1. PICK field, id, pid : Hooks(prev, rev, rev.sig.dict, field, id, pid)
      BY <1>2, <1>8 DEF StepOk
    <2>2. sigRev
      BY <1>1, <1>8, OwnEndsRevision
    <2> DEFINE dict == rev.sig.dict
    <2>3. Updated(prev, rev.objs, curr) /\ Hooks(prev, rev, dict, field, id, pid)
      BY <1>3, <2>1
    <2> HIDE DEF prev, curr, rev, chg, sigRev, dict
    <2>4. /\ Tame(curr)
          /\ rev.sig.what # "certify" => curr[Catalog].perms = prev[Catalog].perms
          /\ (rev.sig.what # "certify" \/ prev[Catalog].perms = 0)
                => Harmless(prev, curr, DOMAIN rev.objs \cap DOMAIN prev, sigRev)
      BY <2>2, <2>3, OwnEffects
    <2>5. /\ Tame(curr)
          /\ rev.sig.what = "certify" \/ curr[Catalog].perms = prev[Catalog].perms
          /\ SafeUpdate(doc, j) \/ (rev.sig.what = "certify" /\ prev[Catalog].perms # 0)
      BY <1>4, <1>5, <2>4
    <2> QED BY <2>5 DEF prev, curr, rev
  <1>9. CASE rev.sig # NoSig /\ ~IsOwn(rev)
    <2>1. curr[Catalog] = prev[Catalog] /\ (OwnAnnots(prev) => OwnAnnots(curr)) /\ Quiet(prev, curr)
      BY <1>2, <1>9 DEF StepOk
    <2>2. Tame(prev)
      OBVIOUS
    <2> HIDE DEF prev, curr
    <2>3. Tame(curr) /\ curr[Catalog].perms = prev[Catalog].perms
      BY <2>1, <2>2 DEF Tame, Quiet
    <2> QED BY <1>9, <2>3 DEF prev, curr
  <1> QED BY <1>7, <1>8, <1>9

\* A file that starts with a tame graph has tame graphs, and /Perms only once it
\* has been certified.
LEMMA TameOnward ==
  ASSUME NEW doc, DocInv(doc), ~Strict, Tame(At(doc, 1)), NEW i \in 1 .. Len(doc)
  PROVE  /\ Tame(At(doc, i))
         /\ At(doc, i)[Catalog].perms # 0 => \E k \in 2 .. i : doc[k].sig.what = "certify"
  <1> DEFINE Good(k) == /\ Tame(At(doc, k))
                        /\ At(doc, k)[Catalog].perms # 0 =>
                             \E m \in 2 .. k : doc[m].sig.what = "certify"
             Bad == {k \in Nat : k \in 1 .. Len(doc) /\ ~Good(k)}
  <1>1. Len(doc) \in Nat
    BY DocumentFacts DEF DocInv
  <1>2. SUFFICES ASSUME Bad # {} PROVE FALSE
    BY <1>1
  <1>3. PICK k \in Bad : \A m \in Bad : k <= m
    <2>1. Bad \subseteq Nat
      OBVIOUS
    <2> HIDE DEF Bad
    <2> QED BY <1>2, <2>1, LeastElement
  <1>4. k \in 1 .. Len(doc) /\ ~Good(k)
    BY <1>3
  <1>5. Good(1)
    BY DEF DocInv, Fresh
  <1>6. k # 1
    <2> HIDE DEF Good
    <2> QED BY <1>4, <1>5
  <1>7. k - 1 \in 1 .. Len(doc) /\ k - 1 \in Nat /\ k - 1 < k /\ k \in 2 .. Len(doc)
    BY <1>1, <1>4, <1>6
  <1>8. Good(k - 1)
    <2> HIDE DEF Good
    <2> QED BY <1>1, <1>3, <1>7
  <1>9. /\ Tame(At(doc, k))
        /\ \/ doc[k].sig.what = "certify"
           \/ At(doc, k)[Catalog].perms = At(doc, k - 1)[Catalog].perms
    <2>1. Tame(At(doc, k - 1))
      BY <1>8
    <2> QED BY <1>7, <2>1, StepEffects
  <1>10. At(doc, k)[Catalog].perms # 0 => \E m \in 2 .. k : doc[m].sig.what = "certify"
    <2>1. k \in 2 .. k /\ \A m \in 2 .. k - 1 : m \in 2 .. k
      BY <1>7
    <2> QED BY <1>8, <1>9, <2>1
  <1> QED BY <1>4, <1>9, <1>10

\* A comparable file starts with a tame graph.
LEMMA ComparableIsTame ==
  ASSUME DocInv(file), Comparable
  PROVE  Tame(At(file, 1))
  <1> DEFINE st == At(file, 1)
  <1>1. IsDocument(file) /\ WellFormed(st) /\ Fresh(st)
    BY DEF DocInv
  <1>2. \A n \in DOMAIN st : n \in DOMAIN file[1].objs /\ st[n] = file[1].objs[n]
    BY <1>1, FirstGraph
  <1> HIDE DEF st
  <1>3. \A n \in DOMAIN st : /\ st[n].kind = "catalog" => ~st[n].null
                             /\ st[n].kind = "page" => st[n].annots.shape # "ref"
    BY <1>2 DEF Comparable
  <1>4. Catalog \in DOMAIN st /\ st[Catalog].kind = "catalog"
        /\ \A p \in ToSet(PageIds) : p \in DOMAIN st /\ st[p].kind = "page"
    BY <1>1 DEF WellFormed, PlacesOk
  <1>5. OwnAnnots(st)
    BY <1>1, <1>3, <1>4 DEF OwnAnnots, Fresh
  <1>6. ~st[Catalog].null
    BY <1>3, <1>4
  <1>7. Tame(st)
    BY <1>1, <1>5, <1>6 DEF Tame, Fresh
  <1> QED BY <1>7 DEF st

\* A revision that ends in one line break is one the scanner finds whole.
LEMMA NewlineEnds ==
  ASSUME NEW doc, NEW i, doc[i].tail \in {<<"LF">>, <<"CR", "LF">>}
  PROVE  FindSignatureRevision(doc, i)
  <1> DEFINE t == doc[i].tail
  <1>1. t # <<>> /\ Last(t) = "LF"
    <2>1. CASE t = <<"LF">>
      BY <2>1 DEF Last
    <2>2. CASE t = <<"CR", "LF">>
      BY <2>2 DEF Last
    <2> QED BY <2>1, <2>2
  <1>2. AfterEof(doc, i) = t
    BY <1>1 DEF AfterEof
  <1>3. CASE t = <<"LF">>
    <2>1. Len(t) = 1 /\ t[1] = "LF"
      BY <1>3
    <2>2. ScannedTail(doc, i) = 1
      BY <1>1, <1>2, <2>1 DEF ScannedTail
    <2> QED BY <2>1, <2>2 DEF FindSignatureRevision
  <1>4. CASE t = <<"CR", "LF">>
    <2>1. Len(t) = 2 /\ t[1] = "CR" /\ t[2] = "LF"
      BY <1>4
    <2>2. ScannedTail(doc, i) = 2
      BY <1>1, <1>2, <2>1 DEF ScannedTail
    <2> QED BY <2>1, <2>2 DEF FindSignatureRevision
  <1> QED BY <1>3, <1>4

\* OnlyAlterationsShow: under the default classifier nothing but alterations, and
\* certifying twice, takes a signature its coverage of the whole document.
THEOREM OnlyAlterationsCorrect ==
  ASSUME EditorsOnly, KnownBases, ~Strict
  PROVE  Spec => []OnlyAlterationsShow
  <1>1. ASSUME DocInv(file), Comparable, EndsInNewline, NEW i \in AnalysedSignatures(file),
               ~CoversWholeDocument(file, i)
        PROVE  \E j \in i + 1 .. Len(file) :
                 \/ AltersDocument(file, j)
                 \/ /\ file[j].sig.what = "certify"
                    /\ \E k \in 1 .. j - 1 : file[k].sig.what = "certify"
    <2>1. /\ IsDocument(file) /\ DOMAIN file = 1 .. Len(file) /\ Len(file) \in Nat
          /\ i \in 1 .. Len(file) /\ file[i].sig # NoSig
      BY <1>1, DocumentFacts DEF DocInv, AnalysedSignatures
    <2>2. i # 1
      BY <1>1, <2>1 DEF DocInv
    <2>3. FindSignatureRevision(file, i)
      BY <1>1, <2>1, NewlineEnds DEF EndsInNewline
    <2>4. PICK j \in i + 1 .. Len(file) : ~SafeUpdate(file, j)
      BY <1>1, <2>3 DEF CoversWholeDocument
    <2>5. j \in 2 .. Len(file) /\ j # 2 /\ j - 1 \in 1 .. Len(file)
      BY <2>1, <2>2
    <2>6. file[j].sig = NoSig \/ IsOwn(file[j])
      BY <1>1, <2>5 DEF DocInv, StepOk
    <2>7. /\ Tame(At(file, j - 1))
          /\ At(file, j - 1)[Catalog].perms # 0 =>
               \E k \in 2 .. j - 1 : file[k].sig.what = "certify"
      BY <1>1, <2>5, ComparableIsTame, TameOnward
    <2>8. \/ AltersDocument(file, j)
          \/ file[j].sig.what = "certify" /\ At(file, j - 1)[Catalog].perms # 0
      BY <1>1, <2>4, <2>5, <2>6, <2>7, StepEffects
    <2>9. \A k \in 2 .. j - 1 : k \in 1 .. j - 1
      OBVIOUS
    <2> QED BY <2>7, <2>8, <2>9
  <1>2. IInv /\ FilesInv => OnlyAlterationsShow
    BY <1>1 DEF FilesInv, OnlyAlterationsShow
  <1> QED BY <1>2, FilesInvariance, PTL

\* BlamedForAlterations: under the default classifier the analysis reports a
\* non-safe update only where an alteration is the first thing behind signatures,
\* timestamps and DSSs.
THEOREM BlamedCorrect ==
  ASSUME EditorsOnly, KnownBases, ~Strict
  PROVE  Spec => []BlamedForAlterations
  <1>1. ASSUME DocInv(file), Comparable, NEW i \in AnalysedSignatures(file),
               ExtendedByNonSafe(file, i)
        PROVE  \E j \in i + 1 .. Len(file) :
                 /\ AltersDocument(file, j)
                 /\ \A k \in i + 1 .. j - 1 : file[k].sig # NoSig \/ ValidDss(file, k)
    <2>1. /\ IsDocument(file) /\ DOMAIN file = 1 .. Len(file) /\ Len(file) \in Nat
          /\ i \in 1 .. Len(file) /\ file[i].sig # NoSig
      BY <1>1, DocumentFacts DEF DocInv, AnalysedSignatures
    <2>2. i # 1
      BY <1>1, <2>1 DEF DocInv
    <2>3. PICK j \in i + 1 .. Len(file) :
            /\ ~SafeUpdate(file, j)
            /\ ~IsSignatureRevision(file, j) /\ ~IsDocTimestamp(file, j)
            /\ \A k \in i + 1 .. j - 1 :
                 IsSignatureRevision(file, k) \/ IsDocTimestamp(file, k) \/ ValidDss(file, k)
      BY <1>1 DEF ExtendedByNonSafe
    <2>4. j \in 1 .. Len(file) /\ j \in 2 .. Len(file) /\ j # 2
      BY <2>1, <2>2
    <2>5. file[j].sig = NoSig
      <3>1. file[j].sig = NoSig \/ IsOwn(file[j])
        BY <1>1, <2>4 DEF DocInv, StepOk
      <3>2. ~IsOwn(file[j])
        BY <1>1, <2>3, <2>4, OwnEndsRevision
      <3> QED BY <3>1, <3>2
    <2>6. AltersDocument(file, j)
      <3>1. j - 1 \in 1 .. Len(file) /\ Tame(At(file, j - 1))
        BY <1>1, <2>1, <2>4, ComparableIsTame, TameOnward
      <3>2. file[j].sig.what # "certify"
        BY <2>5 DEF NoSig
      <3> QED BY <1>1, <2>3, <2>4, <2>5, <3>1, <3>2, StepEffects
    <2>7. ASSUME NEW k \in i + 1 .. j - 1 PROVE file[k].sig # NoSig \/ ValidDss(file, k)
      BY <2>3 DEF IsSignatureRevision, IsDocTimestamp, AnalysedSignatures
    <2> QED BY <2>6, <2>7
  <1>2. IInv /\ FilesInv => BlamedForAlterations
    BY <1>1 DEF FilesInv, BlamedForAlterations
  <1> QED BY <1>2, FilesInvariance, PTL

-----------------------------------------------------------------------------
(* Growing files. *)

\* d is a later state of the file b: what a step saves and what it started from.
Grown(d, b) ==
  /\ DocInv(b) /\ DocInv(d) /\ Len(b) < Len(d)
  /\ \A k \in 1 .. Len(b) : d[k] = b[k]

\* A step saves a file in order that extends one in order.
LEMMA StepsGrow ==
  ASSUME EditorsOnly, IInv, FilesInv, [Next]_vars, NEW b \in {file} \cup {BaseOf(r) : r \in Requests},
         Extends(file', b)
  PROVE  Grown(file', b) /\ Complete(file') /\ Complete(b)
  <1>1. DocInv(file') /\ Complete(file')
    BY FilesStep DEF IInv, FilesInv
  <1>2. DocInv(b) /\ Complete(b)
    BY DEF BaseOf, Waiting, Open, FilesInv, Work
  <1>3. IsDocument(b) /\ IsDocument(file')
    BY <1>1, <1>2 DEF DocInv
  <1>4. Len(b) < Len(file') /\ \A k \in 1 .. Len(b) : file'[k] = b[k]
    BY <1>3, ExtendsFacts
  <1> QED BY <1>1, <1>2, <1>4 DEF Grown

\* The revisions of the shorter file in the longer one.
LEMMA GrownFacts ==
  ASSUME NEW d, NEW b, Grown(d, b)
  PROVE  /\ IsDocument(b) /\ IsDocument(d) /\ Len(b) \in Nat /\ Len(d) \in Nat
         /\ DOMAIN b = 1 .. Len(b) /\ DOMAIN d = 1 .. Len(d)
         /\ \A i \in 1 .. Len(b) : i \in 1 .. Len(d) /\ d[i] = b[i] /\ At(d, i) = At(b, i)
  <1>1. /\ IsDocument(b) /\ IsDocument(d) /\ Len(b) \in Nat /\ Len(d) \in Nat
        /\ DOMAIN b = 1 .. Len(b) /\ DOMAIN d = 1 .. Len(d)
    BY DocumentFacts DEF Grown, DocInv
  <1>2. ASSUME NEW i \in 1 .. Len(b)
        PROVE  i \in 1 .. Len(d) /\ d[i] = b[i] /\ At(d, i) = At(b, i)
    <2>1. i \in 1 .. Len(d) /\ i <= Len(d) /\ \A k \in 1 .. i : k \in 1 .. Len(b)
      BY <1>1 DEF Grown
    <2>2. \A k \in 1 .. i : d[k].objs = b[k].objs
      BY <2>1 DEF Grown
    <2>3. At(d, i) = At(b, i)
      BY <1>1, <2>1, <2>2, AtSame
    <2> QED BY <2>1, <2>3 DEF Grown
  <1> QED BY <1>1, <1>2

\* Where the scanner takes all that the signer counted, the program that wrote
\* next had no newline to add.
LEMMA ScannedWhole ==
  ASSUME NEW doc, NEW i \in 1 .. Len(doc), doc[i].tail \in Seq({"CR", "LF"}),
         FindSignatureRevision(doc, i)
  PROVE  AfterEof(doc, i) = doc[i].tail
  <1> DEFINE t == doc[i].tail
             a == Append(t, "LF")
  <1>1. t \in Seq({"CR", "LF"}) /\ ScannedTail(doc, i) = Len(t)
    BY DEF FindSignatureRevision
  <1>2. AfterEof(doc, i) = IF i < Len(doc) /\ (t = <<>> \/ Last(t) # "LF") THEN a ELSE t
    BY DEF AfterEof
  <1> HIDE DEF t
  <1>3. SUFFICES ASSUME t = <<>> \/ Last(t) # "LF", AfterEof(doc, i) = a PROVE FALSE
    BY <1>2 DEF t
  <1>4. Len(t) \in Nat /\ Len(a) = Len(t) + 1 /\ a[Len(t) + 1] = "LF" /\ a # <<>>
        /\ \A m \in 1 .. Len(t) : a[m] = t[m] /\ t[m] \in {"CR", "LF"}
    <2>1. t \in Seq({"CR", "LF"})
      BY <1>1
    <2>2. Len(t) \in Nat /\ Len(a) = Len(t) + 1 /\ a[Len(t) + 1] = "LF"
          /\ \A m \in 1 .. Len(t) : a[m] = t[m] /\ t[m] \in {"CR", "LF"}
      BY ONLY <2>1
    <2>3. a # <<>>
      BY ONLY <2>1
    <2> QED BY <2>2, <2>3
  <1> HIDE DEF a
  <1>5. ScannedTail(doc, i) =
          CASE a[1] = "LF"                                        -> 1
            [] Len(a) > 1 /\ a[1] = "CR" /\ a[2] = "LF"           -> 2
            [] a[1] = "CR" /\ ~(Len(a) > 1 /\ a[2] = "LF")        -> 1
    BY <1>3, <1>4 DEF ScannedTail
  <1>6. t # <<>>
    <2>1. SUFFICES ASSUME t = <<>> PROVE FALSE
      OBVIOUS
    <2>2. Len(t) = 0
      BY ONLY <2>1
    <2>3. a[1] = "LF"
      BY <1>4, <2>2
    <2>4. ScannedTail(doc, i) = 1
      BY ONLY <1>5, <2>3
    <2>5. ScannedTail(doc, i) = Len(t)
      BY <1>1 DEF t
    <2> QED BY ONLY <2>2, <2>4, <2>5
  <1>7. Len(t) >= 1 /\ t[Len(t)] # "LF"
    BY <1>1, <1>3, <1>6 DEF Last
  <1>8. a[1] = t[1] /\ a[1] \in {"CR", "LF"}
    BY <1>4, <1>7
  <1>9. a[1] = "CR"
    <2>1. SUFFICES ASSUME a[1] = "LF" PROVE FALSE
      BY <1>8
    <2>2. Len(t) = 1
      BY <1>1, <1>5, <2>1
    <2>3. t[1] # "LF"
      BY <1>7, <2>2
    <2> QED BY <1>8, <2>1, <2>3
  <1>10. CASE a[2] = "LF"
    <2>1. Len(t) = 2
      BY <1>1, <1>4, <1>5, <1>7, <1>9, <1>10
    <2> QED BY <1>4, <1>7, <1>10, <2>1
  <1>11. CASE a[2] # "LF"
    <2>1. Len(t) = 1
      BY <1>1, <1>5, <1>9, <1>11
    <2> QED BY <1>4, <1>11, <2>1
  <1> QED BY <1>10, <1>11

\* A later revision never lets a signature end a revision of its own.
LEMMA EndsStable ==
  ASSUME NEW d, NEW b, Grown(d, b), NEW i \in 1 .. Len(b)
  PROVE  FindSignatureRevision(d, i) => FindSignatureRevision(b, i)
  <1> DEFINE t == b[i].tail
             a == Append(t, "LF")
  <1>1. t \in Seq({"CR", "LF"}) /\ i < Len(d) /\ d[i].tail = t /\ i \in 1 .. Len(d)
    BY GrownFacts DEF Grown, DocInv
  <1>2. SUFFICES ASSUME FindSignatureRevision(d, i) PROVE FindSignatureRevision(b, i)
    OBVIOUS
  <1>3. AfterEof(d, i) = t
    BY <1>1, <1>2, ScannedWhole
  <1>4. AfterEof(d, i) = IF t = <<>> \/ Last(t) # "LF" THEN a ELSE t
    BY <1>1 DEF AfterEof
  <1>5. a # t
    <2> HIDE DEF t
    <2>1. t \in Seq({"CR", "LF"})
      BY <1>1
    <2>2. Len(a) = Len(t) + 1 /\ Len(t) \in Nat
      BY ONLY <2>1
    <2> QED BY ONLY <2>2
  <1>6. AfterEof(b, i) = t
    BY <1>3, <1>4, <1>5 DEF AfterEof
  <1>7. ScannedTail(b, i) = ScannedTail(d, i) /\ ScannedTail(d, i) = Len(t)
    BY <1>1, <1>2, <1>3, <1>6 DEF ScannedTail, FindSignatureRevision
  <1> QED BY <1>7 DEF FindSignatureRevision

\* Whether an update behind the first signature is safe is settled when it is
\* made, although signatures are recognised by the newest form.
LEMMA SafeStable ==
  ASSUME NEW d, NEW b, Grown(d, b), NEW j \in 3 .. Len(b)
  PROVE  SafeUpdate(d, j) <=> SafeUpdate(b, j)
  <1> DEFINE ds == IsSignatureRevision(d, j) \/ IsDocTimestamp(d, j)
             bs == IsSignatureRevision(b, j) \/ IsDocTimestamp(b, j)
             prev    == At(b, j - 1)
             curr    == At(b, j)
             changed == Changed(b, j)
             root    == Catalog \in changed
  <1>1. /\ j \in 1 .. Len(b) /\ j - 1 \in 1 .. Len(b) /\ j \in 2 .. Len(b) /\ j # 1 /\ j # 2
        /\ j \in 1 .. Len(d) /\ j \in 2 .. Len(d) /\ DocInv(d) /\ DocInv(b)
        /\ d[j] = b[j] /\ At(d, j) = curr /\ At(d, j - 1) = prev
    BY GrownFacts DEF Grown
  <1>2. Changed(d, j) = changed
    <2>1. IsDocument(d) /\ IsDocument(b)
      BY GrownFacts
    <2>2. Changed(d, j) = DOMAIN d[j].objs \cap DOMAIN At(d, j - 1)
      BY <1>1, <2>1, ChangedFacts
    <2>3. Changed(b, j) = DOMAIN b[j].objs \cap DOMAIN At(b, j - 1)
      BY <1>1, <2>1, ChangedFacts
    <2> QED BY <1>1, <2>2, <2>3
  <1>3. ds <=> bs
    <2>1. CASE b[j].sig = NoSig
      <3>1. ~bs
        BY <2>1 DEF IsSignatureRevision, IsDocTimestamp, AnalysedSignatures
      <3>2. ~ds
        BY <1>1, <2>1 DEF IsSignatureRevision, IsDocTimestamp, AnalysedSignatures
      <3> QED BY <3>1, <3>2
    <2>2. CASE b[j].sig # NoSig
      <3>1. IsOwn(b[j]) /\ IsOwn(d[j])
        BY <1>1, <2>2 DEF DocInv, StepOk
      <3> QED BY <1>1, <3>1, OwnEndsRevision
    <2> QED BY <2>1, <2>2
  <1>4. SafeUpdate(b, j) <=>
          /\ root => ChangedRootItems(prev[Catalog], curr[Catalog]) \subseteq {"AcroForm"}
          /\ \A n \in changed \ {Catalog} :
               \/ OnlyNewAnnotations(prev, curr, n, bs)
               \/ n \in RootSafe(curr, root) \cup ClassifierSafe(curr)
    BY <1>1, ClassifyFacts
  <1>5. SafeUpdate(d, j) <=>
          /\ (Catalog \in Changed(d, j)) =>
               ChangedRootItems(At(d, j - 1)[Catalog], At(d, j)[Catalog]) \subseteq {"AcroForm"}
          /\ \A n \in Changed(d, j) \ {Catalog} :
               \/ OnlyNewAnnotations(At(d, j - 1), At(d, j), n, ds)
               \/ n \in RootSafe(At(d, j), Catalog \in Changed(d, j)) \cup ClassifierSafe(At(d, j))
    BY <1>1, ClassifyFacts
  <1>6. ds = bs
    BY <1>3
  <1> HIDE DEF ds, bs, prev, curr, changed
  <1> QED BY <1>1, <1>2, <1>4, <1>5, <1>6

\* CoverageNeverRegained: what does not cover the document does not cover what
\* grows out of it.
THEOREM CoverageCorrect ==
  ASSUME EditorsOnly, KnownBases
  PROVE  Spec => CoverageNeverRegained
  <1>1. ASSUME IInv, FilesInv, [Next]_vars, NEW b \in {file} \cup {BaseOf(r) : r \in Requests},
               Extends(file', b), NEW i \in DOMAIN b, b[i].sig # NoSig, CoversWholeDocument(file', i)
        PROVE  CoversWholeDocument(b, i)
    <2>1. Grown(file', b)
      BY <1>1, StepsGrow
    <2>2. i \in 1 .. Len(b) /\ i # 1 /\ Len(b) \in Nat /\ Len(file') \in Nat /\ Len(b) < Len(file')
      BY <1>1, <2>1, GrownFacts DEF Grown, DocInv
    <2>3. FindSignatureRevision(b, i)
      BY <1>1, <2>1, <2>2, EndsStable DEF CoversWholeDocument
    <2>4. ASSUME NEW j \in i + 1 .. Len(b)
          PROVE  SafeUpdate(b, j)
      <3>1. j \in 3 .. Len(b) /\ j \in i + 1 .. Len(file')
        BY <2>2
      <3> QED BY <1>1, <2>1, <3>1, SafeStable DEF CoversWholeDocument
    <2> QED BY <2>3, <2>4 DEF CoversWholeDocument
  <1>2. IInv /\ FilesInv /\ [Next]_vars =>
          [\A b \in {file} \cup {BaseOf(r) : r \in Requests} :
             Extends(file', b) =>
               \A i \in DOMAIN b : (b[i].sig # NoSig /\ CoversWholeDocument(file', i))
                                     => CoversWholeDocument(b, i)]_vars
    BY <1>1
  <1> QED BY <1>2, FilesInvariance, PTL DEF Spec, CoverageNeverRegained

-----------------------------------------------------------------------------
(* What the verifier reports as files grow. *)

\* A signature is valid when it verifies, its certificate is trusted and, if no
\* extracted signature follows, it reaches the end of the file.
LEMMA ValidWhen ==
  ASSUME NEW doc, NEW i
  PROVE  StatusOf(doc, i) = "valid" <=>
           /\ IntegrityHolds(doc, i) /\ Verifies(doc, i) /\ doc[i].sig.what \in TrustedKinds
           /\ IsWhole(doc[i].sig.cms)
  <1> DEFINE r == ResultFor(doc, i)
             parsed == IsWhole(doc[i].sig.cms)
  <1>1. /\ r.integrity = IntegrityHolds(doc, i)
        /\ r.trusted = (parsed /\ doc[i].sig.what \in TrustedKinds)
        /\ r.crypto = IF parsed /\ (Verifies(doc, i) \/ IsTimestamp(doc, i)) THEN "valid"
                      ELSE "invalid"
        /\ r.digest = (parsed /\ (Verifies(doc, i) \/ ~IsTimestamp(doc, i)))
    BY DEF ResultFor
  <1>2. r.integrity \in BOOLEAN /\ r.digest \in BOOLEAN /\ r.trusted \in BOOLEAN
        /\ r.crypto \in {"valid", "invalid"}
    BY VerdictFacts
  <1>3. StatusOf(doc, i) = Status(r)
    BY DEF StatusOf
  <1> HIDE DEF r, parsed
  <1>4. Status(r) = "valid" <=> r.integrity /\ r.crypto = "valid" /\ r.digest /\ r.trusted
    BY <1>2 DEF Status
  <1> QED BY <1>1, <1>3, <1>4 DEF parsed

\* One that was cut short is invalid.
LEMMA CutIsInvalid ==
  ASSUME NEW doc, NEW i, ~IsWhole(doc[i].sig.cms)
  PROVE  StatusOf(doc, i) = "invalid"
  <1> DEFINE r == ResultFor(doc, i)
  <1>1. r.crypto = "invalid" /\ r.integrity \in BOOLEAN
    BY DEF ResultFor, IntegrityHolds
  <1>2. StatusOf(doc, i) = Status(r)
    BY DEF StatusOf
  <1> HIDE DEF r
  <1> QED BY <1>1, <1>2 DEF Status

\* What is extracted is listed.
LEMMA ExtractedIsListed ==
  ASSUME NEW doc, DocInv(doc), NEW i \in ExtractedSignatures(doc)
  PROVE  /\ i \in 1 .. Len(doc) /\ doc[i].sig # NoSig
         /\ Listed(Store(doc), doc[i].sig.dict)
  <1> DEFINE st == Store(doc)
             fs == FormOf(st).fields
             items == IF fs.shape = "array" THEN fs.items ELSE <<>>
             d == doc[i].sig.dict
  <1>1. i \in DOMAIN doc /\ doc[i].sig # NoSig /\ d \in SigDictsOf(st, items)
    BY DEF ExtractedSignatures
  <1>2. DOMAIN doc = 1 .. Len(doc) /\ WellFormed(st)
    BY DocumentFacts, GraphsWellFormed DEF DocInv
  <1> HIDE DEF st, fs, items, d
  <1>3. PICK n \in ToSet(items) : /\ n \in DOMAIN st /\ st[n].kind = "field" /\ st[n].ft = "Sig"
                                  /\ st[n].v # 0 /\ st[n].v = d
    BY <1>1 DEF SigDictsOf
  <1>4. ToSet(<<>>) = {}
    BY DEF ToSet
  <1>5. fs.shape = "array" /\ n \in ToSet(fs.items)
    BY <1>3, <1>4 DEF items
  <1>6. st[n] = Field("Sig", d)
    BY <1>2, <1>3 DEF WellFormed, ValueOk
  <1> QED BY <1>1, <1>2, <1>3, <1>5, <1>6 DEF Listed, st, fs, d

\* A signature that is valid stays valid when the library signs again.
LEMMA ValidStaysValid ==
  ASSUME NEW d, NEW b, Grown(d, b), Complete(d), IsOwn(d[Len(d)]),
         NEW i \in ExtractedSignatures(b), StatusOf(b, i) = "valid"
  PROVE  i \in ExtractedSignatures(d) /\ StatusOf(d, i) = "valid"
  <1>1. /\ i \in 1 .. Len(b) /\ b[i].sig # NoSig /\ Listed(Store(b), b[i].sig.dict)
        /\ IsDocument(b) /\ DocInv(b) /\ DocInv(d)
    BY ExtractedIsListed DEF Grown, DocInv
  <1>2. /\ Len(b) \in 1 .. Len(b) /\ Store(b) = At(b, Len(b))
        /\ Len(b) \in 1 .. Len(d) /\ Len(d) \in 1 .. Len(d) /\ Len(b) < Len(d)
        /\ i \in 1 .. Len(d) /\ d[i] = b[i] /\ At(d, Len(b)) = At(b, Len(b))
        /\ IsDocument(d) /\ Len(d) \in Nat /\ Len(b) \in Nat
    <2>1. Len(b) \in 1 .. Len(b) /\ Store(b) = At(b, Len(b)) /\ Len(b) < Len(d)
      BY <1>1, DocumentFacts, AtFacts DEF Grown
    <2> QED BY <1>1, <2>1, GrownFacts
  <1>3. i \in ExtractedSignatures(d)
    BY <1>1, <1>2, ListedIsExtracted DEF Complete
  <1>4. Len(d) \in ExtractedSignatures(d)
    BY <1>1, <1>2, OwnListed DEF Complete
  <1>5. IntegrityHolds(d, i)
    BY <1>1, <1>2, <1>4 DEF IntegrityHolds, IsLast
  <1>6. Verifies(d, i) <=> Verifies(b, i)
    <2>1. \A k \in 1 .. i : d[k] = b[k]
      BY <1>1, <1>2 DEF Grown
    <2>2. i <= Len(b)
      BY <1>1, <1>2
    <2> QED BY <1>1, <1>2, <2>1, <2>2, VerifiesStable
  <1> QED BY <1>2, <1>3, <1>5, <1>6, ValidWhen

\* EarlierSignaturesStayValid: another signature or timestamp of the library
\* spoils neither the status nor the level of an earlier one.
THEOREM EarlierCorrect ==
  ASSUME EditorsOnly, KnownBases
  PROVE  Spec => EarlierSignaturesStayValid
  <1>1. ASSUME IInv, FilesInv, [Next]_vars, NEW b \in {file} \cup {BaseOf(r) : r \in Requests},
               OwnStep(b), NEW i \in ExtractedSignatures(b), StatusOf(b, i) = "valid"
        PROVE  /\ i \in ExtractedSignatures(file') /\ StatusOf(file', i) = "valid"
               /\ LevelOf(b, i) = "BT" => LevelOf(file', i) = "BT"
    <2>1. Grown(file', b) /\ Complete(file')
      BY <1>1, StepsGrow DEF OwnStep
    <2>2. IsOwn(file'[Len(file')])
      <3>1. Len(file') \in Len(b) + 1 .. Len(file')
        BY <2>1, GrownFacts DEF Grown
      <3>2. Len(file') \in OwnRevisions(file')
        BY <1>1, <3>1 DEF OwnStep
      <3> QED BY <3>2 DEF OwnRevisions, IsOwn
    <2>3. i \in ExtractedSignatures(file') /\ StatusOf(file', i) = "valid"
      BY <1>1, <2>1, <2>2, ValidStaysValid
    <2>4. ASSUME LevelOf(b, i) = "BT"
          PROVE  LevelOf(file', i) = "BT"
      <3>1. PICK j \in ExtractedSignatures(b) :
              ~IsTimestamp(b, i) /\ IsTimestamp(b, j) /\ i < j /\ StatusOf(b, j) = "valid"
        BY <2>4 DEF LevelOf
      <3>2. j \in ExtractedSignatures(file') /\ StatusOf(file', j) = "valid"
        BY <2>1, <2>2, <3>1, ValidStaysValid
      <3>3. i \in 1 .. Len(b) /\ j \in 1 .. Len(b)
        BY <2>1, ExtractedIsListed DEF Grown
      <3>4. file'[i] = b[i] /\ file'[j] = b[j]
        BY <2>1, <3>3, GrownFacts
      <3>5. ~IsTimestamp(file', i) /\ IsTimestamp(file', j)
        BY <3>1, <3>4 DEF IsTimestamp
      <3> QED BY <3>1, <3>2, <3>5 DEF LevelOf
    <2> QED BY <2>3, <2>4
  <1>2. IInv /\ FilesInv /\ [Next]_vars =>
          [\A b \in {file} \cup {BaseOf(r) : r \in Requests} :
             OwnStep(b) =>
               \A i \in ExtractedSignatures(b) : StatusOf(b, i) = "valid" =>
                 /\ i \in ExtractedSignatures(file') /\ StatusOf(file', i) = "valid"
                 /\ LevelOf(b, i) = "BT" => LevelOf(file', i) = "BT"]_vars
    BY <1>1
  <1> QED BY <1>2, FilesInvariance, PTL DEF Spec, EarlierSignaturesStayValid

\* DeliveredLevelVerifies: a B-T request that succeeds returns a valid signature
\* of that level and a valid timestamp, when the signer and the authority are
\* trusted, but for a CMS or a token that ends in a zero byte.
THEOREM DeliveredCorrect ==
  ASSUME EditorsOnly, KnownBases, Kinds \cup {"timestamp"} \subseteq TrustedKinds
  PROVE  Spec => DeliveredLevelVerifies
  <1>1. ASSUME IInv, FilesInv, [Next]_vars, NEW r \in Requests, Waiting(r), req[r].level = "BT",
               req'[r].st = "ok", NEW i, i = Len(req[r].base) + 1
        PROVE  /\ {i, i + 1} \subseteq ExtractedSignatures(file')
               /\ \A k \in {i, i + 1} : StatusOf(file', k) =
                    IF IsWhole(file'[k].sig.cms) THEN "valid" ELSE "invalid"
               /\ LevelOf(file', i) = IF IsWhole(file'[i + 1].sig.cms) THEN "BT" ELSE "BB"
    <2> DEFINE x   == req[r]
               out == req[r].out
    <2>1. Completes(r) /\ Holds(x) /\ Open(x)
      BY <1>1, Completion DEF Waiting, Open
    <2>2. Work(x)
      BY <1>1, <2>1 DEF FilesInv
    <2>3. /\ DocInv(x.base) /\ DocInv(out) /\ Len(out) = Len(x.base) + 2 /\ x.st = "awaitingToken"
          /\ out[i].sig.what \in Kinds /\ out[i + 1].sig.what = "timestamp"
      <3>1. i + 1 = Len(x.base) + 2
        BY <1>1, <2>2, DocumentFacts DEF Work, DocInv
      <3> QED BY <1>1, <2>2, <3>1 DEF Work
    <2>4. PICK level, zero : Return(r, level, InjectCms(out, x.over, zero))
      BY <2>1, <2>3 DEF Completes
    <2>5. DocInv(file') /\ Complete(file')
      BY <1>1, FilesStep DEF IInv, FilesInv
    <2> DEFINE doc == InjectCms(out, x.over, zero)
    <2>6. file' = doc
      BY <2>4 DEF Return
    <2>7. Len(doc) = Len(out) /\ \A k \in Len(x.base) + 1 .. Len(doc) : Verifies(doc, k)
      BY <2>1, CompletedFacts
    <2>8. /\ doc[i] = out[i] /\ doc[i + 1].sig.what = out[i + 1].sig.what
          /\ Len(doc) = i + 1 /\ i \in 1 .. Len(doc) /\ i + 1 \in 1 .. Len(doc) /\ i \in Nat
          /\ Verifies(doc, i) /\ Verifies(doc, i + 1)
      <3>1. Len(x.base) \in Nat /\ IsDocument(out) /\ Len(out) = i + 1 /\ i \in Nat /\ i >= 1
        BY <1>1, <2>3, DocumentFacts DEF DocInv
      <3>2. doc[i] = out[i] /\ doc[i + 1] = WithCms(out[i + 1], x.over, zero) /\ IsRevision(out[i + 1])
        <4>1. /\ \A k \in 1 .. Len(out) - 1 : doc[k] = out[k]
              /\ doc[Len(out)] = WithCms(out[Len(out)], x.over, zero)
          BY <3>1, InjectFacts
        <4>2. IsRevision(out[i + 1])
          BY <3>1, DocumentFacts
        <4> HIDE DEF doc, out
        <4> QED BY <3>1, <4>1, <4>2
      <3> HIDE DEF doc
      <3>3. doc[i + 1].sig.what = out[i + 1].sig.what
        BY <3>2, WithCmsFacts
      <3>4. i \in Len(x.base) + 1 .. Len(doc) /\ i + 1 \in Len(x.base) + 1 .. Len(doc)
        BY <1>1, <2>7, <3>1
      <3> QED BY <2>7, <3>1, <3>2, <3>3, <3>4
    <2>9. /\ doc[i].sig.what \in Kinds /\ doc[i + 1].sig.what = "timestamp"
          /\ Kinds \subseteq {"approval", "certify"}
      BY <2>3, <2>8, SigningAssumption
    <2> HIDE DEF doc, out, x
    <2>10. IsOwn(doc[i]) /\ IsOwn(doc[i + 1]) /\ IsTimestamp(doc, i + 1) /\ ~IsTimestamp(doc, i)
      BY <2>9 DEF IsOwn, IsTimestamp
    <2>11. i \in ExtractedSignatures(doc) /\ i + 1 \in ExtractedSignatures(doc)
      BY <2>5, <2>6, <2>8, <2>10, OwnListed DEF Complete
    <2>12. IntegrityHolds(doc, i) /\ IntegrityHolds(doc, i + 1)
      <3>1. ~(i + 1 <= i)
        BY <2>8
      <3> QED BY <2>8, <2>11, <3>1 DEF IntegrityHolds, IsLast
    <2>13. ASSUME NEW k \in {i, i + 1}
           PROVE  StatusOf(doc, k) = IF IsWhole(doc[k].sig.cms) THEN "valid" ELSE "invalid"
      BY <2>8, <2>9, <2>12, ValidWhen, CutIsInvalid
    <2>14. LevelOf(doc, i) = IF IsWhole(doc[i + 1].sig.cms) THEN "BT" ELSE "BB"
      <3>1. i < i + 1
        BY <2>8
      <3>2. \A j \in ExtractedSignatures(doc) : i < j => j = i + 1
        BY <2>5, <2>6, <2>8, ExtractedIsListed
      <3>3. StatusOf(doc, i + 1) = IF IsWhole(doc[i + 1].sig.cms) THEN "valid" ELSE "invalid"
        BY <2>13
      <3> QED BY <2>10, <2>11, <3>1, <3>2, <3>3 DEF LevelOf
    <2> QED BY <2>6, <2>11, <2>13, <2>14
  <1>2. IInv /\ FilesInv /\ [Next]_vars =>
          [\A r \in Requests :
             (Waiting(r) /\ req[r].level = "BT" /\ req'[r].st = "ok") =>
               LET i == Len(req[r].base) + 1
                   whole(k) == IsWhole(file'[k].sig.cms)
               IN  /\ {i, i + 1} \subseteq ExtractedSignatures(file')
                   /\ \A k \in {i, i + 1} :
                        StatusOf(file', k) = IF whole(k) THEN "valid" ELSE "invalid"
                   /\ LevelOf(file', i) = IF whole(i + 1) THEN "BT" ELSE "BB"]_vars
    BY <1>1
  <1> QED BY <1>2, FilesInvariance, PTL DEF Spec, DeliveredLevelVerifies

-----------------------------------------------------------------------------
(* The inspection's account of a file. *)

\* e gives the ends of the first n revisions
EndsUpTo(e, doc, n) ==
  /\ DOMAIN e = 0 .. n /\ e[0] = 0
  /\ \A i \in 1 .. n : e[i] = e[i - 1] + 1 + EofMarker + Len(AfterEof(doc, i))

\* There are such ends for any number of revisions.
LEMMA EndsExist ==
  ASSUME NEW doc, NEW n \in Nat
  PROVE  \E e : EndsUpTo(e, doc, n)
  <1> DEFINE Bad == {k \in Nat : ~\E e : EndsUpTo(e, doc, k)}
  <1>1. SUFFICES ASSUME Bad # {} PROVE FALSE
    OBVIOUS
  <1>2. PICK k \in Bad : \A m \in Bad : k <= m
    <2>1. Bad \subseteq Nat
      OBVIOUS
    <2> HIDE DEF Bad
    <2> QED BY <1>1, <2>1, LeastElement
  <1>3. CASE k = 0
    <2> DEFINE e == [i \in 0 .. 0 |-> 0]
    <2>1. EndsUpTo(e, doc, 0)
      BY DEF EndsUpTo
    <2> QED BY <1>2, <1>3, <2>1
  <1>4. CASE k # 0
    <2>1. k \in Nat /\ k - 1 \in Nat /\ k - 1 \notin Bad
      BY <1>2, <1>4
    <2>2. PICK old : EndsUpTo(old, doc, k - 1)
      BY <2>1
    <2> DEFINE last == old[k - 1] + 1 + EofMarker + Len(AfterEof(doc, k))
               e    == [i \in 0 .. k |-> IF i = k THEN last ELSE old[i]]
    <2>3. \A i \in 0 .. k - 1 : e[i] = old[i]
      BY <2>1
    <2>4. e[k] = last /\ DOMAIN e = 0 .. k
      BY <2>1
    <2> HIDE DEF e
    <2>5. e[0] = 0
      BY <2>1, <2>2, <2>3 DEF EndsUpTo
    <2>6. ASSUME NEW i \in 1 .. k
          PROVE  e[i] = e[i - 1] + 1 + EofMarker + Len(AfterEof(doc, i))
      <3>1. i - 1 \in 0 .. k - 1
        BY <2>1
      <3>2. CASE i = k
        BY <2>3, <2>4, <3>1, <3>2
      <3>3. CASE i # k
        <4>1. i \in 1 .. k - 1 /\ i \in 0 .. k - 1
          BY <2>1, <3>3
        <4>2. e[i] = old[i] /\ e[i - 1] = old[i - 1]
          BY <2>3, <3>1, <4>1
        <4> QED BY <2>2, <4>1, <4>2 DEF EndsUpTo
      <3> QED BY <3>2, <3>3
    <2>7. EndsUpTo(e, doc, k)
      BY <2>4, <2>5, <2>6 DEF EndsUpTo
    <2> QED BY <1>2, <2>7
  <1> QED BY <1>3, <1>4

\* So the recursion that RevisionEnds is defined by has a solution.
LEMMA EndsRecursion ==
  ASSUME NEW doc, Len(doc) \in Nat
  PROVE  EndsUpTo(RevisionEnds(doc), doc, Len(doc))
  <1> DEFINE F(e) == [i \in 0 .. Len(doc) |->
                        IF i = 0 THEN 0 ELSE e[i - 1] + 1 + EofMarker + Len(AfterEof(doc, i))]
  <1>1. PICK e : EndsUpTo(e, doc, Len(doc))
    BY EndsExist
  <1>0. PICK f : f = [i \in 0 .. Len(doc) |-> e[i]]
    OBVIOUS
  <1>2. f = F(f)
    <2>1. ASSUME NEW i \in 0 .. Len(doc)
          PROVE  f[i] = F(f)[i]
      <3>1. CASE i = 0
        BY <1>0, <1>1, <3>1 DEF EndsUpTo
      <3>2. CASE i # 0
        <4>1. i \in 1 .. Len(doc) /\ i - 1 \in 0 .. Len(doc)
          BY <3>2
        <4>2. f[i] = e[i] /\ f[i - 1] = e[i - 1]
          BY <1>0, <4>1
        <4>3. f[i] = f[i - 1] + 1 + EofMarker + Len(AfterEof(doc, i))
          BY <1>1, <4>1, <4>2 DEF EndsUpTo
        <4> QED BY <3>2, <4>3
      <3> QED BY <3>1, <3>2
    <2>2. f = [i \in 0 .. Len(doc) |-> f[i]]
      BY <1>0
    <2>3. [i \in 0 .. Len(doc) |-> f[i]] = [i \in 0 .. Len(doc) |-> F(f)[i]]
      BY <2>1
    <2>4. [i \in 0 .. Len(doc) |-> F(f)[i]] = F(f)
      OBVIOUS
    <2> QED BY <2>2, <2>3, <2>4
  <1> DEFINE r == RevisionEnds(doc)
  <1>3. r = CHOOSE g : g = F(g)
    BY DEF RevisionEnds
  <1>4. r = F(r)
    <2> HIDE DEF F, r
    <2> QED BY <1>2, <1>3
  <1> HIDE DEF r
  <1>5. DOMAIN r = 0 .. Len(doc) /\ 0 \in 0 .. Len(doc)
    BY <1>4
  <1>6. \A i \in 0 .. Len(doc) :
          r[i] = IF i = 0 THEN 0 ELSE r[i - 1] + 1 + EofMarker + Len(AfterEof(doc, i))
    BY <1>4
  <1>7. \A i \in 1 .. Len(doc) : i \in 0 .. Len(doc) /\ i # 0
    OBVIOUS
  <1>8. \A i \in 1 .. Len(doc) : r[i] = r[i - 1] + 1 + EofMarker + Len(AfterEof(doc, i))
    BY <1>6, <1>7
  <1>9. r[0] = 0
    BY <1>5, <1>6
  <1> QED BY <1>5, <1>8, <1>9 DEF EndsUpTo, r

\* The bytes behind a marker are those of the tail, and one more at most.
LEMMA AfterEofFacts ==
  ASSUME NEW doc, NEW i \in 1 .. Len(doc), doc[i].tail \in Seq({"CR", "LF"})
  PROVE  /\ Len(AfterEof(doc, i)) \in Nat /\ Len(doc[i].tail) \in Nat
         /\ Len(doc[i].tail) <= Len(AfterEof(doc, i))
  <1> DEFINE t == doc[i].tail
  <1>1. AfterEof(doc, i) = Append(t, "LF") \/ AfterEof(doc, i) = t
    BY DEF AfterEof
  <1> HIDE DEF t
  <1>2. t \in Seq({"CR", "LF"})
    BY DEF t
  <1>3. Len(t) \in Nat /\ Len(Append(t, "LF")) = Len(t) + 1
    BY <1>2
  <1> QED BY <1>1, <1>3 DEF t

\* Revisions end one behind the other.
LEMMA EndsGrow ==
  ASSUME NEW doc, Len(doc) \in Nat, \A i \in 1 .. Len(doc) : doc[i].tail \in Seq({"CR", "LF"})
  PROVE  /\ \A i \in 0 .. Len(doc) : RevisionEnds(doc)[i] \in Nat
         /\ \A i \in 0 .. Len(doc) : \A j \in i .. Len(doc) :
              RevisionEnds(doc)[i] <= RevisionEnds(doc)[j]
         /\ \A i \in 1 .. Len(doc) :
              /\ RevisionEnds(doc)[i] = EofOffset(doc, i) + Len(AfterEof(doc, i))
              /\ EofOffset(doc, i) = RevisionEnds(doc)[i - 1] + 1 + EofMarker
              /\ EofOffset(doc, i) \in Nat
  <1> DEFINE r == RevisionEnds(doc)
             len(i) == Len(AfterEof(doc, i))
  <1>1. r[0] = 0 /\ \A i \in 1 .. Len(doc) : r[i] = r[i - 1] + 1 + EofMarker + len(i)
    BY EndsRecursion DEF EndsUpTo
  <1>2. \A i \in 1 .. Len(doc) : len(i) \in Nat
    BY AfterEofFacts
  <1>3. \A i \in 1 .. Len(doc) : EofOffset(doc, i) = r[i - 1] + 1 + EofMarker
    BY DEF EofOffset, RevisionInfo
  <1>4. EofMarker = 5
    BY DEF EofMarker
  <1> HIDE DEF r, len
  <1> DEFINE S == {n \in Nat : n <= Len(doc) => r[n] \in Nat}
             G(i) == {n \in Nat : (i <= n /\ n <= Len(doc)) => r[i] <= r[n]}
  <1>5. ASSUME NEW n \in Nat, n + 1 <= Len(doc), r[n] \in Nat
        PROVE  r[n + 1] \in Nat /\ r[n] <= r[n + 1]
    <2>1. n + 1 \in 1 .. Len(doc) /\ (n + 1) - 1 = n
      BY <1>5
    <2> DEFINE m == n + 1
    <2>2. m \in 1 .. Len(doc) /\ m - 1 = n
      BY <2>1
    <2> HIDE DEF m
    <2>3. r[m] = r[n] + 1 + EofMarker + len(m) /\ len(m) \in Nat
      BY <1>1, <1>2, <2>2
    <2> QED BY <1>4, <1>5, <2>3 DEF m
  <1>6. Nat \subseteq S
    <2>1. 0 \in S
      BY <1>1
    <2>2. \A n \in Nat : n \in S => n + 1 \in S
      BY <1>5
    <2> HIDE DEF S
    <2> QED BY <2>1, <2>2, SetInduction
  <1>7. \A n \in 0 .. Len(doc) : r[n] \in Nat
    BY <1>6
  <1>8. ASSUME NEW i \in 0 .. Len(doc)
        PROVE  Nat \subseteq G(i)
    <2>1. 0 \in G(i)
      BY <1>7
    <2>2. ASSUME NEW n \in Nat, n \in G(i) PROVE n + 1 \in G(i)
      <3>1. SUFFICES ASSUME i <= n + 1, n + 1 <= Len(doc) PROVE r[i] <= r[n + 1]
        BY <2>2
      <3>2. CASE i = n + 1
        BY <1>7, <3>2
      <3>3. CASE i # n + 1
        <4>1. i <= n /\ n \in 0 .. Len(doc) /\ n + 1 \in 0 .. Len(doc)
          BY <3>1, <3>3
        <4>2. r[i] <= r[n] /\ r[n] <= r[n + 1]
          BY <1>5, <1>7, <2>2, <3>1, <4>1
        <4> QED BY <1>7, <4>1, <4>2
      <3> QED BY <3>2, <3>3
    <2> DEFINE T == G(i)
    <2>3. 0 \in T /\ \A n \in Nat : n \in T => n + 1 \in T
      BY <2>1, <2>2
    <2> HIDE DEF T
    <2>4. Nat \subseteq T
      BY <2>3, SetInduction
    <2> QED BY <2>4 DEF T
  <1>9. ASSUME NEW i \in 0 .. Len(doc), NEW j \in i .. Len(doc)
        PROVE  r[i] <= r[j]
    BY <1>8
  <1>10. ASSUME NEW i \in 1 .. Len(doc)
         PROVE  /\ r[i] = EofOffset(doc, i) + len(i)
                /\ EofOffset(doc, i) \in Nat
    <2>1. i - 1 \in 0 .. Len(doc)
      OBVIOUS
    <2> QED BY <1>1, <1>3, <1>4, <1>7, <2>1
  <1> QED BY <1>3, <1>7, <1>9, <1>10 DEF r, len

\* What ends at the end of the file is the last revision.
LEMMA CoveredIsLast ==
  ASSUME NEW doc, IsDocument(doc),
         \A k \in 1 .. Len(doc) : doc[k].tail \in Seq({"CR", "LF"}), NEW i \in 1 .. Len(doc),
         Coverage(doc, i).covered = Coverage(doc, i).fileSize
  PROVE  i = Len(doc)
  <1> DEFINE n == Len(doc)
             r == RevisionEnds(doc)
             eof(k) == EofOffset(doc, k)
             len(k) == Len(doc[k].tail)
             after(k) == Len(AfterEof(doc, k))
  <1>1. n \in Nat /\ n \in 1 .. n
    BY DocumentFacts
  <1>2. eof(i) + len(i) = eof(n) + len(n)
    BY DEF Coverage, FileSize
  <1>3. SUFFICES ASSUME i # n PROVE FALSE
    OBVIOUS
  <1>4. i \in 0 .. n /\ n - 1 \in i .. n
    BY <1>1, <1>3
  <1>5. r[i] = eof(i) + after(i) /\ r[i] <= r[n - 1] /\ eof(n) = r[n - 1] + 1 + EofMarker
        /\ eof(i) \in Nat /\ eof(n) \in Nat /\ r[i] \in Nat
    BY <1>1, <1>4, EndsGrow
  <1>6. len(i) \in Nat /\ len(n) \in Nat /\ after(i) \in Nat /\ len(i) <= after(i)
    BY <1>1, AfterEofFacts
  <1>7. n - 1 \in 0 .. n
    BY <1>1, <1>4
  <1>8. r[n - 1] \in Nat
    BY <1>1, <1>7, EndsGrow
  <1>9. EofMarker = 5
    BY DEF EofMarker
  <1> HIDE DEF r, eof, len, after, n
  <1> QED BY <1>2, <1>5, <1>6, <1>8, <1>9

\* Every signature dictionary is a new object.
LEMMA DictsDistinct ==
  ASSUME NEW doc, DocInv(doc), NEW i \in 1 .. Len(doc), NEW j \in 1 .. Len(doc), i < j,
         doc[i].sig # NoSig, doc[j].sig # NoSig
  PROVE  doc[i].sig.dict # doc[j].sig.dict
  <1> DEFINE d == doc[i].sig.dict
  <1>1. i # 1 /\ Len(doc) \in Nat
    BY DocumentFacts DEF DocInv
  <1>2. i \in 2 .. Len(doc) /\ j \in 2 .. Len(doc) /\ j # 2 /\ i - 1 \in 1 .. Len(doc)
        /\ j - 1 \in i .. Len(doc) /\ i \in 1 .. Len(doc) /\ IsDocument(doc)
    BY <1>1 DEF DocInv
  <1>3. d \in DOMAIN At(doc, i)
    <2>1. CASE IsOwn(doc[i])
      <3>1. PICK field, id, pid : Hooks(At(doc, i - 1), doc[i], d, field, id, pid)
        BY <1>2, <2>1 DEF DocInv, StepOk
      <3>2. d \in DOMAIN doc[i].objs
        BY <3>1 DEF Hooks
      <3>3. Overwrites(At(doc, i - 1), doc[i].objs, At(doc, i))
        BY <1>2, AtStep
      <3> QED BY <3>2, <3>3 DEF Overwrites
    <2>2. CASE ~IsOwn(doc[i])
      BY <1>2, <2>2 DEF DocInv, StepOk
    <2> QED BY <2>1, <2>2
  <1>4. d \in DOMAIN At(doc, j - 1)
    <2>1. GraphStep(At(doc, i), At(doc, j - 1))
      BY <1>2, Onward
    <2> QED BY <1>3, <2>1 DEF GraphStep, KindsKept
  <1>5. IsOwn(doc[j])
    BY <1>2 DEF DocInv, StepOk
  <1>6. PICK field, id, pid : Hooks(At(doc, j - 1), doc[j], doc[j].sig.dict, field, id, pid)
    BY <1>2, <1>5 DEF DocInv, StepOk
  <1> QED BY <1>4, <1>6 DEF Hooks

\* /Perms names the dictionary of a certification, if anything.
LEMMA PermsStep ==
  ASSUME NEW doc, DocInv(doc), NEW i \in 2 .. Len(doc)
  PROVE  \/ doc[i].sig.what = "certify" /\ At(doc, i)[Catalog].perms = doc[i].sig.dict
         \/ At(doc, i)[Catalog].perms = At(doc, i - 1)[Catalog].perms
  <1> DEFINE prev == At(doc, i - 1)
             curr == At(doc, i)
             rev  == doc[i]
  <1>1. IsDocument(doc) /\ i - 1 \in 1 .. Len(doc) /\ Len(doc) \in Nat
    BY DocumentFacts DEF DocInv
  <1>2. StepOk(doc, i) /\ Overwrites(prev, rev.objs, curr)
    BY <1>1, AtStep DEF DocInv
  <1>3. WellFormed(prev)
    BY <1>1, GraphsWellFormed
  <1> HIDE DEF prev, curr, rev
  <1>4. Catalog \in DOMAIN prev
    BY <1>3 DEF WellFormed, PlacesOk
  <1>5. CASE IsOwn(rev)
    <2>1. PICK field, id, pid : Hooks(prev, rev, rev.sig.dict, field, id, pid)
      BY <1>2, <1>5 DEF StepOk, prev, rev
    <2>2. Catalog \in DOMAIN rev.objs
          /\ rev.objs[Catalog].perms =
               IF rev.sig.what = "certify" THEN rev.sig.dict ELSE prev[Catalog].perms
      BY <2>1 DEF Hooks
    <2>3. curr[Catalog] = rev.objs[Catalog]
      BY <1>2, <2>2 DEF Overwrites
    <2> QED BY <2>2, <2>3 DEF prev, curr, rev
  <1>6. CASE rev.sig = NoSig
    <2>1. IsEdit(prev, rev.objs)
      BY <1>2, <1>6 DEF StepOk, prev, rev
    <2>2. PICK next \in Nat : /\ \A n \in DOMAIN prev : n < next
                              /\ rev.objs \in SafeEdits(prev, next) \cup UnsafeEdits(prev, next)
      BY <2>1 DEF IsEdit
    <2>3. \A n \in DOMAIN prev : n \in Nat \ {0} /\ n < next
      BY <1>3, <2>2 DEF WellFormed
    <2> DEFINE objs == rev.objs
    <2>4. objs \in SafeEdits(prev, next) \cup UnsafeEdits(prev, next)
      BY <2>2
    <2> HIDE DEF objs
    <2>5. EditOk(prev, objs, next + 1)
      BY <1>3, <2>3, <2>4, EditsAreOk
    <2>6. Catalog \in DOMAIN objs => objs[Catalog].perms = prev[Catalog].perms
      BY <2>5 DEF EditOk, PlainEdit
    <2>7. curr[Catalog].perms = prev[Catalog].perms
      BY <1>2, <1>4, <2>6 DEF Overwrites, objs
    <2> QED BY <2>7 DEF prev, curr
  <1>7. CASE rev.sig # NoSig /\ ~IsOwn(rev)
    <2>1. curr[Catalog] = prev[Catalog]
      BY <1>2, <1>7 DEF StepOk, prev, curr, rev
    <2> QED BY <2>1 DEF prev, curr
  <1> QED BY <1>5, <1>6, <1>7

\* ... of the file, however it grew since.
LEMMA PermsOnward ==
  ASSUME NEW doc, DocInv(doc), NEW i \in 1 .. Len(doc), At(doc, i)[Catalog].perms # 0
  PROVE  \E k \in 2 .. i : /\ doc[k].sig.what = "certify"
                           /\ doc[k].sig.dict = At(doc, i)[Catalog].perms
  <1> DEFINE Good(m) == At(doc, m)[Catalog].perms # 0 =>
                          \E k \in 2 .. m : /\ doc[k].sig.what = "certify"
                                            /\ doc[k].sig.dict = At(doc, m)[Catalog].perms
             Bad == {m \in Nat : m \in 1 .. Len(doc) /\ ~Good(m)}
  <1>1. Len(doc) \in Nat
    BY DocumentFacts DEF DocInv
  <1>2. SUFFICES ASSUME Bad # {} PROVE FALSE
    BY <1>1
  <1>3. PICK m \in Bad : \A k \in Bad : m <= k
    <2>1. Bad \subseteq Nat
      OBVIOUS
    <2> HIDE DEF Bad
    <2> QED BY <1>2, <2>1, LeastElement
  <1>4. m \in 1 .. Len(doc) /\ ~Good(m)
    BY <1>3
  <1>5. m # 1
    <2>1. Good(1)
      BY DEF DocInv, Fresh
    <2> HIDE DEF Good
    <2> QED BY <1>4, <2>1
  <1>6. m - 1 \in 1 .. Len(doc) /\ m - 1 \in Nat /\ m - 1 < m /\ m \in 2 .. Len(doc)
        /\ m \in 2 .. m /\ \A k \in 2 .. m - 1 : k \in 2 .. m
    BY <1>1, <1>4, <1>5
  <1>7. Good(m - 1)
    <2> HIDE DEF Good
    <2> QED BY <1>1, <1>3, <1>6
  <1>8. \/ doc[m].sig.what = "certify" /\ At(doc, m)[Catalog].perms = doc[m].sig.dict
        \/ At(doc, m)[Catalog].perms = At(doc, m - 1)[Catalog].perms
    BY <1>6, PermsStep
  <1> QED BY <1>4, <1>6, <1>7, <1>8

\* What the verifier extracts the inspection lists.
LEMMA ExtractedIsInspected ==
  ASSUME NEW doc, NEW i \in ExtractedSignatures(doc)
  PROVE  i \in InspectedSignatures(doc) /\ i \in DOMAIN doc /\ doc[i].sig # NoSig
         /\ doc[i].sig.cms # NoCms
BY DEF ExtractedSignatures, InspectedSignatures

\* InspectionAgrees: the inspection and the verifier describe the same file.
THEOREM InspectionCorrect ==
  ASSUME EditorsOnly, KnownBases
  PROVE  Spec => []InspectionAgrees
  <1>1. ASSUME DocInv(file), NEW i \in ExtractedSignatures(file)
        PROVE  LET info == SignatureFieldInfo(file, i)
               IN  /\ i \in InspectedSignatures(file)
                   /\ CmsByObject(file, info.objNum) = {file[i].sig.cms}
                   /\ FindSignatureRevision(file, i) =>
                        info.coverage.covered = RevisionInfo(file, i).byteEnd
                   /\ (info.coverage.covered = info.coverage.fileSize /\ EndsInNewline) =>
                        CoversWholeDocument(file, i)
    <2> DEFINE d == file[i].sig.dict
               cover == Coverage(file, i)
    <2>1. /\ IsDocument(file) /\ Len(file) \in Nat /\ DOMAIN file = 1 .. Len(file)
          /\ \A k \in 1 .. Len(file) : file[k].tail \in Seq({"CR", "LF"})
      BY <1>1, DocumentFacts DEF DocInv
    <2>2. i \in InspectedSignatures(file) /\ i \in 1 .. Len(file)
          /\ file[i].sig # NoSig /\ file[i].sig.cms # NoCms
      BY <1>1, <2>1, ExtractedIsInspected
    <2>3. SignatureFieldInfo(file, i).objNum = d /\ SignatureFieldInfo(file, i).coverage = cover
      BY DEF SignatureFieldInfo
    <2>4. CmsByObject(file, d) = {file[i].sig.cms}
      <3>1. ASSUME NEW k \in 1 .. Len(file), file[k].sig.dict = d, file[k].sig.cms # NoCms
            PROVE  k = i
        <4>1. file[k].sig # NoSig
          BY <3>1 DEF NoSig
        <4>2. k < i \/ i < k \/ k = i
          BY <2>1, <2>2
        <4> QED BY <1>1, <2>2, <3>1, <4>1, <4>2, DictsDistinct
      <3> QED BY <2>1, <2>2, <3>1 DEF CmsByObject
    <2>5. ASSUME FindSignatureRevision(file, i)
          PROVE  cover.covered = RevisionInfo(file, i).byteEnd
      <3>1. AfterEof(file, i) = file[i].tail
        BY <2>1, <2>2, <2>5, ScannedWhole
      <3>2. RevisionEnds(file)[i] = EofOffset(file, i) + Len(AfterEof(file, i))
        BY <2>1, <2>2, EndsGrow
      <3>3. RevisionInfo(file, i).byteEnd = RevisionEnds(file)[i]
        BY DEF RevisionInfo
      <3>4. cover.covered = EofOffset(file, i) + Len(file[i].tail)
        BY DEF Coverage
      <3> QED BY <3>1, <3>2, <3>3, <3>4
    <2>6. ASSUME cover.covered = cover.fileSize, EndsInNewline
          PROVE  CoversWholeDocument(file, i)
      <3>1. i = Len(file)
        BY <2>1, <2>2, <2>6, CoveredIsLast
      <3>2. FindSignatureRevision(file, i)
        BY <2>1, <2>2, <2>6, NewlineEnds DEF EndsInNewline
      <3>3. i + 1 .. Len(file) = {}
        BY <2>1, <3>1
      <3> QED BY <3>2, <3>3 DEF CoversWholeDocument
    <2> HIDE DEF d, cover
    <2> QED BY <2>2, <2>3, <2>4, <2>5, <2>6
  <1>2. ASSUME DocInv(file), Store(file)[Catalog].perms # 0
        PROVE  \E i \in InspectedSignatures(file) :
                 LET info == SignatureFieldInfo(file, i)
                 IN  info.docMdp /\ info.objNum = Store(file)[Catalog].perms
    <2>1. IsDocument(file) /\ Len(file) \in 1 .. Len(file) /\ Len(file) \in Nat
      BY <1>2, DocumentFacts DEF DocInv
    <2>2. PICK k \in 2 .. Len(file) : /\ file[k].sig.what = "certify"
                                      /\ file[k].sig.dict = Store(file)[Catalog].perms
      BY <1>2, <2>1, AtFacts, PermsOnward
    <2>3. k \in 1 .. Len(file) /\ IsOwn(file[k])
      BY <2>1, <2>2 DEF IsOwn
    <2>4. k \in AnalysedSignatures(file) /\ Listed(Store(file), file[k].sig.dict)
      BY <1>2, <2>3, OwnListed
    <2>5. k \in InspectedSignatures(file)
      BY <2>4, ListedIsRead DEF AnalysedSignatures, InspectedSignatures
    <2>6. SignatureFieldInfo(file, k).docMdp /\ SignatureFieldInfo(file, k).objNum = file[k].sig.dict
      BY <2>2 DEF SignatureFieldInfo
    <2> QED BY <2>2, <2>5, <2>6
  <1>3. IInv /\ FilesInv => InspectionAgrees
    BY <1>1, <1>2 DEF FilesInv, InspectionAgrees
  <1> QED BY <1>3, FilesInvariance, PTL
=============================================================================
