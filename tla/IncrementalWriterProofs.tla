---------------------- MODULE IncrementalWriterProofs ----------------------
(***************************************************************************)
(* Proofs about IncrementalWriter for every set of jobs, every length a    *)
(* signer may return and every width of the placeholder.                   *)
(*                                                                         *)
(* The properties are not inductive: that the ByteRange leaves out exactly *)
(* the /Contents string when it is computed depends on where the two       *)
(* placeholders were written, in whichever order, and on nothing having    *)
(* touched them since.  Layout says where they are and which bytes belong  *)
(* to /Contents, Order which of them has been written at each control      *)
(* point, Pending that the signature dictionary is written once.           *)
(*                                                                         *)
(* That the cross-reference section finds the objects takes two arguments: *)
(* sorting and grouping the entries loses none of them (SectionLists), and *)
(* at every point the entries are the objects in the buffer (XrefInv).     *)
(***************************************************************************)
EXTENDS SignThenVerify, FiniteSetTheorems, SequenceTheorems, WellFoundedInduction, TLAPS

SigTags == {"<", "hex", "cms", "pad", ">"}
Plain(s) == \A i \in DOMAIN s : s[i][1] \notin SigTags

\* A run of equal bytes is a byte sequence.
LEMMA BytesSeq ==
  ASSUME NEW tag \in Tag, NEW n \in Nat
  PROVE  /\ Bytes(tag, n) \in Seq(ByteType)
         /\ Len(Bytes(tag, n)) = n
         /\ DOMAIN Bytes(tag, n) = 1 .. n
         /\ \A i \in 1 .. n : Bytes(tag, n)[i] = <<tag, 0>>
<1>1. <<tag, 0>> \in ByteType  BY DEF ByteType
<1>2. Bytes(tag, n) = [i \in 1 .. n |-> <<tag, 0>>]  BY DEF Bytes, Byte
<1> HIDE DEF ByteType
<1>3. [i \in 1 .. n |-> <<tag, 0>>] \in Seq(ByteType)  BY <1>1
<1>4. Len([i \in 1 .. n |-> <<tag, 0>>]) = n  OBVIOUS
<1> QED  BY <1>2, <1>3, <1>4

\* Every nonempty set of naturals has a least element.
LEMMA LeastElement ==
  ASSUME NEW T, T \subseteq Nat, T # {}
  PROVE  \E x \in T : \A y \in T : x <= y
<1> DEFINE R == OpToRel(<, Nat)
<1>1. IsWellFoundedOn(R, Nat)  BY NatLessThanWellFounded
<1>2. \E x \in T : \A y \in T : ~(<<y, x>> \in R)
  <2> HIDE DEF R
  <2> QED BY <1>1, WFMin
<1>3. \E x \in T : \A y \in T : ~(y < x)
  BY <1>2 DEF OpToRel
<1> HIDE DEF R
<1> QED BY <1>3

\* Every nonempty set of naturals with a bound has a greatest element.
LEMMA GreatestElement ==
  ASSUME NEW S, S \subseteq Nat, S # {}, NEW b \in Nat, \A s \in S : s <= b
  PROVE  \E m \in S : \A s \in S : s <= m
<1> DEFINE T == {c \in Nat : \A s \in S : s <= c}
<1>1. T \subseteq Nat /\ T # {}  OBVIOUS
<1>2. PICK x \in T : \A y \in T : x <= y
  <2> HIDE DEF T
  <2> QED BY <1>1, LeastElement
<1>3. x \in Nat /\ \A s \in S : s <= x  BY <1>2
<1>4. \A c \in Nat : (\A s \in S : s <= c) => x <= c  BY <1>2
<1> HIDE DEF T
<1>5. SUFFICES ASSUME x \notin S PROVE FALSE  BY <1>3
<1>6. PICK s \in S : TRUE  OBVIOUS
<1>7. s \in Nat /\ s <= x /\ s # x  BY <1>3, <1>5
<1>8. x - 1 \in Nat  BY <1>3, <1>7
<1>9. \A t \in S : t \in Nat /\ t <= x /\ t # x  BY <1>3, <1>5
<1>10. \A t \in S : t <= x - 1  BY <1>3, <1>9
<1> QED BY <1>3, <1>4, <1>8, <1>10

\* The greatest number in the xref entries exists once they are bounded.
LEMMA MaxNumberNat ==
  ASSUME NEW s \in Seq(Nat \X Nat), NEW b \in Nat, \A i \in DOMAIN s : s[i][1] <= b
  PROVE  MaxNumber(s) \in Nat
<1> DEFINE ids == {s[i][1] : i \in DOMAIN s} \cup {0}
<1>1. \A i \in DOMAIN s : s[i] \in Nat \X Nat  OBVIOUS
<1>2. ids \subseteq Nat /\ ids # {} /\ \A k \in ids : k <= b  BY <1>1
<1>3. \E m \in ids : \A k \in ids : k <= m
  <2> HIDE DEF ids
  <2> QED BY <1>2, GreatestElement
<1> DEFINE nums == {s[i][1] : i \in DOMAIN s}
<1>4. \E m \in nums \cup {0} : \A k \in nums : k <= m  BY <1>3
<1>5. MaxNumber(s) = CHOOSE m \in nums \cup {0} : \A k \in nums : k <= m  BY DEF MaxNumber
<1>6. nums \subseteq Nat  BY <1>1
<1> HIDE DEF nums
<1>7. MaxNumber(s) \in nums \cup {0}  BY <1>4, <1>5
<1>8. nums \cup {0} \subseteq Nat  BY <1>6
<1> QED BY <1>7, <1>8

\* Overwriting keeps the length and changes only the given stretch.
LEMMA OverwriteSeq ==
  ASSUME NEW b \in Seq(ByteType), NEW off \in Int, NEW tag \in Tag, NEW n \in Int
  PROVE  /\ Overwrite(b, off, tag, n) \in Seq(ByteType)
         /\ Len(Overwrite(b, off, tag, n)) = Len(b)
         /\ \A i \in 1 .. Len(b) : Overwrite(b, off, tag, n)[i] =
               IF off < i /\ i <= off + n THEN <<tag, 0>> ELSE b[i]
<1> DEFINE new(i) == IF off < i /\ i <= off + n THEN <<tag, 0>> ELSE b[i]
<1>1. Len(b) \in Nat /\ DOMAIN b = 1 .. Len(b)  OBVIOUS
<1>0. <<tag, 0>> \in ByteType  BY DEF ByteType
<1>2. \A i \in 1 .. Len(b) : new(i) \in ByteType  BY <1>0, <1>1
<1>3. Overwrite(b, off, tag, n) = [i \in 1 .. Len(b) |-> new(i)]  BY <1>1 DEF Overwrite, Byte
<1> HIDE DEF new
<1>4. [i \in 1 .. Len(b) |-> new(i)] \in Seq(ByteType)  BY <1>1, <1>2
<1>5. Len([i \in 1 .. Len(b) |-> new(i)]) = Len(b)  BY <1>1
<1>6. \A i \in 1 .. Len(b) : [i_1 \in 1 .. Len(b) |-> new(i_1)][i] = new(i)  OBVIOUS
<1> QED BY <1>3, <1>4, <1>5, <1>6 DEF new

-----------------------------------------------------------------------------
KeyLeft(k) == \E i \in DOMAIN keys : keys[i] = k
Once(k) == \A i, j \in DOMAIN keys : keys[i] = k /\ keys[j] = k => i = j

ContentsPlace ==
  br.coOff > 0 => /\ br.coOff > job.orig
                  /\ br.coOff + br.coLen + 1 <= Len(buf)
                  /\ br.coLen = 2 * job.reserve

RangePlace ==
  br.brLen > 0 => br.brOff >= job.orig /\ br.brOff + br.brLen <= Len(buf)

Apart ==
  (br.coOff > 0 /\ br.brLen > 0) =>
     br.brOff + br.brLen < br.coOff \/ br.coOff + br.coLen + 1 <= br.brOff

InContents(i) == br.coOff > 0 /\ br.coOff <= i /\ i <= br.coOff + br.coLen + 1
Tags == \A i \in 1 .. Len(buf) : buf[i][1] \in SigTags <=> InContents(i)

Layout == job.orig <= Len(buf) /\ ContentsPlace /\ RangePlace /\ Apart /\ Tags

Order ==
  /\ pc \in {"start", "objects"} /\ ~br.found => br = NoRange
  /\ br.found => br.coOff > 0 /\ br.brLen > 0
  /\ pc = "start" => ~br.found
  /\ pc = "dict" => /\ ~br.found /\ br.coLen = 2 * job.reserve
                    /\ todo # <<>> /\ Head(todo).id = job.sig
                    /\ (KeyLeft("Contents") <=> br.coOff = 0)
                    /\ (KeyLeft("ByteRange") <=> br.brLen = 0)
                    /\ Once("Contents") /\ Once("ByteRange")
  /\ pc \in {"xref", "backpatch", "written", "hashed", "done"} => br.found

Pending ==
  /\ \A i, j \in DOMAIN todo : todo[i].id = todo[j].id => i = j
  /\ br.found => \A i \in DOMAIN todo : todo[i].id # job.sig

Bounded == \E b \in Nat : \A i \in DOMAIN entries : entries[i][1] <= b

IInv == TypeOK /\ Layout /\ Order /\ Pending /\ Bounded /\ SignedBytesUnchanged

\* a step that leaves the original bytes where they are
Kept == \A i \in 1 .. job.orig : buf'[i] = buf[i]

\* What WriterAssumption says of the job at hand.
LEMMA JobFacts ==
  ASSUME job \in Jobs
  PROVE  /\ job.orig \in Nat \ {0} /\ job.reserve \in Nat /\ job.prevSize \in Nat
         /\ job.sig \in Nat \ {0} /\ job.objects \in Seq(Object)
         /\ job.keys \in Seq({"ByteRange", "Contents", "Other"})
         /\ \E b, c \in DOMAIN job.keys :
              /\ job.keys[b] = "ByteRange" /\ job.keys[c] = "Contents"
              /\ \A k \in DOMAIN job.keys \ {b, c} : job.keys[k] = "Other"
         /\ \A x, y \in DOMAIN job.objects : job.objects[x].id = job.objects[y].id => x = y
<1>1. IsJob(job)  BY WriterAssumption
<1> QED BY <1>1 DEF IsJob, JobType

\* Appending bytes that belong to no /Contents keeps the places and the tags
\* right, whatever happens to the ByteRange placeholder's own place.
LEMMA Grow ==
  ASSUME TypeOK, Layout, NEW s \in Seq(ByteType), Plain(s),
         buf' = buf \o s, job' = job, br' \in RangeType,
         br'.coOff = br.coOff, br.coOff > 0 => br'.coLen = br.coLen
  PROVE  /\ buf' \in Seq(ByteType) /\ Len(buf') = Len(buf) + Len(s)
         /\ Kept /\ job'.orig <= Len(buf') /\ ContentsPlace' /\ Tags'
<1> USE DEF RangeType
<1>1. buf \in Seq(ByteType) /\ br \in RangeType  BY DEF TypeOK, ByteType
<1>2. /\ buf' \in Seq(ByteType) /\ Len(buf') = Len(buf) + Len(s)
      /\ \A i \in 1 .. Len(buf) + Len(s) :
           buf'[i] = IF i <= Len(buf) THEN buf[i] ELSE s[i - Len(buf)]
  BY <1>1, ConcatProperties
<1>3. Len(buf) \in Nat /\ Len(s) \in Nat /\ DOMAIN s = 1 .. Len(s)  BY <1>1
<1>4. job.orig \in Nat  BY JobFacts DEF TypeOK
<1>5. job'.orig <= Len(buf')  BY <1>2, <1>3, <1>4 DEF Layout
<1>6. ContentsPlace'  BY <1>1, <1>2, <1>3, <1>4 DEF Layout, ContentsPlace
<1>7. Tags'
  <2> SUFFICES ASSUME NEW i \in 1 .. Len(buf')
               PROVE  buf'[i][1] \in SigTags <=> InContents(i)'
    BY DEF Tags
  <2>1. InContents(i)' <=> InContents(i)  BY <1>1 DEF InContents
  <2>2. CASE i <= Len(buf)
    <3>1. i \in 1 .. Len(buf) /\ buf'[i] = buf[i]  BY <1>2, <1>3, <2>2
    <3> QED BY <2>1, <3>1 DEF Layout, Tags
  <2>3. CASE i > Len(buf)
    <3>1. i - Len(buf) \in DOMAIN s /\ buf'[i] = s[i - Len(buf)]  BY <1>2, <1>3, <2>3
    <3>2. ~InContents(i)  BY <1>1, <1>3, <2>3 DEF InContents, Layout, ContentsPlace
    <3> QED BY <2>1, <3>1, <3>2 DEF Plain
  <2> QED BY <2>2, <2>3, <1>2, <1>3
<1>8. Kept  BY <1>2, <1>3, <1>4 DEF Kept, Layout
<1> QED BY <1>2, <1>3, <1>5, <1>6, <1>7, <1>8

\* Append is concatenation with a sequence of one element.
LEMMA AppendOneByte ==
  ASSUME NEW S, NEW b \in Seq(S), NEW x \in S
  PROVE  Append(b, x) = b \o <<x>> /\ <<x>> \in Seq(S)
<1>1. Append(b, x) = b \o <<x>>  BY AppendIsConcat
<1>2. <<x>> \in Seq(S)  OBVIOUS
<1> QED BY <1>1, <1>2

\* Append followed by concatenation is one concatenation.
LEMMA AppendThenConcat ==
  ASSUME NEW S, NEW b \in Seq(S), NEW x \in S, NEW t \in Seq(S)
  PROVE  Append(b, x) \o t = b \o (<<x>> \o t)
<1>1. Append(b, x) = b \o <<x>> /\ <<x>> \in Seq(S)  BY AppendOneByte
<1>2. (b \o <<x>>) \o t = b \o (<<x>> \o t)  BY <1>1, ConcatAssociative
<1> QED BY <1>1, <1>2

\* Elements of a tail are those of the sequence, one place on.
LEMMA TailFacts ==
  ASSUME NEW S, NEW s \in Seq(S), s # <<>>
  PROVE  /\ Tail(s) \in Seq(S) /\ Head(s) \in S /\ Head(s) = s[1] /\ 1 \in DOMAIN s
         /\ Len(Tail(s)) = Len(s) - 1 /\ Len(s) \in Nat
         /\ \A i \in DOMAIN Tail(s) : i + 1 \in DOMAIN s /\ Tail(s)[i] = s[i + 1]
         /\ \A i \in DOMAIN s : i # 1 => i - 1 \in DOMAIN Tail(s) /\ Tail(s)[i - 1] = s[i]
OBVIOUS

\* Bytes with a known tag, and which tags are not of /Contents.
LEMMA TagFacts ==
  /\ \A tag \in Tag : \A n \in Nat : <<tag, n>> \in ByteType
  /\ Tag \ SigTags = {"orig", "nl", "obj", "body", "key", "zero", "range", "xref", "eof"}
  /\ SigTags \subseteq Tag
BY DEF Tag, ByteType, SigTags

\* One byte outside /Contents.
LEMMA PlainByte ==
  ASSUME NEW tag \in Tag \ SigTags, NEW n \in Nat
  PROVE  <<<<tag, n>>>> \in Seq(ByteType) /\ Plain(<<<<tag, n>>>>) /\ Len(<<<<tag, n>>>>) = 1
BY TagFacts DEF Plain

\* A run of bytes outside /Contents.
LEMMA PlainBytes ==
  ASSUME NEW tag \in Tag \ SigTags, NEW n \in Nat
  PROVE  Bytes(tag, n) \in Seq(ByteType) /\ Plain(Bytes(tag, n))
BY BytesSeq DEF Plain

\* Sequences of bytes outside /Contents concatenate to one.
LEMMA PlainConcat ==
  ASSUME NEW s \in Seq(ByteType), NEW t \in Seq(ByteType), Plain(s), Plain(t)
  PROVE  s \o t \in Seq(ByteType) /\ Plain(s \o t)
<1>1. /\ s \o t \in Seq(ByteType) /\ Len(s \o t) = Len(s) + Len(t)
      /\ \A i \in 1 .. Len(s) + Len(t) : (s \o t)[i] = IF i <= Len(s) THEN s[i] ELSE t[i - Len(s)]
  BY ConcatProperties
<1>2. Len(s) \in Nat /\ Len(t) \in Nat /\ DOMAIN s = 1 .. Len(s) /\ DOMAIN t = 1 .. Len(t)
      /\ DOMAIN (s \o t) = 1 .. Len(s) + Len(t)
  BY <1>1
<1> SUFFICES ASSUME NEW i \in 1 .. Len(s) + Len(t) PROVE (s \o t)[i][1] \notin SigTags
  BY <1>1, <1>2 DEF Plain
<1>3. CASE i <= Len(s)  BY <1>1, <1>2, <1>3 DEF Plain
<1>4. CASE ~(i <= Len(s))
  <2>1. i - Len(s) \in DOMAIN t  BY <1>2, <1>4
  <2> QED BY <1>1, <1>4, <2>1 DEF Plain
<1> QED BY <1>3, <1>4

\* The invariant holds when write() is called.
LEMMA InitOK == Init => IInv
<1> SUFFICES ASSUME Init PROVE IInv
  OBVIOUS
<1>1. /\ job \in Jobs /\ pc = "start" /\ buf = Bytes("orig", job.orig) /\ todo = job.objects
      /\ keys = <<>> /\ br = NoRange /\ entries = <<>> /\ hashed = <<>>
  BY DEF Init
<1>2. job.orig \in Nat \ {0}  BY <1>1, JobFacts
<1>3. /\ buf \in Seq(ByteType) /\ Len(buf) = job.orig
      /\ \A i \in 1 .. Len(buf) : buf[i] = <<"orig", 0>>
  BY <1>1, <1>2, TagFacts, BytesSeq
<1>4. TypeOK
  <2>1. br \in RangeType  BY <1>1 DEF RangeType, NoRange
  <2>2. todo \in Seq(Object) /\ keys \in Seq({"ByteRange", "Contents", "Other"})
        /\ entries \in Seq(Nat \X Nat)
    BY <1>1, JobFacts
  <2> QED BY <1>1, <1>3, <2>1, <2>2 DEF TypeOK
<1>5. Layout
  BY <1>1, <1>2, <1>3 DEF Layout, ContentsPlace, RangePlace, Apart, Tags, NoRange,
                              InContents, SigTags
<1>6. Order  BY <1>1 DEF Order, NoRange
<1>7. Pending  BY <1>1, JobFacts DEF Pending, NoRange
<1>8. Bounded  BY <1>1 DEF Bounded
<1>9. SignedBytesUnchanged  BY <1>1 DEF SignedBytesUnchanged
<1> QED BY <1>4, <1>5, <1>6, <1>7, <1>8, <1>9 DEF IInv

\* Appending bytes that belong to no /Contents, with br as it was.
LEMMA GrowLayout ==
  ASSUME TypeOK, Layout, NEW s \in Seq(ByteType), Plain(s),
         buf' = buf \o s, job' = job, br' = br
  PROVE  Layout' /\ Kept /\ buf' \in Seq(ByteType)
<1>1. br \in RangeType /\ buf \in Seq(ByteType) /\ Len(buf) \in Nat /\ Len(s) \in Nat
  BY DEF TypeOK
<1>2. /\ buf' \in Seq(ByteType) /\ Len(buf') = Len(buf) + Len(s)
      /\ Kept /\ job'.orig <= Len(buf') /\ ContentsPlace' /\ Tags'
  BY <1>1, Grow
<1>3. Apart'  BY DEF Layout, Apart
<1>4. RangePlace'  BY <1>1, <1>2 DEF Layout, RangePlace, RangeType
<1> QED BY <1>2, <1>3, <1>4 DEF Layout

\* Start keeps the invariant and the original bytes.
LEMMA StartOK == IInv /\ Start => IInv' /\ Kept
<1> SUFFICES ASSUME IInv, Start PROVE IInv' /\ Kept
  OBVIOUS
<1>1. /\ pc = "start" /\ pc' = "objects" /\ job' = job /\ todo' = todo /\ keys' = keys
      /\ br' = br /\ entries' = entries /\ hashed' = hashed
      /\ buf' = IF job.newline THEN buf ELSE Append(buf, Byte("nl"))
  BY DEF Start
<1>2. TypeOK /\ Layout /\ Order /\ Pending /\ Bounded  BY DEF IInv
<1>3. buf \in Seq(ByteType) /\ ~br.found  BY <1>1, <1>2 DEF TypeOK, Order
<1>4. Layout' /\ Kept /\ buf' \in Seq(ByteType)
  <2>1. CASE job.newline
    BY <1>1, <1>2, <1>3, <2>1 DEF Layout, ContentsPlace, RangePlace, Apart, Tags, InContents, Kept
  <2>2. CASE ~job.newline
    <3>1. Byte("nl") \in ByteType /\ Plain(<<Byte("nl")>>)
      BY TagFacts, PlainByte DEF Byte
    <3>2. buf' = buf \o <<Byte("nl")>> /\ <<Byte("nl")>> \in Seq(ByteType)
      BY <1>1, <1>3, <2>2, <3>1, AppendOneByte
    <3> QED BY <1>1, <1>2, <3>1, <3>2, GrowLayout
  <2> QED BY <2>1, <2>2
<1>5. TypeOK'  BY <1>1, <1>2, <1>4 DEF TypeOK
<1>6. Order'  BY <1>1, <1>2 DEF Order
<1>7. Pending' /\ Bounded' /\ SignedBytesUnchanged'
  BY <1>1, <1>2 DEF Pending, Bounded, SignedBytesUnchanged
<1> QED BY <1>4, <1>5, <1>6, <1>7 DEF IInv

\* One more entry keeps the entries bounded.
LEMMA BoundedStep ==
  ASSUME entries \in Seq(Nat \X Nat), Bounded, NEW n \in Nat, NEW off \in Nat,
         entries' = Append(entries, <<n, off>>)
  PROVE  Bounded' /\ entries' \in Seq(Nat \X Nat)
<1>1. PICK b \in Nat : \A i \in DOMAIN entries : entries[i][1] <= b  BY DEF Bounded
<1>2. \A i \in DOMAIN entries : entries[i][1] \in Nat  OBVIOUS
<1>3. \A i \in DOMAIN entries' : entries'[i] = <<n, off>> \/ (i \in DOMAIN entries /\ entries'[i] = entries[i])
  OBVIOUS
<1>4. \A i \in DOMAIN entries' : entries'[i][1] <= b + n
  BY <1>1, <1>2, <1>3
<1>5. b + n \in Nat  BY <1>1
<1>6. Bounded'  BY <1>4, <1>5 DEF Bounded
<1> QED BY <1>6

\* What TypeOK says of the next pending object and the rest.
LEMMA HeadFacts ==
  ASSUME TypeOK, todo # <<>>
  PROVE  /\ Head(todo).id \in Nat /\ Head(todo).len \in Nat
         /\ Tail(todo) \in Seq(Object) /\ Head(todo) = todo[1] /\ 1 \in DOMAIN todo
         /\ \A i \in DOMAIN Tail(todo) : i + 1 \in DOMAIN todo /\ Tail(todo)[i] = todo[i + 1]
                                         /\ i + 1 # 1
<1>1. todo \in Seq(Object)  BY DEF TypeOK
<1>2. Head(todo) \in Object  BY <1>1, TailFacts
<1>3. Head(todo).id \in Nat /\ Head(todo).len \in Nat  BY <1>2 DEF Object
<1>4. \A i \in DOMAIN Tail(todo) : i + 1 # 1  BY <1>1
<1> QED BY <1>1, <1>3, <1>4, TailFacts

\* An appended byte and what follows it are one plain piece.
LEMMA ObjectBytes ==
  ASSUME NEW b \in Seq(ByteType), NEW x \in ByteType, x[1] \notin SigTags,
         NEW t \in Seq(ByteType), Plain(t)
  PROVE  \E s \in Seq(ByteType) :
            Plain(s) /\ Append(b, x) \o t = b \o s /\ Len(s) = Len(t) + 1
<1>1. <<x>> \in Seq(ByteType) /\ Len(<<x>>) = 1 /\ Plain(<<x>>)
  BY DEF Plain
<1>2. Append(b, x) \o t = b \o (<<x>> \o t)  BY <1>1, AppendThenConcat
<1>3. <<x>> \o t \in Seq(ByteType) /\ Plain(<<x>> \o t)  BY <1>1, PlainConcat
<1>4. Len(<<x>> \o t) = Len(t) + 1  BY <1>1, ConcatProperties
<1> QED BY <1>2, <1>3, <1>4

\* WriteObject keeps the invariant and the original bytes.
LEMMA WriteObjectOK == IInv /\ WriteObject => IInv' /\ Kept
<1> SUFFICES ASSUME IInv, WriteObject PROVE IInv' /\ Kept
  OBVIOUS
<1> DEFINE o == Head(todo)
           x == <<"obj", o.id>>
           t == Bytes("body", o.len)
<1>1. /\ pc = "objects" /\ todo # <<>> /\ pc' = pc /\ job' = job /\ keys' = keys
      /\ br' = br /\ hashed' = hashed /\ todo' = Tail(todo)
      /\ entries' = Append(entries, <<o.id, Len(buf)>>)
      /\ buf' = Append(buf, x) \o t
  BY DEF WriteObject
<1>2. TypeOK /\ Layout /\ Order /\ Pending /\ Bounded  BY DEF IInv
<1>3. buf \in Seq(ByteType) /\ Len(buf) \in Nat /\ entries \in Seq(Nat \X Nat)
  BY <1>2 DEF TypeOK
<1>4. o.id \in Nat /\ o.len \in Nat  BY <1>1, <1>2, HeadFacts
<1> HIDE DEF o
<1>5. x \in ByteType /\ x[1] \notin SigTags /\ t \in Seq(ByteType) /\ Plain(t)
  BY <1>4, TagFacts, PlainBytes DEF SigTags
<1> HIDE DEF x, t
<1>6. \E s \in Seq(ByteType) : Plain(s) /\ buf' = buf \o s
  BY <1>1, <1>3, <1>5, ObjectBytes
<1>7. Layout' /\ Kept /\ buf' \in Seq(ByteType)  BY <1>1, <1>2, <1>6, GrowLayout
<1>8. Bounded' /\ entries' \in Seq(Nat \X Nat)  BY <1>1, <1>2, <1>3, <1>4, BoundedStep
<1>9. TypeOK'  BY <1>1, <1>2, <1>7, <1>8, HeadFacts DEF TypeOK
<1>10. Order'  BY <1>1, <1>2 DEF Order
<1>11. Pending'
  <2> DEFINE r == Tail(todo)
  <2>1. \A i \in DOMAIN r : i + 1 \in DOMAIN todo /\ r[i] = todo[i + 1]  BY <1>1, <1>2, HeadFacts
  <2>2. \A i \in DOMAIN r : i \in Nat
    <3>1. r \in Seq(Object)  BY <1>1, <1>2, HeadFacts
    <3> QED BY <3>1
  <2>3. todo' = r  BY <1>1
  <2> HIDE DEF r
  <2>4. \A i, j \in DOMAIN r : i + 1 = j + 1 => i = j  BY <2>2
  <2> QED BY <1>1, <1>2, <2>1, <2>3, <2>4 DEF Pending
<1>12. SignedBytesUnchanged'  BY <1>1 DEF SignedBytesUnchanged
<1> QED BY <1>7, <1>8, <1>9, <1>10, <1>11, <1>12 DEF IInv

\* Taking a key from the dictionary's list.
LEMMA KeysTail ==
  ASSUME TypeOK, keys # <<>>, keys' = Tail(keys), NEW k, Once(k)
  PROVE  Once(k)' /\ (KeyLeft(k)' <=> Head(keys) # k /\ KeyLeft(k))
<1>1. keys \in Seq({"ByteRange", "Contents", "Other"})  BY DEF TypeOK
<1>2. /\ Head(keys) = keys[1] /\ 1 \in DOMAIN keys
      /\ \A i \in DOMAIN keys' : i + 1 \in DOMAIN keys /\ keys'[i] = keys[i + 1]
      /\ \A i \in DOMAIN keys : i # 1 => i - 1 \in DOMAIN keys' /\ keys'[i - 1] = keys[i]
  BY <1>1, TailFacts
<1>3. DOMAIN keys' \subseteq Nat \ {0}  BY <1>1
<1>4. Once(k)'  BY <1>2, <1>3 DEF Once
<1>5. CASE Head(keys) = k
  <2>1. \A i \in DOMAIN keys' : i + 1 # 1  BY <1>3
  <2> QED BY <1>2, <1>4, <1>5, <2>1 DEF Once, KeyLeft
<1>6. CASE Head(keys) # k
  <2>1. KeyLeft(k)' => KeyLeft(k)  BY <1>2 DEF KeyLeft
  <2>2. KeyLeft(k) => KeyLeft(k)'  BY <1>2, <1>6 DEF KeyLeft
  <2> QED BY <1>4, <1>6, <2>1, <2>2
<1> QED BY <1>5, <1>6

\* OpenSigDict keeps the invariant; a dictionary is opened only once.
LEMMA OpenSigDictOK == IInv /\ OpenSigDict => IInv' /\ Kept
<1> SUFFICES ASSUME IInv, OpenSigDict PROVE IInv' /\ Kept
  OBVIOUS
<1> DEFINE x == <<"obj", Head(todo).id>>
<1>1. /\ pc = "objects" /\ todo # <<>> /\ Head(todo).id = job.sig /\ pc' = "dict"
      /\ job' = job /\ todo' = todo /\ hashed' = hashed /\ keys' = job.keys
      /\ br' = [NoRange EXCEPT !.coLen = 2 * job.reserve]
      /\ entries' = Append(entries, <<Head(todo).id, Len(buf)>>)
      /\ buf' = Append(buf, x)
  BY DEF OpenSigDict
<1>2. TypeOK /\ Layout /\ Order /\ Pending /\ Bounded  BY DEF IInv
<1>3. buf \in Seq(ByteType) /\ Len(buf) \in Nat /\ entries \in Seq(Nat \X Nat) /\ job \in Jobs
  BY <1>2 DEF TypeOK
<1>4. Head(todo).id \in Nat /\ 1 \in DOMAIN todo /\ Head(todo) = todo[1]
  BY <1>1, <1>2, HeadFacts
<1>5. ~br.found /\ br = NoRange  BY <1>1, <1>2, <1>4 DEF Order, Pending
<1>6. x \in ByteType /\ Plain(<<x>>)  BY <1>4, TagFacts, PlainByte
<1> HIDE DEF x
<1>7. buf' = buf \o <<x>> /\ <<x>> \in Seq(ByteType)  BY <1>1, <1>3, <1>6, AppendOneByte
<1>8. /\ br' \in RangeType /\ br'.coOff = br.coOff /\ br'.coOff = 0 /\ br'.brLen = 0
      /\ ~br'.found /\ br'.coLen = 2 * job.reserve
      /\ (br.coOff > 0 => br'.coLen = br.coLen)
  <2>1. br' = [found |-> FALSE, brOff |-> 0, brLen |-> 0, coOff |-> 0, coLen |-> 2 * job.reserve]
    BY <1>1 DEF NoRange
  <2>2. br.coOff = 0  BY <1>5 DEF NoRange
  <2>3. 2 * job.reserve \in Nat  BY <1>3, JobFacts
  <2> QED BY <2>1, <2>2, <2>3 DEF RangeType
<1>9. buf' \in Seq(ByteType) /\ Kept /\ job'.orig <= Len(buf') /\ ContentsPlace' /\ Tags'
  BY <1>1, <1>2, <1>6, <1>7, <1>8, Grow
<1>10. Layout'  BY <1>8, <1>9 DEF Layout, RangePlace, Apart
<1>11. Bounded' /\ entries' \in Seq(Nat \X Nat)  BY <1>1, <1>2, <1>3, <1>4, BoundedStep
<1>12. TypeOK'  BY <1>1, <1>2, <1>3, <1>8, <1>9, <1>11, JobFacts DEF TypeOK
<1>13. Order'
  <2>1. KeyLeft("Contents")' /\ KeyLeft("ByteRange")' /\ Once("Contents")' /\ Once("ByteRange")'
    BY <1>1, <1>3, JobFacts DEF KeyLeft, Once
  <2> QED BY <1>1, <1>8, <2>1 DEF Order
<1>14. Pending'  BY <1>1, <1>2, <1>8 DEF Pending
<1>15. SignedBytesUnchanged'  BY <1>1 DEF SignedBytesUnchanged
<1> QED BY <1>9, <1>10, <1>11, <1>12, <1>13, <1>14, <1>15 DEF IInv

\* The ByteRange placeholder comes to lie after the original, apart from
\* /Contents if that was written before it.
LEMMA WriteByteRangeKeyOK == IInv /\ WriteByteRangeKey => IInv' /\ Kept
<1> SUFFICES ASSUME IInv, WriteByteRangeKey PROVE IInv' /\ Kept
  OBVIOUS
<1>1. /\ pc = "dict" /\ keys # <<>> /\ Head(keys) = "ByteRange" /\ pc' = pc
      /\ job' = job /\ todo' = todo /\ hashed' = hashed /\ keys' = Tail(keys)
      /\ br' = [br EXCEPT !.brOff = Len(buf) + 1, !.brLen = PlaceholderLength]
      /\ entries' = entries
      /\ buf' = Append(buf, Byte("key")) \o Bytes("zero", PlaceholderLength)
  BY DEF WriteByteRangeKey
<1>2. TypeOK /\ Layout /\ Order /\ Pending /\ Bounded  BY DEF IInv
<1>3. buf \in Seq(ByteType) /\ Len(buf) \in Nat /\ job \in Jobs /\ br \in RangeType
  BY <1>2 DEF TypeOK
<1>4. PlaceholderLength \in Nat \ {0}  BY WriterAssumption DEF PlaceholderLength
<1>5. PICK s \in Seq(ByteType) : Plain(s) /\ buf' = buf \o s /\ Len(s) = PlaceholderLength + 1
  <2> DEFINE t == Bytes("zero", PlaceholderLength)
  <2>1. t \in Seq(ByteType) /\ Plain(t) /\ Len(t) = PlaceholderLength
    BY <1>4, TagFacts, PlainBytes, BytesSeq
  <2>2. Byte("key") \in ByteType /\ Byte("key")[1] \notin SigTags
    BY TagFacts DEF Byte, SigTags
  <2> HIDE DEF t
  <2>3. \E s \in Seq(ByteType) :
          Plain(s) /\ Append(buf, Byte("key")) \o t = buf \o s /\ Len(s) = Len(t) + 1
    BY <1>3, <2>1, <2>2, ObjectBytes
  <2> QED BY <1>1, <2>1, <2>3 DEF t
<1>6. /\ br' \in RangeType /\ br'.coOff = br.coOff /\ br'.coLen = br.coLen
      /\ br'.found = br.found /\ br'.brOff = Len(buf) + 1 /\ br'.brLen = PlaceholderLength
  <2>1. br = [found |-> br.found, brOff |-> br.brOff, brLen |-> br.brLen,
              coOff |-> br.coOff, coLen |-> br.coLen]
    BY <1>3 DEF RangeType
  <2>2. br' = [found |-> br.found, brOff |-> Len(buf) + 1, brLen |-> PlaceholderLength,
               coOff |-> br.coOff, coLen |-> br.coLen]
    BY <1>1, <2>1
  <2> QED BY <1>3, <1>4, <2>2 DEF RangeType
<1>7. buf' \in Seq(ByteType) /\ Len(buf') = Len(buf) + Len(s)
      /\ Kept /\ job'.orig <= Len(buf') /\ ContentsPlace' /\ Tags'
  BY <1>1, <1>2, <1>5, <1>6, Grow
<1>8. Layout'
  <2>1. job.orig \in Nat /\ job.orig <= Len(buf)  BY <1>2, <1>3, JobFacts DEF Layout
  <2>2. RangePlace'  BY <1>1, <1>3, <1>4, <1>5, <1>6, <1>7, <2>1 DEF RangePlace
  <2>3. Apart'
    BY <1>2, <1>3, <1>4, <1>6 DEF Apart, Layout, ContentsPlace, RangeType
  <2> QED BY <1>7, <2>2, <2>3 DEF Layout
<1>9. TypeOK'
  <2>1. keys' \in Seq({"ByteRange", "Contents", "Other"})  BY <1>1, <1>2, TailFacts DEF TypeOK
  <2> QED BY <1>1, <1>2, <1>6, <1>7, <2>1 DEF TypeOK
<1>10. Order'
  <2>1. Once("Contents")' /\ Once("ByteRange")' /\ ~KeyLeft("ByteRange")'
        /\ (KeyLeft("Contents")' <=> KeyLeft("Contents"))
    BY <1>1, <1>2, KeysTail DEF Order
  <2> QED BY <1>1, <1>2, <1>4, <1>6, <2>1 DEF Order
<1>11. Pending' /\ Bounded' /\ SignedBytesUnchanged'
  BY <1>1, <1>2, <1>6 DEF Pending, Bounded, SignedBytesUnchanged
<1> QED BY <1>7, <1>8, <1>9, <1>10, <1>11 DEF IInv

\* The /Contents entry: a key, then nothing but bytes of the string.
LEMMA ContentsEntrySeq ==
  ASSUME NEW n \in Nat
  PROVE  /\ ContentsEntry(n) \in Seq(ByteType) /\ Len(ContentsEntry(n)) = n + 3
         /\ ContentsEntry(n)[1][1] = "key"
         /\ \A i \in 2 .. n + 3 : ContentsEntry(n)[i][1] \in SigTags
<1> DEFINE a == <<Byte("key"), Byte("<")>>
           h == Bytes("hex", n)
           c == <<Byte(">")>>
<1>1. /\ a \in Seq(ByteType) /\ Len(a) = 2 /\ a[1][1] = "key" /\ a[2][1] \in SigTags
      /\ c \in Seq(ByteType) /\ Len(c) = 1 /\ c[1][1] \in SigTags
  BY TagFacts DEF Byte, SigTags
<1>2. h \in Seq(ByteType) /\ Len(h) = n /\ \A i \in 1 .. n : h[i][1] \in SigTags
  <2>1. "hex" \in Tag /\ "hex" \in SigTags  BY DEF Tag, SigTags
  <2> QED BY <2>1, BytesSeq
<1>3. ContentsEntry(n) = a \o (h \o c)  BY DEF ContentsEntry
<1> HIDE DEF a, h, c
<1>4. /\ h \o c \in Seq(ByteType) /\ Len(h \o c) = n + 1
      /\ \A i \in 1 .. n + 1 : (h \o c)[i] = IF i <= n THEN h[i] ELSE c[i - n]
  <2>1. /\ h \o c \in Seq(ByteType) /\ Len(h \o c) = Len(h) + Len(c)
        /\ \A i \in 1 .. Len(h) + Len(c) :
             (h \o c)[i] = IF i <= Len(h) THEN h[i] ELSE c[i - Len(h)]
    BY <1>1, <1>2, ConcatProperties
  <2> QED BY <1>1, <1>2, <2>1
<1>5. \A i \in 1 .. n + 1 : (h \o c)[i][1] \in SigTags
  <2> SUFFICES ASSUME NEW i \in 1 .. n + 1 PROVE (h \o c)[i][1] \in SigTags
    OBVIOUS
  <2>1. CASE i <= n
    <3>1. i \in 1 .. n /\ (h \o c)[i] = h[i]  BY <1>4, <2>1
    <3> QED BY <1>2, <3>1
  <2>2. CASE i = n + 1
    <3>1. (h \o c)[i] = c[1]  BY <1>4, <2>2
    <3> QED BY <1>1, <3>1
  <2>3. i <= n \/ i = n + 1  OBVIOUS
  <2> QED BY <2>1, <2>2, <2>3
<1> DEFINE t == h \o c
<1>6. t \in Seq(ByteType) /\ Len(t) = n + 1 /\ \A i \in 1 .. n + 1 : t[i][1] \in SigTags
  BY <1>4, <1>5
<1> HIDE DEF t
<1>7. /\ a \o t \in Seq(ByteType) /\ Len(a \o t) = n + 3
      /\ \A i \in 1 .. n + 3 : (a \o t)[i] = IF i <= 2 THEN a[i] ELSE t[i - 2]
  <2>1. /\ a \o t \in Seq(ByteType) /\ Len(a \o t) = Len(a) + Len(t)
        /\ \A i \in 1 .. Len(a) + Len(t) :
             (a \o t)[i] = IF i <= Len(a) THEN a[i] ELSE t[i - Len(a)]
    BY <1>1, <1>6, ConcatProperties
  <2>2. Len(a) + Len(t) = n + 3  BY <1>1, <1>6
  <2> QED BY <1>1, <2>1, <2>2
<1>8. \A i \in 2 .. n + 3 : (a \o t)[i][1] \in SigTags
  <2> SUFFICES ASSUME NEW i \in 2 .. n + 3 PROVE (a \o t)[i][1] \in SigTags
    OBVIOUS
  <2>1. CASE i = 2
    <3>1. (a \o t)[i] = a[2]  BY <1>7, <2>1
    <3> QED BY <1>1, <3>1
  <2>2. CASE i # 2
    <3>1. (a \o t)[i] = t[i - 2] /\ i - 2 \in 1 .. n + 1  BY <1>7, <2>2
    <3> QED BY <1>6, <3>1
  <2> QED BY <2>1, <2>2
<1>9. (a \o t)[1] = a[1]  BY <1>7
<1> QED BY <1>1, <1>3, <1>7, <1>8, <1>9 DEF t

\* The /Contents string comes to lie after the original, apart from the
\* placeholder if that was written before it.
LEMMA WriteContentsKeyOK == IInv /\ WriteContentsKey => IInv' /\ Kept
<1> SUFFICES ASSUME IInv, WriteContentsKey PROVE IInv' /\ Kept
  OBVIOUS
<1> DEFINE n == 2 * job.reserve
           s == ContentsEntry(n)
<1>1. /\ pc = "dict" /\ keys # <<>> /\ Head(keys) = "Contents" /\ pc' = pc
      /\ job' = job /\ todo' = todo /\ hashed' = hashed /\ keys' = Tail(keys)
      /\ br' = [br EXCEPT !.coOff = Len(buf) + 2]
      /\ entries' = entries /\ buf' = buf \o s
  BY DEF WriteContentsKey
<1>2. TypeOK /\ Layout /\ Order /\ Pending /\ Bounded  BY DEF IInv
<1>3. buf \in Seq(ByteType) /\ Len(buf) \in Nat /\ job \in Jobs /\ br \in RangeType
  BY <1>2 DEF TypeOK
<1>4. n \in Nat /\ job.orig \in Nat /\ job.orig <= Len(buf)  BY <1>2, <1>3, JobFacts DEF Layout
<1>5. /\ s \in Seq(ByteType) /\ Len(s) = n + 3 /\ s[1][1] = "key"
      /\ \A i \in 2 .. n + 3 : s[i][1] \in SigTags
  BY <1>4, ContentsEntrySeq
<1>6. /\ br' \in RangeType /\ br'.coOff = Len(buf) + 2 /\ br'.coLen = n
      /\ br'.found = br.found /\ br'.brOff = br.brOff /\ br'.brLen = br.brLen
  <2>1. br = [found |-> br.found, brOff |-> br.brOff, brLen |-> br.brLen,
              coOff |-> br.coOff, coLen |-> br.coLen]
    BY <1>3 DEF RangeType
  <2>2. br' = [found |-> br.found, brOff |-> br.brOff, brLen |-> br.brLen,
               coOff |-> Len(buf) + 2, coLen |-> br.coLen]
    BY <1>1, <2>1
  <2>3. br.coLen = n  BY <1>1, <1>2 DEF Order
  <2> QED BY <1>3, <2>2, <2>3 DEF RangeType
<1>7. KeyLeft("Contents") /\ br.coOff = 0
  <2>1. KeyLeft("Contents")
    <3>1. keys \in Seq({"ByteRange", "Contents", "Other"})  BY <1>2 DEF TypeOK
    <3>2. 1 \in DOMAIN keys /\ keys[1] = "Contents"  BY <1>1, <3>1, TailFacts
    <3> QED BY <3>2 DEF KeyLeft
  <2> QED BY <1>1, <1>2, <2>1 DEF Order
<1> HIDE DEF n, s
<1>8. /\ buf' \in Seq(ByteType) /\ Len(buf') = Len(buf) + n + 3
      /\ \A i \in 1 .. Len(buf) + n + 3 :
           buf'[i] = IF i <= Len(buf) THEN buf[i] ELSE s[i - Len(buf)]
  <2>1. /\ buf \o s \in Seq(ByteType) /\ Len(buf \o s) = Len(buf) + Len(s)
        /\ \A i \in 1 .. Len(buf) + Len(s) :
             (buf \o s)[i] = IF i <= Len(buf) THEN buf[i] ELSE s[i - Len(buf)]
    BY <1>3, <1>5, ConcatProperties
  <2>2. Len(buf) + Len(s) = Len(buf) + n + 3  BY <1>3, <1>4, <1>5
  <2> DEFINE u == buf \o s
  <2>3. buf' = u  BY <1>1
  <2> HIDE DEF u
  <2> QED BY <2>1, <2>2, <2>3 DEF u
<1>9. Layout'
  <2>1. ContentsPlace'  BY <1>1, <1>3, <1>4, <1>6, <1>8 DEF ContentsPlace, n
  <2>2. RangePlace' /\ Apart'
    <3>1. RangePlace /\ br.brOff \in Nat /\ br.brLen \in Nat  BY <1>2, <1>3 DEF Layout, RangeType
    <3>2. br'.brOff = br.brOff /\ br'.brLen = br.brLen  BY <1>3, <1>6 DEF RangeType
    <3>3. RangePlace'  BY <1>1, <1>3, <1>4, <1>8, <3>1, <3>2 DEF RangePlace
    <3>4. br.brLen > 0 => br.brOff + br.brLen < br'.coOff  BY <1>3, <1>6, <3>1 DEF RangePlace
    <3> QED BY <3>2, <3>3, <3>4 DEF Apart
  <2>3. Tags'
    <3> SUFFICES ASSUME NEW i \in 1 .. Len(buf) + n + 3
                 PROVE  buf'[i][1] \in SigTags <=> InContents(i)'
      BY <1>8 DEF Tags
    <3>1. InContents(i)' <=> i >= Len(buf) + 2
      BY <1>3, <1>4, <1>6 DEF InContents
    <3>2. CASE i <= Len(buf)
      <4>1. buf'[i] = buf[i] /\ i \in 1 .. Len(buf)  BY <1>3, <1>8, <3>2
      <4>2. ~InContents(i)  BY <1>7 DEF InContents
      <4> QED BY <1>2, <1>3, <3>1, <3>2, <4>1, <4>2 DEF Layout, Tags
    <3>3. CASE i = Len(buf) + 1
      <4>1. buf'[i] = s[1]  BY <1>3, <1>4, <1>8, <3>3
      <4> QED BY <1>3, <1>5, <3>1, <3>3, <4>1 DEF SigTags
    <3>4. CASE i >= Len(buf) + 2
      <4>1. buf'[i] = s[i - Len(buf)] /\ i - Len(buf) \in 2 .. n + 3  BY <1>3, <1>4, <1>8, <3>4
      <4> QED BY <1>5, <3>1, <3>4, <4>1
    <3> QED BY <1>3, <3>2, <3>3, <3>4
  <2>4. job'.orig <= Len(buf')  BY <1>1, <1>3, <1>4, <1>8
  <2> QED BY <2>1, <2>2, <2>3, <2>4 DEF Layout
<1>10. Kept  BY <1>3, <1>4, <1>8 DEF Kept
<1>13. TypeOK'
  <2>1. keys' \in Seq({"ByteRange", "Contents", "Other"})  BY <1>1, <1>2, TailFacts DEF TypeOK
  <2> QED BY <1>1, <1>2, <1>6, <1>8, <2>1 DEF TypeOK
<1>11. Order'
  <2>1. Once("Contents")' /\ Once("ByteRange")' /\ ~KeyLeft("Contents")'
        /\ (KeyLeft("ByteRange")' <=> KeyLeft("ByteRange"))
    BY <1>1, <1>2, KeysTail DEF Order
  <2> QED BY <1>1, <1>2, <1>3, <1>6, <2>1 DEF Order, n
<1>12. Pending' /\ Bounded' /\ SignedBytesUnchanged'
  BY <1>1, <1>2, <1>6 DEF Pending, Bounded, SignedBytesUnchanged
<1> QED BY <1>9, <1>10, <1>11, <1>12, <1>13 DEF IInv

\* Other keys change neither place.
LEMMA WriteOtherKeyOK == IInv /\ WriteOtherKey => IInv' /\ Kept
<1> SUFFICES ASSUME IInv, WriteOtherKey PROVE IInv' /\ Kept
  OBVIOUS
<1> DEFINE s == <<Byte("key"), Byte("body")>>
<1>1. /\ pc = "dict" /\ keys # <<>> /\ Head(keys) = "Other" /\ pc' = pc
      /\ job' = job /\ todo' = todo /\ hashed' = hashed /\ keys' = Tail(keys)
      /\ br' = br /\ entries' = entries /\ buf' = buf \o s
  BY DEF WriteOtherKey
<1>2. TypeOK /\ Layout /\ Order /\ Pending /\ Bounded  BY DEF IInv
<1>3. s \in Seq(ByteType) /\ Plain(s)  BY TagFacts DEF Byte, Plain, SigTags
<1> HIDE DEF s
<1>4. Layout' /\ Kept /\ buf' \in Seq(ByteType)  BY <1>1, <1>2, <1>3, GrowLayout
<1>5. TypeOK'
  <2>1. keys' \in Seq({"ByteRange", "Contents", "Other"})  BY <1>1, <1>2, TailFacts DEF TypeOK
  <2> QED BY <1>1, <1>2, <1>4, <2>1 DEF TypeOK
<1>6. Order'
  <2>1. Once("Contents")' /\ Once("ByteRange")'
        /\ (KeyLeft("Contents")' <=> KeyLeft("Contents"))
        /\ (KeyLeft("ByteRange")' <=> KeyLeft("ByteRange"))
    BY <1>1, <1>2, KeysTail DEF Order
  <2> QED BY <1>1, <1>2, <2>1 DEF Order
<1>7. Pending' /\ Bounded' /\ SignedBytesUnchanged'
  BY <1>1, <1>2 DEF Pending, Bounded, SignedBytesUnchanged
<1> QED BY <1>4, <1>5, <1>6, <1>7 DEF IInv

\* When the dictionary is closed both placeholders have been written.
LEMMA CloseSigDictOK == IInv /\ CloseSigDict => IInv' /\ Kept
<1> SUFFICES ASSUME IInv, CloseSigDict PROVE IInv' /\ Kept
  OBVIOUS
<1>1. /\ pc = "dict" /\ keys = <<>> /\ pc' = "objects" /\ keys' = keys
      /\ job' = job /\ todo' = Tail(todo) /\ hashed' = hashed
      /\ br' = [br EXCEPT !.found = TRUE] /\ entries' = entries
      /\ buf' = Append(buf, Byte("body"))
  BY DEF CloseSigDict
<1>2. TypeOK /\ Layout /\ Order /\ Pending /\ Bounded  BY DEF IInv
<1>3. buf \in Seq(ByteType) /\ br \in RangeType  BY <1>2 DEF TypeOK
<1>4. /\ br' \in RangeType /\ br'.found /\ br'.brOff = br.brOff /\ br'.brLen = br.brLen
      /\ br'.coOff = br.coOff /\ br'.coLen = br.coLen
  BY <1>1, <1>3 DEF RangeType
<1>5. br.coOff > 0 /\ br.brLen > 0
  <2>1. ~KeyLeft("Contents") /\ ~KeyLeft("ByteRange")  BY <1>1 DEF KeyLeft
  <2> QED BY <1>1, <1>2, <1>3, <2>1 DEF Order, RangeType
<1>6. Byte("body") \in ByteType /\ Plain(<<Byte("body")>>)  BY TagFacts, PlainByte DEF Byte
<1>7. buf' = buf \o <<Byte("body")>> /\ <<Byte("body")>> \in Seq(ByteType)
  BY <1>1, <1>3, <1>6, AppendOneByte
<1>8. /\ buf' \in Seq(ByteType) /\ Kept /\ job'.orig <= Len(buf') /\ ContentsPlace' /\ Tags'
      /\ Len(buf') = Len(buf) + 1 /\ Len(buf) \in Nat
  <2> DEFINE s == <<Byte("body")>>
  <2>1. Len(s) = 1 /\ Len(buf) \in Nat  BY <1>3
  <2>2. s \in Seq(ByteType) /\ Plain(s) /\ buf' = buf \o s  BY <1>6, <1>7
  <2> HIDE DEF s
  <2> QED BY <1>1, <1>2, <1>4, <2>1, <2>2, Grow
<1>9. Layout'
  BY <1>1, <1>2, <1>3, <1>4, <1>8 DEF Layout, RangePlace, Apart, RangeType
<1>10. todo # <<>> /\ Head(todo).id = job.sig  BY <1>1, <1>2 DEF Order
<1>11. TypeOK'  BY <1>1, <1>2, <1>4, <1>8, <1>10, HeadFacts DEF TypeOK
<1>12. Order'  BY <1>1, <1>4, <1>5 DEF Order
<1>13. Pending'  BY <1>1, <1>2, <1>10, HeadFacts DEF Pending
<1>14. Bounded' /\ SignedBytesUnchanged'
  BY <1>1, <1>2 DEF Bounded, SignedBytesUnchanged
<1> QED BY <1>8, <1>9, <1>11, <1>12, <1>13, <1>14 DEF IInv

\* The writer goes on only with a signature dictionary.
LEMMA FinishObjectsOK == IInv /\ FinishObjects => IInv' /\ Kept
<1> SUFFICES ASSUME IInv, FinishObjects PROVE IInv' /\ Kept
  OBVIOUS
<1>1. /\ pc = "objects" /\ pc' = IF br.found THEN "xref" ELSE "error"
      /\ job' = job /\ todo' = todo /\ hashed' = hashed /\ keys' = keys
      /\ br' = br /\ entries' = entries /\ buf' = buf
  BY DEF FinishObjects
<1>2. TypeOK /\ Layout /\ Order /\ Pending /\ Bounded  BY DEF IInv
<1>3. Layout'
  BY <1>1, <1>2 DEF Layout, ContentsPlace, RangePlace, Apart, Tags, InContents
<1>4. TypeOK'  BY <1>1, <1>2 DEF TypeOK
<1>5. Order'  BY <1>1, <1>2 DEF Order
<1>6. Pending' /\ Bounded' /\ SignedBytesUnchanged'
  BY <1>1, <1>2 DEF Pending, Bounded, SignedBytesUnchanged
<1>7. Kept  BY <1>1 DEF Kept
<1> QED BY <1>3, <1>4, <1>5, <1>6, <1>7 DEF IInv

\* A cross-reference section holds no byte of a /Contents.
LEMMA SectionBytesSeq ==
  ASSUME NEW n \in Nat
  PROVE  SectionBytes(n) \in Seq(ByteType) /\ Plain(SectionBytes(n))
<1>1. Bytes("xref", n) \in Seq(ByteType) /\ Plain(Bytes("xref", n))
  BY TagFacts, PlainBytes
<1>2. <<Byte("eof")>> \in Seq(ByteType) /\ Plain(<<Byte("eof")>>)
  BY TagFacts, PlainByte DEF Byte
<1> QED BY <1>1, <1>2, PlainConcat DEF SectionBytes

\* The steps that append the cross-reference section, whatever they append.
LEMMA AppendSectionOK ==
  ASSUME IInv, pc = "xref", pc' = "backpatch",
         job' = job, todo' = todo, hashed' = hashed, keys' = keys,
         br' = br, entries' = entries,
         NEW s \in Seq(ByteType), Plain(s), buf' = buf \o s
  PROVE  IInv' /\ Kept
<1>1. TypeOK /\ Layout /\ Order /\ Pending /\ Bounded  BY DEF IInv
<1>2. Layout' /\ Kept /\ buf' \in Seq(ByteType)  BY <1>1, GrowLayout
<1>3. TypeOK'  BY <1>1, <1>2 DEF TypeOK
<1>4. Order'  BY <1>1 DEF Order
<1>5. Pending' /\ Bounded' /\ SignedBytesUnchanged'
  BY <1>1 DEF Pending, Bounded, SignedBytesUnchanged
<1> QED BY <1>2, <1>3, <1>4, <1>5 DEF IInv

\* The table keeps the invariant.
LEMMA WriteXrefTableOK == IInv /\ WriteXrefTable => IInv' /\ Kept
<1> SUFFICES ASSUME IInv, WriteXrefTable PROVE IInv' /\ Kept
  OBVIOUS
<1> DEFINE s == SectionBytes(Len(entries) + 1)
<1>1. /\ pc = "xref" /\ pc' = "backpatch"
      /\ job' = job /\ todo' = todo /\ hashed' = hashed /\ keys' = keys
      /\ br' = br /\ entries' = entries /\ buf' = buf \o s
  BY DEF WriteXrefTable
<1>2. Len(entries) + 1 \in Nat  BY DEF IInv, TypeOK
<1>3. s \in Seq(ByteType) /\ Plain(s)  BY <1>2, SectionBytesSeq
<1> HIDE DEF s
<1> QED BY <1>1, <1>3, AppendSectionOK

\* The stream keeps the invariant.
LEMMA WriteXrefStreamOK == IInv /\ WriteXrefStream => IInv' /\ Kept
<1> SUFFICES ASSUME IInv, WriteXrefStream PROVE IInv' /\ Kept
  OBVIOUS
<1> DEFINE num == StreamNumber(entries, job.prevSize)
           x == <<"obj", num>>
           t == SectionBytes(Len(entries) + 2)
<1>1. /\ pc = "xref" /\ pc' = "backpatch"
      /\ job' = job /\ todo' = todo /\ hashed' = hashed /\ keys' = keys
      /\ br' = br /\ entries' = entries /\ buf' = Append(buf, x) \o t
  BY DEF WriteXrefStream
<1>2. entries \in Seq(Nat \X Nat) /\ buf \in Seq(ByteType) /\ job \in Jobs /\ Bounded
  BY DEF IInv, TypeOK
<1>3. Len(entries) + 2 \in Nat  BY <1>2
<1>4. t \in Seq(ByteType) /\ Plain(t)  BY <1>3, SectionBytesSeq
<1>5. num \in Nat
  <2>1. MaxNumber(entries) \in Nat
    <3>1. PICK b \in Nat : \A i \in DOMAIN entries : entries[i][1] <= b  BY <1>2 DEF Bounded
    <3> QED BY <1>2, <3>1, MaxNumberNat
  <2>2. job.prevSize \in Nat  BY <1>2, JobFacts
  <2> QED BY <2>1, <2>2 DEF StreamNumber
<1> HIDE DEF num
<1>6. x \in ByteType /\ x[1] \notin SigTags  BY <1>5, TagFacts DEF SigTags
<1> HIDE DEF x, t
<1>7. \E s \in Seq(ByteType) : Plain(s) /\ buf' = buf \o s
  BY <1>1, <1>2, <1>4, <1>6, ObjectBytes
<1> QED BY <1>1, <1>7, AppendSectionOK

\* What overwriting a stretch of the buffer leaves alone.
LEMMA OverwriteLayout ==
  ASSUME TypeOK, Layout, NEW off \in Nat, NEW n \in Int, NEW tag \in Tag,
         buf' = Overwrite(buf, off, tag, n), job' = job, br' = br,
         tag \in SigTags => \A i \in 1 .. Len(buf) :
                              (off < i /\ i <= off + n) => InContents(i),
         tag \notin SigTags => \A i \in 1 .. Len(buf) :
                              (off < i /\ i <= off + n) => ~InContents(i)
  PROVE  Layout' /\ (off >= job.orig => Kept) /\ buf' \in Seq(ByteType)
<1>1. buf \in Seq(ByteType) /\ Len(buf) \in Nat /\ job.orig \in Nat /\ job.orig <= Len(buf)
  BY JobFacts DEF TypeOK, Layout
<1>2. /\ buf' \in Seq(ByteType) /\ Len(buf') = Len(buf)
      /\ \A i \in 1 .. Len(buf) : buf'[i] = IF off < i /\ i <= off + n THEN <<tag, 0>> ELSE buf[i]
  <2>1. off \in Int  OBVIOUS
  <2>2. /\ Overwrite(buf, off, tag, n) \in Seq(ByteType)
        /\ Len(Overwrite(buf, off, tag, n)) = Len(buf)
        /\ \A i \in 1 .. Len(buf) : Overwrite(buf, off, tag, n)[i] =
               IF off < i /\ i <= off + n THEN <<tag, 0>> ELSE buf[i]
    BY <1>1, <2>1, OverwriteSeq
  <2> QED BY <2>2
<1>3. Tags'
  <2> SUFFICES ASSUME NEW i \in 1 .. Len(buf) PROVE buf'[i][1] \in SigTags <=> InContents(i)
    BY <1>2 DEF Tags, InContents
  <2>1. CASE off < i /\ i <= off + n
    <3>1. buf'[i][1] = tag  BY <1>2, <2>1
    <3> QED BY <2>1, <3>1
  <2>2. CASE ~(off < i /\ i <= off + n)  BY <1>2, <2>2 DEF Layout, Tags
  <2> QED BY <2>1, <2>2
<1>4. off >= job.orig => Kept  BY <1>1, <1>2 DEF Kept
<1> QED BY <1>2, <1>3, <1>4 DEF Layout, ContentsPlace, RangePlace, Apart

\* The backpatch touches no byte of /Contents and none of the original.
LEMMA BackpatchOK == IInv /\ Backpatch => IInv' /\ Kept
<1> SUFFICES ASSUME IInv, Backpatch PROVE IInv' /\ Kept
  OBVIOUS
<1>1. /\ pc = "backpatch" /\ pc' \in {"error", "written"}
      /\ job' = job /\ todo' = todo /\ hashed' = hashed /\ keys' = keys
      /\ br' = br /\ entries' = entries
      /\ buf' = buf \/ buf' = Overwrite(buf, br.brOff, "range", br.brLen)
  BY DEF Backpatch
<1>2. TypeOK /\ Layout /\ Order /\ Pending /\ Bounded  BY DEF IInv
<1>3. br \in RangeType /\ br.coOff > 0 /\ br.brLen > 0  BY <1>1, <1>2 DEF TypeOK, Order
<1>4. Layout' /\ Kept /\ buf' \in Seq(ByteType)
  <2>1. CASE buf' = buf
    BY <1>1, <1>2, <2>1 DEF TypeOK, Layout, ContentsPlace, RangePlace, Apart, Tags, InContents, Kept
  <2>2. CASE buf' = Overwrite(buf, br.brOff, "range", br.brLen)
    <3>1. \A i \in 1 .. Len(buf) :
            (br.brOff < i /\ i <= br.brOff + br.brLen) => ~InContents(i)
      BY <1>2, <1>3 DEF Layout, Apart, InContents, RangeType
    <3>2. "range" \in Tag /\ "range" \notin SigTags  BY DEF Tag, SigTags
    <3>3. br.brOff \in Nat /\ br.brLen \in Int /\ br.brOff >= job.orig
      BY <1>2, <1>3 DEF RangeType, Layout, RangePlace
    <3> QED BY <1>1, <1>2, <2>2, <3>1, <3>2, <3>3, OverwriteLayout
  <2> QED BY <1>1, <2>1, <2>2
<1>5. TypeOK'  BY <1>1, <1>2, <1>4 DEF TypeOK
<1>6. Order'  BY <1>1, <1>2 DEF Order
<1>7. Pending' /\ Bounded' /\ SignedBytesUnchanged'
  BY <1>1, <1>2 DEF Pending, Bounded, SignedBytesUnchanged
<1> QED BY <1>4, <1>5, <1>6, <1>7 DEF IInv

\* The digest is taken over what the ByteRange selects.
LEMMA HashOK == IInv /\ Hash => IInv' /\ Kept
<1> SUFFICES ASSUME IInv, Hash PROVE IInv' /\ Kept
  OBVIOUS
<1>1. /\ pc = "written" /\ pc' = "hashed"
      /\ job' = job /\ todo' = todo /\ keys' = keys
      /\ br' = br /\ entries' = entries /\ buf' = buf
      /\ hashed' = [i \in Covered(Compute(br, Len(buf))) |-> buf[i]]
  BY DEF Hash
<1>2. TypeOK /\ Layout /\ Order /\ Pending /\ Bounded  BY DEF IInv
<1>3. Layout' /\ TypeOK'
  BY <1>1, <1>2 DEF TypeOK, Layout, ContentsPlace, RangePlace, Apart, Tags, InContents
<1>4. Order' /\ Pending' /\ Bounded'  BY <1>1, <1>2 DEF Order, Pending, Bounded
<1>5. SignedBytesUnchanged'  BY <1>1 DEF SignedBytesUnchanged
<1>6. Kept  BY <1>1 DEF Kept
<1> QED BY <1>3, <1>4, <1>5, <1>6 DEF IInv

\* The positions a finished ByteRange selects are those outside /Contents.
LEMMA CoveredPositions ==
  ASSUME IInv, br.found
  PROVE  \A i : i \in Covered(Compute(br, Len(buf))) <=> i \in 1 .. Len(buf) /\ ~InContents(i)
<1>1. br \in RangeType /\ Len(buf) \in Nat  BY DEF IInv, TypeOK
<1>2. /\ br.coOff > 0 /\ br.coOff + br.coLen + 1 <= Len(buf) /\ br.coOff \in Nat /\ br.coLen \in Nat
  BY <1>1 DEF IInv, Order, Layout, ContentsPlace, RangeType
<1>3. Covered(Compute(br, Len(buf))) =
        (1 .. br.coOff - 1) \cup (br.coOff + br.coLen + 2 .. Len(buf))
  BY <1>1, <1>2 DEF Covered, Compute
<1> QED BY <1>1, <1>2, <1>3 DEF InContents

\* A signature that fits stays inside /Contents.
LEMMA InjectOK == ASSUME NEW n \in CmsLengths PROVE IInv /\ Inject(n) => IInv' /\ Kept
<1> SUFFICES ASSUME IInv, Inject(n) PROVE IInv' /\ Kept
  OBVIOUS
<1> DEFINE mid == Overwrite(buf, br.coOff, "cms", 2 * n)
<1>1. /\ pc = "hashed" /\ job' = job /\ todo' = todo /\ hashed' = hashed /\ keys' = keys
      /\ br' = br /\ entries' = entries
      /\ \/ pc' = "error" /\ buf' = buf
         \/ /\ ~(n > job.reserve) /\ pc' = "done"
            /\ buf' = Overwrite(mid, br.coOff + 2 * n, "pad", br.coLen - 2 * n)
  BY DEF Inject
<1>2. TypeOK /\ Layout /\ Order /\ Pending /\ Bounded /\ SignedBytesUnchanged  BY DEF IInv
<1>3. /\ br \in RangeType /\ br.coOff > 0 /\ br.coOff \in Nat /\ br.coLen = 2 * job.reserve
      /\ br.found /\ br.coOff + br.coLen + 1 <= Len(buf)
  BY <1>1, <1>2 DEF TypeOK, Order, Layout, ContentsPlace, RangeType
<1>4. n \in Nat /\ job.reserve \in Nat /\ buf \in Seq(ByteType) /\ Len(buf) \in Nat
  BY <1>2, WriterAssumption, JobFacts DEF TypeOK
<1>5. CASE pc' = "error" /\ buf' = buf
  <2>1. Layout' /\ TypeOK'
    BY <1>1, <1>2, <1>5 DEF TypeOK, Layout, ContentsPlace, RangePlace, Apart, Tags, InContents
  <2>2. Order' /\ Pending' /\ Bounded' /\ SignedBytesUnchanged'
    BY <1>1, <1>2, <1>5 DEF Order, Pending, Bounded, SignedBytesUnchanged
  <2>3. Kept  BY <1>5 DEF Kept
  <2> QED BY <2>1, <2>2, <2>3 DEF IInv
<1>6. CASE /\ ~(n > job.reserve) /\ pc' = "done"
           /\ buf' = Overwrite(mid, br.coOff + 2 * n, "pad", br.coLen - 2 * n)
  <2>1. "cms" \in Tag /\ "cms" \in SigTags /\ "pad" \in Tag /\ "pad" \in SigTags
    BY DEF Tag, SigTags
  <2>2. /\ mid \in Seq(ByteType) /\ Len(mid) = Len(buf)
        /\ \A i \in 1 .. Len(buf) :
             mid[i] = IF br.coOff < i /\ i <= br.coOff + 2 * n THEN <<"cms", 0>> ELSE buf[i]
    <3> DEFINE off == br.coOff
               m == 2 * n
    <3>1. off \in Int /\ m \in Int  BY <1>3, <1>4
    <3> HIDE DEF off, m
    <3>2. /\ Overwrite(buf, off, "cms", m) \in Seq(ByteType)
          /\ Len(Overwrite(buf, off, "cms", m)) = Len(buf)
          /\ \A i \in 1 .. Len(buf) : Overwrite(buf, off, "cms", m)[i] =
                 IF off < i /\ i <= off + m THEN <<"cms", 0>> ELSE buf[i]
      BY <1>4, <2>1, <3>1, OverwriteSeq
    <3> QED BY <3>2 DEF off, m
  <2> HIDE DEF mid
  <2>3. /\ buf' \in Seq(ByteType) /\ Len(buf') = Len(buf)
        /\ \A i \in 1 .. Len(buf) :
             buf'[i] = IF br.coOff + 2 * n < i /\ i <= br.coOff + 2 * n + (br.coLen - 2 * n)
                       THEN <<"pad", 0>> ELSE mid[i]
    <3> DEFINE off == br.coOff + 2 * n
               m == br.coLen - 2 * n
    <3>1. off \in Int /\ m \in Int  BY <1>3, <1>4
    <3> HIDE DEF off, m
    <3>2. /\ Overwrite(mid, off, "pad", m) \in Seq(ByteType)
          /\ Len(Overwrite(mid, off, "pad", m)) = Len(mid)
          /\ \A i \in 1 .. Len(mid) : Overwrite(mid, off, "pad", m)[i] =
                 IF off < i /\ i <= off + m THEN <<"pad", 0>> ELSE mid[i]
      BY <2>1, <2>2, <3>1, OverwriteSeq
    <3> QED BY <1>6, <2>2, <3>2 DEF off, m
  <2>4. \A i \in 1 .. Len(buf) :
          \/ buf'[i] = buf[i]
          \/ InContents(i) /\ buf'[i][1] \in SigTags
    <3> SUFFICES ASSUME NEW i \in 1 .. Len(buf)
                 PROVE  buf'[i] = buf[i] \/ (InContents(i) /\ buf'[i][1] \in SigTags)
      OBVIOUS
    <3>1. CASE br.coOff + 2 * n < i /\ i <= br.coOff + br.coLen
      <4>0. br.coOff + 2 * n + (br.coLen - 2 * n) = br.coOff + br.coLen  BY <1>3, <1>4
      <4>1. buf'[i] = <<"pad", 0>>  BY <2>3, <3>1, <4>0
      <4>2. InContents(i)  BY <1>3, <1>4, <3>1 DEF InContents
      <4> QED BY <2>1, <4>1, <4>2
    <3>2. CASE br.coOff < i /\ i <= br.coOff + 2 * n
      <4>0. ~(br.coOff + 2 * n < i)  BY <1>3, <1>4, <3>2
      <4>1. buf'[i] = <<"cms", 0>>  BY <2>2, <2>3, <3>2, <4>0
      <4>2. InContents(i)  BY <1>3, <1>4, <1>6, <3>2 DEF InContents
      <4> QED BY <2>1, <4>1, <4>2
    <3>3. CASE ~(br.coOff < i /\ i <= br.coOff + br.coLen)
      <4>0. /\ br.coOff + 2 * n + (br.coLen - 2 * n) = br.coOff + br.coLen
            /\ ~(br.coOff < i /\ i <= br.coOff + 2 * n)
            /\ ~(br.coOff + 2 * n < i /\ i <= br.coOff + br.coLen)
        BY <1>3, <1>4, <1>6, <3>3
      <4>1. buf'[i] = mid[i] /\ mid[i] = buf[i]  BY <2>2, <2>3, <4>0
      <4> QED BY <4>1
    <3> QED BY <1>3, <1>4, <3>1, <3>2, <3>3
  <2>5. \A i \in 1 .. Len(buf) : ~InContents(i) => buf'[i] = buf[i]  BY <2>4
  <2>6. Layout'
    <3>1. Tags'
      <4> SUFFICES ASSUME NEW i \in 1 .. Len(buf) PROVE buf'[i][1] \in SigTags <=> InContents(i)
        BY <1>1, <2>3 DEF Tags, InContents
      <4> QED BY <1>2, <2>4 DEF Layout, Tags
    <3> QED BY <1>1, <1>2, <2>3, <3>1 DEF Layout, ContentsPlace, RangePlace, Apart
  <2>7. TypeOK'  BY <1>1, <1>2, <1>6, <2>3 DEF TypeOK
  <2>8. Order' /\ Pending' /\ Bounded'  BY <1>1, <1>2, <1>6 DEF Order, Pending, Bounded
  <2>9. SignedBytesUnchanged'
    <3>1. hashed = [i \in Covered(Compute(br, Len(buf))) |-> buf[i]]
      BY <1>1, <1>2 DEF SignedBytesUnchanged
    <3>2. \A i \in Covered(Compute(br, Len(buf))) : buf'[i] = buf[i]
      BY <1>3, <2>5, CoveredPositions
    <3>3. hashed = [i \in Covered(Compute(br, Len(buf))) |-> buf'[i]]  BY <3>1, <3>2
    <3>4. hashed' = [i \in Covered(Compute(br', Len(buf'))) |-> buf'[i]]  BY <1>1, <2>3, <3>3
    <3> QED BY <3>4 DEF SignedBytesUnchanged
  <2>10. Kept
    <3>1. job.orig \in Nat /\ job.orig <= Len(buf) /\ br.coOff > job.orig
      BY <1>2, <1>3, JobFacts DEF TypeOK, Layout, ContentsPlace
    <3> QED BY <1>3, <1>4, <2>5, <3>1 DEF Kept, InContents
  <2> QED BY <2>6, <2>7, <2>8, <2>9, <2>10 DEF IInv
<1> QED BY <1>1, <1>5, <1>6

\* Every step keeps the invariant and the original bytes.
LEMMA StepOK == IInv /\ [Next]_vars => IInv' /\ Kept
<1> SUFFICES ASSUME IInv, [Next]_vars PROVE IInv' /\ Kept
  OBVIOUS
<1>1. CASE Start  BY <1>1, StartOK
<1>2. CASE WriteObject  BY <1>2, WriteObjectOK
<1>3. CASE OpenSigDict  BY <1>3, OpenSigDictOK
<1>4. CASE WriteByteRangeKey  BY <1>4, WriteByteRangeKeyOK
<1>5. CASE WriteContentsKey  BY <1>5, WriteContentsKeyOK
<1>6. CASE WriteOtherKey  BY <1>6, WriteOtherKeyOK
<1>7. CASE CloseSigDict  BY <1>7, CloseSigDictOK
<1>8. CASE FinishObjects  BY <1>8, FinishObjectsOK
<1>9. CASE WriteXrefTable  BY <1>9, WriteXrefTableOK
<1>10. CASE WriteXrefStream  BY <1>10, WriteXrefStreamOK
<1>11. CASE Backpatch  BY <1>11, BackpatchOK
<1>12. CASE Hash  BY <1>12, HashOK
<1>13. CASE \E n \in CmsLengths : Inject(n)  BY <1>13, InjectOK
<1>14. CASE UNCHANGED vars
  BY <1>14 DEF vars, IInv, TypeOK, Layout, ContentsPlace, RangePlace, Apart, Tags, InContents,
               Order, KeyLeft, Once, Pending, Bounded, SignedBytesUnchanged, Kept
<1> QED BY <1>1, <1>2, <1>3, <1>4, <1>5, <1>6, <1>7, <1>8, <1>9, <1>10, <1>11, <1>12, <1>13,
           <1>14 DEF Next

-----------------------------------------------------------------------------
\* The invariant holds in every behaviour of the writer.
THEOREM Invariance == Spec => []IInv
<1>1. Init => IInv  BY InitOK
<1>2. IInv /\ [Next]_vars => IInv'  BY StepOK
<1> QED BY <1>1, <1>2, PTL DEF Spec

\* The writer's variables keep their types.
THEOREM TypeCorrect == Spec => []TypeOK
<1>1. IInv => TypeOK  BY DEF IInv
<1> QED BY <1>1, Invariance, PTL

\* Whatever the file, the objects, the order of the dictionary's keys and the
\* reserve, the ByteRange leaves out the /Contents string and nothing else.
THEOREM RangesCorrect == Spec => []RangesExcludeOnlyContents
<1>1. IInv => RangesExcludeOnlyContents
  <2> SUFFICES ASSUME IInv, pc \in {"written", "hashed", "done"}
               PROVE  Covered(Compute(br, Len(buf))) =
                        {i \in DOMAIN buf : buf[i][1] \notin {"<", "hex", "cms", "pad", ">"}}
    BY DEF RangesExcludeOnlyContents
  <2>1. br.found  BY DEF IInv, Order
  <2>2. DOMAIN buf = 1 .. Len(buf)  BY DEF IInv, TypeOK
  <2>3. \A i \in 1 .. Len(buf) :
          buf[i][1] \in {"<", "hex", "cms", "pad", ">"} <=> InContents(i)
    BY DEF IInv, Layout, Tags, SigTags
  <2> QED BY <2>1, <2>2, <2>3, CoveredPositions
<1> QED BY <1>1, Invariance, PTL

\* The bytes the digest was computed over are those of the finished file.
THEOREM SignedBytesCorrect == Spec => []SignedBytesUnchanged
<1>1. IInv => SignedBytesUnchanged  BY DEF IInv
<1> QED BY <1>1, Invariance, PTL

\* No step changes a byte of the file that is extended.
THEOREM OriginalCorrect == Spec => OriginalUntouched
<1>1. IInv /\ IInv' /\ job' = job /\ Kept => SubSeq(buf', 1, job.orig) = SubSeq(buf, 1, job.orig)
  <2> SUFFICES ASSUME IInv, IInv', job' = job, Kept
               PROVE  SubSeq(buf', 1, job.orig) = SubSeq(buf, 1, job.orig)
    OBVIOUS
  <2> DEFINE k == job.orig
  <2>1. /\ buf \in Seq(ByteType) /\ buf' \in Seq(ByteType) /\ k \in Nat
        /\ k <= Len(buf) /\ k <= Len(buf') /\ Len(buf) \in Nat /\ Len(buf') \in Nat
    <3>1. buf \in Seq(ByteType) /\ buf' \in Seq(ByteType) /\ k \in Nat
      BY JobFacts DEF IInv, TypeOK
    <3>2. k <= Len(buf) /\ k <= Len(buf')  BY DEF IInv, Layout
    <3> QED BY <3>1, <3>2
  <2>2. \A i \in 1 .. k : buf'[i] = buf[i]  BY DEF Kept
  <2> HIDE DEF k
  <2>3. /\ SubSeq(buf, 1, k) \in Seq(ByteType) /\ Len(SubSeq(buf, 1, k)) = k
        /\ \A i \in 1 .. k : SubSeq(buf, 1, k)[i] = buf[i]
    BY <2>1
  <2>4. /\ SubSeq(buf', 1, k) \in Seq(ByteType) /\ Len(SubSeq(buf', 1, k)) = k
        /\ \A i \in 1 .. k : SubSeq(buf', 1, k)[i] = buf'[i]
    BY <2>1
  <2>5. SubSeq(buf', 1, k) = SubSeq(buf, 1, k)  BY <2>2, <2>3, <2>4, SeqEqual
  <2> QED BY <2>5 DEF k
<1>2. IInv /\ [Next]_vars =>
        [SubSeq(buf', 1, job.orig) = SubSeq(buf, 1, job.orig)]_vars
  <2>1. [Next]_vars => job' = job
    BY DEF Next, vars, Start, WriteObject, OpenSigDict, WriteByteRangeKey, WriteContentsKey,
           WriteOtherKey, CloseSigDict, FinishObjects, WriteXrefTable, WriteXrefStream,
           Backpatch, Hash, Inject
  <2> QED BY <1>1, <2>1, StepOK
<1> QED BY <1>2, Invariance, PTL DEF Spec, OriginalUntouched

-----------------------------------------------------------------------------
(* What /Contents holds.  IInv says where the string lies and which bytes  *)
(* belong to it; that its first and last are the two delimiters, and what  *)
(* is between them once a signature was accepted, is a second invariant.   *)

Delimited ==
  br.coOff > 0 => /\ buf[br.coOff] = Byte("<")
                  /\ buf[br.coOff + br.coLen + 1] = Byte(">")

Filled ==
  pc = "done" => \E n \in CmsLengths : \A i \in 1 .. br.coLen :
                    buf[br.coOff + i][1] = IF i <= 2 * n THEN "cms" ELSE "pad"

ContentsInv == Delimited /\ Filled

\* Writing at the end of a sequence changes none of the elements before.
LEMMA AppendKeepsPrefix ==
  ASSUME NEW S, NEW b \in Seq(S), NEW x \in S, NEW t \in Seq(S)
  PROVE  \A i \in 1 .. Len(b) :
            (b \o t)[i] = b[i] /\ Append(b, x)[i] = b[i] /\ (Append(b, x) \o t)[i] = b[i]
<1> SUFFICES ASSUME NEW i \in 1 .. Len(b)
             PROVE  (b \o t)[i] = b[i] /\ Append(b, x)[i] = b[i] /\ (Append(b, x) \o t)[i] = b[i]
  OBVIOUS
<1>1. Append(b, x) \in Seq(S) /\ Len(Append(b, x)) = Len(b) + 1 /\ Append(b, x)[i] = b[i]
  OBVIOUS
<1>2. (b \o t)[i] = b[i]  BY ConcatProperties
<1> DEFINE c == Append(b, x)
<1>3. c \in Seq(S) /\ i \in 1 .. Len(c) /\ c[i] = b[i]  BY <1>1
<1> HIDE DEF c
<1>4. (c \o t)[i] = c[i]  BY <1>3, ConcatProperties
<1> QED BY <1>1, <1>2, <1>3, <1>4 DEF c

\* A step that moves neither the string nor the bytes written keeps its delimiters.
LEMMA DelimitedKept ==
  ASSUME IInv, Delimited, br'.coOff = br.coOff, br.coOff > 0 => br'.coLen = br.coLen,
         \A i \in 1 .. Len(buf) : buf'[i] = buf[i]
  PROVE  Delimited'
<1>1. br.coOff \in Nat /\ br.coLen \in Nat /\ Len(buf) \in Nat /\ job.orig \in Nat
  BY JobFacts DEF IInv, TypeOK, RangeType
<1>2. br.coOff > 0 => /\ br.coOff \in 1 .. Len(buf)
                      /\ br.coOff + br.coLen + 1 \in 1 .. Len(buf)
  BY <1>1 DEF IInv, Layout, ContentsPlace
<1> QED BY <1>1, <1>2 DEF Delimited

\* The bytes the steps before the backpatch write go after those already there.
LEMMA WritingKeeps ==
  ASSUME IInv,
         \/ Start \/ WriteObject \/ OpenSigDict \/ WriteByteRangeKey \/ WriteContentsKey
         \/ WriteOtherKey \/ CloseSigDict \/ WriteXrefTable \/ WriteXrefStream
  PROVE  \A i \in 1 .. Len(buf) : buf'[i] = buf[i]
<1>1. buf \in Seq(ByteType) /\ todo \in Seq(Object) /\ job \in Jobs /\ br \in RangeType
      /\ entries \in Seq(Nat \X Nat) /\ TypeOK
  BY DEF IInv, TypeOK
<1>2. Byte("nl") \in ByteType /\ Byte("key") \in ByteType /\ Byte("body") \in ByteType
  BY TagFacts DEF Byte, Tag
<1>3. CASE Start
  <2>1. buf' = buf \/ buf' = Append(buf, Byte("nl"))  BY <1>3 DEF Start
  <2>2. \A i \in 1 .. Len(buf) : Append(buf, Byte("nl"))[i] = buf[i]
    BY <1>1, <1>2, AppendKeepsPrefix
  <2> QED BY <2>1, <2>2
<1>4. CASE WriteObject
  <2> DEFINE o == Head(todo)
             x == <<"obj", o.id>>
             t == Bytes("body", o.len)
  <2>1. buf' = Append(buf, x) \o t /\ todo # <<>>  BY <1>4 DEF WriteObject
  <2>2. o.id \in Nat /\ o.len \in Nat  BY <1>1, <2>1, HeadFacts
  <2> HIDE DEF o
  <2>3. x \in ByteType /\ t \in Seq(ByteType)  BY <2>2, TagFacts, BytesSeq DEF Tag
  <2> HIDE DEF x, t
  <2> QED BY <1>1, <2>1, <2>3, AppendKeepsPrefix
<1>5. CASE OpenSigDict
  <2> DEFINE x == <<"obj", Head(todo).id>>
  <2>1. buf' = Append(buf, x) /\ todo # <<>>  BY <1>5 DEF OpenSigDict
  <2>2. x \in ByteType  BY <1>1, <2>1, HeadFacts, TagFacts DEF Tag
  <2> HIDE DEF x
  <2> QED BY <1>1, <2>1, <2>2, AppendKeepsPrefix
<1>6. CASE WriteByteRangeKey
  <2> DEFINE t == Bytes("zero", PlaceholderLength)
  <2>1. buf' = Append(buf, Byte("key")) \o t  BY <1>6 DEF WriteByteRangeKey
  <2>2. PlaceholderLength \in Nat  BY WriterAssumption DEF PlaceholderLength
  <2>3. t \in Seq(ByteType)  BY <2>2, BytesSeq DEF Tag
  <2> HIDE DEF t
  <2> QED BY <1>1, <1>2, <2>1, <2>3, AppendKeepsPrefix
<1>7. CASE WriteContentsKey
  <2> DEFINE n == 2 * job.reserve
             t == ContentsEntry(n)
  <2>1. buf' = buf \o t  BY <1>7 DEF WriteContentsKey
  <2>2. n \in Nat  BY <1>1, JobFacts
  <2> HIDE DEF n
  <2>3. t \in Seq(ByteType)  BY <2>2, ContentsEntrySeq
  <2> HIDE DEF t
  <2> QED BY <1>1, <1>2, <2>1, <2>3, AppendKeepsPrefix
<1>8. CASE WriteOtherKey
  <2> DEFINE t == <<Byte("key"), Byte("body")>>
  <2>1. buf' = buf \o t  BY <1>8 DEF WriteOtherKey
  <2>2. t \in Seq(ByteType)  BY <1>2
  <2> HIDE DEF t
  <2> QED BY <1>1, <1>2, <2>1, <2>2, AppendKeepsPrefix
<1>9. CASE CloseSigDict
  <2>1. buf' = Append(buf, Byte("body"))  BY <1>9 DEF CloseSigDict
  <2> QED BY <1>1, <1>2, <2>1, AppendKeepsPrefix
<1>10. CASE WriteXrefTable
  <2> DEFINE n == Len(entries) + 1
             t == SectionBytes(n)
  <2>1. buf' = buf \o t  BY <1>10 DEF WriteXrefTable
  <2>2. n \in Nat  BY <1>1
  <2> HIDE DEF n
  <2>3. t \in Seq(ByteType)  BY <2>2, SectionBytesSeq
  <2> HIDE DEF t
  <2> QED BY <1>1, <1>2, <2>1, <2>3, AppendKeepsPrefix
<1>11. CASE WriteXrefStream
  <2> DEFINE num == StreamNumber(entries, job.prevSize)
             x == <<"obj", num>>
             n == Len(entries) + 2
             t == SectionBytes(n)
  <2>1. buf' = Append(buf, x) \o t  BY <1>11 DEF WriteXrefStream
  <2>2. n \in Nat  BY <1>1
  <2> HIDE DEF n
  <2>3. t \in Seq(ByteType)  BY <2>2, SectionBytesSeq
  <2> HIDE DEF t
  <2>4. num \in Nat
    <3>1. PICK b \in Nat : \A i \in DOMAIN entries : entries[i][1] <= b  BY DEF IInv, Bounded
    <3>2. MaxNumber(entries) \in Nat  BY <1>1, <3>1, MaxNumberNat
    <3>3. job.prevSize \in Nat  BY <1>1, JobFacts
    <3> QED BY <3>2, <3>3 DEF StreamNumber
  <2> HIDE DEF num
  <2>5. x \in ByteType  BY <2>4, TagFacts DEF Tag
  <2> HIDE DEF x
  <2> QED BY <1>1, <2>1, <2>3, <2>5, AppendKeepsPrefix
<1> QED BY <1>3, <1>4, <1>5, <1>6, <1>7, <1>8, <1>9, <1>10, <1>11

\* The string WriteContentsKey writes begins with "<" and ends with ">".
LEMMA ContentsEntryEnds ==
  ASSUME NEW n \in Nat
  PROVE  ContentsEntry(n)[2] = Byte("<") /\ ContentsEntry(n)[n + 3] = Byte(">")
<1> DEFINE a == <<Byte("key"), Byte("<")>>
           h == Bytes("hex", n)
           c == <<Byte(">")>>
           t == h \o c
<1>1. /\ a \in Seq(ByteType) /\ Len(a) = 2 /\ a[2] = Byte("<")
      /\ c \in Seq(ByteType) /\ Len(c) = 1 /\ c[1] = Byte(">")
  BY TagFacts DEF Byte, Tag
<1>2. h \in Seq(ByteType) /\ Len(h) = n  BY BytesSeq DEF Tag
<1>3. ContentsEntry(n) = a \o t  BY DEF ContentsEntry
<1> HIDE DEF a, h, c
<1>4. t \in Seq(ByteType) /\ Len(t) = n + 1 /\ t[n + 1] = c[1]
  <2>1. /\ h \o c \in Seq(ByteType) /\ Len(h \o c) = Len(h) + Len(c)
        /\ \A i \in 1 .. Len(h) + Len(c) :
             (h \o c)[i] = IF i <= Len(h) THEN h[i] ELSE c[i - Len(h)]
    BY <1>1, <1>2, ConcatProperties
  <2> QED BY <1>1, <1>2, <2>1
<1> HIDE DEF t
<1>5. (a \o t)[2] = a[2] /\ (a \o t)[n + 3] = t[n + 1]
  <2>1. \A i \in 1 .. Len(a) + Len(t) : (a \o t)[i] = IF i <= Len(a) THEN a[i] ELSE t[i - Len(a)]
    BY <1>1, <1>4, ConcatProperties
  <2>2. 2 \in 1 .. Len(a) + Len(t) /\ n + 3 \in 1 .. Len(a) + Len(t)  BY <1>1, <1>4
  <2> DEFINE two == 2
  <2>7. two \in 1 .. Len(a) + Len(t) /\ two <= Len(a)  BY <1>1, <2>2
  <2> HIDE DEF two
  <2>8. (a \o t)[two] = a[two]  BY <2>1, <2>7
  <2>3. (a \o t)[2] = a[2]  BY <2>8 DEF two
  <2>4. ~(n + 3 <= Len(a)) /\ n + 3 - Len(a) = n + 1  BY <1>1
  <2> DEFINE k == n + 3
  <2>5. k \in 1 .. Len(a) + Len(t) /\ ~(k <= Len(a)) /\ k - Len(a) = n + 1  BY <2>2, <2>4
  <2> HIDE DEF k
  <2>6. (a \o t)[k] = t[k - Len(a)]  BY <2>1, <2>5
  <2> QED BY <2>3, <2>5, <2>6 DEF k
<1> QED BY <1>1, <1>3, <1>4, <1>5

\* Injecting puts the signature and the padding between the delimiters.
LEMMA InjectContents ==
  ASSUME IInv, Delimited, NEW n \in CmsLengths, Inject(n)
  PROVE  Delimited' /\ Filled'
<1> DEFINE mid == Overwrite(buf, br.coOff, "cms", 2 * n)
<1>1. /\ br' = br
      /\ \/ pc' = "error" /\ buf' = buf
         \/ /\ ~(n > job.reserve) /\ pc' = "done"
            /\ buf' = Overwrite(mid, br.coOff + 2 * n, "pad", br.coLen - 2 * n)
  BY DEF Inject
<1>2. /\ br.coOff > 0 /\ br.coOff \in Nat /\ br.coLen = 2 * job.reserve
      /\ br.coOff + br.coLen + 1 <= Len(buf)
      /\ n \in Nat /\ job.reserve \in Nat /\ buf \in Seq(ByteType) /\ Len(buf) \in Nat
  <2>1. br.found /\ br.coOff > 0  BY DEF IInv, Order, Inject
  <2>2. job.reserve \in Nat /\ br.coOff \in Nat  BY JobFacts DEF IInv, TypeOK, RangeType
  <2>3. br.coLen = 2 * job.reserve /\ br.coOff + br.coLen + 1 <= Len(buf)
    BY <2>1 DEF IInv, Layout, ContentsPlace
  <2>4. n \in Nat /\ buf \in Seq(ByteType) /\ Len(buf) \in Nat
    BY WriterAssumption DEF IInv, TypeOK
  <2> QED BY <2>1, <2>2, <2>3, <2>4
<1>3. CASE pc' = "error" /\ buf' = buf
  BY <1>1, <1>3 DEF Delimited, Filled
<1>4. CASE /\ ~(n > job.reserve) /\ pc' = "done"
           /\ buf' = Overwrite(mid, br.coOff + 2 * n, "pad", br.coLen - 2 * n)
  <2>1. /\ mid \in Seq(ByteType) /\ Len(mid) = Len(buf)
        /\ \A i \in 1 .. Len(buf) :
             mid[i] = IF br.coOff < i /\ i <= br.coOff + 2 * n THEN <<"cms", 0>> ELSE buf[i]
    <3> DEFINE off == br.coOff
               m == 2 * n
    <3>1. off \in Int /\ m \in Int /\ "cms" \in Tag  BY <1>2 DEF Tag
    <3> HIDE DEF off, m
    <3>2. /\ Overwrite(buf, off, "cms", m) \in Seq(ByteType)
          /\ Len(Overwrite(buf, off, "cms", m)) = Len(buf)
          /\ \A i \in 1 .. Len(buf) : Overwrite(buf, off, "cms", m)[i] =
                 IF off < i /\ i <= off + m THEN <<"cms", 0>> ELSE buf[i]
      BY <1>2, <3>1, OverwriteSeq
    <3> QED BY <3>2 DEF off, m
  <2> HIDE DEF mid
  <2>2. \A i \in 1 .. Len(buf) :
           buf'[i] = IF br.coOff + 2 * n < i /\ i <= br.coOff + 2 * n + (br.coLen - 2 * n)
                     THEN <<"pad", 0>> ELSE mid[i]
    <3> DEFINE off == br.coOff + 2 * n
               m == br.coLen - 2 * n
    <3>1. off \in Int /\ m \in Int /\ "pad" \in Tag  BY <1>2 DEF Tag
    <3> HIDE DEF off, m
    <3>2. \A i \in 1 .. Len(mid) : Overwrite(mid, off, "pad", m)[i] =
                 IF off < i /\ i <= off + m THEN <<"pad", 0>> ELSE mid[i]
      BY <2>1, <3>1, OverwriteSeq
    <3> QED BY <1>4, <2>1, <3>2 DEF off, m
  <2>3. Delimited'
    <3> DEFINE lo == br.coOff
               hi == br.coOff + br.coLen + 1
    <3>1. lo \in 1 .. Len(buf) /\ hi \in 1 .. Len(buf)  BY <1>2
    <3>6. ~(br.coOff < lo) /\ ~(br.coOff + 2 * n < lo)  BY <1>2
    <3>4. /\ ~(hi <= br.coOff + 2 * n + (br.coLen - 2 * n))
          /\ ~(hi <= br.coOff + 2 * n)
      BY <1>2, <1>4
    <3>5. hi \in 1 .. Len(buf)  BY <3>1
    <3> HIDE DEF lo, hi
    <3>2. buf'[lo] = mid[lo] /\ mid[lo] = buf[lo]  BY <2>1, <2>2, <3>1, <3>6
    <3>3. buf'[hi] = mid[hi] /\ mid[hi] = buf[hi]  BY <2>1, <2>2, <3>4, <3>5
    <3> USE DEF lo, hi
    <3> QED BY <1>1, <1>2, <3>2, <3>3 DEF Delimited
  <2>4. \A i \in 1 .. br.coLen : buf'[br.coOff + i][1] = IF i <= 2 * n THEN "cms" ELSE "pad"
    <3> SUFFICES ASSUME NEW i \in 1 .. br.coLen
                 PROVE  buf'[br.coOff + i][1] = IF i <= 2 * n THEN "cms" ELSE "pad"
      OBVIOUS
    <3> DEFINE k == br.coOff + i
               o == br.coOff
               m == 2 * n
               z == br.coLen
    <3>0. i \in Nat /\ z \in Nat /\ i > 0 /\ i <= z /\ o \in Nat /\ m \in Nat  BY <1>2
    <3>1. k \in 1 .. Len(buf) /\ o < k /\ k <= o + z  BY <1>2, <3>0
    <3>5. k = o + i  OBVIOUS
    <3>2. CASE i <= 2 * n
      <4>0. i <= m  BY <3>2
      <4> HIDE DEF k, o, m, z
      <4>4. ~(o + m < k) /\ k <= o + m /\ o < k  BY <3>0, <3>1, <3>5, <4>0
      <4>1. ~(br.coOff + 2 * n < k) /\ k <= br.coOff + 2 * n /\ br.coOff < k  BY <4>4 DEF o, m
      <4>2. buf'[k] = mid[k] /\ mid[k] = <<"cms", 0>>  BY <2>1, <2>2, <3>1, <4>1
      <4>3. buf'[k][1] = "cms"  BY <4>2
      <4> QED BY <3>2, <4>3 DEF k
    <3>3. CASE ~(i <= 2 * n)
      <4>0. ~(i <= m)  BY <3>3
      <4> HIDE DEF k, o, m, z
      <4>4. o + m < k /\ k <= o + m + (z - m)  BY <3>0, <3>1, <3>5, <4>0
      <4>1. br.coOff + 2 * n < k /\ k <= br.coOff + 2 * n + (br.coLen - 2 * n)
        BY <4>4 DEF o, m, z
      <4>2. buf'[k] = <<"pad", 0>>  BY <2>2, <3>1, <4>1
      <4>3. buf'[k][1] = "pad"  BY <4>2
      <4> QED BY <3>3, <4>3 DEF k
    <3> QED BY <3>2, <3>3
  <2>5. Filled'  BY <1>1, <2>4 DEF Filled
  <2> QED BY <2>3, <2>5
<1> QED BY <1>1, <1>3, <1>4

\* Every step keeps the delimiters, and only Inject reaches "done".
LEMMA ContentsStep == IInv /\ ContentsInv /\ [Next]_vars => ContentsInv'
<1> SUFFICES ASSUME IInv, Delimited, Filled, [Next]_vars PROVE Delimited' /\ Filled'
  BY DEF ContentsInv
<1>1. CASE \E n \in CmsLengths : Inject(n)  BY <1>1, InjectContents
<1>2. CASE UNCHANGED vars  BY <1>2 DEF vars, Delimited, Filled
<1>3. CASE WriteContentsKey
  <2> DEFINE n == 2 * job.reserve
             s == ContentsEntry(n)
  <2>1. /\ pc = "dict" /\ pc' = pc /\ br' = [br EXCEPT !.coOff = Len(buf) + 2] /\ buf' = buf \o s
    BY <1>3 DEF WriteContentsKey
  <2>2. /\ buf \in Seq(ByteType) /\ Len(buf) \in Nat /\ br \in RangeType
        /\ n \in Nat /\ br.coLen = n
    <3>1. buf \in Seq(ByteType) /\ br \in RangeType /\ job.reserve \in Nat
      BY JobFacts DEF IInv, TypeOK
    <3>2. br.coLen = n  BY <2>1 DEF IInv, Order
    <3> QED BY <3>1, <3>2
  <2> HIDE DEF n
  <2>3. /\ s \in Seq(ByteType) /\ Len(s) = n + 3 /\ s[2] = Byte("<") /\ s[n + 3] = Byte(">")
    <3>1. ContentsEntry(n) \in Seq(ByteType) /\ Len(ContentsEntry(n)) = n + 3
      BY ONLY <2>2, ContentsEntrySeq
    <3>2. ContentsEntry(n)[2] = Byte("<") /\ ContentsEntry(n)[n + 3] = Byte(">")
      BY ONLY <2>2, ContentsEntryEnds
    <3> QED BY <3>1, <3>2
  <2> HIDE DEF s
  <2>4. \A i \in 1 .. Len(buf) + Len(s) : buf'[i] = IF i <= Len(buf) THEN buf[i] ELSE s[i - Len(buf)]
    BY <2>1, <2>2, <2>3, ConcatProperties
  <2>5. buf'[Len(buf) + 2] = s[2] /\ buf'[Len(buf) + n + 3] = s[n + 3]  BY <2>2, <2>3, <2>4
  <2>6. br'.coOff = Len(buf) + 2 /\ br'.coLen = n  BY <2>1, <2>2 DEF RangeType
  <2>7. br'.coOff + br'.coLen + 1 = Len(buf) + n + 3  BY <2>2, <2>6
  <2>8. Delimited'  BY <2>3, <2>5, <2>6, <2>7 DEF Delimited
  <2> QED BY <2>1, <2>8 DEF Filled
<1>4. CASE \/ Start \/ WriteObject \/ OpenSigDict \/ WriteByteRangeKey
           \/ WriteOtherKey \/ CloseSigDict \/ WriteXrefTable \/ WriteXrefStream
  <2>1. \A i \in 1 .. Len(buf) : buf'[i] = buf[i]  BY <1>4, WritingKeeps
  <2>2. br \in RangeType  BY DEF IInv, TypeOK
  <2>3. br'.coOff = br.coOff /\ (br.coOff > 0 => br'.coLen = br.coLen)
    <3>1. CASE OpenSigDict
      <4>1. todo # <<>> /\ Head(todo).id = job.sig /\ pc = "objects"  BY <3>1 DEF OpenSigDict
      <4>2. ~br.found  BY <4>1, HeadFacts DEF IInv, Pending
      <4>3. br = NoRange  BY <4>1, <4>2 DEF IInv, Order
      <4>4. br' = [NoRange EXCEPT !.coLen = 2 * job.reserve]  BY <3>1 DEF OpenSigDict
      <4> QED BY <4>3, <4>4 DEF NoRange
    <3>2. CASE ~OpenSigDict
      BY <1>4, <2>2, <3>2 DEF Start, WriteObject, WriteByteRangeKey, WriteOtherKey, CloseSigDict,
                         WriteXrefTable, WriteXrefStream, RangeType
    <3> QED BY <3>1, <3>2
  <2>4. pc' # "done"
    BY <1>4 DEF Start, WriteObject, OpenSigDict, WriteByteRangeKey, WriteOtherKey, CloseSigDict,
                WriteXrefTable, WriteXrefStream
  <2> QED BY <2>1, <2>3, <2>4, DelimitedKept DEF Filled
<1>5. CASE FinishObjects \/ Hash
  <2>1. buf' = buf /\ br' = br /\ pc' # "done"  BY <1>5 DEF FinishObjects, Hash
  <2> QED BY <2>1 DEF Delimited, Filled
<1>6. CASE Backpatch
  <2>1. /\ pc = "backpatch" /\ pc' # "done" /\ br' = br
        /\ buf' = buf \/ buf' = Overwrite(buf, br.brOff, "range", br.brLen)
    BY <1>6 DEF Backpatch
  <2>2. br \in RangeType /\ br.coOff > 0 /\ br.brLen > 0 /\ buf \in Seq(ByteType) /\ Len(buf) \in Nat
    BY <2>1 DEF IInv, TypeOK, Order
  <2>3. CASE buf' = buf  BY <2>1, <2>3 DEF Delimited, Filled
  <2>4. CASE buf' = Overwrite(buf, br.brOff, "range", br.brLen)
    <3>1. \A i \in 1 .. Len(buf) :
            buf'[i] = IF br.brOff < i /\ i <= br.brOff + br.brLen THEN <<"range", 0>> ELSE buf[i]
      BY <2>2, <2>4, OverwriteSeq DEF RangeType, Tag
    <3>2. br.coOff \in 1 .. Len(buf) /\ br.coOff + br.coLen + 1 \in 1 .. Len(buf)
      <4>1. br.coOff \in Nat /\ br.coLen \in Nat  BY <2>2 DEF RangeType
      <4>2. br.coOff + br.coLen + 1 <= Len(buf)  BY <2>2 DEF IInv, Layout, ContentsPlace
      <4> QED BY <2>2, <4>1, <4>2
    <3>3. br.brOff + br.brLen < br.coOff \/ br.coOff + br.coLen + 1 <= br.brOff
      BY <2>2 DEF IInv, Layout, Apart
    <3>4. buf'[br.coOff] = buf[br.coOff]
          /\ buf'[br.coOff + br.coLen + 1] = buf[br.coOff + br.coLen + 1]
      <4> DEFINE lo == br.coOff
                 hi == br.coOff + br.coLen + 1
                 from == br.brOff
                 to == br.brOff + br.brLen
      <4>1. lo \in 1 .. Len(buf) /\ hi \in 1 .. Len(buf)  BY <3>2
      <4>2. lo \in Int /\ hi \in Int /\ from \in Int /\ to \in Int /\ lo < hi
        BY <2>2 DEF RangeType
      <4>3. to < lo \/ hi <= from  BY <3>3
      <4> HIDE DEF lo, hi, from, to
      <4>4. ~(from < lo /\ lo <= to) /\ ~(from < hi /\ hi <= to)  BY <4>2, <4>3
      <4>5. \A i \in 1 .. Len(buf) :
              buf'[i] = IF from < i /\ i <= to THEN <<"range", 0>> ELSE buf[i]
        BY <3>1 DEF from, to
      <4>6. buf'[lo] = buf[lo] /\ buf'[hi] = buf[hi]  BY <4>1, <4>4, <4>5
      <4> QED BY <4>6 DEF lo, hi
    <3> QED BY <2>1, <3>4 DEF Delimited, Filled
  <2> QED BY <2>1, <2>3, <2>4
<1> QED BY <1>1, <1>2, <1>3, <1>4, <1>5, <1>6 DEF Next

\* Both invariants hold of every writer.
LEMMA ContentsAlways == Spec => []ContentsInv
<1>1. Init => ContentsInv
  BY DEF Init, ContentsInv, Delimited, Filled, NoRange
<1>2. IInv /\ ContentsInv /\ [Next]_vars => ContentsInv'  BY ContentsStep
<1> QED BY <1>1, <1>2, Invariance, PTL DEF Spec

\* What was reserved holds the accepted signature and padding, still between
\* the delimiters, whatever the signature's length and the dictionary's order.
THEOREM ContentsCorrect == Spec => []ContentsHoldTheSignature
<1>1. IInv /\ ContentsInv => ContentsHoldTheSignature
  <2> SUFFICES ASSUME IInv, ContentsInv PROVE ContentsHoldTheSignature
    OBVIOUS
  <2>1. pc \in {"written", "hashed", "done"} => br.coOff > 0  BY DEF IInv, Order
  <2>2. pc \in {"written", "hashed", "done"} => br.coLen = 2 * job.reserve
    BY <2>1 DEF IInv, Layout, ContentsPlace
  <2> QED BY <2>1, <2>2 DEF ContentsInv, ContentsHoldTheSignature, Delimited, Filled
<1> QED BY <1>1, ContentsAlways, Invariance, PTL

-----------------------------------------------------------------------------
(* The finished file in the hands of the verifier (SignThenVerify).        *)

\* A slice between two positions of a sequence, element by element.
LEMMA SliceFacts ==
  ASSUME NEW S, NEW s \in Seq(S), NEW a \in Nat, NEW b \in Nat, a <= b, b <= Len(s)
  PROVE  /\ V!Slice(s, a, b) \in Seq(S) /\ Len(V!Slice(s, a, b)) = b - a
         /\ \A k \in 1 .. b - a : V!Slice(s, a, b)[k] = s[a + k]
  <1> DEFINE t == V!Slice(s, a, b)
  <1>1. t = SubSeq(s, a + 1, b)
    BY DEF V!Slice
  <1>2. SubSeq(s, a + 1, b) \in Seq(S) /\ Len(SubSeq(s, a + 1, b)) = b - a
    OBVIOUS
  <1>3. \A k \in 1 .. b - a : SubSeq(s, a + 1, b)[k] = s[a + k]
    OBVIOUS
  <1> QED BY <1>1, <1>2, <1>3

\* The verifier counts as the writer does.
LEMMA SameCount == \A T : V!Cardinality(T) = Cardinality(T)
  BY DEF V!Cardinality, Cardinality

\* An interval from 1 has as many elements as its end says.
LEMMA IntervalCount ==
  ASSUME NEW n \in Nat
  PROVE  Cardinality(1 .. n) = n
  <1>1. 1 \in Int /\ n \in Int
    OBVIOUS
  <1>2. Cardinality(1 .. n) = IF 1 > n THEN 0 ELSE n - 1 + 1
    BY <1>1, FS_Interval
  <1> QED BY <1>2

\* Where every character is a hex digit, none is dropped and they keep their places.
LEMMA AllDigits ==
  ASSUME NEW S, NEW s \in Seq(S), \A k \in 1 .. Len(s) : V!IsHex(s[k])
  PROVE  /\ Len(V!Digits16(s)) = Len(s)
         /\ \A k \in 1 .. Len(s) : V!Digits16(s)[k] = s[k][2]
  <1> DEFINE at == {i \in DOMAIN s : V!IsHex(s[i])}
             Nth(k) == CHOOSE i \in at : V!Cardinality({j \in at : j < i}) = k - 1
  <1>1. at = 1 .. Len(s) /\ Len(s) \in Nat
    OBVIOUS
  <1>2. V!Cardinality(at) = Len(s)
    BY <1>1, IntervalCount, SameCount
  <1>3. V!Digits16(s) = [k \in 1 .. V!Cardinality(at) |-> s[Nth(k)][2]]
    BY DEF V!Digits16
  <1>4. ASSUME NEW k \in 1 .. Len(s) PROVE Nth(k) = k
    <2> HIDE DEF at
    <2>1. ASSUME NEW i \in at PROVE V!Cardinality({j \in at : j < i}) = i - 1
      <3>1. {j \in at : j < i} = 1 .. i - 1 /\ i - 1 \in Nat
        BY <1>1, <2>1
      <3> DEFINE b == i - 1
      <3>2. {j \in at : j < i} = 1 .. b /\ b \in Nat
        BY <3>1
      <3> HIDE DEF b
      <3>3. V!Cardinality({j \in at : j < i}) = b
        BY <3>2, IntervalCount, SameCount
      <3> QED BY <3>3 DEF b
    <2>2. \A i \in at : V!Cardinality({j \in at : j < i}) = k - 1 <=> i = k
      BY <1>1, <2>1
    <2>3. k \in at
      BY <1>1
    <2> QED BY <2>2, <2>3
  <1> HIDE DEF Nth, at
  <1> QED BY <1>1, <1>2, <1>3, <1>4

\* The bytes of a digit string form a sequence, two digits each.
LEMMA BytesOfSeq ==
  ASSUME NEW d, Len(d) \in Nat
  PROVE  DOMAIN V!BytesOf(d) = 1 .. Len(V!BytesOf(d)) /\ Len(V!BytesOf(d)) = (Len(d) + 1) \div 2 /\ Len(V!BytesOf(d)) \in Nat
  <1> DEFINE n == (Len(d) + 1) \div 2
  <1>1. n \in Nat
    OBVIOUS
  <1>2. DOMAIN V!BytesOf(d) = 1 .. n
    BY DEF V!BytesOf
  <1> QED BY <1>1, <1>2 DEF V!BytesOf
\* Some number of bytes is what the extractor keeps: up to the last that is not zero.
LEMMA TrimFacts ==
  ASSUME NEW S, NEW bytes \in Seq(S)
  PROVE  \E n \in 0 .. Len(bytes) :
            /\ V!TrimPadding(bytes) = SubSeq(bytes, 1, n)
            /\ V!AllZero(SubSeq(bytes, n + 1, Len(bytes)))
            /\ n > 0 => bytes[n] # V!Zero
  <1> DEFINE Kept1(n) == /\ V!AllZero(SubSeq(bytes, n + 1, Len(bytes)))
                         /\ n > 0 => bytes[n] # V!Zero
             Some == {k \in 1 .. Len(bytes) : bytes[k] # V!Zero}
  <1>1. Len(bytes) \in Nat
    OBVIOUS
  <1>2. \A n \in 0 .. Len(bytes) :
          (\A k \in n + 1 .. Len(bytes) : bytes[k] = V!Zero)
            => V!AllZero(SubSeq(bytes, n + 1, Len(bytes)))
    <2> SUFFICES ASSUME NEW n \in 0 .. Len(bytes),
                        \A k \in n + 1 .. Len(bytes) : bytes[k] = V!Zero,
                        NEW k \in DOMAIN SubSeq(bytes, n + 1, Len(bytes))
                 PROVE  SubSeq(bytes, n + 1, Len(bytes))[k] = V!Zero
      BY DEF V!AllZero
    <2>1. k \in 1 .. Len(bytes) - n /\ n \in Nat
      BY <1>1
    <2>2. SubSeq(bytes, n + 1, Len(bytes))[k] = bytes[n + k]
      BY <1>1, <2>1
    <2>3. n + k \in n + 1 .. Len(bytes)
      BY <1>1, <2>1
    <2> QED BY <2>2, <2>3
  <1>3. \E n \in 0 .. Len(bytes) : Kept1(n)
    <2>1. CASE Some = {}
      <3>1. 0 \in 0 .. Len(bytes) /\ \A k \in 0 + 1 .. Len(bytes) : bytes[k] = V!Zero
        BY <1>1, <2>1
      <3> QED BY <1>2, <3>1
    <2>2. CASE Some # {}
      <3>1. PICK n \in Some : \A k \in Some : k <= n
        <4>1. Some \subseteq Nat /\ \A k \in Some : k <= Len(bytes)
          BY <1>1
        <4> HIDE DEF Some
        <4> QED BY <1>1, <2>2, <4>1, GreatestElement
      <3>2. n \in 0 .. Len(bytes) /\ bytes[n] # V!Zero
        BY <1>1, <3>1
      <3>3. \A k \in n + 1 .. Len(bytes) : bytes[k] = V!Zero
        BY <1>1, <3>1
      <3>4. Kept1(n)
        BY <1>2, <3>2, <3>3
      <3> QED BY <3>2, <3>4
    <2> QED BY <2>1, <2>2
  <1> DEFINE kept == CHOOSE n \in 0 .. Len(bytes) : Kept1(n)
  <1>4. V!TrimPadding(bytes) = SubSeq(bytes, 1, kept)
    BY DEF V!TrimPadding
  <1>5. kept \in 0 .. Len(bytes) /\ Kept1(kept)
    <2> HIDE DEF Kept1
    <2> QED BY <1>3
  <1> QED BY <1>4, <1>5

\* Of a signature that ends in `last`, and zeros behind it, the extractor keeps
\* everything, or all but the last byte if that is zero.
LEMMA SignatureCut ==
  ASSUME NEW S, NEW bytes \in Seq(S), NEW w \in 0 .. Len(bytes), NEW last,
         \A k \in 1 .. Len(bytes) :
           bytes[k] = IF k < w THEN <<15, 15>> ELSE IF k = w THEN last ELSE V!Zero
  PROVE  Len(V!TrimPadding(bytes)) = IF w > 0 /\ last = V!Zero THEN w - 1 ELSE w
  <1>1. Len(bytes) \in Nat /\ w \in Nat /\ w <= Len(bytes)
    OBVIOUS
  <1>2. PICK n \in 0 .. Len(bytes) :
            /\ V!TrimPadding(bytes) = SubSeq(bytes, 1, n)
            /\ V!AllZero(SubSeq(bytes, n + 1, Len(bytes)))
            /\ n > 0 => bytes[n] # V!Zero
    BY TrimFacts
  <1>3. Len(V!TrimPadding(bytes)) = n
    BY <1>1, <1>2
  <1>4. \A k \in n + 1 .. Len(bytes) : bytes[k] = V!Zero
    <2> SUFFICES ASSUME NEW k \in n + 1 .. Len(bytes) PROVE bytes[k] = V!Zero
      OBVIOUS
    <2> DEFINE t == SubSeq(bytes, n + 1, Len(bytes))
               j == k - n
    <2>1. j \in 1 .. Len(bytes) - n /\ n + j = k /\ n \in Nat
      BY <1>1, <1>2
    <2>2. DOMAIN t = 1 .. Len(bytes) - n /\ t[j] = bytes[n + j]
      BY <1>1, <2>1
    <2> HIDE DEF t, j
    <2>3. t[j] = V!Zero
      BY <1>2, <2>1, <2>2 DEF V!AllZero, t
    <2> QED BY <2>1, <2>2, <2>3
  <1>5. <<15, 15>> # V!Zero
    BY DEF V!Zero
  <1>6. n \in Nat /\ n <= Len(bytes)
    BY <1>1, <1>2
  <1>7. n <= w
    BY <1>1, <1>2, <1>6
  <1>8. \A k \in n + 1 .. w : k < w => FALSE
    BY <1>1, <1>4, <1>5, <1>6
  <1>9. CASE w = 0
    BY <1>3, <1>6, <1>7, <1>9
  <1>10. CASE w > 0
    <2>1. n >= w - 1
      BY <1>1, <1>6, <1>8, <1>10
    <2>2. bytes[w] = last /\ w \in 1 .. Len(bytes)
      BY <1>1, <1>10
    <2>3. last = V!Zero => n # w
      BY <1>2, <1>10, <2>2
    <2>4. n # w => last = V!Zero
      BY <1>1, <1>4, <1>6, <1>7, <1>10, <2>2
    <2> QED BY <1>1, <1>3, <1>6, <1>7, <1>10, <2>1, <2>3, <2>4
  <1> QED BY <1>1, <1>9, <1>10

\* The last of a sequence is the same to both.
LEMMA SameLast == \A t : V!Last(t) = t[Len(t)]
  BY DEF V!Last

\* A hex string that lies between the two ranges, with an even number of digits,
\* binds a range up to the end of the file to what the extractor takes from it.
LEMMA OwnGap ==
  ASSUME NEW S, NEW s \in Seq(S), NEW a \in Nat, NEW m \in Nat, NEW n, n = 2 * m,
         a > 0, a + n + 1 <= Len(s),
         s[a] = <<"<", 0>>, s[a + n + 1] = <<">", 0>>,
         \A k \in 1 .. n : V!IsHex(s[a + k]),
         NEW contents, contents = V!TrimPadding(V!BytesOf(V!Digits16(V!Slice(s, a, a + n)))),
         contents # <<>>
  PROVE  V!IntegrityOk(s, <<0, a - 1, a + n + 1, Len(s) - (a + n + 1)>>, contents, TRUE)
  <1> DEFINE r == <<0, a - 1, a + n + 1, Len(s) - (a + n + 1)>>
             gap == V!Slice(s, a - 1, a + n + 1)
             inner == V!Slice(s, a, a + n)
             bytes == V!BytesOf(V!Digits16(inner))
  <1>1. Len(s) \in Nat /\ n \in Nat /\ a + n <= Len(s)
    OBVIOUS
  <1>2. r[1] = 0 /\ V!End1(r) = a - 1 /\ r[3] = a + n + 1 /\ V!End2(r) = Len(s)
    BY <1>1 DEF V!End1, V!End2
  <1>3. /\ gap \in Seq(S) /\ Len(gap) = n + 2
        /\ \A k \in 1 .. n + 2 : gap[k] = s[a - 1 + k]
    <2> DEFINE lo == a - 1
               hi == a + n + 1
    <2>1. lo \in Nat /\ hi \in Nat /\ lo <= hi /\ hi <= Len(s) /\ hi - lo = n + 2
      BY <1>1
    <2> HIDE DEF lo, hi
    <2>2. /\ V!Slice(s, lo, hi) \in Seq(S) /\ Len(V!Slice(s, lo, hi)) = hi - lo
          /\ \A k \in 1 .. hi - lo : V!Slice(s, lo, hi)[k] = s[lo + k]
      BY <2>1, SliceFacts
    <2> QED BY <2>1, <2>2 DEF lo, hi
  <1>4. /\ inner \in Seq(S) /\ Len(inner) = n
        /\ \A k \in 1 .. n : inner[k] = s[a + k]
    <2> DEFINE hi == a + n
    <2>1. hi \in Nat /\ a <= hi /\ hi <= Len(s) /\ hi - a = n
      BY <1>1
    <2> HIDE DEF hi
    <2>2. /\ V!Slice(s, a, hi) \in Seq(S) /\ Len(V!Slice(s, a, hi)) = hi - a
          /\ \A k \in 1 .. hi - a : V!Slice(s, a, hi)[k] = s[a + k]
      BY <2>1, SliceFacts
    <2> QED BY <2>1, <2>2 DEF hi
  <1>5. V!Inner(gap) = inner
    <2>1. V!Inner(gap) = SubSeq(gap, 2, n + 1)
      BY <1>1, <1>3 DEF V!Inner
    <2> HIDE DEF gap
    <2>2. SubSeq(gap, 2, n + 1) \in Seq(S) /\ Len(SubSeq(gap, 2, n + 1)) = n
      BY <1>1, <1>3
    <2>3. ASSUME NEW k \in 1 .. n
          PROVE  SubSeq(gap, 2, n + 1)[k] = inner[k]
      <3>1. SubSeq(gap, 2, n + 1)[k] = gap[k + 1] /\ k + 1 \in 1 .. n + 2
        BY <1>1, <1>3
      <3>2. gap[k + 1] = s[a - 1 + (k + 1)] /\ a - 1 + (k + 1) = a + k
        BY <1>3, <3>1
      <3> QED BY <1>4, <3>1, <3>2
    <2> HIDE DEF inner
    <2> QED BY <1>1, <1>4, <2>1, <2>2, <2>3
  <1> HIDE DEF inner
  <1>6. Len(V!Digits16(inner)) = n
    <2>1. \A k \in 1 .. Len(inner) : V!IsHex(inner[k])
      BY <1>4 DEF V!IsHex
    <2> QED BY <1>4, <2>1, AllDigits
  <1>7. contents = V!TrimPadding(bytes) /\ Len(bytes) \in Nat /\ bytes \in Seq(Range(bytes))
    <2> DEFINE digits == V!Digits16(inner)
    <2>1. Len(digits) \in Nat
      BY <1>1, <1>6
    <2> HIDE DEF digits
    <2>2. DOMAIN V!BytesOf(digits) = 1 .. Len(V!BytesOf(digits)) /\ Len(V!BytesOf(digits)) \in Nat
      BY <2>1, BytesOfSeq
    <2>3. V!BytesOf(digits) = [k \in DOMAIN V!BytesOf(digits) |-> V!BytesOf(digits)[k]]
      BY DEF V!BytesOf
    <2> QED BY <2>2, <2>3 DEF digits, Range, inner
  <1> HIDE DEF bytes, gap
  <1>8. PICK kept \in 0 .. Len(bytes) :
          /\ contents = SubSeq(bytes, 1, kept)
          /\ V!AllZero(SubSeq(bytes, kept + 1, Len(bytes)))
    BY <1>7, TrimFacts
  <1>9. Len(contents) = kept /\ kept # 0
    BY <1>7, <1>8
  <1>10. V!BindsContents(gap, contents)
    BY <1>5, <1>7, <1>8, <1>9 DEF V!BindsContents, bytes
  <1>11. inner # <<>>
    <2>1. Len(bytes) = (n + 1) \div 2
      <3> DEFINE digits == V!Digits16(inner)
      <3>1. Len(digits) = n
        BY <1>6
      <3> HIDE DEF digits
      <3>2. Len(V!BytesOf(digits)) = (n + 1) \div 2
        BY <1>1, <3>1, BytesOfSeq
      <3> QED BY <3>2 DEF digits, bytes
    <2>2. n # 0
      BY <1>7, <1>8, <1>9, <2>1
    <2> QED BY <1>4, <2>2
  <1>12. V!WellFormedGap(gap)
    <2>1. gap[1] = <<"<", 0>> /\ V!Last(gap) = <<">", 0>>
      <3>1. 1 \in 1 .. n + 2 /\ n + 2 \in 1 .. n + 2 /\ a - 1 + 1 = a /\ a - 1 + (n + 2) = a + n + 1
        BY <1>1
      <3> QED BY <1>3, <3>1, SameLast
    <2>2. \A k \in DOMAIN inner : V!IsHex(inner[k])
      <3>1. DOMAIN inner = 1 .. n
        BY <1>1, <1>4
      <3>2. \A k \in 1 .. n : V!IsHex(inner[k])
        BY <1>4 DEF V!IsHex
      <3> QED BY <3>1, <3>2
    <2>3. Len(V!Digits16(inner)) % 2 = 0
      BY <1>1, <1>6
    <2> QED BY <1>5, <1>11, <2>1, <2>2, <2>3 DEF V!WellFormedGap, V!Delimited
  <1>13. V!GapOk(s, r, contents)
    BY <1>1, <1>2, <1>3, <1>10, <1>12 DEF V!GapOk, gap
  <1> HIDE DEF r
  <1> QED BY <1>1, <1>2, <1>13 DEF V!IntegrityOk, V!InsideFile, r

\* What the writer returns passes the verifier's integrity check, over what the
\* extractor takes from it: the signature, but for a last byte that is zero.
THEOREM OwnOutputCorrect == Spec => []OwnOutputPasses
<1>1. IInv /\ ContentsInv => OwnOutputPasses
  <2> SUFFICES ASSUME IInv, ContentsInv, pc = "done", NEW last \in LastBytes
               PROVE  /\ CmsDigits = 1 .. 2 * (Len(Extracted(last)) + CutFrom(last))
                      /\ Extracted(last) # <<>> =>
                           V!IntegrityOk(Seen(last), Compute(br, Len(buf)), Extracted(last), TRUE)
    BY DEF OwnOutputPasses
  <2> DEFINE s == Seen(last)
             a == br.coOff
             n == br.coLen
             Kinds == {"<", ">", "hex", "x"}
  <2>1. /\ a \in Nat /\ a > 0 /\ n = 2 * job.reserve /\ job.reserve \in Nat
        /\ a + n + 1 <= Len(buf)
    BY JobFacts DEF IInv, TypeOK, Layout, ContentsPlace, Order, RangeType
  <2>2. buf \in Seq(ByteType) /\ DOMAIN buf = 1 .. Len(buf) /\ Len(buf) \in Nat
    BY DEF IInv, TypeOK
  <2>3. last[1] \in Nat /\ last[2] \in Nat
    BY DEF LastBytes
  <2>4. \A i \in 1 .. Len(buf) :
          /\ s[i] \in Kinds \X Nat
          /\ buf[i][1] \in {"<", ">"} => s[i] = <<buf[i][1], 0>>
          /\ buf[i][1] \in {"cms", "pad"} => V!IsHex(s[i])
    BY <2>2, <2>3 DEF Seen, IsCms, V!IsHex, ByteType, Tag
  <2>5. s \in Seq(Kinds \X Nat) /\ Len(s) = Len(buf)
    <3>1. DOMAIN s = 1 .. Len(buf) /\ s = [i \in DOMAIN s |-> s[i]]
      BY <2>2 DEF Seen
    <3> HIDE DEF s
    <3> QED BY <2>2, <2>4, <3>1
  <2>6. s[a] = <<"<", 0>> /\ s[a + n + 1] = <<">", 0>>
    <3>1. a \in 1 .. Len(buf) /\ a + n + 1 \in 1 .. Len(buf)
      BY <2>1, <2>2
    <3>2. buf[a] = <<"<", 0>> /\ buf[a + n + 1] = <<">", 0>>
      BY <2>1 DEF ContentsInv, Delimited, Byte
    <3> HIDE DEF s
    <3> QED BY <2>4, <3>1, <3>2
  <2>7. \A k \in 1 .. n : V!IsHex(s[a + k])
    <3>1. PICK len \in CmsLengths : \A i \in 1 .. n : buf[a + i][1] = IF i <= 2 * len THEN "cms" ELSE "pad"
      BY DEF ContentsInv, Filled
    <3>2. \A k \in 1 .. n : buf[a + k][1] \in {"cms", "pad"}
      BY <3>1
    <3>3. \A k \in 1 .. n : a + k \in 1 .. Len(buf)
      <4> HIDE DEF a, n
      <4> QED BY <2>1, <2>2
    <3> HIDE DEF s
    <3> QED BY <2>4, <3>2, <3>3
  <2>8. Extracted(last) = V!TrimPadding(V!BytesOf(V!Digits16(V!Slice(s, a, a + n))))
    BY DEF Extracted, ParsedContents
  <2>9. Compute(br, Len(buf)) = <<0, a - 1, a + n + 1, Len(s) - (a + n + 1)>>
    BY <2>5 DEF Compute
  <2> DEFINE contents == Extracted(last)
             m == job.reserve
             Chars == Kinds \X Nat
  <2>10. contents = V!TrimPadding(V!BytesOf(V!Digits16(V!Slice(s, a, a + n))))
    BY <2>8
  <2>11. m \in Nat /\ n = 2 * m /\ a \in Nat /\ a > 0 /\ a + n + 1 <= Len(s) /\ s \in Seq(Chars)
    BY <2>1, <2>5
  <2>12. PICK w \in 0 .. m : \A i \in 1 .. n : buf[a + i][1] = "cms" <=> i <= 2 * w
    <3>1. PICK len \in CmsLengths : \A i \in 1 .. n : buf[a + i][1] = IF i <= 2 * len THEN "cms" ELSE "pad"
      BY DEF ContentsInv, Filled
    <3>2. len \in Nat
      BY WriterAssumption
    <3> DEFINE w == IF len <= m THEN len ELSE m
    <3>3. \A i \in 1 .. n : buf[a + i][1] = "cms" <=> i <= 2 * len
      BY <3>1
    <3> HIDE DEF m, n, a
    <3>4. w \in 0 .. m /\ \A i \in 1 .. n : i <= 2 * len <=> i <= 2 * w
      BY <2>11, <3>2
    <3> HIDE DEF w
    <3> QED BY <3>3, <3>4
  <2>13. CmsDigits = 1 .. 2 * w
    <3>1. CmsDigits = {i \in 1 .. n : i <= 2 * w}
      BY <2>12 DEF CmsDigits
    <3> HIDE DEF m, n
    <3> QED BY <2>11, <2>12, <3>1
  <2>14. \A i \in 1 .. n :
           s[a + i][2] = IF i > 2 * w THEN 0 ELSE IF i = 2 * w THEN last[2]
                         ELSE IF i = 2 * w - 1 THEN last[1] ELSE 15
    <3>1. buf[a + n + 1][1] = ">"
      BY <2>1 DEF ContentsInv, Delimited, Byte
    <3>2. \A i \in 1 .. n : buf[a + i][1] \in {"cms", "pad"}
      BY DEF ContentsInv, Filled
    <3>3. \A i \in 1 .. n + 1 : a + i \in 1 .. Len(buf)
      <4> HIDE DEF a, n
      <4> QED BY <2>1, <2>2
    <3>4. \A i \in 1 .. n + 1 : IsCms(a + i) <=> i <= 2 * w
      <4>1. ASSUME NEW i \in 1 .. n + 1 PROVE IsCms(a + i) <=> buf[a + i][1] = "cms"
        <5>1. a + i \in DOMAIN buf
          BY <2>2, <3>3
        <5> QED BY <5>1 DEF IsCms
      <4> HIDE DEF a, n, m
      <4>2. w \in Nat /\ 2 * w <= n
        BY <2>11, <2>12
      <4>3. ASSUME NEW i \in 1 .. n + 1 PROVE buf[a + i][1] = "cms" <=> i <= 2 * w
        <5>1. CASE i \in 1 .. n
          BY <2>12, <5>1
        <5>2. CASE i = n + 1
          <6>1. a + i = a + n + 1
            BY <2>11, <5>2
          <6> QED BY <2>11, <3>1, <4>2, <5>2, <6>1
        <5> QED BY <2>11, <5>1, <5>2
      <4> QED BY <4>1, <4>3
    <3> SUFFICES ASSUME NEW i \in 1 .. n
                 PROVE  s[a + i][2] = IF i > 2 * w THEN 0 ELSE IF i = 2 * w THEN last[2]
                                      ELSE IF i = 2 * w - 1 THEN last[1] ELSE 15
      OBVIOUS
    <3>5. /\ i \in 1 .. n + 1 /\ i + 1 \in 1 .. n + 1 /\ a + i + 1 = a + (i + 1)
          /\ i + 1 <= n => i + 2 \in 1 .. n + 1 /\ a + i + 2 = a + (i + 2)
      <4> HIDE DEF a, n, m
      <4> QED BY <2>11
    <3>6. a + i \in DOMAIN buf
      BY <2>2, <3>3, <3>5
    <3> DEFINE high == IF ~IsCms(a + i + 2) THEN last[1] ELSE 15
               p == a + i
    <3>7. ~IsCms(p) => s[p] = <<"hex", 0>>
      <4>1. buf[p][1] \in {"cms", "pad"} /\ p \in DOMAIN buf
        BY <3>2, <3>6
      <4> HIDE DEF a, p
      <4> QED BY <4>1 DEF Seen, IsCms
    <3>8. IsCms(p) => s[p] = <<"hex", IF ~IsCms(p + 1) THEN last[2] ELSE
                                        IF ~IsCms(p + 2) THEN last[1] ELSE 15>>
      <4>1. p \in DOMAIN buf
        BY <3>6
      <4> HIDE DEF a, p
      <4>2. IsCms(p) => buf[p][1] = "cms"
        BY DEF IsCms
      <4>3. IsCms(p) => s[p] = <<"hex", CASE ~IsCms(p + 1) -> last[2]
                                          [] IsCms(p + 1) /\ ~IsCms(p + 2) -> last[1]
                                          [] OTHER -> 15>>
        BY <4>1, <4>2 DEF Seen
      <4> QED BY <4>3
    <3>9. /\ IsCms(p) <=> i <= 2 * w
          /\ IsCms(p + 1) <=> i + 1 <= 2 * w
          /\ i + 1 <= 2 * w => (IsCms(p + 2) <=> i + 2 <= 2 * w)
      <4>1. w \in Nat /\ 2 * w <= n
        <5> HIDE DEF n, m
        <5> QED BY <2>11, <2>12
      <4>2. p + 1 = a + (i + 1) /\ (i + 1 <= 2 * w => i + 1 <= n /\ p + 2 = a + (i + 2))
        <5> HIDE DEF a, n, m
        <5>1. a \in Nat /\ n \in Nat /\ i \in Nat
          BY <2>11
        <5> QED BY <4>1, <5>1
      <4> HIDE DEF a, n, m
      <4> QED BY <3>4, <3>5, <4>2
    <3>10. w \in Nat /\ i \in Nat
      BY <2>11, <2>12
    <3> HIDE DEF s, a, n, m
    <3>11. CASE i > 2 * w
      <4>1. s[p] = <<"hex", 0>>
        BY <3>7, <3>9, <3>10, <3>11
      <4> QED BY <3>11, <4>1
    <3>12. CASE i = 2 * w
      <4>1. IsCms(p) /\ ~IsCms(p + 1)
        BY <3>9, <3>10, <3>12
      <4>2. s[p] = <<"hex", last[2]>>
        BY <3>8, <4>1
      <4> QED BY <3>10, <3>12, <4>2
    <3>13. CASE i = 2 * w - 1
      <4>1. IsCms(p) /\ IsCms(p + 1) /\ ~IsCms(p + 2)
        BY <3>9, <3>10, <3>13
      <4>2. s[p] = <<"hex", last[1]>>
        BY <3>8, <4>1
      <4> QED BY <3>10, <3>13, <4>2
    <3>14. CASE i < 2 * w - 1
      <4>1. IsCms(p) /\ IsCms(p + 1) /\ IsCms(p + 2)
        BY <3>9, <3>10, <3>14
      <4>2. s[p] = <<"hex", 15>>
        BY <3>8, <4>1
      <4> QED BY <3>10, <3>14, <4>2
    <3> QED BY <3>10, <3>11, <3>12, <3>13, <3>14
  <2>15. last = <<last[1], last[2]>>
    BY DEF LastBytes
  <2> HIDE DEF s, a, n, contents, m, Chars
  <2>16. contents # <<>> =>
           V!IntegrityOk(s, <<0, a - 1, a + n + 1, Len(s) - (a + n + 1)>>, contents, TRUE)
    BY <2>6, <2>7, <2>10, <2>11, OwnGap
  <2>17. Len(contents) = IF w > 0 /\ last = V!Zero THEN w - 1 ELSE w
    <3> DEFINE hi == a + n
               inner == V!Slice(s, a, hi)
               digits == V!Digits16(inner)
               bytes == V!BytesOf(digits)
    <3>1. hi \in Nat /\ a <= hi /\ hi <= Len(s) /\ hi - a = n /\ n \in Nat
      BY <2>11
    <3> HIDE DEF hi
    <3>2. /\ inner \in Seq(Chars) /\ Len(inner) = n
          /\ \A k \in 1 .. n : inner[k] = s[a + k]
      <4>1. /\ V!Slice(s, a, hi) \in Seq(Chars) /\ Len(V!Slice(s, a, hi)) = hi - a
            /\ \A k \in 1 .. hi - a : V!Slice(s, a, hi)[k] = s[a + k]
        BY <2>11, <3>1, SliceFacts
      <4> QED BY <3>1, <4>1
    <3> HIDE DEF inner
    <3>3. Len(digits) = n /\ \A k \in 1 .. n : digits[k] = s[a + k][2]
      <4>1. \A k \in 1 .. Len(inner) : V!IsHex(inner[k])
        BY <2>7, <3>2
      <4> QED BY <3>2, <4>1, AllDigits
    <3> HIDE DEF digits
    <3>4. /\ DOMAIN bytes = 1 .. m /\ Len(bytes) = m
      <4>1. DOMAIN bytes = 1 .. Len(bytes) /\ Len(bytes) = (Len(digits) + 1) \div 2
        BY <3>1, <3>3, BytesOfSeq
      <4>2. (n + 1) \div 2 = m
        BY <2>11
      <4> QED BY <3>3, <4>1, <4>2
    <3>5. \A k \in 1 .. m : bytes[k] = <<digits[2 * k - 1], IF 2 * k <= n THEN digits[2 * k] ELSE 0>>
      <4>1. bytes = [k \in DOMAIN bytes |->
                       <<digits[2 * k - 1], IF 2 * k <= Len(digits) THEN digits[2 * k] ELSE 0>>]
        BY DEF V!BytesOf
      <4> HIDE DEF bytes
      <4> QED BY <3>3, <3>4, <4>1
    <3> HIDE DEF bytes
    <3>6. ASSUME NEW k \in 1 .. m
          PROVE  bytes[k] = IF k < w THEN <<15, 15>> ELSE IF k = w THEN last ELSE V!Zero
      <4>1. k \in Nat /\ w \in Nat /\ 2 * k \in 1 .. n /\ 2 * k - 1 \in 1 .. n
        BY <2>11, <2>12, <3>6
      <4>2. bytes[k] = <<s[a + (2 * k - 1)][2], s[a + (2 * k)][2]>>
        BY <3>3, <3>5, <4>1
      <4> DEFINE D(i) == IF i > 2 * w THEN 0 ELSE IF i = 2 * w THEN last[2]
                         ELSE IF i = 2 * w - 1 THEN last[1] ELSE 15
      <4>3. bytes[k] = <<D(2 * k - 1), D(2 * k)>>
        BY <2>14, <4>1, <4>2
      <4>4. CASE k < w
        <5>1. D(2 * k - 1) = 15 /\ D(2 * k) = 15
          BY <4>1, <4>4
        <5> QED BY <4>3, <4>4, <5>1
      <4>5. CASE k = w
        <5>1. D(2 * k - 1) = last[1] /\ D(2 * k) = last[2]
          BY <4>1, <4>5
        <5> HIDE DEF D
        <5> QED BY <2>15, <4>1, <4>3, <4>5, <5>1
      <4>6. CASE k > w
        <5>1. D(2 * k - 1) = 0 /\ D(2 * k) = 0
          BY <4>1, <4>6
        <5> HIDE DEF D
        <5> QED BY <4>1, <4>3, <4>6, <5>1 DEF V!Zero
      <4> QED BY <4>1, <4>4, <4>5, <4>6
    <3>7. bytes \in Seq(Range(bytes))
      <4>1. bytes = [k \in DOMAIN bytes |-> bytes[k]]
        BY DEF V!BytesOf, bytes
      <4> QED BY <2>11, <3>4, <4>1 DEF Range
    <3>8. w \in 0 .. Len(bytes)
      BY <2>12, <3>4
    <3>9. Len(V!TrimPadding(bytes)) = IF w > 0 /\ last = V!Zero THEN w - 1 ELSE w
      BY <3>4, <3>6, <3>7, <3>8, SignatureCut
    <3> QED BY <2>10, <3>9 DEF bytes, digits, inner, hi
  <2>18. CutFrom(last) = IF w > 0 /\ last = V!Zero THEN 1 ELSE 0
    <3>1. CmsDigits # {} <=> w > 0
      <4>1. w \in Nat
        BY <2>11, <2>12
      <4>2. w > 0 => 1 \in 1 .. 2 * w
        BY <4>1
      <4>3. w = 0 => 1 .. 2 * w = {}
        BY <4>1
      <4> QED BY <2>13, <4>1, <4>2, <4>3
    <3> QED BY <3>1 DEF CutFrom
  <2>19. CmsDigits = 1 .. 2 * (Len(contents) + CutFrom(last))
    <3>1. w \in Nat
      BY <2>11, <2>12
    <3>2. Len(contents) + CutFrom(last) = w
      BY <2>17, <2>18, <3>1
    <3> QED BY <2>13, <3>2
  <2> QED BY <2>9, <2>16, <2>19 DEF s, contents
<1> QED BY <1>1, ContentsAlways, Invariance, PTL

-----------------------------------------------------------------------------
(* The cross-reference section: sorting and grouping lose no entry. *)

Entry == Nat \X Nat

\* no two entries have the same number
Numbered(s) == \A i, j \in DOMAIN s : s[i][1] = s[j][1] => i = j

\* A nonempty set of positions has the greatest of them.
LEMMA MaxUpTo ==
  ASSUME NEW n \in Nat, NEW T \in SUBSET (1 .. n), T # {}
  PROVE  Max(T) \in T /\ \A x \in T : x <= Max(T)
  <1>1. PICK m \in T : \A x \in T : x <= m
    <2>1. T \subseteq Nat /\ \A x \in T : x <= n
      OBVIOUS
    <2> QED BY <2>1, GreatestElement
  <1>2. m \in T /\ \A y \in T : m >= y
    BY <1>1
  <1>3. Max(T) \in T /\ \A y \in T : Max(T) >= y
    BY <1>2 DEF Max
  <1>4. T \subseteq Int
    OBVIOUS
  <1> DEFINE top == Max(T)
  <1>5. top \in T /\ \A y \in T : top >= y
    BY <1>3
  <1> HIDE DEF top
  <1>6. \A y \in T : y <= top
    BY <1>4, <1>5
  <1> QED BY <1>5, <1>6 DEF top

\* it holds what the fold over the first n entries of s has come to
Folds(it, s, n) ==
  it = [T \in SUBSET (1 .. n) |-> IF T = {} THEN <<>> ELSE AddToRuns(it[T \ {Max(T)}], s[Max(T)])]

\* The recursion that a fold is defined by has a solution.
LEMMA FoldExists ==
  ASSUME NEW s, NEW n \in Nat
  PROVE  \E it : Folds(it, s, n)
  <1> DEFINE None == {k \in Nat : ~\E it : Folds(it, s, k)}
  <1>1. SUFFICES ASSUME None # {} PROVE FALSE
    OBVIOUS
  <1>2. PICK k \in None : \A l \in None : k <= l
    <2>1. None \subseteq Nat
      OBVIOUS
    <2> HIDE DEF None
    <2> QED BY <1>1, <2>1, LeastElement
  <1>3. CASE k = 0
    <2> DEFINE it == [T \in SUBSET (1 .. 0) |-> <<>>]
    <2>1. \A T \in SUBSET (1 .. 0) : T = {}
      OBVIOUS
    <2>2. Folds(it, s, 0)
      BY <2>1 DEF Folds
    <2> QED BY <1>2, <1>3, <2>2
  <1>4. CASE k # 0
    <2>1. k - 1 \in Nat /\ k - 1 \notin None
      BY <1>2, <1>4
    <2>2. PICK old : Folds(old, s, k - 1)
      BY <2>1
    <2> DEFINE it == [T \in SUBSET (1 .. k) |->
                        IF k \in T THEN AddToRuns(old[T \ {k}], s[k]) ELSE old[T]]
    <2>3. ASSUME NEW T \in SUBSET (1 .. k), T # {}
          PROVE  it[T] = AddToRuns(it[T \ {Max(T)}], s[Max(T)])
      <3>1. Max(T) \in T /\ (\A x \in T : x <= Max(T)) /\ k \in Nat
        BY <1>2, <2>3, MaxUpTo
      <3>2. T \ {Max(T)} \in SUBSET (1 .. k)
        OBVIOUS
      <3>3. CASE k \in T
        <4>1. Max(T) \in 1 .. k /\ k <= Max(T)
          BY <3>1, <3>3
        <4>2. Max(T) = k /\ k \notin T \ {k}
          BY <3>1, <4>1
        <4> QED BY <3>2, <3>3, <4>2
      <3>4. CASE k \notin T
        <4>1. T \in SUBSET (1 .. k - 1)
          BY <1>2, <2>1, <3>4
        <4>2. old[T] = AddToRuns(old[T \ {Max(T)}], s[Max(T)])
          BY <2>2, <2>3, <4>1 DEF Folds
        <4> QED BY <3>2, <3>4, <4>2
      <3> QED BY <3>3, <3>4
    <2>4. it[{}] = <<>>
      <3>1. {} \in SUBSET (1 .. k) /\ {} \in SUBSET (1 .. k - 1) /\ k \notin {}
        OBVIOUS
      <3> QED BY <2>2, <3>1 DEF Folds
    <2>5. it = [T \in SUBSET (1 .. k) |-> it[T]]
      OBVIOUS
    <2>6. Folds(it, s, k)
      <3> HIDE DEF it
      <3> QED BY <2>3, <2>4, <2>5 DEF Folds
    <2> QED BY <1>2, <2>6
  <1> QED BY <1>3, <1>4

\* GroupSubsections runs through the entries one after the other.
LEMMA GroupingSteps ==
  ASSUME NEW s \in Seq(Entry)
  PROVE  \E it : /\ GroupSubsections(s) = it[1 .. Len(s)] /\ it[1 .. 0] = <<>>
                 /\ \A k \in 1 .. Len(s) : it[1 .. k] = AddToRuns(it[1 .. k - 1], s[k])
  <1> DEFINE it == CHOOSE iter : iter = [T \in SUBSET DOMAIN s |->
                       IF T = {} THEN <<>> ELSE AddToRuns(iter[T \ {Max(T)}], s[Max(T)])]
  <1>1. GroupSubsections(s) = it[DOMAIN s]
    BY DEF GroupSubsections, FoldLeft, MapThenFoldSet
  <1>2. DOMAIN s = 1 .. Len(s) /\ Len(s) \in Nat
    OBVIOUS
  <1>3. \E i : i = [T \in SUBSET DOMAIN s |->
                      IF T = {} THEN <<>> ELSE AddToRuns(i[T \ {Max(T)}], s[Max(T)])]
    <2>1. \E i : Folds(i, s, Len(s))
      BY <1>2, FoldExists
    <2> QED BY <1>2, <2>1 DEF Folds
  <1>4. it = [T \in SUBSET DOMAIN s |->
                IF T = {} THEN <<>> ELSE AddToRuns(it[T \ {Max(T)}], s[Max(T)])]
    BY <1>3
  <1> HIDE DEF it
  <1>5. it[1 .. 0] = <<>>
    <2>1. 1 .. 0 = {}
      OBVIOUS
    <2> QED BY <1>4, <2>1
  <1>6. ASSUME NEW k \in 1 .. Len(s)
        PROVE  it[1 .. k] = AddToRuns(it[1 .. k - 1], s[k])
    <2>1. 1 .. k \in SUBSET DOMAIN s /\ 1 .. k # {} /\ 1 .. k \in SUBSET (1 .. k) /\ k \in Nat
      BY <1>2
    <2>2. Max(1 .. k) \in 1 .. k /\ \A x \in 1 .. k : x <= Max(1 .. k)
      BY <2>1, MaxUpTo
    <2>3. Max(1 .. k) = k
      BY <2>1, <2>2
    <2>4. (1 .. k) \ {k} = 1 .. k - 1
      BY <2>1
    <2> QED BY <1>4, <2>1, <2>3, <2>4
  <1> QED BY <1>1, <1>2, <1>5, <1>6

Run == [start : Nat, run : Seq(Entry)]

\* the runs list the entries of all, each under its own number
Lists(runs, all) ==
  /\ runs \in Seq(Run)
  /\ \A i \in DOMAIN runs : \A k \in DOMAIN runs[i].run :
       runs[i].run[k] \in all /\ runs[i].run[k][1] = runs[i].start + k - 1
  /\ \A e \in all : \E i \in DOMAIN runs : \E k \in DOMAIN runs[i].run : e = runs[i].run[k]

\* what a reader finds in a section
Listed(runs) == UNION {{<<r.start + k - 1, r.run[k][2]>> : k \in DOMAIN r.run} : r \in Range(runs)}

\* A reader finds what the runs list.
LEMMA ListedEntries ==
  ASSUME NEW runs, NEW all \in SUBSET Entry, Lists(runs, all)
  PROVE  Listed(runs) = all
  <1>1. \A i \in DOMAIN runs : \A k \in DOMAIN runs[i].run :
          /\ runs[i].run[k] \in all
          /\ <<runs[i].start + k - 1, runs[i].run[k][2]>> = runs[i].run[k]
    <2> TAKE i \in DOMAIN runs
    <2> TAKE k \in DOMAIN runs[i].run
    <2> DEFINE e == runs[i].run[k]
    <2>1. e \in all /\ e[1] = runs[i].start + k - 1
      BY DEF Lists
    <2>2. e = <<e[1], e[2]>>
      BY <2>1 DEF Entry
    <2> QED BY <2>1, <2>2
  <1>2. ASSUME NEW x \in Listed(runs)
        PROVE  x \in all
    <2>1. PICK r \in Range(runs) : x \in {<<r.start + k - 1, r.run[k][2]>> : k \in DOMAIN r.run}
      BY <1>2 DEF Listed
    <2>2. PICK i \in DOMAIN runs : r = runs[i]
      BY <2>1 DEF Range
    <2>3. PICK k \in DOMAIN r.run : x = <<r.start + k - 1, r.run[k][2]>>
      BY <2>1
    <2> QED BY <1>1, <2>2, <2>3
  <1>3. ASSUME NEW e \in all
        PROVE  e \in Listed(runs)
    <2>1. PICK i \in DOMAIN runs : \E k \in DOMAIN runs[i].run : e = runs[i].run[k]
      BY <1>3 DEF Lists
    <2>2. PICK k \in DOMAIN runs[i].run : e = runs[i].run[k]
      BY <2>1
    <2> DEFINE r == runs[i]
    <2>3. r \in Range(runs) /\ k \in DOMAIN r.run /\ e = <<r.start + k - 1, r.run[k][2]>>
      BY <1>1, <2>2 DEF Range
    <2> HIDE DEF r
    <2> QED BY <2>3 DEF Listed
  <1> QED BY <1>2, <1>3

\* Another entry is listed with those before it.
LEMMA AddLists ==
  ASSUME NEW runs, NEW all \in SUBSET Entry, Lists(runs, all), NEW e \in Entry
  PROVE  Lists(AddToRuns(runs, e), all \cup {e})
  <1> DEFINE n == Len(runs)
             new == AddToRuns(runs, e)
  <1>1. runs \in Seq(Run) /\ n \in Nat /\ DOMAIN runs = 1 .. n
    BY DEF Lists
  <1>2. \A i \in 1 .. n : /\ runs[i].start \in Nat /\ runs[i].run \in Seq(Entry)
                          /\ Len(runs[i].run) \in Nat /\ DOMAIN runs[i].run = 1 .. Len(runs[i].run)
    <2> TAKE i \in 1 .. n
    <2>1. runs[i] \in Run
      BY <1>1
    <2> HIDE DEF n
    <2>2. runs[i].start \in Nat /\ runs[i].run \in Seq(Entry)
      BY <2>1 DEF Run
    <2> QED BY <2>2
  <1>3. CASE runs # <<>> /\ Last(runs).start + Len(Last(runs).run) = e[1]
    <2> DEFINE old == runs[n]
               m == Len(old.run)
               r == [old EXCEPT !.run = Append(old.run, e)]
    <2>1. n \in 1 .. n /\ Last(runs) = old
      BY <1>1, <1>3 DEF Last
    <2>2. new = [runs EXCEPT ![n] = r]
      BY <1>3 DEF AddToRuns
    <2>3. /\ old.start \in Nat /\ old.run \in Seq(Entry) /\ m \in Nat /\ old \in Run
          /\ old.start + m = e[1] /\ DOMAIN old.run = 1 .. m
      BY <1>1, <1>2, <1>3, <2>1
    <2>4. /\ r.start = old.start /\ r.run = Append(old.run, e) /\ r \in Run
      <3> HIDE DEF old
      <3>1. r = [start |-> old.start, run |-> Append(old.run, e)]
        BY <2>3 DEF Run
      <3>2. Append(old.run, e) \in Seq(Entry)
        BY <2>3
      <3> QED BY <2>3, <3>1, <3>2 DEF Run
    <2>5. /\ DOMAIN r.run = 1 .. m + 1 /\ r.run[m + 1] = e
          /\ \A k \in 1 .. m : r.run[k] = old.run[k]
      BY <2>3, <2>4
    <2> HIDE DEF r, old, m
    <2>6. /\ new \in Seq(Run) /\ DOMAIN new = 1 .. n /\ new[n] = r
          /\ \A i \in 1 .. n : i # n => new[i] = runs[i]
      BY <1>1, <2>1, <2>2, <2>4
    <2> HIDE DEF new, n
    <2>7. \A k \in 1 .. m + 1 : k \in 1 .. m \/ k = m + 1
      BY <2>3
    <2>8. ASSUME NEW i \in DOMAIN new, NEW k \in DOMAIN new[i].run
          PROVE  new[i].run[k] \in all \cup {e} /\ new[i].run[k][1] = new[i].start + k - 1
      <3>1. CASE i # n
        BY <1>1, <2>6, <2>8, <3>1 DEF Lists
      <3>2. CASE i = n /\ k \in 1 .. m
        <4>1. new[i].run[k] = runs[n].run[k] /\ k \in DOMAIN runs[n].run /\ new[i].start = runs[n].start
          BY <2>3, <2>4, <2>5, <2>6, <3>2 DEF old
        <4> QED BY <1>1, <2>1, <4>1 DEF Lists
      <3>3. CASE i = n /\ k = m + 1
        BY <2>3, <2>4, <2>5, <2>6, <3>3
      <3> QED BY <2>5, <2>6, <2>7, <2>8, <3>1, <3>2, <3>3
    <2>9. ASSUME NEW x \in all \cup {e}
          PROVE  \E i \in DOMAIN new : \E k \in DOMAIN new[i].run : x = new[i].run[k]
      <3>1. CASE x = e
        <4>1. n \in DOMAIN new /\ m + 1 \in DOMAIN new[n].run /\ x = new[n].run[m + 1]
          BY <2>1, <2>3, <2>5, <2>6, <3>1
        <4> QED BY <4>1
      <3>2. CASE x \in all
        <4>1. PICK i \in 1 .. n : \E k \in DOMAIN runs[i].run : x = runs[i].run[k]
          BY <1>1, <3>2 DEF Lists
        <4>2. PICK k \in DOMAIN runs[i].run : x = runs[i].run[k]
          BY <4>1
        <4>3. k \in DOMAIN new[i].run /\ x = new[i].run[k]
          <5>1. CASE i # n
            BY <2>6, <4>2, <5>1
          <5>2. CASE i = n
            <6>1. k \in 1 .. m /\ x = old.run[k]
              BY <2>3, <4>2, <5>2 DEF old
            <6>2. k \in 1 .. m + 1
              BY <2>3, <6>1
            <6> QED BY <2>5, <2>6, <5>2, <6>1, <6>2
          <5> QED BY <5>1, <5>2
        <4> QED BY <2>6, <4>3
      <3> QED BY <3>1, <3>2
    <2> QED BY <2>6, <2>8, <2>9 DEF Lists, new
  <1>4. CASE ~(runs # <<>> /\ Last(runs).start + Len(Last(runs).run) = e[1])
    <2> DEFINE r == [start |-> e[1], run |-> <<e>>]
    <2>1. new = Append(runs, r)
      BY <1>4 DEF AddToRuns
    <2>2. r \in Run /\ r.start = e[1] /\ DOMAIN r.run = 1 .. 1 /\ r.run[1] = e /\ e[1] \in Nat
      BY DEF Run, Entry
    <2> HIDE DEF r
    <2>3. /\ new \in Seq(Run) /\ DOMAIN new = 1 .. n + 1 /\ new[n + 1] = r
          /\ \A i \in 1 .. n : new[i] = runs[i]
      BY <1>1, <2>1, <2>2
    <2> HIDE DEF new, n
    <2>4. \A i \in 1 .. n + 1 : i \in 1 .. n \/ i = n + 1
      BY <1>1
    <2>5. ASSUME NEW i \in DOMAIN new, NEW k \in DOMAIN new[i].run
          PROVE  new[i].run[k] \in all \cup {e} /\ new[i].run[k][1] = new[i].start + k - 1
      <3>1. CASE i \in 1 .. n
        BY <1>1, <2>3, <2>5, <3>1 DEF Lists
      <3>2. CASE i = n + 1
        <4>1. new[i] = r /\ k = 1
          BY <2>2, <2>3, <2>5, <3>2
        <4> QED BY <2>2, <4>1
      <3> QED BY <2>3, <2>4, <3>1, <3>2
    <2>6. ASSUME NEW x \in all \cup {e}
          PROVE  \E i \in DOMAIN new : \E k \in DOMAIN new[i].run : x = new[i].run[k]
      <3>1. CASE x = e
        <4>1. n + 1 \in DOMAIN new /\ 1 \in DOMAIN new[n + 1].run /\ x = new[n + 1].run[1]
          BY <1>1, <2>2, <2>3, <3>1
        <4> QED BY <4>1
      <3>2. CASE x \in all
        <4>1. PICK i \in 1 .. n : \E k \in DOMAIN runs[i].run : x = runs[i].run[k]
          BY <1>1, <3>2 DEF Lists
        <4>2. i \in DOMAIN new /\ new[i] = runs[i]
          BY <1>1, <2>3
        <4> QED BY <4>1, <4>2
      <3> QED BY <3>1, <3>2
    <2> QED BY <2>3, <2>5, <2>6 DEF Lists, new
  <1> QED BY <1>3, <1>4

\* Grouping loses no entry and puts none under another's number.
LEMMA GroupLists ==
  ASSUME NEW s \in Seq(Entry)
  PROVE  Lists(GroupSubsections(s), ToSet(s))
  <1> DEFINE First(k) == {s[i] : i \in 1 .. k}
  <1>1. DOMAIN s = 1 .. Len(s) /\ Len(s) \in Nat /\ \A i \in 1 .. Len(s) : s[i] \in Entry
    OBVIOUS
  <1>2. PICK it : /\ GroupSubsections(s) = it[1 .. Len(s)] /\ it[1 .. 0] = <<>>
                  /\ \A k \in 1 .. Len(s) : it[1 .. k] = AddToRuns(it[1 .. k - 1], s[k])
    BY GroupingSteps
  <1> DEFINE Good(k) == Lists(it[1 .. k], First(k))
             Bad == {k \in 0 .. Len(s) : ~Good(k)}
  <1>3. SUFFICES Bad = {}
    <2>1. Len(s) \in 0 .. Len(s) /\ ToSet(s) = First(Len(s))
      BY <1>1 DEF ToSet
    <2> QED BY <1>2, <1>3, <2>1
  <1>4. Good(0)
    <2>1. First(0) = {}
      OBVIOUS
    <2>2. it[1 .. 0] = <<>> /\ <<>> \in Seq(Run) /\ DOMAIN <<>> = {}
      BY <1>2
    <2> HIDE DEF First
    <2> QED BY <2>1, <2>2 DEF Lists
  <1>5. ASSUME NEW k \in 1 .. Len(s), Good(k - 1)
        PROVE  Good(k)
    <2>1. First(k) = First(k - 1) \cup {s[k]}
      <3>1. \A i \in 1 .. k : i \in 1 .. k - 1 \/ i = k
        BY <1>1
      <3>2. k \in 1 .. k /\ \A i \in 1 .. k - 1 : i \in 1 .. k
        BY <1>1
      <3> QED BY <3>1, <3>2
    <2>2. s[k] \in Entry /\ First(k - 1) \in SUBSET Entry
      <3>1. \A i \in 1 .. k - 1 : i \in 1 .. Len(s)
        BY <1>1
      <3> QED BY <1>1, <3>1
    <2> DEFINE all == First(k - 1)
               runs == it[1 .. k - 1]
               e == s[k]
    <2>3. Lists(runs, all) /\ all \in SUBSET Entry /\ e \in Entry
      BY <1>5, <2>2
    <2>4. it[1 .. k] = AddToRuns(runs, e) /\ First(k) = all \cup {e}
      BY <1>2, <2>1
    <2> HIDE DEF all, runs, e
    <2>5. Lists(AddToRuns(runs, e), all \cup {e})
      BY <2>3, AddLists
    <2> QED BY <2>4, <2>5
  <1>6. ASSUME Bad # {} PROVE FALSE
    <2>1. PICK k \in Bad : \A l \in Bad : k <= l
      <3>1. Bad \subseteq Nat
        BY <1>1
      <3> HIDE DEF Bad
      <3> QED BY <1>6, <3>1, LeastElement
    <2> HIDE DEF Good
    <2>2. k \in 1 .. Len(s) /\ k - 1 \in 0 .. Len(s) /\ k - 1 \notin Bad
      BY <1>1, <1>4, <2>1
    <2> QED BY <1>5, <2>1, <2>2
  <1> QED BY <1>6

\* Entries with numbers of their own are as many as their sequence is long.
LEMMA EntriesCounted ==
  ASSUME NEW s \in Seq(Entry), Numbered(s)
  PROVE  IsFiniteSet(ToSet(s)) /\ Cardinality(ToSet(s)) = Len(s)
  <1>1. DOMAIN s = 1 .. Len(s) /\ Len(s) \in Nat
    OBVIOUS
  <1>2. s \in Bijection(1 .. Len(s), ToSet(s))
    <2>1. s \in [1 .. Len(s) -> ToSet(s)]
      BY <1>1 DEF ToSet
    <2>2. \A a, b \in 1 .. Len(s) : s[a] = s[b] => a = b
      BY <1>1 DEF Numbered
    <2>3. \A t \in ToSet(s) : \E i \in 1 .. Len(s) : s[i] = t
      BY <1>1 DEF ToSet
    <2>4. s \in Injection(1 .. Len(s), ToSet(s))
      BY <2>1, <2>2 DEF Injection, IsInjective
    <2>5. s \in Surjection(1 .. Len(s), ToSet(s))
      BY <2>1, <2>3 DEF Surjection
    <2> QED BY <2>4, <2>5 DEF Bijection
  <1>3. ExistsBijection(1 .. Len(s), ToSet(s))
    BY <1>2 DEF ExistsBijection
  <1>4. IsFiniteSet(1 .. Len(s)) /\ Cardinality(1 .. Len(s)) = Len(s)
    BY <1>1, FS_Interval
  <1> QED BY <1>3, <1>4, FS_Bijection

\* An entry's rank: how many have a smaller number.  Every rank is someone's.
LEMMA Ranks ==
  ASSUME NEW s \in Seq(Entry), Numbered(s)
  PROVE  LET Rank(e) == Cardinality(Below(e, ToSet(s)))
         IN  /\ \A e \in ToSet(s) : Rank(e) \in 0 .. Len(s) - 1
             /\ \A e, f \in ToSet(s) : Rank(e) = Rank(f) => e = f
             /\ \A k \in 1 .. Len(s) : \E e \in ToSet(s) : Rank(e) = k - 1
  <1> DEFINE E == ToSet(s)
             Rank(e) == Cardinality(Below(e, E))
             n == Len(s)
  <1>1. IsFiniteSet(E) /\ Cardinality(E) = n /\ n \in Nat
    BY EntriesCounted
  <1>2. /\ \A e \in E : e[1] \in Nat
        /\ \A e, f \in E : e[1] = f[1] => e = f
    <2>1. \A i \in DOMAIN s : s[i] \in Entry
      OBVIOUS
    <2>2. \A e \in E : \E i \in DOMAIN s : e = s[i]
      BY DEF ToSet
    <2>3. \A e \in E : e[1] \in Nat
      BY <2>1, <2>2 DEF Entry
    <2> HIDE DEF E
    <2> QED BY <2>2, <2>3 DEF Numbered
  <1> HIDE DEF E, n
  <1>3. ASSUME NEW e \in E
        PROVE  /\ IsFiniteSet(Below(e, E)) /\ Rank(e) \in Nat /\ e \notin Below(e, E)
               /\ Cardinality(Below(e, E) \cup {e}) = Rank(e) + 1
    <2>1. Below(e, E) \in SUBSET E /\ e \notin Below(e, E)
      BY <1>2 DEF Below
    <2>2. IsFiniteSet(Below(e, E))
      BY <1>1, <2>1, FS_Subset
    <2> QED BY <2>1, <2>2, FS_CardinalityType, FS_AddElement
  <1>4. ASSUME NEW e \in E
        PROVE  Rank(e) \in 0 .. n - 1
    <2>1. Below(e, E) \cup {e} \in SUBSET E
      BY DEF Below
    <2>2. Cardinality(Below(e, E) \cup {e}) <= n
      BY <1>1, <2>1, FS_Subset
    <2>3. Rank(e) \in Nat /\ Rank(e) + 1 <= n
      BY <1>3, <2>2
    <2> HIDE DEF Rank
    <2> QED BY <1>1, <2>3
  <1>5. ASSUME NEW e \in E, NEW f \in E, e[1] < f[1]
        PROVE  Rank(e) # Rank(f)
    <2>1. Below(e, E) \cup {e} \in SUBSET Below(f, E)
      BY <1>2, <1>5 DEF Below
    <2>2. Cardinality(Below(e, E) \cup {e}) <= Cardinality(Below(f, E))
      BY <1>3, <2>1, FS_Subset
    <2>3. Rank(e) \in Nat /\ Rank(f) \in Nat /\ Rank(e) + 1 <= Rank(f)
      BY <1>3, <2>2
    <2> HIDE DEF Rank
    <2> QED BY <2>3
  <1>6. ASSUME NEW e \in E, NEW f \in E, Rank(e) = Rank(f)
        PROVE  e = f
    <2>1. ~(e[1] < f[1]) /\ ~(f[1] < e[1])
      BY <1>5, <1>6
    <2> HIDE DEF Rank
    <2> QED BY <1>2, <2>1
  <1> DEFINE rank == [e \in E |-> Rank(e)]
  <1>7. rank \in Injection(E, 0 .. n - 1)
    <2> HIDE DEF Rank
    <2>1. rank \in [E -> 0 .. n - 1]
      BY <1>4
    <2>2. \A e, f \in E : rank[e] = rank[f] => e = f
      BY <1>6
    <2> HIDE DEF rank
    <2> QED BY <2>1, <2>2 DEF Injection, IsInjective
  <1>8. IsFiniteSet(0 .. n - 1) /\ Cardinality(0 .. n - 1) = n
    <2> DEFINE lo == 0
               hi == n - 1
    <2>1. lo \in Int /\ hi \in Int /\ n = IF lo > hi THEN 0 ELSE hi - lo + 1
      BY <1>1
    <2> HIDE DEF lo, hi
    <2>2. IsFiniteSet(lo .. hi) /\ Cardinality(lo .. hi) = n
      BY <2>1, FS_Interval
    <2> QED BY <2>2 DEF lo, hi
  <1>9. rank \in Surjection(E, 0 .. n - 1)
    <2> HIDE DEF rank
    <2> QED BY <1>1, <1>7, <1>8, FS_Injection
  <1>10. \A k \in 0 .. n - 1 : \E e \in E : Rank(e) = k
    BY <1>9 DEF Surjection
  <1>11. \A k \in 1 .. n : \E e \in E : Rank(e) = k - 1
    <2> HIDE DEF Rank
    <2>1. \A k \in 1 .. n : k - 1 \in 0 .. n - 1
      BY <1>1
    <2> QED BY <1>10, <2>1
  <1> QED BY <1>4, <1>6, <1>11 DEF E, n

\* Sorting loses no entry.
LEMMA SortedEntries ==
  ASSUME NEW s \in Seq(Entry), Numbered(s)
  PROVE  ByNumber(s) \in Seq(Entry) /\ ToSet(ByNumber(s)) = ToSet(s)
  <1> DEFINE E == ToSet(s)
             Rank(e) == Cardinality(Below(e, E))
             n == Len(s)
             t == ByNumber(s)
  <1>1. /\ \A e \in E : Rank(e) \in 0 .. n - 1
        /\ \A e, f \in E : Rank(e) = Rank(f) => e = f
        /\ \A k \in 1 .. n : \E e \in E : Rank(e) = k - 1
    BY Ranks
  <1>2. n \in Nat /\ DOMAIN s = 1 .. n /\ E \subseteq Entry
    BY DEF ToSet
  <1>3. t = [k \in 1 .. n |-> CHOOSE e \in E : Rank(e) = k - 1]
    BY <1>2 DEF ByNumber
  <1> HIDE DEF E, n, t, Rank
  <1>4. \A k \in 1 .. n : t[k] \in E /\ Rank(t[k]) = k - 1
    BY <1>1, <1>3
  <1>5. t \in Seq(Entry) /\ DOMAIN t = 1 .. n
    <2>1. \A k \in 1 .. n : t[k] \in Entry
      BY <1>2, <1>4
    <2>2. t = [k \in 1 .. n |-> t[k]]
      BY <1>3
    <2> QED BY <1>2, <2>1, <2>2
  <1>6. ToSet(t) \subseteq E
    BY <1>4, <1>5 DEF ToSet
  <1>7. ASSUME NEW e \in E
        PROVE  e \in ToSet(t)
    <2>1. Rank(e) + 1 \in 1 .. n /\ (Rank(e) + 1) - 1 = Rank(e)
      BY <1>1, <1>2
    <2>2. t[Rank(e) + 1] = e
      BY <1>1, <1>4, <2>1
    <2> QED BY <1>5, <2>1, <2>2 DEF ToSet
  <1> QED BY <1>5, <1>6, <1>7 DEF E, t

\* A section's runs list the entries it was made of.
LEMMA SectionLists ==
  ASSUME NEW s \in Seq(Entry), Numbered(s)
  PROVE  /\ GroupSubsections(ByNumber(s)) \in Seq(Run)
         /\ Listed(GroupSubsections(ByNumber(s))) = ToSet(s)
  <1> DEFINE t == ByNumber(s)
  <1>1. t \in Seq(Entry) /\ ToSet(t) = ToSet(s)
    BY SortedEntries
  <1>2. ToSet(s) \in SUBSET Entry
    BY DEF ToSet
  <1> DEFINE runs == GroupSubsections(t)
             all == ToSet(s)
  <1>3. Lists(runs, all)
    <2> HIDE DEF t
    <2> QED BY <1>1, GroupLists
  <1> HIDE DEF runs, all
  <1>4. Listed(runs) = all
    BY <1>2, <1>3, ListedEntries DEF all
  <1> QED BY <1>3, <1>4 DEF Lists, runs, all

-----------------------------------------------------------------------------
(* The cross-reference section lists the objects that were written. *)

\* number and offset of each "n g obj"
ObjectsIn(b) == {<<b[i][2], i - 1>> : i \in {k \in DOMAIN b : b[k][1] = "obj"}}

NoObject(s) == \A i \in DOMAIN s : s[i][1] # "obj"

\* Bytes that start no object add none.
LEMMA ObjectsStay ==
  ASSUME NEW b \in Seq(ByteType), NEW s \in Seq(ByteType), NoObject(s)
  PROVE  ObjectsIn(b \o s) = ObjectsIn(b)
  <1> DEFINE c == b \o s
  <1>1. /\ Len(b) \in Nat /\ Len(s) \in Nat /\ DOMAIN b = 1 .. Len(b) /\ DOMAIN s = 1 .. Len(s)
        /\ DOMAIN c = 1 .. Len(b) + Len(s)
        /\ \A i \in 1 .. Len(b) + Len(s) : c[i] = IF i <= Len(b) THEN b[i] ELSE s[i - Len(b)]
    BY ConcatProperties
  <1> HIDE DEF c
  <1>2. \A i \in DOMAIN c : c[i][1] = "obj" => i \in DOMAIN b /\ c[i] = b[i]
    <2> TAKE i \in DOMAIN c
    <2>1. CASE i <= Len(b)
      BY <1>1, <2>1
    <2>2. CASE ~(i <= Len(b))
      <3>1. i - Len(b) \in DOMAIN s /\ c[i] = s[i - Len(b)]
        BY <1>1, <2>2
      <3> QED BY <3>1 DEF NoObject
    <2> QED BY <2>1, <2>2
  <1>3. \A i \in DOMAIN b : i \in DOMAIN c /\ c[i] = b[i]
    BY <1>1
  <1> QED BY <1>2, <1>3 DEF ObjectsIn, c

\* An object starts where the buffer ended.
LEMMA ObjectsAppend ==
  ASSUME NEW b \in Seq(ByteType), NEW n \in Nat
  PROVE  ObjectsIn(Append(b, <<"obj", n>>)) = ObjectsIn(b) \cup {<<n, Len(b)>>}
  <1> DEFINE c == Append(b, <<"obj", n>>)
  <1>1. /\ Len(b) \in Nat /\ DOMAIN b = 1 .. Len(b) /\ DOMAIN c = 1 .. Len(b) + 1
        /\ c[Len(b) + 1] = <<"obj", n>> /\ \A i \in 1 .. Len(b) : c[i] = b[i]
    OBVIOUS
  <1> HIDE DEF c
  <1>2. \A i \in DOMAIN c : i \in DOMAIN b \/ i = Len(b) + 1
    BY <1>1
  <1>3. c[Len(b) + 1][1] = "obj" /\ c[Len(b) + 1][2] = n /\ (Len(b) + 1) - 1 = Len(b)
    BY <1>1
  <1>4. \A i \in DOMAIN b : i \in DOMAIN c /\ c[i] = b[i]
    BY <1>1
  <1>5. Len(b) + 1 \in DOMAIN c
    BY <1>1
  <1>6. ASSUME NEW x \in ObjectsIn(c)
        PROVE  x \in ObjectsIn(b) \cup {<<n, Len(b)>>}
    <2>1. PICK i \in {k \in DOMAIN c : c[k][1] = "obj"} : x = <<c[i][2], i - 1>>
      BY <1>6 DEF ObjectsIn
    <2> QED BY <1>2, <1>3, <1>4, <2>1 DEF ObjectsIn
  <1>7. ASSUME NEW x \in ObjectsIn(b)
        PROVE  x \in ObjectsIn(c)
    <2>1. PICK i \in {k \in DOMAIN b : b[k][1] = "obj"} : x = <<b[i][2], i - 1>>
      BY <1>7 DEF ObjectsIn
    <2>2. i \in {k \in DOMAIN c : c[k][1] = "obj"} /\ x = <<c[i][2], i - 1>>
      BY <1>4, <2>1
    <2> QED BY <2>2 DEF ObjectsIn
  <1>8. <<n, Len(b)>> \in ObjectsIn(c)
    BY <1>3, <1>5 DEF ObjectsIn
  <1> QED BY <1>6, <1>7, <1>8 DEF c

\* Overwriting bytes that start no object by others leaves the objects alone.
LEMMA ObjectsKept ==
  ASSUME NEW b \in Seq(ByteType), NEW off \in Int, NEW tag \in Tag, tag # "obj", NEW n \in Int,
         \A i \in 1 .. Len(b) : off < i /\ i <= off + n => b[i][1] # "obj"
  PROVE  ObjectsIn(Overwrite(b, off, tag, n)) = ObjectsIn(b)
  <1> DEFINE c == Overwrite(b, off, tag, n)
  <1>1. /\ c \in Seq(ByteType) /\ Len(c) = Len(b)
        /\ \A i \in 1 .. Len(b) : c[i] = IF off < i /\ i <= off + n THEN <<tag, 0>> ELSE b[i]
    BY OverwriteSeq
  <1>2. DOMAIN c = 1 .. Len(b) /\ DOMAIN b = 1 .. Len(b)
    BY <1>1
  <1> HIDE DEF c
  <1>3. \A i \in 1 .. Len(b) : /\ c[i][1] = "obj" => b[i][1] = "obj" /\ c[i] = b[i]
                               /\ b[i][1] = "obj" => c[i] = b[i]
    BY <1>1
  <1> QED BY <1>2, <1>3 DEF ObjectsIn, c

\* Pieces without an object make a piece without one.
LEMMA NoObjectParts ==
  ASSUME NEW s \in Seq(ByteType), NEW t \in Seq(ByteType), NoObject(s), NoObject(t)
  PROVE  NoObject(s \o t)
  <1> DEFINE c == s \o t
  <1>1. /\ Len(s) \in Nat /\ Len(t) \in Nat /\ DOMAIN s = 1 .. Len(s) /\ DOMAIN t = 1 .. Len(t)
        /\ DOMAIN c = 1 .. Len(s) + Len(t)
        /\ \A i \in 1 .. Len(s) + Len(t) : c[i] = IF i <= Len(s) THEN s[i] ELSE t[i - Len(s)]
    BY ConcatProperties
  <1> HIDE DEF c
  <1>2. ASSUME NEW i \in DOMAIN c PROVE c[i][1] # "obj"
    <2>1. CASE i <= Len(s)
      BY <1>1, <2>1 DEF NoObject
    <2>2. CASE ~(i <= Len(s))
      <3>1. i - Len(s) \in DOMAIN t /\ c[i] = t[i - Len(s)]
        BY <1>1, <2>2
      <3> QED BY <3>1 DEF NoObject
    <2> QED BY <2>1, <2>2
  <1> QED BY <1>2 DEF NoObject, c

\* Bytes of one other kind.
LEMMA NoObjectBytes ==
  ASSUME NEW tag \in Tag, tag # "obj", NEW n \in Nat
  PROVE  /\ Bytes(tag, n) \in Seq(ByteType) /\ NoObject(Bytes(tag, n))
         /\ Byte(tag) \in ByteType /\ <<Byte(tag)>> \in Seq(ByteType) /\ NoObject(<<Byte(tag)>>)
  BY BytesSeq, TagFacts DEF NoObject, Byte

\* A cross-reference section starts no object.
LEMMA NoObjectSection ==
  ASSUME NEW n \in Nat
  PROVE  SectionBytes(n) \in Seq(ByteType) /\ NoObject(SectionBytes(n))
  <1>1. "xref" \in Tag /\ "eof" \in Tag /\ "xref" # "obj" /\ "eof" # "obj"
    BY DEF Tag
  <1> QED BY <1>1, NoObjectBytes, NoObjectParts, SectionBytesSeq DEF SectionBytes

\* No entry has a number above the greatest.
LEMMA MaxNumberTop ==
  ASSUME NEW s \in Seq(Entry), NEW b \in Nat, \A i \in DOMAIN s : s[i][1] <= b
  PROVE  MaxNumber(s) \in Nat /\ \A e \in ToSet(s) : e[1] <= MaxNumber(s)
  <1> DEFINE nums == {s[i][1] : i \in DOMAIN s}
  <1>1. \A i \in DOMAIN s : s[i][1] \in Nat
    BY DEF Entry
  <1>2. nums \subseteq Nat /\ \A k \in nums \cup {0} : k <= b
    BY <1>1
  <1>3. \A e \in ToSet(s) : e[1] \in nums
    BY DEF ToSet
  <1>4. MaxNumber(s) = CHOOSE m \in nums \cup {0} : \A k \in nums : k <= m
    BY DEF MaxNumber
  <1> HIDE DEF nums
  <1>5. \E m \in nums \cup {0} : \A k \in nums : k <= m
    <2> DEFINE all == nums \cup {0}
    <2>1. all \subseteq Nat /\ all # {} /\ \A k \in all : k <= b
      BY <1>2
    <2> HIDE DEF all
    <2>2. \E m \in all : \A k \in all : k <= m
      BY <2>1, GreatestElement
    <2> QED BY <2>2 DEF all
  <1> DEFINE top == MaxNumber(s)
  <1>6. top \in nums \cup {0} /\ \A k \in nums : k <= top
    BY <1>4, <1>5
  <1> HIDE DEF top
  <1>7. top \in Nat
    BY <1>2, <1>6
  <1>8. \A e \in ToSet(s) : e[1] <= top
    BY <1>3, <1>6
  <1> QED BY <1>7, <1>8 DEF top

\* The free head is listed with the rest.
LEMMA ListedWithHead ==
  ASSUME NEW runs \in Seq(Run)
  PROVE  Listed(<<[start |-> 0, run |-> <<<<0, 0>>>>]>> \o runs) = {<<0, 0>>} \cup Listed(runs)
  <1> DEFINE r == [start |-> 0, run |-> <<<<0, 0>>>>]
             Of(q) == {<<q.start + k - 1, q.run[k][2]>> : k \in DOMAIN q.run}
             all == <<r>> \o runs
  <1>1. r \in Run /\ r.start = 0 /\ DOMAIN r.run = {1} /\ r.run[1] = <<0, 0>>
    BY DEF Run, Entry
  <1>2. Of(r) = {<<0, 0>>}
    <2>1. <<r.start + 1 - 1, r.run[1][2]>> = <<0, 0>>
      BY <1>1
    <2> HIDE DEF r
    <2> QED BY <1>1, <2>1
  <1> HIDE DEF r
  <1>3. /\ DOMAIN all = 1 .. Len(runs) + 1 /\ DOMAIN runs = 1 .. Len(runs) /\ Len(runs) \in Nat
        /\ all[1] = r /\ \A i \in 1 .. Len(runs) : all[i + 1] = runs[i]
    BY <1>1
  <1> HIDE DEF all
  <1>4. Range(all) = {r} \cup Range(runs)
    <2>1. \A i \in DOMAIN all : i = 1 \/ (i - 1 \in DOMAIN runs /\ all[i] = runs[i - 1])
      BY <1>3
    <2>2. 1 \in DOMAIN all /\ \A i \in DOMAIN runs : i + 1 \in DOMAIN all
      BY <1>3
    <2>3. ASSUME NEW x \in Range(all) PROVE x \in {r} \cup Range(runs)
      <3>1. PICK i \in DOMAIN all : x = all[i]
        BY <2>3 DEF Range
      <3>2. CASE i = 1
        BY <1>3, <3>1, <3>2
      <3>3. CASE i # 1
        <4>1. i - 1 \in DOMAIN runs /\ x = runs[i - 1]
          BY <2>1, <3>1, <3>3
        <4> QED BY <4>1 DEF Range
      <3> QED BY <3>2, <3>3
    <2>4. ASSUME NEW x \in Range(runs) PROVE x \in Range(all)
      <3>1. PICK i \in DOMAIN runs : x = runs[i]
        BY <2>4 DEF Range
      <3>2. i + 1 \in DOMAIN all /\ x = all[i + 1]
        BY <1>3, <2>2, <3>1
      <3> QED BY <3>2 DEF Range
    <2>5. r \in Range(all)
      BY <1>3, <2>2 DEF Range
    <2> QED BY <2>3, <2>4, <2>5
  <1>5. Listed(all) = UNION {Of(q) : q \in Range(all)} /\ Listed(runs) = UNION {Of(q) : q \in Range(runs)}
    BY DEF Listed
  <1> HIDE DEF Of
  <1>6. Listed(all) = Of(r) \cup Listed(runs)
    BY <1>4, <1>5
  <1> QED BY <1>2, <1>6 DEF all, r

\* every object written so far has its entry, and only those
EntriesRight ==
  pc \in {"start", "objects", "dict", "xref"} => ToSet(entries) = ObjectsIn(buf)

\* an object is written once, and none has the number of the free head
Distinct == Numbered(entries) /\ \A i \in DOMAIN entries : entries[i][1] # 0

\* what is still to be written has no entry; in "dict" the first object's is made
Unwritten ==
  pc \in {"start", "objects", "dict"} =>
    \A i \in DOMAIN entries : \A k \in DOMAIN todo :
      (pc = "dict" => k # 1) => todo[k].id # entries[i][1]

\* no object starts inside the placeholder that is patched over
PlaceholderClear ==
  \A i \in DOMAIN buf : br.brOff < i /\ i <= br.brOff + br.brLen => buf[i][1] # "obj"

XrefInv ==
  IInv /\ EntriesRight /\ Distinct /\ Unwritten /\ PlaceholderClear /\ XrefFindsEveryObject

\* The section is right when it lists the free head and the objects written.
LEMMA RightSection ==
  ASSUME Listed(xref.runs) = {<<0, 0>>} \cup ObjectsIn(buf),
         \A e \in {<<0, 0>>} \cup ObjectsIn(buf) : e[1] < xref.size,
         job.prevSize <= xref.size
  PROVE  XrefFindsEveryObject
  BY DEF XrefFindsEveryObject, Listed, ObjectsIn

\* The same, the other way round.
LEMMA SectionRight ==
  ASSUME XrefFindsEveryObject, pc \in {"backpatch", "written", "hashed", "done"}
  PROVE  /\ Listed(xref.runs) = {<<0, 0>>} \cup ObjectsIn(buf)
         /\ \A e \in {<<0, 0>>} \cup ObjectsIn(buf) : e[1] < xref.size
         /\ job.prevSize <= xref.size
  BY DEF XrefFindsEveryObject, Listed, ObjectsIn

\* Growing the buffer puts no object inside the placeholder.
LEMMA GrowClear ==
  ASSUME TypeOK, Layout, PlaceholderClear, NEW s \in Seq(ByteType), buf' = buf \o s,
         br'.brOff = br.brOff, br'.brLen = br.brLen
  PROVE  PlaceholderClear'
  <1>1. buf \in Seq(ByteType) /\ br.brOff \in Nat /\ br.brLen \in Nat
    BY DEF TypeOK, RangeType
  <1>2. /\ Len(buf) \in Nat /\ DOMAIN buf = 1 .. Len(buf) /\ DOMAIN buf' \subseteq Nat
        /\ \A i \in DOMAIN buf' : i <= Len(buf) => i \in DOMAIN buf /\ buf'[i] = buf[i]
    <2>1. /\ buf' \in Seq(ByteType) /\ Len(buf') = Len(buf) + Len(s)
          /\ \A i \in 1 .. Len(buf) + Len(s) :
               buf'[i] = IF i <= Len(buf) THEN buf[i] ELSE s[i - Len(buf)]
      BY <1>1, ConcatProperties
    <2>2. Len(buf) \in Nat /\ Len(s) \in Nat /\ DOMAIN buf = 1 .. Len(buf) /\ DOMAIN buf' = 1 .. Len(buf')
      BY <1>1, <2>1
    <2> QED BY <2>1, <2>2
  <1>3. br.brLen > 0 => br.brOff + br.brLen <= Len(buf)
    BY DEF Layout, RangePlace
  <1> SUFFICES ASSUME NEW i \in DOMAIN buf', br.brOff < i, i <= br.brOff + br.brLen
               PROVE  buf'[i][1] # "obj"
    BY DEF PlaceholderClear
  <1>4. br.brLen > 0 /\ i \in Nat
    BY <1>1, <1>2
  <1>5. i <= Len(buf)
    BY <1>1, <1>2, <1>3, <1>4
  <1> QED BY <1>2, <1>5 DEF PlaceholderClear

\* Bytes that start no object, written between two objects or inside one.
LEMMA GrowPlain ==
  ASSUME XrefInv, NEW s \in Seq(ByteType), NoObject(s), buf' = buf \o s, entries' = entries,
         pc \in {"start", "objects", "dict"}, pc' \in {"start", "objects", "dict"}
  PROVE  EntriesRight' /\ Distinct' /\ XrefFindsEveryObject'
  <1>1. buf \in Seq(ByteType)
    BY DEF XrefInv, IInv, TypeOK
  <1>2. ObjectsIn(buf') = ObjectsIn(buf)
    BY <1>1, ObjectsStay
  <1>3. EntriesRight'
    BY <1>2 DEF XrefInv, EntriesRight, ObjectsIn
  <1> QED BY <1>3 DEF XrefInv, Distinct, XrefFindsEveryObject

\* Start, the keys and the end of the dictionary start no object.
LEMMA StartXref == XrefInv /\ Start => XrefInv'
  <1> SUFFICES ASSUME XrefInv, Start PROVE XrefInv'
    OBVIOUS
  <1>1. IInv' /\ buf \in Seq(ByteType)
    BY StepOK DEF Next, XrefInv, IInv, TypeOK
  <1>2. /\ pc = "start" /\ pc' = "objects" /\ todo' = todo /\ br' = br /\ entries' = entries
        /\ buf' = IF job.newline THEN buf ELSE Append(buf, Byte("nl"))
    BY DEF Start
  <1>3. PICK s \in Seq(ByteType) : NoObject(s) /\ buf' = buf \o s
    <2>1. CASE job.newline
      <3>1. <<>> \in Seq(ByteType) /\ NoObject(<<>>) /\ buf' = buf \o <<>>
        BY <1>1, <1>2, <2>1, ConcatEmptySeq DEF NoObject
      <3> QED BY <3>1
    <2>2. CASE ~job.newline
      <3>1. "nl" \in Tag /\ "nl" # "obj" /\ 0 \in Nat
        BY DEF Tag
      <3>2. Byte("nl") \in ByteType /\ <<Byte("nl")>> \in Seq(ByteType) /\ NoObject(<<Byte("nl")>>)
        BY <3>1, NoObjectBytes
      <3>3. buf' = buf \o <<Byte("nl")>>
        BY <1>1, <1>2, <2>2, <3>2, AppendOneByte
      <3> QED BY <3>2, <3>3
    <2> QED BY <2>1, <2>2
  <1>4. EntriesRight' /\ Distinct' /\ XrefFindsEveryObject'
    BY <1>2, <1>3, GrowPlain
  <1>5. PlaceholderClear'
    BY <1>2, <1>3, GrowClear DEF XrefInv, IInv
  <1>6. Unwritten'
    BY <1>2 DEF XrefInv, Unwritten
  <1> QED BY <1>1, <1>4, <1>5, <1>6 DEF XrefInv

\* The string for /Contents and its key start no object.
LEMMA NoObjectContents ==
  ASSUME NEW n \in Nat
  PROVE  ContentsEntry(n) \in Seq(ByteType) /\ NoObject(ContentsEntry(n))
  <1> DEFINE s == ContentsEntry(n)
  <1>1. /\ s \in Seq(ByteType) /\ Len(s) = n + 3 /\ s[1][1] = "key"
        /\ \A i \in 2 .. n + 3 : s[i][1] \in SigTags
    BY ContentsEntrySeq
  <1> HIDE DEF s
  <1>2. DOMAIN s = 1 .. n + 3
    BY <1>1
  <1>3. "obj" \notin SigTags /\ "key" # "obj"
    BY DEF SigTags
  <1>4. \A i \in DOMAIN s : i = 1 \/ i \in 2 .. n + 3
    BY <1>2
  <1> QED BY <1>1, <1>3, <1>4 DEF NoObject, s

\* WriteContentsKey adds no object.
LEMMA WriteContentsKeyXref == XrefInv /\ WriteContentsKey => XrefInv'
  <1> SUFFICES ASSUME XrefInv, WriteContentsKey PROVE XrefInv'
    OBVIOUS
  <1>1. IInv' /\ buf \in Seq(ByteType) /\ br \in RangeType /\ job \in Jobs
    BY StepOK DEF Next, XrefInv, IInv, TypeOK
  <1>2. /\ pc = "dict" /\ pc' = "dict" /\ todo' = todo /\ entries' = entries
        /\ br' = [br EXCEPT !.coOff = Len(buf) + 2] /\ buf' = buf \o ContentsEntry(2 * job.reserve)
    BY DEF WriteContentsKey
  <1>3. br'.brOff = br.brOff /\ br'.brLen = br.brLen
    BY <1>1, <1>2 DEF RangeType
  <1>4. PICK s \in Seq(ByteType) : NoObject(s) /\ buf' = buf \o s
    <2>1. 2 * job.reserve \in Nat
      BY <1>1, JobFacts
    <2> QED BY <1>2, <2>1, NoObjectContents
  <1>5. EntriesRight' /\ Distinct' /\ XrefFindsEveryObject'
    BY <1>2, <1>4, GrowPlain
  <1>6. PlaceholderClear'
    BY <1>3, <1>4, GrowClear DEF XrefInv, IInv
  <1>7. Unwritten'
    BY <1>2 DEF XrefInv, Unwritten
  <1> QED BY <1>1, <1>5, <1>6, <1>7 DEF XrefInv

\* WriteOtherKey adds no object.
LEMMA WriteOtherKeyXref == XrefInv /\ WriteOtherKey => XrefInv'
  <1> SUFFICES ASSUME XrefInv, WriteOtherKey PROVE XrefInv'
    OBVIOUS
  <1>1. IInv'
    BY StepOK DEF Next, XrefInv
  <1>2. /\ pc = "dict" /\ pc' = "dict" /\ todo' = todo /\ entries' = entries /\ br' = br
        /\ buf' = buf \o <<Byte("key"), Byte("body")>>
    BY DEF WriteOtherKey
  <1>3. <<Byte("key"), Byte("body")>> \in Seq(ByteType) /\ NoObject(<<Byte("key"), Byte("body")>>)
    <2>1. Byte("key") \in ByteType /\ Byte("body") \in ByteType
          /\ Byte("key")[1] # "obj" /\ Byte("body")[1] # "obj"
      BY DEF Byte, ByteType, Tag
    <2> QED BY <2>1 DEF NoObject
  <1>4. EntriesRight' /\ Distinct' /\ XrefFindsEveryObject'
    BY <1>2, <1>3, GrowPlain
  <1>5. PlaceholderClear'
    BY <1>2, <1>3, GrowClear DEF XrefInv, IInv
  <1>6. Unwritten'
    BY <1>2 DEF XrefInv, Unwritten
  <1> QED BY <1>1, <1>4, <1>5, <1>6 DEF XrefInv

\* CloseSigDict ends the object its entry was made for.
LEMMA CloseSigDictXref == XrefInv /\ CloseSigDict => XrefInv'
  <1> SUFFICES ASSUME XrefInv, CloseSigDict PROVE XrefInv'
    OBVIOUS
  <1>1. IInv' /\ TypeOK /\ buf \in Seq(ByteType) /\ br \in RangeType
    BY StepOK DEF Next, XrefInv, IInv, TypeOK
  <1>2. /\ pc = "dict" /\ pc' = "objects" /\ todo' = Tail(todo) /\ entries' = entries
        /\ br' = [br EXCEPT !.found = TRUE] /\ buf' = Append(buf, Byte("body"))
    BY DEF CloseSigDict
  <1>3. br'.brOff = br.brOff /\ br'.brLen = br.brLen
    BY <1>1, <1>2 DEF RangeType
  <1>4. PICK s \in Seq(ByteType) : NoObject(s) /\ buf' = buf \o s
    <2>1. "body" \in Tag /\ "body" # "obj" /\ 0 \in Nat
      BY DEF Tag
    <2>2. Byte("body") \in ByteType /\ <<Byte("body")>> \in Seq(ByteType) /\ NoObject(<<Byte("body")>>)
      BY <2>1, NoObjectBytes
    <2> QED BY <1>1, <1>2, <2>2, AppendOneByte
  <1>5. EntriesRight' /\ Distinct' /\ XrefFindsEveryObject'
    BY <1>2, <1>4, GrowPlain
  <1>6. PlaceholderClear'
    BY <1>3, <1>4, GrowClear DEF XrefInv, IInv
  <1>7. Unwritten'
    <2>1. todo # <<>>
      BY <1>2 DEF XrefInv, IInv, Order
    <2>2. \A k \in DOMAIN todo' : k + 1 \in DOMAIN todo /\ k + 1 # 1 /\ todo'[k] = todo[k + 1]
      BY <1>1, <1>2, <2>1, HeadFacts
    <2>3. \A i \in DOMAIN entries : \A k \in DOMAIN todo : k # 1 => todo[k].id # entries[i][1]
      BY <1>2 DEF XrefInv, Unwritten
    <2> QED BY <1>2, <2>2, <2>3 DEF Unwritten
  <1> QED BY <1>1, <1>5, <1>6, <1>7 DEF XrefInv

\* WriteByteRangeKey puts its placeholder behind every object so far.
LEMMA WriteByteRangeKeyXref == XrefInv /\ WriteByteRangeKey => XrefInv'
  <1> SUFFICES ASSUME XrefInv, WriteByteRangeKey PROVE XrefInv'
    OBVIOUS
  <1> DEFINE len == PlaceholderLength
             zeros == Bytes("zero", len)
             s == <<Byte("key")>> \o zeros
  <1>1. IInv' /\ buf \in Seq(ByteType) /\ br \in RangeType /\ Len(buf) \in Nat
    BY StepOK DEF Next, XrefInv, IInv, TypeOK
  <1>2. /\ pc = "dict" /\ pc' = "dict" /\ todo' = todo /\ entries' = entries
        /\ br' = [br EXCEPT !.brOff = Len(buf) + 1, !.brLen = len]
        /\ buf' = Append(buf, Byte("key")) \o zeros
    BY DEF WriteByteRangeKey
  <1>3. len \in Nat
    BY WriterAssumption DEF PlaceholderLength
  <1> HIDE DEF len
  <1>4. /\ zeros \in Seq(ByteType) /\ Byte("key") \in ByteType /\ <<Byte("key")>> \in Seq(ByteType)
        /\ NoObject(zeros) /\ NoObject(<<Byte("key")>>)
    <2>1. "zero" \in Tag /\ "key" \in Tag /\ "zero" # "obj" /\ "key" # "obj" /\ 0 \in Nat
      BY DEF Tag
    <2> QED BY <1>3, <2>1, NoObjectBytes
  <1> HIDE DEF zeros
  <1>5. s \in Seq(ByteType) /\ NoObject(s) /\ buf' = buf \o s
    <2>1. s \in Seq(ByteType)
      BY <1>4, ConcatProperties
    <2>2. NoObject(s)
      BY <1>4, NoObjectParts
    <2>3. buf' = buf \o s
      BY <1>1, <1>2, <1>4, AppendThenConcat
    <2> QED BY <2>1, <2>2, <2>3
  <1> HIDE DEF s
  <1>6. EntriesRight' /\ Distinct' /\ XrefFindsEveryObject'
    BY <1>2, <1>5, GrowPlain
  <1>7. PlaceholderClear'
    <2>1. br'.brOff = Len(buf) + 1
      BY <1>1, <1>2 DEF RangeType
    <2>2. /\ Len(s) \in Nat /\ DOMAIN s = 1 .. Len(s) /\ DOMAIN buf' = 1 .. Len(buf) + Len(s)
          /\ \A i \in 1 .. Len(buf) + Len(s) :
               buf'[i] = IF i <= Len(buf) THEN buf[i] ELSE s[i - Len(buf)]
      BY <1>1, <1>5, ConcatProperties
    <2> SUFFICES ASSUME NEW i \in DOMAIN buf', br'.brOff < i PROVE buf'[i][1] # "obj"
      BY DEF PlaceholderClear
    <2>3. i - Len(buf) \in DOMAIN s /\ buf'[i] = s[i - Len(buf)]
      BY <1>1, <2>1, <2>2
    <2> QED BY <1>5, <2>3 DEF NoObject
  <1>8. Unwritten'
    BY <1>2 DEF XrefInv, Unwritten
  <1> QED BY <1>1, <1>6, <1>7, <1>8 DEF XrefInv

\* Append adds one element behind the others.
LEMMA AppendFacts ==
  ASSUME NEW S, NEW s \in Seq(S), NEW e \in S
  PROVE  /\ DOMAIN Append(s, e) = 1 .. Len(s) + 1 /\ DOMAIN s = 1 .. Len(s) /\ Len(s) \in Nat
         /\ Append(s, e)[Len(s) + 1] = e /\ \A i \in DOMAIN s : Append(s, e)[i] = s[i]
  OBVIOUS

\* A new object comes with its entry.
LEMMA AddObject ==
  ASSUME XrefInv, todo # <<>>, pc = "objects", NEW t \in Seq(ByteType), NoObject(t),
         entries' = Append(entries, <<Head(todo).id, Len(buf)>>),
         buf' = Append(buf, <<"obj", Head(todo).id>>) \o t,
         pc' \in {"objects", "dict"}
  PROVE  /\ EntriesRight' /\ Distinct' /\ XrefFindsEveryObject'
         /\ \A i \in DOMAIN entries' : \A k \in DOMAIN todo :
              k # 1 => todo[k].id # entries'[i][1]
  <1> DEFINE id == Head(todo).id
             e == <<id, Len(buf)>>
  <1>1. TypeOK /\ Pending /\ buf \in Seq(ByteType) /\ Len(buf) \in Nat /\ entries \in Seq(Entry)
    BY DEF XrefInv, IInv, TypeOK, Entry
  <1>2. id \in Nat \ {0} /\ 1 \in DOMAIN todo /\ id = todo[1].id
    <2>1. Head(todo) \in Object /\ Head(todo) = todo[1] /\ 1 \in DOMAIN todo
      BY <1>1, TailFacts DEF TypeOK
    <2> QED BY <2>1 DEF Object
  <1> HIDE DEF id
  <1>3. e \in Entry /\ e[1] = id
    BY <1>1, <1>2 DEF Entry
  <1>4. entries' = Append(entries, e) /\ buf' = Append(buf, <<"obj", id>>) \o t
    BY DEF id
  <1> HIDE DEF e, Entry
  <1>5. /\ DOMAIN entries' = 1 .. Len(entries) + 1 /\ DOMAIN entries = 1 .. Len(entries)
        /\ Len(entries) \in Nat /\ entries'[Len(entries) + 1] = e
        /\ \A i \in DOMAIN entries : entries'[i] = entries[i]
    <2>1. entries \in Seq(Entry) /\ e \in Entry /\ entries' = Append(entries, e)
      BY <1>1, <1>3, <1>4
    <2> QED BY <2>1, AppendFacts
  <1>6. \A i \in DOMAIN entries' : i \in DOMAIN entries \/ i = Len(entries) + 1
    BY <1>5
  <1>7. \A i \in DOMAIN entries : \A k \in DOMAIN todo : todo[k].id # entries[i][1]
    BY DEF XrefInv, Unwritten
  <1>8. Distinct'
    <2>1. \A i \in DOMAIN entries : entries[i][1] # id /\ entries[i][1] # 0
      BY <1>2, <1>7 DEF XrefInv, Distinct
    <2>2. \A i \in DOMAIN entries' : entries'[i][1] # 0
      BY <1>2, <1>3, <1>5, <1>6, <2>1
    <2>3. \A i, j \in DOMAIN entries' : entries'[i][1] = entries'[j][1] => i = j
      <3> SUFFICES ASSUME NEW i \in DOMAIN entries', NEW j \in DOMAIN entries',
                          entries'[i][1] = entries'[j][1]
                   PROVE  i = j
        OBVIOUS
      <3>1. CASE i \in DOMAIN entries /\ j \in DOMAIN entries
        BY <1>5, <3>1 DEF XrefInv, Distinct, Numbered
      <3>2. CASE i \in DOMAIN entries /\ j = Len(entries) + 1
        BY <1>3, <1>5, <2>1, <3>2
      <3>3. CASE i = Len(entries) + 1 /\ j \in DOMAIN entries
        BY <1>3, <1>5, <2>1, <3>3
      <3>4. CASE i = Len(entries) + 1 /\ j = Len(entries) + 1
        BY <3>4
      <3> QED BY <1>6, <3>1, <3>2, <3>3, <3>4
    <2> QED BY <2>2, <2>3 DEF Distinct, Numbered
  <1>9. ToSet(entries') = ToSet(entries) \cup {e}
    <2>1. ASSUME NEW x \in ToSet(entries') PROVE x \in ToSet(entries) \cup {e}
      BY <1>5, <1>6, <2>1 DEF ToSet
    <2>2. ASSUME NEW x \in ToSet(entries) \cup {e} PROVE x \in ToSet(entries')
      <3>1. Len(entries) + 1 \in DOMAIN entries' /\ DOMAIN entries \subseteq DOMAIN entries'
        BY <1>5
      <3> QED BY <1>5, <2>2, <3>1 DEF ToSet
    <2> QED BY <2>1, <2>2
  <1>10. ObjectsIn(buf') = ObjectsIn(buf) \cup {e}
    <2>1. <<"obj", id>> \in ByteType
      BY <1>2 DEF ByteType, Tag
    <2> DEFINE c == Append(buf, <<"obj", id>>)
    <2>2. c \in Seq(ByteType)
      BY <1>1, <2>1
    <2>3. ObjectsIn(c) = ObjectsIn(buf) \cup {e}
      BY <1>1, <1>2, ObjectsAppend DEF e
    <2>4. buf' = c \o t
      BY <1>4
    <2> HIDE DEF c
    <2> QED BY <2>2, <2>3, <2>4, ObjectsStay
  <1>11. EntriesRight'
    <2>1. ToSet(entries) = ObjectsIn(buf)
      BY DEF XrefInv, EntriesRight
    <2>2. ToSet(entries') = ObjectsIn(buf')
      BY <1>9, <1>10, <2>1
    <2> QED BY <2>2 DEF EntriesRight, ObjectsIn
  <1>12. \A k \in DOMAIN todo : k # 1 => todo[k].id # id
    BY <1>1, <1>2 DEF Pending
  <1>13. \A i \in DOMAIN entries' : \A k \in DOMAIN todo :
           k # 1 => todo[k].id # entries'[i][1]
    BY <1>3, <1>5, <1>6, <1>7, <1>12
  <1>14. XrefFindsEveryObject'
    BY DEF XrefFindsEveryObject
  <1> QED BY <1>8, <1>11, <1>13, <1>14

\* WriteObject adds an object and its entry.
LEMMA WriteObjectXref == XrefInv /\ WriteObject => XrefInv'
  <1> SUFFICES ASSUME XrefInv, WriteObject PROVE XrefInv'
    OBVIOUS
  <1> DEFINE t == Bytes("body", Head(todo).len)
             s == <<<<"obj", Head(todo).id>>>> \o t
  <1>1. IInv' /\ TypeOK /\ Layout /\ buf \in Seq(ByteType) /\ PlaceholderClear
    BY StepOK DEF Next, XrefInv, IInv, TypeOK
  <1>2. /\ pc = "objects" /\ pc' = pc /\ todo # <<>> /\ todo' = Tail(todo) /\ br' = br
        /\ entries' = Append(entries, <<Head(todo).id, Len(buf)>>)
        /\ buf' = Append(buf, <<"obj", Head(todo).id>>) \o t
    BY DEF WriteObject
  <1>3. /\ t \in Seq(ByteType) /\ NoObject(t)
        /\ <<"obj", Head(todo).id>> \in ByteType
    <2>1. "body" \in Tag /\ "body" # "obj" /\ Head(todo).len \in Nat /\ Head(todo).id \in Nat
      BY <1>1, <1>2, HeadFacts DEF Tag
    <2> QED BY <2>1, NoObjectBytes, TagFacts DEF Tag
  <1> HIDE DEF t
  <1>4. s \in Seq(ByteType) /\ buf' = buf \o s
    <2> DEFINE x == <<"obj", Head(todo).id>>
    <2>1. x \in ByteType /\ buf' = Append(buf, x) \o t
      BY <1>2, <1>3
    <2> HIDE DEF x
    <2>2. <<x>> \in Seq(ByteType)
      BY <2>1
    <2>3. <<x>> \o t \in Seq(ByteType)
      BY <1>3, <2>2, ConcatProperties
    <2>4. buf' = buf \o (<<x>> \o t)
      BY <1>1, <1>3, <2>1, AppendThenConcat
    <2> QED BY <2>3, <2>4 DEF x
  <1> HIDE DEF s
  <1>5. PlaceholderClear'
    BY <1>1, <1>2, <1>4, GrowClear
  <1>6. /\ EntriesRight' /\ Distinct' /\ XrefFindsEveryObject'
        /\ \A i \in DOMAIN entries' : \A k \in DOMAIN todo :
             k # 1 => todo[k].id # entries'[i][1]
    BY <1>2, <1>3, AddObject
  <1>7. Unwritten'
    <2>1. \A k \in DOMAIN todo' : k + 1 \in DOMAIN todo /\ k + 1 # 1 /\ todo'[k] = todo[k + 1]
      BY <1>1, <1>2, HeadFacts
    <2> QED BY <1>2, <1>6, <2>1 DEF Unwritten
  <1> QED BY <1>1, <1>5, <1>6, <1>7 DEF XrefInv

\* OpenSigDict adds the signature dictionary's object and entry.
LEMMA OpenSigDictXref == XrefInv /\ OpenSigDict => XrefInv'
  <1> SUFFICES ASSUME XrefInv, OpenSigDict PROVE XrefInv'
    OBVIOUS
  <1>1. IInv' /\ TypeOK /\ buf \in Seq(ByteType)
    BY StepOK DEF Next, XrefInv, IInv, TypeOK
  <1>2. /\ pc = "objects" /\ pc' = "dict" /\ todo # <<>> /\ todo' = todo
        /\ br' = [NoRange EXCEPT !.coLen = 2 * job.reserve]
        /\ entries' = Append(entries, <<Head(todo).id, Len(buf)>>)
        /\ buf' = Append(buf, <<"obj", Head(todo).id>>)
    BY DEF OpenSigDict
  <1>3. <<"obj", Head(todo).id>> \in ByteType
    BY <1>1, <1>2, HeadFacts, TagFacts DEF Tag
  <1>4. <<>> \in Seq(ByteType) /\ NoObject(<<>>)
        /\ buf' = Append(buf, <<"obj", Head(todo).id>>) \o <<>>
    <2> DEFINE c == Append(buf, <<"obj", Head(todo).id>>)
    <2>1. c \in Seq(ByteType)
      BY <1>1, <1>3
    <2>2. buf' = c
      BY <1>2
    <2> HIDE DEF c
    <2>3. c \o <<>> = c /\ <<>> \in Seq(ByteType)
      BY <2>1, ConcatEmptySeq
    <2> QED BY <2>2, <2>3 DEF NoObject, c
  <1>5. PlaceholderClear'
    <2>1. br'.brOff = 0 /\ br'.brLen = 0
      BY <1>2 DEF NoRange
    <2>2. \A i \in DOMAIN buf' : i \in Nat
      BY <1>1, <1>2, <1>3
    <2>3. \A i \in Nat : ~(0 < i /\ i <= 0 + 0)
      OBVIOUS
    <2> QED BY <2>1, <2>2, <2>3 DEF PlaceholderClear
  <1>6. /\ EntriesRight' /\ Distinct' /\ XrefFindsEveryObject'
        /\ \A i \in DOMAIN entries' : \A k \in DOMAIN todo :
             k # 1 => todo[k].id # entries'[i][1]
    BY <1>2, <1>4, AddObject
  <1>7. Unwritten'
    BY <1>2, <1>6 DEF Unwritten
  <1> QED BY <1>1, <1>5, <1>6, <1>7 DEF XrefInv

\* FinishObjects and Hash move on with what there is.
LEMMA MoveOnXref == XrefInv /\ (FinishObjects \/ Hash) => XrefInv'
  <1> SUFFICES ASSUME XrefInv, FinishObjects \/ Hash PROVE XrefInv'
    OBVIOUS
  <1>1. IInv'
    BY StepOK DEF Next, XrefInv
  <1>2. CASE FinishObjects
    BY <1>1, <1>2 DEF FinishObjects, XrefInv, EntriesRight, ObjectsIn, Distinct, Unwritten,
                      PlaceholderClear, XrefFindsEveryObject
  <1>3. CASE Hash
    BY <1>1, <1>3 DEF Hash, XrefInv, EntriesRight, ObjectsIn, Distinct, Unwritten,
                      PlaceholderClear, XrefFindsEveryObject
  <1> QED BY <1>2, <1>3

\* The numbers in the entries are at most the greatest, and it is one.
LEMMA EntryNumbers ==
  ASSUME XrefInv
  PROVE  /\ entries \in Seq(Entry) /\ Numbered(entries)
         /\ MaxNumber(entries) \in Nat /\ \A e \in ToSet(entries) : e[1] <= MaxNumber(entries)
         /\ \A e \in ToSet(entries) : e \in Entry /\ e[1] # 0
  <1>1. entries \in Seq(Entry) /\ Numbered(entries)
    BY DEF XrefInv, IInv, TypeOK, Entry, Distinct
  <1>2. PICK b \in Nat : \A i \in DOMAIN entries : entries[i][1] <= b
    BY DEF XrefInv, IInv, Bounded
  <1>3. \A e \in ToSet(entries) : e \in Entry /\ e[1] # 0
    BY <1>1 DEF ToSet, XrefInv, Distinct
  <1> QED BY <1>1, <1>2, <1>3, MaxNumberTop

\* The table lists the free head and the entries made.
LEMMA WriteXrefTableXref == XrefInv /\ WriteXrefTable => XrefInv'
  <1> SUFFICES ASSUME XrefInv, WriteXrefTable PROVE XrefInv'
    OBVIOUS
  <1> DEFINE ents == entries
             prev == job.prevSize
             runs == GroupSubsections(ByNumber(ents))
             next == MaxNumber(ents) + 1
             s == SectionBytes(Len(ents) + 1)
  <1>1. IInv' /\ TypeOK /\ Layout /\ PlaceholderClear /\ buf \in Seq(ByteType)
    BY StepOK DEF Next, XrefInv, IInv, TypeOK
  <1>2. /\ pc = "xref" /\ pc' = "backpatch" /\ todo' = todo /\ br' = br /\ entries' = entries
        /\ job' = job /\ xref' = TableSection(ents, prev) /\ buf' = buf \o s
    BY DEF WriteXrefTable
  <1>3. /\ ents \in Seq(Entry) /\ Numbered(ents)
        /\ MaxNumber(ents) \in Nat /\ \A e \in ToSet(ents) : e[1] <= MaxNumber(ents)
        /\ \A e \in ToSet(ents) : e \in Entry /\ e[1] # 0
    BY EntryNumbers
  <1>4. prev \in Nat
    BY <1>1, JobFacts DEF TypeOK
  <1>5. /\ xref'.runs = <<[start |-> 0, run |-> <<<<0, 0>>>>]>> \o runs
        /\ xref'.size = IF prev > next THEN prev ELSE next
    BY <1>2 DEF TableSection
  <1>6. runs \in Seq(Run) /\ Listed(runs) = ToSet(ents)
    BY <1>3, SectionLists
  <1> HIDE DEF runs
  <1>7. Listed(xref'.runs) = {<<0, 0>>} \cup ToSet(ents)
    BY <1>5, <1>6, ListedWithHead
  <1>8. s \in Seq(ByteType) /\ NoObject(s)
    <2>1. Len(ents) + 1 \in Nat
      BY <1>3
    <2> QED BY <2>1, NoObjectSection
  <1> HIDE DEF s
  <1>9. ToSet(ents) = ObjectsIn(buf')
    <2>1. ToSet(ents) = ObjectsIn(buf)
      BY <1>2 DEF XrefInv, EntriesRight
    <2> QED BY <1>1, <1>2, <1>8, <2>1, ObjectsStay
  <1>10. next <= xref'.size /\ prev <= xref'.size /\ next \in Nat /\ 0 < next /\ xref'.size \in Nat
    BY <1>3, <1>4, <1>5
  <1>11. \A e \in {<<0, 0>>} \cup ToSet(ents) : e[1] < xref'.size
    <2> DEFINE top == MaxNumber(ents)
               size == xref'.size
    <2>1. /\ top \in Nat /\ top < size /\ 0 < size /\ size \in Nat
      BY <1>3, <1>10
    <2>2. \A e \in ToSet(ents) : e[1] <= top /\ e[1] \in Nat
      BY <1>3 DEF Entry
    <2> HIDE DEF top, size, ents
    <2>3. \A e \in ToSet(ents) : e[1] < size
      BY <2>1, <2>2
    <2>4. <<0, 0>>[1] < size
      BY <2>1
    <2>5. \A e \in {<<0, 0>>} \cup ToSet(ents) : e[1] < size
      BY <2>3, <2>4
    <2> QED BY <2>5 DEF size
  <1>12. XrefFindsEveryObject'
    BY <1>2, <1>7, <1>9, <1>10, <1>11 DEF XrefFindsEveryObject, Listed, ObjectsIn
  <1>13. PlaceholderClear'
    BY <1>1, <1>2, <1>8, GrowClear
  <1>14. EntriesRight' /\ Distinct' /\ Unwritten'
    BY <1>2 DEF XrefInv, EntriesRight, Distinct, Unwritten
  <1> QED BY <1>1, <1>12, <1>13, <1>14 DEF XrefInv

\* The stream lists the free head, the entries made and itself.
LEMMA WriteXrefStreamXref == XrefInv /\ WriteXrefStream => XrefInv'
  <1> SUFFICES ASSUME XrefInv, WriteXrefStream PROVE XrefInv'
    OBVIOUS
  <1> DEFINE ents == entries
             prev == job.prevSize
             off == Len(buf)
             num == StreamNumber(ents, prev)
             two == <<<<0, 0>>, <<num, off>>>>
             all == ents \o two
             runs == GroupSubsections(ByNumber(all))
             t == SectionBytes(Len(ents) + 2)
             x == <<"obj", num>>
  <1>1. /\ IInv' /\ TypeOK /\ Layout /\ PlaceholderClear /\ buf \in Seq(ByteType) /\ off \in Nat
    BY StepOK DEF Next, XrefInv, IInv, TypeOK
  <1>2. /\ pc = "xref" /\ pc' = "backpatch" /\ todo' = todo /\ br' = br /\ entries' = entries
        /\ job' = job /\ xref' = StreamSection(ents, prev, off) /\ buf' = Append(buf, x) \o t
    BY DEF WriteXrefStream
  <1>3. /\ ents \in Seq(Entry) /\ Numbered(ents)
        /\ MaxNumber(ents) \in Nat /\ \A e \in ToSet(ents) : e[1] <= MaxNumber(ents)
        /\ \A e \in ToSet(ents) : e \in Entry /\ e[1] # 0
    BY EntryNumbers
  <1>4. prev \in Nat
    BY <1>1, JobFacts DEF TypeOK
  <1>5. num \in Nat /\ MaxNumber(ents) < num /\ prev <= num /\ 0 < num
    BY <1>3, <1>4 DEF StreamNumber
  <1>6. xref'.runs = runs /\ xref'.size = num + 1
    BY <1>2 DEF StreamSection
  <1> HIDE DEF num, off
  <1>7. /\ two \in Seq(Entry) /\ Len(two) = 2 /\ two[1] = <<0, 0>> /\ two[2] = <<num, off>>
        /\ two[1][1] = 0 /\ two[2][1] = num
    BY <1>1, <1>5 DEF Entry
  <1> HIDE DEF two, ents
  <1>8. /\ all \in Seq(Entry) /\ DOMAIN all = 1 .. Len(ents) + 2 /\ Len(ents) \in Nat
        /\ DOMAIN ents = 1 .. Len(ents)
        /\ \A i \in DOMAIN ents : all[i] = ents[i]
        /\ all[Len(ents) + 1] = two[1] /\ all[Len(ents) + 2] = two[2]
    <2>1. /\ all \in Seq(Entry) /\ Len(all) = Len(ents) + Len(two)
          /\ \A i \in 1 .. Len(ents) + Len(two) :
               all[i] = IF i <= Len(ents) THEN ents[i] ELSE two[i - Len(ents)]
      BY <1>3, <1>7, ConcatProperties
    <2>2. Len(ents) \in Nat /\ DOMAIN ents = 1 .. Len(ents) /\ DOMAIN all = 1 .. Len(all)
      BY <1>3, <2>1
    <2> QED BY <1>7, <2>1, <2>2
  <1> HIDE DEF all
  <1>9. /\ \A i \in DOMAIN all : i \in DOMAIN ents \/ i = Len(ents) + 1 \/ i = Len(ents) + 2
        /\ DOMAIN ents \subseteq DOMAIN all
        /\ Len(ents) + 1 \in DOMAIN all /\ Len(ents) + 2 \in DOMAIN all
    BY <1>8
  <1>10. ToSet(all) = ToSet(ents) \cup {<<0, 0>>, <<num, off>>}
    <2>1. ASSUME NEW y \in ToSet(all) PROVE y \in ToSet(ents) \cup {<<0, 0>>, <<num, off>>}
      BY <1>7, <1>8, <1>9, <2>1 DEF ToSet
    <2>2. ToSet(ents) \subseteq ToSet(all)
      BY <1>8, <1>9 DEF ToSet
    <2>3. <<0, 0>> \in ToSet(all) /\ <<num, off>> \in ToSet(all)
      BY <1>7, <1>8, <1>9 DEF ToSet
    <2> QED BY <2>1, <2>2, <2>3
  <1>11. \A i \in DOMAIN ents : ents[i][1] \in Nat /\ ents[i][1] # 0 /\ ents[i][1] < num
    <2> DEFINE top == MaxNumber(ents)
    <2>1. \A i \in DOMAIN ents : ents[i] \in ToSet(ents)
      BY DEF ToSet
    <2>2. top \in Nat /\ top < num /\ \A e \in ToSet(ents) : e[1] \in Nat /\ e[1] <= top /\ e[1] # 0
      BY <1>3, <1>5 DEF Entry
    <2> HIDE DEF top
    <2>3. \A e \in ToSet(ents) : e[1] \in Nat /\ e[1] < num /\ e[1] # 0
      BY <1>5, <2>2
    <2> QED BY <2>1, <2>3
  <1>12. Numbered(all)
    <2> SUFFICES ASSUME NEW i \in DOMAIN all, NEW j \in DOMAIN all, all[i][1] = all[j][1]
                 PROVE  i = j
      BY DEF Numbered
    <2>1. all[Len(ents) + 1][1] = 0 /\ all[Len(ents) + 2][1] = num /\ num # 0
      BY <1>5, <1>7, <1>8
    <2>2. \A k \in DOMAIN ents : all[k][1] # 0 /\ all[k][1] # num /\ all[k] = ents[k]
      BY <1>5, <1>8, <1>11
    <2>3. CASE i \in DOMAIN ents /\ j \in DOMAIN ents
      BY <1>3, <2>2, <2>3 DEF Numbered
    <2>4. CASE i \notin DOMAIN ents \/ j \notin DOMAIN ents
      BY <1>9, <2>1, <2>2, <2>4
    <2> QED BY <2>3, <2>4
  <1>13. Listed(runs) = ToSet(all)
    BY <1>8, <1>12, SectionLists
  <1> HIDE DEF runs
  <1>14. t \in Seq(ByteType) /\ NoObject(t)
    <2>1. Len(ents) + 2 \in Nat
      BY <1>8
    <2> QED BY <2>1, NoObjectSection
  <1> HIDE DEF t
  <1>15. x \in ByteType
    BY <1>5 DEF ByteType, Tag
  <1>16. ObjectsIn(buf') = ToSet(ents) \cup {<<num, off>>}
    <2> DEFINE c == Append(buf, x)
    <2>1. c \in Seq(ByteType)
      BY <1>1, <1>15
    <2>2. ObjectsIn(c) = ObjectsIn(buf) \cup {<<num, off>>}
      BY <1>1, <1>5, ObjectsAppend DEF off
    <2>3. ToSet(ents) = ObjectsIn(buf)
      BY <1>2 DEF XrefInv, EntriesRight, ents
    <2>4. buf' = c \o t
      BY <1>2
    <2> HIDE DEF c
    <2> QED BY <1>14, <2>1, <2>2, <2>3, <2>4, ObjectsStay
  <1>17. \A e \in {<<0, 0>>} \cup ObjectsIn(buf') : e[1] < xref'.size
    <2> DEFINE size == xref'.size
    <2>1. size = num + 1 /\ num \in Nat /\ 0 < num
      BY <1>5, <1>6
    <2>2. \A e \in ToSet(ents) : e[1] \in Nat /\ e[1] < num
      BY <1>11 DEF ToSet
    <2>3. <<0, 0>>[1] = 0 /\ <<num, off>>[1] = num
      OBVIOUS
    <2> HIDE DEF size
    <2>4. \A e \in ToSet(ents) : e[1] < size
      BY <2>1, <2>2
    <2>5. <<0, 0>>[1] < size /\ <<num, off>>[1] < size
      BY <2>1, <2>3
    <2> QED BY <1>16, <2>4, <2>5 DEF size
  <1>18. Listed(xref'.runs) = {<<0, 0>>} \cup ObjectsIn(buf')
    BY <1>6, <1>10, <1>13, <1>16
  <1>19. prev <= xref'.size
    BY <1>4, <1>5, <1>6
  <1>20. XrefFindsEveryObject'
    BY <1>2, <1>17, <1>18, <1>19 DEF XrefFindsEveryObject, Listed, ObjectsIn
  <1>21. PlaceholderClear'
    <2>1. <<x>> \in Seq(ByteType)
      BY <1>15
    <2> HIDE DEF x
    <2>2. <<x>> \o t \in Seq(ByteType)
      BY <1>14, <2>1, ConcatProperties
    <2>3. buf' = buf \o (<<x>> \o t)
      <3>1. buf \in Seq(ByteType) /\ x \in ByteType /\ t \in Seq(ByteType)
        BY <1>1, <1>14, <1>15
      <3>2. Append(buf, x) \o t = buf \o (<<x>> \o t)
        BY <3>1, AppendThenConcat
      <3> QED BY <1>2, <3>2
    <2> DEFINE s == <<x>> \o t
    <2> HIDE DEF s
    <2> QED BY <1>1, <1>2, <2>2, <2>3, GrowClear DEF s
  <1>22. EntriesRight' /\ Distinct' /\ Unwritten'
    BY <1>2 DEF XrefInv, EntriesRight, Distinct, Unwritten
  <1> QED BY <1>1, <1>20, <1>21, <1>22 DEF XrefInv

\* Patching and injecting overwrite no object.
LEMMA OverwriteXref ==
  ASSUME XrefInv, NEW new \in Seq(ByteType), buf' = new, ObjectsIn(new) = ObjectsIn(buf),
         xref' = xref, job' = job, pc \in {"backpatch", "written", "hashed", "done"}
  PROVE  XrefFindsEveryObject'
  <1>1. /\ Listed(xref.runs) = {<<0, 0>>} \cup ObjectsIn(buf)
        /\ \A e \in {<<0, 0>>} \cup ObjectsIn(buf) : e[1] < xref.size
        /\ job.prevSize <= xref.size
    BY SectionRight DEF XrefInv
  <1> QED BY <1>1 DEF XrefFindsEveryObject, Listed, ObjectsIn

\* Backpatch overwrites the placeholder only.
LEMMA BackpatchXref == XrefInv /\ Backpatch => XrefInv'
  <1> SUFFICES ASSUME XrefInv, Backpatch PROVE XrefInv'
    OBVIOUS
  <1> DEFINE c == Overwrite(buf, br.brOff, "range", br.brLen)
  <1>1. /\ IInv' /\ buf \in Seq(ByteType) /\ br.brOff \in Nat /\ br.brLen \in Nat /\ PlaceholderClear
    BY StepOK DEF Next, XrefInv, IInv, TypeOK, RangeType
  <1>2. /\ pc = "backpatch" /\ pc' \in {"error", "written"} /\ entries' = entries /\ br' = br
        /\ xref' = xref /\ job' = job /\ (buf' = buf \/ buf' = c)
    BY DEF Backpatch
  <1>3. c \in Seq(ByteType) /\ ObjectsIn(c) = ObjectsIn(buf) /\ Len(c) = Len(buf)
        /\ \A i \in 1 .. Len(buf) :
             c[i] = IF br.brOff < i /\ i <= br.brOff + br.brLen THEN <<"range", 0>> ELSE buf[i]
    <2>1. "range" \in Tag /\ "range" # "obj" /\ br.brOff \in Int /\ br.brLen \in Int
      BY <1>1 DEF Tag
    <2>2. \A i \in 1 .. Len(buf) :
            br.brOff < i /\ i <= br.brOff + br.brLen => buf[i][1] # "obj"
      BY <1>1 DEF PlaceholderClear
    <2> QED BY <1>1, <2>1, <2>2, ObjectsKept, OverwriteSeq
  <1> HIDE DEF c
  <1>4. XrefFindsEveryObject'
    BY <1>1, <1>2, <1>3, OverwriteXref
  <1>5. PlaceholderClear'
    <2>1. CASE buf' = buf
      BY <1>2, <2>1 DEF XrefInv, PlaceholderClear
    <2>2. CASE buf' = c
      <3>1. DOMAIN buf' = 1 .. Len(buf)
        BY <1>3, <2>2
      <3> QED BY <1>2, <1>3, <2>2, <3>1 DEF PlaceholderClear
    <2> QED BY <1>2, <2>1, <2>2
  <1>6. EntriesRight' /\ Distinct' /\ Unwritten'
    BY <1>2 DEF XrefInv, EntriesRight, Distinct, Unwritten
  <1> QED BY <1>1, <1>4, <1>5, <1>6 DEF XrefInv

\* Inject overwrites the inside of /Contents only.
LEMMA InjectXref == ASSUME NEW n \in CmsLengths PROVE XrefInv /\ Inject(n) => XrefInv'
  <1> SUFFICES ASSUME XrefInv, Inject(n) PROVE XrefInv'
    OBVIOUS
  <1> DEFINE off == br.coOff
             m == 2 * n
             one == Overwrite(buf, off, "cms", m)
             c == Overwrite(one, off + m, "pad", br.coLen - m)
  <1>1. /\ IInv' /\ TypeOK /\ Layout /\ Order /\ buf \in Seq(ByteType) /\ PlaceholderClear
    BY StepOK DEF Next, XrefInv, IInv, TypeOK
  <1>2. /\ pc = "hashed" /\ pc' \in {"error", "done"} /\ entries' = entries /\ br' = br
        /\ xref' = xref /\ job' = job
        /\ (buf' = buf \/ (buf' = c /\ ~(n > job.reserve)))
    BY DEF Inject
  <1>3. n \in Nat /\ job.reserve \in Nat /\ br.coLen \in Nat /\ off \in Nat /\ off > 0
        /\ br.coLen = 2 * job.reserve
    <2>1. br.found /\ br.coOff > 0
      BY <1>1, <1>2 DEF Order
    <2> QED BY <1>1, <2>1, WriterAssumption, JobFacts DEF TypeOK, RangeType, Layout, ContentsPlace
  <1>4. \A i \in 1 .. Len(buf) : off < i /\ i <= off + br.coLen => buf[i][1] # "obj"
    <2>1. "obj" \notin SigTags
      BY DEF SigTags
    <2> SUFFICES ASSUME NEW i \in 1 .. Len(buf), off < i, i <= off + br.coLen PROVE buf[i][1] # "obj"
      OBVIOUS
    <2>2. InContents(i)
      BY <1>3 DEF InContents
    <2> QED BY <1>1, <2>1, <2>2 DEF Layout, Tags
  <1>5. CASE buf' = buf
    <2>1. XrefFindsEveryObject' /\ PlaceholderClear'
      BY <1>2, <1>5 DEF XrefInv, XrefFindsEveryObject, PlaceholderClear
    <2>2. EntriesRight' /\ Distinct' /\ Unwritten'
      BY <1>2 DEF XrefInv, EntriesRight, Distinct, Unwritten
    <2> QED BY <1>1, <2>1, <2>2 DEF XrefInv
  <1>6. CASE buf' = c /\ ~(n > job.reserve)
    <2>0. m \in Nat /\ m <= br.coLen /\ br.coLen - m \in Nat
      BY <1>3, <1>6
    <2> HIDE DEF m
    <2>1. /\ one \in Seq(ByteType) /\ Len(one) = Len(buf) /\ ObjectsIn(one) = ObjectsIn(buf)
          /\ \A i \in 1 .. Len(buf) :
               one[i] = IF off < i /\ i <= off + m THEN <<"cms", 0>> ELSE buf[i]
      <3>1. "cms" \in Tag /\ "cms" # "obj" /\ off \in Int /\ m \in Int
        BY <1>3, <2>0 DEF Tag
      <3>2. \A i \in 1 .. Len(buf) : off < i /\ i <= off + m => buf[i][1] # "obj"
        BY <1>3, <1>4, <2>0
      <3> QED BY <1>1, <3>1, <3>2, ObjectsKept, OverwriteSeq
    <2> HIDE DEF one
    <2>2. \A i \in 1 .. Len(one) : off + m < i /\ i <= off + m + (br.coLen - m) => one[i][1] # "obj"
      <3> SUFFICES ASSUME NEW i \in 1 .. Len(one), off + m < i, i <= off + m + (br.coLen - m)
                   PROVE  one[i][1] # "obj"
        OBVIOUS
      <3>1. i \in 1 .. Len(buf) /\ off < i /\ i <= off + br.coLen /\ ~(i <= off + m)
        <4> DEFINE len == br.coLen
        <4>1. i \in Nat /\ off \in Nat /\ m \in Nat /\ len \in Nat /\ i \in 1 .. Len(buf)
              /\ off + m < i /\ i <= off + m + (len - m)
          BY <1>3, <2>0, <2>1
        <4> HIDE DEF len, off
        <4>2. off < i /\ i <= off + len /\ ~(i <= off + m)
          BY <4>1
        <4> QED BY <4>1, <4>2 DEF len
      <3> QED BY <1>4, <2>1, <3>1
    <2> DEFINE from == off + m
               k == br.coLen - m
    <2>3. /\ c \in Seq(ByteType) /\ Len(c) = Len(one) /\ ObjectsIn(c) = ObjectsIn(one)
          /\ \A i \in 1 .. Len(one) :
               c[i] = IF from < i /\ i <= from + k THEN <<"pad", 0>> ELSE one[i]
      <3>1. "pad" \in Tag /\ "pad" # "obj" /\ from \in Int /\ k \in Int
        BY <1>3, <2>0 DEF Tag
      <3>2. \A i \in 1 .. Len(one) : from < i /\ i <= from + k => one[i][1] # "obj"
        BY <2>2
      <3> HIDE DEF from, k
      <3>3. Overwrite(one, from, "pad", k) \in Seq(ByteType)
            /\ Len(Overwrite(one, from, "pad", k)) = Len(one)
            /\ ObjectsIn(Overwrite(one, from, "pad", k)) = ObjectsIn(one)
            /\ \A i \in 1 .. Len(one) :
                 Overwrite(one, from, "pad", k)[i]
                   = IF from < i /\ i <= from + k THEN <<"pad", 0>> ELSE one[i]
        BY <2>1, <3>1, <3>2, ObjectsKept, OverwriteSeq
      <3> QED BY <3>3 DEF from, k
    <2> HIDE DEF c, from, k
    <2>4. XrefFindsEveryObject'
      BY <1>2, <1>6, <2>1, <2>3, OverwriteXref
    <2>5. PlaceholderClear'
      <3>1. \A i \in 1 .. Len(buf) : c[i][1] = "obj" => c[i] = buf[i]
        BY <2>1, <2>3
      <3>2. DOMAIN buf' = 1 .. Len(buf) /\ DOMAIN buf = 1 .. Len(buf)
        BY <1>1, <1>6, <2>1, <2>3
      <3> QED BY <1>1, <1>2, <1>6, <3>1, <3>2 DEF PlaceholderClear
    <2>6. EntriesRight' /\ Distinct' /\ Unwritten'
      BY <1>2 DEF XrefInv, EntriesRight, Distinct, Unwritten
    <2> QED BY <1>1, <2>4, <2>5, <2>6 DEF XrefInv
  <1> QED BY <1>2, <1>5, <1>6

\* At the start no object is written and none has an entry.
LEMMA InitXref == Init => XrefInv
  <1> SUFFICES ASSUME Init PROVE XrefInv
    OBVIOUS
  <1>1. IInv
    BY InitOK
  <1>2. /\ pc = "start" /\ buf = Bytes("orig", job.orig) /\ entries = <<>> /\ br = NoRange
        /\ todo = job.objects
    BY DEF Init
  <1>3. NoObject(buf) /\ DOMAIN buf \subseteq Nat
    <2>1. job.orig \in Nat /\ "orig" \in Tag /\ "orig" # "obj"
      BY <1>1, JobFacts DEF IInv, TypeOK, Tag
    <2>2. DOMAIN buf = 1 .. job.orig
      BY <1>2, <2>1, BytesSeq
    <2>3. NoObject(Bytes("orig", job.orig))
      BY <2>1, NoObjectBytes
    <2>4. DOMAIN buf \subseteq Nat
      BY <2>2
    <2> QED BY <1>2, <2>3, <2>4
  <1>4. ToSet(entries) = {} /\ DOMAIN entries = {}
    BY <1>2 DEF ToSet
  <1>5. ObjectsIn(buf) = {}
    BY <1>3 DEF ObjectsIn, NoObject
  <1>6. EntriesRight /\ Distinct /\ Unwritten /\ PlaceholderClear /\ XrefFindsEveryObject
    <2>1. XrefFindsEveryObject
      BY <1>2 DEF XrefFindsEveryObject
    <2>2. PlaceholderClear
      BY <1>3 DEF PlaceholderClear, NoObject
    <2> QED BY <1>4, <1>5, <2>1, <2>2 DEF EntriesRight, Distinct, Numbered, Unwritten
  <1> QED BY <1>1, <1>6 DEF XrefInv

\* Every step keeps the entries and the objects in step.
LEMMA XrefStep == XrefInv /\ [Next]_vars => XrefInv'
  <1> SUFFICES ASSUME XrefInv, [Next]_vars PROVE XrefInv'
    OBVIOUS
  <1>1. CASE UNCHANGED vars
    <2>1. IInv'
      BY StepOK DEF XrefInv
    <2> QED BY <1>1, <2>1 DEF vars, XrefInv, EntriesRight, ObjectsIn, Distinct, Numbered, Unwritten,
                              PlaceholderClear, XrefFindsEveryObject
  <1>2. CASE \E n \in CmsLengths : Inject(n)
    BY <1>2, InjectXref
  <1> QED BY <1>1, <1>2, StartXref, WriteObjectXref, OpenSigDictXref, WriteByteRangeKeyXref,
             WriteContentsKeyXref, WriteOtherKeyXref, CloseSigDictXref, MoveOnXref,
             WriteXrefTableXref, WriteXrefStreamXref, BackpatchXref DEF Next

\* A reader that follows the new section finds every appended object, and only
\* those, where it starts; no number reaches /Size, which never shrinks.
THEOREM XrefCorrect == Spec => []XrefFindsEveryObject
  <1>1. Init => XrefInv
    BY InitXref
  <1>2. XrefInv /\ [Next]_vars => XrefInv'
    BY XrefStep
  <1>3. XrefInv => XrefFindsEveryObject
    BY DEF XrefInv
  <1> QED BY <1>1, <1>2, <1>3, PTL DEF Spec

-----------------------------------------------------------------------------
(* The width of a number. *)

\* f counts digits for the numbers up to k
DigitsUpTo(f, k) ==
  f = [n \in 0 .. k |-> IF n < 10 THEN 1 ELSE 1 + f[n \div 10]]

\* Division by ten makes a number of two digits or more smaller.
LEMMA TenthFacts ==
  ASSUME NEW n \in Nat
  PROVE  /\ n \div 10 \in Nat /\ (n >= 10 => n \div 10 < n /\ n \div 10 >= 1)
         /\ \A t \in Nat : n \div 10 >= t <=> n >= 10 * t
  OBVIOUS

\* Counting digits up to some number is possible, in one way.
LEMMA DigitsOneWay ==
  ASSUME NEW k \in Nat, NEW l \in Nat, NEW f, NEW g, DigitsUpTo(f, k), DigitsUpTo(g, l)
  PROVE  \A n \in Nat : n <= k /\ n <= l => f[n] = g[n]
  <1> DEFINE Bad == {n \in Nat : n <= k /\ n <= l /\ f[n] # g[n]}
  <1>1. SUFFICES ASSUME Bad # {} PROVE FALSE
    OBVIOUS
  <1>2. PICK n \in Bad : \A m \in Bad : n <= m
    <2>1. Bad \subseteq Nat
      OBVIOUS
    <2> HIDE DEF Bad
    <2> QED BY <1>1, <2>1, LeastElement
  <1>3. n \in Nat /\ n <= k /\ n <= l /\ f[n] # g[n]
    BY <1>2
  <1>4. /\ f[n] = IF n < 10 THEN 1 ELSE 1 + f[n \div 10]
        /\ g[n] = IF n < 10 THEN 1 ELSE 1 + g[n \div 10]
    <2>1. n \in 0 .. k /\ n \in 0 .. l
      BY <1>3
    <2> QED BY <2>1 DEF DigitsUpTo
  <1>5. n >= 10
    BY <1>3, <1>4
  <1> DEFINE m == n \div 10
  <1>6. m \in Nat /\ m < n
    BY <1>3, <1>5, TenthFacts
  <1>7. f[m] # g[m]
    BY <1>3, <1>4, <1>5
  <1> HIDE DEF m
  <1>8. m <= k /\ m <= l
    BY <1>3, <1>6
  <1>9. m \in Bad
    BY <1>6, <1>7, <1>8
  <1> QED BY <1>2, <1>3, <1>6, <1>9

\* Counting digits up to any number is possible.
LEMMA DigitsUpToExists ==
  ASSUME NEW k \in Nat
  PROVE  \E f : DigitsUpTo(f, k)
  <1> DEFINE Bad == {n \in Nat : ~\E f : DigitsUpTo(f, n)}
  <1>1. SUFFICES ASSUME Bad # {} PROVE FALSE
    OBVIOUS
  <1>2. PICK n \in Bad : \A m \in Bad : n <= m
    <2>1. Bad \subseteq Nat
      OBVIOUS
    <2> HIDE DEF Bad
    <2> QED BY <1>1, <2>1, LeastElement
  <1>3. CASE n = 0
    <2> DEFINE f == [i \in 0 .. 0 |-> 1]
    <2>1. DigitsUpTo(f, 0)
      BY DEF DigitsUpTo
    <2> QED BY <1>2, <1>3, <2>1
  <1>4. CASE n # 0
    <2>1. n - 1 \in Nat /\ n - 1 \notin Bad
      BY <1>2, <1>4
    <2>2. PICK old : DigitsUpTo(old, n - 1)
      BY <2>1
    <2> DEFINE f == [i \in 0 .. n |-> IF i < 10 THEN 1 ELSE 1 + old[i \div 10]]
    <2>3. \A i \in 0 .. n - 1 : old[i] = IF i < 10 THEN 1 ELSE 1 + old[i \div 10]
      BY <2>2 DEF DigitsUpTo
    <2>4. \A i \in 0 .. n - 1 : f[i] = old[i]
      <3>1. 0 .. n - 1 \subseteq 0 .. n
        BY <2>1
      <3> QED BY <2>3, <3>1
    <2>5. \A i \in 0 .. n : f[i] = IF i < 10 THEN 1 ELSE 1 + f[i \div 10]
      <3> SUFFICES ASSUME NEW i \in 0 .. n PROVE f[i] = IF i < 10 THEN 1 ELSE 1 + f[i \div 10]
        OBVIOUS
      <3>1. CASE i < 10
        BY <3>1
      <3>2. CASE ~(i < 10)
        <4>1. i \in Nat /\ n \in Nat /\ i <= n /\ i >= 10
          BY <3>2, <1>2
        <4> DEFINE m == i \div 10
        <4>2. m \in Nat /\ m < i
          BY <4>1, TenthFacts
        <4> HIDE DEF m
        <4>3. m \in 0 .. n - 1
          BY <4>1, <4>2
        <4>4. f[i] = 1 + old[m]
          BY <3>2 DEF m
        <4> HIDE DEF f
        <4>5. f[i] = 1 + f[m]
          BY <2>4, <4>3, <4>4
        <4> QED BY <3>2, <4>5 DEF m
      <3> QED BY <3>1, <3>2
    <2>6. f = [i \in 0 .. n |-> f[i]]
      OBVIOUS
    <2> HIDE DEF f
    <2>7. DigitsUpTo(f, n)
      BY <2>5, <2>6 DEF DigitsUpTo
    <2> QED BY <1>2, <2>7
  <1> QED BY <1>3, <1>4

\* So the recursion that Digits is defined by has a solution.
LEMMA DigitsRecursion ==
  ASSUME NEW n \in Nat
  PROVE  Digits[n] = IF n < 10 THEN 1 ELSE 1 + Digits[n \div 10]
  <1> DEFINE Count(k) == CHOOSE f : DigitsUpTo(f, k)
             all == [k \in Nat |-> Count(k)[k]]
  <1>1. \A k \in Nat : DigitsUpTo(Count(k), k)
    BY DigitsUpToExists
  <1> HIDE DEF Count
  <1>2. ASSUME NEW k \in Nat
        PROVE  all[k] = IF k < 10 THEN 1 ELSE 1 + all[k \div 10]
    <2> DEFINE f == Count(k)
    <2>1. DigitsUpTo(f, k)
      BY <1>1
    <2> HIDE DEF f
    <2>2. f[k] = IF k < 10 THEN 1 ELSE 1 + f[k \div 10]
      <3>1. k \in 0 .. k
        OBVIOUS
      <3> QED BY <2>1, <3>1 DEF DigitsUpTo
    <2>3. CASE k < 10
      BY <2>2, <2>3 DEF f
    <2>4. CASE ~(k < 10)
      <3> DEFINE m == k \div 10
                 g == Count(m)
      <3>1. m \in Nat /\ m < k
        BY <2>4, TenthFacts
      <3> HIDE DEF m
      <3>2. DigitsUpTo(g, m)
        BY <1>1, <3>1
      <3>3. all[k] = f[k] /\ all[m] = g[m]
        BY <3>1 DEF f
      <3> HIDE DEF g, all
      <3>4. m <= m /\ m <= k
        BY <3>1
      <3>5. f[m] = g[m]
        BY <2>1, <3>1, <3>2, <3>4, DigitsOneWay
      <3> QED BY <2>2, <2>4, <3>3, <3>5 DEF m
    <2> QED BY <2>3, <2>4
  <1>3. all = [k \in Nat |-> all[k]]
    OBVIOUS
  <1> HIDE DEF all
  <1>4. all = [k \in Nat |-> IF k < 10 THEN 1 ELSE 1 + all[k \div 10]]
    BY <1>2, <1>3
  <1>5. Digits = [k \in Nat |-> IF k < 10 THEN 1 ELSE 1 + Digits[k \div 10]]
    BY <1>4 DEF Digits
  <1> QED BY <1>5
\* f holds the powers of ten up to the k-th
TensUpTo(f, k) ==
  f = [n \in 0 .. k |-> IF n = 0 THEN 1 ELSE 10 * f[n - 1]]

\* Powers of ten are the same whatever the greatest one that is asked for.
LEMMA TensOneWay ==
  ASSUME NEW k \in Nat, NEW l \in Nat, NEW f, NEW g, TensUpTo(f, k), TensUpTo(g, l)
  PROVE  \A n \in Nat : n <= k /\ n <= l => f[n] = g[n]
  <1> DEFINE Bad == {n \in Nat : n <= k /\ n <= l /\ f[n] # g[n]}
  <1>1. SUFFICES ASSUME Bad # {} PROVE FALSE
    OBVIOUS
  <1>2. PICK n \in Bad : \A m \in Bad : n <= m
    <2>1. Bad \subseteq Nat
      OBVIOUS
    <2> HIDE DEF Bad
    <2> QED BY <1>1, <2>1, LeastElement
  <1>3. n \in Nat /\ n <= k /\ n <= l /\ f[n] # g[n]
    BY <1>2
  <1>4. /\ f[n] = IF n = 0 THEN 1 ELSE 10 * f[n - 1]
        /\ g[n] = IF n = 0 THEN 1 ELSE 10 * g[n - 1]
    <2>1. n \in 0 .. k /\ n \in 0 .. l
      BY <1>3
    <2> QED BY <2>1 DEF TensUpTo
  <1>5. n # 0
    BY <1>3, <1>4
  <1> DEFINE m == n - 1
  <1>6. m \in Nat /\ m < n
    BY <1>3, <1>5
  <1>7. f[m] # g[m]
    BY <1>3, <1>4, <1>5
  <1> HIDE DEF m
  <1>8. m <= k /\ m <= l
    BY <1>3, <1>6
  <1>9. m \in Bad
    BY <1>6, <1>7, <1>8
  <1> QED BY <1>2, <1>3, <1>6, <1>9

\* There are powers of ten up to any.
LEMMA TensUpToExist ==
  ASSUME NEW k \in Nat
  PROVE  \E f : TensUpTo(f, k)
  <1> DEFINE Bad == {n \in Nat : ~\E f : TensUpTo(f, n)}
  <1>1. SUFFICES ASSUME Bad # {} PROVE FALSE
    OBVIOUS
  <1>2. PICK n \in Bad : \A m \in Bad : n <= m
    <2>1. Bad \subseteq Nat
      OBVIOUS
    <2> HIDE DEF Bad
    <2> QED BY <1>1, <2>1, LeastElement
  <1>3. CASE n = 0
    <2> DEFINE f == [i \in 0 .. 0 |-> 1]
    <2>1. TensUpTo(f, 0)
      BY DEF TensUpTo
    <2> QED BY <1>2, <1>3, <2>1
  <1>4. CASE n # 0
    <2>1. n - 1 \in Nat /\ n - 1 \notin Bad
      BY <1>2, <1>4
    <2>2. PICK old : TensUpTo(old, n - 1)
      BY <2>1
    <2> DEFINE f == [i \in 0 .. n |-> IF i = 0 THEN 1 ELSE 10 * old[i - 1]]
    <2>3. \A i \in 0 .. n - 1 : old[i] = IF i = 0 THEN 1 ELSE 10 * old[i - 1]
      BY <2>2 DEF TensUpTo
    <2>4. \A i \in 0 .. n - 1 : f[i] = old[i]
      <3>1. 0 .. n - 1 \subseteq 0 .. n
        BY <2>1
      <3> QED BY <2>3, <3>1
    <2>5. \A i \in 0 .. n : f[i] = IF i = 0 THEN 1 ELSE 10 * f[i - 1]
      <3> SUFFICES ASSUME NEW i \in 0 .. n PROVE f[i] = IF i = 0 THEN 1 ELSE 10 * f[i - 1]
        OBVIOUS
      <3>1. CASE i = 0
        BY <3>1
      <3>2. CASE i # 0
        <4>1. i \in Nat /\ n \in Nat /\ i <= n /\ i # 0
          BY <3>2, <1>2
        <4> DEFINE m == i - 1
        <4>2. m \in Nat /\ m < i
          BY <4>1
        <4> HIDE DEF m
        <4>3. m \in 0 .. n - 1
          BY <4>1, <4>2
        <4>4. f[i] = 10 * old[m]
          BY <3>2 DEF m
        <4> HIDE DEF f
        <4>5. f[i] = 10 * f[m]
          BY <2>4, <4>3, <4>4
        <4> QED BY <3>2, <4>5 DEF m
      <3> QED BY <3>1, <3>2
    <2>6. f = [i \in 0 .. n |-> f[i]]
      OBVIOUS
    <2> HIDE DEF f
    <2>7. TensUpTo(f, n)
      BY <2>5, <2>6 DEF TensUpTo
    <2> QED BY <1>2, <2>7
  <1> QED BY <1>3, <1>4

\* So the recursion that TenTo is defined by has a solution.
LEMMA TenToRecursion ==
  ASSUME NEW n \in Nat
  PROVE  TenTo[n] = IF n = 0 THEN 1 ELSE 10 * TenTo[n - 1]
  <1> DEFINE Powers(k) == CHOOSE f : TensUpTo(f, k)
             all == [k \in Nat |-> Powers(k)[k]]
  <1>1. \A k \in Nat : TensUpTo(Powers(k), k)
    BY TensUpToExist
  <1> HIDE DEF Powers
  <1>2. ASSUME NEW k \in Nat
        PROVE  all[k] = IF k = 0 THEN 1 ELSE 10 * all[k - 1]
    <2> DEFINE f == Powers(k)
    <2>1. TensUpTo(f, k)
      BY <1>1
    <2> HIDE DEF f
    <2>2. f[k] = IF k = 0 THEN 1 ELSE 10 * f[k - 1]
      <3>1. k \in 0 .. k
        OBVIOUS
      <3> QED BY <2>1, <3>1 DEF TensUpTo
    <2>3. CASE k = 0
      BY <2>2, <2>3 DEF f
    <2>4. CASE k # 0
      <3> DEFINE m == k - 1
                 g == Powers(m)
      <3>1. m \in Nat /\ m < k
        BY <2>4
      <3> HIDE DEF m
      <3>2. TensUpTo(g, m)
        BY <1>1, <3>1
      <3>3. all[k] = f[k] /\ all[m] = g[m]
        BY <3>1 DEF f
      <3> HIDE DEF g, all
      <3>4. m <= m /\ m <= k
        BY <3>1
      <3>5. f[m] = g[m]
        BY <2>1, <3>1, <3>2, <3>4, TensOneWay
      <3> QED BY <2>2, <2>4, <3>3, <3>5 DEF m
    <2> QED BY <2>3, <2>4
  <1>3. all = [k \in Nat |-> all[k]]
    OBVIOUS
  <1> HIDE DEF all
  <1>4. all = [k \in Nat |-> IF k = 0 THEN 1 ELSE 10 * all[k - 1]]
    BY <1>2, <1>3
  <1>5. TenTo = [k \in Nat |-> IF k = 0 THEN 1 ELSE 10 * TenTo[k - 1]]
    BY <1>4 DEF TenTo
  <1> QED BY <1>5

\* Powers of ten and numbers of digits are positive.
LEMMA TenToPositive ==
  ASSUME NEW w \in Nat
  PROVE  TenTo[w] \in Nat \ {0}
  <1> DEFINE Bad == {v \in Nat : TenTo[v] \notin Nat \ {0}}
  <1>1. SUFFICES ASSUME Bad # {} PROVE FALSE
    OBVIOUS
  <1>2. PICK v \in Bad : \A u \in Bad : v <= u
    <2>1. Bad \subseteq Nat
      OBVIOUS
    <2> HIDE DEF Bad
    <2> QED BY <1>1, <2>1, LeastElement
  <1>3. v \in Nat /\ TenTo[v] = IF v = 0 THEN 1 ELSE 10 * TenTo[v - 1]
    BY <1>2, TenToRecursion
  <1>4. v # 0 => v - 1 \in Nat /\ v - 1 \notin Bad
    BY <1>2, <1>3
  <1>5. v # 0 => TenTo[v - 1] \in Nat \ {0}
    BY <1>4
  <1> QED BY <1>2, <1>3, <1>5

LEMMA DigitsPositive ==
  ASSUME NEW n \in Nat
  PROVE  Digits[n] \in Nat \ {0}
  <1> DEFINE Bad == {v \in Nat : Digits[v] \notin Nat \ {0}}
  <1>1. SUFFICES ASSUME Bad # {} PROVE FALSE
    OBVIOUS
  <1>2. PICK v \in Bad : \A u \in Bad : v <= u
    <2>1. Bad \subseteq Nat
      OBVIOUS
    <2> HIDE DEF Bad
    <2> QED BY <1>1, <2>1, LeastElement
  <1> DEFINE u == v \div 10
  <1>3. v \in Nat /\ Digits[v] = IF v < 10 THEN 1 ELSE 1 + Digits[u]
    BY <1>2, DigitsRecursion
  <1>4. v >= 10 => u \in Nat /\ u < v
    BY <1>3, TenthFacts
  <1> HIDE DEF u
  <1>5. v >= 10 => u \notin Bad
    BY <1>2, <1>3, <1>4
  <1>6. v >= 10 => Digits[u] \in Nat \ {0}
    BY <1>4, <1>5
  <1> QED BY <1>2, <1>3, <1>6

\* A number has more than w digits when it is at least the w-th power of ten.
LEMMA WideNumbers ==
  ASSUME NEW n \in Nat, NEW w \in Nat \ {0}
  PROVE  Digits[n] > w <=> n >= TenTo[w]
  <1> DEFINE Right(v) == \A x \in Nat \ {0} : Digits[v] > x <=> v >= TenTo[x]
             Bad == {v \in Nat : ~Right(v)}
  <1>1. SUFFICES ASSUME Bad # {} PROVE FALSE
    OBVIOUS
  <1>2. PICK v \in Bad : \A u \in Bad : v <= u
    <2>1. Bad \subseteq Nat
      OBVIOUS
    <2> HIDE DEF Bad
    <2> QED BY <1>1, <2>1, LeastElement
  <1>3. v \in Nat /\ ~Right(v)
    BY <1>2
  <1>4. PICK x \in Nat \ {0} : ~(Digits[v] > x <=> v >= TenTo[x])
    BY <1>3
  <1> DEFINE y == x - 1
             u == v \div 10
             ten == TenTo[y]
  <1>5. y \in Nat /\ ten \in Nat \ {0} /\ TenTo[x] = 10 * ten
    BY TenToRecursion, TenToPositive
  <1>6. Digits[v] = IF v < 10 THEN 1 ELSE 1 + Digits[u]
    BY <1>3, DigitsRecursion
  <1>7. /\ u \in Nat /\ (v >= 10 => u < v /\ u >= 1) /\ (u >= ten <=> v >= 10 * ten)
        /\ Digits[u] \in Nat \ {0}
    BY <1>3, <1>5, TenthFacts, DigitsPositive
  <1> HIDE DEF u, ten
  <1>8. v >= 10
    <2>1. CASE v < 10
      <3>1. Digits[v] = 1 /\ ~(1 > x) /\ ~(v >= 10 * ten)
        BY <1>3, <1>5, <1>6, <2>1
      <3> QED BY <1>4, <1>5, <3>1
    <2> QED BY <1>3, <2>1
  <1>9. u \notin Bad
    BY <1>2, <1>3, <1>7, <1>8
  <1>10. Right(u)
    BY <1>7, <1>9
  <1>11. CASE x = 1
    <2>1. ten = 1
      BY <1>5, <1>11, TenToRecursion DEF ten
    <2>2. Digits[v] > x /\ v >= 10 * ten
      BY <1>3, <1>6, <1>7, <1>8, <1>11, <2>1
    <2> QED BY <1>4, <1>5, <2>2
  <1>12. CASE x # 1
    <2>1. y \in Nat \ {0}
      BY <1>12
    <2>2. Digits[u] > y <=> u >= ten
      BY <1>10, <2>1 DEF ten
    <2>3. Digits[v] = 1 + Digits[u]
      BY <1>3, <1>6, <1>8
    <2>4. Digits[v] > x <=> Digits[u] > y
      BY <1>7, <2>3
    <2> QED BY <1>4, <1>5, <1>7, <2>2, <2>4
  <1> QED BY <1>11, <1>12

-----------------------------------------------------------------------------
(* The backpatch refuses what does not fit, and nothing else. *)

Values == Compute(br, Len(buf))
TooWide == \E k \in 1 .. 4 : Values[k] >= TenTo[IntWidth]

\* the placeholder has its one length, an unfinished file has no section, and
\* only a digest over something gets as far as an injection
WidthInv ==
  /\ IInv
  /\ br.brLen > 0 => br.brLen = PlaceholderLength
  /\ pc \in {"start", "objects", "dict", "xref"} => xref = NoXref
  /\ pc \in {"hashed", "done"} => hashed # <<>>
  /\ RefusedIffTooWide

\* The formatted values are as long as the placeholder when each of them fits.
LEMMA FitsOrNot ==
  ASSUME NEW v, \A k \in 1 .. 4 : v[k] \in Nat
  PROVE  FormattedLength(v) # PlaceholderLength <=> \E k \in 1 .. 4 : v[k] >= TenTo[IntWidth]
  <1> DEFINE Width(n) == IF Digits[n] > IntWidth THEN Digits[n] ELSE IntWidth
             w == IntWidth
             Wide(n) == n >= TenTo[IntWidth]
  <1>1. w \in Nat \ {0}
    BY WriterAssumption
  <1>2. \A k \in 1 .. 4 : /\ Width(v[k]) \in Nat /\ Width(v[k]) >= w
                          /\ (Width(v[k]) > w <=> Wide(v[k]))
    <2> SUFFICES ASSUME NEW k \in 1 .. 4
                 PROVE  /\ Width(v[k]) \in Nat /\ Width(v[k]) >= w
                        /\ (Width(v[k]) > w <=> Wide(v[k]))
      OBVIOUS
    <2> DEFINE n == v[k]
    <2>1. n \in Nat
      OBVIOUS
    <2> HIDE DEF n
    <2>2. Digits[n] \in Nat /\ (Digits[n] > w <=> Wide(n))
      BY <1>1, <2>1, DigitsPositive, WideNumbers
    <2> HIDE DEF Wide
    <2>3. Width(n) \in Nat /\ Width(n) >= w /\ (Width(n) > w <=> Wide(n))
      BY <1>1, <2>2
    <2> QED BY <2>3 DEF n
  <1>3. FormattedLength(v) = Width(v[1]) + Width(v[2]) + Width(v[3]) + Width(v[4]) + 5
    BY DEF FormattedLength
  <1>4. PlaceholderLength = 4 * w + 5
    BY DEF PlaceholderLength
  <1>5. 1 \in 1 .. 4 /\ 2 \in 1 .. 4 /\ 3 \in 1 .. 4 /\ 4 \in 1 .. 4
        /\ \A k \in 1 .. 4 : k = 1 \/ k = 2 \/ k = 3 \/ k = 4
    OBVIOUS
  <1> DEFINE w1 == Width(v[1])
             w2 == Width(v[2])
             w3 == Width(v[3])
             w4 == Width(v[4])
  <1>6. /\ w1 \in Nat /\ w2 \in Nat /\ w3 \in Nat /\ w4 \in Nat
        /\ w1 >= w /\ w2 >= w /\ w3 >= w /\ w4 >= w
        /\ (w1 > w <=> Wide(v[1])) /\ (w2 > w <=> Wide(v[2]))
        /\ (w3 > w <=> Wide(v[3])) /\ (w4 > w <=> Wide(v[4]))
    BY <1>2, <1>5
  <1> HIDE DEF w1, w2, w3, w4, w
  <1>7. w1 + w2 + w3 + w4 + 5 # 4 * w + 5 <=> w1 > w \/ w2 > w \/ w3 > w \/ w4 > w
    BY <1>1, <1>6
  <1>8. FormattedLength(v) = w1 + w2 + w3 + w4 + 5 /\ PlaceholderLength = 4 * w + 5
    BY <1>3, <1>4 DEF w1, w2, w3, w4, w
  <1> HIDE DEF Wide
  <1>9. (\E k \in 1 .. 4 : Wide(v[k])) <=> Wide(v[1]) \/ Wide(v[2]) \/ Wide(v[3]) \/ Wide(v[4])
    BY <1>5
  <1>10. FormattedLength(v) # PlaceholderLength <=> \E k \in 1 .. 4 : Wide(v[k])
    BY <1>6, <1>7, <1>8, <1>9
  <1> QED BY <1>10 DEF Wide

\* The four integers are naturals once both placeholders are written.
LEMMA ValuesNat ==
  ASSUME IInv, br.found
  PROVE  /\ \A k \in 1 .. 4 : Values[k] \in Nat
         /\ Values[1] = 0 /\ Values[2] \in Nat \ {0} /\ br.brLen > 0
  <1>1. /\ br.coOff \in Nat /\ br.coLen \in Nat /\ Len(buf) \in Nat /\ br.coOff > 0 /\ br.brLen > 0
        /\ br.coOff > job.orig /\ job.orig \in Nat \ {0}
        /\ br.coOff + br.coLen + 1 <= Len(buf)
    <2>1. TypeOK /\ Order /\ ContentsPlace /\ job \in Jobs /\ buf \in Seq(ByteType) /\ br \in RangeType
      BY DEF IInv, TypeOK, Layout
    <2>2. br.coOff > 0 /\ br.brLen > 0
      BY <2>1 DEF Order
    <2>3. job.orig \in Nat \ {0}
      BY <2>1, JobFacts
    <2>4. br.coOff \in Nat /\ br.coLen \in Nat /\ Len(buf) \in Nat
      BY <2>1 DEF RangeType
    <2> QED BY <2>1, <2>2, <2>3, <2>4 DEF ContentsPlace
  <1>2. Values = <<0, br.coOff - 1, br.coOff + br.coLen + 1, Len(buf) - (br.coOff + br.coLen + 1)>>
    BY DEF Values, Compute
  <1>3. /\ br.coOff - 1 \in Nat \ {0} /\ br.coOff + br.coLen + 1 \in Nat
        /\ Len(buf) - (br.coOff + br.coLen + 1) \in Nat
    BY <1>1
  <1>4. /\ Values[1] = 0 /\ Values[2] = br.coOff - 1 /\ Values[3] = br.coOff + br.coLen + 1
        /\ Values[4] = Len(buf) - (br.coOff + br.coLen + 1)
    BY <1>2
  <1>5. \A k \in 1 .. 4 : k = 1 \/ k = 2 \/ k = 3 \/ k = 4
    OBVIOUS
  <1> QED BY <1>1, <1>3, <1>4, <1>5

\* The property in the terms above.
LEMMA RefusedMeans ==
  RefusedIffTooWide <=>
    /\ pc \in {"written", "hashed", "done"} => ~TooWide
    /\ pc = "error" /\ xref # NoXref /\ hashed = <<>> => TooWide
  BY DEF RefusedIffTooWide, TooWide, Values

\* Backpatch goes on when the values fit the placeholder and fails otherwise.
LEMMA BackpatchWidth == WidthInv /\ Backpatch => WidthInv'
  <1> SUFFICES ASSUME WidthInv, Backpatch PROVE WidthInv'
    OBVIOUS
  <1>1. /\ IInv' /\ IInv /\ br.found /\ buf \in Seq(ByteType)
        /\ br.brLen > 0 => br.brLen = PlaceholderLength
    BY StepOK DEF Next, WidthInv, Backpatch, IInv, Order, TypeOK
  <1>2. /\ pc = "backpatch" /\ br' = br /\ xref' = xref /\ hashed' = hashed
        /\ IF FormattedLength(Values) # br.brLen
           THEN pc' = "error" /\ buf' = buf
           ELSE pc' = "written" /\ buf' = Overwrite(buf, br.brOff, "range", br.brLen)
    BY DEF Backpatch, Values
  <1>3. FormattedLength(Values) # br.brLen <=> TooWide
    BY <1>1, ValuesNat, FitsOrNot DEF TooWide
  <1>4. Len(buf') = Len(buf)
    <2>1. br.brOff \in Int /\ br.brLen \in Int /\ "range" \in Tag
      BY <1>1 DEF IInv, TypeOK, RangeType, Tag
    <2> DEFINE c == Overwrite(buf, br.brOff, "range", br.brLen)
    <2>2. Len(c) = Len(buf)
      BY <1>1, <2>1, OverwriteSeq
    <2>3. buf' = buf \/ buf' = c
      BY <1>2
    <2> HIDE DEF c
    <2> QED BY <2>2, <2>3
  <1>5. TooWide' <=> TooWide
    BY <1>2, <1>4 DEF TooWide, Values
  <1>6. RefusedIffTooWide'
    <2>1. pc' = "error" => TooWide
      BY <1>2, <1>3
    <2>2. pc' # "error" => pc' = "written" /\ ~TooWide
      BY <1>2, <1>3
    <2>3. /\ pc' \in {"written", "hashed", "done"} => ~TooWide'
          /\ pc' = "error" /\ xref' # NoXref /\ hashed' = <<>> => TooWide'
      BY <1>5, <2>1, <2>2
    <2> QED BY <2>3 DEF RefusedIffTooWide, TooWide, Values
  <1> QED BY <1>1, <1>2, <1>6 DEF WidthInv

\* Hash selects a range that is not empty.
LEMMA HashWidth == WidthInv /\ Hash => WidthInv'
  <1> SUFFICES ASSUME WidthInv, Hash PROVE WidthInv'
    OBVIOUS
  <1>1. IInv' /\ IInv /\ br.found
    BY StepOK DEF Next, WidthInv, Hash, IInv, Order
  <1>2. /\ pc = "written" /\ pc' = "hashed" /\ br' = br /\ xref' = xref /\ buf' = buf
        /\ hashed' = [i \in Covered(Values) |-> buf[i]]
    BY DEF Hash, Values
  <1>3. 1 \in Covered(Values)
    <2>1. Values[1] = 0 /\ Values[2] \in Nat \ {0}
      BY <1>1, ValuesNat
    <2>2. 1 \in Values[1] + 1 .. Values[1] + Values[2]
      BY <2>1
    <2> QED BY <2>2 DEF Covered
  <1>4. hashed' # <<>>
    <2>1. DOMAIN hashed' # {}
      BY <1>2, <1>3
    <2> QED BY <2>1
  <1>5. RefusedIffTooWide'
    BY <1>2 DEF WidthInv, RefusedIffTooWide
  <1> QED BY <1>1, <1>2, <1>4, <1>5 DEF WidthInv

\* Inject keeps the length of the file.
LEMMA InjectWidth == ASSUME NEW n \in CmsLengths PROVE WidthInv /\ Inject(n) => WidthInv'
  <1> SUFFICES ASSUME WidthInv, Inject(n) PROVE WidthInv'
    OBVIOUS
  <1> DEFINE off == br.coOff
             m == 2 * n
             one == Overwrite(buf, off, "cms", m)
             c == Overwrite(one, off + m, "pad", br.coLen - m)
  <1>1. IInv' /\ IInv /\ buf \in Seq(ByteType) /\ off \in Int /\ br.coLen \in Int /\ m \in Int
    BY StepOK, WriterAssumption DEF Next, WidthInv, IInv, TypeOK, RangeType
  <1>2. /\ pc = "hashed" /\ pc' \in {"error", "done"} /\ br' = br /\ xref' = xref
        /\ hashed' = hashed /\ (buf' = buf \/ buf' = c) /\ hashed # <<>>
    BY DEF Inject, WidthInv
  <1>3. Len(c) = Len(buf)
    <2>1. "cms" \in Tag /\ "pad" \in Tag
      BY DEF Tag
    <2> DEFINE from == off + m
               k == br.coLen - m
    <2>2. from \in Int /\ k \in Int
      BY <1>1
    <2> HIDE DEF from, k, m
    <2>3. one \in Seq(ByteType) /\ Len(one) = Len(buf)
      BY <1>1, <2>1, OverwriteSeq
    <2> HIDE DEF one
    <2>4. Len(Overwrite(one, from, "pad", k)) = Len(one)
      BY <2>1, <2>2, <2>3, OverwriteSeq
    <2> QED BY <2>3, <2>4 DEF from, k
  <1> HIDE DEF c
  <1>4. TooWide' <=> TooWide
    BY <1>2, <1>3 DEF TooWide, Values
  <1>5. RefusedIffTooWide'
    <2>1. ~TooWide
      BY <1>2, RefusedMeans DEF WidthInv
    <2>2. /\ pc' \in {"written", "hashed", "done"} => ~TooWide'
          /\ pc' = "error" /\ xref' # NoXref /\ hashed' = <<>> => TooWide'
      BY <1>2, <1>4, <2>1
    <2> QED BY <2>2 DEF RefusedIffTooWide, TooWide, Values
  <1> QED BY <1>1, <1>2, <1>5 DEF WidthInv

\* Before the section is written no step can go wrong this way.
LEMMA EarlyWidth ==
  ASSUME WidthInv, Start \/ WriteObject \/ OpenSigDict \/ WriteByteRangeKey \/ WriteContentsKey
                   \/ WriteOtherKey \/ CloseSigDict \/ FinishObjects \/ WriteXrefTable
                   \/ WriteXrefStream
  PROVE  WidthInv'
  <1>1. IInv' /\ br \in RangeType
    BY StepOK DEF Next, WidthInv, IInv, TypeOK
  <1>2. /\ pc \in {"start", "objects", "dict", "xref"} /\ xref = NoXref
        /\ br.brLen > 0 => br.brLen = PlaceholderLength
    BY DEF WidthInv, Start, WriteObject, OpenSigDict, WriteByteRangeKey, WriteContentsKey,
           WriteOtherKey, CloseSigDict, FinishObjects, WriteXrefTable, WriteXrefStream
  <1>3. pc' \in {"objects", "dict", "xref", "backpatch", "error"}
    BY <1>2 DEF Start, WriteObject, OpenSigDict, WriteByteRangeKey, WriteContentsKey,
                WriteOtherKey, CloseSigDict, FinishObjects, WriteXrefTable, WriteXrefStream
  <1>4. pc' # "backpatch" => xref' = NoXref
    BY <1>2 DEF Start, WriteObject, OpenSigDict, WriteByteRangeKey, WriteContentsKey,
                WriteOtherKey, CloseSigDict, FinishObjects, WriteXrefTable, WriteXrefStream
  <1>5. br'.brLen > 0 => br'.brLen = PlaceholderLength
    <2>1. CASE OpenSigDict
      BY <2>1 DEF OpenSigDict, NoRange
    <2>2. CASE WriteByteRangeKey
      BY <1>1, <2>2 DEF WriteByteRangeKey, RangeType
    <2>3. CASE Start \/ WriteObject \/ WriteContentsKey \/ WriteOtherKey \/ CloseSigDict
               \/ FinishObjects \/ WriteXrefTable \/ WriteXrefStream
      <3>1. br'.brLen = br.brLen
        BY <1>1, <2>3 DEF Start, WriteObject, WriteContentsKey, WriteOtherKey, CloseSigDict,
                          FinishObjects, WriteXrefTable, WriteXrefStream, RangeType
      <3> QED BY <1>2, <3>1
    <2> QED BY <2>1, <2>2, <2>3
  <1>6. RefusedIffTooWide'
    BY <1>3, <1>4 DEF RefusedIffTooWide
  <1> QED BY <1>1, <1>3, <1>4, <1>5, <1>6 DEF WidthInv

\* The backpatch refuses a file exactly when one of the four integers no longer
\* fits the fixed-width placeholder, for every width.
THEOREM RefusedCorrect == Spec => []RefusedIffTooWide
  <1>1. Init => WidthInv
    <2> SUFFICES ASSUME Init PROVE WidthInv
      OBVIOUS
    <2>1. IInv
      BY InitOK
    <2> QED BY <2>1 DEF Init, WidthInv, NoRange, RefusedIffTooWide
  <1>2. WidthInv /\ [Next]_vars => WidthInv'
    <2> SUFFICES ASSUME WidthInv, [Next]_vars PROVE WidthInv'
      OBVIOUS
    <2>1. CASE UNCHANGED vars
      <3>1. IInv'
        BY StepOK DEF WidthInv
      <3> QED BY <2>1, <3>1 DEF vars, WidthInv, RefusedIffTooWide
    <2>2. CASE \E n \in CmsLengths : Inject(n)
      BY <2>2, InjectWidth
    <2> QED BY <2>1, <2>2, EarlyWidth, BackpatchWidth, HashWidth DEF Next
  <1>3. WidthInv => RefusedIffTooWide
    BY DEF WidthInv
  <1> QED BY <1>1, <1>2, <1>3, PTL DEF Spec
=============================================================================
