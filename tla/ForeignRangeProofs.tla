-------------------------- MODULE ForeignRangeProofs --------------------------
(***************************************************************************)
(* Nothing hides behind a ByteRange that passes: for every file, every     *)
(* range of naturals and every /Contents, however they were put together.  *)
(* The checks of verify_byte_range_ex are followed one by one to what they *)
(* leave out; the invariant only remembers that they were made.            *)
(***************************************************************************)
EXTENDS ForeignRange, FiniteSetTheorems, WellFoundedInduction, TLAPS

-----------------------------------------------------------------------------
(* What the extractor keeps of a hex string. *)

\* Every nonempty set of naturals has a least element.
LEMMA LeastElement ==
  ASSUME NEW T, T \subseteq Nat, T # {}
  PROVE  \E x \in T : \A y \in T : x <= y
<1> DEFINE R == OpToRel(<, Nat)
<1>1. IsWellFoundedOn(R, Nat)  BY NatLessThanWellFounded
<1>2. \E x \in T : \A y \in T : ~(<<y, x>> \in R)
  <2> HIDE DEF R
  <2> QED BY <1>1, WFMin
<1>3. \E x \in T : \A y \in T : ~(y < x)
  BY <1>2 DEF OpToRel
<1> HIDE DEF R
<1> QED BY <1>3

\* Every nonempty set of naturals with a bound has a greatest element.
LEMMA GreatestElement ==
  ASSUME NEW S, S \subseteq Nat, S # {}, NEW b \in Nat, \A s \in S : s <= b
  PROVE  \E m \in S : \A s \in S : s <= m
<1> DEFINE T == {c \in Nat : \A s \in S : s <= c}
<1>1. T \subseteq Nat /\ T # {}  OBVIOUS
<1>2. PICK x \in T : \A y \in T : x <= y
  <2> HIDE DEF T
  <2> QED BY <1>1, LeastElement
<1>3. x \in Nat /\ \A s \in S : s <= x  BY <1>2
<1>4. \A c \in Nat : (\A s \in S : s <= c) => x <= c  BY <1>2
<1> HIDE DEF T
<1>5. SUFFICES ASSUME x \notin S PROVE FALSE  BY <1>3
<1>6. PICK s \in S : TRUE  OBVIOUS
<1>7. s \in Nat /\ s <= x /\ s # x  BY <1>3, <1>5
<1>8. x - 1 \in Nat  BY <1>3, <1>7
<1>9. \A t \in S : t \in Nat /\ t <= x /\ t # x  BY <1>3, <1>5
<1>10. \A t \in S : t <= x - 1  BY <1>3, <1>9
<1> QED BY <1>3, <1>4, <1>8, <1>10

\* Some number of bytes is what the extractor keeps: up to the last that is not zero.
LEMMA TrimFacts ==
  ASSUME NEW S, NEW bytes \in Seq(S)
  PROVE  \E n \in 0 .. Len(bytes) :
            /\ TrimPadding(bytes) = SubSeq(bytes, 1, n)
            /\ AllZero(SubSeq(bytes, n + 1, Len(bytes)))
            /\ n > 0 => bytes[n] # Zero
  <1> DEFINE Kept1(n) == /\ AllZero(SubSeq(bytes, n + 1, Len(bytes)))
                         /\ n > 0 => bytes[n] # Zero
             Some == {k \in 1 .. Len(bytes) : bytes[k] # Zero}
  <1>1. Len(bytes) \in Nat
    OBVIOUS
  <1>2. \A n \in 0 .. Len(bytes) :
          (\A k \in n + 1 .. Len(bytes) : bytes[k] = Zero)
            => AllZero(SubSeq(bytes, n + 1, Len(bytes)))
    <2> SUFFICES ASSUME NEW n \in 0 .. Len(bytes),
                        \A k \in n + 1 .. Len(bytes) : bytes[k] = Zero,
                        NEW k \in DOMAIN SubSeq(bytes, n + 1, Len(bytes))
                 PROVE  SubSeq(bytes, n + 1, Len(bytes))[k] = Zero
      BY DEF AllZero
    <2>1. k \in 1 .. Len(bytes) - n /\ n \in Nat
      BY <1>1
    <2>2. SubSeq(bytes, n + 1, Len(bytes))[k] = bytes[n + k]
      BY <1>1, <2>1
    <2>3. n + k \in n + 1 .. Len(bytes)
      BY <1>1, <2>1
    <2> QED BY <2>2, <2>3
  <1>3. \E n \in 0 .. Len(bytes) : Kept1(n)
    <2>1. CASE Some = {}
      <3>1. 0 \in 0 .. Len(bytes) /\ \A k \in 0 + 1 .. Len(bytes) : bytes[k] = Zero
        BY <1>1, <2>1
      <3> QED BY <1>2, <3>1
    <2>2. CASE Some # {}
      <3>1. PICK n \in Some : \A k \in Some : k <= n
        <4>1. Some \subseteq Nat /\ \A k \in Some : k <= Len(bytes)
          BY <1>1
        <4> HIDE DEF Some
        <4> QED BY <1>1, <2>2, <4>1, GreatestElement
      <3>2. n \in 0 .. Len(bytes) /\ bytes[n] # Zero
        BY <1>1, <3>1
      <3>3. \A k \in n + 1 .. Len(bytes) : bytes[k] = Zero
        BY <1>1, <3>1
      <3>4. Kept1(n)
        BY <1>2, <3>2, <3>3
      <3> QED BY <3>2, <3>4
    <2> QED BY <2>1, <2>2
  <1> DEFINE kept == CHOOSE n \in 0 .. Len(bytes) : Kept1(n)
  <1>4. TrimPadding(bytes) = SubSeq(bytes, 1, kept)
    BY DEF TrimPadding
  <1>5. kept \in 0 .. Len(bytes) /\ Kept1(kept)
    <2> HIDE DEF Kept1
    <2> QED BY <1>3
  <1> QED BY <1>4, <1>5
\* A signature without trailing zero bytes is what the extractor keeps of it and
\* any padding.
LEMMA TrimmedBack ==
  ASSUME NEW S, NEW bytes \in Seq(S), NEW n \in 0 .. Len(bytes),
         AllZero(SubSeq(bytes, n + 1, Len(bytes))), n > 0 => bytes[n] # Zero
  PROVE  TrimPadding(bytes) = SubSeq(bytes, 1, n)
  <1>1. PICK k \in 0 .. Len(bytes) :
          /\ TrimPadding(bytes) = SubSeq(bytes, 1, k)
          /\ AllZero(SubSeq(bytes, k + 1, Len(bytes)))
          /\ k > 0 => bytes[k] # Zero
    BY TrimFacts
  <1>2. Len(bytes) \in Nat
    OBVIOUS
  <1>3. ASSUME NEW lo \in 0 .. Len(bytes), NEW hi \in 0 .. Len(bytes), lo < hi,
               AllZero(SubSeq(bytes, lo + 1, Len(bytes)))
        PROVE  bytes[hi] = Zero
    <2>1. hi - lo \in 1 .. Len(bytes) - lo
      BY <1>2, <1>3
    <2>2. hi - lo \in DOMAIN SubSeq(bytes, lo + 1, Len(bytes))
      BY <1>2, <2>1
    <2>3. SubSeq(bytes, lo + 1, Len(bytes))[hi - lo] = bytes[hi]
      BY <1>2, <2>1
    <2> QED BY <1>3, <2>2, <2>3 DEF AllZero
  <1>4. ~(k < n) /\ ~(n < k)
    BY <1>1, <1>2, <1>3
  <1>5. k = n
    BY <1>2, <1>4
  <1> QED BY <1>1, <1>5

\* The bytes of a hex string are a sequence, whatever it is made of.
LEMMA DecodedSeq ==
  ASSUME NEW S, NEW chars \in Seq(S)
  PROVE  /\ BytesOf(Digits16(chars)) \in Seq(Range(BytesOf(Digits16(chars))))
         /\ Len(BytesOf(Digits16(chars))) \in Nat
  <1> DEFINE at == {i \in DOMAIN chars : IsHex(chars[i])}
             d == Digits16(chars)
             n == (Len(d) + 1) \div 2
  <1>1. Len(d) \in Nat
    <2>1. IsFiniteSet(1 .. Len(chars)) /\ at \subseteq 1 .. Len(chars)
      <3> DEFINE m == Len(chars)
      <3>1. m \in Int /\ 1 \in Int /\ DOMAIN chars = 1 .. m
        OBVIOUS
      <3> HIDE DEF m
      <3>2. IsFiniteSet(1 .. m)
        BY <3>1, FS_Interval
      <3> QED BY <3>1, <3>2 DEF m
    <2>2. Cardinality(at) \in Nat
      <3> HIDE DEF at
      <3> QED BY <2>1, FS_Subset, FS_CardinalityType
    <2>3. DOMAIN d = 1 .. Cardinality(at)
      BY DEF Digits16
    <2> HIDE DEF d, at
    <2> QED BY <2>2, <2>3
  <1> HIDE DEF d
  <1>2. n \in Nat /\ DOMAIN BytesOf(d) = 1 .. n /\ BytesOf(d) = [k \in 1 .. n |-> BytesOf(d)[k]]
    BY <1>1 DEF BytesOf
  <1> HIDE DEF n
  <1>3. Len(BytesOf(d)) = n
    BY <1>2
  <1> QED BY <1>2, <1>3 DEF d, Range

-----------------------------------------------------------------------------
(* Positions. *)

\* The ranges of a signature that passes are apart, so no position counts twice.
LEMMA DigestedCount ==
  ASSUME NEW r \in [1 .. 4 -> Nat], End1(r) <= r[3]
  PROVE  Cardinality(Digested(r)) = r[2] + r[4]
  <1> DEFINE a == r[1]
             b == r[1] + r[2]
             c == r[3]
             d == r[3] + r[4]
             A == a + 1 .. b
             B == c + 1 .. d
  <1>1. /\ a \in Nat /\ b \in Nat /\ c \in Nat /\ d \in Nat /\ a <= b /\ b <= c /\ c <= d
        /\ r[2] = b - a /\ r[4] = d - c /\ a + 1 \in Int /\ c + 1 \in Int /\ b \in Int /\ d \in Int
    BY DEF End1
  <1>2. Digested(r) = A \cup B
    BY DEF Digested, End1, End2
  <1> HIDE DEF a, b, c, d
  <1>3. IsFiniteSet(A) /\ Cardinality(A) = b - a
    <2>1. IsFiniteSet(a + 1 .. b) /\ Cardinality(a + 1 .. b) = IF a + 1 > b THEN 0 ELSE b - (a + 1) + 1
      BY <1>1, FS_Interval
    <2> QED BY <1>1, <2>1
  <1>4. IsFiniteSet(B) /\ Cardinality(B) = d - c
    <2>1. IsFiniteSet(c + 1 .. d) /\ Cardinality(c + 1 .. d) = IF c + 1 > d THEN 0 ELSE d - (c + 1) + 1
      BY <1>1, FS_Interval
    <2> QED BY <1>1, <2>1
  <1>5. A \cap B = {}
    BY <1>1
  <1> HIDE DEF A, B
  <1>6. Cardinality(A \cup B) = Cardinality(A) + Cardinality(B) - Cardinality(A \cap B)
    BY <1>3, <1>4, FS_Union
  <1>7. Cardinality(A \cap B) = 0
    BY <1>5, FS_EmptySet
  <1> QED BY <1>1, <1>2, <1>3, <1>4, <1>6, <1>7

\* What was decided is kept with the file it was decided on.
Decided ==
  /\ data \in Files /\ range \in Ranges
  /\ state = "parsed" => contents \in Parsed
  /\ state # "parsed" => \E p \in Parsed : contents = TrimPadding(p)
  /\ state \in {"final", "earlier"} => IntegrityOk(data, range, contents, state = "final")

\* A gap that was looked at is one hex string, that of the signature.
LEMMA GapMeans ==
  ASSUME NEW S, NEW d \in Seq(S), NEW r \in [1 .. 4 -> Nat], NEW final \in BOOLEAN,
         NEW p \in Seq(HexDigit \X HexDigit), NEW c, c = TrimPadding(p),
         IntegrityOk(d, r, c, final), End1(r) < r[3], r[3] <= Len(d)
  PROVE  LET gap == Slice(d, End1(r), r[3])
         IN  /\ Delimited(gap)
             /\ \A k \in DOMAIN Inner(gap) : Inner(gap)[k] # <<"x", 0>>
             /\ TrimPadding(BytesOf(Digits16(Inner(gap)))) = c
  <1> DEFINE gap == Slice(d, End1(r), r[3])
             decoded == BytesOf(Digits16(Inner(gap)))
  <1>1. End1(r) \in Nat /\ Len(d) \in Nat /\ r[3] \in Nat /\ End1(r) < Len(d)
    BY DEF End1
  <1>2. WellFormedGap(gap) /\ BindsContents(gap, c)
    BY <1>1 DEF IntegrityOk, GapOk
  <1>3. Delimited(gap)
    BY <1>2 DEF WellFormedGap
  <1>4. \A k \in DOMAIN Inner(gap) : Inner(gap)[k] # <<"x", 0>>
    <2> DEFINE inner == Inner(gap)
    <2>1. \A k \in DOMAIN inner : IsHex(inner[k]) \/ inner[k] = <<" ", 0>>
      BY <1>2 DEF WellFormedGap
    <2>2. ~IsHex(<<"x", 0>>) /\ <<"x", 0>> # <<" ", 0>>
      BY DEF IsHex
    <2> HIDE DEF inner
    <2>3. \A k \in DOMAIN inner : inner[k] # <<"x", 0>>
      BY <2>1, <2>2
    <2> QED BY <2>3 DEF inner
  <1>5. gap \in Seq(S) /\ Inner(gap) \in Seq(S)
    <2>1. gap = SubSeq(d, End1(r) + 1, r[3]) /\ \A i \in End1(r) + 1 .. r[3] : i \in 1 .. Len(d)
      BY <1>1 DEF Slice
    <2>2. gap \in Seq(S) /\ Len(gap) \in Nat
      BY <1>1, <2>1
    <2> HIDE DEF gap
    <2>3. Inner(gap) \in Seq(S)
      BY <2>2 DEF Inner
    <2> QED BY <2>2, <2>3
  <1>6. decoded \in Seq(Range(decoded)) /\ Len(decoded) \in Nat
    <2> DEFINE inner == Inner(gap)
    <2>1. inner \in Seq(S)
      BY <1>5
    <2> HIDE DEF inner
    <2>2. BytesOf(Digits16(inner)) \in Seq(Range(BytesOf(Digits16(inner))))
          /\ Len(BytesOf(Digits16(inner))) \in Nat
      BY <2>1, DecodedSeq
    <2> QED BY <2>2 DEF inner
  <1>7. /\ Len(c) <= Len(decoded) /\ SubSeq(decoded, 1, Len(c)) = c
        /\ AllZero(SubSeq(decoded, Len(c) + 1, Len(decoded)))
    BY <1>2 DEF BindsContents
  <1> HIDE DEF decoded, gap
  <1>8. Len(c) \in Nat /\ (Len(c) > 0 => c[Len(c)] # Zero)
    <2>1. PICK n \in 0 .. Len(p) : c = SubSeq(p, 1, n) /\ (n > 0 => p[n] # Zero)
      BY TrimFacts
    <2>2. Len(c) = n /\ n \in Nat
      BY <2>1
    <2>3. n > 0 => c[n] = p[n]
      BY <2>1
    <2> QED BY <2>1, <2>2, <2>3
  <1> DEFINE n == Len(c)
             Digit == Range(decoded)
  <1>9. n \in 0 .. Len(decoded) /\ (n > 0 => decoded[n] # Zero)
    <2>1. n > 0 => SubSeq(decoded, 1, n)[n] = decoded[n]
      BY <1>6, <1>7, <1>8
    <2> QED BY <1>6, <1>7, <1>8, <2>1
  <1>10. TrimPadding(decoded) = c
    <2>1. decoded \in Seq(Digit) /\ AllZero(SubSeq(decoded, n + 1, Len(decoded)))
          /\ SubSeq(decoded, 1, n) = c
      BY <1>6, <1>7
    <2> HIDE DEF n, Digit
    <2> QED BY <1>9, <2>1, TrimmedBack
  <1> QED BY <1>3, <1>4, <1>10 DEF gap, decoded

\* What passes leaves out nothing of the document.
LEMMA NothingHidden == Decided => PassedLeavesOutOnlyContents
  <1> SUFFICES ASSUME Decided, state \in {"final", "earlier"}
               PROVE  LET hidden == {p \in LeftOut : state = "final" \/ p <= End2(range)}
                      IN  /\ Digested(range) \subseteq DOMAIN data
                          /\ Cardinality(Digested(range)) = range[2] + range[4]
                          /\ \/ hidden = {}
                             \/ /\ hidden = End1(range) + 1 .. range[3]
                                /\ Delimited(Gap)
                                /\ \A k \in DOMAIN Inner(Gap) : Inner(Gap)[k] # <<"x", 0>>
                                /\ TrimPadding(BytesOf(Digits16(Inner(Gap)))) = contents
    BY DEF PassedLeavesOutOnlyContents
  <1> DEFINE hidden == {p \in LeftOut : state = "final" \/ p <= End2(range)}
             final == state = "final"
  <1>1. /\ data \in Seq(Character) /\ range \in [1 .. 4 -> Nat]
        /\ IntegrityOk(data, range, contents, final) /\ final \in BOOLEAN
    BY ForeignAssumption DEF Decided
  <1>2. PICK p \in Seq(HexDigit \X HexDigit) : contents = TrimPadding(p)
    BY ForeignAssumption DEF Decided
  <1>3. DOMAIN data = 1 .. Len(data) /\ Len(data) \in Nat
    BY <1>1
  <1>4. /\ range[1] = 0 /\ End1(range) = range[2] /\ End2(range) = range[3] + range[4]
        /\ End1(range) <= range[3] /\ End1(range) <= Len(data) /\ End2(range) <= Len(data)
        /\ final => End2(range) = Len(data)
    BY <1>1 DEF IntegrityOk, InsideFile, End1, End2
  <1>5. /\ range[2] \in Nat /\ range[3] \in Nat /\ range[4] \in Nat
    BY <1>1
  <1>6. Digested(range) = (1 .. End1(range)) \cup (range[3] + 1 .. End2(range))
    BY <1>4 DEF Digested
  <1>7. Digested(range) \subseteq DOMAIN data
    BY <1>3, <1>4, <1>5, <1>6
  <1>8. Cardinality(Digested(range)) = range[2] + range[4]
    BY <1>1, <1>4, DigestedCount
  <1>9. hidden = End1(range) + 1 .. range[3]
    BY <1>3, <1>4, <1>5, <1>6 DEF LeftOut
  <1>10. CASE End1(range) = range[3]
    <2>1. hidden = {}
      <3> HIDE DEF hidden
      <3> QED BY <1>4, <1>5, <1>9, <1>10
    <2> QED BY <1>7, <1>8, <2>1
  <1>11. CASE End1(range) # range[3]
    <2>1. End1(range) < range[3] /\ range[3] <= Len(data)
      BY <1>3, <1>4, <1>5, <1>11
    <2> HIDE DEF hidden, final
    <2>2. /\ Delimited(Gap)
          /\ \A k \in DOMAIN Inner(Gap) : Inner(Gap)[k] # <<"x", 0>>
          /\ TrimPadding(BytesOf(Digits16(Inner(Gap)))) = contents
      BY <1>1, <1>2, <2>1, GapMeans DEF Gap
    <2> QED BY <1>7, <1>8, <1>9, <2>2 DEF hidden
  <1> QED BY <1>10, <1>11

\* Nothing of a document can hide in the gap or behind the last signature that
\* passes, and no byte is digested twice, whoever wrote the file and its ByteRange.
THEOREM NothingHiddenCorrect == ForeignSpec => []PassedLeavesOutOnlyContents
  <1>1. Present => Decided
    BY DEF Present, Decided
  <1>2. Decided /\ [Verify]_checkVars => Decided'
    <2> SUFFICES ASSUME Decided, [Verify]_checkVars PROVE Decided'
      OBVIOUS
    <2>1. CASE UNCHANGED checkVars
      BY <2>1 DEF Decided, checkVars
    <2>2. CASE Extract
      BY <2>2 DEF Extract, Decided
    <2>3. ASSUME NEW final \in BOOLEAN, Check(final) PROVE Decided'
      BY <2>3 DEF Check, Decided
    <2> QED BY <2>1, <2>2, <2>3 DEF Verify
  <1> QED BY <1>1, <1>2, NothingHidden, PTL DEF ForeignSpec
=============================================================================
