------------------------------ MODULE Integrity ------------------------------
(***************************************************************************)
(* What verification does with the bytes of a signature's /Contents: the   *)
(* extractor takes the signature out of it (verify/extractor.rs) and the   *)
(* integrity check binds the ByteRange to it (verify/integrity.rs).        *)
(*                                                                         *)
(* A file is a sequence of characters of the kinds the check tells apart:  *)
(* the two delimiters, white space, hex digits (written as numbers below   *)
(* 16) and "x" for everything else.  Offsets are 0-based as in the code.   *)
(***************************************************************************)
EXTENDS Integers, Sequences, SequencesExt

HexDigit == 0 .. 15
Character == {<<"hex", d>> : d \in HexDigit} \cup {<<"<", 0>>, <<">", 0>>, <<" ", 0>>, <<"x", 0>>}

IsHex(c) == c[1] = "hex"
Slice(data, from, to) == SubSeq(data, from + 1, to)

\* a hex string's bytes, as pairs of digits; a last odd digit is padded with 0
BytesOf(digits) ==
  [k \in 1 .. (Len(digits) + 1) \div 2 |->
     <<digits[2 * k - 1], IF 2 * k <= Len(digits) THEN digits[2 * k] ELSE 0>>]

\* the hex digits in their order: digit k has k - 1 of them before it
Digits16(chars) ==
  LET at == {i \in DOMAIN chars : IsHex(chars[i])}
      Nth(k) == CHOOSE i \in at : Cardinality({j \in at : j < i}) = k - 1
  IN  [k \in 1 .. Cardinality(at) |-> chars[Nth(k)][2]]

Zero == <<0, 0>>
AllZero(bytes) == \A k \in DOMAIN bytes : bytes[k] = Zero

\* Mutant: one zero byte is dropped.
TrimPaddingOnce(bytes) ==
  IF bytes # <<>> /\ Last(bytes) = Zero THEN SubSeq(bytes, 1, Len(bytes) - 1) ELSE bytes

\* the extractor drops every trailing zero byte, padding or not
TrimPadding(bytes) ==
  LET kept == CHOOSE n \in 0 .. Len(bytes) :
                /\ AllZero(SubSeq(bytes, n + 1, Len(bytes)))
                /\ n > 0 => bytes[n] # Zero
  IN  SubSeq(bytes, 1, kept)

-----------------------------------------------------------------------------
(* verify_byte_range_ex, for a range r = [offset1, length1, offset2, length2] *)

End1(r) == r[1] + r[2]
End2(r) == r[3] + r[4]

\* positions (1-based) that are digested
Digested(r) == (r[1] + 1 .. End1(r)) \cup (r[3] + 1 .. End2(r))

InsideFile(data, r) == End1(r) <= Len(data) /\ End2(r) <= Len(data)

Delimited(gap) == gap[1] = <<"<", 0>> /\ Last(gap) = <<">", 0>>
Inner(gap) == SubSeq(gap, 2, Len(gap) - 1)

\* validate_contents_gap
WellFormedGap(gap) ==
  /\ Delimited(gap)
  /\ Inner(gap) # <<>>
  /\ \A k \in DOMAIN Inner(gap) : IsHex(Inner(gap)[k]) \/ Inner(gap)[k] = <<" ", 0>>
  /\ Len(Digits16(Inner(gap))) % 2 = 0

\* Mutant: what follows the signature in the gap is not looked at.
BindsContentsPrefix(gap, contents) ==
  LET decoded == BytesOf(Digits16(Inner(gap)))
  IN  Len(contents) <= Len(decoded) /\ SubSeq(decoded, 1, Len(contents)) = contents

\* the gap decodes to the parsed /Contents and padding
BindsContents(gap, contents) ==
  LET decoded == BytesOf(Digits16(Inner(gap)))
  IN  /\ Len(contents) <= Len(decoded)
      /\ SubSeq(decoded, 1, Len(contents)) = contents
      /\ AllZero(SubSeq(decoded, Len(contents) + 1, Len(decoded)))

\* a gap that starts or ends outside the file has been reported already, and
\* one of no length is not looked at
GapOk(data, r, contents) ==
  (End1(r) < r[3] /\ End1(r) < Len(data) /\ r[3] <= Len(data)) =>
     LET gap == Slice(data, End1(r), r[3])
     IN  /\ Len(gap) >= 2
         /\ WellFormedGap(gap)
         /\ BindsContents(gap, contents)

IntegrityOk(data, r, contents, requireEof) ==
  /\ r[1] = 0
  /\ InsideFile(data, r)
  /\ End1(r) <= r[3]
  /\ GapOk(data, r, contents)
  /\ requireEof => End2(r) = Len(data)
=============================================================================
