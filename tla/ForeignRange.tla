----------------------------- MODULE ForeignRange -----------------------------
(***************************************************************************)
(* The integrity check over signatures of other producers: any file, any   *)
(* four integers as its ByteRange, any /Contents the parser may hand over  *)
(* (PDF objects can be anywhere in the file, so /Contents need not come    *)
(* from the gap).                                                          *)
(***************************************************************************)
EXTENDS Integrity, FiniteSets

CONSTANTS Files,      (* the files looked at: sequences of Character         *)
          Ranges,     (* the ByteRanges looked at                            *)
          Parsed      (* /Contents strings the parser may return, in bytes   *)

ASSUME ForeignAssumption ==
  /\ Files \subseteq Seq(Character)
  /\ Ranges \subseteq [1 .. 4 -> Nat]
  /\ Parsed \subseteq Seq(HexDigit \X HexDigit)

VARIABLES data,     \* the file
          range,    \* the signature's ByteRange
          contents, \* the signature bytes the extractor took from /Contents
          state     \* none, parsed, skipped, extracted, final, earlier or issues

checkVars == <<data, range, contents, state>>

Present ==
  /\ data \in Files
  /\ range \in Ranges
  /\ contents \in Parsed
  /\ state = "parsed"

\* an empty /Contents is an unsigned placeholder
Extract ==
  /\ state = "parsed"
  /\ contents' = TrimPadding(contents)
  /\ state' = IF contents' = <<>> THEN "skipped" ELSE "extracted"
  /\ UNCHANGED <<data, range>>

\* final: no other signature of the file ends later
Check(final) ==
  /\ state = "extracted"
  /\ state' = IF IntegrityOk(data, range, contents, final)
              THEN (IF final THEN "final" ELSE "earlier") ELSE "issues"
  /\ UNCHANGED <<data, range, contents>>

Verify == Extract \/ \E final \in BOOLEAN : Check(final)

ForeignSpec == Present /\ [][Verify]_checkVars

-----------------------------------------------------------------------------
LeftOut == DOMAIN data \ Digested(range)

\* The bytes of the file between the two ranges, as characters.
Gap == Slice(data, End1(range), range[3])

\* A signature that passes digests every byte up to the end of its second range,
\* and of the whole file if it is the final one, but at most one hex string; that
\* string is the signature being verified, so nothing of the document can hide
\* in the gap or behind the last signature (signature wrapping).  And no byte is
\* digested twice or from outside the file, where compute_byte_range_hash would
\* panic.
PassedLeavesOutOnlyContents ==
  state \in {"final", "earlier"} =>
    LET hidden == {p \in LeftOut : state = "final" \/ p <= End2(range)}
    IN  /\ Digested(range) \subseteq DOMAIN data
        /\ Cardinality(Digested(range)) = range[2] + range[4]
        /\ \/ hidden = {}
           \/ /\ hidden = End1(range) + 1 .. range[3]
              /\ Delimited(Gap)
              /\ \A k \in DOMAIN Inner(Gap) : Inner(Gap)[k] # <<"x", 0>>
              /\ TrimPadding(BytesOf(Digits16(Inner(Gap)))) = contents
=============================================================================
