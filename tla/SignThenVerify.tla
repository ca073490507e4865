---------------------------- MODULE SignThenVerify ----------------------------
(***************************************************************************)
(* The writer's output in the hands of the verifier: IncrementalWriter run *)
(* to its end, then the extractor and the integrity check of Integrity on  *)
(* the file it returned.                                                   *)
(***************************************************************************)
EXTENDS IncrementalWriter

V == INSTANCE Integrity

\* a hex digit of the CMS
IsCms(i) == i \in DOMAIN buf /\ buf[i][1] = "cms"

\* What the verifier sees of the output.  The bytes of the CMS are all 0xff but
\* for the last one, which is `last`: a CMS without unsigned attributes ends in
\* the last byte of the signature value, which can be anything.
Seen(last) ==
  [i \in DOMAIN buf |->
     CASE buf[i][1] \in {"<", ">"} -> <<buf[i][1], 0>>
       [] buf[i][1] \in {"hex", "pad"} -> <<"hex", 0>>
       [] IsCms(i) ->
            <<"hex", CASE ~IsCms(i + 1) -> last[2]
                       [] IsCms(i + 1) /\ ~IsCms(i + 2) -> last[1]
                       [] OTHER -> 15>>
       [] OTHER -> <<"x", 0>>]

LastBytes == {<<15, 15>>, <<0, 15>>, <<15, 0>>, <<0, 0>>}

\* the hex string the parser finds at /Contents, as bytes
ParsedContents(last) == V!BytesOf(V!Digits16(V!Slice(Seen(last), br.coOff, br.coOff + br.coLen)))

Extracted(last) == V!TrimPadding(ParsedContents(last))

\* the hex digits of /Contents that hold the CMS
CmsDigits == {i \in 1 .. br.coLen : buf[br.coOff + i][1] = "cms"}

\* how many bytes of the CMS are taken for padding
CutFrom(last) == IF CmsDigits # {} /\ last = V!Zero THEN 1 ELSE 0

\* The extractor cuts the padding off what the library has just signed and, of
\* the signature, a last byte that is zero, nothing else (extractor.rs: such a
\* CMS no longer parses); and the integrity check passes on the bytes it kept,
\* as the final signature, whatever their number and the slack behind them.
OwnOutputPasses ==
  pc = "done" =>
    \A last \in LastBytes :
      /\ CmsDigits = 1 .. 2 * (Len(Extracted(last)) + CutFrom(last))
      /\ Extracted(last) # <<>> =>
           V!IntegrityOk(Seen(last), Compute(br, Len(buf)), Extracted(last), TRUE)
=============================================================================
