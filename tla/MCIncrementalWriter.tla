------------------------- MODULE MCIncrementalWriter -------------------------
(* Small jobs for IncrementalWriter, and short files for ForeignRange. *)
EXTENDS OwnAndForeign

\* what PdfSigner::sign appends (signature dictionary 5, field 6, catalog 1,
\* AcroForm 7, page 3), a writer that is given no signature dictionary, and a
\* pair of objects whose numbers are not consecutive
ObjectLists == {
  << [id |-> 5, len |-> 0], [id |-> 6, len |-> 1], [id |-> 1, len |-> 1],
     [id |-> 7, len |-> 0], [id |-> 3, len |-> 1] >>,
  << [id |-> 9, len |-> 1], [id |-> 5, len |-> 0] >>,
  << [id |-> 6, len |-> 1] >> }

KeyOrders == { <<"Other", "ByteRange", "Contents", "Other">>,
               <<"Contents", "Other", "ByteRange">> }

\* around 76 one of the four integers reaches 100, the first with three digits
SmallJobs ==
  { [orig |-> o, newline |-> nl, objects |-> ob, sig |-> 5, keys |-> k,
     reserve |-> r, prevSize |-> ps, stream |-> st] :
       o \in {1, 40} \cup 72 .. 80, nl \in BOOLEAN, ob \in ObjectLists, k \in KeyOrders,
       r \in {0, 2}, ps \in {5, 12}, st \in BOOLEAN }

MCJobs == SmallJobs
MCCmsLengths == {0, 1, 2, 3}

Chars == {<<"<", 0>>, <<">", 0>>, <<" ", 0>>, <<"x", 0>>, <<"hex", 0>>, <<"hex", 15>>}

\* all files of four characters, and longer ones with a string of three
\* characters, or of four that may be padding after a signature
MCFiles ==
  [1 .. 4 -> Chars]
    \cup {<<<<"x", 0>>, <<"<", 0>>>> \o s \o <<<<">", 0>>, t>> :
            s \in [1 .. 3 -> Chars] \cup [1 .. 4 -> {<<"hex", 0>>, <<"hex", 15>>}],
            t \in {<<"x", 0>>, <<">", 0>>}}

\* ranges past the end of the file included; few that do not start at 0
MCRanges == {r \in [1 .. 4 -> 0 .. 7] :
               /\ r[1] <= 1 /\ r[2] <= 3 /\ r[4] <= 3
               /\ r[1] = 1 => r[2] + r[3] + r[4] = 4}

MCParsed == {<<<<15, 15>>>>, <<<<0, 15>>, <<0, 0>>>>, <<<<0, 0>>>>, <<<<15, 0>>>>}
=============================================================================
