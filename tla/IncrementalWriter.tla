-------------------------- MODULE IncrementalWriter --------------------------
(***************************************************************************)
(* The byte-level incremental writer (core/incremental.rs), the ByteRange  *)
(* arithmetic it relies on (core/byte_range.rs) and the hash-then-inject   *)
(* steps that every signing path performs on what it wrote (signer.rs,     *)
(* remote.rs, core/doc_timestamp.rs).                                      *)
(*                                                                         *)
(* The output is a sequence of bytes; a byte is a pair <<tag, n>> that     *)
(* says what it is a byte of.  Everything whose text does not matter is    *)
(* one byte long, so a trailer is one byte and so is a key; the ByteRange  *)
(* placeholder and the /Contents string have their real lengths, because   *)
(* the offsets the writer computes depend on them.  Offsets are 0-based as *)
(* in the code: the byte at offset o is buf[o + 1].                        *)
(***************************************************************************)
EXTENDS Integers, Sequences, SequencesExt, FiniteSets, TLC

CONSTANTS Jobs,      (* what a caller may ask the writer to append: see IsJob     *)
          CmsLengths,(* lengths, in bytes, of the CMS or token a signer returns   *)
          IntWidth   (* BYTE_RANGE_INT_WIDTH: digits reserved per integer         *)

Object == [id : Nat \ {0}, len : Nat]

\* orig bytes of original file, whether the last of them is a newline, the
\* pending objects in the order they were added, which one is the signature
\* dictionary, its keys in iteration order, the bytes reserved for /Contents,
\* the source trailer's /Size and whether its xref section is a stream.
JobType == [orig : Nat \ {0}, newline : BOOLEAN, objects : Seq(Object),
            sig : Nat \ {0}, keys : Seq({"ByteRange", "Contents", "Other"}),
            reserve : Nat, prevSize : Nat, stream : BOOLEAN]

\* build_sig_dict and build_doc_timestamp_dict put exactly one /ByteRange and
\* one /Contents in the dictionary; object numbers are allocated once each.
IsJob(j) ==
  /\ j \in JobType
  /\ \E b, c \in DOMAIN j.keys :
       /\ j.keys[b] = "ByteRange" /\ j.keys[c] = "Contents"
       /\ \A k \in DOMAIN j.keys \ {b, c} : j.keys[k] = "Other"
  /\ \A x, y \in DOMAIN j.objects : j.objects[x].id = j.objects[y].id => x = y

ASSUME WriterAssumption ==
  /\ \A j \in Jobs : IsJob(j)
  /\ CmsLengths \subseteq Nat
  /\ IntWidth \in Nat \ {0}

-----------------------------------------------------------------------------
VARIABLES pc,      \* start, objects, dict, xref, backpatch, written, hashed, done or error
          job,     \* the parameters of the writer
          buf,     \* the output buffer
          todo,    \* pending objects not yet written
          keys,    \* keys of the signature dictionary not yet written
          br,      \* the ByteRange record: placeholder and /Contents positions
          entries, \* xref_entries: <<object number, offset>> in writing order
          xref,    \* the cross-reference section written: its runs and its /Size
          hashed   \* the bytes the signer's digest was computed over

vars == <<pc, job, buf, todo, keys, br, entries, xref, hashed>>

NoRange == [found |-> FALSE, brOff |-> 0, brLen |-> 0, coOff |-> 0, coLen |-> 0]
NoXref  == [runs |-> <<>>, size |-> 0]

\* what a byte can be a byte of; <<tag, n>>, with n an object number for "obj"
Tag == {"orig", "nl", "obj", "body", "key", "zero", "range", "<", "hex", "cms", "pad", ">",
        "xref", "eof"}
ByteType == Tag \X Nat

Byte(tag) == <<tag, 0>>
Bytes(tag, n) == [i \in 1 .. n |-> Byte(tag)]
Overwrite(b, off, tag, n) ==
  [i \in DOMAIN b |-> IF off < i /\ i <= off + n THEN Byte(tag) ELSE b[i]]

-----------------------------------------------------------------------------
(* core/byte_range.rs *)

PlaceholderLength == 4 * IntWidth + 5   \* "[" 3 spaces "]" and four integers

\* Mutant: the first range runs up to the first hex digit and takes in the "<".
ComputeWithDelimiter(r, total) ==
  <<0, r.coOff, r.coOff + r.coLen + 1, total - (r.coOff + r.coLen + 1)>>

\* [offset1, length1, offset2, length2]
Compute(r, total) ==
  LET off2 == r.coOff + r.coLen + 1
  IN  <<0, r.coOff - 1, off2, total - off2>>

Digits[n \in Nat] == IF n < 10 THEN 1 ELSE 1 + Digits[n \div 10]

\* Mutant: values are cut to the reserved width.
FormattedLengthCut(v) == PlaceholderLength

\* format_values pads to IntWidth and never truncates
FormattedLength(v) ==
  LET width(n) == IF Digits[n] > IntWidth THEN Digits[n] ELSE IntWidth
  IN  width(v[1]) + width(v[2]) + width(v[3]) + width(v[4]) + 5

\* positions (1-based) that a ByteRange selects
Covered(v) == (v[1] + 1 .. v[1] + v[2]) \cup (v[3] + 1 .. v[3] + v[4])

-----------------------------------------------------------------------------
(* cross-reference sections *)

\* Mutant: one run for everything, gaps or not.
GroupSubsectionsOneRun(sorted) ==
  IF sorted = <<>> THEN <<>> ELSE <<[start |-> sorted[1][1], run |-> sorted]>>

\* the next entry continues the last run or starts one
AddToRuns(runs, e) ==
  IF runs # <<>> /\ Last(runs).start + Len(Last(runs).run) = e[1]
  THEN [runs EXCEPT ![Len(runs)].run = Append(@, e)]
  ELSE Append(runs, [start |-> e[1], run |-> <<e>>])

\* group_subsections: runs of consecutive object numbers
GroupSubsections(sorted) == FoldLeft(AddToRuns, <<>>, sorted)

\* sorted by number, which no two entries share: entry k has k - 1 below it
Below(e, all) == {f \in all : f[1] < e[1]}
ByNumber(s) ==
  [k \in DOMAIN s |-> CHOOSE e \in ToSet(s) : Cardinality(Below(e, ToSet(s))) = k - 1]
MaxNumber(s) == LET ids == {s[i][1] : i \in DOMAIN s}
                IN  CHOOSE m \in ids \cup {0} : \A k \in ids : k <= m

\* write_xref and write_trailer: the free head is a subsection of its own
TableSection(ents, prevSize) ==
  LET next == MaxNumber(ents) + 1
  IN  [runs |-> <<[start |-> 0, run |-> <<<<0, 0>>>>]>> \o GroupSubsections(ByNumber(ents)),
       size |-> IF prevSize > next THEN prevSize ELSE next]

\* write_xref_stream_section: the stream is an object and lists itself
StreamNumber(ents, prevSize) ==
  LET last == IF prevSize > 0 THEN prevSize - 1 ELSE 0
  IN  1 + (IF MaxNumber(ents) > last THEN MaxNumber(ents) ELSE last)

StreamSection(ents, prevSize, offset) ==
  LET num == StreamNumber(ents, prevSize)
  IN  [runs |-> GroupSubsections(ByNumber(ents \o <<<<0, 0>>, <<num, offset>>>>)),
       size |-> num + 1]

\* a section of n entries with its trailer
SectionBytes(n) == Bytes("xref", n) \o <<Byte("eof")>>

-----------------------------------------------------------------------------
Init ==
  /\ job \in Jobs
  /\ pc = "start"
  /\ buf = Bytes("orig", job.orig)
  /\ todo = job.objects
  /\ keys = <<>>
  /\ br = NoRange
  /\ entries = <<>>
  /\ xref = NoXref
  /\ hashed = <<>>

\* Mutant: the last byte of the original becomes the newline.
StartOverwriting ==
  /\ pc = "start"
  /\ buf' = IF job.newline THEN buf ELSE [buf EXCEPT ![Len(buf)] = Byte("nl")]
  /\ pc' = "objects"
  /\ UNCHANGED <<job, todo, keys, br, entries, xref, hashed>>

\* write() copies the original and makes sure it ends in a newline
Start ==
  /\ pc = "start"
  /\ buf' = IF job.newline THEN buf ELSE Append(buf, Byte("nl"))
  /\ pc' = "objects"
  /\ UNCHANGED <<job, todo, keys, br, entries, xref, hashed>>

WriteObject ==
  /\ pc = "objects" /\ todo # <<>> /\ Head(todo).id # job.sig
  /\ entries' = Append(entries, <<Head(todo).id, Len(buf)>>)
  /\ buf' = Append(buf, <<"obj", Head(todo).id>>) \o Bytes("body", Head(todo).len)
  /\ todo' = Tail(todo)
  /\ UNCHANGED <<pc, job, keys, br, xref, hashed>>

\* write_sig_dict, up to its loop over the dictionary
OpenSigDict ==
  /\ pc = "objects" /\ todo # <<>> /\ Head(todo).id = job.sig
  /\ entries' = Append(entries, <<Head(todo).id, Len(buf)>>)
  /\ buf' = Append(buf, <<"obj", Head(todo).id>>)
  /\ keys' = job.keys
  /\ br' = [NoRange EXCEPT !.coLen = 2 * job.reserve]
  /\ pc' = "dict"
  /\ UNCHANGED <<job, todo, xref, hashed>>

WriteByteRangeKey ==
  /\ pc = "dict" /\ keys # <<>> /\ Head(keys) = "ByteRange"
  /\ br' = [br EXCEPT !.brOff = Len(buf) + 1, !.brLen = PlaceholderLength]
  /\ buf' = Append(buf, Byte("key")) \o Bytes("zero", PlaceholderLength)
  /\ keys' = Tail(keys)
  /\ UNCHANGED <<pc, job, todo, entries, xref, hashed>>

\* the key and its hex string of n characters
ContentsEntry(n) == <<Byte("key"), Byte("<")>> \o (Bytes("hex", n) \o <<Byte(">")>>)

\* Mutant: as many hex characters as bytes were reserved.
WriteContentsKeyHalf ==
  /\ pc = "dict" /\ keys # <<>> /\ Head(keys) = "Contents"
  /\ br' = [br EXCEPT !.coOff = Len(buf) + 2]
  /\ buf' = buf \o ContentsEntry(job.reserve)
  /\ keys' = Tail(keys)
  /\ UNCHANGED <<pc, job, todo, entries, xref, hashed>>

\* Mutant: the offset is counted from the ByteRange key, the wrong way round.
WriteContentsKeyRelative ==
  /\ pc = "dict" /\ keys # <<>> /\ Head(keys) = "Contents"
  /\ br' = [br EXCEPT !.coOff = br.brOff - Len(buf)]
  /\ buf' = buf \o ContentsEntry(2 * job.reserve)
  /\ keys' = Tail(keys)
  /\ UNCHANGED <<pc, job, todo, entries, xref, hashed>>

WriteContentsKey ==
  /\ pc = "dict" /\ keys # <<>> /\ Head(keys) = "Contents"
  /\ br' = [br EXCEPT !.coOff = Len(buf) + 2]
  /\ buf' = buf \o ContentsEntry(2 * job.reserve)
  /\ keys' = Tail(keys)
  /\ UNCHANGED <<pc, job, todo, entries, xref, hashed>>

WriteOtherKey ==
  /\ pc = "dict" /\ keys # <<>> /\ Head(keys) = "Other"
  /\ buf' = buf \o <<Byte("key"), Byte("body")>>
  /\ keys' = Tail(keys)
  /\ UNCHANGED <<pc, job, todo, br, entries, xref, hashed>>

CloseSigDict ==
  /\ pc = "dict" /\ keys = <<>>
  /\ buf' = Append(buf, Byte("body"))
  /\ br' = [br EXCEPT !.found = TRUE]
  /\ todo' = Tail(todo)
  /\ pc' = "objects"
  /\ UNCHANGED <<job, keys, entries, xref, hashed>>

\* all objects written: a writer that met no signature dictionary gives up
FinishObjects ==
  /\ pc = "objects" /\ todo = <<>>
  /\ pc' = IF br.found THEN "xref" ELSE "error"
  /\ UNCHANGED <<job, buf, todo, keys, br, entries, xref, hashed>>

WriteXrefTable ==
  /\ pc = "xref" /\ ~job.stream
  /\ xref' = TableSection(entries, job.prevSize)
  /\ buf' = buf \o SectionBytes(Len(entries) + 1)
  /\ pc' = "backpatch"
  /\ UNCHANGED <<job, todo, keys, br, entries, hashed>>

WriteXrefStream ==
  /\ pc = "xref" /\ job.stream
  /\ xref' = StreamSection(entries, job.prevSize, Len(buf))
  /\ buf' = Append(buf, <<"obj", StreamNumber(entries, job.prevSize)>>)
              \o SectionBytes(Len(entries) + 2)
  /\ pc' = "backpatch"
  /\ UNCHANGED <<job, todo, keys, br, entries, hashed>>

Backpatch ==
  /\ pc = "backpatch"
  /\ IF FormattedLength(Compute(br, Len(buf))) # br.brLen
     THEN pc' = "error" /\ buf' = buf
     ELSE pc' = "written" /\ buf' = Overwrite(buf, br.brOff, "range", br.brLen)
  /\ UNCHANGED <<job, todo, keys, br, entries, xref, hashed>>

\* the caller digests the two selected ranges
Hash ==
  /\ pc = "written"
  /\ hashed' = [i \in Covered(Compute(br, Len(buf))) |-> buf[i]]
  /\ pc' = "hashed"
  /\ UNCHANGED <<job, buf, todo, keys, br, entries, xref>>

\* Mutant: the padding is as long as the whole of /Contents.
InjectOverpadded(n) ==
  /\ pc = "hashed"
  /\ IF n > job.reserve
     THEN pc' = "error" /\ buf' = buf
     ELSE /\ pc' = "done"
          /\ buf' = Overwrite(Overwrite(buf, br.coOff, "cms", 2 * n),
                              br.coOff + 2 * n, "pad", br.coLen)
  /\ UNCHANGED <<job, todo, keys, br, entries, xref, hashed>>

\* n is the length of the CMS or token; two hex characters per byte, then '0's
Inject(n) ==
  /\ pc = "hashed"
  /\ IF n > job.reserve
     THEN pc' = "error" /\ buf' = buf
     ELSE /\ pc' = "done"
          /\ buf' = Overwrite(Overwrite(buf, br.coOff, "cms", 2 * n),
                              br.coOff + 2 * n, "pad", br.coLen - 2 * n)
  /\ UNCHANGED <<job, todo, keys, br, entries, xref, hashed>>

Next ==
  \/ Start \/ WriteObject \/ OpenSigDict
  \/ WriteByteRangeKey \/ WriteContentsKey \/ WriteOtherKey \/ CloseSigDict
  \/ FinishObjects \/ WriteXrefTable \/ WriteXrefStream
  \/ Backpatch \/ Hash
  \/ \E n \in CmsLengths : Inject(n)

Spec == Init /\ [][Next]_vars

-----------------------------------------------------------------------------
(* Properties *)

RangeType == [found : BOOLEAN, brOff : Nat, brLen : Nat, coOff : Nat, coLen : Nat]

\* The variables keep their types through every step of write() and the injection.
TypeOK ==
  /\ pc \in {"start", "objects", "dict", "xref", "backpatch", "written",
             "hashed", "done", "error"}
  /\ job \in Jobs
  /\ buf \in Seq(ByteType)
  /\ todo \in Seq(Object)
  /\ keys \in Seq({"ByteRange", "Contents", "Other"})
  /\ br \in RangeType
  /\ entries \in Seq(Nat \X Nat)

\* What the ByteRange selects is the whole output except the /Contents string
\* with its two delimiters, whatever the order of the dictionary's keys, so
\* nothing but the signature itself is left unsigned (byte_range.rs compute).
RangesExcludeOnlyContents ==
  pc \in {"written", "hashed", "done"} =>
    Covered(Compute(br, Len(buf))) =
      {i \in DOMAIN buf : buf[i][1] \notin {"<", "hex", "cms", "pad", ">"}}

\* The digest was computed over exactly what the final file holds in the
\* selected ranges: the backpatch comes before it and the injection of a
\* signature of any admitted length stays inside /Contents.
SignedBytesUnchanged ==
  pc \in {"hashed", "done"} =>
    hashed = [i \in Covered(Compute(br, Len(buf))) |-> buf[i]]

\* An incremental update never touches the bytes of the file it extends, so
\* ranges that earlier signatures cover stay as they were.
OriginalUntouched ==
  [][SubSeq(buf', 1, job.orig) = SubSeq(buf, 1, job.orig)]_vars

\* A reader that follows the new section finds every appended object, and only
\* those, at the first byte of its "n g obj" line; object 0 heads the free list
\* and /Size exceeds every number (group_subsections, write_xref, the stream).
XrefFindsEveryObject ==
  pc \in {"backpatch", "written", "hashed", "done"} =>
    LET listed == UNION {{<<r.start + k - 1, r.run[k][2]>> : k \in DOMAIN r.run} :
                         r \in Range(xref.runs)}
    IN  /\ listed = {<<0, 0>>} \cup {<<buf[i][2], i - 1>> :
                                      i \in {k \in DOMAIN buf : buf[k][1] = "obj"}}
        /\ \A e \in listed : e[1] < xref.size
        /\ job.prevSize <= xref.size

\* After an accepted signature /Contents holds it followed by padding, still
\* between its delimiters and of the length that was reserved (signer.rs,
\* finalize_signature, inject_timestamp_token).
ContentsHoldTheSignature ==
  /\ pc = "done" =>
       \E n \in CmsLengths : \A i \in 1 .. br.coLen :
         buf[br.coOff + i][1] = IF i <= 2 * n THEN "cms" ELSE "pad"
  /\ pc \in {"written", "hashed", "done"} =>
       /\ br.coLen = 2 * job.reserve
       /\ buf[br.coOff] = Byte("<")
       /\ buf[br.coOff + br.coLen + 1] = Byte(">")

TenTo[w \in Nat] == IF w = 0 THEN 1 ELSE 10 * TenTo[w - 1]

\* The backpatch refuses a file exactly when one of the four integers no longer
\* fits the fixed-width placeholder (format_values pads and never truncates).
RefusedIffTooWide ==
  LET tooWide == \E k \in 1 .. 4 : Compute(br, Len(buf))[k] >= TenTo[IntWidth]
  IN  /\ pc \in {"written", "hashed", "done"} => ~tooWide
      /\ pc = "error" /\ xref # NoXref /\ hashed = <<>> => tooWide
=============================================================================
