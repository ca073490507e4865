------------------------- MODULE SealedDocumentProofs -------------------------
(***************************************************************************)
(* What seals, document timestamps and SVTs prove, for files of any length *)
(* with any signers, issuers and algorithms: TimestampVouches,             *)
(* SvtSpeaksForThisSignature and SealVerifies of SealedDocument.           *)
(***************************************************************************)
EXTENDS SealedDocument, WellFoundedInduction, TLAPS

\* A file is a sequence of revisions.
IsFile(f) ==
  /\ \E S : f \in Seq(S)
  /\ \A i \in DOMAIN f : f[i] = [what |-> f[i].what, body |-> f[i].body, contents |-> f[i].contents]

\* A token's imprint and time are of something its maker saw.
Attested(token) ==
  \E a \in attested : /\ a.bytes = token.tst.imprint.of
                      /\ a.time = token.tst.genTime /\ a.time \in Nat /\ a.time <= now

\* A CMS in the file tells whose signature it is.
IsCms(contents) == \E who, bytes : contents = Cms(who, bytes)

\* A claim is about one of the signatures that the SVT was issued for.
ClaimOf(svt, c, signed) ==
  /\ signed = [bytes |-> signed.bytes, contents |-> signed.contents]
  /\ IsCms(signed.contents)
  /\ c.sigRef = [sigHash |-> Hash(svt.jwt.payload.hashAlgo, signed.contents.value),
                 sbHash |-> Hash(svt.jwt.payload.hashAlgo, signed.contents.attrs)]
  /\ c.dataRefs = {[ref  |-> Len(signed.bytes.before) + 1,
                     hash |-> Hash(svt.jwt.payload.hashAlgo, signed.bytes)]}
  /\ \/ c.certRef = [type |-> "Chain", refs |-> signed.contents.chain]
     \/ c.certRef = [type |-> "ChainHash",
                     refs |-> [k \in DOMAIN signed.contents.chain |->
                                 Hash(svt.jwt.payload.hashAlgo, signed.contents.chain[k])]]

SvtOk(svt) ==
  /\ svt.issuer \in Issuers /\ CanIssue(svt.issuer)
  /\ \E byHash, exp :
       svt.jwt = Issue(svt.issuer, svt.jwt.payload.claims, byHash, exp)
  /\ \A c \in svt.jwt.payload.claims : \E signed \in svt.over : ClaimOf(svt, c, signed)
  /\ \A signed \in svt.over : \E c \in svt.jwt.payload.claims : ClaimOf(svt, c, signed)

TypeInv  == now \in Nat /\ IsFile(file)
TokenInv == \A i \in Tokens : Attested(file[i].contents)
CmsInv   == \A i \in Indices("signature") : IsCms(file[i].contents)
SealInv  == \A i \in Indices("seal") : \E svt \in issued : svt.jwt = Jwt(i)
SvtInv   == \A svt \in issued : SvtOk(svt)

IInv == TypeInv /\ TokenInv /\ CmsInv /\ SealInv /\ SvtInv

\* A file with one more revision, before and after it is filled.
Prepared(f, what) == Append(f, Revision(what, NoContents))
Filled(f, what, c) == [Prepared(f, what) EXCEPT ![Len(f) + 1].contents = c]

-----------------------------------------------------------------------------
\* A new revision leaves the others alone, and what its contents are put over
\* is what its range selects in the end.
LEMMA AppendedFacts ==
  ASSUME NEW f, IsFile(f), NEW g, NEW what, NEW c, g = Filled(f, what, c)
  PROVE  /\ IsFile(g) /\ Len(f) \in Nat /\ DOMAIN f = 1 .. Len(f)
         /\ DOMAIN g = 1 .. Len(f) + 1 /\ Len(g) = Len(f) + 1
         /\ \A i \in 1 .. Len(f) : g[i] = f[i]
         /\ g[Len(f) + 1] = Revision(what, c)
         /\ Bytes(g, Len(f) + 1) = Bytes(Prepared(f, what), Len(f) + 1)
  <1> DEFINE r == Revision(what, NoContents)
             p == Prepared(f, what)
             n == Len(f) + 1
  <1>1. PICK S : f \in Seq(S)
    BY DEF IsFile
  <1>2. /\ Len(f) \in Nat /\ DOMAIN f = 1 .. Len(f)
        /\ f \in Seq(S \cup {r, Revision(what, c)})
    BY <1>1
  <1>3. /\ p \in Seq(S \cup {r, Revision(what, c)}) /\ Len(p) = n /\ DOMAIN p = 1 .. n
        /\ \A i \in 1 .. Len(f) : p[i] = f[i]
        /\ p[n] = r
    BY <1>2 DEF Prepared
  <1>4. [r EXCEPT !.contents = c] = Revision(what, c)
    BY DEF Revision
  <1>5. g = [i \in 1 .. n |-> IF i = n THEN Revision(what, c) ELSE p[i]]
    BY <1>3, <1>4 DEF Filled
  <1>6. g \in Seq(S \cup {r, Revision(what, c)}) /\ Len(g) = n /\ DOMAIN g = 1 .. n
    BY <1>2, <1>3, <1>5
  <1>7. \A i \in 1 .. Len(f) : g[i] = f[i]
    BY <1>2, <1>3, <1>5
  <1>8. g[n] = Revision(what, c)
    BY <1>2, <1>5
  <1>9. IsFile(g)
    <2>1. ASSUME NEW i \in DOMAIN g
          PROVE  g[i] = [what |-> g[i].what, body |-> g[i].body, contents |-> g[i].contents]
      <3>1. CASE i = n
        BY <3>1, <1>8 DEF Revision
      <3>2. CASE i # n
        BY <3>2, <1>2, <1>6, <1>7 DEF IsFile
      <3> QED BY <3>1, <3>2
    <2> QED BY <2>1, <1>6 DEF IsFile
  <1>10. Bytes(g, n) = Bytes(p, n)
    <2>1. SubSeq(g, 1, n - 1) = SubSeq(p, 1, n - 1)
      <3>1. \A i \in 1 .. n - 1 : g[i] = p[i]
        BY <1>2, <1>3, <1>7
      <3> HIDE DEF n, p, r
      <3> QED BY <3>1, <1>2, <1>3, <1>6 DEF n
    <2>2. [g[n] EXCEPT !.contents = NoContents] = [p[n] EXCEPT !.contents = NoContents]
      BY <1>3, <1>8 DEF Revision
    <2> QED BY <2>1, <2>2 DEF Bytes
  <1> QED BY <1>2, <1>6, <1>7, <1>8, <1>9, <1>10

\* A revision with room for a token is one more.
LEMMA PreparedLength ==
  ASSUME NEW f, IsFile(f), NEW what
  PROVE  Len(Prepared(f, what)) = Len(f) + 1
  <1>1. PICK S : f \in Seq(S)
    BY DEF IsFile
  <1>2. f \in Seq(S \cup {Revision(what, NoContents)})
    BY <1>1
  <1> QED BY <1>2 DEF Prepared

\* An appended revision leaves what is known of the others as it is.
LEMMA AppendInv ==
  ASSUME IInv, NEW what, NEW c,
         file' = Filled(file, what, c),
         now' = now, issued' = issued, attested \subseteq attested',
         what \in {"seal", "timestamp"} => Attested(c)',
         what = "signature" => IsCms(c),
         what = "seal" => \E svt \in issued : svt.jwt = c.tst.extension
  PROVE  IInv'
  <1> DEFINE n == Len(file) + 1
  <1>1. /\ IsFile(file') /\ Len(file) \in Nat /\ DOMAIN file = 1 .. Len(file) /\ DOMAIN file' = 1 .. n
        /\ \A i \in 1 .. Len(file) : file'[i] = file[i]
        /\ file'[n] = Revision(what, c)
    BY AppendedFacts DEF IInv, TypeInv
  <1>2. file'[n].what = what /\ file'[n].contents = c
    BY <1>1 DEF Revision
  <1>3. \A i \in DOMAIN file' : i = n \/ (i \in DOMAIN file /\ file'[i] = file[i])
    BY <1>1
  <1>4. TokenInv'
    <2> SUFFICES ASSUME NEW i \in DOMAIN file', file'[i].what \in {"seal", "timestamp"}
                 PROVE  Attested(file[i].contents)'
      BY DEF TokenInv, Tokens, Indices
    <2>1. CASE i = n
      BY <2>1, <1>2
    <2>2. CASE i \in DOMAIN file /\ file'[i] = file[i]
      <3>1. Attested(file[i].contents)
        BY <2>2 DEF IInv, TokenInv, Tokens, Indices
      <3> QED BY <3>1, <2>2 DEF Attested
    <2> QED BY <2>1, <2>2, <1>3
  <1>5. CmsInv'
    BY <1>2, <1>3 DEF IInv, CmsInv, Indices
  <1>6. SealInv'
    <2> SUFFICES ASSUME NEW i \in DOMAIN file', file'[i].what = "seal"
                 PROVE  \E svt \in issued : svt.jwt = file'[i].contents.tst.extension
      BY DEF SealInv, Indices, Jwt
    <2>1. CASE i = n
      BY <2>1, <1>2
    <2>2. CASE i \in DOMAIN file /\ file'[i] = file[i]
      BY <2>2 DEF IInv, SealInv, Indices, Jwt
    <2> QED BY <2>1, <2>2, <1>3
  <1>7. SvtInv'
    BY DEF IInv, SvtInv, SvtOk, ClaimOf
  <1> QED BY <1>1, <1>4, <1>5, <1>6, <1>7 DEF IInv, TypeInv

\* The claim's reference to the signed data is the number of its revision.
LEMMA RefFact ==
  ASSUME NEW f, IsFile(f), NEW i \in DOMAIN f
  PROVE  Len(Bytes(f, i).before) + 1 = i
  <1>1. PICK S : f \in Seq(S)
    BY DEF IsFile
  <1>2. i \in 1 .. Len(f) /\ Len(f) \in Nat
    BY <1>1
  <1>3. Len(SubSeq(f, 1, i - 1)) = i - 1
    BY <1>1, <1>2
  <1> QED BY <1>2, <1>3 DEF Bytes

\* The original file satisfies the invariant.
LEMMA InitInv == Init => IInv
  <1> SUFFICES ASSUME Init PROVE IInv
    OBVIOUS
  <1>1. IsFile(file)
    <2>1. file \in Seq({Revision("original", NoContents)})
      BY DEF Init
    <2>2. DOMAIN file = {1} /\ file[1] = Revision("original", NoContents)
      BY DEF Init
    <2> QED BY <2>1, <2>2 DEF IsFile, Revision
  <1>2. \A i \in DOMAIN file : file[i].what = "original"
    BY DEF Init, Revision
  <1> QED BY <1>1, <1>2 DEF Init, IInv, TypeInv, TokenInv, CmsInv, SealInv, SvtInv, Tokens, Indices

\* A signature keeps it,
LEMMA AddSignatureInv ==
  ASSUME IInv, NEW who \in Signatories, AddSignature(who)
  PROVE  IInv'
  <1> DEFINE c == Cms(who, Bytes(Prepared(file, "signature"), Len(file) + 1))
  <1>1. Len(Prepared(file, "signature")) = Len(file) + 1
    BY PreparedLength DEF IInv, TypeInv
  <1>2. file' = Filled(file, "signature", c)
    BY <1>1 DEF AddSignature, AppendFilled, Prepared, Filled
  <1>3. IsCms(c)
    BY DEF IsCms
  <1> QED BY <1>2, <1>3, AppendInv DEF AddSignature

\* an update by another program keeps it,
LEMMA UpdateInv ==
  ASSUME IInv, Update
  PROVE  IInv'
  <1>1. Len(Prepared(file, "update")) = Len(file) + 1
    BY PreparedLength DEF IInv, TypeInv
  <1>2. file' = Filled(file, "update", NoContents)
    BY <1>1 DEF Update, AppendFilled, Prepared, Filled
  <1>3. now' = now /\ issued' = issued /\ attested' = attested
    BY DEF Update
  <1> QED
    <2> DEFINE c == NoContents
    <2>1. file' = Filled(file, "update", c)
      BY <1>2
    <2> HIDE DEF c
    <2> QED BY <2>1, <1>3, AppendInv

\* What is attested is what the imprint of the token in the last revision is of.
LEMMA TokenAppendedInv ==
  ASSUME IInv, NEW what \in {"seal", "timestamp"}, NEW by, NEW token,
         file' = Filled(file, what, token),
         token.tst.imprint.of = Bytes(Prepared(file, what), Len(file) + 1),
         token.tst.genTime = now,
         Attest(by), now' = now, issued' = issued,
         what = "seal" => \E svt \in issued : svt.jwt = token.tst.extension
  PROVE  IInv'
  <1>1. Len(file') = Len(file) + 1
        /\ Bytes(file', Len(file) + 1) = Bytes(Prepared(file, what), Len(file) + 1)
    <2>1. IsFile(file)
      BY DEF IInv, TypeInv
    <2> QED BY <2>1, AppendedFacts
  <1> DEFINE a == [bytes |-> Bytes(file', Len(file')), time |-> now, by |-> by]
  <1>2. a \in attested' /\ attested \subseteq attested'
    BY DEF Attest
  <1>3. a.bytes = token.tst.imprint.of /\ a.time = token.tst.genTime /\ a.time \in Nat /\ a.time <= now'
    BY <1>1 DEF IInv, TypeInv
  <1>4. Attested(token)'
    <2> HIDE DEF a
    <2> QED BY <1>2, <1>3 DEF Attested
  <1> QED BY <1>2, <1>4, AppendInv

\* sealing with a token the issuer issued keeps it,
LEMMA SealInvariant ==
  ASSUME IInv, NEW svt \in issued, NEW sealer \in Sealers, Seal(svt.jwt, sealer)
  PROVE  IInv'
  <1> DEFINE bytes == Bytes(Prepared(file, "seal"), Len(file) + 1)
             token == SealToken(sealer, bytes, now, svt.jwt)
  <1>1. Len(Prepared(file, "seal")) = Len(file) + 1
    BY PreparedLength DEF IInv, TypeInv
  <1>2. file' = Filled(file, "seal", token)
    BY <1>1 DEF Seal, AppendFilled, Prepared, Filled
  <1>3. /\ token.tst.imprint.of = bytes /\ token.tst.genTime = now
        /\ token.tst.extension = svt.jwt
    BY DEF SealToken, Token, TstInfo, Hash
  <1> QED
    <2> HIDE DEF token
    <2> QED BY <1>2, <1>3, TokenAppendedInv DEF Seal

\* a document timestamp keeps it,
LEMMA TimestampInv ==
  ASSUME IInv, NEW digest \in TsaDigests, Timestamp(digest)
  PROVE  IInv'
  <1> DEFINE bytes == Bytes(Prepared(file, "timestamp"), Len(file) + 1)
             token == TsaToken(digest, bytes, now)
  <1>1. Len(Prepared(file, "timestamp")) = Len(file) + 1
    BY PreparedLength DEF IInv, TypeInv
  <1>2. file' = Filled(file, "timestamp", token)
    BY <1>1 DEF Timestamp, AppendFilled, Prepared, Filled
  <1>3. token.tst.imprint.of = bytes /\ token.tst.genTime = now
    BY DEF TsaToken, Token, TstInfo, Hash
  <1> QED
    <2> HIDE DEF token
    <2> QED BY <1>2, <1>3, TokenAppendedInv DEF Timestamp

\* What an SVT claims is about signatures in the file when it is issued.
LEMMA IssueSvtInv ==
  ASSUME IInv, NEW issuer \in Issuers, NEW covered \in SUBSET Indices("signature"),
         NEW byHash \in BOOLEAN, NEW validity \in Validities,
         IssueSvt(issuer, covered, byHash, validity)
  PROVE  IInv'
  <1> DEFINE alg    == Registry[issuer.alg]
             claims == {Claims(issuer, SvtData(i, alg), byHash) : i \in covered}
             exp    == IF validity = NoExpiry THEN NoExpiry ELSE now + validity
             new    == [jwt |-> Issue(issuer, claims, byHash, exp), issuer |-> issuer,
                        over |-> {Signed(file, i) : i \in covered}]
  <1>1. issued' = issued \cup {new} /\ now' = now /\ file' = file /\ attested' = attested
    BY DEF IssueSvt
  <1>2. /\ new.jwt.payload.hashAlgo = alg /\ new.jwt.payload.claims = claims
        /\ new.issuer = issuer /\ new.over = {Signed(file, i) : i \in covered}
    BY DEF Issue
  <1>3. ASSUME NEW i \in covered
        PROVE  ClaimOf(new, Claims(issuer, SvtData(i, alg), byHash), Signed(file, i))
    <2> DEFINE c == Claims(issuer, SvtData(i, alg), byHash)
               signed == Signed(file, i)
    <2>1. signed.bytes = Bytes(file, i) /\ signed.contents = file[i].contents
          /\ signed = [bytes |-> signed.bytes, contents |-> signed.contents]
      BY DEF Signed
    <2>2. IsCms(signed.contents)
      BY <2>1 DEF IInv, CmsInv
    <2>3. /\ c.sigRef = [sigHash |-> Hash(alg, signed.contents.value),
                         sbHash |-> Hash(alg, signed.contents.attrs)]
          /\ c.dataRefs = {[ref |-> Len(signed.bytes.before) + 1, hash |-> Hash(alg, signed.bytes)]}
          /\ c.certRef = CertRef(issuer, signed.contents.chain, byHash)
      <3>1. Len(signed.bytes.before) + 1 = i
        BY <2>1, RefFact DEF IInv, TypeInv, Indices
      <3> QED BY <2>1, <3>1 DEF Claims, SvtData
    <2>4. \/ c.certRef = [type |-> "Chain", refs |-> signed.contents.chain]
          \/ c.certRef = [type |-> "ChainHash",
                          refs |-> [k \in DOMAIN signed.contents.chain |-> Hash(alg, signed.contents.chain[k])]]
      BY <2>3 DEF CertRef
    <2> HIDE DEF c, signed
    <2>5. ClaimOf(new, c, signed)
      <3> HIDE DEF new, alg
      <3> QED BY <1>2, <2>1, <2>2, <2>3, <2>4 DEF ClaimOf
    <2> QED BY <2>5 DEF c, signed
  <1>4. SvtOk(new)
    <2>1. new.jwt = Issue(new.issuer, new.jwt.payload.claims, byHash, exp) /\ CanIssue(new.issuer)
      BY DEF Issue, IssueSvt
    <2>2. \A c \in claims : \E signed \in new.over : ClaimOf(new, c, signed)
      <3> SUFFICES ASSUME NEW i \in covered
                   PROVE  \E signed \in new.over :
                            ClaimOf(new, Claims(issuer, SvtData(i, alg), byHash), signed)
        OBVIOUS
      <3>1. Signed(file, i) \in new.over
        BY <1>2
      <3> HIDE DEF new
      <3> QED BY <3>1, <1>3
    <2>3. \A signed \in new.over : \E c \in claims : ClaimOf(new, c, signed)
      <3> SUFFICES ASSUME NEW i \in covered
                   PROVE  \E c \in claims : ClaimOf(new, c, Signed(file, i))
        BY <1>2
      <3> HIDE DEF new
      <3> QED BY <1>3
    <2> HIDE DEF new, claims, exp
    <2> QED BY <1>2, <2>1, <2>2, <2>3 DEF SvtOk
  <1>5. SvtInv'
    <2> HIDE DEF new
    <2>1. \A svt \in issued' : SvtOk(svt)
      BY <1>1, <1>4 DEF IInv, SvtInv
    <2> QED BY <2>1 DEF SvtInv, SvtOk, ClaimOf
  <1>6. SealInv'
    BY <1>1 DEF IInv, SealInv, Indices, Jwt
  <1> QED BY <1>1, <1>5, <1>6 DEF IInv, TypeInv, TokenInv, CmsInv, Tokens, Indices, Attested

\* Damage leaves contents alone.
LEMMA DamageInv ==
  ASSUME IInv, NEW i \in DOMAIN file, Damage(i)
  PROVE  IInv'
  <1>1. PICK S : file \in Seq(S)
    BY DEF IInv, TypeInv, IsFile
  <1> DEFINE d == [file[i] EXCEPT !.body = "damaged"]
  <1>2. file' = [file EXCEPT ![i] = d] /\ UNCHANGED <<now, issued, attested>>
    BY DEF Damage
  <1>3. file' \in Seq(S \cup {d}) /\ DOMAIN file' = DOMAIN file
    BY <1>1, <1>2
  <1>4. d = [what |-> file[i].what, body |-> "damaged", contents |-> file[i].contents]
    BY DEF IInv, TypeInv, IsFile
  <1>5. ASSUME NEW j \in DOMAIN file
        PROVE  /\ file'[j].what = file[j].what /\ file'[j].contents = file[j].contents
               /\ file'[j] = [what |-> file'[j].what, body |-> file'[j].body, contents |-> file'[j].contents]
    <2>1. CASE j = i
      BY <2>1, <1>2, <1>4
    <2>2. CASE j # i
      BY <2>2, <1>2 DEF IInv, TypeInv, IsFile
    <2> QED BY <2>1, <2>2
  <1>6. IsFile(file')
    BY <1>3, <1>5 DEF IsFile
  <1>7. /\ Tokens' = Tokens /\ Indices("seal")' = Indices("seal")
        /\ Indices("signature")' = Indices("signature")
    BY <1>3, <1>5 DEF Tokens, Indices
  <1>8. TokenInv' /\ CmsInv' /\ SealInv'
    <2>1. \A j \in Tokens \cup Indices("seal") \cup Indices("signature") :
            file'[j].contents = file[j].contents
      BY <1>5 DEF Tokens, Indices
    <2> QED BY <2>1, <1>2, <1>7 DEF IInv, TokenInv, CmsInv, SealInv, Attested, Jwt
  <1>9. SvtInv'
    BY <1>2 DEF IInv, SvtInv, SvtOk, ClaimOf
  <1> QED BY <1>2, <1>6, <1>8, <1>9 DEF IInv, TypeInv

\* and the passing of time keeps it.
LEMMA TickInv ==
  ASSUME IInv, Tick \/ UNCHANGED vars
  PROVE  IInv'
  <1>1. now' \in Nat /\ now <= now' /\ UNCHANGED <<file, issued, attested>>
    BY DEF IInv, TypeInv, Tick, vars
  <1>2. TokenInv'
    <2> SUFFICES ASSUME NEW i \in Tokens PROVE Attested(file[i].contents)'
      BY <1>1 DEF TokenInv, Tokens, Indices
    <2>1. Attested(file[i].contents) /\ now \in Nat
      BY DEF IInv, TypeInv, TokenInv
    <2>2. PICK a \in attested : /\ a.bytes = file[i].contents.tst.imprint.of
                                /\ a.time = file[i].contents.tst.genTime /\ a.time \in Nat /\ a.time <= now
      BY <2>1 DEF Attested
    <2>3. a.time <= now'
      BY <1>1, <2>1, <2>2
    <2> QED BY <1>1, <2>2, <2>3 DEF Attested
  <1>3. CmsInv' /\ SealInv'
    BY <1>1 DEF IInv, CmsInv, SealInv, Indices, Jwt
  <1>4. SvtInv'
    BY <1>1 DEF IInv, SvtInv, SvtOk, ClaimOf
  <1> QED BY <1>1, <1>2, <1>3, <1>4 DEF IInv, TypeInv

-----------------------------------------------------------------------------
\* However files are signed, sealed, timestamped, extended and damaged, tokens
\* are of what their makers saw and SVTs of what their issuers did.
THEOREM Invariance == Spec => []IInv
  <1>1. ASSUME IInv, [Next]_vars PROVE IInv'
    BY <1>1, AddSignatureInv, UpdateInv, SealInvariant, TimestampInv, IssueSvtInv, DamageInv, TickInv
    DEF Next
  <1> QED BY InitInv, <1>1, PTL DEF Spec

\* TimestampVouches for any sealers and digests, whatever becomes of the file: the
\* imprint that matches is of the bytes that are in the file, so what was seen is
\* what is there.
THEOREM VouchesCorrect == Spec => []TimestampVouches
  <1>1. ASSUME IInv PROVE TimestampVouches
    <2> SUFFICES ASSUME NEW j \in Tokens, FullyVerified(Report(j))
                 PROVE  \E a \in attested : /\ a.bytes = Bytes(file, j)
                                            /\ a.time = Report(j).genTime /\ a.time <= now
      BY DEF TimestampVouches
    <2> DEFINE token == file[j].contents
    <2>1. Report(j).imprint /\ Report(j).genTime = token.tst.genTime
          /\ \E alg : token.tst.imprint = Hash(alg, Bytes(file, j))
      BY DEF FullyVerified, Report, DocTimestamp, VerifyDocTimestamp
    <2>2. token.tst.imprint.of = Bytes(file, j)
      BY <2>1 DEF Hash
    <2>3. Attested(token)
      BY <1>1 DEF IInv, TokenInv
    <2> QED BY <2>1, <2>2, <2>3 DEF Attested
  <1> QED BY <1>1, Invariance, PTL

\* The issuer of an SVT that verifies is one of those that are trusted or stand
\* below the CA.
LEMMA IssuerTrusted ==
  ASSUME NEW jwt, NEW time, JwtVerifies(jwt, Trusted, time)
  PROVE  jwt.signature.by \in ToSet(Trusted) \cup IssuedByCa
  <1>1. PICK cert \in VerificationCert(jwt, Trusted, time) : jwt.signature.by = cert
    BY DEF JwtVerifies
  <1>2. CASE jwt.header.x5c # <<>>
    BY <1>1, <1>2 DEF VerificationCert, X5cTrusted
  <1>3. CASE jwt.header.x5c = <<>>
    <2>1. \E k \in DOMAIN Trusted : cert = Trusted[k]
      BY <1>1, <1>3 DEF VerificationCert, KidMatches
    <2> QED BY <1>1, <2>1 DEF ToSet
  <1> QED BY <1>2, <1>3

\* A CMS says who made it, in its chain and in its value.
LEMMA CmsFacts ==
  ASSUME NEW c, NEW d, IsCms(c), IsCms(d), c.value = d.value, c.attrs = d.attrs
  PROVE  c = d /\ c.chain = <<c.chain[1], "ca">>
  <1>1. PICK who, bytes : c = Cms(who, bytes)
    BY DEF IsCms
  <1>2. PICK whoD, bytesD : d = Cms(whoD, bytesD)
    BY DEF IsCms
  <1>3. c.value.key = who /\ d.value.key = whoD /\ c.chain = <<who, "ca">> /\ d.chain = <<whoD, "ca">>
    BY <1>1, <1>2 DEF Cms, Signature
  <1>4. /\ c = [attrs |-> c.attrs, chain |-> c.chain, value |-> c.value]
        /\ d = [attrs |-> d.attrs, chain |-> d.chain, value |-> d.value]
    BY <1>1, <1>2 DEF Cms
  <1>5. who = whoD
    BY <1>3
  <1>6. c = d
    BY <1>3, <1>4, <1>5
  <1>7. c.chain[1] = who
    BY <1>3
  <1> QED BY <1>3, <1>6, <1>7

\* SvtSpeaksForThisSignature for any number of signatures, issuers and SVTs: the
\* hashes of a claim single out the signature that the SVT was issued for.
THEOREM SpeaksCorrect == Spec => []SvtSpeaksForThisSignature
  <1>1. ASSUME IInv PROVE SvtSpeaksForThisSignature
    <2> SUFFICES ASSUME NEW j \in Indices("seal"), NEW i \in Indices("signature"),
                        NEW cert \in Speaks(j, i)
                 PROVE  /\ cert = file[i].contents.chain[1]
                        /\ \E svt \in issued :
                             /\ svt.jwt = Jwt(j) /\ svt.issuer.owner \in ToSet(Trusted) \cup IssuedByCa
                             /\ Signed(file, i) \in svt.over
      BY DEF SvtSpeaksForThisSignature
    <2>1. PICK svt \in issued : svt.jwt = Jwt(j)
      BY <1>1 DEF IInv, SealInv
    <2>2. SvtOk(svt)
      BY <1>1 DEF IInv, SvtInv
    <2> DEFINE alg == svt.jwt.payload.hashAlgo
               data == SvtData(i, alg)
    <2>3. JwtVerifies(svt.jwt, Trusted, now) /\ cert \in ValidateSignature(svt.jwt.payload, data)
      BY <2>1 DEF Speaks
    <2>4. svt.issuer.owner \in ToSet(Trusted) \cup IssuedByCa
      <3>1. svt.jwt.signature.by = svt.issuer.owner
        BY <2>2 DEF SvtOk, Issue
      <3> QED BY <2>3, <3>1, IssuerTrusted
    <2>5. PICK c \in svt.jwt.payload.claims :
            /\ c.sigRef = [sigHash |-> data.sigHash, sbHash |-> data.sbHash]
            /\ c.dataRefs \subseteq data.dataRefs
            /\ cert \in SignerFromRefs(c.certRef, data.chain, alg)
      BY <2>3 DEF ValidateSignature
    <2>6. PICK signed \in svt.over : ClaimOf(svt, c, signed)
      BY <2>2, <2>5 DEF SvtOk
    <2>7. /\ data.sigHash = Hash(alg, file[i].contents.value)
          /\ data.sbHash = Hash(alg, file[i].contents.attrs)
          /\ data.dataRefs = {[ref |-> i, hash |-> Hash(alg, Bytes(file, i))]}
          /\ data.chain = file[i].contents.chain
      BY DEF SvtData
    <2> HIDE DEF data
    <2>8. signed.contents.value = file[i].contents.value /\ signed.contents.attrs = file[i].contents.attrs
      BY <2>5, <2>6, <2>7 DEF ClaimOf, Hash
    <2>9. signed.bytes = Bytes(file, i)
      BY <2>5, <2>6, <2>7 DEF ClaimOf, Hash
    <2>10. signed.contents = file[i].contents
           /\ signed.contents.chain = <<signed.contents.chain[1], "ca">>
      BY <1>1, <2>6, <2>8, CmsFacts DEF ClaimOf, IInv, CmsInv
    <2>11. Signed(file, i) = signed
      BY <2>6, <2>9, <2>10 DEF ClaimOf, Signed
    <2>12. cert = signed.contents.chain[1]
      <3> DEFINE chain == signed.contents.chain
      <3>1. 1 \in DOMAIN chain
        BY <2>10
      <3> HIDE DEF chain
      <3>2. ASSUME c.certRef = [type |-> "Chain", refs |-> chain] PROVE cert = chain[1]
        <4>1. c.certRef.type = "Chain" /\ c.certRef.refs = chain
          BY <3>2
        <4>2. cert \in {chain[k] : k \in DOMAIN chain \cap {1}}
          BY <2>5, <4>1 DEF SignerFromRefs
        <4> QED BY <4>2
      <3>3. ASSUME c.certRef = [type |-> "ChainHash",
                               refs |-> [k \in DOMAIN chain |-> Hash(alg, chain[k])]]
            PROVE  cert = chain[1]
        <4>1. c.certRef.refs[1] = Hash(alg, chain[1]) /\ c.certRef.type = "ChainHash"
          BY <3>1, <3>3
        <4>2. c.certRef.refs[1] = Hash(alg, cert)
          BY <2>5, <4>1 DEF SignerFromRefs
        <4> QED BY <4>1, <4>2 DEF Hash
      <3> QED BY <2>6, <3>2, <3>3 DEF ClaimOf, chain
    <2> QED BY <2>1, <2>4, <2>10, <2>11, <2>12
  <1> QED BY <1>1, Invariance, PTL

\* Every nonempty set of naturals has a least element.
LEMMA LeastElement ==
  ASSUME NEW T, T \subseteq Nat, T # {}
  PROVE  \E x \in T : \A y \in T : x <= y
<1> DEFINE R == OpToRel(<, Nat)
<1>1. IsWellFoundedOn(R, Nat)  BY NatLessThanWellFounded
<1>2. \E x \in T : \A y \in T : ~(<<y, x>> \in R)
  <2> HIDE DEF R
  <2> QED BY <1>1, WFMin
<1>3. \E x \in T : \A y \in T : ~(y < x)
  BY <1>2 DEF OpToRel
<1> HIDE DEF R
<1> QED BY <1>3

\* A recognised issuer's certificate is the one that its SVT is verified with.
LEMMA IssuerFound ==
  ASSUME NEW svt, SvtOk(svt), Recognised(svt)
  PROVE  svt.issuer.owner \in VerificationCert(svt.jwt, Trusted, now)
  <1> DEFINE issuer == svt.issuer
             jwt    == svt.jwt
  <1>1. PICK byHash, exp : jwt = Issue(issuer, jwt.payload.claims, byHash, exp)
    BY DEF SvtOk
  <1>2. /\ jwt.header.x5c = IF byHash THEN <<>> ELSE issuer.chain
        /\ jwt.header.kid = IF byHash /\ issuer.chain # <<>>
                            THEN Hash(Registry[issuer.alg], issuer.chain[1]) ELSE NoKid
    <2> HIDE DEF issuer
    <2> QED BY <1>1 DEF Issue
  <1>3. Registry[issuer.alg] \in Sha2
    BY SealAssumption DEF SvtOk, Registry, Sha2
  <1>4. CASE ~byHash /\ issuer.chain # <<>>
    <2>1. jwt.header.x5c = issuer.chain /\ issuer.chain[1] = issuer.owner
      BY <1>2, <1>4 DEF Recognised
    <2>2. X5cTrusted(jwt, Trusted, now)
      BY <2>1, <1>4 DEF Recognised, X5cTrusted
    <2> QED BY <2>1, <2>2, <1>4 DEF VerificationCert
  <1>5. CASE byHash /\ issuer.chain # <<>>
    <2>1. /\ jwt.header.x5c = <<>> /\ issuer.chain[1] = issuer.owner
          /\ jwt.header.kid = Hash(Registry[issuer.alg], issuer.owner)
          /\ issuer.owner \in ToSet(Trusted)
      BY <1>2, <1>5 DEF Recognised
    <2>2. jwt.header.kid # NoKid
      BY <2>1, <1>3 DEF NoKid, Hash, Sha2
    <2> DEFINE matches == KidMatches(jwt, Trusted)
    <2>3. matches \subseteq Nat /\ matches \subseteq DOMAIN Trusted
      BY SealAssumption DEF KidMatches
    <2>4. matches # {}
      BY <2>1, <1>3 DEF KidMatches, ToSet
    <2>5. ASSUME NEW k \in matches PROVE Trusted[k] = issuer.owner
      <3>1. PICK alg \in Sha2 : jwt.header.kid = Hash(alg, Trusted[k])
        BY DEF KidMatches
      <3>2. jwt.header.kid.of = Trusted[k]
        BY <3>1 DEF Hash
      <3>3. jwt.header.kid.of = issuer.owner
        BY <2>1 DEF Hash
      <3> QED BY <3>2, <3>3
    <2>6. PICK k \in matches : \A j \in matches : k <= j
      <3> HIDE DEF matches
      <3> QED BY <2>3, <2>4, LeastElement
    <2>7. issuer.owner \in {Trusted[l] : l \in {l \in matches : \A j \in matches : l <= j}}
      BY <2>5, <2>6
    <2> QED BY <2>1, <2>2, <2>7 DEF VerificationCert
  <1>6. CASE issuer.chain = <<>>
    <2>1. jwt.header.x5c = <<>> /\ jwt.header.kid = NoKid
      BY <1>2, <1>6
    <2>2. Len(Trusted) > 0 /\ issuer.owner = Trusted[1]
      BY <1>6 DEF Recognised
    <2>3. 1 \in DOMAIN Trusted
      BY <2>2, SealAssumption
    <2> QED BY <2>1, <2>2, <2>3 DEF VerificationCert
  <1> QED BY <1>4, <1>5, <1>6

\* References to a signature's certificates lead back to its signer.
LEMMA SignerFound ==
  ASSUME NEW certRef, NEW who, NEW alg, NEW chain, chain = <<who, "ca">>,
         \/ certRef = [type |-> "Chain", refs |-> chain]
         \/ certRef = [type |-> "ChainHash", refs |-> [k \in DOMAIN chain |-> Hash(alg, chain[k])]]
  PROVE  who \in SignerFromRefs(certRef, chain, alg)
  <1>1. DOMAIN chain = {1, 2} /\ chain[1] = who /\ who \in ToSet(chain)
    BY DEF ToSet
  <1>2. CASE certRef = [type |-> "Chain", refs |-> chain]
    <2>1. certRef.type = "Chain" /\ certRef.refs = chain
      BY <1>2
    <2> QED BY <1>1, <2>1 DEF SignerFromRefs
  <1>3. CASE certRef = [type |-> "ChainHash", refs |-> [k \in DOMAIN chain |-> Hash(alg, chain[k])]]
    <2> DEFINE refs == [k \in 1 .. 2 |-> Hash(alg, chain[k])]
    <2>1. certRef.type = "ChainHash" /\ certRef.refs = refs
      BY <1>1, <1>3
    <2>2. Len(refs) = 2 /\ DOMAIN refs = 1 .. 2
      OBVIOUS
    <2>3. \A k \in DOMAIN refs : \E cert \in ToSet(chain) : refs[k] = Hash(alg, cert)
      BY <1>1 DEF ToSet
    <2>4. refs[1] = Hash(alg, who)
      BY <1>1
    <2> HIDE DEF refs
    <2> QED BY <1>1, <2>1, <2>2, <2>3, <2>4 DEF SignerFromRefs
  <1> QED BY <1>2, <1>3

\* AgedSignatureStaysValid for any issuers, trusted certificates and number of
\* later revisions: what an SVT was issued for is found in it again, by its
\* revision's number and its hashes, and its issuer among the trusted ones.
THEOREM AgedCorrect == Spec => []AgedSignatureStaysValid
  <1>1. ASSUME IInv PROVE AgedSignatureStaysValid
    <2> SUFFICES ASSUME NEW j \in Indices("seal"), NEW i \in Indices("signature"), NEW svt \in issued,
                        svt.jwt = Jwt(j), Signed(file, i) \in svt.over,
                        Recognised(svt), Unexpired(svt.jwt, now)
                 PROVE  Speaks(j, i) # {}
      BY DEF AgedSignatureStaysValid
    <2>1. SvtOk(svt)
      BY <1>1 DEF IInv, SvtInv
    <2> DEFINE alg    == svt.jwt.payload.hashAlgo
               data   == SvtData(i, alg)
               signed == Signed(file, i)
    <2>2. JwtVerifies(svt.jwt, Trusted, now)
      <3> DEFINE issuer == svt.issuer
                 jwt    == svt.jwt
      <3>1. PICK byHash, exp : jwt = Issue(issuer, jwt.payload.claims, byHash, exp)
        BY <2>1 DEF SvtOk
      <3>2. /\ jwt.alg = issuer.alg /\ jwt.signature.by = issuer.owner
            /\ jwt.signature.alg = jwt.alg /\ jwt.signature.over = <<jwt.header, jwt.payload>>
        <4> HIDE DEF issuer
        <4> QED BY <3>1 DEF Issue
      <3>3. KeyOf[issuer.owner] \in JwsKeys(jwt.alg)
        BY <2>1, <3>2 DEF SvtOk, CanIssue
      <3>4. issuer.owner \in VerificationCert(jwt, Trusted, now)
        BY <2>1, IssuerFound
      <3> QED BY <3>2, <3>3, <3>4 DEF JwtVerifies
    <2>3. PICK c \in svt.jwt.payload.claims : ClaimOf(svt, c, signed)
      BY <2>1 DEF SvtOk
    <2>4. signed.bytes = Bytes(file, i) /\ signed.contents = file[i].contents
      BY DEF Signed
    <2>5. Len(signed.bytes.before) + 1 = i
      BY <1>1, <2>4, RefFact DEF IInv, TypeInv, Indices
    <2>6. /\ c.sigRef = [sigHash |-> data.sigHash, sbHash |-> data.sbHash]
          /\ c.dataRefs = data.dataRefs
          /\ data.chain = signed.contents.chain
      <3> HIDE DEF signed
      <3> QED BY <2>3, <2>4, <2>5 DEF ClaimOf, SvtData
    <2>7. PICK who, bytes : signed.contents = Cms(who, bytes)
      BY <2>3 DEF ClaimOf, IsCms
    <2>8. signed.contents.chain = <<who, "ca">>
      BY <2>7 DEF Cms
    <2>9. who \in SignerFromRefs(c.certRef, data.chain, alg)
      <3> HIDE DEF signed, data
      <3> QED BY <2>3, <2>6, <2>8, SignerFound DEF ClaimOf
    <2>10. who \in ValidateSignature(svt.jwt.payload, data)
      <3> HIDE DEF data
      <3> QED BY <2>6, <2>9 DEF ValidateSignature
    <2> QED BY <2>2, <2>10 DEF Speaks
  <1> QED BY <1>1, Invariance, PTL

-----------------------------------------------------------------------------
(* Who made the tokens. *)

\* The number of the revision whose bytes were attested.
AttestedAt(a) == Len(a.bytes.before) + 1

MadeBy(token, a) ==
  \/ /\ a.by \in Sealers /\ CanSeal(a.by)
     /\ \E jwt : token = SealToken(a.by, a.bytes, a.time, jwt)
  \/ /\ a.by = TsaSigner
     /\ \E digest \in TsaDigests : token = TsaToken(digest, a.bytes, a.time)

\* Nobody attests the same revision twice, and a token is by who attested its
\* revision: which of several signers with one key is told by the revision.
OnceInv == \A a \in attested : /\ AttestedAt(a) \in 1 .. Len(file)
                               /\ \A b \in attested : AttestedAt(a) = AttestedAt(b) => a = b
MadeInv == \A j \in Tokens : \E a \in attested :
             AttestedAt(a) = j /\ MadeBy(file[j].contents, a)

TokensInv == OnceInv /\ MadeInv

\* A step that attests nothing and appends no token.
LEMMA KeepTokens ==
  ASSUME TokensInv, attested' = attested,
         Len(file) \in Nat, Len(file') \in Nat, Len(file) <= Len(file'),
         \A j \in Tokens' : j \in Tokens /\ file'[j].contents = file[j].contents
  PROVE  TokensInv'
  <1>1. OnceInv'
    <2>1. \A k \in 1 .. Len(file) : k \in 1 .. Len(file')
      OBVIOUS
    <2> QED BY <2>1 DEF TokensInv, OnceInv, AttestedAt
  <1>2. MadeInv'
    <2> SUFFICES ASSUME NEW j \in Tokens'
                 PROVE  \E a \in attested : AttestedAt(a) = j /\ MadeBy(file'[j].contents, a)
      BY DEF MadeInv, AttestedAt, MadeBy
    <2> QED BY DEF TokensInv, MadeInv
  <1> QED BY <1>1, <1>2 DEF TokensInv

\* Filling the newest revision with a token made over it keeps the tokens in
\* order.
LEMMA TokenAppended ==
  ASSUME IInv, TokensInv, NEW what, NEW by, NEW token,
         file' = Filled(file, what, token), Attest(by),
         LET a == [bytes |-> Bytes(Prepared(file, what), Len(file) + 1), time |-> now, by |-> by]
         IN  MadeBy(token, a)
  PROVE  TokensInv'
  <1> DEFINE n == Len(file) + 1
             new == [bytes |-> Bytes(Prepared(file, what), n), time |-> now, by |-> by]
  <1>1. /\ IsFile(file') /\ Len(file) \in Nat /\ DOMAIN file = 1 .. Len(file)
        /\ DOMAIN file' = 1 .. n /\ Len(file') = n
        /\ \A i \in 1 .. Len(file) : file'[i] = file[i]
        /\ file'[n] = Revision(what, token)
        /\ Bytes(file', n) = Bytes(Prepared(file, what), n)
    BY AppendedFacts DEF IInv, TypeInv
  <1>2. attested' = attested \cup {new}
    BY <1>1 DEF Attest
  <1>3. AttestedAt(new) = n
    <2>1. n \in DOMAIN file' /\ new.bytes = Bytes(file', n)
      BY <1>1
    <2> HIDE DEF new, n
    <2> QED BY <1>1, <2>1, RefFact DEF AttestedAt
  <1>4. file'[n].contents = token
    BY <1>1 DEF Revision
  <1>5. MadeBy(token, new)
    OBVIOUS
  <1> HIDE DEF new
  <1>6. \A a \in attested : AttestedAt(a) \in 1 .. Len(file)
    BY DEF TokensInv, OnceInv
  <1>7. (\A k \in 1 .. Len(file) : k \in 1 .. n /\ k # n) /\ n \in 1 .. n
    BY <1>1
  <1>8. OnceInv'
    <2>1. \A a \in attested' : AttestedAt(a) \in 1 .. n
      BY <1>2, <1>3, <1>6, <1>7
    <2>2. \A a, b \in attested' : AttestedAt(a) = AttestedAt(b) => a = b
      BY <1>2, <1>3, <1>6, <1>7 DEF TokensInv, OnceInv
    <2> QED BY <1>1, <2>1, <2>2 DEF OnceInv, AttestedAt
  <1>9. MadeInv'
    <2> SUFFICES ASSUME NEW j \in Tokens'
                 PROVE  \E a \in attested' : AttestedAt(a) = j /\ MadeBy(file'[j].contents, a)
      BY DEF MadeInv, AttestedAt, MadeBy
    <2>1. j \in DOMAIN file' /\ file'[j].what \in {"seal", "timestamp"}
      BY DEF Tokens, Indices
    <2>2. CASE j = n
      BY <1>2, <1>3, <1>4, <1>5, <2>2
    <2>3. CASE j # n
      <3>1. j \in DOMAIN file /\ file'[j] = file[j]
        BY <1>1, <2>1, <2>3
      <3>2. j \in Tokens
        BY <2>1, <3>1 DEF Tokens, Indices
      <3> QED BY <1>2, <3>1, <3>2 DEF TokensInv, MadeInv
    <2> QED BY <2>2, <2>3
  <1> QED BY <1>8, <1>9 DEF TokensInv

\* A file without tokens has its tokens in order.
LEMMA TokensInit == Init => TokensInv
  <1> SUFFICES ASSUME Init PROVE TokensInv
    OBVIOUS
  <1>1. \A i \in DOMAIN file : file[i].what = "original"
    BY DEF Init, Revision
  <1> QED BY <1>1 DEF Init, TokensInv, OnceInv, MadeInv, Tokens, Indices

\* Every step keeps the tokens in order.
LEMMA TokensStep == IInv /\ TokensInv /\ [Next]_vars => TokensInv'
  <1> SUFFICES ASSUME IInv, TokensInv, [Next]_vars PROVE TokensInv'
    OBVIOUS
  <1>0. PICK S : file \in Seq(S)
    BY DEF IInv, TypeInv, IsFile
  <1>00. Len(file) \in Nat /\ DOMAIN file = 1 .. Len(file) /\ IsFile(file)
    BY <1>0 DEF IInv, TypeInv
  <1>1. ASSUME NEW what, what \notin {"seal", "timestamp"}, NEW c,
               file' = Filled(file, what, c), attested' = attested
        PROVE  TokensInv'
    <2>1. /\ Len(file') = Len(file) + 1 /\ DOMAIN file' = 1 .. Len(file) + 1
          /\ \A i \in 1 .. Len(file) : file'[i] = file[i]
          /\ file'[Len(file) + 1] = Revision(what, c)
      BY <1>00, <1>1, AppendedFacts
    <2>2. file'[Len(file) + 1].what \notin {"seal", "timestamp"}
      BY <1>1, <2>1 DEF Revision
    <2>3. \A j \in Tokens' : j \in DOMAIN file' /\ file'[j].what \in {"seal", "timestamp"}
      BY DEF Tokens, Indices
    <2>4. \A j \in DOMAIN file' : j \in 1 .. Len(file) \/ j = Len(file) + 1
      BY <1>00, <2>1
    <2>5. \A j \in Tokens' : j \in Tokens /\ file'[j].contents = file[j].contents
      BY <1>00, <2>1, <2>2, <2>3, <2>4 DEF Tokens, Indices
    <2>6. Len(file') \in Nat /\ Len(file) <= Len(file')
      BY <1>00, <2>1
    <2> QED BY <1>00, <1>1, <2>5, <2>6, KeepTokens
  <1>2. ASSUME NEW who \in Signatories, AddSignature(who)
        PROVE  TokensInv'
    <2> DEFINE c == Cms(who, Bytes(Prepared(file, "signature"), Len(file) + 1))
    <2>1. file' = Filled(file, "signature", c) /\ attested' = attested
      BY <1>00, <1>2, PreparedLength DEF AddSignature, AppendFilled, Prepared, Filled
    <2> HIDE DEF c
    <2> QED BY <1>1, <2>1
  <1>3. CASE Update
    <2> DEFINE c == NoContents
    <2>1. file' = Filled(file, "update", c) /\ attested' = attested
      BY <1>00, <1>3, PreparedLength DEF Update, AppendFilled, Prepared, Filled
    <2> HIDE DEF c
    <2> QED BY <1>1, <2>1
  <1>4. ASSUME NEW svt \in issued, NEW sealer \in Sealers, Seal(svt.jwt, sealer)
        PROVE  TokensInv'
    <2> DEFINE bytes == Bytes(Prepared(file, "seal"), Len(file) + 1)
               token == SealToken(sealer, bytes, now, svt.jwt)
               a     == [bytes |-> bytes, time |-> now, by |-> sealer]
    <2>1. file' = Filled(file, "seal", token) /\ Attest(sealer) /\ CanSeal(sealer)
      BY <1>00, <1>4, PreparedLength DEF Seal, AppendFilled, Prepared, Filled
    <2>2. MadeBy(token, a)
      <3>1. a.by = sealer /\ a.bytes = bytes /\ a.time = now
        OBVIOUS
      <3> HIDE DEF a, bytes
      <3> QED BY <2>1, <3>1 DEF MadeBy
    <2> HIDE DEF token
    <2> QED BY <2>1, <2>2, TokenAppended
  <1>5. ASSUME NEW digest \in TsaDigests, Timestamp(digest)
        PROVE  TokensInv'
    <2> DEFINE bytes == Bytes(Prepared(file, "timestamp"), Len(file) + 1)
               token == TsaToken(digest, bytes, now)
               a     == [bytes |-> bytes, time |-> now, by |-> TsaSigner]
    <2>1. file' = Filled(file, "timestamp", token) /\ Attest(TsaSigner)
      BY <1>00, <1>5, PreparedLength DEF Timestamp, AppendFilled, Prepared, Filled
    <2>2. MadeBy(token, a)
      <3>1. a.by = TsaSigner /\ a.bytes = bytes /\ a.time = now
        OBVIOUS
      <3> HIDE DEF a, bytes
      <3> QED BY <3>1 DEF MadeBy
    <2> HIDE DEF token
    <2> QED BY <2>1, <2>2, TokenAppended
  <1>6. ASSUME NEW i \in DOMAIN file, Damage(i)
        PROVE  TokensInv'
    <2> DEFINE d == [file[i] EXCEPT !.body = "damaged"]
    <2>1. file' = [file EXCEPT ![i] = d] /\ attested' = attested
      BY <1>6 DEF Damage
    <2>2. d = [what |-> file[i].what, body |-> "damaged", contents |-> file[i].contents]
      BY <1>00 DEF IsFile
    <2>3. DOMAIN file' = DOMAIN file /\ Len(file') = Len(file)
      <3>1. file \in Seq(S \cup {d})
        BY <1>0
      <3> HIDE DEF d
      <3> QED BY <2>1, <3>1
    <2>4. \A j \in DOMAIN file : file'[j].what = file[j].what /\ file'[j].contents = file[j].contents
      BY <2>1, <2>2
    <2>5. \A j \in Tokens' : j \in Tokens /\ file'[j].contents = file[j].contents
      BY <2>3, <2>4 DEF Tokens, Indices
    <2> QED BY <1>00, <2>1, <2>3, <2>5, KeepTokens
  <1>7. CASE UNCHANGED <<file, attested>>
    BY <1>7 DEF TokensInv, OnceInv, MadeInv, AttestedAt, MadeBy, Tokens, Indices
  <1> QED BY <1>2, <1>3, <1>4, <1>5, <1>6, <1>7 DEF Next, IssueSvt, Tick, vars

\* A token is made by who attested its revision.
THEOREM MadeInvariance == Spec => []TokensInv
  <1>1. Spec => []IInv
    BY Invariance
  <1> QED BY <1>1, TokensInit, TokensStep, PTL DEF Spec

-----------------------------------------------------------------------------
\* A sealer names a scheme that fits its key, see SoftwareSigner and
\* RemoteSignerInfo, which leave that to the caller.
SchemesFit ==
  \A s \in Sealers :
    /\ s.key = "rsa" => s.scheme \in {"RsaPkcs1v15", "RsaPss"}
    /\ s.key \in {"p256", "p384", "p521"} => s.scheme = "Ecdsa"

\* What a time-stamp token consists of.
LEMMA TokenFacts ==
  ASSUME NEW s, NEW algorithm, NEW tst
  PROVE  LET token == Token(s, algorithm, tst)
         IN  /\ token.tst = tst /\ token.attrs = TimestampAttrs(s, tst)
             /\ token.sigAlg = algorithm /\ token.signature = Sign(s, TimestampAttrs(s, tst))
             /\ token.sid = Certificate(s.key) /\ token.sid \in token.certificates
             /\ token.sid[2] = s.key
  BY DEF Token, Certificate

\* RSA signatures over SHA-2 verify by the algorithm of CMS and of seals.
LEMMA RsaVerifies ==
  ASSUME NEW s, s.key = "rsa", s.digest \in Sha2, s.scheme \in {"RsaPkcs1v15", "RsaPss"},
         NEW attrs
  PROVE  /\ SignatureVerifies(SignatureAlgorithm(s), attrs, s.key, Sign(s, attrs))
         /\ SealAlgorithm(s) = SignatureAlgorithm(s)
  <1> DEFINE sig == Sign(s, attrs)
  <1>1. sig = Signature(s.key, RsaScheme(s), Hash(s.digest, attrs))
    BY DEF Sign, RemoteSign, SignHash
  <1>2. sig.key = s.key /\ sig.scheme = RsaScheme(s) /\ sig.hash = Hash(s.digest, attrs)
    BY <1>1 DEF Signature
  <1>3. s.digest \notin Sha3
    BY DEF Sha2, Sha3
  <1> HIDE DEF sig
  <1>4. CASE s.scheme = "RsaPss"
    <2>1. SignatureAlgorithm(s) = <<"pss">> /\ RsaScheme(s) = <<"pss", s.digest>>
      BY <1>4 DEF SignatureAlgorithm, RsaScheme
    <2> QED BY <1>2, <1>4, <2>1 DEF SignatureVerifies, SealAlgorithm, sig
  <1>5. CASE s.scheme = "RsaPkcs1v15"
    <2>1. SignatureAlgorithm(s) = <<"rsa", s.digest>> /\ RsaScheme(s) = <<"rsa", s.digest>>
      BY <1>3, <1>5 DEF SignatureAlgorithm, RsaScheme
    <2> QED BY <1>2, <1>5, <2>1 DEF SignatureVerifies, SealAlgorithm, sig
  <1> QED BY <1>4, <1>5

\* The algorithm of a seal by a curve is that of its verification.
LEMMA CurveVerifies ==
  ASSUME NEW s, s.remote, s.key \in {"p256", "p384"}, s.scheme = "Ecdsa",
         s.digest \in EcdsaDigest(s.key, s.digest), NEW attrs
  PROVE  SignatureVerifies(SealAlgorithm(s), attrs, s.key, Sign(s, attrs))
  <1> DEFINE sig == Sign(s, attrs)
  <1>1. sig = Signature(s.key, <<"ecdsa">>, Hash(s.digest, attrs))
    BY DEF Sign, RemoteSign
  <1>2. sig.key = s.key /\ sig.scheme = <<"ecdsa">> /\ sig.hash = Hash(s.digest, attrs)
    BY <1>1 DEF Signature
  <1>3. SealAlgorithm(s) = <<"ecdsa", IF s.key = "p256" THEN "SHA256" ELSE "SHA384">>
    BY DEF SealAlgorithm
  <1>4. s.digest = IF s.key = "p256" THEN "SHA256" ELSE "SHA384"
    BY DEF EcdsaDigest
  <1>5. s.digest \in EcdsaDigest(s.key, IF s.key = "p256" THEN "SHA256" ELSE "SHA384")
    BY <1>4
  <1> HIDE DEF sig
  <1> QED BY <1>2, <1>3, <1>5 DEF SignatureVerifies, sig

\* What a token says, and that it verifies if its maker is one of Verifiable.
LEMMA TokenVerifies ==
  ASSUME SchemesFit, NEW token, NEW a, MadeBy(token, a), Verifiable(a.by)
  PROVE  /\ token.sid \in token.certificates
         /\ SignatureVerifies(token.sigAlg, token.attrs, token.sid[2], token.signature)
         /\ \E digest : token.tst.imprint = Hash(digest, a.bytes)
         /\ token.tst.genTime = a.time
  <1> DEFINE s == a.by
  <1>1. CASE s \in Sealers /\ CanSeal(s) /\ \E jwt : token = SealToken(s, a.bytes, a.time, jwt)
    <2>1. PICK jwt : token = SealToken(s, a.bytes, a.time, jwt)
      BY <1>1
    <2> DEFINE tst == TstInfo(Hash(s.digest, a.bytes), a.time, jwt)
    <2>2. token = Token(s, SealAlgorithm(s), tst)
      BY <2>1 DEF SealToken
    <2>3. tst.imprint = Hash(s.digest, a.bytes) /\ tst.genTime = a.time
      BY DEF TstInfo
    <2> HIDE DEF tst
    <2>4. SignatureVerifies(SealAlgorithm(s), TimestampAttrs(s, tst), s.key,
                            Sign(s, TimestampAttrs(s, tst)))
      <3>1. CASE s.key = "rsa" /\ s.digest \in Sha2
        <4>1. s.scheme \in {"RsaPkcs1v15", "RsaPss"}
          BY <1>1, <3>1 DEF SchemesFit
        <4> HIDE DEF s
        <4> QED BY <3>1, <4>1, RsaVerifies
      <3>2. CASE /\ s.remote /\ s.key \in {"p256", "p384", "p521"}
                 /\ s.digest \in EcdsaDigest(s.key, s.digest)
        <4>1. s.scheme = "Ecdsa" /\ s.key \in {"p256", "p384"}
          BY <1>1, <3>2 DEF SchemesFit, CanSeal
        <4> HIDE DEF s
        <4> QED BY <3>2, <4>1, CurveVerifies
      <3> QED BY <3>1, <3>2 DEF Verifiable
    <2> HIDE DEF s
    <2> QED BY <2>2, <2>3, <2>4, TokenFacts
  <1>2. CASE s = TsaSigner /\ \E digest \in TsaDigests : token = TsaToken(digest, a.bytes, a.time)
    <2>1. PICK digest \in TsaDigests : token = TsaToken(digest, a.bytes, a.time)
      BY <1>2
    <2> DEFINE tst == TstInfo(Hash(digest, a.bytes), a.time, NoJwt)
    <2>2. token = Token(TsaSigner, SignatureAlgorithm(TsaSigner), tst)
      BY <2>1 DEF TsaToken
    <2>3. tst.imprint = Hash(digest, a.bytes) /\ tst.genTime = a.time
      BY DEF TstInfo
    <2>4. TsaSigner.key = "rsa" /\ TsaSigner.digest \in Sha2 /\ TsaSigner.scheme = "RsaPkcs1v15"
      BY DEF TsaSigner, Sha2
    <2> HIDE DEF tst
    <2>5. SignatureVerifies(SignatureAlgorithm(TsaSigner), TimestampAttrs(TsaSigner, tst),
                            TsaSigner.key, Sign(TsaSigner, TimestampAttrs(TsaSigner, tst)))
      BY <2>4, RsaVerifies
    <2> QED BY <2>2, <2>3, <2>5, TokenFacts
  <1> QED BY <1>1, <1>2 DEF MadeBy

\* SealVerifies: with any sealers, digests and history, a token of the library or
\* of a TSA over bytes that are still there is accepted until its chain expires,
\* by the pass with the default digest or the one with the token's own.
THEOREM SealsCorrect ==
  ASSUME SchemesFit
  PROVE  Spec => []SealVerifies
  <1>1. ASSUME IInv, TokensInv
        PROVE  SealVerifies
    <2> SUFFICES ASSUME NEW j \in Tokens, now <= SealUntil, NEW a \in attested,
                        a.bytes = Bytes(file, j), Verifiable(a.by)
                 PROVE  FullyVerified(Report(j))
      BY DEF SealVerifies
    <2> DEFINE token == file[j].contents
               bytes == Bytes(file, j)
    <2>1. PICK b \in attested : AttestedAt(b) = j /\ MadeBy(token, b)
      BY <1>1 DEF TokensInv, MadeInv
    <2>2. AttestedAt(a) = j
      BY <1>1, RefFact DEF AttestedAt, IInv, TypeInv, Tokens, Indices
    <2>3. a = b
      BY <1>1, <2>1, <2>2 DEF TokensInv, OnceInv
    <2>4. /\ token.sid \in token.certificates
          /\ SignatureVerifies(token.sigAlg, token.attrs, token.sid[2], token.signature)
          /\ \E digest : token.tst.imprint = Hash(digest, bytes)
      BY <2>1, <2>3, TokenVerifies
    <2>5. PICK digest : token.tst.imprint = Hash(digest, bytes)
      BY <2>4
    <2>6. token.tst.imprint.alg = digest
      BY <2>5 DEF Hash
    <2> HIDE DEF token, bytes
    <2>7. /\ Report(j) = DocTimestamp(token, bytes, now <= SealUntil)
          /\ \A hash : VerifyDocTimestamp(token, hash, now <= SealUntil).imprint
                         <=> token.tst.imprint = hash
      BY DEF Report, VerifyDocTimestamp, token, bytes
    <2>8. Report(j) = VerifyDocTimestamp(token, Hash(digest, bytes), now <= SealUntil)
      <3>1. CASE digest = DefaultDigest
        BY <2>5, <2>7, <3>1 DEF DocTimestamp
      <3>2. CASE digest # DefaultDigest
        <4>1. token.tst.imprint # Hash(DefaultDigest, bytes)
          BY <2>6, <3>2 DEF Hash
        <4> QED BY <2>6, <2>7, <3>2, <4>1 DEF DocTimestamp
      <3> QED BY <3>1, <3>2
    <2>9. Report(j).signature
      BY <2>4, <2>8 DEF VerifyDocTimestamp
    <2>10. Report(j).imprint
      BY <2>5, <2>7, <2>8
    <2>11. Report(j).chain
      <3> DEFINE trusted == now <= SealUntil
      <3>1. trusted
        OBVIOUS
      <3> HIDE DEF trusted
      <3>2. VerifyDocTimestamp(token, Hash(digest, bytes), trusted).chain
        BY <3>1 DEF VerifyDocTimestamp
      <3> QED BY <2>8, <3>2 DEF trusted
    <2> QED BY <2>9, <2>10, <2>11 DEF FullyVerified
  <1>2. Spec => []IInv /\ []TokensInv
    BY Invariance, MadeInvariance
  <1> QED BY <1>1, <1>2, PTL
=============================================================================
