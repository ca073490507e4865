---------------------------- MODULE SealedDocument ----------------------------
(***************************************************************************)
(* Signed files that are sealed for the long term: an application has an   *)
(* SVT issued for signatures it has verified, seals the file with it       *)
(* (create_svt_sealed_pdf of svt/embed.rs) or adds a plain document        *)
(* timestamp, and years later, when the file has grown and certificates    *)
(* have expired, validates signatures through the SVT.                     *)
(*                                                                         *)
(* A file is a sequence of revisions.  What can happen to it at rest is    *)
(* that bytes of a revision outside of /Contents change.                   *)
(***************************************************************************)
EXTENDS TimestampTokens, SvtTokens

CONSTANTS Signatories, \* who signs: certificates
          Issuers,     \* SVT issuers, see SvtTokens
          Sealers,     \* signers that files are sealed with, see CryptoTerms
          Trusted,     \* sequence of certificates trusted for SVTs
          TsaDigests,  \* algorithms a TSA is asked with
          SealUntil,   \* end of validity of the chains of sealers and TSA
          Validities,  \* lifetimes of an SVT, NoExpiry for none
          MaxRevisions, MaxIssued, MaxTime \* bounds

ASSUME SealAssumption ==
  /\ Sealers \subseteq Signer /\ TsaDigests \subseteq Sha2 /\ SealUntil \in Nat /\ Validities \subseteq Nat
  /\ MaxRevisions \in Nat /\ MaxIssued \in Nat /\ MaxTime \in Nat
  /\ Trusted \in Seq(DOMAIN KeyOf)
  \* SvtIssuer::new refuses other algorithms
  /\ \A issuer \in Issuers :
       /\ issuer.alg \in DOMAIN Registry /\ issuer.owner \in DOMAIN KeyOf
       /\ issuer.chain \in Seq(DOMAIN KeyOf)

VARIABLES now,     \* the clock
          file,    \* the file at rest
          issued,  \* SVTs issued, and the bytes and CMS each was issued for
          attested \* what sealers and the TSA put their time on

vars == <<now, file, issued, attested>>

NoContents == [type |-> "none"]

Revision(what, contents) == [what |-> what, body |-> "intact", contents |-> contents]

\* what the ByteRange of revision i selects
Bytes(f, i) == [before |-> SubSeq(f, 1, i - 1), at |-> [f[i] EXCEPT !.contents = NoContents]]

\* an RSA signature over the bytes; CmsSigning has the details
Cms(who, bytes) ==
  LET attrs == [messageDigest |-> Hash("SHA256", bytes)]
  IN  [attrs |-> attrs, chain |-> <<who, "ca">>,
       value |-> Signature(who, <<"rsa", "SHA256">>, Hash("SHA256", attrs))]

Indices(what) == {i \in DOMAIN file : file[i].what = what}

\* the same contents over the same bytes as in another state of the file
Signed(f, i) == [bytes |-> Bytes(f, i), contents |-> f[i].contents]

\* SignatureSvtData: hashes of the signature, of what it signs and of the
\* document, as the application computes them for the SVT's algorithm
SvtData(i, alg) ==
  [sigHash  |-> Hash(alg, file[i].contents.value),
   sbHash   |-> Hash(alg, file[i].contents.attrs),
   dataRefs |-> {[ref |-> i, hash |-> Hash(alg, Bytes(file, i))]},
   chain    |-> file[i].contents.chain]

-----------------------------------------------------------------------------
Init ==
  /\ now = 0 /\ issued = {} /\ attested = {}
  /\ file = <<Revision("original", NoContents)>>

\* a revision with the contents that Fill makes for its bytes
AppendFilled(what, Fill(_)) ==
  /\ Len(file) < MaxRevisions
  /\ LET prepared == Append(file, Revision(what, NoContents))
         n == Len(prepared)
     IN  file' = [prepared EXCEPT ![n].contents = Fill(Bytes(prepared, n))]

AddSignature(who) ==
  /\ AppendFilled("signature", LAMBDA bytes : Cms(who, bytes))
  /\ UNCHANGED <<now, issued, attested>>

\* another program's update
Update ==
  /\ AppendFilled("update", LAMBDA bytes : NoContents)
  /\ UNCHANGED <<now, issued, attested>>

Attest(by) ==
  attested' = attested \cup {[bytes |-> Bytes(file', Len(file')), time |-> now, by |-> by]}

\* create_svt_sealed_pdf: placeholder, hash of the ranges, token, injection
Seal(jwt, sealer) ==
  /\ CanSeal(sealer)
  /\ AppendFilled("seal", LAMBDA bytes : SealToken(sealer, bytes, now, jwt))
  /\ Attest(sealer)
  /\ UNCHANGED <<now, issued>>

\* add_document_timestamp, with the TSA's answer over the hash it was sent
Timestamp(digest) ==
  /\ AppendFilled("timestamp", LAMBDA bytes : TsaToken(digest, bytes, now))
  /\ Attest(TsaSigner)
  /\ UNCHANGED <<now, issued>>

\* an SVT for signatures that the application has verified
IssueSvt(issuer, covered, byHash, validity) ==
  /\ Cardinality(issued) < MaxIssued
  /\ CanIssue(issuer)
  /\ covered # {} /\ covered \subseteq Indices("signature")
  /\ \A i \in covered : file[i].contents = Cms(file[i].contents.chain[1], Bytes(file, i))
  /\ LET claims == {Claims(issuer, SvtData(i, Registry[issuer.alg]), byHash) : i \in covered}
         exp    == IF validity = NoExpiry THEN NoExpiry ELSE now + validity
     IN  issued' = issued \cup {[jwt    |-> Issue(issuer, claims, byHash, exp),
                                 issuer |-> issuer,
                                 over   |-> {Signed(file, i) : i \in covered}]}
  /\ UNCHANGED <<now, file, attested>>

\* bytes of a revision change at rest, of one at most
Damage(i) ==
  /\ \A j \in DOMAIN file : file[j].body = "intact"
  /\ file' = [file EXCEPT ![i].body = "damaged"]
  /\ UNCHANGED <<now, issued, attested>>

Tick == now < MaxTime /\ now' = now + 1 /\ UNCHANGED <<file, issued, attested>>

Next ==
  \/ \E who \in Signatories : AddSignature(who)
  \/ Update
  \/ \E svt \in issued, sealer \in Sealers : Seal(svt.jwt, sealer)
  \/ \E digest \in TsaDigests : Timestamp(digest)
  \/ \E issuer \in Issuers, covered \in SUBSET Indices("signature"), byHash \in BOOLEAN,
        validity \in Validities : IssueSvt(issuer, covered, byHash, validity)
  \/ \E i \in DOMAIN file : Damage(i)
  \/ Tick

Spec == Init /\ [][Next]_vars

-----------------------------------------------------------------------------
\* extract_svt_jwt_from_token; the seal's own signature is not looked at
Jwt(j) == file[j].contents.tst.extension

\* the signer's certificate if the SVT in seal j speaks for signature i now
Speaks(j, i) ==
  IF JwtVerifies(Jwt(j), Trusted, now) /\ Unexpired(Jwt(j), now)
  THEN ValidateSignature(Jwt(j).payload, SvtData(i, Jwt(j).payload.hashAlgo))
  ELSE {}

\* verify_doc_timestamp_signature of seal or timestamp j now
Report(j) == DocTimestamp(file[j].contents, Bytes(file, j), now <= SealUntil)

Tokens == Indices("seal") \cup Indices("timestamp")

\* An SVT that is accepted for a signature was issued for this very signature
\* over the bytes the file still has, and the signer it names is the signer of
\* the CMS: not for another signature of the file, nor by somebody else, nor
\* for bytes that have changed since.
SvtSpeaksForThisSignature ==
  \A j \in Indices("seal"), i \in Indices("signature") :
    \A cert \in Speaks(j, i) :
      /\ cert = file[i].contents.chain[1]
      /\ \E svt \in issued :
           /\ svt.jwt = Jwt(j) /\ svt.issuer.owner \in ToSet(Trusted) \cup IssuedByCa
           /\ Signed(file, i) \in svt.over

\* The certificate of the SVT is given to the validator: by the file in a chain
\* that is still valid, or as one of the trusted ones, first if nothing names it.
Recognised(svt) ==
  LET issuer == svt.issuer
  IN  \/ issuer.chain # <<>> /\ issuer.chain[1] = issuer.owner
         /\ \/ issuer.owner \in ToSet(Trusted)
            \/ /\ svt.jwt.header.x5c # <<>> /\ issuer.owner \in IssuedByCa
               /\ "ca" \in ToSet(Trusted) /\ now <= ChainUntil
      \/ issuer.chain = <<>> /\ Len(Trusted) > 0 /\ issuer.owner = Trusted[1]

\* What an SVT was issued for stays valid through it, by every JWS algorithm and
\* form of reference, whatever is appended to the file, sealed or not, whichever
\* other certificates expire: as long as the issuer is recognised, the SVT has
\* not expired and the signed bytes are unchanged.
AgedSignatureStaysValid ==
  \A j \in Indices("seal"), i \in Indices("signature"), svt \in issued :
    (/\ svt.jwt = Jwt(j) /\ Signed(file, i) \in svt.over
     /\ Recognised(svt) /\ Unexpired(svt.jwt, now))
      => Speaks(j, i) # {}

\* A document timestamp that is reported fully verified says what is true: its
\* sealer or TSA saw these very bytes of the file, signatures below included, at
\* the time that is reported.
TimestampVouches ==
  \A j \in Tokens : FullyVerified(Report(j)) =>
    \E a \in attested : a.bytes = Bytes(file, j) /\ a.time = Report(j).genTime /\ a.time <= now

\* Sealing and timestamping with any digest give what verification accepts,
\* for the keys of Verifiable, until the chain expires or the bytes change. This
\* starts at the token: that the extractor cuts one that ends in a zero byte
\* (verify/extractor.rs:163) is in the runs over whole files.
SealVerifies ==
  \A j \in Tokens :
    (/\ now <= SealUntil
     /\ \E a \in attested : /\ a.bytes = Bytes(file, j) /\ a.time = file[j].contents.tst.genTime
                            /\ Verifiable(a.by) /\ Certificate(a.by.key) = file[j].contents.sid)
      => FullyVerified(Report(j))
=============================================================================
