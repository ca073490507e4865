------------------------------ MODULE CmsSigning ------------------------------
(***************************************************************************)
(* What is hashed and signed where: PdfCmsBuilder, in one go or around a   *)
(* remote signer (cms/builder.rs), SoftwareSigner (crypto/software.rs),    *)
(* and verify_cms with the two passes that verify_single_signature makes   *)
(* of it (verify/cms_verify.rs, verify/mod.rs).                            *)
(*                                                                         *)
(* DER is left out; attributes that neither side looks at again            *)
(* (commitment type, signature policy) are too.                            *)
(***************************************************************************)
EXTENDS CryptoTerms, FiniteSets

CONSTANTS Signers,   (* what CryptoSigner offers: key, scheme, digest and    *)
                     (* whether a remote service holds the key               *)
          Documents, (* what a ByteRange can select                          *)
          Times      (* values of signing_time, 0 for none                   *)

Placements == {"Signed", "Unsigned", "Both"}
Profiles == {"Pades", "Traditional", "Cades"}
RemoteProfiles == {"Pades", "Traditional"} \* of SubFilter

ASSUME CmsAssumption == Signers \subseteq Signer /\ Times \subseteq Nat

VARIABLES pc,      \* idle, prepared, built or verified
          signer,  \* the signer of this CMS
          profile, \* the profile it is to have
          doc,     \* the bytes it is for
          pre,     \* the CmsPreSignData that a remote session keeps
          cms,     \* the SignedData
          asked,   \* hashes that the holder of the key was asked to sign
          report   \* what verify_single_signature found

vars == <<pc, signer, profile, doc, pre, cms, asked, report>>

NoSession == [attrsHash |-> NoHash]
NoCms == [signature |-> NoSignature]
NoReport == [over |-> "none", crypto |-> "none", digest |-> FALSE, ess |-> "none"]

-----------------------------------------------------------------------------
(* cms/builder.rs *)

\* Mutant: the hash is the default one, whatever algorithm is named.
SigningCertificateV2Default(s) ==
  [alg |-> s.digest, hash |-> Hash("SHA256", Certificate(s.key))]

SigningCertificateV2(s) ==
  [alg |-> s.digest, hash |-> Hash(s.digest, Certificate(s.key))]

\* build_signed_attributes; 0 and {} stand for absent ones
SignedAttributes(s, p, time, placement, dataHash) ==
  [messageDigest |-> dataHash,
   ess  |-> IF p = "Traditional" THEN {} ELSE {SigningCertificateV2(s)},
   time |-> IF \/ p = "Traditional" /\ placement \in {"Signed", "Both"}
               \/ p = "Cades"
            THEN time ELSE 0,
   protection |-> <<s.digest, SignatureAlgorithm(s)>>]

\* build_unsigned_attributes
UnsignedTime(time, placement) == IF placement \in {"Unsigned", "Both"} THEN time ELSE 0

\* build_certificate_set; the chain starts with the signer's certificate
CertificateSet(s, embedChain) ==
  {Certificate(s.key)} \cup IF embedChain THEN {Certificate("ca")} ELSE {}

\* build, from the certificate to the SignedData, with the key at hand
BuiltCms(s, p, time, placement, embedChain, dataHash) ==
  LET signedAttrs == SignedAttributes(s, p, time, placement, dataHash)
  IN  [sid |-> Certificate(s.key), digestAlg |-> s.digest, sigAlg |-> SignatureAlgorithm(s),
       attrs |-> signedAttrs, signature |-> SignHash(s, Hash(s.digest, signedAttrs)),
       unsignedTime |-> UnsignedTime(time, placement),
       certificates |-> CertificateSet(s, embedChain)]

\* pre_sign: what is put aside until the signature comes back, and the hash
\* that goes out
PreSigned(s, p, time, placement, embedChain, dataHash) ==
  LET signedAttrs == SignedAttributes(s, p, time, placement, dataHash)
  IN  [attrsHash |-> Hash(s.digest, signedAttrs),
       sid |-> Certificate(s.key), digestAlg |-> s.digest, sigAlg |-> SignatureAlgorithm(s),
       signedAttrs |-> signedAttrs, unsignedTime |-> UnsignedTime(time, placement),
       certificates |-> CertificateSet(s, embedChain)]

\* Mutant: only the signer's own certificate is put back.
CompletedWithoutChain(session, signature) ==
  [sid |-> session.sid, digestAlg |-> session.digestAlg, sigAlg |-> session.sigAlg,
   attrs |-> session.signedAttrs, signature |-> signature,
   unsignedTime |-> session.unsignedTime, certificates |-> {session.sid}]

\* complete_cms: the SignedData, from what pre_sign put aside and the bytes
\* that came back
Completed(session, signature) ==
  [sid |-> session.sid, digestAlg |-> session.digestAlg, sigAlg |-> session.sigAlg,
   attrs |-> session.signedAttrs, signature |-> signature,
   unsignedTime |-> session.unsignedTime, certificates |-> session.certificates]

-----------------------------------------------------------------------------
(* verify/cms_verify.rs *)

DigestMatches(c, dataHash) == c.attrs.messageDigest = dataHash

ProtectionOk(c) == c.attrs.protection = <<c.digestAlg, c.sigAlg>>

EssMatch(c) ==
  IF c.attrs.ess = {} THEN "none"
  ELSE IF \E e \in c.attrs.ess : e.hash = Hash(e.alg, c.sid) THEN "match" ELSE "mismatch"

\* the signer's certificate is embedded and its key signed the attributes
Crypto(c) ==
  IF /\ c.sid \in c.certificates
     /\ SignatureVerifies(c.sigAlg, c.attrs, c.sid[2], c.signature)
     /\ ProtectionOk(c)
  THEN "valid" ELSE "invalid"

\* Mutant: the messageDigest attribute need only be there.
OutcomeAnyDigest(c, d) ==
  [over |-> d, crypto |-> Crypto(c), ess |-> EssMatch(c),
   digest |-> c.attrs.messageDigest # NoHash]

\* verify_cms over the default digest and again over the one the CMS names
Outcome(c, d) ==
  [over |-> d, crypto |-> Crypto(c), ess |-> EssMatch(c),
   digest |-> DigestMatches(c, Hash(c.digestAlg, d))]

-----------------------------------------------------------------------------
Init ==
  /\ pc = "idle" /\ signer \in Signers /\ doc \in Documents
  /\ profile \in IF signer.remote THEN RemoteProfiles ELSE Profiles
  /\ pre = NoSession /\ cms = NoCms /\ asked = {} /\ report = NoReport

\* PdfSigner::sign and sign_detached: hash the document, then build
Build(time, placement, embedChain) ==
  /\ pc = "idle" /\ ~signer.remote
  /\ cms' = BuiltCms(signer, profile, time, placement, embedChain, Hash(signer.digest, doc))
  /\ asked' = asked \cup {Hash(signer.digest, cms'.attrs)}
  /\ pc' = "built"
  /\ UNCHANGED <<signer, profile, doc, pre, report>>

\* prepare_signature takes the builder's own time (none), placement and chain
Prepared(p, d) == PreSigned(signer, p, 0, "Signed", TRUE, Hash(signer.digest, d))

\* prepare_signature; the hash of the attributes goes out
PreSign ==
  /\ pc = "idle" /\ signer.remote
  /\ pre' = Prepared(profile, doc)
  /\ asked' = asked \cup {pre'.attrsHash}
  /\ pc' = "prepared"
  /\ UNCHANGED <<signer, profile, doc, cms, report>>

\* the service is asked for another signature by the same key, for another
\* document or for this one prepared again
OtherRequest(p, other) ==
  /\ pc = "prepared"
  /\ asked' = asked \cup {Prepared(p, other).attrsHash}
  /\ UNCHANGED <<pc, signer, profile, doc, pre, cms, report>>

\* finalize_signature with an answer of the service, to this request or another
CompleteCms(hash) ==
  /\ pc = "prepared" /\ hash \in asked
  /\ cms' = Completed(pre, RemoteSign(signer, hash))
  /\ pc' = "built"
  /\ UNCHANGED <<signer, profile, doc, pre, asked, report>>

\* the signature is verified over a document, its own or another one
Verify(d) ==
  /\ pc = "built"
  /\ report' = Outcome(cms, d)
  /\ pc' = "verified"
  /\ UNCHANGED <<signer, profile, doc, pre, cms, asked>>

Next ==
  \/ \E t \in Times, pl \in Placements, chain \in BOOLEAN : Build(t, pl, chain)
  \/ PreSign
  \/ \E p \in RemoteProfiles, d \in Documents : OtherRequest(p, d)
  \/ \E hash \in asked : CompleteCms(hash)
  \/ \E d \in Documents : Verify(d)

Spec == Init /\ [][Next]_vars

-----------------------------------------------------------------------------
\* A signature that is reported good over a document (crypto valid, digest
\* matching) was made by the certificate's key over the attributes of this very
\* CMS, and its messageDigest is of that document: answers of the service that
\* were meant for another document or another preparation never pass.
VerifiedMeansSigned ==
  (pc = "verified" /\ report.crypto = "valid" /\ report.digest) =>
    /\ cms.attrs.messageDigest = Hash(cms.digestAlg, report.over)
    /\ report.over = doc
    /\ cms.signature.key = cms.sid[2]
    /\ \E hash \in asked : hash.of = cms.attrs

\* Whatever the profile, times and chain, what the library signs it accepts
\* over the same document (for the signers of Verifiable, and if finalize got
\* the answer to its request): key and digest, algorithm protection, signing
\* certificate. The verifier hashes with SHA-256 first and again if need be.
\* (The CMS is handed over as it was made; what extraction from a file makes of
\* one that ends in a zero byte is in Verifier.)
OwnSignatureVerifies ==
  (/\ pc = "verified" /\ report.over = doc
   /\ Verifiable(signer)
   /\ signer.remote => cms.signature.hash = pre.attrsHash)
  => /\ report.crypto = "valid" /\ report.digest
     /\ report.ess # "mismatch"

\* Three phases give the CMS that one gives: what pre_sign put aside, with the
\* answer to its request put in by complete_cms, is to the last attribute and
\* certificate what build makes of the same document with the key at hand.
RemoteEqualsLocal ==
  (pc = "built" /\ signer.remote /\ signer.key = "rsa" /\ cms.signature.hash = pre.attrsHash)
    => cms = BuiltCms(signer, profile, 0, "Signed", TRUE, Hash(signer.digest, doc))

\* What SoftwareSigner signs, whichever key the PKCS#12 file holds and with the
\* digest it takes by itself, verifies over its document. (Violated for keys on
\* a curve: sign_hash hands the hash to a Signer that hashes it again.)
SoftwareSignatureVerifies ==
  (pc = "verified" /\ report.over = doc /\ ~signer.remote) => report.crypto = "valid"
=============================================================================
