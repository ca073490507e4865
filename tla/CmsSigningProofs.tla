--------------------------- MODULE CmsSigningProofs ---------------------------
(***************************************************************************)
(* What a good report means and which signatures get one, for any signers, *)
(* documents and times, and however the answers of a remote service are    *)
(* mixed up.                                                               *)
(***************************************************************************)
EXTENDS CmsSigning, TLAPS

\* the attributes of a CMS for the document
Attributes(p, t, pl) == SignedAttributes(signer, p, t, pl, Hash(signer.digest, doc))

TypeInv ==
  /\ pc \in {"idle", "prepared", "built", "verified"}
  /\ signer \in Signers

\* Everything that was ever asked for is the hash of signed attributes.
AskedInv ==
  \A hash \in asked : \E p, t, pl, dataHash :
    hash = Hash(signer.digest, SignedAttributes(signer, p, t, pl, dataHash))

\* What a finished CMS says of itself is about the signer and the document.
CmsInv ==
  pc \in {"built", "verified"} =>
    /\ cms.digestAlg = signer.digest /\ cms.sigAlg = SignatureAlgorithm(signer)
    /\ cms.sid = Certificate(signer.key) /\ cms.sid \in cms.certificates
    /\ \E p, t, pl : cms.attrs = Attributes(p, t, pl)

\* A session stays what pre_sign made of the document, and ends in what
\* complete_cms makes of it with some answer.
PreparedInv ==
  (signer.remote /\ pc # "idle") =>
    /\ pre = Prepared(profile, doc) /\ pre.attrsHash \in asked
    /\ \/ pc = "prepared"
       \/ /\ pc \in {"built", "verified"}
          /\ \E hash \in asked : cms = Completed(pre, RemoteSign(signer, hash))

BuiltInv ==
  (~signer.remote /\ pc # "idle") =>
    /\ pc \in {"built", "verified"}
    /\ Hash(signer.digest, cms.attrs) \in asked
    /\ cms.signature = SignHash(signer, Hash(signer.digest, cms.attrs))

ReportInv == pc = "verified" => \E d : report = Outcome(cms, d)

IInv == TypeInv /\ AskedInv /\ CmsInv /\ PreparedInv /\ BuiltInv /\ ReportInv

-----------------------------------------------------------------------------
(* The terms. *)

\* What build makes of its arguments.
LEMMA BuiltFacts ==
  ASSUME NEW s, NEW p, NEW time, NEW placement, NEW embedChain, NEW dataHash
  PROVE  LET c == BuiltCms(s, p, time, placement, embedChain, dataHash)
         IN  /\ c.digestAlg = s.digest /\ c.sigAlg = SignatureAlgorithm(s)
             /\ c.sid = Certificate(s.key) /\ c.sid \in c.certificates
             /\ c.attrs = SignedAttributes(s, p, time, placement, dataHash)
             /\ c.signature = SignHash(s, Hash(s.digest, c.attrs))
  BY DEF BuiltCms, CertificateSet

\* What pre_sign puts aside.
LEMMA PreSignedFacts ==
  ASSUME NEW s, NEW p, NEW time, NEW placement, NEW embedChain, NEW dataHash
  PROVE  LET c == PreSigned(s, p, time, placement, embedChain, dataHash)
         IN  /\ c.signedAttrs = SignedAttributes(s, p, time, placement, dataHash)
             /\ c.attrsHash = Hash(s.digest, c.signedAttrs)
  BY DEF PreSigned

\* What complete_cms takes from the session, and what from the answer.
LEMMA CompletedFacts ==
  ASSUME NEW session, NEW signature
  PROVE  LET c == Completed(session, signature)
         IN  /\ c.digestAlg = session.digestAlg /\ c.sigAlg = session.sigAlg
             /\ c.sid = session.sid /\ c.certificates = session.certificates
             /\ c.attrs = session.signedAttrs /\ c.signature = signature
  BY DEF Completed

\* The two ways to the same CMS: what pre_sign put aside, completed with the
\* signature that the key at hand would have made, is what build makes.
LEMMA TwoWays ==
  ASSUME NEW s, NEW p, NEW time, NEW placement, NEW embedChain, NEW dataHash
  PROVE  LET session == PreSigned(s, p, time, placement, embedChain, dataHash)
         IN  Completed(session, SignHash(s, session.attrsHash))
               = BuiltCms(s, p, time, placement, embedChain, dataHash)
  BY DEF PreSigned, Completed, BuiltCms

\* The signed attributes name the data, the algorithms and the certificate.
LEMMA AttributesFacts ==
  ASSUME NEW s, NEW form, NEW time, NEW placement, NEW dataHash
  PROVE  LET attrs == SignedAttributes(s, form, time, placement, dataHash)
         IN  /\ attrs.messageDigest = dataHash
             /\ attrs.protection = <<s.digest, SignatureAlgorithm(s)>>
             /\ attrs.ess \in {{}, {SigningCertificateV2(s)}}
  BY DEF SignedAttributes

\* A hash determines what was hashed, and with which algorithm.
LEMMA HashFacts ==
  ASSUME NEW alg, NEW x
  PROVE  Hash(alg, x).of = x /\ Hash(alg, x).alg = alg
  BY DEF Hash

\* Attributes are no hash.
LEMMA AttributesAreNoHash ==
  ASSUME NEW s, NEW form, NEW time, NEW placement, NEW dataHash, NEW alg, NEW x
  PROVE  SignedAttributes(s, form, time, placement, dataHash) # Hash(alg, x)
  <1>1. "alg" \in DOMAIN Hash(alg, x)
    BY DEF Hash
  <1>2. DOMAIN SignedAttributes(s, form, time, placement, dataHash)
          = {"messageDigest", "ess", "time", "protection"}
    BY DEF SignedAttributes
  <1> QED BY <1>1, <1>2

\* A signature determines its key, its scheme and the hash it was made over.
LEMMA SignatureFacts ==
  ASSUME NEW key, NEW scheme, NEW hash
  PROVE  /\ Signature(key, scheme, hash).key = key
         /\ Signature(key, scheme, hash).scheme = scheme
         /\ Signature(key, scheme, hash).hash = hash
  BY DEF Signature

-----------------------------------------------------------------------------
(* The invariant. *)

\* Before anything is signed the invariant holds.
LEMMA InitInv == Init => IInv
  BY DEF Init, IInv, TypeInv, AskedInv, CmsInv, PreparedInv, BuiltInv, ReportInv

\* build() keeps the invariant, whatever the signer returns.
LEMMA BuildStep ==
  ASSUME IInv, NEW t, NEW pl, NEW chain, Build(t, pl, chain)
  PROVE  IInv'
  <1> DEFINE c == BuiltCms(signer, profile, t, pl, chain, Hash(signer.digest, doc))
  <1>1. /\ cms' = c /\ asked' = asked \cup {Hash(signer.digest, c.attrs)}
        /\ pc' = "built" /\ ~signer.remote
        /\ UNCHANGED <<signer, profile, doc, pre, report>>
    BY DEF Build
  <1>2. /\ c.digestAlg = signer.digest /\ c.sigAlg = SignatureAlgorithm(signer)
        /\ c.sid = Certificate(signer.key) /\ c.sid \in c.certificates
        /\ c.attrs = Attributes(profile, t, pl)
        /\ c.signature = SignHash(signer, Hash(signer.digest, c.attrs))
    BY BuiltFacts DEF Attributes
  <1> HIDE DEF c
  <1>3. AskedInv'
    <2>1. Hash(signer.digest, c.attrs)
            = Hash(signer.digest, SignedAttributes(signer, profile, t, pl, Hash(signer.digest, doc)))
      BY <1>2 DEF Attributes
    <2> QED BY <1>1, <2>1 DEF IInv, AskedInv
  <1>4. CmsInv'
    BY <1>1, <1>2 DEF CmsInv, Attributes
  <1>5. BuiltInv'
    BY <1>1, <1>2 DEF BuiltInv
  <1>6. TypeInv' /\ PreparedInv' /\ ReportInv'
    BY <1>1 DEF IInv, TypeInv, PreparedInv, ReportInv
  <1> QED BY <1>3, <1>4, <1>5, <1>6 DEF IInv

\* So does pre_sign: the session holds the attributes the hash is over.
LEMMA PreSignStep ==
  ASSUME IInv, PreSign
  PROVE  IInv'
  <1> DEFINE c == Prepared(profile, doc)
  <1>1. /\ pre' = c /\ asked' = asked \cup {c.attrsHash}
        /\ pc' = "prepared" /\ signer.remote
        /\ UNCHANGED <<signer, profile, doc, cms, report>>
    BY DEF PreSign
  <1>2. c.attrsHash
          = Hash(signer.digest, SignedAttributes(signer, profile, 0, "Signed", Hash(signer.digest, doc)))
    BY PreSignedFacts DEF Prepared
  <1>3. PreparedInv'
    BY <1>1 DEF PreparedInv, Prepared
  <1> HIDE DEF c
  <1>4. AskedInv'
    BY <1>1, <1>2 DEF IInv, AskedInv
  <1>5. TypeInv' /\ CmsInv' /\ BuiltInv' /\ ReportInv'
    BY <1>1 DEF IInv, TypeInv, CmsInv, BuiltInv, ReportInv
  <1> QED BY <1>3, <1>4, <1>5 DEF IInv

\* So does another request in between.
LEMMA OtherRequestStep ==
  ASSUME IInv, NEW p, NEW other, OtherRequest(p, other)
  PROVE  IInv'
  <1> DEFINE hash == Prepared(p, other).attrsHash
  <1>1. /\ pc = "prepared" /\ asked' = asked \cup {hash}
        /\ UNCHANGED <<pc, signer, profile, doc, pre, cms, report>>
    BY DEF OtherRequest
  <1>2. hash = Hash(signer.digest, SignedAttributes(signer, p, 0, "Signed", Hash(signer.digest, other)))
    BY PreSignedFacts DEF Prepared
  <1> HIDE DEF hash
  <1>3. AskedInv'
    BY <1>1, <1>2 DEF IInv, AskedInv
  <1>4. TypeInv' /\ CmsInv' /\ ReportInv' /\ BuiltInv'
    BY <1>1 DEF IInv, TypeInv, CmsInv, ReportInv, BuiltInv
  <1>5. PreparedInv'
    BY <1>1 DEF IInv, PreparedInv, Prepared
  <1> QED BY <1>3, <1>4, <1>5 DEF IInv

\* So does the completion of a session, whatever hash came back signed.
LEMMA CompleteStep ==
  ASSUME IInv, NEW hash, CompleteCms(hash)
  PROVE  IInv'
  <1>1. /\ pc = "prepared" /\ hash \in asked /\ pc' = "built"
        /\ cms' = Completed(pre, RemoteSign(signer, hash))
        /\ UNCHANGED <<signer, profile, doc, pre, asked, report>>
    BY DEF CompleteCms
  <1>2. signer.remote
    BY <1>1 DEF IInv, BuiltInv
  <1>3. pre = Prepared(profile, doc) /\ pre.attrsHash \in asked
    BY <1>1, <1>2 DEF IInv, PreparedInv
  <1>4. /\ cms'.digestAlg = signer.digest /\ cms'.sigAlg = SignatureAlgorithm(signer)
        /\ cms'.sid = Certificate(signer.key) /\ cms'.sid \in cms'.certificates
        /\ cms'.attrs = Attributes(profile, 0, "Signed")
    <2>1. /\ cms'.digestAlg = pre.digestAlg /\ cms'.sigAlg = pre.sigAlg
          /\ cms'.sid = pre.sid /\ cms'.certificates = pre.certificates
          /\ cms'.attrs = pre.signedAttrs
      BY <1>1, CompletedFacts
    <2>2. /\ pre.digestAlg = signer.digest /\ pre.sigAlg = SignatureAlgorithm(signer)
          /\ pre.sid = Certificate(signer.key) /\ pre.sid \in pre.certificates
          /\ pre.signedAttrs = Attributes(profile, 0, "Signed")
      BY ONLY <1>3 DEF Prepared, PreSigned, CertificateSet, Attributes
    <2> QED BY <2>1, <2>2
  <1>5. CmsInv'
    BY <1>1, <1>4 DEF CmsInv, Attributes
  <1>6. PreparedInv'
    BY <1>1, <1>3 DEF PreparedInv, Prepared, RemoteSign
  <1>7. TypeInv' /\ AskedInv' /\ BuiltInv' /\ ReportInv'
    BY <1>1, <1>2 DEF IInv, TypeInv, AskedInv, BuiltInv, ReportInv
  <1> QED BY <1>5, <1>6, <1>7 DEF IInv

\* Every step keeps the invariant.
LEMMA StepInv == IInv /\ [Next]_vars => IInv'
  <1> SUFFICES ASSUME IInv, [Next]_vars PROVE IInv'
    OBVIOUS
  <1>1. ASSUME NEW d \in Documents, Verify(d)
        PROVE  IInv'
    <2>1. /\ pc = "built" /\ pc' = "verified" /\ report' = Outcome(cms, d)
          /\ UNCHANGED <<signer, profile, doc, pre, cms, asked>>
      BY <1>1 DEF Verify
    <2>2. ReportInv'
      BY <2>1 DEF ReportInv, Outcome, Crypto, EssMatch, DigestMatches, ProtectionOk
    <2>3. TypeInv' /\ AskedInv' /\ CmsInv'
      BY <2>1 DEF IInv, TypeInv, AskedInv, CmsInv, Attributes
    <2>4. PreparedInv' /\ BuiltInv'
      BY <2>1 DEF IInv, PreparedInv, BuiltInv, Prepared
    <2> QED BY <2>2, <2>3, <2>4 DEF IInv
  <1>2. CASE UNCHANGED vars
    <2>1. TypeInv' /\ AskedInv' /\ CmsInv'
      BY <1>2 DEF vars, IInv, TypeInv, AskedInv, CmsInv, Attributes
    <2>2. PreparedInv' /\ BuiltInv' /\ ReportInv'
      BY <1>2 DEF vars, IInv, PreparedInv, BuiltInv, ReportInv, Prepared
    <2> QED BY <2>1, <2>2 DEF IInv
  <1> QED BY <1>1, <1>2, BuildStep, PreSignStep, OtherRequestStep, CompleteStep DEF Next

\* How the CMS, the requests and the report come about, in every state.
THEOREM Invariance == Spec => []IInv
  BY InitInv, StepInv, PTL DEF Spec

-----------------------------------------------------------------------------
\* VerifiedMeansSigned: what is reported good was signed by the certificate's
\* key, as these attributes and for this document.
THEOREM VerifiedCorrect == Spec => []VerifiedMeansSigned
  <1>1. ASSUME IInv
        PROVE  VerifiedMeansSigned
    <2>1. SUFFICES ASSUME pc = "verified", report.crypto = "valid", report.digest
                   PROVE  /\ cms.attrs.messageDigest = Hash(cms.digestAlg, report.over)
                          /\ report.over = doc
                          /\ cms.signature.key = cms.sid[2]
                          /\ \E hash \in asked : hash.of = cms.attrs
      BY DEF VerifiedMeansSigned
    <2>2. PICK d : report = Outcome(cms, d)
      BY <1>1, <2>1 DEF IInv, ReportInv
    <2>3. /\ report.over = d /\ Crypto(cms) = "valid"
          /\ cms.attrs.messageDigest = Hash(cms.digestAlg, d)
      BY <2>1, <2>2 DEF Outcome, DigestMatches
    <2>4. PICK p, t, pl : cms.attrs = Attributes(p, t, pl)
      BY <1>1, <2>1 DEF IInv, CmsInv
    <2>5. d = doc
      BY <2>3, <2>4, AttributesFacts, HashFacts DEF Attributes
    <2>6. SignatureVerifies(cms.sigAlg, cms.attrs, cms.sid[2], cms.signature)
      BY <2>3 DEF Crypto
    <2>7. cms.signature.key = cms.sid[2]
      BY <2>6 DEF SignatureVerifies
    <2>8. ASSUME ~signer.remote
          PROVE  \E hash \in asked : hash.of = cms.attrs
      BY <1>1, <2>1, <2>8, HashFacts DEF IInv, BuiltInv
    <2>9. ASSUME signer.remote
          PROVE  \E hash \in asked : hash.of = cms.attrs
      <3>1. PICK hash \in asked : cms = Completed(pre, RemoteSign(signer, hash))
        BY <1>1, <2>1, <2>9 DEF IInv, PreparedInv
      <3>2. cms.signature = RemoteSign(signer, hash)
        BY <3>1, CompletedFacts
      <3>3. cms.signature.hash = hash
        BY <3>2, SignatureFacts DEF RemoteSign
      <3>4. \/ hash = cms.attrs
            \/ \E alg : hash = Hash(alg, cms.attrs)
        BY <2>6, <3>3 DEF SignatureVerifies
      <3>5. hash # cms.attrs
        BY <1>1, <2>4, AttributesAreNoHash DEF IInv, AskedInv, Attributes
      <3> QED BY <3>4, <3>5, HashFacts
    <2> QED BY <2>3, <2>5, <2>7, <2>8, <2>9
  <1>2. Spec => []IInv
    BY Invariance
  <1> QED BY <1>1, <1>2, PTL

\* A signer names a scheme that fits its key: from_pkcs12_data sees to that,
\* with_signature_algorithm and RemoteSignerInfo leave it to the caller.
SchemesFit ==
  \A s \in Signers :
    /\ s.key = "rsa" => s.scheme \in {"RsaPkcs1v15", "RsaPss"}
    /\ s.key \in {"p256", "p384", "p521"} => s.scheme = "Ecdsa"

\* A signer whose scheme fits its key makes signatures that verify under the
\* algorithm its CMS names, over SHA-2 and remote alike.
LEMMA OwnSignature ==
  ASSUME NEW s, Verifiable(s), NEW attrs,
         s.key = "rsa" => s.scheme \in {"RsaPkcs1v15", "RsaPss"},
         s.key \in {"p256", "p384", "p521"} => s.scheme = "Ecdsa",
         NEW sig,
         \/ sig = RemoteSign(s, Hash(s.digest, attrs))
         \/ ~s.remote /\ sig = SignHash(s, Hash(s.digest, attrs))
  PROVE  SignatureVerifies(SignatureAlgorithm(s), attrs, s.key, sig)
  <1> DEFINE hash == Hash(s.digest, attrs)
  <1>1. CASE s.key = "rsa" /\ s.digest \in Sha2
    <2>1. sig = Signature(s.key, RsaScheme(s), hash)
      BY <1>1 DEF RemoteSign, SignHash
    <2>2. sig.key = s.key /\ sig.scheme = RsaScheme(s) /\ sig.hash = hash
      BY <2>1, SignatureFacts
    <2>3. s.digest \notin Sha3
      BY <1>1 DEF Sha2, Sha3
    <2>4. CASE s.scheme = "RsaPss"
      <3>1. SignatureAlgorithm(s) = <<"pss">> /\ RsaScheme(s) = <<"pss", s.digest>>
        BY <2>4 DEF SignatureAlgorithm, RsaScheme
      <3> QED BY <1>1, <2>2, <3>1 DEF SignatureVerifies
    <2>5. CASE s.scheme = "RsaPkcs1v15"
      <3>1. SignatureAlgorithm(s) = <<"rsa", s.digest>> /\ RsaScheme(s) = <<"rsa", s.digest>>
        BY <2>3, <2>5 DEF SignatureAlgorithm, RsaScheme
      <3> QED BY <2>2, <3>1 DEF SignatureVerifies
    <2> QED BY <1>1, <2>4, <2>5
  <1>2. CASE s.remote /\ s.key \in {"p256", "p384", "p521"} /\ s.digest \in EcdsaDigest(s.key, s.digest)
    <2>1. sig = Signature(s.key, <<"ecdsa">>, hash)
      BY <1>2 DEF RemoteSign
    <2>2. sig.key = s.key /\ sig.scheme = <<"ecdsa">> /\ sig.hash = hash
      BY <2>1, SignatureFacts
    <2>3. SignatureAlgorithm(s) = <<"ecdsa", s.digest>>
      BY <1>2 DEF SignatureAlgorithm
    <2> QED BY <1>2, <2>2, <2>3 DEF SignatureVerifies
  <1> QED BY <1>1, <1>2 DEF Verifiable

\* OwnSignatureVerifies: what the library signs for one of these signers, or
\* finalizes with the answer to its request, it accepts.
THEOREM OwnCorrect ==
  ASSUME SchemesFit
  PROVE  Spec => []OwnSignatureVerifies
  <1>1. ASSUME IInv
        PROVE  OwnSignatureVerifies
    <2>1. SUFFICES ASSUME pc = "verified", report.over = doc, Verifiable(signer),
                          signer.remote => cms.signature.hash = pre.attrsHash
                   PROVE  report.crypto = "valid" /\ report.digest /\ report.ess # "mismatch"
      BY DEF OwnSignatureVerifies
    <2>2. PICK d : report = Outcome(cms, d)
      BY <1>1, <2>1 DEF IInv, ReportInv
    <2>3. /\ report.crypto = Crypto(cms) /\ report.ess = EssMatch(cms)
          /\ report.digest = DigestMatches(cms, Hash(cms.digestAlg, doc))
      BY <2>1, <2>2 DEF Outcome
    <2>4. /\ cms.digestAlg = signer.digest /\ cms.sigAlg = SignatureAlgorithm(signer)
          /\ cms.sid = Certificate(signer.key) /\ cms.sid \in cms.certificates
      BY <1>1, <2>1 DEF IInv, CmsInv
    <2>5. PICK p, t, pl : cms.attrs = Attributes(p, t, pl)
      BY <1>1, <2>1 DEF IInv, CmsInv
    <2>6. /\ cms.attrs.messageDigest = Hash(signer.digest, doc)
          /\ cms.attrs.protection = <<signer.digest, SignatureAlgorithm(signer)>>
          /\ cms.attrs.ess \in {{}, {SigningCertificateV2(signer)}}
      BY <2>5, AttributesFacts DEF Attributes
    <2>7. report.digest
      BY <2>3, <2>4, <2>6 DEF DigestMatches
    <2>8. EssMatch(cms) # "mismatch"
      BY <2>4, <2>6 DEF EssMatch, SigningCertificateV2
    <2>9. \/ cms.signature = RemoteSign(signer, Hash(signer.digest, cms.attrs))
          \/ ~signer.remote /\ cms.signature = SignHash(signer, Hash(signer.digest, cms.attrs))
      <3>1. CASE ~signer.remote
        BY <1>1, <2>1, <3>1 DEF IInv, BuiltInv
      <3>2. CASE signer.remote
        <4>1. pre = Prepared(profile, doc)
          BY <1>1, <2>1, <3>2 DEF IInv, PreparedInv
        <4>2. PICK hash \in asked : cms = Completed(pre, RemoteSign(signer, hash))
          BY <1>1, <2>1, <3>2 DEF IInv, PreparedInv
        <4>3. cms.signature = RemoteSign(signer, hash) /\ cms.attrs = pre.signedAttrs
          BY <4>2, CompletedFacts
        <4>4. hash = pre.attrsHash
          BY <2>1, <3>2, <4>3, SignatureFacts DEF RemoteSign
        <4>5. pre.attrsHash = Hash(signer.digest, pre.signedAttrs)
          BY <4>1, PreSignedFacts DEF Prepared
        <4> QED BY <4>3, <4>4, <4>5
      <3> QED BY <3>1, <3>2
    <2>10. SignatureVerifies(cms.sigAlg, cms.attrs, signer.key, cms.signature)
      <3>1. /\ signer.key = "rsa" => signer.scheme \in {"RsaPkcs1v15", "RsaPss"}
            /\ signer.key \in {"p256", "p384", "p521"} => signer.scheme = "Ecdsa"
        BY <1>1 DEF IInv, TypeInv, SchemesFit
      <3> QED BY <2>1, <2>4, <2>9, <3>1, OwnSignature
    <2>11. Crypto(cms) = "valid"
      <3>1. cms.sid[2] = signer.key
        BY <2>4 DEF Certificate
      <3>2. ProtectionOk(cms)
        BY <2>4, <2>6 DEF ProtectionOk
      <3> QED BY <2>4, <2>10, <3>1, <3>2 DEF Crypto
    <2> QED BY <2>3, <2>7, <2>8, <2>11
  <1>2. Spec => []IInv
    BY Invariance
  <1> QED BY <1>1, <1>2, PTL

\* RemoteEqualsLocal: for RSA, prepare, the service and finalize make the CMS
\* that build would have made with the key at hand.
THEOREM RemoteCorrect == Spec => []RemoteEqualsLocal
  <1>1. ASSUME IInv
        PROVE  RemoteEqualsLocal
    <2>1. SUFFICES ASSUME pc = "built", signer.remote, signer.key = "rsa",
                          cms.signature.hash = pre.attrsHash
                   PROVE  cms = BuiltCms(signer, profile, 0, "Signed", TRUE, Hash(signer.digest, doc))
      BY DEF RemoteEqualsLocal
    <2>2. pre = PreSigned(signer, profile, 0, "Signed", TRUE, Hash(signer.digest, doc))
      BY <1>1, <2>1 DEF IInv, PreparedInv, Prepared
    <2>3. PICK hash \in asked : cms = Completed(pre, RemoteSign(signer, hash))
      BY <1>1, <2>1 DEF IInv, PreparedInv
    <2>4. cms.signature = RemoteSign(signer, hash)
      BY <2>3, CompletedFacts
    <2>5. hash = pre.attrsHash
      BY <2>1, <2>4, SignatureFacts DEF RemoteSign
    <2>6. RemoteSign(signer, hash) = SignHash(signer, hash)
      BY <2>1 DEF RemoteSign, SignHash
    <2>7. cms = Completed(pre, SignHash(signer, pre.attrsHash))
      BY <2>3, <2>5, <2>6
    <2> QED BY <2>2, <2>7, TwoWays
  <1>2. Spec => []IInv
    BY Invariance
  <1> QED BY <1>1, <1>2, PTL
=============================================================================
