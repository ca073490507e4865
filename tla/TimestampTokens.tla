--------------------------- MODULE TimestampTokens ---------------------------
(***************************************************************************)
(* Document timestamps: the tokens that sealing builds (svt/embed.rs) or a *)
(* TSA answers with, and what verification makes of them                   *)
(* (verify_doc_timestamp of verify/cms_verify.rs and the two passes that   *)
(* verify_doc_timestamp_signature of verify/mod.rs makes of it).           *)
(*                                                                         *)
(* DER, names and serial numbers are left out; so are damaged tokens.      *)
(***************************************************************************)
EXTENDS CryptoTerms

NoJwt == [alg |-> "none"]

\* build_tst_info_with_svt; the extension is absent from a TSA's token
TstInfo(imprint, time, jwt) == [imprint |-> imprint, genTime |-> time, extension |-> jwt]

\* build_sig_alg_id: ECDSA goes by the curve
SealAlgorithm(s) ==
  IF s.scheme # "Ecdsa" THEN SignatureAlgorithm(s)
  ELSE <<"ecdsa", IF s.key = "p256" THEN "SHA256" ELSE "SHA384">>

\* keys that build_sig_alg_id has an algorithm for
CanSeal(s) == s.key # "p521"

Sign(s, attrs) ==
  LET hash == Hash(s.digest, attrs) IN IF s.remote THEN RemoteSign(s, hash) ELSE SignHash(s, hash)

\* build_timestamp_signed_attrs
TimestampAttrs(s, tst) == [messageDigest |-> Hash(s.digest, tst)]

\* build_svt_timestamp_token
Token(s, algorithm, tst) ==
  [tst |-> tst, attrs |-> TimestampAttrs(s, tst), sigAlg |-> algorithm,
   signature |-> Sign(s, TimestampAttrs(s, tst)),
   sid |-> Certificate(s.key), certificates |-> {Certificate(s.key)}]

SealToken(s, bytes, time, jwt) ==
  Token(s, SealAlgorithm(s), TstInfo(Hash(s.digest, bytes), time, jwt))

\* a TSA signs with RSA whatever digest it is asked to put its time on
TsaSigner == [key |-> "rsa", scheme |-> "RsaPkcs1v15", digest |-> "SHA256", remote |-> TRUE]
TsaToken(digest, bytes, time) ==
  Token(TsaSigner, SignatureAlgorithm(TsaSigner), TstInfo(Hash(digest, bytes), time, NoJwt))

-----------------------------------------------------------------------------
\* verify_doc_timestamp with a hash of the ranges.  A hash by another algorithm
\* than the imprint's matches no more than another value does.
VerifyDocTimestamp(token, hash, chainTrusted) ==
  [signature |-> /\ token.sid \in token.certificates
                 /\ SignatureVerifies(token.sigAlg, token.attrs, token.sid[2], token.signature),
   imprint   |-> token.tst.imprint = hash,
   chain     |-> chainTrusted,
   genTime   |-> token.tst.genTime]

DefaultDigest == "SHA256"

\* Mutant: the ranges are only hashed with the default algorithm.
DocTimestampOnePass(token, bytes, chainTrusted) ==
  VerifyDocTimestamp(token, Hash(DefaultDigest, bytes), chainTrusted)

\* Mutant: the second pass takes its hash from the token.
DocTimestampOwnHash(token, bytes, chainTrusted) ==
  LET first == VerifyDocTimestamp(token, Hash(DefaultDigest, bytes), chainTrusted)
  IN  IF first.imprint \/ token.tst.imprint.alg = DefaultDigest THEN first
      ELSE VerifyDocTimestamp(token, token.tst.imprint, chainTrusted)

\* verify_doc_timestamp_signature: once more with the algorithm of the token
DocTimestamp(token, bytes, chainTrusted) ==
  LET first == VerifyDocTimestamp(token, Hash(DefaultDigest, bytes), chainTrusted)
      alg   == token.tst.imprint.alg
  IN  IF first.imprint \/ alg = DefaultDigest THEN first
      ELSE VerifyDocTimestamp(token, Hash(alg, bytes), chainTrusted)

\* the time it reports as the one the document was validated at: genTime, if
\* all three checks pass
FullyVerified(result) == result.signature /\ result.imprint /\ result.chain
=============================================================================
