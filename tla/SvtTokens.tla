------------------------------ MODULE SvtTokens ------------------------------
(***************************************************************************)
(* Signature validation tokens: what SvtIssuer puts in a JWT               *)
(* (svt/issuer.rs, svt/algo.rs, svt/claims.rs) and what SvtValidator       *)
(* accepts (svt/validator.rs).                                             *)
(*                                                                         *)
(* A certificate is the name of its key's owner; KeyOf and the times say   *)
(* the rest.  JSON, base64, audiences and identifiers are left out.        *)
(***************************************************************************)
EXTENDS CryptoTerms, Sequences, SequencesExt

CONSTANTS KeyOf,      (* the kind of key in a certificate of an SVT issuer   *)
          IssuedByCa, (* certificates that chain to the certificate "ca"     *)
          ChainUntil  (* when those chains end to be valid                   *)

ASSUME SvtAssumption ==
  /\ \A cert \in DOMAIN KeyOf : KeyOf[cert] \in {"rsa", "p256", "p384", "p521", "ed25519"}
  /\ IssuedByCa \subseteq DOMAIN KeyOf /\ ChainUntil \in Nat

NoExpiry == 0
NoKid == Hash("none", "none")

\* ALGO_REGISTRY: the digest that goes with a JWS algorithm
Registry == [RS256 |-> "SHA256", RS384 |-> "SHA384", RS512 |-> "SHA512",
             PS256 |-> "SHA256", PS384 |-> "SHA384", PS512 |-> "SHA512",
             ES256 |-> "SHA256", ES384 |-> "SHA384", ES512 |-> "SHA512",
             EdDSA |-> "SHA512"]

\* make_signer and make_verifier: the keys an algorithm works with; both
\* refuse EdDSA, which the registry has
JwsKeys(alg) ==
  CASE alg \in {"RS256", "RS384", "RS512", "PS256", "PS384", "PS512"} -> {"rsa"}
    [] alg = "ES256" -> {"p256"}
    [] alg = "ES384" -> {"p384"}
    [] alg = "ES512" -> {"p521"}
    [] alg = "EdDSA" -> {}

-----------------------------------------------------------------------------
(* svt/issuer.rs; an issuer is [alg, owner, chain]: the owner of its key and *)
(* the certificates it was given, the key's first if they were given right  *)

CertRef(issuer, chain, byHash) ==
  IF byHash
  THEN [type |-> "ChainHash", refs |-> [k \in DOMAIN chain |-> Hash(Registry[issuer.alg], chain[k])]]
  ELSE [type |-> "Chain", refs |-> chain]

\* SignatureClaims for a signature, from the data that a verification has of it
Claims(issuer, data, byHash) ==
  [sigRef |-> [sigHash |-> data.sigHash, sbHash |-> data.sbHash],
   dataRefs |-> data.dataRefs, certRef |-> CertRef(issuer, data.chain, byHash)]

CanIssue(issuer) == KeyOf[issuer.owner] \in JwsKeys(issuer.alg)

\* SvtIssuer::issue, for claims about different signatures; the certificate is
\* named by the header's x5c or kid
Issue(issuer, claims, byHash, exp) ==
  LET payload == [claims |-> claims, hashAlgo |-> Registry[issuer.alg], exp |-> exp]
      header  == [x5c |-> IF byHash THEN <<>> ELSE issuer.chain,
                  kid |-> IF byHash /\ issuer.chain # <<>>
                          THEN Hash(Registry[issuer.alg], issuer.chain[1]) ELSE NoKid]
  IN  [alg |-> issuer.alg, header |-> header, payload |-> payload,
       signature |-> [by |-> issuer.owner, alg |-> issuer.alg, over |-> <<header, payload>>]]

-----------------------------------------------------------------------------
(* svt/validator.rs; trusted certificates are a sequence *)

\* Mutant: the chain is validated although its leaf is itself trusted.
X5cTrustedChainOnly(jwt, trusted, now) ==
  "ca" \in ToSet(trusted) /\ jwt.header.x5c[1] \in IssuedByCa /\ now <= ChainUntil

\* the leaf of an x5c header is trusted, or chains to a trusted certificate now
\* (ensure_x5c_chains_to_trust)
X5cTrusted(jwt, trusted, now) ==
  \/ jwt.header.x5c[1] \in ToSet(trusted)
  \/ "ca" \in ToSet(trusted) /\ jwt.header.x5c[1] \in IssuedByCa /\ now <= ChainUntil

KidMatches(jwt, trusted) ==
  {k \in DOMAIN trusted : \E alg \in Sha2 : jwt.header.kid = Hash(alg, trusted[k])}

\* resolve_verification_cert: the certificates it may return, none or one; a
\* kid has no validity, and without a hint the first trusted one is taken
VerificationCert(jwt, trusted, now) ==
  IF jwt.header.x5c # <<>>
  THEN {cert \in {jwt.header.x5c[1]} : X5cTrusted(jwt, trusted, now)}
  ELSE IF jwt.header.kid # NoKid
  THEN {trusted[k] : k \in {k \in KidMatches(jwt, trusted) :
                              \A j \in KidMatches(jwt, trusted) : k <= j}}
  ELSE {trusted[k] : k \in DOMAIN trusted \cap {1}}

\* verify_jwt
JwtVerifies(jwt, trusted, now) ==
  \E cert \in VerificationCert(jwt, trusted, now) :
    /\ KeyOf[cert] \in JwsKeys(jwt.alg)
    /\ jwt.signature.by = cert /\ jwt.signature.alg = jwt.alg
    /\ jwt.signature.over = <<jwt.header, jwt.payload>>

\* check_expiry, which verify_jwt leaves to the caller
Unexpired(jwt, now) == jwt.payload.exp = NoExpiry \/ now <= jwt.payload.exp

\* check_cert_references: the signer's certificate it comes to, none or one.
\* Full certificates are taken from the SVT, hashes looked up in the signature.
SignerFromRefs(certRef, chain, hashAlgo) ==
  IF certRef.type = "Chain" THEN {certRef.refs[k] : k \in DOMAIN certRef.refs \cap {1}}
  ELSE IF \A k \in DOMAIN certRef.refs : \E cert \in ToSet(chain) : certRef.refs[k] = Hash(hashAlgo, cert)
  THEN {cert \in ToSet(chain) : Len(certRef.refs) > 0 /\ certRef.refs[1] = Hash(hashAlgo, cert)}
  ELSE {}

\* Mutant: the hashes of the signature are enough.
ValidateSignatureByRef(payload, data) ==
  UNION {SignerFromRefs(c.certRef, data.chain, payload.hashAlgo) :
           c \in {c \in payload.claims : c.sigRef = [sigHash |-> data.sigHash, sbHash |-> data.sbHash]}}

\* validate_signature: the signer's certificate if the SVT speaks for the
\* signature, its hashes, what it signs and its certificates; none if not
ValidateSignature(payload, data) ==
  UNION {SignerFromRefs(c.certRef, data.chain, payload.hashAlgo) :
           c \in {c \in payload.claims :
                    /\ c.sigRef = [sigHash |-> data.sigHash, sbHash |-> data.sbHash]
                    /\ c.dataRefs \subseteq data.dataRefs}}
=============================================================================
