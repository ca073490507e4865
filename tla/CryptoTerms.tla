----------------------------- MODULE CryptoTerms -----------------------------
(***************************************************************************)
(* Hashes, keys and signatures as terms: a hash says which algorithm was   *)
(* applied to what, a signature which key signed which hash by which       *)
(* scheme (crypto/software.rs, the services that hold keys elsewhere, and  *)
(* verify_cms_signature of verify/cms_verify.rs).                          *)
(*                                                                         *)
(* CMS signatures, timestamp tokens and seals are built from these.        *)
(***************************************************************************)
EXTENDS Naturals

\* DigestAlgorithm; one variant of SHA-3 stands for the three
Sha2 == {"SHA256", "SHA384", "SHA512"}
Sha3 == {"SHA3-256"}

\* CryptoSigner: remote if the key is behind a service
Signer == [key : {"rsa", "p256", "p384", "p521", "ed25519"},
           scheme : {"RsaPkcs1v15", "RsaPss", "Ecdsa", "Ed25519"},
           digest : Sha2 \cup Sha3, remote : BOOLEAN]

Hash(alg, x) == [alg |-> alg, of |-> x]
NoHash == Hash("none", [bytes |-> "none"])
Signature(key, scheme, hash) == [key |-> key, scheme |-> scheme, hash |-> hash]
NoSignature == Signature("none", <<"none">>, NoHash)
Certificate(key) == <<"certificate", key>>

-----------------------------------------------------------------------------
(* Signing: cms/builder.rs, crypto/software.rs *)

\* signature_algorithm_identifier: RSA with SHA-3 is PSS, ECDSA goes by digest
SignatureAlgorithm(s) ==
  CASE s.scheme = "RsaPkcs1v15" /\ s.digest \notin Sha3            -> <<"rsa", s.digest>>
    [] s.scheme = "RsaPkcs1v15" /\ s.digest \in Sha3               -> <<"pss">>
    [] s.scheme = "RsaPss"                                         -> <<"pss">>
    [] s.scheme = "Ecdsa"                                          -> <<"ecdsa", s.digest>>
    [] s.scheme = "Ed25519"                                        -> <<"ed25519">>

\* padding of an RSA key
RsaScheme(s) ==
  IF s.scheme = "RsaPss" \/ s.digest \in Sha3 THEN <<"pss", s.digest>> ELSE <<"rsa", s.digest>>

\* SoftwareSigner::sign_hash; the signing keys of the curves hash what they are
\* given with the curve's own digest
SignHash(s, hash) ==
  CASE s.key = "rsa"  -> Signature(s.key, RsaScheme(s), hash)
    [] s.key = "p256" -> Signature(s.key, <<"ecdsa">>, Hash("SHA256", hash))
    [] s.key = "p384" -> Signature(s.key, <<"ecdsa">>, Hash("SHA384", hash))

\* a service that signs the hash it is sent
RemoteSign(s, hash) ==
  IF s.key = "rsa" THEN Signature(s.key, RsaScheme(s), hash)
  ELSE Signature(s.key, <<IF s.key = "ed25519" THEN "ed25519" ELSE "ecdsa">>, hash)

-----------------------------------------------------------------------------
(* Verifying: verify/cms_verify.rs *)

\* verify_cms_signature: the digests that each curve is tried with
EcdsaDigest(key, digest) ==
  CASE key = "p256" /\ digest \in {"SHA256", "SHA384"} -> {"SHA256"}
    [] key = "p384" /\ digest \in Sha2                 -> {"SHA384"}
    [] key = "p521" /\ digest \in Sha2                 -> {digest}
    [] OTHER                                           -> {}

SignatureVerifies(alg, attrs, key, sig) ==
  /\ sig.key = key
  /\ \/ /\ alg[1] = "rsa" /\ sig.scheme = alg /\ sig.hash = Hash(alg[2], attrs)
     \/ /\ alg[1] = "pss"
        /\ \E d \in Sha2 : sig.scheme = <<"pss", d>> /\ sig.hash = Hash(d, attrs)
     \/ /\ alg[1] = "ecdsa" /\ sig.scheme = <<"ecdsa">>
        /\ \E d \in EcdsaDigest(key, alg[2]) : sig.hash = Hash(d, attrs)
     \/ alg[1] = "ed25519" /\ sig.scheme = alg /\ sig.hash = attrs

\* RSA with SHA-2 of both kinds; on a curve, the digest must be the one that
\* the verifier tries first, and the key remote (see SoftwareSignatureVerifies).
Verifiable(s) ==
  \/ s.key = "rsa" /\ s.digest \in Sha2
  \/ s.remote /\ s.key \in {"p256", "p384", "p521"} /\ s.digest \in EcdsaDigest(s.key, s.digest)
=============================================================================
