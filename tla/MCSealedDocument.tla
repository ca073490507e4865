--------------------------- MODULE MCSealedDocument ---------------------------
(* Issuers, sealers and trusted certificates for SealedDocument. *)
EXTENDS SealedDocument

MCKeyOf == [anchor |-> "rsa", leaf |-> "p256", ca |-> "rsa", stranger |-> "rsa", edward |-> "ed25519"]

Issuer(alg, owner, chain) == [alg |-> alg, owner |-> owner, chain |-> chain]

\* a trusted certificate, with and without a chain; one below the CA; a key
\* that nobody trusts, also with another's certificate; an algorithm that is
\* registered and has no signer
MCIssuers ==
  { Issuer("PS384", "anchor", <<"anchor", "ca">>), Issuer("RS512", "anchor", <<>>),
    Issuer("ES256", "leaf", <<"leaf", "ca">>),
    Issuer("RS256", "stranger", <<"stranger">>), Issuer("RS256", "stranger", <<"anchor">>),
    Issuer("EdDSA", "edward", <<"edward", "ca">>) }

MCTrusted == <<"anchor", "ca">>

Sealer(key, scheme, digest, remote) ==
  [key |-> key, scheme |-> scheme, digest |-> digest, remote |-> remote]

MCSealers ==
  { Sealer("rsa", "RsaPss", "SHA512", FALSE), Sealer("p384", "Ecdsa", "SHA384", TRUE),
    Sealer("p521", "Ecdsa", "SHA512", TRUE) }
=============================================================================
