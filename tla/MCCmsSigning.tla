----------------------------- MODULE MCCmsSigning -----------------------------
(* Signers for CmsSigning: every combination that SoftwareSigner offers, and   *)
(* remote services with RSA, curve and Ed25519 keys.                            *)
EXTENDS CmsSigning

Rsa == {s \in Signer : s.key = "rsa" /\ s.scheme \in {"RsaPkcs1v15", "RsaPss"}}

OnCurve == {s \in Signer : s.key \in {"p256", "p384", "p521"} /\ s.scheme = "Ecdsa"}

Ed25519 == {s \in Signer : s.key = "ed25519" /\ s.scheme = "Ed25519" /\ s.remote}

\* SoftwareSigner reads no P-521 keys
MCSigners == Rsa \cup Ed25519 \cup {s \in OnCurve : s.key = "p521" => s.remote}

\* what from_pkcs12_data makes of each kind of key
DefaultSigners ==
  {s \in MCSigners : ~s.remote /\ \/ s.digest = "SHA256" /\ s.scheme = "RsaPkcs1v15"
                                  \/ s.digest = "SHA256" /\ s.key = "p256"
                                  \/ s.digest = "SHA384" /\ s.key = "p384"}

\* records, as the attributes are, so that TLC can compare the two
MCDocuments == [bytes : {"d1", "d2"}]
=============================================================================
