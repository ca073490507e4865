---------------------------- MODULE PathValidation ----------------------------
(***************************************************************************)
(* verify/chain_verify.rs: a chain is built from the certificates that     *)
(* came with the signature, checked against the trust store, and, online,  *)
(* every certificate of it is looked up for revocation, one after the      *)
(* other, while the world goes on revoking certificates.                   *)
(***************************************************************************)
EXTENDS Integers, Sequences, SequencesExt, FiniteSets

CONSTANTS Signers,      (* signer certificates                               *)
          Embedded,     (* sequences of certificates a signature may embed   *)
          Anchors,      (* certificates of the trust store                   *)
          Times,        (* times the path may be validated at                *)
          MaxDepth,     (* MAX_CHAIN_DEPTH                                   *)
          MaxRevoked    (* bound: certificates revoked while it runs         *)

\* from and until: the validity period; ee and ca: its extensions suit an end
\* entity, an intermediate CA
Certificate == [subject : STRING, issuer : STRING, serial : Nat, key : STRING,
                signedBy : STRING, from : Nat, until : Nat, ee : BOOLEAN, ca : BOOLEAN]

ASSUME PathAssumption ==
  /\ Signers \cup Anchors \subseteq Certificate
  /\ Embedded \subseteq Seq(Certificate)
  /\ Times \subseteq Nat /\ MaxDepth \in Nat \ {0} /\ MaxRevoked \in Nat

VARIABLES pc,       \* build, store, lookup or done
          embedded, \* the certificates of the signature, in its order
          online,   \* validate_certificate_path rather than verify_chain
          strict,   \* revocation_config.require_revocation_check
          at,       \* the time the path is validated at
          chain,    \* [leaf, intermediates ...]
          anchored, \* the trust store accepted the chain
          entries,  \* per_cert_status
          overall,  \* overall_status
          revoked,  \* certificates revoked by now
          early     \* those that were revoked before validation began

vars == <<pc, embedded, online, strict, at, chain, anchored, entries, overall, revoked, early>>

Init ==
  /\ pc = "build"
  /\ embedded \in Embedded
  /\ online \in BOOLEAN /\ strict \in BOOLEAN
  /\ at \in Times
  /\ chain \in {<<s>> : s \in Signers}
  /\ anchored = FALSE /\ entries = <<>> /\ overall = "none"
  /\ revoked \in {S \in SUBSET (ToSet(embedded) \cup ToSet(chain)) : Cardinality(S) <= 1}
  /\ early = revoked

-----------------------------------------------------------------------------
(* build_chain: one action per way an iteration of its loop can go *)

Current == Last(chain)
SelfSigned(c) == c.issuer = c.subject

\* "don't match ourselves" compares serial numbers
Issuers(c) ==
  {k \in DOMAIN embedded : embedded[k].subject = c.issuer /\ embedded[k].serial # c.serial}

\* Mutant: an issuer that is in the chain already is not taken, nor does the
\* loop move on.
FollowIssuerSkipping ==
  /\ pc = "build" /\ Len(chain) <= MaxDepth
  /\ ~SelfSigned(Current)
  /\ \E k \in Issuers(Current) :
       /\ \A l \in Issuers(Current) : k <= l
       /\ chain' = IF embedded[k] \in ToSet(chain) THEN chain ELSE Append(chain, embedded[k])
  /\ UNCHANGED <<pc, embedded, online, strict, at, anchored, entries, overall, revoked, early>>

\* Mutant: the first embedded certificate is taken to be the issuer.
FollowFirstCertificate ==
  /\ pc = "build" /\ Len(chain) <= MaxDepth
  /\ ~SelfSigned(Current)
  /\ \E k \in Issuers(Current) : chain' = Append(chain, embedded[1])
  /\ UNCHANGED <<pc, embedded, online, strict, at, anchored, entries, overall, revoked, early>>

FollowIssuer ==
  /\ pc = "build" /\ Len(chain) <= MaxDepth
  /\ ~SelfSigned(Current)
  /\ \E k \in Issuers(Current) : /\ \A l \in Issuers(Current) : k <= l
                                 /\ chain' = Append(chain, embedded[k])
  /\ UNCHANGED <<pc, embedded, online, strict, at, anchored, entries, overall, revoked, early>>

\* the trust store has the root; a self-signed leaf stays
StopAtRoot ==
  /\ pc = "build" /\ Len(chain) <= MaxDepth
  /\ SelfSigned(Current)
  /\ chain' = IF Len(chain) > 1 THEN Front(chain) ELSE chain
  /\ pc' = "store"
  /\ UNCHANGED <<embedded, online, strict, at, anchored, entries, overall, revoked, early>>

StopAtMissingIssuer ==
  /\ pc = "build" /\ Len(chain) <= MaxDepth
  /\ ~SelfSigned(Current) /\ Issuers(Current) = {}
  /\ pc' = "store"
  /\ UNCHANGED <<embedded, online, strict, at, chain, anchored, entries, overall, revoked, early>>

\* the loop has run MAX_CHAIN_DEPTH times
StopAtDepth ==
  /\ pc = "build" /\ Len(chain) = MaxDepth + 1
  /\ pc' = "store"
  /\ UNCHANGED <<embedded, online, strict, at, chain, anchored, entries, overall, revoked, early>>

-----------------------------------------------------------------------------
InTime(c, t) == c.from <= t /\ t <= c.until
Signs(ca, c) == ca.subject = c.issuer /\ ca.key = c.signedBy

\* TrustStore::verify_chain: signatures, validity periods and the anchor
StoreAccepts(path, t) ==
  /\ \A k \in 1 .. Len(path) - 1 : Signs(path[k + 1], path[k])
  /\ \A k \in DOMAIN path : InTime(path[k], t)
  /\ \E a \in Anchors : Signs(a, Last(path))

CheckStore ==
  /\ pc = "store"
  /\ anchored' = StoreAccepts(chain, at)
  /\ pc' = IF online THEN "lookup" ELSE "done"
  /\ UNCHANGED <<embedded, online, strict, at, chain, entries, overall, revoked, early>>

\* check_certificate_revocation: what a strict policy cannot establish it
\* reports as invalid
Lookup(c, hasIssuer, answered) ==
  CASE ~hasIssuer                                    -> "unknown"
    [] hasIssuer /\ answered /\ c \in revoked        -> "revoked"
    [] hasIssuer /\ answered /\ c \notin revoked     -> "valid"
    [] hasIssuer /\ ~answered /\ strict   -> "invalid"
    [] hasIssuer /\ ~answered /\ ~strict  -> "unknown"

\* one certificate: validity period, extensions for its role, revocation; the
\* issuer is the next one or the anchor
CheckCertificate(answered) ==
  /\ pc = "lookup" /\ Len(entries) < Len(chain)
  /\ LET k == Len(entries) + 1
         c == chain[k]
     IN  entries' = Append(entries,
           [time |-> InTime(c, at), ext |-> IF k = 1 THEN c.ee ELSE c.ca,
            rev |-> Lookup(c, k < Len(chain) \/ anchored, answered)])
  /\ UNCHANGED <<pc, embedded, online, strict, at, chain, anchored, overall, revoked, early>>

\* Mutant: only the signer's certificate is asked about revocation.
PathStatusOfLeaf ==
  IF ~anchored THEN "invalid"
  ELSE IF entries[1].rev = "revoked" THEN "revoked"
  ELSE IF \E k \in DOMAIN entries : ~entries[k].time \/ ~entries[k].ext THEN "invalid"
  ELSE IF entries[1].rev = "invalid" THEN "invalid"
  ELSE IF strict /\ entries[1].rev = "unknown" THEN "unknown"
  ELSE "valid"

\* compute_path_status
PathStatus ==
  LET some(st) == \E k \in DOMAIN entries : entries[k].rev = st
  IN  IF ~anchored THEN "invalid"
      ELSE IF some("revoked") THEN "revoked"
      ELSE IF \E k \in DOMAIN entries : ~entries[k].time \/ ~entries[k].ext THEN "invalid"
      ELSE IF some("invalid") THEN "invalid"
      ELSE IF strict /\ some("unknown") THEN "unknown"
      ELSE "valid"

Conclude ==
  /\ pc = "lookup" /\ Len(entries) = Len(chain)
  /\ overall' = PathStatus
  /\ pc' = "done"
  /\ UNCHANGED <<embedded, online, strict, at, chain, anchored, entries, revoked, early>>

\* some CA revokes a certificate meanwhile
Revoke ==
  /\ pc # "done" /\ Cardinality(revoked) < MaxRevoked
  /\ \E c \in ToSet(chain) \ revoked : revoked' = revoked \cup {c}
  /\ UNCHANGED <<pc, embedded, online, strict, at, chain, anchored, entries, overall, early>>

Validate ==
  \/ FollowIssuer \/ StopAtRoot \/ StopAtMissingIssuer \/ StopAtDepth
  \/ CheckStore \/ (\E answered \in BOOLEAN : CheckCertificate(answered)) \/ Conclude

Next == Validate \/ Revoke

Spec == Init /\ [][Next]_vars

\* Validation is one sequential computation whose lookups have time limits.
FairSpec == Spec /\ WF_vars(Validate)

-----------------------------------------------------------------------------
(* verify_chain_online and verify_chain, as verify_single_signature uses them *)
Trusted == IF online THEN anchored /\ overall \notin {"revoked", "invalid"} ELSE anchored

\* A trusted verdict rests on a genuine path from the signer to an anchor in
\* which every certificate is in its validity period at the time asked for;
\* online it also suits its role and was not revoked before validation began,
\* unless nobody could be asked and the configuration lets that pass.
TrustedIsSound ==
  (pc = "done" /\ Trusted) =>
    /\ chain[1] \in Signers
    /\ StoreAccepts(chain, at)
    /\ online => /\ \A k \in DOMAIN chain : IF k = 1 THEN chain[k].ee ELSE chain[k].ca
                 /\ \A k \in DOMAIN chain : chain[k] \in early =>
                      ~strict /\ entries[k].rev = "unknown"

\* No two certificates that could be confused: same name or same serial number.
Unambiguous ==
  LET all == ToSet(embedded) \cup {chain[1]} \cup Anchors
  IN  \A c, d \in all : (c.subject = d.subject \/ c.serial = d.serial) => c = d

\* The certificates that can follow one another up from the signer.
PathExists ==
  \E n \in 0 .. MaxDepth :
    \E path \in [1 .. n -> ToSet(embedded)] : StoreAccepts(<<chain[1]>> \o path, at)

\* The last iteration appended the root, which now counts as an intermediate
\* and has to be in its own validity period.
RootKept == Len(chain) = MaxDepth + 1 /\ SelfSigned(Last(chain))

\* Where anchors are roots, the greedy search finds a path of at most MaxDepth
\* embedded certificates to an anchor whenever there is one, whatever order they
\* come in, if names and serial numbers are unique and no root was kept.
PathFoundIfUnambiguous ==
  (pc = "done" /\ Unambiguous /\ ~RootKept) => (anchored <=> PathExists)

\* Validation ends, also over certificates that certify each other in a circle.
Terminates == <>(pc = "done")
=============================================================================
