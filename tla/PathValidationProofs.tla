------------------------- MODULE PathValidationProofs -------------------------
(***************************************************************************)
(* A trusted verdict is sound whatever certificates are embedded, in which *)
(* order, and whatever is revoked while the path is looked up.             *)
(***************************************************************************)
EXTENDS PathValidation, WellFoundedInduction, TLAPS

Answers == {"valid", "revoked", "invalid", "unknown"}
Entry == [time : BOOLEAN, ext : BOOLEAN, rev : Answers]

TypeInv ==
  /\ pc \in {"build", "store", "lookup", "done"}
  /\ embedded \in Seq(Certificate)
  /\ online \in BOOLEAN /\ strict \in BOOLEAN /\ anchored \in BOOLEAN
  /\ at \in Times
  /\ chain \in Seq(Certificate) /\ chain # <<>>
  /\ entries \in Seq(Entry)

\* The chain starts at the signer and goes on with embedded certificates; its
\* length is bounded also where certificates certify each other in a circle.
ChainInv ==
  /\ chain[1] \in Signers
  /\ \A k \in 2 .. Len(chain) : chain[k] \in ToSet(embedded)
  /\ Len(chain) <= MaxDepth + 1

\* The store is asked once, about the chain and the time that are reported.
StoreInv ==
  /\ pc \in {"build", "store"} => ~anchored /\ entries = <<>>
  /\ pc = "lookup" => online
  /\ anchored => StoreAccepts(chain, at)

\* What an entry says of its certificate.  A revocation from before validation
\* can go unnoticed only if nobody could be asked.
Describes(e, k) ==
  /\ e.time = InTime(chain[k], at)
  /\ e.ext = IF k = 1 THEN chain[k].ee ELSE chain[k].ca
  /\ chain[k] \in early => e.rev # "valid"
  /\ (anchored /\ e.rev = "unknown") => ~strict

EntriesInv ==
  /\ early \subseteq revoked
  /\ Len(entries) <= Len(chain)
  /\ \A k \in 1 .. Len(entries) : Describes(entries[k], k)

ConclusionInv ==
  (pc = "done" /\ online) => Len(entries) = Len(chain) /\ overall = PathStatus

IInv == TypeInv /\ ChainInv /\ StoreInv /\ EntriesInv /\ ConclusionInv

-----------------------------------------------------------------------------
\* Before the first certificate is checked the invariant holds.
LEMMA InitInv == Init => IInv
  <1> SUFFICES ASSUME Init PROVE IInv
    OBVIOUS
  <1>1. PICK s \in Signers : chain = <<s>>
    BY DEF Init
  <1>2. TypeInv
    <2>1. s \in Certificate /\ embedded \in Seq(Certificate)
      BY PathAssumption DEF Init
    <2>2. chain \in Seq(Certificate) /\ chain # <<>>
      BY <1>1, <2>1
    <2>3. entries \in Seq(Entry)
      BY DEF Init
    <2> QED BY <2>1, <2>2, <2>3 DEF Init, TypeInv
  <1>3. chain[1] = s /\ Len(chain) = 1
    BY <1>1
  <1>4. ChainInv
    BY <1>3, PathAssumption DEF ChainInv
  <1>5. StoreInv /\ ConclusionInv
    BY DEF Init, StoreInv, ConclusionInv
  <1>6. EntriesInv
    BY <1>3 DEF Init, EntriesInv
  <1> QED BY <1>2, <1>4, <1>5, <1>6 DEF IInv

\* While the chain is built nothing is known yet.
LEMMA BuildStep ==
  ASSUME IInv, pc = "build", pc' \in {"build", "store"},
         UNCHANGED <<embedded, online, strict, at, anchored, entries, overall, revoked, early>>,
         chain' \in Seq(Certificate), chain' # <<>>, chain'[1] = chain[1],
         \A k \in 2 .. Len(chain') : chain'[k] \in ToSet(embedded),
         Len(chain') <= MaxDepth + 1
  PROVE  IInv'
  <1>1. TypeInv'
    BY DEF IInv, TypeInv
  <1>2. ChainInv'
    BY DEF IInv, ChainInv
  <1>3. ~anchored /\ entries = <<>>
    BY DEF IInv, StoreInv
  <1>4. StoreInv' /\ ConclusionInv'
    BY <1>3 DEF StoreInv, ConclusionInv
  <1>5. Len(entries') = 0 /\ Len(chain') \in Nat
    BY <1>3
  <1>6. EntriesInv'
    BY <1>5 DEF IInv, EntriesInv
  <1> QED BY <1>1, <1>2, <1>4, <1>6 DEF IInv

\* CheckCertificate appends an entry that describes the next certificate.
LEMMA DescribedEntry ==
  ASSUME IInv, NEW answered \in BOOLEAN, CheckCertificate(answered)
  PROVE  LET k == Len(entries) + 1
         IN  /\ k \in 1 .. Len(chain)
             /\ \E e \in Entry : entries' = Append(entries, e) /\ Describes(e, k)
  <1> DEFINE k == Len(entries) + 1
             c == chain[k]
             e == [time |-> InTime(c, at), ext |-> IF k = 1 THEN c.ee ELSE c.ca,
                   rev |-> Lookup(c, k < Len(chain) \/ anchored, answered)]
  <1>1. k \in 1 .. Len(chain) /\ entries' = Append(entries, e)
    BY DEF IInv, TypeInv, CheckCertificate
  <1>2. c \in Certificate
    BY <1>1 DEF IInv, TypeInv
  <1>3. /\ Lookup(c, k < Len(chain) \/ anchored, answered) \in Answers
        /\ c \in early => Lookup(c, k < Len(chain) \/ anchored, answered) # "valid"
        /\ (anchored /\ Lookup(c, k < Len(chain) \/ anchored, answered) = "unknown") => ~strict
    <2>1. early \subseteq revoked /\ strict \in BOOLEAN /\ anchored \in BOOLEAN
      BY DEF IInv, EntriesInv, TypeInv
    <2> HIDE DEF c, k
    <2> QED BY <2>1 DEF Lookup, Answers
  <1>4. e \in Entry
    <2>1. InTime(c, at) \in BOOLEAN /\ c.ee \in BOOLEAN /\ c.ca \in BOOLEAN
      BY <1>2 DEF InTime, Certificate
    <2> HIDE DEF c, k
    <2> QED BY <1>3, <2>1 DEF Entry
  <1>5. Describes(e, k)
    BY <1>3 DEF Describes
  <1> QED BY <1>1, <1>4, <1>5

\* Every step keeps the invariant.
LEMMA StepInv == IInv /\ [Next]_vars => IInv'
  <1> SUFFICES ASSUME IInv, [Next]_vars PROVE IInv'
    OBVIOUS
  <1>0. /\ chain \in Seq(Certificate) /\ chain # <<>> /\ Len(chain) \in Nat /\ Len(chain) >= 1
        /\ Last(chain) = chain[Len(chain)]
    BY DEF IInv, TypeInv, Last
  <1>1. CASE FollowIssuer
    <2>1. PICK k \in Issuers(Current) : chain' = Append(chain, embedded[k])
      BY <1>1 DEF FollowIssuer
    <2>2. embedded[k] \in Certificate /\ embedded[k] \in ToSet(embedded)
      BY <2>1 DEF Issuers, IInv, TypeInv, ToSet
    <2>3. /\ chain' \in Seq(Certificate) /\ chain' # <<>> /\ Len(chain') = Len(chain) + 1
          /\ chain'[1] = chain[1] /\ chain'[Len(chain) + 1] = embedded[k]
          /\ \A l \in 1 .. Len(chain) : chain'[l] = chain[l]
      BY <1>0, <2>1, <2>2
    <2>4. \A l \in 2 .. Len(chain') : chain'[l] \in ToSet(embedded)
      <3>1. \A l \in 2 .. Len(chain') : l \in 2 .. Len(chain) \/ l = Len(chain) + 1
        BY <1>0, <2>3
      <3>2. \A l \in 2 .. Len(chain) : l \in 1 .. Len(chain)
        BY <1>0
      <3> QED BY <2>2, <2>3, <3>1, <3>2 DEF IInv, ChainInv
    <2>5. Len(chain') <= MaxDepth + 1
      BY <1>0, <1>1, <2>3, PathAssumption DEF FollowIssuer
    <2> QED BY <1>1, <2>3, <2>4, <2>5, BuildStep DEF FollowIssuer
  <1>2. CASE StopAtRoot
    <2>1. CASE Len(chain) > 1
      <3>1. chain' = SubSeq(chain, 1, Len(chain) - 1)
        BY <1>2, <2>1 DEF StopAtRoot, Front
      <3>2. /\ chain' \in Seq(Certificate) /\ Len(chain') = Len(chain) - 1
            /\ \A l \in 1 .. Len(chain) - 1 : chain'[l] = chain[l]
        BY <1>0, <2>1, <3>1
      <3>5. chain' # <<>> /\ chain'[1] = chain[1]
        BY <1>0, <2>1, <3>2
      <3>3. /\ \A l \in 2 .. Len(chain') : l \in 2 .. Len(chain) /\ l \in 1 .. Len(chain) - 1
            /\ Len(chain') <= Len(chain)
        BY <1>0, <3>2
      <3>4. /\ \A l \in 2 .. Len(chain') : chain'[l] \in ToSet(embedded)
            /\ Len(chain') <= MaxDepth + 1
        BY <1>0, <3>2, <3>3, PathAssumption DEF IInv, ChainInv
      <3> QED BY <1>2, <3>2, <3>4, <3>5, BuildStep DEF StopAtRoot
    <2>2. CASE ~(Len(chain) > 1)
      BY <1>0, <1>2, <2>2, BuildStep DEF StopAtRoot, IInv, ChainInv
    <2> QED BY <2>1, <2>2
  <1>3. CASE StopAtMissingIssuer
    BY <1>0, <1>3, BuildStep DEF StopAtMissingIssuer, IInv, ChainInv
  <1>4. CASE StopAtDepth
    BY <1>0, <1>4, BuildStep DEF StopAtDepth, IInv, ChainInv
  <1>5. CASE CheckStore
    <2>1. TypeInv' /\ ChainInv'
      BY <1>5 DEF CheckStore, IInv, TypeInv, ChainInv, StoreAccepts
    <2>2. entries' = <<>> /\ (anchored' => StoreAccepts(chain, at)) /\ (pc' = "lookup" => online)
      BY <1>5 DEF CheckStore, IInv, StoreInv
    <2>3. StoreInv'
      BY <1>5, <2>2 DEF CheckStore, StoreInv, StoreAccepts
    <2>4. EntriesInv'
      BY <1>0, <1>5, <2>2 DEF CheckStore, IInv, EntriesInv
    <2>5. ConclusionInv'
      BY <1>5 DEF CheckStore, ConclusionInv
    <2> QED BY <2>1, <2>3, <2>4, <2>5 DEF IInv
  <1>6. ASSUME NEW answered \in BOOLEAN, CheckCertificate(answered)
        PROVE  IInv'
    <2> DEFINE k == Len(entries) + 1
    <2>1. k \in 1 .. Len(chain)
      BY <1>6, DescribedEntry
    <2>2. PICK e \in Entry : entries' = Append(entries, e) /\ Describes(e, k)
      BY <1>6, DescribedEntry
    <2>3. /\ entries' \in Seq(Entry) /\ Len(entries') = k /\ entries'[k] = e
          /\ \A l \in 1 .. Len(entries) : entries'[l] = entries[l]
      BY <2>2 DEF IInv, TypeInv
    <2>4. UNCHANGED <<pc, embedded, online, strict, at, chain, anchored, overall, revoked, early>>
      BY <1>6 DEF CheckCertificate
    <2>5. TypeInv' /\ ChainInv'
      BY <2>3, <2>4 DEF IInv, TypeInv, ChainInv
    <2>6. StoreInv'
      BY <1>6, <2>4 DEF CheckCertificate, IInv, StoreInv, StoreAccepts
    <2>7. \A l \in 1 .. k : l \in 1 .. Len(entries) \/ l = k
      BY <2>1
    <2>8. \A l \in 1 .. k : Describes(entries'[l], l)
      BY <2>2, <2>3, <2>7 DEF IInv, EntriesInv
    <2>9. \A l \in 1 .. k : Describes(entries[l], l)'
      <3> HIDE DEF k
      <3> QED BY <2>4, <2>8 DEF Describes, InTime
    <2>10. EntriesInv'
      <3>1. k <= Len(chain)
        BY <1>0, <2>1
      <3> HIDE DEF k
      <3> QED BY <2>3, <2>4, <2>9, <3>1 DEF IInv, EntriesInv
    <2>11. ConclusionInv'
      BY <1>6, <2>4 DEF CheckCertificate, ConclusionInv
    <2> QED BY <2>5, <2>6, <2>10, <2>11 DEF IInv
  <1>7. CASE Conclude
    <2>1. UNCHANGED <<embedded, online, strict, at, chain, anchored, entries, revoked, early>>
      BY <1>7 DEF Conclude
    <2>2. TypeInv' /\ ChainInv' /\ StoreInv'
      BY <1>7, <2>1 DEF Conclude, IInv, TypeInv, ChainInv, StoreInv, StoreAccepts
    <2>3. EntriesInv'
      BY <2>1 DEF IInv, EntriesInv, Describes, InTime
    <2>4. PathStatus' = PathStatus
      BY <2>1 DEF PathStatus
    <2>5. ConclusionInv'
      BY <1>7, <2>1, <2>4 DEF Conclude, ConclusionInv
    <2> QED BY <2>2, <2>3, <2>5 DEF IInv
  <1>8. CASE Revoke
    <2>1. UNCHANGED <<pc, embedded, online, strict, at, chain, anchored, entries, overall, early>>
      BY <1>8 DEF Revoke
    <2>2. TypeInv' /\ ChainInv' /\ StoreInv'
      BY <2>1 DEF IInv, TypeInv, ChainInv, StoreInv, StoreAccepts
    <2>3. revoked \subseteq revoked'
      BY <1>8 DEF Revoke
    <2>4. EntriesInv'
      BY <2>1, <2>3 DEF IInv, EntriesInv, Describes, InTime
    <2>5. ConclusionInv'
      BY <1>8, <2>1 DEF Revoke, ConclusionInv
    <2> QED BY <2>2, <2>4, <2>5 DEF IInv
  <1>9. CASE UNCHANGED vars
    <2>1. TypeInv' /\ ChainInv' /\ StoreInv' /\ EntriesInv'
      BY <1>9 DEF vars, IInv, TypeInv, ChainInv, StoreInv, StoreAccepts, EntriesInv, Describes, InTime
    <2>2. ConclusionInv'
      BY <1>9 DEF vars, IInv, ConclusionInv, PathStatus
    <2> QED BY <2>1, <2>2 DEF IInv
  <1> QED BY <1>1, <1>2, <1>3, <1>4, <1>5, <1>6, <1>7, <1>8, <1>9 DEF Next, Validate

\* Types, the chain and what the entries say of it hold in every state.
THEOREM Invariance == Spec => []IInv
  BY InitInv, StepInv, PTL DEF Spec

\* TrustedIsSound: a trusted verdict rests on a genuine path of certificates
\* that are valid at the time asked for and fit their roles, and no earlier
\* revocation is overlooked unless nobody could be asked.
THEOREM TrustedCorrect == Spec => []TrustedIsSound
  <1>1. ASSUME IInv
        PROVE  TrustedIsSound
    <2>1. SUFFICES ASSUME pc = "done", Trusted
                   PROVE  /\ chain[1] \in Signers
                          /\ StoreAccepts(chain, at)
                          /\ online =>
                               /\ \A k \in DOMAIN chain : IF k = 1 THEN chain[k].ee ELSE chain[k].ca
                               /\ \A k \in DOMAIN chain : chain[k] \in early =>
                                    ~strict /\ entries[k].rev = "unknown"
      BY DEF TrustedIsSound
    <2>2. anchored
      BY <2>1 DEF Trusted
    <2>3. chain[1] \in Signers /\ StoreAccepts(chain, at)
      BY <1>1, <2>2 DEF IInv, ChainInv, StoreInv
    <2>4. ASSUME online, NEW k \in DOMAIN chain
          PROVE  /\ IF k = 1 THEN chain[k].ee ELSE chain[k].ca
                 /\ chain[k] \in early => ~strict /\ entries[k].rev = "unknown"
      <3>1. /\ overall = PathStatus /\ overall \notin {"revoked", "invalid"}
            /\ Len(entries) = Len(chain)
        BY <1>1, <2>1, <2>4 DEF IInv, ConclusionInv, Trusted
      <3>2. k \in 1 .. Len(entries) /\ k \in DOMAIN entries /\ entries[k] \in Entry
        BY <1>1, <3>1 DEF IInv, TypeInv
      <3>3. Describes(entries[k], k)
        BY <1>1, <3>2 DEF IInv, EntriesInv
      <3>4. /\ entries[k].rev # "revoked" /\ entries[k].rev # "invalid"
            /\ entries[k].time /\ entries[k].ext
        BY <2>2, <3>1, <3>2 DEF PathStatus
      <3>5. entries[k].rev \in Answers
        BY <3>2 DEF Entry
      <3> QED BY <2>2, <3>3, <3>4, <3>5 DEF Describes, Answers
    <2> QED BY <2>3, <2>4
  <1>2. Spec => []IInv
    BY Invariance
  <1> QED BY <1>1, <1>2, PTL

-----------------------------------------------------------------------------
(* What the greedy search has gone through when it ends. *)

\* Why the search ended: at a self-signed signer, below a root, where no issuer
\* is embedded, or at its limit.
Ended ==
  \/ Len(chain) = 1 /\ SelfSigned(chain[1])
  \/ /\ ~SelfSigned(Last(chain))
     /\ \/ \E r \in ToSet(embedded) : SelfSigned(r) /\ r.subject = Last(chain).issuer
        \/ Issuers(Last(chain)) = {}
  \/ Len(chain) = MaxDepth + 1

\* Each certificate but the last is followed by its issuer and is no root.
Linked ==
  \A k \in 1 .. Len(chain) - 1 : chain[k + 1].subject = chain[k].issuer /\ ~SelfSigned(chain[k])

SearchInv ==
  /\ Linked
  /\ pc # "build" => Ended
  /\ pc \in {"lookup", "done"} => anchored = StoreAccepts(chain, at)

\* Once the search is over nothing disturbs what it found.
LEMMA SearchOver ==
  ASSUME SearchInv, pc \in {"lookup", "done"}, pc' \in {"lookup", "done"},
         UNCHANGED <<embedded, at, chain, anchored>>
  PROVE  SearchInv'
  <1>1. Linked' /\ Ended'
    BY DEF SearchInv, Linked, Ended, Issuers, SelfSigned
  <1>2. (anchored = StoreAccepts(chain, at))'
    BY DEF SearchInv, StoreAccepts
  <1> QED BY <1>1, <1>2 DEF SearchInv

\* Every step keeps what is known of the search.
LEMMA SearchStep == IInv /\ SearchInv /\ [Next]_vars => SearchInv'
  <1> SUFFICES ASSUME IInv, SearchInv, [Next]_vars PROVE SearchInv'
    OBVIOUS
  <1>0. /\ chain \in Seq(Certificate) /\ chain # <<>> /\ Len(chain) \in Nat /\ Len(chain) >= 1
        /\ Last(chain) = chain[Len(chain)]
    BY DEF IInv, TypeInv, Last
  <1>1. CASE FollowIssuer
    <2>1. PICK k \in Issuers(Current) : chain' = Append(chain, embedded[k])
      BY <1>1 DEF FollowIssuer
    <2>2. /\ embedded[k].subject = chain[Len(chain)].issuer /\ ~SelfSigned(chain[Len(chain)])
          /\ embedded[k] \in Certificate
      BY <1>0, <1>1, <2>1 DEF FollowIssuer, Issuers, Current, IInv, TypeInv
    <2>3. /\ Len(chain') = Len(chain) + 1 /\ chain'[Len(chain) + 1] = embedded[k]
          /\ \A l \in 1 .. Len(chain) : chain'[l] = chain[l]
      BY <1>0, <2>1, <2>2
    <2>4. ASSUME NEW l \in 1 .. Len(chain') - 1
          PROVE  chain'[l + 1].subject = chain'[l].issuer /\ ~SelfSigned(chain'[l])
      <3>1. l \in 1 .. Len(chain) /\ chain'[l] = chain[l]
        BY <1>0, <2>3
      <3>2. CASE l = Len(chain)
        BY <2>2, <2>3, <3>1, <3>2
      <3>3. CASE l # Len(chain)
        <4>1. l \in 1 .. Len(chain) - 1 /\ l + 1 \in 1 .. Len(chain)
          BY <1>0, <3>1, <3>3
        <4> QED BY <2>3, <3>1, <4>1 DEF SearchInv, Linked
      <3> QED BY <3>2, <3>3
    <2>5. Linked'
      BY <2>4 DEF Linked, SelfSigned
    <2>6. pc' = "build"
      BY <1>1 DEF FollowIssuer
    <2> QED BY <2>5, <2>6 DEF SearchInv
  <1>2. CASE StopAtRoot
    <2>1. CASE Len(chain) > 1
      <3>1. chain' = SubSeq(chain, 1, Len(chain) - 1)
        BY <1>2, <2>1 DEF StopAtRoot, Front
      <3>2. /\ chain' \in Seq(Certificate) /\ Len(chain') = Len(chain) - 1
            /\ \A l \in 1 .. Len(chain) - 1 : chain'[l] = chain[l]
        BY <1>0, <2>1, <3>1
      <3>3. Linked'
        <4>1. \A l \in 1 .. Len(chain') - 1 : l \in 1 .. Len(chain) - 1 /\ l + 1 \in 1 .. Len(chain) - 1
          BY <1>0, <3>2
        <4> QED BY <3>2, <4>1 DEF SearchInv, Linked, SelfSigned
      <3> DEFINE r == chain[Len(chain)]
                 m == Len(chain) - 1
      <3>4. SelfSigned(r) /\ r \in ToSet(embedded)
        <4>1. Len(chain) \in 2 .. Len(chain)
          BY <1>0, <2>1
        <4> QED BY <1>0, <1>2, <4>1 DEF StopAtRoot, Current, IInv, ChainInv
      <3>5. m \in 1 .. Len(chain) - 1 /\ r.subject = chain[m].issuer /\ ~SelfSigned(chain[m])
        <4>1. m \in 1 .. Len(chain) - 1 /\ m + 1 = Len(chain)
          BY <1>0, <2>1
        <4> QED BY <4>1 DEF SearchInv, Linked
      <3>6. Last(chain') = chain[m]
        BY <3>2, <3>5 DEF Last
      <3>7. Ended'
        <4>1. embedded' = embedded
          BY <1>2 DEF StopAtRoot
        <4> QED BY <3>4, <3>5, <3>6, <4>1 DEF Ended, SelfSigned
      <3> QED BY <1>2, <3>3, <3>7 DEF StopAtRoot, SearchInv
    <2>2. CASE ~(Len(chain) > 1)
      <3>1. Len(chain) = 1 /\ chain' = chain /\ SelfSigned(chain[1]) /\ pc' = "store"
        BY <1>0, <1>2, <2>2 DEF StopAtRoot, Current
      <3> QED BY <3>1 DEF SearchInv, Linked, Ended, SelfSigned
    <2> QED BY <2>1, <2>2
  <1>3. CASE StopAtMissingIssuer
    BY <1>3 DEF StopAtMissingIssuer, SearchInv, Linked, Ended, Current, Issuers, SelfSigned
  <1>4. CASE StopAtDepth
    BY <1>4 DEF StopAtDepth, SearchInv, Linked, Ended
  <1>5. CASE CheckStore
    <2>1. Linked' /\ Ended'
      BY <1>5 DEF CheckStore, SearchInv, Linked, Ended, Issuers, SelfSigned
    <2>2. (anchored = StoreAccepts(chain, at))'
      BY <1>5 DEF CheckStore, StoreAccepts
    <2> QED BY <2>1, <2>2 DEF SearchInv
  <1>6. ASSUME NEW answered \in BOOLEAN, CheckCertificate(answered)
        PROVE  SearchInv'
    BY <1>6, SearchOver DEF CheckCertificate
  <1>7. CASE Conclude
    BY <1>7, SearchOver DEF Conclude
  <1>8. CASE Revoke \/ UNCHANGED vars
    <2>1. UNCHANGED <<pc, embedded, at, chain, anchored>>
      BY <1>8 DEF Revoke, vars
    <2> QED BY <2>1 DEF SearchInv, Linked, Ended, Issuers, SelfSigned, StoreAccepts
  <1> QED BY <1>1, <1>2, <1>3, <1>4, <1>5, <1>6, <1>7, <1>8 DEF Next, Validate

\* The chain is what the greedy search finds, and the store was asked about it.
THEOREM SearchInvariance == Spec => []SearchInv
  <1>1. Init => SearchInv
    <2> SUFFICES ASSUME Init PROVE SearchInv
      OBVIOUS
    <2>1. PICK s \in Signers : chain = <<s>>
      BY DEF Init
    <2>2. Len(chain) = 1 /\ pc = "build"
      BY <2>1 DEF Init
    <2> QED BY <2>2 DEF SearchInv, Linked
  <1> QED BY <1>1, SearchStep, Invariance, PTL DEF Spec

-----------------------------------------------------------------------------
(* Where there is a path, the search went along it. *)

\* The trust store holds roots only, no intermediate CAs.
RootsOnly == \A a \in Anchors : SelfSigned(a)

\* p is a path from the signer up to the anchor a.
AnchoredPath(p, a) ==
  /\ Len(p) \in 1 .. MaxDepth + 1 /\ p[1] = chain[1] /\ a \in Anchors
  /\ \A k \in 2 .. Len(p) : p[k] \in ToSet(embedded)
  /\ \A k \in 1 .. Len(p) - 1 : Signs(p[k + 1], p[k])
  /\ \A k \in 1 .. Len(p) : InTime(p[k], at)
  /\ Signs(a, p[Len(p)])

\* Names tell the certificates of a path, the chain and the store apart.
LEMMA NamesTell ==
  ASSUME IInv, Unambiguous, NEW p, NEW a, AnchoredPath(p, a),
         NEW c, NEW d,
         c \in Anchors \/ (\E k \in 1 .. Len(chain) : c = chain[k]) \/ (\E k \in 1 .. Len(p) : c = p[k])
           \/ c \in ToSet(embedded),
         d \in Anchors \/ (\E k \in 1 .. Len(chain) : d = chain[k]) \/ (\E k \in 1 .. Len(p) : d = p[k])
           \/ d \in ToSet(embedded),
         c.subject = d.subject \/ c.serial = d.serial
  PROVE  c = d
  <1> DEFINE all == ToSet(embedded) \cup {chain[1]} \cup Anchors
  <1>1. /\ \A k \in 1 .. Len(chain) : k = 1 \/ k \in 2 .. Len(chain)
        /\ \A k \in 1 .. Len(p) : k = 1 \/ k \in 2 .. Len(p)
    OBVIOUS
  <1>2. /\ \A k \in 1 .. Len(chain) : chain[k] \in all
        /\ \A k \in 1 .. Len(p) : p[k] \in all
    BY <1>1 DEF IInv, ChainInv, AnchoredPath
  <1>3. c \in all /\ d \in all
    BY <1>2
  <1> QED BY <1>3 DEF Unambiguous

\* A nonempty set of naturals has a least element.
LEMMA LeastElement ==
  ASSUME NEW T, T \subseteq Nat, T # {}
  PROVE  \E x \in T : \A y \in T : x <= y
  <1> DEFINE R == OpToRel(<, Nat)
  <1>1. PICK x \in T : \A y \in T : <<y, x>> \notin R
    <2>1. IsWellFoundedOn(R, Nat)
      BY NatLessThanWellFounded
    <2> HIDE DEF R
    <2> QED BY <2>1, WFMin
  <1>2. \A y \in T : ~(y < x)
    BY <1>1 DEF OpToRel
  <1> HIDE DEF R
  <1> QED BY <1>2

\* Chain and path agree as far as both go.
LEMMA PathsAgree ==
  ASSUME IInv, SearchInv, Unambiguous, NEW p, NEW a, AnchoredPath(p, a),
         NEW k \in 1 .. Len(chain), k <= Len(p)
  PROVE  p[k] = chain[k]
  <1>0. Len(chain) \in Nat /\ Len(p) \in Nat
    BY DEF IInv, TypeInv, AnchoredPath
  <1> DEFINE Odd == {l \in 1 .. Len(chain) : l <= Len(p) /\ p[l] # chain[l]}
  <1>1. SUFFICES ASSUME Odd # {} PROVE FALSE
    OBVIOUS
  <1>2. PICK l \in Odd : \A m \in Odd : l <= m
    <2>1. Odd \subseteq Nat /\ Odd # {}
      BY <1>1
    <2> HIDE DEF Odd
    <2> QED BY <2>1, LeastElement
  <1>3. l # 1
    BY <1>2 DEF AnchoredPath
  <1>4. /\ l - 1 \in 1 .. Len(chain) - 1 /\ l - 1 \in 1 .. Len(p) - 1 /\ l - 1 \notin Odd
        /\ l - 1 \in 1 .. Len(chain) /\ l - 1 <= Len(p) /\ (l - 1) + 1 = l
    BY <1>0, <1>2, <1>3
  <1>5. p[l - 1] = chain[l - 1]
    BY <1>4
  <1>6. p[l].subject = p[l - 1].issuer /\ chain[l].subject = chain[l - 1].issuer
    BY <1>4 DEF AnchoredPath, Signs, SearchInv, Linked
  <1>7. l \in 1 .. Len(p) /\ l \in 1 .. Len(chain)
    BY <1>0, <1>2
  <1>8. p[l] = chain[l]
    BY <1>5, <1>6, <1>7, NamesTell
  <1> QED BY <1>2, <1>8

\* A path goes no further than a root.
LEMMA RootEndsPath ==
  ASSUME IInv, Unambiguous, NEW p, NEW a, AnchoredPath(p, a),
         NEW j \in 1 .. Len(p), SelfSigned(p[j])
  PROVE  p[Len(p)] = p[j] /\ a = p[j]
  <1>0. Len(p) \in Nat
    BY DEF AnchoredPath
  <1> DEFINE Odd == {l \in j .. Len(p) : p[l] # p[j]}
  <1>1. ASSUME Odd # {} PROVE FALSE
    <2>1. PICK l \in Odd : \A m \in Odd : l <= m
      <3>1. Odd \subseteq Nat /\ Odd # {}
        BY <1>1
      <3> HIDE DEF Odd
      <3> QED BY <3>1, LeastElement
    <2>2. /\ l # j /\ l - 1 \in j .. Len(p) /\ l - 1 \in 1 .. Len(p) - 1 /\ (l - 1) + 1 = l
          /\ l - 1 \notin Odd /\ l \in 1 .. Len(p)
      BY <1>0, <2>1
    <2>3. p[l - 1] = p[j]
      BY <2>2
    <2>4. p[l].subject = p[j].subject
      BY <2>2, <2>3 DEF AnchoredPath, Signs, SelfSigned
    <2>5. p[l] = p[j]
      BY <2>2, <2>4, NamesTell
    <2> QED BY <2>1, <2>5
  <1>2. Len(p) \in j .. Len(p) /\ Len(p) \in 1 .. Len(p)
    BY <1>0
  <1>3. p[Len(p)] = p[j]
    BY <1>1, <1>2
  <1>4. a.subject = p[j].subject /\ a \in Anchors
    BY <1>3 DEF AnchoredPath, Signs, SelfSigned
  <1> QED BY <1>3, <1>4, NamesTell

\* What the store accepts is a path.
LEMMA AcceptedIsPath ==
  ASSUME IInv, NEW n \in 0 .. MaxDepth, NEW path \in [1 .. n -> ToSet(embedded)],
         StoreAccepts(<<chain[1]>> \o path, at)
  PROVE  \E a \in Anchors : AnchoredPath(<<chain[1]>> \o path, a)
  <1> DEFINE p == <<chain[1]>> \o path
  <1>0. MaxDepth \in Nat /\ path \in Seq(ToSet(embedded)) /\ Len(path) = n
    BY PathAssumption
  <1>1. /\ p \in Seq(ToSet(embedded) \cup {chain[1]}) /\ Len(p) = n + 1 /\ p[1] = chain[1]
        /\ \A k \in 2 .. n + 1 : p[k] = path[k - 1] /\ k - 1 \in 1 .. n
    BY <1>0
  <1>2. \A k \in 2 .. Len(p) : p[k] \in ToSet(embedded)
    BY <1>0, <1>1
  <1>3. Last(p) = p[Len(p)] /\ DOMAIN p = 1 .. Len(p) /\ Len(p) \in 1 .. MaxDepth + 1
    BY <1>0, <1>1 DEF Last
  <1> HIDE DEF p
  <1> QED BY <1>1, <1>2, <1>3 DEF StoreAccepts, AnchoredPath, p

\* The store accepts what the search found if it accepts any path.
LEMMA SearchFinds ==
  ASSUME RootsOnly, IInv, SearchInv, Unambiguous, ~RootKept, pc # "build",
         NEW p, NEW a, AnchoredPath(p, a)
  PROVE  StoreAccepts(chain, at)
  <1> DEFINE m == Len(chain)
             n == Len(p)
  <1>0. /\ m \in Nat /\ m >= 1 /\ Last(chain) = chain[m] /\ DOMAIN chain = 1 .. m
        /\ n \in Nat /\ n >= 1
    BY DEF IInv, TypeInv, Last, AnchoredPath
  <1>1. \A k \in 1 .. m : k <= n => p[k] = chain[k]
    BY PathsAgree
  <1>2. a \in Anchors /\ SelfSigned(a) /\ Signs(a, p[n])
    BY DEF RootsOnly, AnchoredPath
  <1>3. ASSUME m <= n, \E b \in Anchors : Signs(b, chain[m])
        PROVE  StoreAccepts(chain, at)
    <2>1. \A k \in 1 .. m - 1 : /\ k \in 1 .. m /\ k + 1 \in 1 .. m /\ k \in 1 .. n - 1
                                /\ k <= n /\ k + 1 <= n
      BY <1>0, <1>3
    <2>2. \A k \in 1 .. m - 1 : Signs(chain[k + 1], chain[k])
      BY <1>1, <2>1 DEF AnchoredPath
    <2>3. \A k \in 1 .. m : k \in 1 .. n /\ k <= n
      BY <1>0, <1>3
    <2>4. \A k \in 1 .. m : InTime(chain[k], at)
      BY <1>1, <2>3 DEF AnchoredPath
    <2> QED BY <1>0, <1>3, <2>2, <2>4 DEF StoreAccepts
  <1>4. CASE m = n
    <2>1. m \in 1 .. m /\ p[n] = chain[m]
      BY <1>0, <1>1, <1>4
    <2> QED BY <1>2, <1>3, <1>4, <2>1
  <1>5. CASE n < m
    <2>1. n \in 1 .. m - 1 /\ n \in 1 .. m /\ n + 1 \in 1 .. m
      BY <1>0, <1>5
    <2>2. p[n] = chain[n] /\ chain[n + 1].subject = chain[n].issuer
      BY <1>0, <1>1, <2>1 DEF SearchInv, Linked
    <2>3. a = chain[n + 1]
      BY <1>2, <2>1, <2>2, NamesTell DEF Signs
    <2>4. SelfSigned(chain[n + 1])
      BY <1>2, <2>3
    <2>5. n + 1 = m
      <3>1. ASSUME n + 1 # m PROVE FALSE
        <4>1. n + 1 \in 1 .. m - 1
          <5> HIDE DEF m, n
          <5> QED BY <1>0, <2>1, <3>1
        <4> QED BY <2>4, <4>1 DEF SearchInv, Linked
      <3> QED BY <3>1
    <2>6. SelfSigned(Last(chain)) /\ m # 1
      BY <1>0, <1>5, <2>4, <2>5
    <2>7. m = MaxDepth + 1
      BY <2>6 DEF SearchInv, Ended
    <2> QED BY <2>6, <2>7 DEF RootKept
  <1>6. CASE m < n
    <2>1. m \in 1 .. m /\ m \in 1 .. n /\ m \in 1 .. n - 1 /\ m + 1 \in 1 .. n
      BY <1>0, <1>6
    <2>2. p[m] = chain[m] /\ m <= n
      BY <1>0, <1>1, <1>6, <2>1
    <2>3. p[m + 1].subject = chain[m].issuer /\ Signs(p[m + 1], chain[m])
      BY <2>1, <2>2 DEF AnchoredPath, Signs
    <2>4. p[m + 1] \in ToSet(embedded)
      <3>1. m + 1 \in 2 .. n
        BY <1>0, <2>1
      <3> QED BY <3>1 DEF AnchoredPath
    <2>5. CASE m = 1 /\ SelfSigned(chain[1])
      <3>1. SelfSigned(p[m]) /\ p[m] = chain[m]
        BY <2>2, <2>5
      <3>2. a = p[m] /\ p[n] = p[m]
        BY <2>1, <3>1, RootEndsPath
      <3> QED BY <1>2, <1>3, <2>2, <3>1, <3>2
    <2>6. ASSUME NEW r \in ToSet(embedded), SelfSigned(r), r.subject = Last(chain).issuer
          PROVE  StoreAccepts(chain, at)
      <3>1. p[m + 1] = r
        BY <1>0, <2>3, <2>4, <2>6, NamesTell
      <3>2. a = p[m + 1]
        BY <2>1, <2>6, <3>1, RootEndsPath
      <3> QED BY <1>2, <1>3, <2>2, <2>3, <3>2
    <2>7. CASE ~SelfSigned(Last(chain)) /\ Issuers(Last(chain)) = {}
      <3>1. PICK k \in DOMAIN embedded : embedded[k] = p[m + 1]
        BY <2>4 DEF ToSet
      <3>2. embedded[k].serial = chain[m].serial
        BY <1>0, <2>3, <2>7, <3>1 DEF Issuers
      <3>3. p[m + 1] = chain[m]
        BY <2>1, <2>4, <3>1, <3>2, NamesTell
      <3> QED BY <1>0, <2>3, <2>7, <3>3 DEF SelfSigned
    <2>8. CASE m = MaxDepth + 1
      BY <1>0, <1>6, <2>8, PathAssumption DEF AnchoredPath
    <2> QED BY <1>0, <2>5, <2>6, <2>7, <2>8 DEF SearchInv, Ended
  <1> QED BY <1>0, <1>4, <1>5, <1>6

\* PathFoundIfUnambiguous: over a store of roots the greedy search finds a path of
\* embedded certificates whenever there is one, unless it kept the root.
THEOREM PathFoundCorrect ==
  ASSUME RootsOnly
  PROVE  Spec => []PathFoundIfUnambiguous
  <1>1. ASSUME IInv, SearchInv
        PROVE  PathFoundIfUnambiguous
    <2>1. SUFFICES ASSUME pc = "done", Unambiguous, ~RootKept
                   PROVE  anchored <=> PathExists
      BY DEF PathFoundIfUnambiguous
    <2>2. anchored = StoreAccepts(chain, at)
      BY <1>1, <2>1 DEF SearchInv
    <2>3. ASSUME StoreAccepts(chain, at)
          PROVE  PathExists
      <3> DEFINE n == Len(chain) - 1
                 path == [k \in 1 .. n |-> chain[k + 1]]
      <3>1. chain \in Seq(Certificate) /\ Len(chain) \in 1 .. MaxDepth + 1 /\ n \in 0 .. MaxDepth
        BY <1>1, PathAssumption DEF IInv, TypeInv, ChainInv
      <3>2. path \in [1 .. n -> ToSet(embedded)]
        <4>1. \A k \in 1 .. n : k + 1 \in 2 .. Len(chain)
          BY <3>1
        <4> QED BY <1>1, <4>1 DEF IInv, ChainInv
      <3>3. <<chain[1]>> \o path = chain
        <4>1. path \in Seq(Certificate) /\ Len(path) = n
          BY <3>1
        <4>2. \A k \in 1 .. n : path[k] = chain[k + 1]
          OBVIOUS
        <4> HIDE DEF path
        <4> QED BY <3>1, <4>1, <4>2
      <3> HIDE DEF n, path
      <3> QED BY <2>3, <3>1, <3>2, <3>3 DEF PathExists
    <2>4. ASSUME PathExists
          PROVE  StoreAccepts(chain, at)
      <3>1. PICK n \in 0 .. MaxDepth :
              \E path \in [1 .. n -> ToSet(embedded)] : StoreAccepts(<<chain[1]>> \o path, at)
        BY <2>4 DEF PathExists
      <3>2. PICK path \in [1 .. n -> ToSet(embedded)] : StoreAccepts(<<chain[1]>> \o path, at)
        BY <3>1
      <3> DEFINE p == <<chain[1]>> \o path
      <3>3. PICK a \in Anchors : AnchoredPath(p, a)
        BY <1>1, <3>2, AcceptedIsPath
      <3> HIDE DEF p
      <3> QED BY <1>1, <2>1, <3>3, SearchFinds
    <2>5. anchored \in BOOLEAN
      BY <1>1 DEF IInv, TypeInv
    <2> QED BY <2>2, <2>3, <2>4, <2>5
  <1> QED BY <1>1, Invariance, SearchInvariance, PTL

-----------------------------------------------------------------------------
(* Why validation ends *)

\* How many steps are left at most: the certificates the chain can still take,
\* one step to end the search and one at the store, a lookup for each certificate
\* and the conclusion.
StepsLeft ==
  CASE pc = "build"  -> (MaxDepth + 1 - Len(chain)) + (MaxDepth + 1) + 3
    [] pc = "store"  -> Len(chain) + 2
    [] pc = "lookup" -> (Len(chain) - Len(entries)) + 1
    [] OTHER         -> 0

\* What every way of going on makes of the numbers behind it.
LEMMA StepsOfValidate ==
  ASSUME IInv, Validate
  PROVE  \/ pc = "build" /\ pc' = "build" /\ Len(chain') = Len(chain) + 1
         \/ pc = "build" /\ pc' = "store" /\ Len(chain') <= Len(chain)
         \/ pc = "store" /\ pc' = "lookup" /\ chain' = chain /\ entries' = entries
         \/ /\ pc = "lookup" /\ pc' = "lookup" /\ chain' = chain
            /\ Len(entries) < Len(chain) /\ Len(entries') = Len(entries) + 1
         \/ pc \in {"store", "lookup"} /\ pc' = "done"
  <1>0. chain \in Seq(Certificate) /\ Len(chain) \in Nat /\ entries \in Seq(Entry)
        /\ embedded \in Seq(Certificate)
    BY DEF IInv, TypeInv
  <1>1. CASE FollowIssuer
    <2>1. PICK k \in Issuers(Current) : chain' = Append(chain, embedded[k])
      BY <1>1 DEF FollowIssuer
    <2>2. embedded[k] \in Certificate
      BY <1>0, <2>1 DEF Issuers
    <2>3. Len(chain') = Len(chain) + 1
      BY <1>0, <2>1, <2>2
    <2> QED BY <1>1, <2>3 DEF FollowIssuer
  <1>2. CASE StopAtRoot
    <2>1. Len(chain) > 1 => Len(Front(chain)) = Len(chain) - 1
      BY <1>0 DEF Front
    <2> QED BY <1>0, <1>2, <2>1 DEF StopAtRoot
  <1>3. CASE StopAtMissingIssuer \/ StopAtDepth
    BY <1>0, <1>3 DEF StopAtMissingIssuer, StopAtDepth
  <1>4. CASE CheckStore
    BY <1>4 DEF CheckStore
  <1>5. ASSUME NEW answered \in BOOLEAN, CheckCertificate(answered)
        PROVE  /\ pc = "lookup" /\ pc' = "lookup" /\ chain' = chain
               /\ Len(entries) < Len(chain) /\ Len(entries') = Len(entries) + 1
    <2>1. PICK e \in Entry : entries' = Append(entries, e)
      BY <1>5, DescribedEntry
    <2>2. Len(entries') = Len(entries) + 1
      BY ONLY <1>0, <2>1
    <2> QED BY <1>5, <2>2 DEF CheckCertificate
  <1>6. CASE Conclude
    BY <1>6 DEF Conclude
  <1> QED BY <1>1, <1>2, <1>3, <1>4, <1>5, <1>6 DEF Validate

\* The safety half of Terminates, for any embedded certificates, circles among
\* them, and any depth: every step of the validation leaves fewer to go, and
\* revocations meanwhile add none.
THEOREM StepsBounded == Spec => [][/\ StepsLeft' \in Nat
                                   /\ Validate => StepsLeft' < StepsLeft
                                   /\ Revoke => StepsLeft' = StepsLeft]_vars
  <1>1. ASSUME IInv, IInv', [Next]_vars
        PROVE  [/\ StepsLeft' \in Nat
                /\ Validate => StepsLeft' < StepsLeft
                /\ Revoke => StepsLeft' = StepsLeft]_vars
    <2>1. /\ MaxDepth \in Nat /\ Len(chain) \in Nat /\ Len(chain') \in Nat
          /\ Len(entries) \in Nat /\ Len(entries') \in Nat
          /\ Len(chain) <= MaxDepth + 1 /\ Len(chain') <= MaxDepth + 1
          /\ Len(entries) <= Len(chain) /\ Len(entries') <= Len(chain')
      BY <1>1, PathAssumption DEF IInv, TypeInv, ChainInv, EntriesInv
    <2>2. StepsLeft' \in Nat
      BY <2>1 DEF StepsLeft
    <2>3. ASSUME Validate PROVE StepsLeft' < StepsLeft
      BY <1>1, <2>1, <2>3, StepsOfValidate DEF StepsLeft
    <2>4. ASSUME Revoke PROVE StepsLeft' = StepsLeft
      BY <2>4 DEF Revoke, StepsLeft
    <2> QED BY <2>2, <2>3, <2>4
  <1> QED BY <1>1, Invariance, PTL DEF Spec
=============================================================================
