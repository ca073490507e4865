-------------------------- MODULE DssCollectionProofs --------------------------
(***************************************************************************)
(* GapsOnlyWhereBothFailed of DssCollection for any chains, however many   *)
(* collections run, CAs update and callers give up: what is collected      *)
(* stays, and an answer is never from before its call.  Then DssReadsBack, *)
(* for any number of DSSs built meanwhile: the streams of a document only  *)
(* become more, and the builder has what it had.                           *)
(***************************************************************************)
EXTENDS DssCollection, TLAPS, FiniteSetTheorems, WellFoundedInduction

Der == [kind : {"ocsp", "crl"}, of : Certificates, number : Nat]

\* What the argument needs to know of the variables' types.
TypeInv ==
  /\ number \in [Cas -> Nat]
  /\ builder.ocsps \in Seq(Der) /\ builder.crls \in Seq(Der)
  /\ builder = Material(builder, builder.vri)
  /\ job \in [chain : Chains \cup {<<>>}, at : Nat, waits : {"nothing", "ocsp", "crl", "returned"},
              since : [Cas -> Nat], unanswered : SUBSET Certificates]

\* A job that awaits an answer is at a certificate that has an issuer; CAs never
\* go back; and what lies behind the job is answered.
JobInv ==
  /\ job.waits \in {"ocsp", "crl"} => 1 <= job.at /\ job.at < Len(job.chain)
  /\ job.waits = "returned" => job.at >= Len(job.chain)
  /\ \A ca \in Cas : job.since[ca] <= number[ca]
  /\ job.waits # "nothing" =>
       \A k \in 1 .. Len(job.chain) - 1 : k < job.at => Answered(k)

IInv == TypeInv /\ JobInv

-----------------------------------------------------------------------------
\* Certificates that follow another one in a chain are CAs.
LEMMA ChainFacts ==
  ASSUME NEW c \in Chains \cup {<<>>}
  PROVE  /\ c \in Seq(Certificates)
         /\ \A k \in 1 .. Len(c) - 1 : c[k] \in Certificates /\ c[k + 1] \in Cas \cap Certificates
  <1>1. c \in Seq(Certificates)
    <2>1. CASE c \in Chains
      BY <2>1, DssAssumption
    <2>2. CASE c = <<>>
      BY <2>2
    <2> QED BY <2>1, <2>2
  <1>2. ASSUME NEW k \in 1 .. Len(c) - 1 PROVE c[k] \in Certificates /\ c[k + 1] \in Cas
    <2>1. c # <<>> /\ c \in Chains
      BY <1>1, <1>2
    <2>2. k \in DOMAIN Tail(c) /\ Tail(c)[k] = c[k + 1]
      BY <1>1, <1>2, <2>1
    <2>3. c[k + 1] \in ToSet(Tail(c))
      BY <2>2 DEF ToSet
    <2> QED BY <1>1, <1>2, <2>1, <2>3 DEF Cas
  <1>3. ASSUME NEW k \in 1 .. Len(c) - 1 PROVE c[k + 1] \in Certificates
    BY <1>1, <1>3
  <1> QED BY <1>1, <1>2, <1>3

\* Appending keeps what is there and adds what is appended.
LEMMA AppendFacts ==
  ASSUME NEW S, NEW s \in Seq(S), NEW e \in S
  PROVE  /\ Append(s, e) \in Seq(S)
         /\ ToSet(Append(s, e)) = ToSet(s) \cup {e}
  <1>1. Append(s, e) \in Seq(S) /\ Len(Append(s, e)) = Len(s) + 1
        /\ Append(s, e)[Len(s) + 1] = e
        /\ \A i \in 1 .. Len(s) : Append(s, e)[i] = s[i]
    OBVIOUS
  <1>2. DOMAIN s = 1 .. Len(s) /\ DOMAIN Append(s, e) = 1 .. Len(s) + 1
    BY <1>1
  <1> QED BY <1>1, <1>2 DEF ToSet

\* add_crl keeps what is there and sees to it that the CRL is among them.
LEMMA AddCrlFacts ==
  ASSUME NEW S, NEW s \in Seq(S), NEW crl \in S
  PROVE  /\ AddCrl(s, crl) \in Seq(S)
         /\ ToSet(AddCrl(s, crl)) = ToSet(s) \cup {crl}
  <1>1. CASE crl \in ToSet(s)
    BY <1>1 DEF AddCrl, AddDeduped
  <1>2. CASE crl \notin ToSet(s)
    BY <1>2, AppendFacts DEF AddCrl, AddDeduped
  <1> QED BY <1>1, <1>2

\* What is answered stays so while the job goes on, the builder keeps what it
\* has, and CAs only add to what they say.
LEMMA AnsweredStays ==
  ASSUME TypeInv, TypeInv',
         job'.chain = job.chain, job'.since = job.since, job.unanswered \subseteq job'.unanswered,
         ToSet(builder.ocsps) \subseteq ToSet(builder'.ocsps),
         ToSet(builder.crls) \subseteq ToSet(builder'.crls),
         \A ca \in Cas : number[ca] <= number'[ca],
         NEW k \in 1 .. Len(job.chain) - 1, Answered(k)
  PROVE  Answered(k)'
  <1> DEFINE cert == job.chain[k]
             ca   == job.chain[k + 1]
  <1>1. ca \in Cas
    BY ChainFacts DEF TypeInv
  <1>2. job.since[ca] .. number[ca] \subseteq job'.since[ca] .. number'[ca]
    BY <1>1 DEF TypeInv
  <1>3. CASE cert \in job.unanswered
    BY <1>3 DEF Answered
  <1>4. ASSUME NEW n \in job.since[ca] .. number[ca],
               Ocsp(cert, n) \in ToSet(builder.ocsps) \/ Crl(ca, n) \in ToSet(builder.crls)
        PROVE  Answered(k)'
    <2>1. n \in job'.since[ca] .. number'[ca]
      BY <1>2, <1>4
    <2>2. Ocsp(cert, n) \in ToSet(builder'.ocsps) \/ Crl(ca, n) \in ToSet(builder'.crls)
      BY <1>4
    <2> QED BY <2>1, <2>2 DEF Answered, Ocsp, Crl
  <1> QED BY <1>3, <1>4 DEF Answered

-----------------------------------------------------------------------------
\* With nothing collected the invariant holds.
LEMMA InitInv == Init => IInv
  BY DEF Init, IInv, TypeInv, JobInv, Job, Material, VriEntry, Der

\* Starting a collection for a chain keeps it.
LEMMA CollectInv ==
  ASSUME IInv, NEW chain \in Chains, CollectValidationData(chain)
  PROVE  IInv'
  <1>1. job' = [chain |-> chain, at |-> 1, waits |-> GoOn(chain, 1), since |-> number,
                unanswered |-> {}]
    BY DEF CollectValidationData, Job
  <1>2. chain \in Seq(Certificates) /\ Len(chain) \in Nat
    BY ChainFacts
  <1>3. GoOn(chain, 1) \in {"ocsp", "returned"} /\ (GoOn(chain, 1) = "ocsp" <=> 1 < Len(chain))
    BY DEF GoOn
  <1>4. builder'.ocsps = builder.ocsps /\ builder'.crls = builder.crls
        /\ builder' = Material(builder', builder'.vri)
    BY DEF IInv, TypeInv, CollectValidationData, Material
  <1>5. TypeInv'
    BY <1>1, <1>3, <1>4 DEF IInv, TypeInv, CollectValidationData
  <1>6. JobInv'
    BY <1>1, <1>2, <1>3 DEF IInv, TypeInv, JobInv, CollectValidationData
  <1> QED BY <1>5, <1>6 DEF IInv

\* A step that answers for the certificate the job is at, or notes that nobody
\* did, moves the job on.
LEMMA ProceedInv ==
  ASSUME IInv, job.waits \in {"ocsp", "crl"}, TypeInv', number' = number,
         NEW unanswered, job.unanswered \subseteq unanswered, Proceed(unanswered),
         ToSet(builder.ocsps) \subseteq ToSet(builder'.ocsps),
         ToSet(builder.crls) \subseteq ToSet(builder'.crls),
         \A k \in 1 .. Len(job.chain) - 1 : k = job.at => Answered(k)'
  PROVE  JobInv'
  <1>1. /\ job'.chain = job.chain /\ job'.since = job.since /\ job'.unanswered = unanswered
        /\ job'.at = job.at + 1 /\ job'.waits = GoOn(job.chain, job.at + 1)
    BY DEF Proceed, IInv, TypeInv
  <1>2. job.chain \in Seq(Certificates) /\ Len(job.chain) \in Nat /\ job.at \in Nat
    BY ChainFacts DEF IInv, TypeInv
  <1>3. 1 <= job.at /\ job.at < Len(job.chain)
    BY DEF IInv, JobInv
  <1>4. ASSUME NEW k \in 1 .. Len(job.chain) - 1, k < job.at + 1 PROVE Answered(k)'
    <2>1. CASE k = job.at
      BY <1>4, <2>1
    <2>2. CASE k < job.at
      <3>1. Answered(k)
        BY <1>4, <2>2 DEF IInv, JobInv
      <3>2. \A ca \in Cas : number[ca] <= number'[ca]
        BY DEF IInv, TypeInv
      <3> QED BY <1>1, <1>4, <3>1, <3>2, AnsweredStays DEF IInv
    <2> QED BY <1>2, <1>4, <2>1, <2>2
  <1>5. /\ job'.waits \in {"ocsp", "returned"}
        /\ job'.waits = "ocsp" <=> job.at + 1 < Len(job.chain)
    BY <1>1 DEF GoOn
  <1> QED BY <1>1, <1>2, <1>3, <1>4, <1>5 DEF JobInv, IInv

\* Moving on keeps a job a job.
LEMMA ProceedType ==
  ASSUME TypeInv, NEW unanswered \in SUBSET Certificates, Proceed(unanswered)
  PROVE  job' \in [chain : Chains \cup {<<>>}, at : Nat,
                   waits : {"nothing", "ocsp", "crl", "returned"},
                   since : [Cas -> Nat], unanswered : SUBSET Certificates]
  <1>1. GoOn(job.chain, job.at + 1) \in {"ocsp", "returned"}
    BY DEF GoOn
  <1>2. job.at + 1 \in Nat
    BY DEF TypeInv
  <1> QED BY <1>1, <1>2 DEF TypeInv, Proceed

\* An OCSP answer keeps it,
LEMMA OcspAnswersInv == ASSUME IInv, OcspAnswers PROVE IInv'
  <1> DEFINE cert == job.chain[job.at]
             ca   == job.chain[job.at + 1]
             der  == Ocsp(cert, number[ca])
  <1>1. 1 <= job.at /\ job.at < Len(job.chain) /\ job.waits = "ocsp"
    BY DEF IInv, JobInv, OcspAnswers
  <1>2. cert \in Certificates /\ ca \in Cas /\ job.at \in 1 .. Len(job.chain) - 1
    BY <1>1, ChainFacts DEF IInv, TypeInv
  <1>3. der \in Der /\ number[ca] \in Nat
    BY <1>2 DEF IInv, TypeInv, Der, Ocsp
  <1>4. /\ builder'.ocsps = Append(builder.ocsps, der) /\ builder'.crls = builder.crls
        /\ builder' = Material(builder', builder'.vri)
    BY DEF IInv, TypeInv, OcspAnswers, Issuer, Material
  <1>5. /\ builder'.ocsps \in Seq(Der)
        /\ ToSet(builder'.ocsps) = ToSet(builder.ocsps) \cup {der}
    BY <1>3, <1>4, AppendFacts DEF IInv, TypeInv
  <1>6. TypeInv'
    <2>1. job.unanswered \in SUBSET Certificates /\ Proceed(job.unanswered) /\ number' = number
      BY DEF IInv, TypeInv, OcspAnswers
    <2> QED BY <1>4, <1>5, <2>1, ProceedType DEF IInv, TypeInv
  <1>7. ASSUME NEW k \in 1 .. Len(job.chain) - 1, k = job.at PROVE Answered(k)'
    <2>1. number[ca] \in job'.since[ca] .. number'[ca] /\ job'.chain = job.chain
      BY <1>2, <1>3 DEF IInv, TypeInv, JobInv, OcspAnswers, Proceed
    <2> QED BY <1>5, <1>7, <2>1 DEF Answered, Ocsp, OcspAnswers
  <1>8. JobInv'
    BY <1>1, <1>4, <1>5, <1>6, <1>7, ProceedInv DEF OcspAnswers
  <1> QED BY <1>6, <1>8 DEF IInv

\* a CRL answer,
LEMMA CrlAnswersInv == ASSUME IInv, CrlAnswers PROVE IInv'
  <1> DEFINE ca  == job.chain[job.at + 1]
             der == Crl(ca, number[ca])
  <1>1. 1 <= job.at /\ job.at < Len(job.chain) /\ job.waits = "crl"
    BY DEF IInv, JobInv, CrlAnswers
  <1>2. ca \in Cas \cap Certificates /\ job.at \in 1 .. Len(job.chain) - 1
    BY <1>1, ChainFacts DEF IInv, TypeInv
  <1>3. der \in Der /\ number[ca] \in Nat
    BY <1>2 DEF IInv, TypeInv, Der, Crl
  <1>4. /\ builder'.crls = AddCrl(builder.crls, der) /\ builder'.ocsps = builder.ocsps
        /\ builder' = Material(builder', builder'.vri)
    BY DEF IInv, TypeInv, CrlAnswers, Issuer, Material
  <1>5. /\ builder'.crls \in Seq(Der)
        /\ ToSet(builder'.crls) = ToSet(builder.crls) \cup {der}
    BY <1>3, <1>4, AddCrlFacts DEF IInv, TypeInv
  <1>6. TypeInv'
    <2>1. job.unanswered \in SUBSET Certificates /\ Proceed(job.unanswered) /\ number' = number
      BY DEF IInv, TypeInv, CrlAnswers
    <2> QED BY <1>4, <1>5, <2>1, ProceedType DEF IInv, TypeInv
  <1>7. ASSUME NEW k \in 1 .. Len(job.chain) - 1, k = job.at PROVE Answered(k)'
    <2>1. number[ca] \in job'.since[ca] .. number'[ca] /\ job'.chain = job.chain
      BY <1>2, <1>3 DEF IInv, TypeInv, JobInv, CrlAnswers, Proceed
    <2> QED BY <1>5, <1>7, <2>1 DEF Answered, Crl, CrlAnswers
  <1>8. JobInv'
    BY <1>1, <1>4, <1>5, <1>6, <1>7, ProceedInv DEF CrlAnswers
  <1> QED BY <1>6, <1>8 DEF IInv

\* the failure of both sources,
LEMMA NoCrlInv == ASSUME IInv, NoCrl PROVE IInv'
  <1> DEFINE cert == job.chain[job.at]
  <1>1. 1 <= job.at /\ job.at < Len(job.chain) /\ job.waits = "crl"
    BY DEF IInv, JobInv, NoCrl
  <1>2. cert \in Certificates
    BY <1>1, ChainFacts DEF IInv, TypeInv
  <1>3. TypeInv'
    <2>1. /\ job.unanswered \cup {cert} \in SUBSET Certificates
          /\ Proceed(job.unanswered \cup {cert})
          /\ number' = number /\ builder' = builder
      BY <1>2 DEF IInv, TypeInv, NoCrl
    <2> QED BY <2>1, ProceedType DEF IInv, TypeInv
  <1>4. ASSUME NEW k \in 1 .. Len(job.chain) - 1, k = job.at PROVE Answered(k)'
    BY <1>4 DEF IInv, TypeInv, Answered, NoCrl, Proceed
  <1>5. JobInv'
    BY <1>1, <1>3, <1>4, ProceedInv DEF NoCrl
  <1> QED BY <1>3, <1>5 DEF IInv

\* A failed OCSP request, and a caller that gives up, leave the collected
\* material alone.
LEMMA WaitInv ==
  ASSUME IInv, OcspFails \/ GiveUp
  PROVE  IInv'
  <1>1. builder' = builder /\ number' = number
        /\ \E w \in {"crl", "nothing"} : job' = [job EXCEPT !.waits = w]
    BY DEF OcspFails, GiveUp
  <1>2. /\ job'.chain = job.chain /\ job'.since = job.since /\ job'.unanswered = job.unanswered
        /\ job'.at = job.at /\ job'.waits \in {"crl", "nothing"} /\ job.waits \in {"ocsp", "crl"}
    BY <1>1 DEF IInv, TypeInv, OcspFails, GiveUp
  <1>3. TypeInv'
    BY <1>1, <1>2 DEF IInv, TypeInv
  <1>4. \A k \in 1 .. Len(job.chain) - 1 : Answered(k)' <=> Answered(k)
    BY <1>1, <1>2 DEF Answered, Ocsp, Crl
  <1>5. JobInv'
    BY <1>1, <1>2, <1>4 DEF IInv, JobInv
  <1> QED BY <1>3, <1>5 DEF IInv

\* and an authority that publishes again.
LEMMA UpdateCaInv ==
  ASSUME IInv, NEW c \in Cas, UpdateCa(c)
  PROVE  IInv'
  <1>1. number' = [number EXCEPT ![c] = @ + 1] /\ job' = job /\ builder' = builder
    BY DEF UpdateCa
  <1>2. TypeInv'
    BY <1>1 DEF IInv, TypeInv
  <1>3. \A ca \in Cas : number[ca] <= number'[ca]
    BY <1>1 DEF IInv, TypeInv
  <1>4. \A ca \in Cas : job'.since[ca] <= number'[ca]
    BY <1>1, <1>2, <1>3 DEF IInv, TypeInv, JobInv
  <1>5. ASSUME NEW k \in 1 .. Len(job.chain) - 1, Answered(k) PROVE Answered(k)'
    BY <1>1, <1>2, <1>3, <1>5, AnsweredStays DEF IInv
  <1>6. JobInv'
    BY <1>1, <1>4, <1>5 DEF IInv, JobInv
  <1> QED BY <1>2, <1>6 DEF IInv

\* VRI entries and DSS dictionaries are beside the point.
LEMMA OtherInv ==
  ASSUME IInv, \/ \E signature \in Signatures, entry \in {Collected, Unusable} :
                    AddVriEntry(signature, entry)
               \/ BuildDssDict
               \/ UNCHANGED vars
  PROVE  IInv'
  <1>1. /\ job' = job /\ number' = number
        /\ builder'.ocsps = builder.ocsps /\ builder'.crls = builder.crls
        /\ builder' = Material(builder', builder'.vri)
    <2>1. CASE \E signature \in Signatures, entry \in {Collected, Unusable} :
                 AddVriEntry(signature, entry)
      BY <2>1 DEF IInv, TypeInv, AddVriEntry, Material
    <2>2. CASE BuildDssDict
      BY <2>2 DEF IInv, TypeInv, BuildDssDict
    <2>3. CASE UNCHANGED vars
      BY <2>3 DEF IInv, TypeInv, vars
    <2> QED BY <2>1, <2>2, <2>3
  <1>2. TypeInv'
    BY <1>1 DEF IInv, TypeInv
  <1>3. \A k \in 1 .. Len(job.chain) - 1 : Answered(k)' <=> Answered(k)
    BY <1>1 DEF Answered, Ocsp, Crl
  <1>4. JobInv'
    BY <1>1, <1>3 DEF IInv, JobInv
  <1> QED BY <1>2, <1>4 DEF IInv

-----------------------------------------------------------------------------
\* However collections, failures, updates of CAs and builds follow each other,
\* everything behind the running collection is answered.
THEOREM Invariance == Spec => []IInv
  <1>1. ASSUME IInv, [Next]_vars PROVE IInv'
    BY <1>1, CollectInv, OcspAnswersInv, CrlAnswersInv, NoCrlInv, WaitInv, UpdateCaInv, OtherInv
    DEF Next
  <1> QED BY InitInv, <1>1, PTL DEF Spec

\* A collection that returns has left no gap but where both requests failed, for
\* chains of any length.
THEOREM GapsCorrect == Spec => []GapsOnlyWhereBothFailed
  <1>1. ASSUME IInv PROVE GapsOnlyWhereBothFailed
    <2> SUFFICES ASSUME job.waits = "returned", NEW k \in 1 .. Len(job.chain) - 1
                 PROVE  Answered(k)
      BY DEF GapsOnlyWhereBothFailed
    <2>1. Len(job.chain) \in Nat /\ job.at \in Nat /\ job.at >= Len(job.chain)
      BY <1>1, ChainFacts DEF IInv, TypeInv, JobInv
    <2>2. k < job.at
      BY <2>1
    <2> QED BY <1>1, <2>2 DEF IInv, JobInv
  <1> QED BY <1>1, Invariance, PTL

-----------------------------------------------------------------------------
(* A builder, and the DSSs that are written from it *)

\* What the builder keeps: material of certificates, or nothing.
Item == [kind : {"cert", "ocsp", "crl", "empty"}, of : Certificates \cup {"nothing"}, number : Nat]

\* t has what s has, and perhaps more behind it.
Extends(t, s) == Len(s) <= Len(t) /\ \A i \in 1 .. Len(s) : t[i] = s[i]

\* The stream behind each reference holds the element of ders at its place.
Holds(objects, refs, ders) ==
  /\ DOMAIN refs = DOMAIN ders
  /\ \A j \in DOMAIN ders : refs[j] \in DOMAIN objects /\ objects[refs[j]] = ders[j]

HoldsEntry(objects, refs, e) ==
  /\ Holds(objects, refs.certs, e.certs)
  /\ Holds(objects, refs.ocsps, e.ocsps)
  /\ Holds(objects, refs.crls, e.crls)

HoldsDss(objects, dss, from) ==
  /\ HoldsEntry(objects, dss, from)
  /\ DOMAIN dss.vri = DOMAIN from.vri
  /\ \A s \in DOMAIN from.vri : HoldsEntry(objects, dss.vri[s], from.vri[s])

\* The three lists of a builder or of an entry.
Lists(e, S) == e.certs \in Seq(S) /\ e.ocsps \in Seq(S) /\ e.crls \in Seq(S)

\* What a build is made from.
Buildable(b) ==
  /\ Lists(b, Item)
  /\ IsFiniteSet(DOMAIN b.vri)
  /\ \A s \in DOMAIN b.vri : Lists(b.vri[s], Item)

\* c has what b has, and perhaps more.
Grown(c, b) ==
  /\ Extends(c.certs, b.certs) /\ Extends(c.ocsps, b.ocsps) /\ Extends(c.crls, b.crls)
  /\ DOMAIN b.vri \subseteq DOMAIN c.vri

\* Streams once written stay, and the references of every DSS lead to what it was
\* built from; the builder has grown from one build to the next, and since.
DssInv ==
  /\ Buildable(builder)
  /\ streams \in Seq(Item)
  /\ \E S : builds \in Seq(S)
  /\ \A k \in 1 .. Len(builds) :
       /\ Buildable(builds[k].from)
       /\ HoldsDss(streams, builds[k].dss, builds[k].from)
       /\ Grown(builder, builds[k].from)
       /\ \A l \in k .. Len(builds) : Grown(builds[l].from, builds[k].from)

-----------------------------------------------------------------------------
\* A set of numbers that is not empty has a least element.
LEMMA LeastElement ==
  ASSUME NEW T, T \subseteq Nat, T # {}
  PROVE  \E x \in T : \A y \in T : x <= y
  <1> DEFINE R == OpToRel(<, Nat)
  <1>1. \E x \in T : \A y \in T : ~(<<y, x>> \in R)
    <2>1. IsWellFoundedOn(R, Nat)
      BY NatLessThanWellFounded
    <2> HIDE DEF R
    <2> QED BY <2>1, WFMin
  <1>2. \E x \in T : \A y \in T : ~(y < x)
    BY <1>1 DEF OpToRel
  <1> HIDE DEF R
  <1> QED BY <1>2

\* What holds at 0, and at k if it does at k - 1, holds up to n.
LEMMA UpTo ==
  ASSUME NEW n \in Nat, NEW T, 0 \in T, \A k \in 1 .. n : k - 1 \in T => k \in T
  PROVE  \A k \in 0 .. n : k \in T
  <1> DEFINE Bad == {k \in 0 .. n : k \notin T}
  <1>1. SUFFICES ASSUME Bad # {} PROVE FALSE
    OBVIOUS
  <1>2. PICK k \in Bad : \A m \in Bad : k <= m
    <2>1. Bad \subseteq Nat
      OBVIOUS
    <2> HIDE DEF Bad
    <2> QED BY <1>1, <2>1, LeastElement
  <1>3. k \in 1 .. n /\ k - 1 \in 0 .. n /\ ~(k <= k - 1)
    BY <1>2
  <1>4. k - 1 \in T
    BY <1>2, <1>3
  <1> QED BY <1>2, <1>3, <1>4

\* e begins with base and goes on from one element to the next as f says.
Recursion(e, n, V, base, f) ==
  /\ e \in [0 .. n -> V]
  /\ e[0] = base
  /\ \A k \in 1 .. n : e[k] = f[<<k, e[k - 1]>>]

\* A recursion over 0 .. n whose steps stay in V has a solution, with values in V.
LEMMA RecursionExists ==
  ASSUME NEW n \in Nat, NEW V, NEW base \in V, NEW f, f \in [(1 .. n) \X V -> V]
  PROVE  \E e : Recursion(e, n, V, base, f)
  <1> DEFINE Solves(e, m) == e[0] = base /\ \A k \in 1 .. m : e[k] = f[<<k, e[k - 1]>>]
             T == {m \in 0 .. n : \E e \in [0 .. m -> V] : Solves(e, m)}
  <1>1. 0 \in T
    <2> DEFINE e == [i \in 0 .. 0 |-> base]
    <2>1. e \in [0 .. 0 -> V] /\ e[0] = base
      OBVIOUS
    <2>2. 1 .. 0 = {} /\ 0 \in 0 .. n
      OBVIOUS
    <2> HIDE DEF e
    <2>3. Solves(e, 0)
      BY <2>1, <2>2
    <2> HIDE DEF Solves
    <2> QED BY <2>1, <2>2, <2>3
  <1>2. ASSUME NEW m \in 1 .. n, m - 1 \in T PROVE m \in T
    <2>1. PICK old \in [0 .. m - 1 -> V] : Solves(old, m - 1)
      <3> HIDE DEF Solves
      <3> QED BY <1>2
    <2>0. m - 1 \in 0 .. m - 1 /\ 0 \in 0 .. m - 1 /\ m \in 0 .. n /\ m \notin 0 .. m - 1
          /\ 0 .. m = (0 .. m - 1) \cup {m}
      OBVIOUS
    <2> DEFINE last == f[<<m, old[m - 1]>>]
               e == [i \in 0 .. m |-> IF i = m THEN last ELSE old[i]]
    <2>2. last \in V
      <3>1. old[m - 1] \in V
        BY <2>0
      <3>2. <<m, old[m - 1]>> \in (1 .. n) \X V
        BY <3>1
      <3> QED BY <3>2
    <2> HIDE DEF last
    <2>3. e \in [0 .. m -> V] /\ e[m] = last /\ \A i \in 0 .. m - 1 : e[i] = old[i]
      BY <2>0, <2>2
    <2> HIDE DEF e
    <2>4. e[0] = base
      BY <2>0, <2>1, <2>3
    <2>5. ASSUME NEW k \in 1 .. m PROVE e[k] = f[<<k, e[k - 1]>>]
      <3>1. k - 1 \in 0 .. m - 1
        OBVIOUS
      <3>2. CASE k = m
        BY <2>3, <3>1, <3>2 DEF last
      <3>3. CASE k # m
        <4>1. k \in 1 .. m - 1 /\ k \in 0 .. m - 1
          BY <3>3
        <4> QED BY <2>1, <2>3, <3>1, <4>1
      <3> QED BY <3>2, <3>3
    <2>6. Solves(e, m)
      BY <2>4, <2>5
    <2> HIDE DEF Solves
    <2> QED BY <2>0, <2>3, <2>6
  <1>3. n \in T
    <2>1. n \in 0 .. n
      OBVIOUS
    <2> HIDE DEF T
    <2> QED BY <2>1, <1>1, <1>2, UpTo
  <1> QED BY <1>3 DEF Recursion

\* Extending is reflexive.
LEMMA ExtendsSelf ==
  ASSUME NEW S, NEW s \in Seq(S)
  PROVE  Extends(s, s)
  BY DEF Extends

\* Extending is transitive.
LEMMA ExtendsFurther ==
  ASSUME NEW S, NEW s \in Seq(S), NEW t \in Seq(S), NEW u \in Seq(S), Extends(t, s), Extends(u, t)
  PROVE  Extends(u, s)
  <1>1. Len(s) \in Nat /\ Len(t) \in Nat /\ Len(u) \in Nat
    OBVIOUS
  <1> QED BY <1>1 DEF Extends

\* An appended element extends.
LEMMA ExtendsAppend ==
  ASSUME NEW S, NEW s \in Seq(S), NEW e \in S
  PROVE  Append(s, e) \in Seq(S) /\ Extends(Append(s, e), s)
  <1>1. Append(s, e) \in Seq(S) /\ Len(Append(s, e)) = Len(s) + 1
        /\ \A i \in 1 .. Len(s) : Append(s, e)[i] = s[i]
    OBVIOUS
  <1> QED BY <1>1 DEF Extends

\* For sequences, it is IsPrefix.
LEMMA ExtendsIsPrefix ==
  ASSUME NEW S, NEW s \in Seq(S), NEW t \in Seq(S), Extends(t, s)
  PROVE  IsPrefix(s, t)
  <1>1. Len(s) \in Nat /\ Len(t) \in Nat /\ Len(s) <= Len(t)
    BY DEF Extends
  <1>2. SubSeq(s, 1, Len(s)) = [i \in 1 .. Len(s) |-> s[i]]
    BY <1>1
  <1>3. SubSeq(t, 1, Len(s)) = [i \in 1 .. Len(s) |-> t[i]]
    BY <1>1
  <1>4. [i \in 1 .. Len(s) |-> s[i]] = [i \in 1 .. Len(s) |-> t[i]]
    BY DEF Extends
  <1> QED BY <1>1, <1>2, <1>3, <1>4 DEF IsPrefix

-----------------------------------------------------------------------------
\* e lists, for every prefix of s, its elements that hold data.
Keeps(e, s, S) ==
  /\ e \in [0 .. Len(s) -> Seq(S)] /\ e[0] = <<>>
  /\ \A k \in 1 .. Len(s) : e[k] = IF IsData(s[k]) THEN Append(e[k - 1], s[k]) ELSE e[k - 1]

\* The recursion that WithData is defined by has a solution.
LEMMA WithDataRecursion ==
  ASSUME NEW S, NEW s \in Seq(S)
  PROVE  \E e : Keeps(e, s, S) /\ WithData(s) = e[Len(s)]
  <1> DEFINE n == Len(s)
             F(g) == [k \in 0 .. Len(s) |->
                        IF k = 0 THEN <<>>
                                 ELSE IF IsData(s[k]) THEN Append(g[k - 1], s[k]) ELSE g[k - 1]]
             f == [p \in (1 .. n) \X Seq(S) |->
                     IF IsData(s[p[1]]) THEN Append(p[2], s[p[1]]) ELSE p[2]]
  <1>1. f \in [(1 .. n) \X Seq(S) -> Seq(S)] /\ n \in Nat /\ <<>> \in Seq(S)
    OBVIOUS
  <1>2. \A k \in 1 .. n, v \in Seq(S) : f[<<k, v>>] = IF IsData(s[k]) THEN Append(v, s[k]) ELSE v
    OBVIOUS
  <1> HIDE DEF f
  <1>3. PICK e \in [0 .. n -> Seq(S)] : e[0] = <<>> /\ \A k \in 1 .. n : e[k] = f[<<k, e[k - 1]>>]
    <2> DEFINE V == Seq(S)
               base == <<>>
    <2>1. n \in Nat /\ base \in V /\ f \in [(1 .. n) \X V -> V]
      BY <1>1
    <2> HIDE DEF n, V, base
    <2>2. \E e : Recursion(e, n, V, base, f)
      BY <2>1, RecursionExists
    <2> QED BY <2>2 DEF V, base, Recursion
  <1>4. \A k \in 1 .. n : e[k - 1] \in Seq(S)
    BY <1>1
  <1>5. \A k \in 1 .. n : e[k] = IF IsData(s[k]) THEN Append(e[k - 1], s[k]) ELSE e[k - 1]
    BY <1>2, <1>3, <1>4
  <1>6. e = F(e)
    <2>1. ASSUME NEW k \in 0 .. Len(s) PROVE e[k] = F(e)[k]
      <3>1. k = 0 \/ k \in 1 .. n
        BY <1>1
      <3> QED BY <1>3, <1>5, <3>1
    <2>2. e = [k \in 0 .. Len(s) |-> e[k]] /\ F(e) = [k \in 0 .. Len(s) |-> F(e)[k]]
      OBVIOUS
    <2> QED BY <2>1, <2>2
  <1> DEFINE r == CHOOSE g : g = F(g)
  <1>7. WithData(s) = r[Len(s)]
    BY DEF WithData
  <1>8. r = F(r)
    <2> HIDE DEF F
    <2> QED BY <1>6
  <1> HIDE DEF r
  <1>9. r[0] = <<>>
    BY <1>1, <1>8
  <1>10. \A k \in 1 .. n : r[k] = IF IsData(s[k]) THEN Append(r[k - 1], s[k]) ELSE r[k - 1]
    <2> TAKE k \in 1 .. n
    <2>1. k \in 0 .. Len(s) /\ k # 0
      BY <1>1
    <2>2. r[k] = F(r)[k]
      BY <1>8
    <2> QED BY <2>1, <2>2
  <1>11. \A k \in 0 .. n : r[k] = e[k]
    <2> DEFINE T == {k \in 0 .. n : r[k] = e[k]}
    <2>1. 0 \in T
      <3>1. 0 \in 0 .. n /\ r[0] = e[0]
        BY <1>1, <1>3, <1>9
      <3> HIDE DEF n
      <3> QED BY <3>1
    <2>2. \A k \in 1 .. n : k - 1 \in T => k \in T
      BY <1>1, <1>5, <1>10
    <2> HIDE DEF T
    <2>3. \A k \in 0 .. n : k \in T
      BY <1>1, <2>1, <2>2, UpTo
    <2> QED BY <2>3 DEF T
  <1>12. n \in 0 .. n
    BY <1>1
  <1> QED BY <1>3, <1>5, <1>7, <1>11, <1>12 DEF Keeps

\* Skipping what holds no data is monotone: a longer list reads as a longer one.
LEMMA WithDataExtends ==
  ASSUME NEW S, NEW s \in Seq(S), NEW t \in Seq(S), Extends(t, s)
  PROVE  /\ WithData(s) \in Seq(S) /\ WithData(t) \in Seq(S)
         /\ Extends(WithData(t), WithData(s))
  <1>1. PICK e : Keeps(e, s, S) /\ WithData(s) = e[Len(s)]
    BY WithDataRecursion
  <1>2. PICK d : Keeps(d, t, S) /\ WithData(t) = d[Len(t)]
    BY WithDataRecursion
  <1> DEFINE m == Len(s)
             n == Len(t)
  <1>3. m \in Nat /\ n \in Nat /\ m <= n /\ m \in 0 .. m /\ n \in 0 .. n /\ m \in 0 .. n
    BY DEF Extends
  <1>4. \A k \in 0 .. m : d[k] = e[k]
    <2> DEFINE T == {k \in 0 .. m : d[k] = e[k]}
    <2>1. 0 \in T
      <3>1. e[0] = <<>> /\ d[0] = <<>> /\ 0 \in 0 .. m
        BY <1>1, <1>2, <1>3 DEF Keeps
      <3> QED BY <3>1
    <2>2. ASSUME NEW k \in 1 .. m, k - 1 \in T PROVE k \in T
      <3>1. k \in 0 .. m /\ k \in 1 .. n /\ s[k] = t[k] /\ d[k - 1] = e[k - 1]
        BY <1>3, <2>2 DEF Extends
      <3> QED BY <1>1, <1>2, <3>1 DEF Keeps
    <2> HIDE DEF T
    <2>3. \A k \in 0 .. m : k \in T
      BY <1>3, <2>1, <2>2, UpTo
    <2> QED BY <2>3 DEF T
  <1>5. \A k \in 0 .. n : d[k] \in Seq(S)
    BY <1>2 DEF Keeps
  <1>6. \A k \in 0 .. n : m <= k => Extends(d[k], d[m])
    <2> DEFINE T == {k \in 0 .. n : m <= k => Extends(d[k], d[m])}
    <2>1. 0 \in T
      BY <1>3, <1>5, ExtendsSelf
    <2>2. ASSUME NEW k \in 1 .. n, k - 1 \in T PROVE k \in T
      <3>1. k \in 0 .. n /\ k - 1 \in 0 .. n
        BY <1>3
      <3>2. CASE k = m
        BY <1>3, <1>5, <3>1, <3>2, ExtendsSelf
      <3>3. CASE k # m /\ m <= k
        <4>1. Extends(d[k - 1], d[m])
          BY <1>3, <2>2, <3>3
        <4>2. Extends(d[k], d[k - 1])
          <5>1. CASE ~IsData(t[k])
            BY <1>2, <1>5, <3>1, <5>1, ExtendsSelf DEF Keeps
          <5>2. CASE IsData(t[k])
            <6>1. d[k] = Append(d[k - 1], t[k]) /\ t[k] \in S
              <7>1. Len(t) \in Nat /\ t[k] \in S
                OBVIOUS
              <7>2. \A i \in 1 .. Len(t) :
                      d[i] = IF IsData(t[i]) THEN Append(d[i - 1], t[i]) ELSE d[i - 1]
                BY <1>2 DEF Keeps
              <7> QED BY <5>2, <7>1, <7>2
            <6> QED BY <1>5, <3>1, <6>1, ExtendsAppend
          <5> QED BY <5>1, <5>2
        <4> QED BY <1>3, <1>5, <3>1, <4>1, <4>2, ExtendsFurther
      <3> QED BY <3>1, <3>2, <3>3
    <2> HIDE DEF T
    <2>3. \A k \in 0 .. n : k \in T
      BY <1>3, <2>1, <2>2, UpTo
    <2> QED BY <2>3 DEF T
  <1> QED BY <1>1, <1>2, <1>3, <1>4, <1>5, <1>6

\* Adding the certificates of a chain leaves what is there in place.
LEMMA AddCertificatesExtends ==
  ASSUME NEW S, NEW s \in Seq(S), NEW chain \in Seq(Certificates),
         \A c \in Certificates : Cert(c) \in S
  PROVE  AddCertificates(s, chain) \in Seq(S) /\ Extends(AddCertificates(s, chain), s)
  <1> DEFINE n == Len(chain)
             F(g) == [k \in 0 .. Len(chain) |->
                        IF k = 0 THEN s ELSE AddDeduped(g[k - 1], Cert(chain[k]))]
             V == {v \in Seq(S) : Extends(v, s)}
             f == [p \in (1 .. n) \X V |-> AddDeduped(p[2], Cert(chain[p[1]]))]
  <1>1. n \in Nat /\ s \in V
    BY ExtendsSelf
  <1>2. ASSUME NEW k \in 1 .. n, NEW v \in V PROVE AddDeduped(v, Cert(chain[k])) \in V
    <2>1. Cert(chain[k]) \in S
      OBVIOUS
    <2>2. Append(v, Cert(chain[k])) \in Seq(S) /\ Extends(Append(v, Cert(chain[k])), v)
      BY <2>1, ExtendsAppend
    <2>3. Append(v, Cert(chain[k])) \in V
      BY <2>2, ExtendsFurther
    <2> QED BY <2>3 DEF AddDeduped
  <1> HIDE DEF V
  <1>3. f \in [(1 .. n) \X V -> V]
    BY <1>2
  <1>4. \A k \in 1 .. n, v \in V : f[<<k, v>>] = AddDeduped(v, Cert(chain[k]))
    OBVIOUS
  <1> HIDE DEF f
  <1>5. PICK e \in [0 .. n -> V] : e[0] = s /\ \A k \in 1 .. n : e[k] = f[<<k, e[k - 1]>>]
    <2> HIDE DEF n
    <2>1. \E e : Recursion(e, n, V, s, f)
      BY <1>1, <1>3, RecursionExists
    <2> QED BY <2>1 DEF Recursion
  <1>6. \A k \in 1 .. n : e[k - 1] \in V
    BY <1>1
  <1>7. \A k \in 1 .. n : e[k] = AddDeduped(e[k - 1], Cert(chain[k]))
    BY <1>4, <1>5, <1>6
  <1>8. e = F(e)
    <2>1. ASSUME NEW k \in 0 .. Len(chain) PROVE e[k] = F(e)[k]
      <3>1. k = 0 \/ k \in 1 .. n
        BY <1>1
      <3> QED BY <1>5, <1>7, <3>1
    <2>2. e = [k \in 0 .. Len(chain) |-> e[k]] /\ F(e) = [k \in 0 .. Len(chain) |-> F(e)[k]]
      OBVIOUS
    <2> QED BY <2>1, <2>2
  <1> DEFINE r == CHOOSE g : g = F(g)
  <1>9. AddCertificates(s, chain) = r[Len(chain)]
    BY DEF AddCertificates
  <1>10. r = F(r)
    <2> HIDE DEF F
    <2> QED BY <1>8
  <1> HIDE DEF r
  <1>11. \A k \in 0 .. n : r[k] \in V
    <2> DEFINE T == {k \in 0 .. n : r[k] \in V}
    <2>1. 0 \in T
      BY <1>1, <1>10
    <2>2. ASSUME NEW k \in 1 .. n, k - 1 \in T PROVE k \in T
      <3>1. k \in 0 .. n /\ k # 0
        BY <1>1
      <3>2. r[k] = F(r)[k]
        BY <1>10
      <3>3. r[k] = AddDeduped(r[k - 1], Cert(chain[k]))
        BY <3>1, <3>2
      <3> QED BY <1>2, <2>2, <3>1, <3>3
    <2> HIDE DEF T
    <2>3. \A k \in 0 .. n : k \in T
      BY <1>1, <2>1, <2>2, UpTo
    <2> QED BY <2>3 DEF T
  <1> QED BY <1>1, <1>9, <1>11 DEF V

-----------------------------------------------------------------------------
\* What a reference leads to, it leads to in what extends the streams.
LEMMA HoldsOn ==
  ASSUME NEW S, NEW objects \in Seq(S), NEW more \in Seq(S), Extends(more, objects),
         NEW refs, NEW ders, Holds(objects, refs, ders)
  PROVE  Holds(more, refs, ders)
  <1>1. DOMAIN objects = 1 .. Len(objects) /\ DOMAIN more = 1 .. Len(more)
        /\ Len(objects) \in Nat /\ Len(more) \in Nat /\ Len(objects) <= Len(more)
    BY DEF Extends
  <1>2. \A i \in DOMAIN objects : i \in DOMAIN more /\ more[i] = objects[i]
    BY <1>1 DEF Extends
  <1> QED BY <1>2 DEF Holds

\* The same for the three arrays of an entry.
LEMMA HoldsEntryOn ==
  ASSUME NEW S, NEW objects \in Seq(S), NEW more \in Seq(S), Extends(more, objects),
         NEW refs, NEW e, HoldsEntry(objects, refs, e)
  PROVE  HoldsEntry(more, refs, e)
  BY HoldsOn DEF HoldsEntry

\* An array's streams come behind those there are, and its references lead to them.
LEMMA AddArrayHolds ==
  ASSUME NEW S, NEW objects \in Seq(S), NEW ders \in Seq(S)
  PROVE  LET added == AddArray(objects, ders)
         IN  /\ added.objects \in Seq(S) /\ added.refs \in Seq(Nat)
             /\ Extends(added.objects, objects)
             /\ Holds(added.objects, added.refs, ders)
  <1> DEFINE m == Len(objects)
             n == Len(ders)
             refs == [k \in DOMAIN ders |-> NextId(objects, k)]
             more == [i \in DOMAIN objects \cup ToSet(refs) |->
                        IF i \in ToSet(refs) THEN ders[CHOOSE k \in DOMAIN refs : refs[k] = i]
                                             ELSE objects[i]]
  <1>1. m \in Nat /\ n \in Nat /\ DOMAIN objects = 1 .. m /\ DOMAIN ders = 1 .. n
    OBVIOUS
  <1>2. refs = [k \in 1 .. n |-> m + k]
    BY <1>1 DEF NextId
  <1>3. AddArray(objects, ders) = [objects |-> more, refs |-> refs]
    BY DEF AddArray
  <1> HIDE DEF refs
  <1>4. refs \in Seq(Nat) /\ DOMAIN refs = 1 .. n
    <2>1. refs \in [1 .. n -> Nat]
      BY <1>1, <1>2
    <2> QED BY <1>1, <2>1
  <1>5. ToSet(refs) = m + 1 .. m + n
    <2>1. \A i : i \in ToSet(refs) <=> \E k \in 1 .. n : i = m + k
      BY <1>2 DEF ToSet
    <2>2. ASSUME NEW i \in m + 1 .. m + n PROVE \E k \in 1 .. n : i = m + k
      <3>1. i - m \in 1 .. n /\ i = m + (i - m)
        BY <1>1
      <3> QED BY <3>1
    <2>3. \A k \in 1 .. n : m + k \in m + 1 .. m + n
      BY <1>1
    <2> QED BY <2>1, <2>2, <2>3
  <1>6. DOMAIN more = 1 .. m + n
    BY <1>1, <1>5
  <1>7. \A k \in 1 .. n : refs[k] \in 1 .. m + n /\ more[refs[k]] = ders[k]
    <2> TAKE k \in 1 .. n
    <2>1. refs[k] = m + k /\ m + k \in 1 .. m + n /\ m + k \in ToSet(refs)
      BY <1>1, <1>2, <1>5
    <2>2. (CHOOSE j \in DOMAIN refs : refs[j] = m + k) = k
      <3>1. \A j \in 1 .. n : refs[j] = m + k <=> j = k
        BY <1>1, <1>2
      <3> QED BY <1>4, <3>1
    <2> QED BY <1>6, <2>1, <2>2
  <1>8. \A i \in 1 .. m : i \in 1 .. m + n /\ more[i] = objects[i]
    BY <1>1, <1>5, <1>6
  <1> HIDE DEF more
  <1>9. more \in Seq(S) /\ Len(more) = m + n
    <2>1. ASSUME NEW i \in 1 .. m + n PROVE more[i] \in S
      <3>1. CASE i \in 1 .. m
        <4>1. more[i] = objects[i] /\ objects[i] \in S
          BY <1>8, <3>1
        <4> QED BY <4>1
      <3>2. CASE i \notin 1 .. m
        <4>1. i - m \in 1 .. n /\ refs[i - m] = i
          BY <1>1, <1>2, <3>2
        <4>2. more[i] = ders[i - m] /\ ders[i - m] \in S
          BY <1>1, <1>7, <4>1
        <4> QED BY <4>2
      <3> QED BY <3>1, <3>2
    <2>2. more = [i \in 1 .. m + n |-> more[i]]
      BY <1>1, <1>5 DEF more
    <2>3. more \in [1 .. m + n -> S]
      BY <2>1, <2>2
    <2> QED BY <1>1, <2>3
  <1>10. Extends(more, objects)
    BY <1>1, <1>8, <1>9 DEF Extends
  <1>11. Holds(more, refs, ders)
    BY <1>1, <1>4, <1>6, <1>7 DEF Holds
  <1> QED BY <1>3, <1>4, <1>9, <1>10, <1>11

\* So it is for the three arrays of an entry.
LEMMA AddEntryHolds ==
  ASSUME NEW S, NEW objects \in Seq(S), NEW e, Lists(e, S)
  PROVE  LET added == AddEntry(objects, e)
         IN  /\ added.objects \in Seq(S) /\ Extends(added.objects, objects)
             /\ HoldsEntry(added.objects, added.refs, e)
             /\ added.refs \in [certs : Seq(Nat), ocsps : Seq(Nat), crls : Seq(Nat)]
             /\ added = [objects |-> added.objects, refs |-> added.refs]
  <1> DEFINE certs == AddArray(objects, e.certs)
             ocsps == AddArray(certs.objects, e.ocsps)
             crls  == AddArray(ocsps.objects, e.crls)
             refs  == VriEntry(certs.refs, ocsps.refs, crls.refs)
  <1>1. AddEntry(objects, e) = [objects |-> crls.objects, refs |-> refs]
    BY DEF AddEntry
  <1>2. /\ certs.objects \in Seq(S) /\ certs.refs \in Seq(Nat)
        /\ Extends(certs.objects, objects) /\ Holds(certs.objects, certs.refs, e.certs)
    BY AddArrayHolds DEF Lists
  <1> HIDE DEF certs
  <1>3. /\ ocsps.objects \in Seq(S) /\ ocsps.refs \in Seq(Nat)
        /\ Extends(ocsps.objects, certs.objects) /\ Holds(ocsps.objects, ocsps.refs, e.ocsps)
    BY <1>2, AddArrayHolds DEF Lists
  <1> HIDE DEF ocsps
  <1>4. /\ crls.objects \in Seq(S) /\ crls.refs \in Seq(Nat)
        /\ Extends(crls.objects, ocsps.objects) /\ Holds(crls.objects, crls.refs, e.crls)
    BY <1>3, AddArrayHolds DEF Lists
  <1> HIDE DEF crls
  <1>5. Extends(crls.objects, certs.objects) /\ Extends(crls.objects, objects)
    BY <1>2, <1>3, <1>4, ExtendsFurther
  <1>6. Holds(crls.objects, certs.refs, e.certs) /\ Holds(crls.objects, ocsps.refs, e.ocsps)
    BY <1>2, <1>3, <1>4, <1>5, HoldsOn
  <1>7. HoldsEntry(crls.objects, refs, e)
    BY <1>4, <1>6 DEF HoldsEntry, VriEntry
  <1>8. refs \in [certs : Seq(Nat), ocsps : Seq(Nat), crls : Seq(Nat)]
    BY <1>2, <1>3, <1>4 DEF VriEntry
  <1> HIDE DEF refs
  <1> QED BY <1>1, <1>4, <1>5, <1>7, <1>8

\* The recursion that Written is defined by: the top level first, then the
\* entries one after the other.
LEMMA WrittenRecursion ==
  ASSUME Buildable(builder), streams \in Seq(Item), NEW keys \in Seq(DOMAIN builder.vri)
  PROVE  /\ Written(keys)[0] = AddEntry(streams, builder)
         /\ \A k \in 1 .. Len(keys) :
              Written(keys)[k] = AddEntry(Written(keys)[k - 1].objects, builder.vri[keys[k]])
  <1> DEFINE n == Len(keys)
             F(g) == [k \in 0 .. Len(keys) |->
                        IF k = 0 THEN AddEntry(streams, builder)
                                 ELSE AddEntry(g[k - 1].objects, builder.vri[keys[k]])]
             Refs == [certs : Seq(Nat), ocsps : Seq(Nat), crls : Seq(Nat)]
             V == [objects : Seq(Item), refs : Refs]
             base == AddEntry(streams, builder)
             f == [p \in (1 .. n) \X V |-> AddEntry(p[2].objects, builder.vri[keys[p[1]]])]
  <1>1. n \in Nat /\ \A k \in 1 .. n : keys[k] \in DOMAIN builder.vri
    OBVIOUS
  <1>2. ASSUME NEW objects \in Seq(Item), NEW e, Lists(e, Item) PROVE AddEntry(objects, e) \in V
    <2> DEFINE added == AddEntry(objects, e)
    <2>1. added.objects \in Seq(Item) /\ added.refs \in Refs
          /\ added = [objects |-> added.objects, refs |-> added.refs]
      BY <1>2, AddEntryHolds
    <2> HIDE DEF added, Refs
    <2>2. added \in V
      BY <2>1
    <2> QED BY <2>2 DEF added
  <1> HIDE DEF Refs
  <1>3. base \in V
    BY <1>2 DEF Buildable
  <1>4. ASSUME NEW k \in 1 .. n, NEW v \in V
        PROVE  AddEntry(v.objects, builder.vri[keys[k]]) \in V
    <2>1. v.objects \in Seq(Item)
      OBVIOUS
    <2>2. Lists(builder.vri[keys[k]], Item)
      BY <1>1 DEF Buildable
    <2> HIDE DEF V
    <2> QED BY <1>2, <2>1, <2>2
  <1> HIDE DEF V
  <1>5. f \in [(1 .. n) \X V -> V]
    BY <1>4
  <1>6. \A k \in 1 .. n, v \in V : f[<<k, v>>] = AddEntry(v.objects, builder.vri[keys[k]])
    OBVIOUS
  <1> HIDE DEF f
  <1>7. PICK e : Recursion(e, n, V, base, f)
    <2> HIDE DEF n, base
    <2> QED BY <1>1, <1>3, <1>5, RecursionExists
  <1>8. e \in [0 .. n -> V] /\ e[0] = base /\ \A k \in 1 .. n : e[k - 1] \in V
    <2> HIDE DEF n, base
    <2>1. e \in [0 .. n -> V] /\ e[0] = base
      BY <1>7 DEF Recursion
    <2>2. \A k \in 1 .. n : k - 1 \in 0 .. n
      BY <1>1
    <2> QED BY <2>1, <2>2
  <1>9. \A k \in 1 .. n : e[k] = AddEntry(e[k - 1].objects, builder.vri[keys[k]])
    BY <1>6, <1>7, <1>8 DEF Recursion
  <1>10. e = F(e)
    <2>1. ASSUME NEW k \in 0 .. Len(keys) PROVE e[k] = F(e)[k]
      <3>1. k = 0 \/ k \in 1 .. n
        BY <1>1
      <3> QED BY <1>8, <1>9, <3>1
    <2>2. e = [k \in 0 .. Len(keys) |-> e[k]] /\ F(e) = [k \in 0 .. Len(keys) |-> F(e)[k]]
      BY <1>8
    <2> QED BY <2>1, <2>2
  <1> DEFINE r == Written(keys)
  <1>11. r = CHOOSE g : g = F(g)
    BY DEF Written
  <1>12. r = F(r)
    <2> HIDE DEF F, r
    <2> QED BY <1>10, <1>11
  <1> HIDE DEF r
  <1>13. r[0] = AddEntry(streams, builder)
    BY <1>1, <1>12
  <1>14. \A k \in 1 .. n : r[k] = AddEntry(r[k - 1].objects, builder.vri[keys[k]])
    <2> TAKE k \in 1 .. n
    <2>1. k \in 0 .. Len(keys) /\ k # 0
      BY <1>1
    <2>2. r[k] = F(r)[k]
      BY <1>12
    <2> QED BY <2>1, <2>2
  <1> QED BY <1>13, <1>14 DEF r

\* What is written holds what the builder has, whatever comes behind it.
LEMMA WrittenHolds ==
  ASSUME Buildable(builder), streams \in Seq(Item), NEW keys \in Seq(DOMAIN builder.vri)
  PROVE  LET w == Written(keys)
             objects == w[Len(keys)].objects
         IN  /\ objects \in Seq(Item) /\ Extends(objects, streams)
             /\ HoldsEntry(objects, w[0].refs, builder)
             /\ \A j \in 1 .. Len(keys) : HoldsEntry(objects, w[j].refs, builder.vri[keys[j]])
  <1> DEFINE n == Len(keys)
             w == Written(keys)
             vri == builder.vri
             Good(k) == /\ w[k].objects \in Seq(Item) /\ Extends(w[k].objects, streams)
                        /\ HoldsEntry(w[k].objects, w[0].refs, builder)
                        /\ \A j \in 1 .. k : HoldsEntry(w[k].objects, w[j].refs, vri[keys[j]])
             T == {k \in 0 .. n : Good(k)}
  <1>1. w[0] = AddEntry(streams, builder)
        /\ \A k \in 1 .. n : w[k] = AddEntry(w[k - 1].objects, vri[keys[k]])
    BY WrittenRecursion
  <1>2. n \in Nat /\ \A k \in 1 .. n : Lists(vri[keys[k]], Item)
    BY DEF Buildable
  <1> HIDE DEF w, n, vri
  <1>3. 0 \in T
    <2>1. Lists(builder, Item)
      BY DEF Buildable
    <2>2. /\ w[0].objects \in Seq(Item) /\ Extends(w[0].objects, streams)
          /\ HoldsEntry(w[0].objects, w[0].refs, builder)
      BY <1>1, <2>1, AddEntryHolds
    <2>3. 0 \in 0 .. n /\ 1 .. 0 = {}
      BY <1>2
    <2> QED BY <2>2, <2>3
  <1>4. ASSUME NEW k \in 1 .. n, k - 1 \in T PROVE k \in T
    <2>1. w[k] = AddEntry(w[k - 1].objects, vri[keys[k]]) /\ Lists(vri[keys[k]], Item)
      BY <1>1, <1>2
    <2>2. Good(k - 1) /\ k \in 0 .. n
      BY <1>2, <1>4
    <2>3. /\ w[k].objects \in Seq(Item) /\ Extends(w[k].objects, w[k - 1].objects)
          /\ HoldsEntry(w[k].objects, w[k].refs, vri[keys[k]])
      BY <2>1, <2>2, AddEntryHolds
    <2>4. Extends(w[k].objects, streams)
      BY <2>2, <2>3, ExtendsFurther
    <2>5. HoldsEntry(w[k].objects, w[0].refs, builder)
      BY <2>2, <2>3, HoldsEntryOn
    <2>6. ASSUME NEW j \in 1 .. k PROVE HoldsEntry(w[k].objects, w[j].refs, vri[keys[j]])
      <3>1. CASE j = k
        BY <2>3, <3>1
      <3>2. CASE j # k
        <4>1. j \in 1 .. k - 1
          BY <3>2
        <4>2. HoldsEntry(w[k - 1].objects, w[j].refs, vri[keys[j]])
          BY <2>2, <4>1
        <4> QED BY <2>2, <2>3, <4>2, HoldsEntryOn
      <3> QED BY <3>1, <3>2
    <2> QED BY <2>2, <2>3, <2>4, <2>5, <2>6
  <1>5. n \in T
    <2>1. n \in 0 .. n
      BY <1>2
    <2> HIDE DEF T
    <2> QED BY <1>2, <1>3, <1>4, <2>1, UpTo
  <1>6. Good(n)
    BY <1>5
  <1> QED BY <1>6 DEF w, n, vri

-----------------------------------------------------------------------------
\* An appended element extends, whatever it is.
LEMMA AppendExtends ==
  ASSUME NEW S, NEW s \in Seq(S), NEW e
  PROVE  Extends(Append(s, e), s)
  <1> DEFINE T == S \cup {e}
  <1>1. s \in Seq(T) /\ e \in T
    OBVIOUS
  <1> HIDE DEF T
  <1> QED BY <1>1, ExtendsAppend

\* So does one that is added unless it is there.
LEMMA AddDedupedExtends ==
  ASSUME NEW S, NEW s \in Seq(S), NEW e
  PROVE  Extends(AddDeduped(s, e), s)
  BY AppendExtends, ExtendsSelf DEF AddDeduped

\* Grown is reflexive and transitive.
LEMMA GrownFacts ==
  ASSUME NEW b, Lists(b, Item)
  PROVE  /\ Grown(b, b)
         /\ \A c, d : Lists(c, Item) /\ Lists(d, Item) /\ Grown(c, b) /\ Grown(d, c) => Grown(d, b)
  <1>1. Grown(b, b)
    BY ExtendsSelf DEF Grown, Lists
  <1>2. ASSUME NEW c, NEW d, Lists(c, Item), Lists(d, Item), Grown(c, b), Grown(d, c)
        PROVE  Grown(d, b)
    <2>1. Extends(d.certs, b.certs)
      BY <1>2, ExtendsFurther DEF Grown, Lists
    <2>2. Extends(d.ocsps, b.ocsps)
      BY <1>2, ExtendsFurther DEF Grown, Lists
    <2>3. Extends(d.crls, b.crls)
      BY <1>2, ExtendsFurther DEF Grown, Lists
    <2> QED BY <1>2, <2>1, <2>2, <2>3 DEF Grown
  <1> QED BY <1>1, <1>2

\* Every step leaves a builder that has grown.
LEMMA BuilderGrows ==
  ASSUME IInv, IInv', Buildable(builder), [Next]_vars
  PROVE  Buildable(builder') /\ Grown(builder', builder)
  <1>1. Seq(Der) \subseteq Seq(Item)
    <2>1. Der \subseteq Item
      BY DEF Der, Item
    <2> QED BY <2>1
  <1>2. builder'.ocsps \in Seq(Item) /\ builder'.crls \in Seq(Item)
    BY <1>1 DEF IInv, TypeInv
  <1>3. builder = Material(builder, builder.vri)
    BY DEF IInv, TypeInv
  <1>4. Lists(builder, Item)
    BY DEF Buildable
  <1>5. ASSUME NEW chain \in Chains, CollectValidationData(chain)
        PROVE  Buildable(builder') /\ Grown(builder', builder)
    <2>1. chain \in Seq(Certificates) /\ \A c \in Certificates : Cert(c) \in Item
      BY ChainFacts DEF Cert, Item
    <2>2. /\ builder'.certs = AddCertificates(builder.certs, chain)
          /\ builder'.ocsps = builder.ocsps /\ builder'.crls = builder.crls
          /\ builder'.vri = builder.vri
      BY <1>3, <1>5 DEF CollectValidationData, Material
    <2>3. builder'.certs \in Seq(Item) /\ Extends(builder'.certs, builder.certs)
      BY <1>4, <2>1, <2>2, AddCertificatesExtends DEF Lists
    <2> QED BY <1>4, <2>2, <2>3, ExtendsSelf DEF Buildable, Grown, Lists
  <1>6. ASSUME builder'.certs = builder.certs, builder'.vri = builder.vri,
               Extends(builder'.ocsps, builder.ocsps), Extends(builder'.crls, builder.crls)
        PROVE  Buildable(builder') /\ Grown(builder', builder)
    BY <1>2, <1>4, <1>6, ExtendsSelf DEF Buildable, Grown, Lists
  <1>7. CASE OcspAnswers
    <2>1. builder' = [builder EXCEPT !.ocsps = Append(@, Ocsp(job.chain[job.at], number[Issuer]))]
      BY <1>7 DEF OcspAnswers
    <2>2. /\ builder'.ocsps = Append(builder.ocsps, Ocsp(job.chain[job.at], number[Issuer]))
          /\ builder'.certs = builder.certs /\ builder'.crls = builder.crls
          /\ builder'.vri = builder.vri
      BY <1>3, <2>1 DEF Material
    <2> QED BY <1>4, <1>6, <2>2, AppendExtends, ExtendsSelf DEF Lists
  <1>8. CASE CrlAnswers
    <2>1. builder' = [builder EXCEPT !.crls = AddCrl(@, Crl(Issuer, number[Issuer]))]
      BY <1>8 DEF CrlAnswers
    <2>2. /\ builder'.crls = AddDeduped(builder.crls, Crl(Issuer, number[Issuer]))
          /\ builder'.certs = builder.certs /\ builder'.ocsps = builder.ocsps
          /\ builder'.vri = builder.vri
      BY <1>3, <2>1 DEF Material, AddCrl
    <2> QED BY <1>4, <1>6, <2>2, AddDedupedExtends, ExtendsSelf DEF Lists
  <1>9. ASSUME NEW signature \in Signatures, NEW entry \in {Collected, Unusable},
               AddVriEntry(signature, entry)
        PROVE  Buildable(builder') /\ Grown(builder', builder)
    <2> DEFINE vri == [s \in {signature} \cup DOMAIN builder.vri |->
                         IF s = signature THEN entry ELSE builder.vri[s]]
    <2>1. /\ builder'.certs = builder.certs /\ builder'.ocsps = builder.ocsps
          /\ builder'.crls = builder.crls /\ builder'.vri = vri
      BY <1>3, <1>9 DEF AddVriEntry, Material
    <2>2. Lists(entry, Item)
      <3>1. Empty \in Item
        BY DEF Empty, Item
      <3>2. CASE entry = Collected
        BY <1>4, <3>2 DEF Collected, VriEntry, Lists
      <3>3. CASE entry = Unusable
        BY <3>1, <3>3 DEF Unusable, VriEntry, Lists
      <3> QED BY <3>2, <3>3
    <2>3. IsFiniteSet(DOMAIN vri)
      <3> DEFINE D == DOMAIN builder.vri
      <3>1. IsFiniteSet(D)
        BY DEF Buildable
      <3> HIDE DEF D
      <3>2. IsFiniteSet(D \cup {signature})
        BY <3>1, FS_AddElement
      <3>3. DOMAIN vri = D \cup {signature}
        BY DEF D
      <3> QED BY <3>2, <3>3
    <2>4. \A s \in DOMAIN vri : Lists(vri[s], Item)
      BY <2>2 DEF Buildable
    <2>5. DOMAIN builder.vri \subseteq DOMAIN vri
      OBVIOUS
    <2> HIDE DEF vri
    <2>6. Buildable(builder')
      BY <1>4, <2>1, <2>3, <2>4 DEF Buildable, Lists
    <2>7. Grown(builder', builder)
      BY <1>4, <2>1, <2>5, ExtendsSelf DEF Grown, Lists
    <2> QED BY <2>6, <2>7
  <1>10. CASE builder' = builder
    BY <1>4, <1>10, GrownFacts
  <1>11. ASSUME OcspFails \/ NoCrl \/ GiveUp \/ BuildDssDict \/ UNCHANGED vars
         PROVE  builder' = builder
    BY <1>11 DEF OcspFails, NoCrl, GiveUp, BuildDssDict, vars
  <1>12. ASSUME NEW ca \in Cas, UpdateCa(ca) PROVE builder' = builder
    BY <1>12 DEF UpdateCa
  <1> QED BY <1>5, <1>7, <1>8, <1>9, <1>10, <1>11, <1>12 DEF Next

\* A DSS that is built holds what the builder has, and the streams of the others
\* stay.
LEMMA BuildHolds ==
  ASSUME Buildable(builder), streams \in Seq(Item), BuildDssDict
  PROVE  /\ streams' \in Seq(Item) /\ Extends(streams', streams)
         /\ \E dss : /\ builds' = Append(builds, [dss |-> dss, from |-> builder])
                     /\ HoldsDss(streams', dss, builder)
  <1> DEFINE D == DOMAIN builder.vri
             n == Cardinality(D)
  <1>1. PICK keys \in SetToSeqs(D) :
          LET RefsOf(s) == Written(keys)[CHOOSE k \in DOMAIN keys : keys[k] = s].refs
              dss == Material(Written(keys)[0].refs, [s \in DOMAIN builder.vri |-> RefsOf(s)])
          IN  /\ streams' = Written(keys)[Len(keys)].objects
              /\ builds' = Append(builds, [dss |-> dss, from |-> builder])
    BY DEF BuildDssDict
  <1>2. IsFiniteSet(D)
    BY DEF Buildable
  <1> HIDE DEF D
  <1>3. n \in Nat /\ IsFiniteSet(1 .. n) /\ Cardinality(1 .. n) = n
    BY <1>2, FS_CardinalityType, FS_Interval
  <1> HIDE DEF n
  <1>4. keys \in [1 .. n -> D] /\ \A i, j \in 1 .. n : i # j => keys[i] # keys[j]
    BY <1>1 DEF SetToSeqs, n
  <1>5. keys \in Seq(D) /\ Len(keys) = n /\ DOMAIN keys = 1 .. n
    BY <1>3, <1>4
  <1>6. \A s \in D : \E k \in 1 .. n : keys[k] = s
    <2> DEFINE I == 1 .. n
    <2>1. keys \in Injection(I, D)
      BY <1>4 DEF Injection, IsInjective
    <2>2. Cardinality(I) = Cardinality(D)
      BY <1>3 DEF n
    <2> HIDE DEF I
    <2>3. keys \in Surjection(I, D)
      BY <1>2, <2>1, <2>2, FS_Injection
    <2> QED BY <2>3 DEF Surjection, I
  <1> DEFINE w == Written(keys)
             RefsOf(s) == w[CHOOSE k \in DOMAIN keys : keys[k] = s].refs
             dss == Material(w[0].refs, [s \in D |-> RefsOf(s)])
  <1>7. streams' = w[n].objects /\ builds' = Append(builds, [dss |-> dss, from |-> builder])
    BY <1>1, <1>5 DEF D
  <1>8. /\ streams' \in Seq(Item) /\ Extends(streams', streams)
        /\ HoldsEntry(streams', w[0].refs, builder)
        /\ \A j \in 1 .. n : HoldsEntry(streams', w[j].refs, builder.vri[keys[j]])
    BY <1>5, <1>7, WrittenHolds DEF D
  <1> HIDE DEF w
  <1>9. ASSUME NEW s \in D PROVE HoldsEntry(streams', RefsOf(s), builder.vri[s])
    <2> DEFINE j == CHOOSE k \in DOMAIN keys : keys[k] = s
    <2>1. j \in 1 .. n /\ keys[j] = s
      BY <1>5, <1>6
    <2> QED BY <1>8, <2>1
  <1> HIDE DEF RefsOf
  <1>10. HoldsEntry(streams', dss, builder)
    BY <1>8 DEF HoldsEntry, Material
  <1>11. DOMAIN dss.vri = DOMAIN builder.vri
    BY DEF D, Material
  <1>12. \A s \in DOMAIN builder.vri : HoldsEntry(streams', dss.vri[s], builder.vri[s])
    BY <1>9 DEF D, Material
  <1>13. HoldsDss(streams', dss, builder)
    BY <1>10, <1>11, <1>12 DEF HoldsDss
  <1> HIDE DEF dss
  <1> QED BY <1>7, <1>8, <1>13

\* A DSS that holds what it was built from goes on doing so while streams are added.
LEMMA HoldsDssOn ==
  ASSUME NEW S, NEW objects \in Seq(S), NEW more \in Seq(S), Extends(more, objects),
         NEW dss, NEW from, HoldsDss(objects, dss, from)
  PROVE  HoldsDss(more, dss, from)
  BY HoldsEntryOn DEF HoldsDss

-----------------------------------------------------------------------------
\* With no DSS yet the invariant holds.
LEMMA InitDss == Init => DssInv
  <1> SUFFICES ASSUME Init PROVE DssInv
    OBVIOUS
  <1>1. builder.vri = <<>> /\ DOMAIN builder.vri = {} /\ builds = <<>> /\ streams = <<>>
    BY DEF Init, Material
  <1>2. Lists(builder, Item)
    BY DEF Init, Material, VriEntry, Lists
  <1>3. Buildable(builder)
    BY <1>1, <1>2, FS_EmptySet DEF Buildable
  <1>4. builds \in Seq({}) /\ streams \in Seq(Item) /\ 1 .. Len(builds) = {}
    BY <1>1
  <1> QED BY <1>3, <1>4 DEF DssInv

\* Every step keeps it.
LEMMA NextDss ==
  ASSUME IInv, IInv', DssInv, [Next]_vars
  PROVE  DssInv'
  <1>1. Buildable(builder) /\ streams \in Seq(Item)
    BY DEF DssInv
  <1>2. PICK S : builds \in Seq(S)
    BY DEF DssInv
  <1>3. Buildable(builder') /\ Grown(builder', builder)
    BY <1>1, BuilderGrows
  <1> DEFINE n == Len(builds)
             Before(k) == /\ Buildable(builds[k].from)
                          /\ HoldsDss(streams, builds[k].dss, builds[k].from)
                          /\ Grown(builder, builds[k].from)
                          /\ \A l \in k .. n : Grown(builds[l].from, builds[k].from)
  <1>4. n \in Nat /\ \A k \in 1 .. n : Before(k)
    BY <1>2 DEF DssInv
  <1>5. \A k \in 1 .. n : Grown(builder', builds[k].from)
    <2> TAKE k \in 1 .. n
    <2>1. Lists(builder, Item) /\ Lists(builder', Item) /\ Lists(builds[k].from, Item)
      BY <1>1, <1>3, <1>4 DEF Buildable
    <2> QED BY <1>3, <1>4, <2>1, GrownFacts
  <1>6. CASE UNCHANGED <<streams, builds>>
    BY <1>1, <1>2, <1>3, <1>4, <1>5, <1>6 DEF DssInv
  <1>7. CASE BuildDssDict
    <2>1. streams' \in Seq(Item) /\ Extends(streams', streams)
      BY <1>1, <1>7, BuildHolds
    <2>2. PICK dss : /\ builds' = Append(builds, [dss |-> dss, from |-> builder])
                     /\ HoldsDss(streams', dss, builder)
      BY <1>1, <1>7, BuildHolds
    <2> DEFINE built == [dss |-> dss, from |-> builder]
               S1 == S \cup {built}
    <2>3. builds \in Seq(S1) /\ built \in S1
      BY <1>2
    <2>4. built.dss = dss /\ built.from = builder
      OBVIOUS
    <2> HIDE DEF S1, built
    <2>5. /\ builds' \in Seq(S1) /\ Len(builds') = n + 1 /\ builds'[n + 1] = built
          /\ \A k \in 1 .. n : builds'[k] = builds[k]
      <3>1. builds' = Append(builds, built)
        BY <2>2 DEF built
      <3> QED BY ONLY <2>3, <3>1
    <2>6. builder' = builder
      BY <1>7 DEF BuildDssDict
    <2>7. ASSUME NEW k \in 1 .. n + 1
          PROVE  /\ Buildable(builds'[k].from)
                 /\ HoldsDss(streams', builds'[k].dss, builds'[k].from)
                 /\ Grown(builder', builds'[k].from)
                 /\ \A l \in k .. n + 1 : Grown(builds'[l].from, builds'[k].from)
      <3>1. CASE k = n + 1
        <4>1. builds'[k].from = builder /\ builds'[k].dss = dss
          BY <2>4, <2>5, <3>1
        <4>2. \A l \in k .. n + 1 : l = k
          BY <1>4, <3>1
        <4>3. Grown(builder, builder)
          BY <1>3, <2>6
        <4> QED BY <1>1, <1>3, <2>2, <4>1, <4>2, <4>3
      <3>2. CASE k # n + 1
        <4>1. k \in 1 .. n /\ builds'[k] = builds[k]
          BY <1>4, <2>5, <3>2
        <4>2. HoldsDss(streams', builds[k].dss, builds[k].from)
          BY <1>1, <1>4, <2>1, <4>1, HoldsDssOn
        <4>3. ASSUME NEW l \in k .. n + 1 PROVE Grown(builds'[l].from, builds[k].from)
          <5>1. CASE l = n + 1
            BY <1>5, <2>4, <2>5, <2>6, <4>1, <5>1
          <5>2. CASE l # n + 1
            <6>1. l \in k .. n /\ builds'[l] = builds[l]
              BY <1>4, <2>5, <4>1, <5>2
            <6> QED BY <1>4, <4>1, <6>1
          <5> QED BY <5>1, <5>2
        <4> QED BY <1>4, <1>5, <4>1, <4>2, <4>3
      <3> QED BY <3>1, <3>2
    <2>8. \E T : builds' \in Seq(T)
      BY <2>5
    <2> QED BY <1>3, <2>1, <2>5, <2>7, <2>8 DEF DssInv
  <1>8. ASSUME ~BuildDssDict PROVE UNCHANGED <<streams, builds>>
    BY <1>8 DEF Next, CollectValidationData, OcspAnswers, OcspFails, CrlAnswers, NoCrl, GiveUp,
                UpdateCa, AddVriEntry, vars
  <1> QED BY <1>6, <1>7, <1>8

\* Streams once written stay, whoever builds, collects or adds entries.
THEOREM DssInvariance == Spec => []DssInv
  <1>1. IInv /\ IInv' /\ DssInv /\ [Next]_vars => DssInv'
    BY NextDss
  <1> QED BY InitDss, Invariance, <1>1, PTL DEF Spec

\* References that hold an entry's lists read back as what of them holds data.
LEMMA ReadsBack ==
  ASSUME NEW e, Lists(e, Item), NEW refs, HoldsEntry(streams, refs, e)
  PROVE  ExtractEntry(refs) = VriEntry(WithData(e.certs), WithData(e.ocsps), WithData(e.crls))
  <1>1. ASSUME NEW ders \in Seq(Item), NEW array, Holds(streams, array, ders)
        PROVE  ExtractStreamArray(array) = WithData(ders)
    <2>1. [k \in DOMAIN array |-> streams[array[k]]] = [k \in DOMAIN ders |-> ders[k]]
      BY <1>1 DEF Holds
    <2>2. ders = [k \in DOMAIN ders |-> ders[k]]
      OBVIOUS
    <2> QED BY <2>1, <2>2 DEF ExtractStreamArray
  <1>2. /\ ExtractStreamArray(refs.certs) = WithData(e.certs)
        /\ ExtractStreamArray(refs.ocsps) = WithData(e.ocsps)
        /\ ExtractStreamArray(refs.crls) = WithData(e.crls)
    BY <1>1 DEF HoldsEntry, Lists
  <1> QED BY <1>2 DEF ExtractEntry

\* Every DSS the document ever had reads back as what it was built from, but for
\* items without data, and later ones leave nothing out: for any number of DSSs,
\* entries and collections, and any order of the entries.
THEOREM DssReadsBackCorrect == Spec => []DssReadsBack
  <1>1. ASSUME DssInv PROVE DssReadsBack
    <2> DEFINE Data(e) == VriEntry(WithData(e.certs), WithData(e.ocsps), WithData(e.crls))
               Read(k) == ExtractDss(builds[k].dss)
               from(k) == builds[k].from
               Entries(k) == [s \in DOMAIN from(k).vri |-> Data(from(k).vri[s])]
    <2>1. DOMAIN builds = 1 .. Len(builds) /\ Len(builds) \in Nat
      BY <1>1 DEF DssInv
    <2>2. ASSUME NEW k \in 1 .. Len(builds)
          PROVE  Read(k) = Material(Data(from(k)), Entries(k))
      <3> DEFINE dss == builds[k].dss
                 b == from(k)
      <3>1. Buildable(b) /\ HoldsDss(streams, dss, b)
        BY <1>1, <2>2 DEF DssInv
      <3> HIDE DEF dss, b
      <3>2. ExtractEntry(dss) = Data(b)
        BY <3>1, ReadsBack DEF Buildable, HoldsDss
      <3>3. \A s \in DOMAIN b.vri : ExtractEntry(dss.vri[s]) = Data(b.vri[s])
        BY <3>1, ReadsBack DEF Buildable, HoldsDss
      <3>4. DOMAIN dss.vri = DOMAIN b.vri
        BY <3>1 DEF HoldsDss
      <3> HIDE DEF Data
      <3>5. [s \in DOMAIN dss.vri |-> ExtractEntry(dss.vri[s])]
              = [s \in DOMAIN b.vri |-> Data(b.vri[s])]
        BY <3>3, <3>4
      <3>6. ExtractDss(dss) = Material(Data(b), [s \in DOMAIN b.vri |-> Data(b.vri[s])])
        BY <3>2, <3>5 DEF ExtractDss
      <3> QED BY <3>6 DEF dss, b
    <2>3. ASSUME NEW k \in 1 .. Len(builds), NEW l \in k .. Len(builds)
          PROVE  /\ IsPrefix(Read(k).certs, Read(l).certs)
                 /\ IsPrefix(Read(k).ocsps, Read(l).ocsps)
                 /\ IsPrefix(Read(k).crls, Read(l).crls)
                 /\ DOMAIN Read(k).vri \subseteq DOMAIN Read(l).vri
      <3>1. l \in 1 .. Len(builds)
        BY <2>1
      <3> DEFINE b == from(k)
                 c == from(l)
      <3>2. Lists(b, Item) /\ Lists(c, Item) /\ Grown(c, b)
        BY <1>1, <2>3, <3>1 DEF DssInv, Buildable
      <3>3. ASSUME NEW s \in Seq(Item), NEW t \in Seq(Item), Extends(t, s)
            PROVE  IsPrefix(WithData(s), WithData(t))
        <4> DEFINE ws == WithData(s)
                   wt == WithData(t)
        <4>1. ws \in Seq(Item) /\ wt \in Seq(Item) /\ Extends(wt, ws)
          BY <3>3, WithDataExtends
        <4> HIDE DEF ws, wt
        <4>2. IsPrefix(ws, wt)
          BY <4>1, ExtendsIsPrefix
        <4> QED BY <4>2 DEF ws, wt
      <3>6. /\ Read(k) = Material(Data(b), [s \in DOMAIN b.vri |-> Data(b.vri[s])])
            /\ Read(l) = Material(Data(c), [s \in DOMAIN c.vri |-> Data(c.vri[s])])
        <4> HIDE DEF Read, Data
        <4> QED BY <2>2, <3>1
      <3> HIDE DEF Read, b, c
      <3>4. /\ Read(k).certs = WithData(b.certs) /\ Read(k).ocsps = WithData(b.ocsps)
            /\ Read(k).crls = WithData(b.crls) /\ DOMAIN Read(k).vri = DOMAIN b.vri
        BY <3>6 DEF Material, VriEntry
      <3>5. /\ Read(l).certs = WithData(c.certs) /\ Read(l).ocsps = WithData(c.ocsps)
            /\ Read(l).crls = WithData(c.crls) /\ DOMAIN Read(l).vri = DOMAIN c.vri
        BY <3>6 DEF Material, VriEntry
      <3> QED BY <3>2, <3>3, <3>4, <3>5 DEF Lists, Grown
    <2> QED BY <2>1, <2>2, <2>3 DEF DssReadsBack
  <1> QED BY <1>1, DssInvariance, PTL
=============================================================================
