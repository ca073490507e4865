---------------------------- MODULE DssCollection ----------------------------
(***************************************************************************)
(* Long-term validation material: a DssBuilder that collects certificates, *)
(* OCSP responses and CRLs with one request after the other, while CAs go  *)
(* on issuing, requests fail and callers give up; the DSS it writes; and   *)
(* what the inspection reads back from it (ltv/dss.rs, extract_dss and     *)
(* extract_stream_array of inspect/signatures.rs).                         *)
(*                                                                         *)
(* One builder serves all signatures of a file.  &mut self admits one      *)
(* collect_validation_data at a time; its future can be dropped where it   *)
(* awaits an answer.                                                       *)
(***************************************************************************)
EXTENDS Integers, Sequences, SequencesExt

CONSTANTS Certificates,
          Chains,      \* chains that material is collected for, the signer's
                       \* certificate first
          Signatures,  \* the signatures that VRI entries are added for
          MaxNumber, MaxCalls, MaxBuilds \* bounds on CA updates, collections, DSSs

ASSUME DssAssumption ==
  /\ Chains \subseteq Seq(Certificates) \ {<<>>}
  /\ MaxNumber \in Nat /\ MaxCalls \in Nat /\ MaxBuilds \in Nat

VARIABLES builder, \* the DssBuilder
          job,     \* the last collect_validation_data and where it awaits
          number,  \* CA -> how often it has updated what it says
          calls,   \* collections begun
          streams, \* the document's stream objects
          builds   \* DSS dictionaries built, and what each was built from; the
                   \* last one is the document's

vars == <<builder, job, number, calls, streams, builds>>

Cas == UNION {ToSet(Tail(c)) : c \in Chains}

\* DER bytes, as far as one tells them apart; those of a CRL are the same until
\* its CA issues the next one
Cert(c)          == [kind |-> "cert", of |-> c, number |-> 0]
Ocsp(cert, n)    == [kind |-> "ocsp", of |-> cert, number |-> n]
Crl(ca, n)       == [kind |-> "crl",  of |-> ca,   number |-> n]
Empty            == [kind |-> "empty", of |-> "nothing", number |-> 0]

VriEntry(certs, ocsps, crls) == [certs |-> certs, ocsps |-> ocsps, crls |-> crls]

\* a DssBuilder, a DSS or what is read from one: material and entries for
\* signatures
Material(e, vri) == [certs |-> e.certs, ocsps |-> e.ocsps, crls |-> e.crls, vri |-> vri]

\* `unanswered`: certificates that neither request got material for
Job(chain, at, waits, unanswered) ==
  [chain |-> chain, at |-> at, waits |-> waits, since |-> number, unanswered |-> unanswered]

Init ==
  /\ builder = Material(VriEntry(<<>>, <<>>, <<>>), <<>>)
  /\ number = [ca \in Cas |-> 0]
  /\ job = Job(<<>>, 0, "nothing", {})
  /\ calls = 0 /\ builds = <<>> /\ streams = <<>>

-----------------------------------------------------------------------------
(* collect_validation_data *)

AddDeduped(s, der) == IF der \in ToSet(s) THEN s ELSE Append(s, der)

\* add_certificate for every certificate of the chain
AddCertificates(s, chain) ==
  LET added[k \in 0 .. Len(chain)] ==
        IF k = 0 THEN s ELSE AddDeduped(added[k - 1], Cert(chain[k]))
  IN  added[Len(chain)]

\* Mutant: a CA's CRL is taken for the one there is already.
AddCrlByIssuer(s, crl) == IF \E k \in DOMAIN s : s[k].of = crl.of THEN s ELSE Append(s, crl)

AddCrl(s, crl) == AddDeduped(s, crl)

\* the issuer is the next certificate; the last one is never asked about
Issuer == job.chain[job.at + 1]

\* where a job goes on for the next certificate
GoOn(chain, at) == IF at < Len(chain) THEN "ocsp" ELSE "returned"

CollectValidationData(chain) ==
  /\ job.waits \notin {"ocsp", "crl"} /\ calls < MaxCalls
  /\ calls' = calls + 1
  /\ builder' = [builder EXCEPT !.certs = AddCertificates(@, chain)]
  /\ job' = Job(chain, 1, GoOn(chain, 1), {})
  /\ UNCHANGED <<number, streams, builds>>

Proceed(unanswered) ==
  job' = [job EXCEPT !.at = @ + 1, !.waits = GoOn(job.chain, job.at + 1), !.unanswered = unanswered]

OcspAnswers ==
  /\ job.waits = "ocsp"
  /\ builder' = [builder EXCEPT !.ocsps = Append(@, Ocsp(job.chain[job.at], number[Issuer]))]
  /\ Proceed(job.unanswered)
  /\ UNCHANGED <<number, calls, streams, builds>>

OcspFails ==
  /\ job.waits = "ocsp"
  /\ job' = [job EXCEPT !.waits = "crl"]
  /\ UNCHANGED <<builder, number, calls, streams, builds>>

\* fetch_crls_for_cert; one CRL speaks for all certificates of its CA
CrlAnswers ==
  /\ job.waits = "crl"
  /\ builder' = [builder EXCEPT !.crls = AddCrl(@, Crl(Issuer, number[Issuer]))]
  /\ Proceed(job.unanswered)
  /\ UNCHANGED <<number, calls, streams, builds>>

\* no distribution point answers, or the answer is Ok and holds no CRL: on to the
\* next certificate
NoCrl ==
  /\ job.waits = "crl"
  /\ Proceed(job.unanswered \cup {job.chain[job.at]})
  /\ UNCHANGED <<builder, number, calls, streams, builds>>

\* the caller drops the future, after a timeout of its own for instance
GiveUp ==
  /\ job.waits \in {"ocsp", "crl"}
  /\ job' = [job EXCEPT !.waits = "nothing"]
  /\ UNCHANGED <<builder, number, calls, streams, builds>>

\* a CA revokes a certificate, and its next answers say so
UpdateCa(ca) ==
  /\ number[ca] < MaxNumber
  /\ number' = [number EXCEPT ![ca] = @ + 1]
  /\ UNCHANGED <<builder, job, calls, streams, builds>>

\* entries callers make: of all there is by now, or of bytes that hold nothing
Collected == VriEntry(builder.certs, builder.ocsps, builder.crls)
Unusable  == VriEntry(<<Empty>>, <<>>, <<Empty>>)

\* add_vri_entry, between collections; the last entry for a signature stays
AddVriEntry(signature, entry) ==
  /\ job.waits \notin {"ocsp", "crl"}
  /\ builder' = [builder EXCEPT !.vri =
                    [s \in {signature} \cup DOMAIN @ |-> IF s = signature THEN entry ELSE @[s]]]
  /\ UNCHANGED <<job, number, calls, streams, builds>>

-----------------------------------------------------------------------------
(* build_dss_dict *)

\* Mutant: numbers are counted from the start of each array.
NextIdOfArray(objects, k) == k

\* add_object takes the number after the largest
NextId(objects, k) == Len(objects) + k

\* one more stream for each element of ders, and the array of references
AddArray(objects, ders) ==
  LET refs == [k \in DOMAIN ders |-> NextId(objects, k)]
  IN  [objects |-> [n \in DOMAIN objects \cup ToSet(refs) |->
                      IF n \in ToSet(refs) THEN ders[CHOOSE k \in DOMAIN refs : refs[k] = n]
                                           ELSE objects[n]],
       refs    |-> refs]

\* three arrays, one after the other; one without elements is left out, which
\* reads like an empty one
AddEntry(objects, e) ==
  LET certs == AddArray(objects, e.certs)
      ocsps == AddArray(certs.objects, e.ocsps)
      crls  == AddArray(ocsps.objects, e.crls)
  IN  [objects |-> crls.objects, refs |-> VriEntry(certs.refs, ocsps.refs, crls.refs)]

\* the top level and what is written with each VRI entry behind it
Written(keys) ==
  LET written[k \in 0 .. Len(keys)] ==
        IF k = 0 THEN AddEntry(streams, builder)
                 ELSE AddEntry(written[k - 1].objects, builder.vri[keys[k]])
  IN  written

\* a HashMap has its keys in any order
BuildDssDict ==
  /\ job.waits \notin {"ocsp", "crl"} /\ Len(builds) < MaxBuilds
  /\ \E keys \in SetToSeqs(DOMAIN builder.vri) :
       LET RefsOf(s) == Written(keys)[CHOOSE k \in DOMAIN keys : keys[k] = s].refs
           dss == Material(Written(keys)[0].refs, [s \in DOMAIN builder.vri |-> RefsOf(s)])
       IN  /\ streams' = Written(keys)[Len(keys)].objects
           /\ builds' = Append(builds, [dss |-> dss, from |-> builder])
  /\ UNCHANGED <<builder, job, number, calls>>

-----------------------------------------------------------------------------
(* extract_dss *)

IsData(der) == der # Empty

\* the elements of s that hold data
WithData(s) ==
  LET kept[k \in 0 .. Len(s)] ==
        IF k = 0 THEN <<>>
                 ELSE IF IsData(s[k]) THEN Append(kept[k - 1], s[k]) ELSE kept[k - 1]
  IN  kept[Len(s)]

\* extract_stream_array: streams without data are skipped
ExtractStreamArray(refs) == WithData([k \in DOMAIN refs |-> streams[refs[k]]])

ExtractEntry(e) ==
  VriEntry(ExtractStreamArray(e.certs), ExtractStreamArray(e.ocsps), ExtractStreamArray(e.crls))

ExtractDss(dss) ==
  Material(ExtractEntry(dss), [s \in DOMAIN dss.vri |-> ExtractEntry(dss.vri[s])])

-----------------------------------------------------------------------------
Next ==
  \/ \E chain \in Chains : CollectValidationData(chain)
  \/ OcspAnswers \/ OcspFails \/ CrlAnswers \/ NoCrl \/ GiveUp
  \/ \E ca \in Cas : UpdateCa(ca)
  \/ \E signature \in Signatures, entry \in {Collected, Unusable} : AddVriEntry(signature, entry)
  \/ BuildDssDict

Spec == Init /\ [][Next]_vars

-----------------------------------------------------------------------------
\* There is material for certificate k of the chain that is not from before the
\* call, or no request got any.
Answered(k) ==
  LET cert == job.chain[k]
      ca   == job.chain[k + 1]
  IN  \/ cert \in job.unanswered
      \/ \E n \in job.since[ca] .. number[ca] :
           Ocsp(cert, n) \in ToSet(builder.ocsps) \/ Crl(ca, n) \in ToSet(builder.crls)

\* A collection that ran to its end returns Ok whatever failed, and what failed
\* or came back empty is all that is missing: for every certificate but the last
\* there is an answer from the time of the call on, or neither request got one;
\* that an older one of the same CA was there from another chain is no excuse.
GapsOnlyWhereBothFailed ==
  job.waits = "returned" => \A k \in 1 .. Len(job.chain) - 1 : Answered(k)

\* Every DSS the document ever had reads back as what it was built from, in
\* order, VRI entries included, but for items without data: later ones leave its
\* streams alone, and leave out nothing the earlier ones had at the top level.
DssReadsBack ==
  \A k \in DOMAIN builds :
    LET Data(e) == VriEntry(WithData(e.certs), WithData(e.ocsps), WithData(e.crls))
        from    == builds[k].from
        read    == ExtractDss(builds[k].dss)
    IN  /\ read = Material(Data(from), [s \in DOMAIN from.vri |-> Data(from.vri[s])])
        /\ \A l \in k .. Len(builds) :
             LET later == ExtractDss(builds[l].dss)
             IN  /\ IsPrefix(read.certs, later.certs) /\ IsPrefix(read.ocsps, later.ocsps)
                 /\ IsPrefix(read.crls, later.crls) /\ DOMAIN read.vri \subseteq DOMAIN later.vri
=============================================================================
