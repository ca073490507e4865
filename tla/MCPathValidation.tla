-------------------------- MODULE MCPathValidation --------------------------
(* A small world of certificates for PathValidation. *)
EXTENDS PathValidation

Cert(subject, issuer, serial, from, until, ca) ==
  [subject |-> subject, issuer |-> issuer, serial |-> serial, key |-> subject,
   signedBy |-> issuer, from |-> from, until |-> until, ee |-> ~ca, ca |-> ca]

Leaf == Cert("leaf", "ca1", 1, 0, 2, FALSE)
\* as many certificates below the root as the search goes through
DeepLeaf == Cert("deep", "ca0", 8, 0, 9, FALSE)
Ca0  == Cert("ca0", "ca1", 6, 0, 9, TRUE)
SelfSignedLeaf == Cert("self", "self", 7, 0, 9, FALSE)
Ca1  == Cert("ca1", "ca2", 2, 0, 9, TRUE)
Ca2  == Cert("ca2", "root", 3, 1, 9, TRUE)
Root == Cert("root", "root", 4, 0, 2, TRUE)
\* certified by ca1, which it certifies: a circle
Ca2Circle == Cert("ca2", "ca1", 5, 0, 9, TRUE)
\* not a CA by its extensions
Ca1NotCa == [Ca1 EXCEPT !.ca = FALSE]

Orders(S) == {s \in [1 .. Cardinality(S) -> S] : ToSet(s) = S}

MCSigners == {Leaf, DeepLeaf, SelfSignedLeaf}
MCAnchors == {Root}
MCTimes == 0 .. 3
MCEmbedded ==
  UNION {Orders(S) : S \in SUBSET {Leaf, Ca1, Ca2, Root}}
    \cup Orders({Leaf, Ca1, Ca2Circle}) \cup {<<Leaf, Ca1NotCa, Ca2>>, <<Ca2Circle, Ca1, Ca2>>, <<Ca0, Ca1, Ca2, Root>>}
=============================================================================
