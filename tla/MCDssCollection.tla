-------------------------- MODULE MCDssCollection --------------------------
(* Two signers of one CA, with and without its root, for DssCollection. *)
EXTENDS DssCollection

MCCertificates == {"alice", "bob", "ca", "root"}
MCChains == { <<"alice", "ca", "root">>, <<"bob", "ca">>, <<"root">> }
=============================================================================
