---------------------------- MODULE OwnAndForeign ----------------------------
(***************************************************************************)
(* One verifier over files of any origin: what the library has just signed *)
(* (SignThenVerify) is extracted and checked by the same steps as the      *)
(* files of other producers (ForeignRange).                                *)
(***************************************************************************)
EXTENDS SignThenVerify, ForeignRange

allVars == <<vars, checkVars>>

\* the verifier has been given nothing yet
Waiting == data = <<>> /\ range = <<0, 0, 0, 0>> /\ contents = <<>> /\ state = "none"

\* a foreign file is looked at while no job is under way; which one comes next
\* makes no difference to it
SystemInit ==
  /\ Init
  /\ \/ Waiting
     \/ job = (CHOOSE j \in Jobs : TRUE) /\ Present

Write == state = "none" /\ Next /\ UNCHANGED checkVars

\* verify_pdf on the file the signer returned
Deliver ==
  /\ state = "none" /\ pc = "done"
  /\ \E last \in LastBytes : data' = Seen(last) /\ contents' = ParsedContents(last)
  /\ range' = Compute(br, Len(buf))
  /\ state' = "parsed"
  /\ UNCHANGED vars

SystemNext == Write \/ Deliver \/ (Verify /\ UNCHANGED vars)

SystemSpec == SystemInit /\ [][SystemNext]_allVars
=============================================================================
