--------------------------- MODULE SignatureLedger ---------------------------
(***************************************************************************)
(* What the signing API promises, with PDF left out.  A saved file is a    *)
(* ledger of updates.  A request works on the ledger it was given and is   *)
(* all or nothing: it adds exactly the signatures that were asked for, in  *)
(* order, right after what it was given, or it adds nothing.               *)
(***************************************************************************)
EXTENDS Sequences

CONSTANTS Requests,  (* requests that can be open at once                    *)
          Orders,    (* what may be asked for: sequences of signature kinds  *)
          Ledgers    (* ledgers the application may start from               *)

VARIABLES ledger,   \* one entry per update: the kind of its signature, or "none"
          pending   \* the requests that are under way: <<given, order>>

vars == <<ledger, pending>>

NotOpen == <<>>

Init == ledger \in Ledgers /\ pending = [r \in Requests |-> NotOpen]

\* a request that waits for an answer from elsewhere
Begin(r) ==
  /\ pending[r] = NotOpen
  /\ \E order \in Orders : pending' = [pending EXCEPT ![r] = <<ledger, order>>]
  /\ UNCHANGED ledger

Complete(r) ==
  /\ pending[r] # NotOpen
  /\ ledger' = pending[r][1] \o pending[r][2]
  /\ pending' = [pending EXCEPT ![r] = NotOpen]

GiveUp(r) ==
  /\ pending[r] # NotOpen
  /\ pending' = [pending EXCEPT ![r] = NotOpen]
  /\ UNCHANGED ledger

\* a request that needs nobody else
AtOnce == \E order \in Orders : ledger' = ledger \o order /\ UNCHANGED pending

\* an update by another program
Foreign == ledger' = Append(ledger, "none") /\ UNCHANGED pending

Next == \/ \E r \in Requests : Begin(r) \/ Complete(r) \/ GiveUp(r)
        \/ AtOnce \/ Foreign

Spec == Init /\ [][Next]_vars
=============================================================================
