----------------------------- MODULE VaultSigning -----------------------------
(***************************************************************************)
(* What the vault promises, with no rounds, nonces or QR codes: a statement*)
(* (a key and a message) is signed only when every one of its signers      *)
(* approved that very statement, and a transaction settles only if it was  *)
(* signed.                                                                 *)
(***************************************************************************)
CONSTANTS
  Statement,   \* what can be signed
  Signers(_)   \* Signers(s): the devices whose approval s needs

VARIABLES approvals, released, settled

vars == <<approvals, released, settled>>

Init == approvals = {} /\ released = {} /\ settled = {}

Approve(d, s) ==
  /\ approvals' = approvals \cup {[by |-> d, what |-> s]}
  /\ UNCHANGED <<released, settled>>

Release(s) ==
  /\ \A d \in Signers(s) : [by |-> d, what |-> s] \in approvals
  /\ released' = released \cup {s}
  /\ UNCHANGED <<approvals, settled>>

Settle(s) ==
  /\ s \in released
  /\ settled' = settled \cup {s}
  /\ UNCHANGED <<approvals, released>>

Next ==
  \E s \in Statement :
    \/ \E d \in Signers(s) : Approve(d, s)
    \/ Release(s)
    \/ Settle(s)

Spec == Init /\ [][Next]_vars
===============================================================================
