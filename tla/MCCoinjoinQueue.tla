--------------------------- MODULE MCCoinjoinQueue ---------------------------
(***************************************************************************)
(* Instances of CoinjoinQueue for TLC: two requests that parse and one that*)
(* does not.                                                               *)
(***************************************************************************)
EXTENDS CoinjoinQueue, TLC

CONSTANTS p1, p2, bad, k1, k2

\* The two requests that parse have different mix ids.
MixIds == (p1 :> 1) @@ (p2 :> 2) @@ (bad :> 3)

\* The two requests that parse have one mix id.
OneMixId == [p \in Psbt |-> 1]

AllOnce    == [p \in Psbt |-> 1]
FirstTwice == [p \in Psbt |-> IF p = p1 THEN 2 ELSE 1]
===============================================================================
