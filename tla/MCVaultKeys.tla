----------------------------- MODULE MCVaultKeys -----------------------------
(***************************************************************************)
(* VaultEcdh for TLC in two scenarios, and the arithmetic under it in a    *)
(* group of order 11.  Module and arithmetic share no state, and a         *)
(* behaviour is of one of the three.                                       *)
(***************************************************************************)
EXTENDS MCVaultEcdh, VaultKeys

\* One nonce sum has an even y, one an odd one.
TwoPairs == {<<1, 2>>, <<3, 10>>}

\* Which of the three runs is chosen at the start.
OneVault == [kind |-> "oneVault"]
Overlap == [kind |-> "overlap"]

EitherInit == Init /\ given \in {OneVault, Overlap, Idle}

EitherNext ==
  \/ given = OneVault /\ Next /\ OneVaultStep /\ UNCHANGED given
  \/ given = Overlap /\ Next /\ OverlapStep /\ UNCHANGED given
  \/ given \notin {OneVault, Overlap} /\ (Begin \/ End) /\ UNCHANGED vars

EitherSpec == EitherInit /\ [][EitherNext]_<<vars, given>>
===============================================================================
