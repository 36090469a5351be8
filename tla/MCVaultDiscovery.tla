-------------------------- MODULE MCVaultDiscovery --------------------------
(***************************************************************************)
(* VaultDiscovery on small instances.                                      *)
(***************************************************************************)
EXTENDS VaultDiscovery, TLC

CONSTANTS a, aAgain, b, c, torn, early, late, plain, t1, t2

\* aAgain is another code of the device of a; torn does not parse.
Keys == a :> "ka" @@ aAgain :> "ka" @@ b :> "kb" @@ c :> "kc" @@ torn :> None

ScanOrder == <<a, aAgain, b, c>>

\* A coin of the first vault, one of the vault that replaces it, and one paid
\* to a displayed address of the first vault.
AllOutputs ==
     early :> [vault |-> {a, b}, index |-> 0, kind |-> "p2tr"]
  @@ late :> [vault |-> {a, b, c}, index |-> 1, kind |-> "p2tr"]
  @@ plain :> [vault |-> {a, b}, index |-> 0, kind |-> "p2pkh"]

Outputs == [x \in Coin |-> AllOutputs[x]]
Satoshis == [x \in Coin |-> IF x = late THEN 1 ELSE IF x = early THEN 2 ELSE 3]
=============================================================================
