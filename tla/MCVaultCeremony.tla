--------------------------- MODULE MCVaultCeremony ---------------------------
(***************************************************************************)
(* Instances of VaultCeremony for TLC.                                     *)
(***************************************************************************)
EXTENDS VaultCeremony, TLC

CONSTANTS d1, d2, d3, t1, t2, a1

\* One vault of every device.
OneVault == {Device}

\* The vault of all three devices, and the one of d1 and d2 alone.
Pair == {d1, d2}
TwoVaults == {Device, Pair}

\* t1 spends the vault of all devices, t2 that of d1 and d2; both at child
\* index 1.
VaultOfAll == [t \in Tx |-> Device]
VaultByTx == [t \in Tx |-> IF t = t1 THEN Device ELSE Pair]
IndexOfAll == [m \in Msg |-> IF m \in Tx THEN 1 ELSE 0]

\* t2 spends another child index than t1.
IndexByTx == [m \in Msg |-> IF m = t1 THEN 1 ELSE IF m = t2 THEN 2 ELSE 0]

\* Scenario "pair": d1 and d2 and their vault, everything at any time, of t2
\* or of the digest a1: two spends of d1, one of d2, a nonce each.
PairNext ==
  \E d \in Pair :
    /\ \/ \E a \in Auth : NewSpend(d, a)
       \/ Send(d, t2)
       \/ GenNonce(d)
       \/ \E q \in nonceQrs : ScanNonce(d, q)
       \/ BuildSession(d)
       \/ \E q \in sessionQrs : ScanSession(d, q)
       \/ Sign(d)
       \/ \E q \in psigQrs : ScanPsig(d, q)
       \/ Finalize(d)
       \/ Broadcast(d)
       \/ BuildVault(d, Pair)
       \/ Reboot(d)
    /\ drawn'[d] <= 1 /\ opened'[d2] <= 1

\* Scenario "three": the ceremony of t1 as the README draws it, with the vault
\* restored everywhere.  d1 coordinates, the others join, show a nonce and
\* sign.  d1 may rebuild its vault at any time, without d3 or again with it,
\* and d2 may draw a second nonce at any time.
Joins(d) ==
  \/ Send(d, t1)
  \/ GenNonce(d)
  \/ \E q \in sessionQrs : ScanSession(d, q)
  \/ Sign(d)

Coordinates(d) ==
  \/ Joins(d)
  \/ \E q \in nonceQrs : ScanNonce(d, q)
  \/ BuildSession(d)
  \/ \E q \in psigQrs : ScanPsig(d, q)
  \/ Finalize(d)
  \/ Broadcast(d)
  \/ \E v \in Vault : BuildVault(d, v)

ThreeNext ==
  /\ \/ Coordinates(d1)
     \/ \E d \in Device \ {d1} : Joins(d)
  /\ \A d \in Device : opened'[d] <= 1 /\ (drawn'[d] > 1 => d = d2)

VARIABLE scenario

ScenarioInit ==
  /\ Init
  /\ \/ scenario = "pair" /\ config[d3] = {}
        /\ \A d \in Pair : config[d] # Device
     \/ scenario = "three" /\ \A d \in Device : config[d] = Device

ScenarioNext ==
  /\ \/ scenario = "pair" /\ PairNext
     \/ scenario = "three" /\ ThreeNext
  /\ UNCHANGED scenario

ScenarioSpec == ScenarioInit /\ [][ScenarioNext]_<<vars, scenario>>

\* Every device does anything.
FreeSpec ==
  /\ Init /\ scenario = "free"
  /\ [][Next /\ UNCHANGED scenario]_<<vars, scenario>>
===============================================================================
