----------------------------- MODULE MCVaultEcdh -----------------------------
(***************************************************************************)
(* Instances of VaultEcdh for TLC.                                         *)
(***************************************************************************)
EXTENDS VaultEcdh, TLC

CONSTANTS d1, d2, d3, c1, c2, s1

\* The vault of d1 and d3 alone, with two recipients and single-sig sends.
OneVaultStep ==
  /\ \A d \in Device : vault'[d] \in {None, {d1, d3}}
  /\ vault'[d2] = None /\ shares'[d2] = {}
  /\ \A s \in Send : held'[s] # None => held'[s].on # d2

\* Vaults that overlap, a recipient, no single-sig sends: d2, a device of all
\* of them, collects shares, and the others show theirs.
OverlapStep ==
  /\ \A d \in Device : vault'[d] # {d1, d3}
  /\ \A d \in {d1, d3} : Cardinality(shares'[d]) <= 1
  /\ \A r, s \in qrs' : r.to = s.to
  /\ \A s \in Send : held'[s] = None

Symmetric == Permutations({d1, d3}) \cup Permutations(Code)
===============================================================================
