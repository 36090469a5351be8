---------------------------- MODULE VaultKeysProofs ----------------------------
(***************************************************************************)
(* Proofs about the threshold ECDH of vaults (VaultEcdh), for any devices, *)
(* vaults, recipients and bounds, and about the arithmetic of their keys   *)
(* (Musig, VaultKeys), for any group, number of participants, hashes and   *)
(* nonces.                                                                 *)
(*                                                                         *)
(* The arithmetic is proved modulo the order: each operation of musig.rs   *)
(* gives a number with the remainder of the one a reader expects (Same),   *)
(* each fold one with the remainder of a sum along its sequence (Total),   *)
(* and two scalars with the same remainder are equal (SameScalar).         *)
(***************************************************************************)
EXTENDS VaultEcdh, VaultKeys, FoldTheorems, FiniteSetTheorems, TLAPS

LEMMA TypeStep ==
  ASSUME TypeOK, [Next]_vars
  PROVE  TypeOK'
<1>1. ASSUME NEW d \in Device, NEW v \in VaultSet, BuildVault(d, v)
      PROVE  TypeOK'
  BY <1>1 DEF BuildVault, TypeOK, historyVars
<1>2. ASSUME NEW d \in Device, NEW c \in Code, StartSend(d, c)
      PROVE  TypeOK'
  <2>1. ShareOf(d, c) \in Share
    BY <1>2 DEF StartSend, ShareOf, Share, TypeOK
  <2> QED BY <2>1, <1>2 DEF StartSend, TypeOK, historyVars
<1>3. ASSUME NEW d \in Device, NEW s \in qrs, ScanShare(d, s)
      PROVE  TypeOK'
  BY <1>3 DEF ScanShare, TypeOK, historyVars
<1>4. ASSUME NEW d \in Device, FinishShort(d)
      PROVE  TypeOK'
  BY <1>4 DEF FinishShort, TypeOK, historyVars
<1>5. ASSUME NEW d \in Device, NEW funded \in BOOLEAN, Finish(d, funded)
      PROVE  TypeOK'
  <2>1. pending[d] \in Code /\ vault[d] \in VaultSet
    BY <1>5 DEF Finish, TypeOK
  <2>2. PaymentOf(d) \in Payment
    BY <2>1 DEF PaymentOf, Payment, TypeOK
  <2>3. index' \in [Device -> [Code -> Nat]]
    BY <2>1, <1>5 DEF Finish, TypeOK
  <2>4. tx' \in [Device -> Payment \cup {None}]
    BY <2>2, <1>5 DEF Finish, TypeOK
  <2>5. early' \subseteq Send /\ putBack' \in [Device -> BOOLEAN]
    BY <1>5 DEF Finish, TypeOK, UnderWay, historyVars
  <2> QED BY <2>3, <2>4, <2>5, <1>5 DEF Finish, TypeOK
<1>6. ASSUME NEW d \in Device, NEW s \in Send, NEW c \in Code \cup {None},
             SingleSigLoad(d, s, c)
      PROVE  TypeOK'
  <2>1. [on |-> d, to |-> c, copy |-> index[d]] \in Held
    BY DEF Held, TypeOK
  <2> QED BY <2>1, <1>6 DEF SingleSigLoad, TypeOK, r0Vars, historyVars
<1>7. ASSUME NEW s \in Send, SingleSigSave(s)
      PROVE  TypeOK'
  <2>1. held[s] \in Held
    BY <1>7 DEF SingleSigSave, TypeOK
  <2>2. held[s].on \in Device /\ TakenIn(held[s]) \in [Code -> Nat]
    BY <2>1 DEF Held, TakenIn
  <2>3. putBack' \in [Device -> BOOLEAN]
    BY <1>7, <2>2 DEF SingleSigSave, TypeOK
  <2> QED BY <2>2, <2>3, <1>7 DEF SingleSigSave, TypeOK, r0Vars
<1>8. ASSUME NEW s \in Send, SingleSigFails(s)
      PROVE  TypeOK'
  BY <1>8 DEF SingleSigFails, TypeOK, r0Vars
<1>9. ASSUME NEW d \in Device, Reboot(d)
      PROVE  TypeOK'
  BY <1>9 DEF Reboot, TypeOK
<1>10. CASE UNCHANGED vars
  BY <1>10 DEF vars, r0Vars, historyVars, TypeOK
<1> QED BY <1>1, <1>2, <1>3, <1>4, <1>5, <1>6, <1>7, <1>8, <1>9, <1>10 DEF Next

\* Every variable keeps its type.
THEOREM TypeCorrect == Spec => []TypeOK
<1>1. Init => TypeOK
  BY DEF Init, TypeOK
<1>2. TypeOK /\ [Next]_vars => TypeOK'
  BY TypeStep
<1> QED BY <1>1, <1>2, PTL DEF Spec

-------------------------------------------------------------------------------
(***************************************************************************)
(* Different devices: each collection of shares has one per device key.    *)
(***************************************************************************)
OnePerDevice(S) == \A r, s \in S : r.by = s.by => r = s

DifferentInv ==
  /\ TypeOK
  /\ \A d \in Device : OnePerDevice(shares[d])
  /\ SharesOfDifferentDevices

LEMMA DifferentStep ==
  ASSUME DifferentInv, [Next]_vars
  PROVE  DifferentInv'
<1>0. TypeOK'
  BY TypeStep DEF DifferentInv
<1>k. ASSUME \A d \in Device : shares'[d] \subseteq shares[d] \/ OnePerDevice(shares'[d]),
             \A d \in Device : tx'[d] \in {tx[d], None}
      PROVE  DifferentInv'
  <2>1. \A d \in Device : OnePerDevice(shares'[d])
    BY <1>k DEF DifferentInv, OnePerDevice
  <2>2. SharesOfDifferentDevices'
    BY <1>k DEF DifferentInv, SharesOfDifferentDevices, Paying
  <2> QED BY <1>0, <2>1, <2>2 DEF DifferentInv
<1> USE DEF DifferentInv
<1>1. ASSUME NEW d \in Device, NEW v \in VaultSet, BuildVault(d, v)
      PROVE  DifferentInv'
  BY <1>1, <1>k DEF BuildVault
<1>2. ASSUME NEW d \in Device, NEW c \in Code, StartSend(d, c)
      PROVE  DifferentInv'
  BY <1>2, <1>k DEF StartSend, TypeOK, OnePerDevice
<1>3. ASSUME NEW d \in Device, NEW s \in qrs, ScanShare(d, s)
      PROVE  DifferentInv'
  BY <1>3, <1>k DEF ScanShare, TypeOK, OnePerDevice
<1>4. ASSUME NEW d \in Device, FinishShort(d)
      PROVE  DifferentInv'
  BY <1>4, <1>k DEF FinishShort, TypeOK
<1>5. ASSUME NEW d \in Device, NEW funded \in BOOLEAN, Finish(d, funded)
      PROVE  DifferentInv'
  <2>1. \A e \in Device : OnePerDevice(shares'[e])
    BY <1>5 DEF Finish, TypeOK, OnePerDevice
  <2>2. PaymentOf(d).shares = shares[d] /\ PaymentOf(d).vault = vault[d]
    BY DEF PaymentOf
  <2>3. \A e \in Device : tx'[e] = tx[e] \/ (e = d /\ tx'[e] = PaymentOf(d))
    BY <1>5 DEF Finish, TypeOK
  <2>4. SharesOfDifferentDevices'
    BY <2>2, <2>3, <1>5 DEF Finish, Enough, OnePerDevice, SharesOfDifferentDevices, Paying
  <2> QED BY <1>0, <2>1, <2>4
<1>6. ASSUME NEW d \in Device, NEW s \in Send, NEW c \in Code \cup {None},
             SingleSigLoad(d, s, c)
      PROVE  DifferentInv'
  BY <1>6, <1>k DEF SingleSigLoad, r0Vars
<1>7. ASSUME NEW s \in Send, SingleSigSave(s)
      PROVE  DifferentInv'
  BY <1>7, <1>k DEF SingleSigSave, r0Vars
<1>8. ASSUME NEW s \in Send, SingleSigFails(s)
      PROVE  DifferentInv'
  BY <1>8, <1>k DEF SingleSigFails, r0Vars
<1>9. ASSUME NEW d \in Device, Reboot(d)
      PROVE  DifferentInv'
  BY <1>9, <1>k DEF Reboot, TypeOK
<1>10. CASE UNCHANGED vars
  BY <1>10, <1>k DEF vars, r0Vars
<1> QED BY <1>1, <1>2, <1>3, <1>4, <1>5, <1>6, <1>7, <1>8, <1>9, <1>10 DEF Next

LEMMA DifferentInit == Init => DifferentInv
<1> SUFFICES ASSUME Init PROVE DifferentInv
  OBVIOUS
<1>1. TypeOK
  BY DEF Init, TypeOK
<1> QED BY <1>1 DEF Init, DifferentInv, OnePerDevice, SharesOfDifferentDevices, Paying

\* No device's share counts twice towards a payment, and there are as many as
\* the vault has participants.
THEOREM DifferentDevices == Spec => []SharesOfDifferentDevices
<1>1. DifferentInv /\ [Next]_vars => DifferentInv'
  BY DifferentStep
<1>2. DifferentInv => SharesOfDifferentDevices
  BY DEF DifferentInv
<1> QED BY DifferentInit, <1>1, <1>2, PTL DEF Spec

\* Shares of different devices: as many devices as shares.
LEMMA AsManyDevices ==
  ASSUME NEW S \in SUBSET Share, OnePerDevice(S)
  PROVE  /\ {s.by : s \in S} \in SUBSET Device
         /\ Cardinality({s.by : s \in S}) = Cardinality(S)
<1> DEFINE B == {s.by : s \in S}
           f == [s \in S |-> s.by]
<1>1. B \subseteq Device
  BY DEF Share
<1>2. IsFiniteSet(B)
  <2> HIDE DEF B
  <2> QED BY <1>1, ConstantsOK, FS_Subset
<1>3. f \in Bijection(S, B)
  BY DEF OnePerDevice, Bijection, Injection, Surjection, IsInjective
<1>4. IsFiniteSet(S)
  <2>1. f \in Injection(S, B)
    BY <1>3 DEF Bijection
  <2> HIDE DEF f, B
  <2> QED BY <2>1, <1>2, FS_Injection
<1>5. Cardinality(S) = Cardinality(B)
  <2> HIDE DEF f, B
  <2>1. ExistsBijection(S, B)
    BY <1>3 DEF ExistsBijection
  <2> QED BY <2>1, <1>4, FS_Bijection
<1> QED BY <1>1, <1>5

\* Two finite sets of devices: what is missing of V in an S no smaller is made
\* up for by what S has beyond V.
LEMMA MissingReplaced ==
  ASSUME NEW V, NEW B, IsFiniteSet(V), IsFiniteSet(B), Cardinality(B) >= Cardinality(V)
  PROVE  Cardinality(V \ B) <= Cardinality(B \ V)
<1>1. /\ Cardinality(V \ B) = Cardinality(V) - Cardinality(V \cap B)
      /\ Cardinality(B \ V) = Cardinality(B) - Cardinality(B \cap V)
  BY FS_Difference
<1>2. Cardinality(V \cap B) = Cardinality(B \cap V)
  <2>1. V \cap B = B \cap V
    OBVIOUS
  <2> QED BY <2>1
<1>3. IsFiniteSet(B \cap V)
  BY FS_Intersection
<1>4. /\ Cardinality(V) \in Nat /\ Cardinality(B) \in Nat
      /\ Cardinality(B \cap V) \in Nat
  BY <1>3, FS_CardinalityType
<1> QED BY <1>1, <1>2, <1>4

\* Whatever vaults there are and however they overlap, whoever is left out of a
\* payment has given way to a device outside its vault.
THEOREM LeftOut == Spec => []LeftOutOnlyForOutsiders
<1>1. DifferentInv /\ [Next]_vars => DifferentInv'
  BY DifferentStep
<1>2. DifferentInv => LeftOutOnlyForOutsiders
  <2> SUFFICES ASSUME DifferentInv, NEW d \in Paying
               PROVE  Cardinality(tx[d].vault \ {s.by : s \in tx[d].shares})
                        <= Cardinality({s.by : s \in tx[d].shares} \ tx[d].vault)
    BY DEF LeftOutOnlyForOutsiders
  <2> DEFINE B == {s.by : s \in tx[d].shares}
  <2>1. tx[d] \in Payment
    BY DEF DifferentInv, TypeOK, Paying
  <2>2. tx[d].vault \in VaultSet /\ tx[d].shares \in SUBSET Share
    BY <2>1 DEF Payment
  <2>3. OnePerDevice(tx[d].shares) /\ Cardinality(tx[d].shares) >= Cardinality(tx[d].vault)
    BY DEF DifferentInv, SharesOfDifferentDevices, OnePerDevice
  <2>4. B \in SUBSET Device /\ Cardinality(B) = Cardinality(tx[d].shares)
    BY <2>2, <2>3, AsManyDevices
  <2> HIDE DEF B
  <2>5. IsFiniteSet(B) /\ IsFiniteSet(tx[d].vault)
    BY <2>2, <2>4, ConstantsOK, FS_Subset
  <2>6. Cardinality(tx[d].vault \ B) <= Cardinality(B \ tx[d].vault)
    BY <2>3, <2>4, <2>5, MissingReplaced
  <2> QED BY <2>6 DEF B
<1> QED BY DifferentInit, <1>1, <1>2, PTL DEF Spec

-------------------------------------------------------------------------------
(***************************************************************************)
(* The counters.  What a payment has taken is taken in the file and in     *)
(* every copy loaded since, until an earlier copy is saved.                *)
(***************************************************************************)
Past(counters, p) == p.index < counters[p.to]

BackInv ==
  /\ TypeOK
  /\ \A d \in Paying : ~putBack[d] =>
       /\ Past(index[d], tx[d])
       /\ \A s \in UnderWay(d) \ early : Past(held[s].copy, tx[d])

\* A step that changes no payment and takes back no index.
LEMMA BackKept ==
  ASSUME BackInv, TypeOK',
         \A d \in Device : tx'[d] \in {tx[d], None},
         \A d \in Device : putBack'[d] = putBack[d],
         \A d \in Device : \A c \in Code : index'[d][c] >= index[d][c],
         \A s \in Send : held'[s] \in {held[s], None},
         \A s \in Send : held'[s] # None => (s \in early' <=> s \in early)
  PROVE  BackInv'
<1> SUFFICES ASSUME NEW d \in Device, tx'[d] # None, ~putBack'[d]
             PROVE  /\ Past(index'[d], tx'[d])
                    /\ \A s \in UnderWay(d)' \ early' : Past(held'[s].copy, tx'[d])
  BY DEF BackInv, Paying
<1>1. tx'[d] = tx[d] /\ tx[d] \in Payment
  BY DEF BackInv, TypeOK
<1>2. tx[d].to \in Code /\ tx[d].index \in Nat
  BY <1>1 DEF Payment
<1>3. /\ Past(index[d], tx[d])
      /\ \A s \in UnderWay(d) \ early : Past(held[s].copy, tx[d])
  BY <1>1 DEF BackInv, Paying
<1>4. index[d][tx[d].to] \in Nat /\ index'[d][tx[d].to] \in Nat
  BY <1>2 DEF BackInv, TypeOK
<1>5. Past(index'[d], tx'[d])
  BY <1>1, <1>2, <1>3, <1>4 DEF Past
<1>6. ASSUME NEW s \in UnderWay(d)' \ early' PROVE Past(held'[s].copy, tx'[d])
  <2>1. s \in UnderWay(d) \ early /\ held'[s] = held[s]
    BY <1>6 DEF UnderWay
  <2> QED BY <1>1, <1>3, <2>1
<1> QED BY <1>5, <1>6

LEMMA BackFinish ==
  ASSUME BackInv, TypeOK', NEW d \in Device, Finish(d, TRUE)
  PROVE  BackInv'
<1> USE DEF BackInv
<1>1. pending[d] \in Code
  BY DEF Finish, TypeOK
<1>2. /\ \A e \in Device : e # d => /\ tx'[e] = tx[e]
                                    /\ putBack'[e] = putBack[e]
                                    /\ index'[e] = index[e]
      /\ held' = held /\ early' = early \cup UnderWay(d)
  BY DEF Finish, TypeOK
<1>3. /\ tx'[d].to = pending[d] /\ tx'[d].index = index[d][pending[d]]
      /\ index'[d][pending[d]] = index[d][pending[d]] + 1
  BY <1>1 DEF Finish, PaymentOf, TypeOK
<1>4. Past(index'[d], tx'[d])
  BY <1>1, <1>3 DEF Past, TypeOK
<1>5. \A e \in Device : UnderWay(e)' = UnderWay(e)
  BY <1>2 DEF UnderWay
<1>6. ASSUME NEW e \in Device, tx'[e] # None, ~putBack'[e]
      PROVE  /\ Past(index'[e], tx'[e])
             /\ \A s \in UnderWay(e)' \ early' : Past(held'[s].copy, tx'[e])
  <2>1. CASE e = d
    BY <2>1, <1>2, <1>4, <1>5
  <2>2. CASE e # d
    BY <2>2, <1>2, <1>5, <1>6 DEF Paying
  <2> QED BY <2>1, <2>2
<1> QED BY <1>6 DEF Paying

LEMMA BackLoad ==
  ASSUME BackInv, TypeOK', NEW d \in Device, NEW s \in Send,
         NEW c \in Code \cup {None}, SingleSigLoad(d, s, c)
  PROVE  BackInv'
<1> USE DEF BackInv
<1>1. /\ index' = index /\ tx' = tx /\ putBack' = putBack /\ early' = early
      /\ held'[s] = [on |-> d, to |-> c, copy |-> index[d]]
      /\ \A r \in Send : r # s => held'[r] = held[r]
  BY DEF SingleSigLoad, r0Vars, historyVars, TypeOK
<1>2. ASSUME NEW e \in Device, tx[e] # None, ~putBack[e],
             NEW r \in UnderWay(e)' \ early
      PROVE  Past(held'[r].copy, tx[e])
  <2>1. CASE r = s
    <3>1. e = d /\ held'[r].copy = index[d]
      BY <2>1, <1>1, <1>2 DEF UnderWay
    <3> QED BY <3>1, <1>2 DEF Paying
  <2>2. CASE r # s
    <3>1. r \in UnderWay(e) \ early /\ held'[r] = held[r]
      BY <2>2, <1>1, <1>2 DEF UnderWay
    <3> QED BY <3>1, <1>2 DEF Paying
  <2> QED BY <2>1, <2>2
<1> QED BY <1>1, <1>2 DEF Paying

LEMMA BackSave ==
  ASSUME BackInv, TypeOK', NEW s \in Send, SingleSigSave(s)
  PROVE  BackInv'
<1> USE DEF BackInv
<1> DEFINE d == held[s].on
<1>1. held[s] \in Held /\ d \in Device
  BY DEF SingleSigSave, TypeOK, Held
<1>2. /\ tx' = tx /\ early' = early \ {s} /\ held'[s] = None
      /\ \A r \in Send : r # s => held'[r] = held[r]
      /\ \A e \in Device : e # d => index'[e] = index[e] /\ putBack'[e] = putBack[e]
      /\ index'[d] = TakenIn(held[s])
      /\ ~putBack'[d] => ~putBack[d] /\ s \notin early
  BY <1>1 DEF SingleSigSave, r0Vars, TypeOK
<1>3. \A e \in Device : UnderWay(e)' \ early' \subseteq UnderWay(e) \ early
  BY <1>2 DEF UnderWay
<1>4. \A e \in Device : \A r \in UnderWay(e)' : held'[r] = held[r]
  BY <1>2 DEF UnderWay
<1>5. ASSUME tx[d] # None, ~putBack'[d]
      PROVE  Past(index'[d], tx[d])
  <2>1. s \in UnderWay(d) \ early
    BY <1>2, <1>5 DEF SingleSigSave, UnderWay
  <2>2. Past(held[s].copy, tx[d])
    BY <2>1, <1>1, <1>2, <1>5 DEF Paying
  <2>3. tx[d].to \in Code /\ tx[d].index \in Nat
    BY <1>1, <1>5 DEF TypeOK, Payment
  <2>4. held[s].copy[tx[d].to] \in Nat
    BY <1>1, <2>3 DEF Held
  <2>5. TakenIn(held[s])[tx[d].to] >= held[s].copy[tx[d].to]
    BY <2>3, <2>4 DEF TakenIn
  <2>6. TakenIn(held[s])[tx[d].to] \in Nat
    BY <2>3, <2>4 DEF TakenIn
  <2> QED BY <1>2, <2>2, <2>3, <2>4, <2>5, <2>6 DEF Past
<1>6. ASSUME NEW e \in Device, tx'[e] # None, ~putBack'[e]
      PROVE  /\ Past(index'[e], tx'[e])
             /\ \A r \in UnderWay(e)' \ early' : Past(held'[r].copy, tx'[e])
  <2> HIDE DEF d
  <2>1. ~putBack[e] /\ tx[e] # None
    BY <1>2, <1>6
  <2>2. Past(index'[e], tx'[e])
    BY <2>1, <1>2, <1>5, <1>6 DEF Paying
  <2> QED BY <2>1, <2>2, <1>2, <1>3, <1>4 DEF Paying
<1> QED BY <1>6 DEF Paying

LEMMA BackStep ==
  ASSUME BackInv, [Next]_vars
  PROVE  BackInv'
<1>0. TypeOK'
  BY TypeStep DEF BackInv
<1>i. ASSUME index' = index
      PROVE  \A d \in Device : \A c \in Code : index'[d][c] >= index[d][c]
  BY <1>i DEF BackInv, TypeOK
<1>1. ASSUME NEW d \in Device, NEW v \in VaultSet, BuildVault(d, v)
      PROVE  BackInv'
  BY <1>0, <1>1, <1>i, BackKept DEF BuildVault, historyVars
<1>2. ASSUME NEW d \in Device, NEW c \in Code, StartSend(d, c)
      PROVE  BackInv'
  BY <1>0, <1>2, <1>i, BackKept DEF StartSend, historyVars
<1>3. ASSUME NEW d \in Device, NEW s \in qrs, ScanShare(d, s)
      PROVE  BackInv'
  BY <1>0, <1>3, <1>i, BackKept DEF ScanShare, historyVars
<1>4. ASSUME NEW d \in Device, FinishShort(d)
      PROVE  BackInv'
  BY <1>0, <1>4, <1>i, BackKept DEF FinishShort, historyVars
<1>5. ASSUME NEW d \in Device, NEW funded \in BOOLEAN, Finish(d, funded)
      PROVE  BackInv'
  <2>1. CASE funded = TRUE
    BY <2>1, <1>0, <1>5, BackFinish
  <2>2. CASE funded = FALSE
    <3>1. \A e \in Device : \A c \in Code : index'[e][c] >= index[e][c]
      BY <1>5 DEF Finish, BackInv, TypeOK
    <3> QED BY <2>2, <3>1, <1>0, <1>5, BackKept DEF Finish, historyVars
  <2> QED BY <2>1, <2>2
<1>6. ASSUME NEW d \in Device, NEW s \in Send, NEW c \in Code \cup {None},
             SingleSigLoad(d, s, c)
      PROVE  BackInv'
  BY <1>0, <1>6, BackLoad
<1>7. ASSUME NEW s \in Send, SingleSigSave(s)
      PROVE  BackInv'
  BY <1>0, <1>7, BackSave
<1>8. ASSUME NEW s \in Send, SingleSigFails(s)
      PROVE  BackInv'
  <2>1. \A r \in Send : held'[r] \in {held[r], None}
    BY <1>8 DEF SingleSigFails, BackInv, TypeOK
  <2>2. \A r \in Send : held'[r] # None => (r \in early' <=> r \in early)
    BY <1>8 DEF SingleSigFails, BackInv, TypeOK
  <2> QED BY <2>1, <2>2, <1>0, <1>8, <1>i, BackKept DEF SingleSigFails, r0Vars
<1>9. ASSUME NEW d \in Device, Reboot(d)
      PROVE  BackInv'
  <2>1. BackInv /\ index' = index
    BY <1>9 DEF Reboot
  <2>2. /\ tx'[d] = None
        /\ \A e \in Device : e # d => tx'[e] = tx[e] /\ putBack'[e] = putBack[e]
    BY <1>9 DEF Reboot, BackInv, TypeOK
  <2>3. \A e \in Device : /\ UnderWay(e)' \ early' \subseteq UnderWay(e) \ early
                          /\ \A r \in UnderWay(e)' : held'[r] = held[r]
    BY <1>9 DEF Reboot, UnderWay
  <2> QED BY <1>0, <2>1, <2>2, <2>3 DEF BackInv, Paying
<1>10. CASE UNCHANGED vars
  BY <1>0, <1>10, <1>i, BackKept DEF vars, r0Vars, historyVars
<1> QED BY <1>1, <1>2, <1>3, <1>4, <1>5, <1>6, <1>7, <1>8, <1>9, <1>10 DEF Next

\* Only a send or a worker that had loaded config.json before a payment's end
\* of R0 can make its index the next one again (main.rs:1246, 838), however
\* many of them overlap.
THEOREM OnlyEarlySends == Spec => []OnlyEarlyPutsBack
<1>1. Init => BackInv
  <2> SUFFICES ASSUME Init PROVE BackInv
    OBVIOUS
  <2>1. TypeOK
    BY DEF Init, TypeOK
  <2> QED BY <2>1 DEF Init, BackInv, Paying
<1>2. BackInv /\ [Next]_vars => BackInv'
  BY BackStep
<1>3. BackInv => OnlyEarlyPutsBack
  BY DEF BackInv, OnlyEarlyPutsBack, Past
<1> QED BY <1>1, <1>2, <1>3, PTL DEF Spec

-------------------------------------------------------------------------------
(***************************************************************************)
(* The device's own share.  From R0 to its end it is for the pending       *)
(* recipient, and over the child key at the counter's value unless single- *)
(* sig sends move the counter.                                             *)
(***************************************************************************)
OwnIn(S, d, c, i) ==
  \E s \in S : s.by = d /\ s.to = c /\ (SharedCounter \/ s.index = i)

OwnInv ==
  /\ TypeOK
  /\ \A d \in Device :
       pending[d] # None => OwnIn(shares[d], d, pending[d], index[d][pending[d]])
  /\ OwnShareIsForThisSend

LEMMA OwnStep ==
  ASSUME OwnInv, [Next]_vars
  PROVE  OwnInv'
<1>0. TypeOK'
  BY TypeStep DEF OwnInv
<1>k. ASSUME NEW d \in Device,
             \A e \in Device : e # d => /\ pending'[e] = pending[e]
                                       /\ shares'[e] = shares[e]
                                       /\ index'[e] = index[e]
                                       /\ tx'[e] = tx[e],
             pending'[d] # None => OwnIn(shares'[d], d, pending'[d], index'[d][pending'[d]]),
             tx'[d] # None => OwnIn(tx'[d].shares, d, tx'[d].to, tx'[d].index)
      PROVE  OwnInv'
  BY <1>0, <1>k DEF OwnInv, OwnIn, OwnShareIsForThisSend, Paying
<1>t. \A d \in Device : tx[d] # None => OwnIn(tx[d].shares, d, tx[d].to, tx[d].index)
  BY DEF OwnInv, OwnIn, OwnShareIsForThisSend, Paying
<1> USE DEF OwnInv
<1>1. ASSUME NEW d \in Device, NEW v \in VaultSet, BuildVault(d, v)
      PROVE  OwnInv'
  BY <1>1, <1>k, <1>t DEF BuildVault
<1>2. ASSUME NEW d \in Device, NEW c \in Code, StartSend(d, c)
      PROVE  OwnInv'
  <2>1. OwnIn({ShareOf(d, c)}, d, c, index[d][c])
    BY DEF OwnIn, ShareOf
  <2>2. shares'[d] = {ShareOf(d, c)} /\ pending'[d] = c
    BY <1>2 DEF StartSend, TypeOK
  <2> QED BY <2>1, <2>2, <1>2, <1>k, <1>t DEF StartSend, TypeOK
<1>3. ASSUME NEW d \in Device, NEW s \in qrs, ScanShare(d, s)
      PROVE  OwnInv'
  <2>1. shares[d] \subseteq shares'[d]
    BY <1>3 DEF ScanShare, TypeOK
  <2>2. pending[d] # None => OwnIn(shares'[d], d, pending[d], index[d][pending[d]])
    BY <2>1 DEF OwnIn
  <2> QED BY <2>2, <1>3, <1>k, <1>t DEF ScanShare, TypeOK
<1>4. ASSUME NEW d \in Device, FinishShort(d)
      PROVE  OwnInv'
  BY <1>4, <1>k, <1>t DEF FinishShort, TypeOK
<1>5. ASSUME NEW d \in Device, NEW funded \in BOOLEAN, Finish(d, funded)
      PROVE  OwnInv'
  <2>1. OwnIn(shares[d], d, pending[d], index[d][pending[d]])
    BY <1>5 DEF Finish
  <2>2. OwnIn(PaymentOf(d).shares, d, PaymentOf(d).to, PaymentOf(d).index)
    BY <2>1 DEF PaymentOf
  <2>3. tx'[d] \in {tx[d], PaymentOf(d)} /\ pending'[d] = None
    BY <1>5 DEF Finish, TypeOK
  <2> QED BY <2>2, <2>3, <1>5, <1>k, <1>t DEF Finish, TypeOK
<1>6. ASSUME NEW d \in Device, NEW s \in Send, NEW c \in Code \cup {None},
             SingleSigLoad(d, s, c)
      PROVE  OwnInv'
  BY <1>6, <1>0 DEF SingleSigLoad, r0Vars, OwnShareIsForThisSend, Paying
<1>7. ASSUME NEW s \in Send, SingleSigSave(s)
      PROVE  OwnInv'
  <2> DEFINE d == held[s].on
  <2>1. SharedCounter /\ d \in Device
    BY <1>7 DEF SingleSigSave, SharedCounter, TypeOK, Held
  <2>2. \A e \in Device : pending[e] # None =>
          OwnIn(shares[e], e, pending[e], index'[e][pending[e]])
    BY <2>1 DEF OwnIn
  <2> QED BY <2>2, <1>0, <1>7 DEF SingleSigSave, r0Vars, OwnShareIsForThisSend, Paying
<1>8. ASSUME NEW s \in Send, SingleSigFails(s)
      PROVE  OwnInv'
  BY <1>8, <1>0 DEF SingleSigFails, r0Vars, OwnShareIsForThisSend, Paying
<1>9. ASSUME NEW d \in Device, Reboot(d)
      PROVE  OwnInv'
  BY <1>9, <1>k DEF Reboot, TypeOK
<1>10. CASE UNCHANGED vars
  BY <1>0, <1>10 DEF vars, r0Vars, OwnShareIsForThisSend, Paying
<1> QED BY <1>1, <1>2, <1>3, <1>4, <1>5, <1>6, <1>7, <1>8, <1>9, <1>10 DEF Next

\* For any devices, vaults, recipients and interleaving, the device that builds
\* a payment (on_vault_ecdh_finish) counts a share of its own for that payment.
THEOREM OwnShare == Spec => []OwnShareIsForThisSend
<1>1. Init => OwnInv
  <2> SUFFICES ASSUME Init PROVE OwnInv
    OBVIOUS
  <2>1. TypeOK
    BY DEF Init, TypeOK
  <2> QED BY <2>1 DEF Init, OwnInv, OwnShareIsForThisSend, Paying
<1>2. OwnInv /\ [Next]_vars => OwnInv'
  BY OwnStep
<1>3. OwnInv => OwnShareIsForThisSend
  BY DEF OwnInv
<1> QED BY <1>1, <1>2, <1>3, PTL DEF Spec

-------------------------------------------------------------------------------
(***************************************************************************)
(* Arithmetic modulo the order.                                            *)
(***************************************************************************)
LEMMA DivMod ==
  ASSUME NEW n \in Nat, n > 0, NEW a \in Int
  PROVE  /\ a % n \in 0 .. n - 1 /\ a \div n \in Int
         /\ a = n * (a \div n) + (a % n)
OBVIOUS

LEMMA ModUnique ==
  ASSUME NEW n \in Nat, n > 0, NEW q \in Int, NEW r \in 0 .. n - 1
  PROVE  (n * q + r) % n = r
OBVIOUS

\* Same remainder: the numbers of one point, or of one scalar.
Same(a, b) == a % Order = b % Order

\* Numbers with the same remainder are a multiple of the order apart.
LEMMA SameApart ==
  ASSUME NEW a \in Int, NEW b \in Int
  PROVE  Same(a, b) <=> \E k \in Int : a = b + Order * k
<1>1. Order \in Nat /\ Order > 0
  BY OrderOK
<1>2. ASSUME Same(a, b) PROVE \E k \in Int : a = b + Order * k
  <2> DEFINE p == a \div Order
             q == b \div Order
  <2>1. /\ p \in Int /\ q \in Int /\ a % Order \in Int
        /\ a = Order * p + (a % Order) /\ b = Order * q + (b % Order)
    BY <1>1, DivMod
  <2> HIDE DEF p, q
  <2>2. Order * (p - q) = Order * p - Order * q
    BY <1>1, <2>1
  <2>3. a = b + Order * (p - q) /\ p - q \in Int
    BY <1>1, <1>2, <2>1, <2>2 DEF Same
  <2> QED BY <2>3
<1>3. ASSUME NEW k \in Int, a = b + Order * k PROVE Same(a, b)
  <2> DEFINE q == b \div Order
             r == b % Order
  <2>1. q \in Int /\ r \in 0 .. Order - 1 /\ b = Order * q + r
    BY <1>1, DivMod
  <2> HIDE DEF q, r
  <2>2. Order * (q + k) = Order * q + Order * k /\ q + k \in Int
    BY <1>1, <2>1
  <2>3. a = Order * (q + k) + r
    BY <1>1, <1>3, <2>1, <2>2
  <2>4. a % Order = r
    BY <1>1, <2>1, <2>2, <2>3, ModUnique
  <2> QED BY <2>4 DEF Same, r
<1> QED BY <1>2, <1>3

LEMMA SameIs ==
  ASSUME NEW a \in Int, NEW b \in Int, a = b
  PROVE  Same(a, b)
BY DEF Same

LEMMA SameSwap == ASSUME NEW a, NEW b, Same(a, b) PROVE Same(b, a)
BY DEF Same

LEMMA SameTrans ==
  ASSUME NEW a, NEW b, NEW c, Same(a, b), Same(b, c)
  PROVE  Same(a, c)
BY DEF Same

LEMMA SameAdd ==
  ASSUME NEW a \in Int, NEW b \in Int, NEW c \in Int, NEW d \in Int,
         Same(a, c), Same(b, d)
  PROVE  Same(a + b, c + d)
<1>1. PICK k \in Int : a = c + Order * k
  BY SameApart
<1>2. PICK l \in Int : b = d + Order * l
  BY SameApart
<1>3. Order * (k + l) = Order * k + Order * l /\ Order \in Int
  BY OrderOK
<1>4. a + b = (c + d) + Order * (k + l) /\ k + l \in Int
  BY <1>1, <1>2, <1>3
<1> QED BY <1>4, SameApart

LEMMA SameMul ==
  ASSUME NEW a \in Int, NEW c \in Int, NEW m \in Int, Same(a, c)
  PROVE  Same(a * m, c * m) /\ Same(m * a, m * c)
<1>1. PICK k \in Int : a = c + Order * k
  BY SameApart
<1>2. Order \in Int
  BY OrderOK
<1>3. (c + Order * k) * m = c * m + Order * (k * m) /\ k * m \in Int
  BY <1>2
<1>4. a * m = c * m + Order * (k * m)
  BY <1>1, <1>3
<1>5. a * m \in Int /\ c * m \in Int /\ m * a = a * m /\ m * c = c * m
  BY <1>1, <1>2
<1>6. Same(a * m, c * m)
  BY <1>3, <1>4, <1>5, SameApart
<1> QED BY <1>5, <1>6

LEMMA SameMod ==
  ASSUME NEW a \in Int
  PROVE  a % Order \in Scalar /\ a % Order \in Int /\ Same(a % Order, a)
<1>1. Order \in Nat /\ Order > 0
  BY OrderOK
<1>2. a % Order \in 0 .. Order - 1
  BY <1>1, DivMod
<1>3. (a % Order) % Order = a % Order
  BY <1>1, <1>2, ModUnique
<1> QED BY <1>1, <1>2, <1>3 DEF Same, Scalar

\* Scalars with the same remainder are equal.
LEMMA SameScalar ==
  ASSUME NEW a \in Scalar, NEW b \in Scalar, Same(a, b)
  PROVE  a = b
<1>1. Order \in Nat /\ Order > 0
  BY OrderOK
<1>2. ASSUME NEW c \in 0 .. Order - 1 PROVE c % Order = c
  <2>1. (Order * 0 + c) % Order = c
    BY <1>1, <1>2, ModUnique
  <2>2. Order * 0 + c = c
    BY <1>1
  <2> QED BY <2>1, <2>2
<1> QED BY <1>2 DEF Same, Scalar
LEMMA ModSmall ==
  ASSUME NEW n \in Nat, n > 0, NEW a \in 0 .. n - 1
  PROVE  a % n = a /\ a \div n = 0
OBVIOUS

LEMMA ModOnce ==
  ASSUME NEW n \in Nat, n > 0, NEW a \in n .. 2 * n - 1
  PROVE  a % n = a - n /\ a \div n = 1
OBVIOUS

\* The three operations on bytes are those modulo the order.
LEMMA ReduceRight ==
  ASSUME NEW h \in 0 .. Width - 1
  PROVE  Reduce(h) = h % Order
<1>1. Order \in Nat /\ Order > 0 /\ Width \in Nat /\ Width < 2 * Order
  BY OrderOK
<1>2. CASE h >= Order
  BY <1>1, <1>2, ModOnce DEF Reduce
<1>3. CASE ~(h >= Order)
  BY <1>1, <1>3, ModSmall DEF Reduce
<1> QED BY <1>2, <1>3

LEMMA AddRight ==
  ASSUME NEW a \in Scalar, NEW b \in Scalar
  PROVE  ScalarAdd(a, b) = (a + b) % Order
<1> DEFINE v == a + b
<1>1. /\ Order \in Nat /\ Order > 0 /\ Width \in Nat /\ Width > 0
      /\ Order <= Width /\ Width < 2 * Order
  BY OrderOK
<1>2. v \in 0 .. 2 * Order - 2
  BY <1>1 DEF Scalar
<1> HIDE DEF v
<1>3. CASE v < Order
  <2>1. v % Width = v /\ v \div Width = 0
    BY <1>1, <1>2, <1>3, ModSmall
  <2>2. v % Order = v
    BY <1>1, <1>2, <1>3, ModSmall
  <2> QED BY <1>1, <1>2, <1>3, <2>1, <2>2 DEF ScalarAdd, v
<1>4. CASE v >= Order
  <2>1. v \div Width # 0 \/ v % Width >= Order
    <3>1. CASE v < Width
      BY <1>1, <1>2, <1>4, <3>1, ModSmall
    <3>2. CASE v >= Width
      BY <1>1, <1>2, <3>2, ModOnce
    <3> QED BY <1>1, <1>2, <3>1, <3>2
  <2>2. (v - Order) % Width = v - Order
    BY <1>1, <1>2, <1>4, ModSmall
  <2>3. v % Order = v - Order
    BY <1>1, <1>2, <1>4, ModOnce
  <2> QED BY <2>1, <2>2, <2>3 DEF ScalarAdd, v
<1> QED BY <1>1, <1>2, <1>3, <1>4

LEMMA NegRight ==
  ASSUME NEW a \in Scalar
  PROVE  ScalarNeg(a) = (Order - a) % Order
<1>1. Order \in Nat /\ Order > 0
  BY OrderOK
<1>2. CASE a = 0
  BY <1>1, <1>2, ModOnce DEF ScalarNeg
<1>3. CASE a # 0
  BY <1>1, <1>3, ModSmall DEF ScalarNeg, Scalar
<1> QED BY <1>2, <1>3

\* musig.rs:112-135 and 389-433: for any order and width with one subtraction
\* between them, the arithmetic on bytes is the one modulo the order.
THEOREM BytesRight == ScalarsRight
BY ReduceRight, AddRight, NegRight DEF ScalarsRight

-------------------------------------------------------------------------------
(***************************************************************************)
(* Scalars and points.                                                     *)
(***************************************************************************)
\* The factor a flipped sign stands for.
Sgn(flip) == IF flip THEN -1 ELSE 1

LEMMA OrderInt == Order \in Int /\ Order > 2 /\ 0 \in Scalar /\ Scalar \subseteq Int
BY OrderOK DEF Scalar

LEMMA ReduceScalar ==
  ASSUME NEW h \in 0 .. Width - 1
  PROVE  Reduce(h) \in Scalar /\ Reduce(h) \in Int
BY OrderOK DEF Reduce, Scalar

\* Each operation stays below the order and has the remainder of the integers'.
LEMMA AddSame ==
  ASSUME NEW a \in Scalar, NEW b \in Scalar
  PROVE  /\ ScalarAdd(a, b) \in Scalar /\ Same(ScalarAdd(a, b), a + b)
         /\ PtAdd(a, b) \in Scalar /\ Same(PtAdd(a, b), a + b)
<1>1. a + b \in Int
  BY OrderInt
<1> QED BY <1>1, SameMod, AddRight DEF PtAdd

LEMMA MulSame ==
  ASSUME NEW a \in Scalar, NEW b \in Scalar
  PROVE  ScalarMul(a, b) \in Scalar /\ Same(ScalarMul(a, b), a * b)
<1>1. a * b \in Int
  BY OrderInt
<1> QED BY <1>1, SameMod DEF ScalarMul

LEMMA NegSame ==
  ASSUME NEW a \in Scalar
  PROVE  /\ ScalarNeg(a) \in Scalar /\ Same(ScalarNeg(a), -a)
         /\ PtNeg(a) = ScalarNeg(a)
<1>1. a \in Int /\ Order - a \in Int /\ -a \in Int
  BY OrderInt
<1>2. ScalarNeg(a) = PtNeg(a)
  BY NegRight DEF PtNeg
<1>3. PtNeg(a) \in Scalar /\ PtNeg(a) \in Int /\ Same(PtNeg(a), Order - a)
  BY <1>1, SameMod DEF PtNeg
<1>4. Same(Order - a, -a)
  <2>1. Order - a = -a + Order * 1
    BY <1>1, OrderInt
  <2> QED BY <1>1, <2>1, SameApart
<1> QED BY <1>2, <1>3, <1>4, SameTrans

\* A scalar with a sign.
LEMMA SignedSame ==
  ASSUME NEW a \in Scalar, NEW flip \in BOOLEAN
  PROVE  /\ SignedIf(flip, a) \in Scalar
         /\ Same(SignedIf(flip, a), Sgn(flip) * a)
<1>1. a \in Int
  BY OrderInt
<1>2. CASE flip
  <2>1. Sgn(flip) * a = -a
    BY <1>1, <1>2 DEF Sgn
  <2> QED BY <1>2, <2>1, NegSame DEF SignedIf
<1>3. CASE ~flip
  <2>1. Sgn(flip) * a = a
    BY <1>1, <1>3 DEF Sgn
  <2> QED BY <1>1, <1>3, <2>1, SameIs DEF SignedIf
<1> QED BY <1>2, <1>3

\* x stands for the point of the two that has an even y.
LEMMA XSame ==
  ASSUME NEW p \in Scalar
  PROVE  X(p) \in Scalar /\ Same(X(p), Sgn(~EvenY(p)) * p)
<1>1. X(p) = SignedIf(~EvenY(p), p)
  BY NegSame DEF X, SignedIf
<1>2. (~EvenY(p)) \in BOOLEAN
  OBVIOUS
<1> QED BY <1>1, <1>2, SignedSame

\* The library's product and sum, where they do not fail.
LEMMA PtMulSame ==
  ASSUME NEW p \in Scalar, NEW k \in Scalar, PtMul(p, k) # Err
  PROVE  PtMul(p, k) \in Scalar /\ Same(PtMul(p, k), p * k)
<1>1. p \in Int /\ k \in Int /\ p * k \in Int
  BY OrderInt
<1>2. CASE p = Infinity
  <2>1. PtMul(p, k) = 0 /\ p * k = 0
    BY <1>1, <1>2 DEF PtMul, Infinity
  <2> QED BY <1>1, <2>1, OrderInt, SameIs
<1>3. CASE p # Infinity
  <2>1. PtMul(p, k) = (p * k) % Order
    BY <1>3 DEF PtMul
  <2> QED BY <1>1, <2>1, SameMod
<1> QED BY <1>2, <1>3

LEMMA CombineSame ==
  ASSUME NEW p, NEW q, p = Err \/ p \in Scalar, q = Err \/ q \in Scalar
  PROVE  \/ Combine(p, q) = Err
         \/ /\ p \in Scalar /\ q \in Scalar /\ Combine(p, q) \in Scalar
            /\ Same(Combine(p, q), p + q)
BY AddSame DEF Combine

-------------------------------------------------------------------------------
(***************************************************************************)
(* Sums along a sequence, and the folds that compute them.                 *)
(***************************************************************************)
\* What a sum of the library gives.
PointOrErr == Scalar \cup {Err}

\* CombinePartials goes on from the first point.
LEMMA CombineSteps ==
  ASSUME NEW first \in PointOrErr, NEW rest \in Seq(PointOrErr)
  PROVE  \E h \in [0 .. Len(rest) -> PointOrErr] :
           /\ h[0] = first
           /\ \A k \in 1 .. Len(rest) : h[k] = Combine(h[k - 1], rest[k])
           /\ FoldLeft(Combine, first, rest) = h[Len(rest)]
<1> DEFINE n == Len(rest)
           op == [i \in 1 .. n |-> [x \in PointOrErr |-> Combine(x, rest[i])]]
           Solves(f) ==
             f = [s \in SUBSET DOMAIN rest |->
                    IF s = {} THEN first
                    ELSE Combine(f[s \ {Max(s)}], rest[Max(s)])]
           iter == CHOOSE f : Solves(f)
<1>1. /\ n \in Nat /\ DOMAIN rest = 1 .. n
      /\ \A i \in 1 .. n : rest[i] \in PointOrErr
  OBVIOUS
<1>2. \A i \in 1 .. n, x \in PointOrErr :
        op[i][x] = Combine(x, rest[i]) /\ op[i][x] \in PointOrErr
  BY <1>1, CombineSame DEF PointOrErr
<1> HIDE DEF op
<1>3. PICK g \in [SUBSET (1 .. n) -> PointOrErr], h \in [0 .. n -> PointOrErr] :
             IsFold(g, h, n, first, op)
  <2>1. first \in PointOrErr
    BY OrderInt DEF Infinity
  <2>2. StepOn(op, 1 .. n, PointOrErr)
    BY <1>2 DEF StepOn
  <2> HIDE DEF n
  <2> QED BY <1>1, <2>1, <2>2, FoldSteps
<1>4. ASSUME NEW s \in SUBSET (1 .. n), s # {}
      PROVE  g[s] = Combine(g[s \ {Max(s)}], rest[Max(s)])
  BY <1>2, <1>3, <1>4 DEF IsFold
<1>5. Solves(g)
  BY <1>1, <1>3, <1>4 DEF IsFold
<1>6. Solves(iter)
  BY <1>5
<1>7. iter[1 .. n] = h[n]
  <2>1. iter[{}] = first
    BY <1>6
  <2>2. ASSUME NEW s \in SUBSET (1 .. n), s # {},
               iter[s \ {Max(s)}] = g[s \ {Max(s)}]
        PROVE  iter[s] = g[s]
    BY <1>1, <1>4, <1>6, <2>2
  <2> HIDE DEF iter
  <2> QED BY <1>3, <2>1, <2>2 DEF IsFold
<1>8. FoldLeft(Combine, first, rest) = iter[1 .. n]
  BY <1>1 DEF FoldLeft, MapThenFoldSet
<1>9. ASSUME NEW k \in 1 .. n PROVE h[k] = Combine(h[k - 1], rest[k])
  <2>1. h[k] = op[k][h[k - 1]] /\ h[k - 1] \in PointOrErr
    BY <1>1, <1>3 DEF IsFold
  <2> QED BY <1>2, <2>1
<1> HIDE DEF iter
<1> QED BY <1>3, <1>7, <1>8, <1>9 DEF IsFold

\* NonceAgg, the first or the second nonces.
LEMMA NonceSteps ==
  ASSUME NEW pubs \in Seq(Scalar \X Scalar), NEW j \in 1 .. 2
  PROVE  \E h \in [0 .. Len(pubs) -> Scalar] :
           /\ h[0] = Infinity
           /\ \A k \in 1 .. Len(pubs) : h[k] = PtAdd(h[k - 1], pubs[k][j])
           /\ NonceAgg(pubs)[j] = h[Len(pubs)]
<1> DEFINE n == Len(pubs)
           op == [i \in 1 .. n |-> [x \in Scalar |-> PtAdd(x, pubs[i][j])]]
           Solves(f) ==
             f = [s \in SUBSET DOMAIN pubs |->
                    IF s = {} THEN Infinity
                    ELSE PtAdd(f[s \ {Max(s)}], pubs[Max(s)][j])]
           iter == CHOOSE f : Solves(f)
<1>1. /\ n \in Nat /\ DOMAIN pubs = 1 .. n
      /\ \A i \in 1 .. n : pubs[i] \in Scalar \X Scalar
  OBVIOUS
<1>2. \A i \in 1 .. n, x \in Scalar :
        op[i][x] = PtAdd(x, pubs[i][j]) /\ op[i][x] \in Scalar
  BY <1>1, AddSame
<1> HIDE DEF op
<1>3. PICK g \in [SUBSET (1 .. n) -> Scalar], h \in [0 .. n -> Scalar] :
             IsFold(g, h, n, Infinity, op)
  <2>1. Infinity \in Scalar
    BY OrderInt DEF Infinity
  <2>2. StepOn(op, 1 .. n, Scalar)
    BY <1>2 DEF StepOn
  <2> HIDE DEF n
  <2> QED BY <1>1, <2>1, <2>2, FoldSteps
<1>4. ASSUME NEW s \in SUBSET (1 .. n), s # {}
      PROVE  g[s] = PtAdd(g[s \ {Max(s)}], pubs[Max(s)][j])
  BY <1>2, <1>3, <1>4 DEF IsFold
<1>5. Solves(g)
  BY <1>1, <1>3, <1>4 DEF IsFold
<1>6. Solves(iter)
  BY <1>5
<1>7. iter[1 .. n] = h[n]
  <2>1. iter[{}] = Infinity
    BY <1>6
  <2>2. ASSUME NEW s \in SUBSET (1 .. n), s # {},
               iter[s \ {Max(s)}] = g[s \ {Max(s)}]
        PROVE  iter[s] = g[s]
    BY <1>1, <1>4, <1>6, <2>2
  <2> HIDE DEF iter
  <2> QED BY <1>3, <2>1, <2>2 DEF IsFold
<1>8. NonceAgg(pubs)[j] = iter[1 .. n]
  BY <1>1 DEF NonceAgg, FoldLeft, MapThenFoldSet
<1>9. ASSUME NEW k \in 1 .. n PROVE h[k] = PtAdd(h[k - 1], pubs[k][j])
  <2>1. h[k] = op[k][h[k - 1]] /\ h[k - 1] \in Scalar
    BY <1>1, <1>3 DEF IsFold
  <2> QED BY <1>2, <2>1
<1> HIDE DEF iter
<1> QED BY <1>3, <1>7, <1>8, <1>9 DEF IsFold

\* The partial signatures.
LEMMA AddSteps ==
  ASSUME NEW psigs \in Seq(Scalar)
  PROVE  \E h \in [0 .. Len(psigs) -> Scalar] :
           /\ h[0] = 0
           /\ \A k \in 1 .. Len(psigs) : h[k] = ScalarAdd(h[k - 1], psigs[k])
           /\ FoldLeft(ScalarAdd, 0, psigs) = h[Len(psigs)]
<1> DEFINE n == Len(psigs)
           op == [i \in 1 .. n |-> [x \in Scalar |-> ScalarAdd(x, psigs[i])]]
           Solves(f) ==
             f = [s \in SUBSET DOMAIN psigs |->
                    IF s = {} THEN 0
                    ELSE ScalarAdd(f[s \ {Max(s)}], psigs[Max(s)])]
           iter == CHOOSE f : Solves(f)
<1>1. /\ n \in Nat /\ DOMAIN psigs = 1 .. n
      /\ \A i \in 1 .. n : psigs[i] \in Scalar
  OBVIOUS
<1>2. \A i \in 1 .. n, x \in Scalar :
        op[i][x] = ScalarAdd(x, psigs[i]) /\ op[i][x] \in Scalar
  BY <1>1, AddSame
<1> HIDE DEF op
<1>3. PICK g \in [SUBSET (1 .. n) -> Scalar], h \in [0 .. n -> Scalar] :
             IsFold(g, h, n, 0, op)
  <2>1. 0 \in Scalar
    BY OrderInt DEF Infinity
  <2>2. StepOn(op, 1 .. n, Scalar)
    BY <1>2 DEF StepOn
  <2> HIDE DEF n
  <2> QED BY <1>1, <2>1, <2>2, FoldSteps
<1>4. ASSUME NEW s \in SUBSET (1 .. n), s # {}
      PROVE  g[s] = ScalarAdd(g[s \ {Max(s)}], psigs[Max(s)])
  BY <1>2, <1>3, <1>4 DEF IsFold
<1>5. Solves(g)
  BY <1>1, <1>3, <1>4 DEF IsFold
<1>6. Solves(iter)
  BY <1>5
<1>7. iter[1 .. n] = h[n]
  <2>1. iter[{}] = 0
    BY <1>6
  <2>2. ASSUME NEW s \in SUBSET (1 .. n), s # {},
               iter[s \ {Max(s)}] = g[s \ {Max(s)}]
        PROVE  iter[s] = g[s]
    BY <1>1, <1>4, <1>6, <2>2
  <2> HIDE DEF iter
  <2> QED BY <1>3, <2>1, <2>2 DEF IsFold
<1>8. FoldLeft(ScalarAdd, 0, psigs) = iter[1 .. n]
  BY <1>1 DEF FoldLeft, MapThenFoldSet
<1>9. ASSUME NEW k \in 1 .. n PROVE h[k] = ScalarAdd(h[k - 1], psigs[k])
  <2>1. h[k] = op[k][h[k - 1]] /\ h[k - 1] \in Scalar
    BY <1>1, <1>3 DEF IsFold
  <2> QED BY <1>2, <2>1
<1> HIDE DEF iter
<1> QED BY <1>3, <1>7, <1>8, <1>9 DEF IsFold

\* h is the running sum of the first n integers of f.
Running(h, f, n) ==
  /\ h \in [0 .. n -> Int] /\ h[0] = 0
  /\ \A k \in 1 .. n : h[k] = h[k - 1] + f[k]

\* The sum of the first n integers of f.
Total(f, n) == (CHOOSE h : Running(h, f, n))[n]

\* The first n elements of f are integers.
Ints(f, n) == \A i \in 1 .. n : f[i] \in Int

LEMMA TotalSteps ==
  ASSUME NEW n \in Nat, NEW f, Ints(f, n)
  PROVE  \E h : Running(h, f, n) /\ Total(f, n) = h[n] /\ Total(f, n) \in Int
<1> DEFINE op == [i \in 1 .. n |-> [x \in Int |-> x + f[i]]]
<1>1. \A i \in 1 .. n, x \in Int : op[i][x] = x + f[i] /\ op[i][x] \in Int
  BY DEF Ints
<1> HIDE DEF op
<1>2. PICK g \in [SUBSET (1 .. n) -> Int], h \in [0 .. n -> Int] :
             IsFold(g, h, n, 0, op)
  <2> DEFINE Z == Int
             zero == 0
  <2>1. StepOn(op, 1 .. n, Z) /\ zero \in Z
    BY <1>1 DEF StepOn
  <2> HIDE DEF Z, zero
  <2>2. \E g \in [SUBSET (1 .. n) -> Z], h \in [0 .. n -> Z] :
          IsFold(g, h, n, zero, op)
    BY <2>1, FoldSteps
  <2> QED BY <2>2 DEF Z, zero
<1>3. ASSUME NEW k \in 1 .. n PROVE h[k] = h[k - 1] + f[k]
  <2>1. h[k] = op[k][h[k - 1]] /\ h[k - 1] \in Int
    BY <1>2 DEF IsFold
  <2> QED BY <1>1, <2>1
<1>4. Running(h, f, n)
  BY <1>2, <1>3 DEF IsFold, Running
<1> DEFINE r == CHOOSE x : Running(x, f, n)
<1>5. Running(r, f, n)
  BY <1>4
<1>6. Total(f, n) = r[n]
  BY DEF Total
<1> HIDE DEF r
<1>7. r[n] \in Int
  BY <1>5 DEF Running
<1> QED BY <1>5, <1>6, <1>7

\* What runs as the sum does, up to the remainder, ends as it.
LEMMA RunSame ==
  ASSUME NEW n \in Nat, NEW f, Ints(f, n), NEW a \in [0 .. n -> Int], a[0] = 0,
         \A k \in 1 .. n : Same(a[k], a[k - 1] + f[k])
  PROVE  Same(a[n], Total(f, n))
<1>1. PICK h : Running(h, f, n) /\ Total(f, n) = h[n]
  BY TotalSteps
<1> DEFINE G == {k \in Nat : k <= n => Same(a[k], h[k])}
<1>2. 0 \in G
  <2>1. a[0] = 0 /\ h[0] = 0
    BY <1>1 DEF Running
  <2>2. Same(a[0], h[0])
    BY <2>1 DEF Same
  <2> QED BY <2>2
<1>3. ASSUME NEW k \in G PROVE k + 1 \in G
  <2>1. ASSUME k + 1 <= n PROVE Same(a[k + 1], h[k + 1])
    <3>1. k \in 0 .. n /\ k + 1 \in 1 .. n /\ (k + 1) - 1 = k
      BY <1>3, <2>1
    <3>2. Same(a[k], h[k])
      BY <1>3, <3>1
    <3>3. a[k] \in Int /\ h[k] \in Int /\ f[k + 1] \in Int
      BY <1>1, <3>1 DEF Running, Ints
    <3>4. Same(a[k] + f[k + 1], h[k] + f[k + 1])
      BY <3>2, <3>3, SameAdd, SameIs
    <3>5. h[k + 1] = h[k] + f[k + 1]
      BY <1>1, <3>1 DEF Running
    <3>6. Same(a[k + 1], a[k] + f[k + 1])
      BY <3>1
    <3> QED BY <3>4, <3>5, <3>6, SameTrans
  <2> QED BY <1>3, <2>1
<1>4. G = Nat
  <2>1. G \in SUBSET Nat
    OBVIOUS
  <2> HIDE DEF G
  <2> QED BY <1>2, <1>3, <2>1, NatInduct
<1> QED BY <1>1, <1>4

\* Sums of terms with the same remainders have the same remainder.
LEMMA TotalSame ==
  ASSUME NEW n \in Nat, NEW f, Ints(f, n), NEW g, Ints(g, n),
         \A k \in 1 .. n : Same(g[k], f[k])
  PROVE  Same(Total(g, n), Total(f, n))
<1>1. PICK a : Running(a, g, n) /\ Total(g, n) = a[n]
  BY TotalSteps
<1>2. ASSUME NEW k \in 1 .. n PROVE Same(a[k], a[k - 1] + f[k])
  <2>1. /\ a[k] = a[k - 1] + g[k] /\ a[k - 1] \in Int
        /\ g[k] \in Int /\ f[k] \in Int
    BY <1>1 DEF Running, Ints
  <2>2. Same(a[k - 1] + g[k], a[k - 1] + f[k])
    BY <2>1, SameAdd, SameIs
  <2> QED BY <2>1, <2>2
<1>3. a \in [0 .. n -> Int] /\ a[0] = 0
  BY <1>1 DEF Running
<1> QED BY <1>1, <1>2, <1>3, RunSame

\* A sum of linear combinations is the combination of the sums.
LEMMA TotalLinear ==
  ASSUME NEW n \in Nat, NEW f, Ints(f, n), NEW g, Ints(g, n),
         NEW c \in Int, NEW d \in Int, NEW m,
         \A k \in 1 .. n : m[k] = c * f[k] + d * g[k]
  PROVE  Ints(m, n) /\ Total(m, n) = c * Total(f, n) + d * Total(g, n)
<1>0. Ints(m, n)
  BY DEF Ints
<1>1. PICK a : Running(a, f, n) /\ Total(f, n) = a[n]
  BY TotalSteps
<1>2. PICK b : Running(b, g, n) /\ Total(g, n) = b[n]
  BY TotalSteps
<1>3. PICK s : Running(s, m, n) /\ Total(m, n) = s[n]
  BY <1>0, TotalSteps
<1> DEFINE G == {k \in Nat : k <= n => s[k] = c * a[k] + d * b[k]}
<1>4. 0 \in G
  BY <1>1, <1>2, <1>3 DEF Running
<1>5. ASSUME NEW k \in G PROVE k + 1 \in G
  <2>1. ASSUME k + 1 <= n PROVE s[k + 1] = c * a[k + 1] + d * b[k + 1]
    <3>1. k \in 0 .. n /\ k + 1 \in 1 .. n /\ (k + 1) - 1 = k
      BY <1>5, <2>1
    <3>2. s[k] = c * a[k] + d * b[k]
      BY <1>5, <3>1
    <3>3. /\ a[k] \in Int /\ b[k] \in Int
          /\ f[k + 1] \in Int /\ g[k + 1] \in Int
      BY <1>1, <1>2, <3>1 DEF Running, Ints
    <3>4. /\ a[k + 1] = a[k] + f[k + 1] /\ b[k + 1] = b[k] + g[k + 1]
          /\ s[k + 1] = s[k] + m[k + 1]
      BY <1>1, <1>2, <1>3, <3>1 DEF Running
    <3>5. m[k + 1] = c * f[k + 1] + d * g[k + 1]
      BY <3>1
    <3>6. /\ c * (a[k] + f[k + 1]) = c * a[k] + c * f[k + 1]
          /\ d * (b[k] + g[k + 1]) = d * b[k] + d * g[k + 1]
          /\ c * a[k] \in Int /\ c * f[k + 1] \in Int
          /\ d * b[k] \in Int /\ d * g[k + 1] \in Int
      BY <3>3
    <3> QED BY <3>2, <3>4, <3>5, <3>6
  <2> QED BY <1>5, <2>1
<1>6. G = Nat
  <2>1. G \in SUBSET Nat
    OBVIOUS
  <2> HIDE DEF G
  <2> QED BY <1>4, <1>5, <2>1, NatInduct
<1> QED BY <1>0, <1>1, <1>2, <1>3, <1>6

\* nonce_agg adds each of the two nonces of a pair up.
LEMMA NonceSame ==
  ASSUME NEW pubs \in Seq(Scalar \X Scalar), NEW j \in 1 .. 2
  PROVE  /\ NonceAgg(pubs)[j] \in Scalar
         /\ Same(NonceAgg(pubs)[j],
                 Total([i \in 1 .. Len(pubs) |-> pubs[i][j]], Len(pubs)))
<1> DEFINE n == Len(pubs)
           f == [i \in 1 .. n |-> pubs[i][j]]
<1>1. PICK h \in [0 .. n -> Scalar] :
        /\ h[0] = Infinity
        /\ \A k \in 1 .. n : h[k] = PtAdd(h[k - 1], pubs[k][j])
        /\ NonceAgg(pubs)[j] = h[n]
  BY NonceSteps
<1>2. n \in Nat /\ \A i \in 1 .. n : f[i] = pubs[i][j] /\ f[i] \in Scalar
  OBVIOUS
<1> HIDE DEF f, n
<1>3. Ints(f, n) /\ h \in [0 .. n -> Int] /\ h[0] = 0
  BY <1>1, <1>2, OrderInt DEF Ints, Infinity
<1>4. ASSUME NEW k \in 1 .. n PROVE Same(h[k], h[k - 1] + f[k])
  <2>1. k - 1 \in 0 .. n
    BY <1>2
  <2> QED BY <1>1, <1>2, <2>1, AddSame
<1>5. Same(h[n], Total(f, n))
  BY <1>2, <1>3, <1>4, RunSame
<1>6. h[n] \in Scalar
  BY <1>1, <1>2
<1> QED BY <1>1, <1>5, <1>6 DEF f, n

\* partial_sig_agg adds the partial signatures up.
LEMMA PartialsAdd ==
  ASSUME NEW psigs \in Seq(Scalar)
  PROVE  /\ FoldLeft(ScalarAdd, 0, psigs) \in Scalar
         /\ Same(FoldLeft(ScalarAdd, 0, psigs), Total(psigs, Len(psigs)))
<1> DEFINE n == Len(psigs)
<1>1. PICK h \in [0 .. n -> Scalar] :
        /\ h[0] = 0
        /\ \A k \in 1 .. n : h[k] = ScalarAdd(h[k - 1], psigs[k])
        /\ FoldLeft(ScalarAdd, 0, psigs) = h[n]
  BY AddSteps
<1>2. n \in Nat /\ \A i \in 1 .. n : psigs[i] \in Scalar
  OBVIOUS
<1> HIDE DEF n
<1>3. Ints(psigs, n) /\ h \in [0 .. n -> Int]
  BY <1>1, <1>2, OrderInt DEF Ints
<1>4. ASSUME NEW k \in 1 .. n PROVE Same(h[k], h[k - 1] + psigs[k])
  <2>1. k - 1 \in 0 .. n
    BY <1>2
  <2> QED BY <1>1, <1>2, <2>1, AddSame
<1>5. Same(h[n], Total(psigs, n))
  BY <1>1, <1>2, <1>3, <1>4, RunSame
<1>6. h[n] \in Scalar
  BY <1>1, <1>2
<1> QED BY <1>1, <1>5, <1>6 DEF n

LEMMA PointInt == PointOrErr \subseteq Int
<1>1. Err \in Int
  BY DEF Err
<1> QED BY <1>1, OrderInt DEF PointOrErr

\* A combination of partial points that does not fail is their sum.
LEMMA PartialsSame ==
  ASSUME NEW ps \in Seq(PointOrErr), ps # <<>>, CombinePartials(ps) # Err
  PROVE  /\ \A i \in 1 .. Len(ps) : ps[i] \in Scalar
         /\ CombinePartials(ps) \in Scalar
         /\ Same(CombinePartials(ps), Total(ps, Len(ps)))
<1> DEFINE n == Len(ps)
           rest == Tail(ps)
<1>1. /\ n \in Nat /\ n >= 1 /\ ps[1] \in PointOrErr /\ Head(ps) = ps[1]
      /\ \A i \in 1 .. n : ps[i] \in PointOrErr
  OBVIOUS
<1>2. /\ rest \in Seq(PointOrErr) /\ Len(rest) = n - 1
      /\ \A i \in 1 .. (n - 1) : rest[i] = ps[i + 1]
  OBVIOUS
<1> HIDE DEF rest
<1>3. PICK h \in [0 .. n - 1 -> PointOrErr] :
        /\ h[0] = ps[1]
        /\ \A k \in 1 .. n - 1 : h[k] = Combine(h[k - 1], rest[k])
        /\ FoldLeft(Combine, ps[1], rest) = h[n - 1]
  <2>1. \E h \in [0 .. Len(rest) -> PointOrErr] :
          /\ h[0] = ps[1]
          /\ \A k \in 1 .. Len(rest) : h[k] = Combine(h[k - 1], rest[k])
          /\ FoldLeft(Combine, ps[1], rest) = h[Len(rest)]
    BY <1>1, <1>2, CombineSteps
  <2> QED BY <1>2, <2>1
<1>4. Ints(ps, n)
  BY <1>1, PointInt DEF Ints
<1>5. PICK r : Running(r, ps, n) /\ Total(ps, n) = r[n]
  BY <1>1, <1>4, TotalSteps
<1> DEFINE Right(k) ==
             \/ h[k] = Err
             \/ /\ h[k] \in Scalar /\ Same(h[k], r[k + 1])
                /\ \A i \in 1 .. k + 1 : ps[i] \in Scalar
           G == {k \in Nat : k <= n - 1 => Right(k)}
<1>6. 0 \in G
  <2>1. CASE h[0] = Err
    BY <2>1
  <2>2. CASE h[0] # Err
    <3>1. h[0] \in Scalar /\ ps[1] \in Scalar /\ h[0] \in Int
      BY <1>1, <1>3, <2>2, OrderInt DEF PointOrErr
    <3>2. r[0 + 1] = ps[1]
      <4>1. 1 \in 1 .. n /\ 1 - 1 = 0 /\ 0 + 1 = 1
        BY <1>1
      <4>2. r[1] = r[1 - 1] + ps[1] /\ r[0] = 0
        BY <1>5, <4>1 DEF Running
      <4> QED BY <1>3, <3>1, <4>1, <4>2
    <3>3. Same(h[0], r[0 + 1])
      BY <1>3, <3>1, <3>2, SameIs
    <3>4. \A i \in 1 .. 0 + 1 : ps[i] \in Scalar
      BY <3>1
    <3> QED BY <3>1, <3>3, <3>4
  <2> QED BY <2>1, <2>2
<1>7. ASSUME NEW k \in G PROVE k + 1 \in G
  <2>1. ASSUME k + 1 <= n - 1 PROVE Right(k + 1)
    <3>1. /\ k \in 0 .. n - 1 /\ k + 1 \in 1 .. n - 1 /\ k + 1 \in 1 .. n
          /\ (k + 1) - 1 = k /\ k + 2 \in 1 .. n /\ (k + 2) - 1 = k + 1
          /\ (k + 1) + 1 = k + 2
      BY <1>1, <1>7, <2>1
    <3>2. Right(k)
      BY <1>7, <3>1
    <3>3. h[k + 1] = Combine(h[k], ps[k + 2])
      BY <1>2, <1>3, <3>1
    <3>4. h[k] \in PointOrErr /\ ps[k + 2] \in PointOrErr
      BY <1>1, <1>3, <3>1
    <3>5. CASE h[k + 1] = Err
      BY <3>5
    <3>6. CASE h[k + 1] # Err
      <4>1. /\ h[k] \in Scalar /\ ps[k + 2] \in Scalar /\ h[k + 1] \in Scalar
            /\ Same(h[k + 1], h[k] + ps[k + 2])
        BY <3>3, <3>4, <3>6, CombineSame DEF PointOrErr
      <4>2. Same(h[k], r[k + 1]) /\ \A i \in 1 .. k + 1 : ps[i] \in Scalar
        BY <3>2, <4>1, OrderInt DEF Err, Scalar
      <4>3. /\ r[k + 2] = r[k + 1] + ps[k + 2] /\ r[k + 1] \in Int
            /\ h[k] \in Int /\ ps[k + 2] \in Int
        <5>1. k + 1 \in 0 .. n
          BY <1>1, <3>1
        <5> QED BY <1>5, <3>1, <4>1, <5>1, OrderInt DEF Running
      <4>4. Same(h[k] + ps[k + 2], r[k + 2])
        BY <4>2, <4>3, SameAdd, SameIs
      <4>5. Same(h[k + 1], r[(k + 1) + 1])
        BY <3>1, <4>1, <4>4, SameTrans
      <4>6. \A i \in 1 .. (k + 1) + 1 : ps[i] \in Scalar
        <5>1. \A i \in 1 .. (k + 1) + 1 : i \in 1 .. k + 1 \/ i = k + 2
          BY <3>1
        <5> QED BY <4>1, <4>2, <5>1
      <4> QED BY <4>1, <4>5, <4>6
    <3> QED BY <3>5, <3>6
  <2> QED BY <1>7, <2>1
<1>8. G = Nat
  <2>1. G \in SUBSET Nat
    OBVIOUS
  <2> HIDE DEF G
  <2> QED BY <1>6, <1>7, <2>1, NatInduct
<1>9. CombinePartials(ps) = h[n - 1]
  BY <1>1, <1>3 DEF CombinePartials, rest
<1>10. n - 1 \in Nat /\ (n - 1) + 1 = n
  BY <1>1
<1>11. Right(n - 1)
  BY <1>8, <1>10
<1> QED BY <1>5, <1>9, <1>10, <1>11

-------------------------------------------------------------------------------
(***************************************************************************)
(* Keys.                                                                   *)
(***************************************************************************)
\* The coefficient hashes of the keys are numbers of 32 bytes.
Hashed(hash, pks) == \A i \in 1 .. Len(pks) : hash[pks[i]] \in 0 .. Width - 1

\* What the key at i adds to the aggregate.
KeyTerms(pks, hash) ==
  [i \in 1 .. Len(pks) |-> pks[i] * Coeff(pks, hash, pks[i])]

\* Keys and their coefficients are scalars.
LEMMA CoeffScalar ==
  ASSUME NEW pks \in Seq(Point), NEW hash, Hashed(hash, pks),
         NEW i \in 1 .. Len(pks)
  PROVE  /\ Coeff(pks, hash, pks[i]) \in Scalar
         /\ pks[i] \in Scalar /\ pks[i] \in Int /\ pks[i] # 0
<1>1. 1 \in Scalar /\ Point \subseteq Scalar \ {0}
  BY OrderOK DEF Scalar, Point
<1>2. Reduce(hash[pks[i]]) \in Scalar
  BY ReduceScalar DEF Hashed
<1>3. pks[i] \in Point
  OBVIOUS
<1> QED BY <1>1, <1>2, <1>3, OrderInt DEF Coeff

\* The aggregate key is the sum of the keys times their coefficients.
LEMMA KeyAggSame ==
  ASSUME NEW pks \in Seq(Point), NEW hash, Hashed(hash, pks), pks # <<>>,
         KeyAgg(pks, hash) # Err
  PROVE  /\ KeyAgg(pks, hash) \in Scalar
         /\ Same(KeyAgg(pks, hash), Total(KeyTerms(pks, hash), Len(pks)))
         /\ Ints(KeyTerms(pks, hash), Len(pks))
<1> DEFINE n == Len(pks)
           t == KeyTerms(pks, hash)
           ps == [i \in 1 .. n |-> PtMul(pks[i], Coeff(pks, hash, pks[i]))]
<1>1. n \in Nat /\ n >= 1 /\ DOMAIN pks = 1 .. n
  OBVIOUS
<1>2. ASSUME NEW i \in 1 .. n
      PROVE  /\ ps[i] \in PointOrErr /\ t[i] \in Int
             /\ ps[i] # Err => Same(ps[i], t[i])
  <2> DEFINE c == Coeff(pks, hash, pks[i])
  <2>1. pks[i] \in Scalar /\ c \in Scalar
    BY CoeffScalar
  <2>2. ps[i] = PtMul(pks[i], c) /\ t[i] = pks[i] * c
    BY DEF KeyTerms
  <2> HIDE DEF c, ps, t
  <2>3. t[i] \in Int
    <3>1. pks[i] \in Int /\ c \in Int
      BY <2>1, OrderInt
    <3> QED BY <2>2, <3>1
  <2>4. ps[i] # Err => ps[i] \in Scalar /\ Same(ps[i], t[i])
    BY <2>1, <2>2, PtMulSame
  <2> QED BY <2>3, <2>4 DEF PointOrErr
<1>3. KeyAgg(pks, hash) = CombinePartials(ps)
  BY <1>1 DEF KeyAgg
<1>4. ps \in Seq(PointOrErr) /\ Len(ps) = n /\ ps # <<>>
  BY <1>1, <1>2
<1> HIDE DEF ps, t, n
<1>5. /\ \A i \in 1 .. n : ps[i] \in Scalar
      /\ CombinePartials(ps) \in Scalar
      /\ Same(CombinePartials(ps), Total(ps, n))
  BY <1>3, <1>4, PartialsSame
<1>6. Ints(ps, n) /\ Ints(t, n)
  BY <1>2, <1>5, OrderInt DEF Ints
<1>7. \A i \in 1 .. n : Same(ps[i], t[i])
  <2>1. \A i \in 1 .. n : ps[i] # Err
    BY <1>5, OrderInt DEF Scalar, Err
  <2> QED BY <1>2, <2>1
<1>8. Same(Total(ps, n), Total(t, n))
  BY <1>1, <1>6, <1>7, TotalSame
<1>9. Same(CombinePartials(ps), Total(t, n))
  BY <1>5, <1>8, SameTrans
<1> QED BY <1>3, <1>5, <1>6, <1>9 DEF t, n

-------------------------------------------------------------------------------
(***************************************************************************)
(* Tweaks: the key is the aggregate with the sign it was last given, plus  *)
(* the tweaks accumulated.                                                 *)
(***************************************************************************)
\* A tweak, the context it is applied to, and what holds of the latter.
Tweak == [t : 0 .. Width - 1, xonly : BOOLEAN]
KeyState == [q : PointOrErr, flipped : BOOLEAN, tacc : Scalar]

KeyRight(k, agg) ==
  /\ k \in KeyState
  /\ k.q = Err \/ Same(k.q, Sgn(k.flipped) * agg + k.tacc)

LEMMA SgnType ==
  ASSUME NEW f \in BOOLEAN, NEW g \in BOOLEAN
  PROVE  /\ Sgn(f) \in {1, -1} /\ Sgn(f) \in Int
         /\ (f # g) \in BOOLEAN /\ Sgn(f # g) = Sgn(f) * Sgn(g)
         /\ Sgn(f) * Sgn(f) = 1
BY DEF Sgn

LEMMA TweakType ==
  ASSUME NEW k \in KeyState, NEW tweak \in Tweak
  PROVE  TweakOnce(k, tweak) \in KeyState
<1> DEFINE flips == tweak.xonly /\ ~EvenY(k.q)
           signed == IF flips THEN PtNeg(k.q) ELSE k.q
           q == PtAdd(signed, tweak.t)
           tacc == ScalarAdd(tweak.t, IF flips THEN ScalarNeg(k.tacc) ELSE k.tacc)
<1>1. /\ k.q \in PointOrErr /\ k.flipped \in BOOLEAN /\ k.tacc \in Scalar
      /\ tweak.t \in 0 .. Width - 1 /\ tweak.xonly \in BOOLEAN
  BY DEF KeyState, Tweak
<1>2. flips \in BOOLEAN /\ (k.flipped # flips) \in BOOLEAN
  OBVIOUS
<1>3. CASE k.q = Err \/ tweak.t >= Order \/ q = Infinity
  <2>1. TweakOnce(k, tweak) = [k EXCEPT !.q = Err]
    BY <1>3 DEF TweakOnce
  <2>2. Err \in PointOrErr
    BY DEF PointOrErr
  <2> QED BY <2>1, <2>2 DEF KeyState
<1>4. CASE ~(k.q = Err \/ tweak.t >= Order \/ q = Infinity)
  <2>1. k.q \in Scalar /\ tweak.t \in Scalar
    BY <1>1, <1>4, OrderOK DEF PointOrErr, Scalar
  <2>2. q \in Scalar /\ tacc \in Scalar
    BY <1>1, <2>1, NegSame, AddSame
  <2>3. TweakOnce(k, tweak)
          = [q |-> q, flipped |-> k.flipped # flips, tacc |-> tacc]
    BY <1>4 DEF TweakOnce
  <2> HIDE DEF q, tacc, flips, signed
  <2> QED BY <1>2, <2>2, <2>3 DEF KeyState, PointOrErr
<1> QED BY <1>3, <1>4

\* One tweak keeps the key right.
LEMMA TweakSame ==
  ASSUME NEW agg \in Int, NEW k, KeyRight(k, agg), NEW tweak \in Tweak
  PROVE  KeyRight(TweakOnce(k, tweak), agg)
<1> DEFINE flips == tweak.xonly /\ ~EvenY(k.q)
           other == SignedIf(flips, k.q)
           q == PtAdd(other, tweak.t)
           acc == SignedIf(flips, k.tacc)
           tacc == ScalarAdd(tweak.t, acc)
           new == TweakOnce(k, tweak)
<1>1. /\ k.q \in PointOrErr /\ k.flipped \in BOOLEAN /\ k.tacc \in Scalar
      /\ tweak.t \in 0 .. Width - 1 /\ tweak.xonly \in BOOLEAN
      /\ k \in KeyState
  BY DEF KeyState, Tweak, KeyRight
<1>2. flips \in BOOLEAN /\ new \in KeyState
  BY <1>1, TweakType
<1>3. SUFFICES ASSUME new.q # Err
               PROVE  Same(new.q, Sgn(new.flipped) * agg + new.tacc)
  BY <1>2 DEF KeyRight
<1>4. k.q # Err /\ tweak.t < Order
  BY <1>1, <1>3, OrderOK DEF TweakOnce, KeyState
<1>5. k.q \in Scalar /\ tweak.t \in Scalar
  BY <1>1, <1>4, OrderOK DEF PointOrErr, Scalar
<1>6. new.q = q /\ new.tacc = tacc /\ new.flipped = (k.flipped # flips)
  BY <1>1, <1>3, <1>4, <1>5, NegSame DEF TweakOnce, SignedIf, KeyState
<1>7. Same(k.q, Sgn(k.flipped) * agg + k.tacc)
  BY <1>4 DEF KeyRight
<1> DEFINE s == Sgn(flips)
           g == Sgn(k.flipped)
           t == tweak.t
           a == k.tacc
           p == k.q
<1>8. /\ s \in Int /\ g \in Int /\ s * s = 1 /\ Sgn(new.flipped) = g * s
  BY <1>1, <1>2, <1>6, SgnType
<1>9. other \in Scalar /\ Same(other, s * p) /\ acc \in Scalar /\ Same(acc, s * a)
  BY <1>1, <1>2, <1>5, SignedSame
<1>10. q \in Scalar /\ Same(q, other + t) /\ tacc \in Scalar /\ Same(tacc, t + acc)
  BY <1>5, <1>9, AddSame
<1>11. /\ p \in Int /\ t \in Int /\ a \in Int /\ other \in Int /\ acc \in Int
       /\ q \in Int /\ tacc \in Int
  BY <1>1, <1>5, <1>9, <1>10, OrderInt
<1>12. Same(p, g * agg + a)
  BY <1>7
<1> HIDE DEF flips, other, q, acc, tacc, new, s, g, t, a, p
<1>13. /\ g * agg \in Int /\ g * agg + a \in Int /\ s * p \in Int
       /\ s * (g * agg + a) \in Int /\ s * a \in Int /\ (g * s) * agg \in Int
  BY <1>8, <1>11
<1>14. s * (g * agg + a) = (g * s) * agg + s * a
  BY <1>8, <1>11
<1>15. Same(s * p, (g * s) * agg + s * a)
  BY <1>8, <1>11, <1>12, <1>13, <1>14, SameMul
<1>16. Same(other, (g * s) * agg + s * a)
  BY <1>9, <1>15, SameTrans
<1>17. Same(s * a, acc)
  BY <1>9, SameSwap
<1>18. Same((g * s) * agg + s * a, (g * s) * agg + acc)
  BY <1>11, <1>13, <1>17, SameAdd, SameIs
<1>19. Same(other + t, ((g * s) * agg + acc) + t)
  <2>1. Same(other, (g * s) * agg + acc)
    BY <1>16, <1>18, SameTrans
  <2>2. (g * s) * agg + acc \in Int
    BY <1>11, <1>13
  <2> QED BY <1>11, <2>1, <2>2, SameAdd, SameIs
<1>20. Same((g * s) * agg + (t + acc), (g * s) * agg + tacc)
  <2>1. Same(t + acc, tacc) /\ t + acc \in Int
    BY <1>10, <1>11, SameSwap
  <2> QED BY <1>11, <1>13, <2>1, SameAdd, SameIs
<1>21. ((g * s) * agg + acc) + t = (g * s) * agg + (t + acc)
  BY <1>11, <1>13
<1>22. Same(q, (g * s) * agg + tacc)
  BY <1>10, <1>19, <1>20, <1>21, SameTrans
<1> QED BY <1>6, <1>8, <1>22

\* ApplyTweaks goes over the tweaks in their order.
LEMMA TweakSteps ==
  ASSUME NEW key \in KeyState, NEW tweaks \in Seq(Tweak)
  PROVE  \E h \in [0 .. Len(tweaks) -> KeyState] :
           /\ h[0] = key
           /\ \A k \in 1 .. Len(tweaks) : h[k] = TweakOnce(h[k - 1], tweaks[k])
           /\ FoldLeft(TweakOnce, key, tweaks) = h[Len(tweaks)]
<1> DEFINE n == Len(tweaks)
           op == [i \in 1 .. n |-> [x \in KeyState |-> TweakOnce(x, tweaks[i])]]
           Solves(f) ==
             f = [s \in SUBSET DOMAIN tweaks |->
                    IF s = {} THEN key
                    ELSE TweakOnce(f[s \ {Max(s)}], tweaks[Max(s)])]
           iter == CHOOSE f : Solves(f)
<1>1. /\ n \in Nat /\ DOMAIN tweaks = 1 .. n
      /\ \A i \in 1 .. n : tweaks[i] \in Tweak
  OBVIOUS
<1>2. \A i \in 1 .. n, x \in KeyState :
        op[i][x] = TweakOnce(x, tweaks[i]) /\ op[i][x] \in KeyState
  BY <1>1, TweakType
<1> HIDE DEF op
<1>3. PICK g \in [SUBSET (1 .. n) -> KeyState], h \in [0 .. n -> KeyState] :
             IsFold(g, h, n, key, op)
  <2>1. key \in KeyState
    BY OrderInt DEF Infinity
  <2>2. StepOn(op, 1 .. n, KeyState)
    BY <1>2 DEF StepOn
  <2> HIDE DEF n
  <2> QED BY <1>1, <2>1, <2>2, FoldSteps
<1>4. ASSUME NEW s \in SUBSET (1 .. n), s # {}
      PROVE  g[s] = TweakOnce(g[s \ {Max(s)}], tweaks[Max(s)])
  BY <1>2, <1>3, <1>4 DEF IsFold
<1>5. Solves(g)
  BY <1>1, <1>3, <1>4 DEF IsFold
<1>6. Solves(iter)
  BY <1>5
<1>7. iter[1 .. n] = h[n]
  <2>1. iter[{}] = key
    BY <1>6
  <2>2. ASSUME NEW s \in SUBSET (1 .. n), s # {},
               iter[s \ {Max(s)}] = g[s \ {Max(s)}]
        PROVE  iter[s] = g[s]
    BY <1>1, <1>4, <1>6, <2>2
  <2> HIDE DEF iter
  <2> QED BY <1>3, <2>1, <2>2 DEF IsFold
<1>8. FoldLeft(TweakOnce, key, tweaks) = iter[1 .. n]
  BY <1>1 DEF FoldLeft, MapThenFoldSet
<1>9. ASSUME NEW k \in 1 .. n PROVE h[k] = TweakOnce(h[k - 1], tweaks[k])
  <2>1. h[k] = op[k][h[k - 1]] /\ h[k - 1] \in KeyState
    BY <1>1, <1>3 DEF IsFold
  <2> QED BY <1>2, <2>1
<1> HIDE DEF iter
<1> QED BY <1>3, <1>7, <1>8, <1>9 DEF IsFold

-------------------------------------------------------------------------------
(***************************************************************************)
(* Partial signatures: the one that verifies is the one the signer makes.  *)
(***************************************************************************)
\* The parts of the session a signer and a verifier use.
Values(v) == v.b \in Scalar /\ v.e \in Scalar /\ v.flips \in BOOLEAN

\* A participant's key in the challenge, with the session's sign.
LEMMA ShareSame ==
  ASSUME NEW v, Values(v), NEW pk, v.coeff[pk] \in Scalar
  PROVE  /\ KeyShare(pk, v) \in Scalar
         /\ Same(KeyShare(pk, v), Sgn(v.flips) * (v.coeff[pk] * v.e))
<1> DEFINE c == v.coeff[pk]
           ce == ScalarMul(c, v.e)
           f == v.flips
<1>1. /\ c \in Scalar /\ v.e \in Scalar /\ f \in BOOLEAN
      /\ c \in Int /\ v.e \in Int
  BY OrderInt DEF Values
<1>2. KeyShare(pk, v) = SignedIf(f, ce)
  BY DEF KeyShare
<1>3. ce \in Scalar /\ Same(ce, c * v.e)
  BY <1>1, MulSame
<1>4. SignedIf(f, ce) \in Scalar /\ Same(SignedIf(f, ce), Sgn(f) * ce)
  BY <1>1, <1>3, SignedSame
<1>5. Sgn(f) \in Int /\ ce \in Int /\ c * v.e \in Int
  <2>1. c * v.e \in Int
    BY <1>1
  <2>2. Sgn(f) \in Int
    BY <1>1, SgnType
  <2> QED BY <1>3, <2>1, <2>2, OrderInt
<1>6. Same(Sgn(f) * ce, Sgn(f) * (c * v.e))
  BY <1>3, <1>5, SameMul
<1> QED BY <1>2, <1>4, <1>6, SameTrans

\* The effective nonce of a signer, without its sign.
EffNonce(sec, v) == sec[1] + sec[2] * v.b

\* A participant's nonce in the session.
LEMMA EffSame ==
  ASSUME NEW sec \in Scalar \X Scalar, NEW v, v.b \in Scalar
  PROVE  /\ PtAdd(sec[1], ScalarMul(sec[2], v.b)) \in Scalar
         /\ Same(PtAdd(sec[1], ScalarMul(sec[2], v.b)), EffNonce(sec, v))
         /\ EffNonce(sec, v) \in Int
<1> DEFINE a == sec[1]
           c == sec[2]
           cb == ScalarMul(c, v.b)
<1>1. /\ a \in Scalar /\ c \in Scalar /\ a \in Int /\ c \in Int /\ v.b \in Int
  BY OrderInt
<1>2. cb \in Scalar /\ Same(cb, c * v.b) /\ cb \in Int /\ c * v.b \in Int
  <2>1. c * v.b \in Int
    BY <1>1
  <2> QED BY <1>1, <2>1, MulSame, OrderInt
<1>3. PtAdd(a, cb) \in Scalar /\ Same(PtAdd(a, cb), a + cb)
  BY <1>1, <1>2, AddSame
<1>4. Same(a + cb, a + c * v.b)
  BY <1>1, <1>2, SameAdd, SameIs
<1>5. EffNonce(sec, v) = a + c * v.b /\ a + c * v.b \in Int
  BY <1>1, <1>2 DEF EffNonce
<1> QED BY <1>3, <1>4, <1>5, SameTrans

\* A partial signature is the signed nonce plus the signed share of the key.
LEMMA SignSame ==
  ASSUME NEW sec \in Scalar \X Scalar, NEW pk \in Scalar, NEW v, v.b \in Scalar,
         KeyShare(pk, v) \in Scalar
  PROVE  /\ Sign(sec, pk, v) \in Scalar
         /\ Same(Sign(sec, pk, v),
                 Sgn(~EvenY(v.r)) * EffNonce(sec, v) + pk * KeyShare(pk, v))
<1> DEFINE f == ~EvenY(v.r)
           s == Sgn(f)
           a == sec[1]
           c == sec[2]
           b == v.b
           ka == SignedIf(f, a)
           kc == SignedIf(f, c)
           kcb == ScalarMul(kc, b)
           k == ScalarAdd(ka, kcb)
           share == KeyShare(pk, v)
           ps == ScalarMul(pk, share)
<1>1. /\ f \in BOOLEAN /\ a \in Scalar /\ c \in Scalar /\ b \in Scalar
      /\ a \in Int /\ c \in Int /\ b \in Int /\ pk \in Int /\ share \in Int
  BY OrderInt
<1>2. s \in Int
  BY <1>1, SgnType
<1>3. /\ ka \in Scalar /\ Same(ka, s * a) /\ ka \in Int
      /\ kc \in Scalar /\ Same(kc, s * c) /\ kc \in Int
  BY <1>1, SignedSame, OrderInt
<1>4. kcb \in Scalar /\ Same(kcb, kc * b) /\ kcb \in Int
  BY <1>1, <1>3, MulSame, OrderInt
<1>5. k \in Scalar /\ Same(k, ka + kcb) /\ k \in Int
  BY <1>3, <1>4, AddSame, OrderInt
<1>6. ps \in Scalar /\ Same(ps, pk * share) /\ ps \in Int
  BY MulSame, OrderInt
<1>7. Sign(sec, pk, v) = ScalarAdd(k, ps)
  BY DEF Sign
<1>8. ScalarAdd(k, ps) \in Scalar /\ Same(ScalarAdd(k, ps), k + ps)
  BY <1>5, <1>6, AddSame
<1>9. EffNonce(sec, v) = a + c * b
  BY DEF EffNonce
<1> HIDE DEF f, s, a, c, b, ka, kc, kcb, k, share, ps
<1>10. /\ s * a \in Int /\ s * c \in Int /\ (s * c) * b \in Int /\ kc * b \in Int
       /\ c * b \in Int /\ s * (a + c * b) = s * a + (s * c) * b
       /\ pk * share \in Int
  BY <1>1, <1>2, <1>3
<1>11. Same(kcb, (s * c) * b)
  <2>1. Same(kc * b, (s * c) * b)
    BY <1>1, <1>3, <1>10, SameMul
  <2> QED BY <1>4, <2>1, SameTrans
<1>12. Same(ka + kcb, s * a + (s * c) * b)
  BY <1>3, <1>4, <1>10, <1>11, SameAdd
<1>13. Same(k, s * (a + c * b))
  BY <1>5, <1>10, <1>12, SameTrans
<1>14. Same(k + ps, s * (a + c * b) + pk * share)
  <2>1. s * (a + c * b) \in Int
    BY <1>10
  <2> QED BY <1>5, <1>6, <1>10, <1>13, <2>1, SameAdd
<1>15. Same(ScalarAdd(k, ps), s * (a + c * b) + pk * share)
  BY <1>8, <1>14, SameTrans
<1>16. Sgn(~EvenY(v.r)) = s /\ KeyShare(pk, v) = share
  BY DEF s, f, share
<1> QED BY <1>7, <1>8, <1>9, <1>15, <1>16

\* What partial_sig_verify compares with is what sign makes.
LEMMA SignOwn ==
  ASSUME NEW sec \in Scalar \X Scalar, NEW pk \in Scalar, NEW v, v.b \in Scalar,
         KeyShare(pk, v) \in Scalar, KeyShare(pk, v) # 0
  PROVE  Sign(sec, pk, v)
           = PtAdd(SignedIf(~EvenY(v.r),
                            PtAdd(sec[1], ScalarMul(sec[2], v.b))),
                   PtMul(pk, KeyShare(pk, v)))
<1> DEFINE f == ~EvenY(v.r)
           s == Sgn(f)
           re == PtAdd(sec[1], ScalarMul(sec[2], v.b))
           share == KeyShare(pk, v)
           ps == PtMul(pk, share)
           k == SignedIf(f, re)
           eff == EffNonce(sec, v)
<1>1. f \in BOOLEAN /\ s \in Int /\ pk \in Int /\ share \in Int
  BY SgnType, OrderInt
<1>2. re \in Scalar /\ Same(re, eff) /\ eff \in Int /\ re \in Int
  BY EffSame, OrderInt
<1>3. ps # Err
  <2>1. 0 # Err /\ (pk * share) \in Int
    BY <1>1 DEF Err
  <2>2. (pk * share) % Order \in Scalar
    BY <2>1, SameMod
  <2>3. Err \notin Scalar
    BY OrderOK DEF Scalar, Err
  <2> QED BY <2>1, <2>2, <2>3 DEF PtMul, Infinity
<1>4. ps \in Scalar /\ Same(ps, pk * share) /\ ps \in Int
  BY <1>3, PtMulSame, OrderInt
<1>5. k \in Scalar /\ Same(k, s * re) /\ k \in Int
  BY <1>1, <1>2, SignedSame, OrderInt
<1>6. PtAdd(k, ps) \in Scalar /\ Same(PtAdd(k, ps), k + ps)
  BY <1>4, <1>5, AddSame
<1>7. /\ Sign(sec, pk, v) \in Scalar
      /\ Same(Sign(sec, pk, v), s * eff + pk * share)
  BY SignSame
<1> HIDE DEF f, s, re, share, ps, k, eff
<1>8. s * re \in Int /\ s * eff \in Int /\ pk * share \in Int
  BY <1>1, <1>2
<1>9. Same(k, s * eff)
  <2>1. Same(s * re, s * eff)
    BY <1>1, <1>2, SameMul
  <2> QED BY <1>5, <2>1, SameTrans
<1>10. Same(k + ps, s * eff + pk * share)
  BY <1>4, <1>5, <1>8, <1>9, SameAdd
<1>11. Same(Sign(sec, pk, v), PtAdd(k, ps))
  BY <1>6, <1>7, <1>10, SameTrans, SameSwap
<1>12. Sign(sec, pk, v) = PtAdd(k, ps)
  BY <1>6, <1>7, <1>11, SameScalar
<1> QED BY <1>12 DEF k, ps, share, re, f

-------------------------------------------------------------------------------
(***************************************************************************)
(* Spends.                                                                 *)
(***************************************************************************)
\* Numbers of 32 bytes.
Hash == 0 .. Width - 1

\* A spend as the ceremony can be asked for, and what its session computes.
RightSpend(sp) ==
  /\ sp.pks \in Seq(Point) /\ sp.pks # <<>> /\ Hashed(sp.hash, sp.pks)
  /\ sp.il \in Hash /\ sp.tap \in Hash /\ sp.b \in Hash /\ sp.e \in Hash
  /\ sp.taproot \in BOOLEAN
  /\ sp.sec \in Seq(Scalar \X Scalar) /\ Len(sp.sec) = Len(sp.pks)

ValuesOf(sp) == SessionValues(MakeSession(sp))
Tweaked(sp) == ApplyTweaks(KeyAgg(sp.pks, sp.hash), Tweaks(sp))

\* The parts of a session's values, one by one.
LEMMA SessionIs ==
  ASSUME NEW sp
  PROVE  /\ ValuesOf(sp).q = Tweaked(sp).q
         /\ ValuesOf(sp).tacc = Tweaked(sp).tacc
         /\ ValuesOf(sp).flips = (~EvenY(Tweaked(sp).q) # Tweaked(sp).flipped)
         /\ ValuesOf(sp).b = Reduce(sp.b)
         /\ ValuesOf(sp).e = Reduce(sp.e)
         /\ ValuesOf(sp).cancel = (NonceSum(MakeSession(sp)) = Infinity)
         /\ ValuesOf(sp).r = IF NonceSum(MakeSession(sp)) = Infinity THEN 1
                             ELSE NonceSum(MakeSession(sp))
         /\ \A p \in Range(sp.pks) :
              ValuesOf(sp).coeff[p] = Coeff(sp.pks, sp.hash, p)
BY DEF ValuesOf, SessionValues, MakeSession, Tweaked

LEMMA SpendValues ==
  ASSUME NEW sp, RightSpend(sp)
  PROVE  /\ Values(ValuesOf(sp))
         /\ \A i \in 1 .. Len(sp.pks) :
              /\ sp.pks[i] \in Scalar /\ sp.sec[i] \in Scalar \X Scalar
              /\ ValuesOf(sp).coeff[sp.pks[i]]
                   = Coeff(sp.pks, sp.hash, sp.pks[i])
              /\ ValuesOf(sp).coeff[sp.pks[i]] \in Scalar
              /\ KeyShare(sp.pks[i], ValuesOf(sp)) \in Scalar
<1> DEFINE v == ValuesOf(sp)
<1>1. v.b \in Scalar /\ v.e \in Scalar
  BY SessionIs, ReduceScalar DEF RightSpend, Hash
<1>2. v.flips \in BOOLEAN
  BY SessionIs
<1>3. Values(v)
  BY <1>1, <1>2 DEF Values
<1>4. ASSUME NEW i \in 1 .. Len(sp.pks)
      PROVE  /\ sp.pks[i] \in Scalar /\ sp.sec[i] \in Scalar \X Scalar
             /\ v.coeff[sp.pks[i]] = Coeff(sp.pks, sp.hash, sp.pks[i])
             /\ v.coeff[sp.pks[i]] \in Scalar
  <2>1. sp.pks[i] \in Range(sp.pks)
    BY DEF RightSpend, Range
  <2>2. v.coeff[sp.pks[i]] = Coeff(sp.pks, sp.hash, sp.pks[i])
    BY <2>1, SessionIs
  <2>3. sp.pks[i] \in Scalar /\ Coeff(sp.pks, sp.hash, sp.pks[i]) \in Scalar
    BY CoeffScalar DEF RightSpend
  <2>4. sp.sec[i] \in Scalar \X Scalar
    BY DEF RightSpend
  <2> QED BY <2>2, <2>3, <2>4
<1> HIDE DEF v
<1>5. \A i \in 1 .. Len(sp.pks) : KeyShare(sp.pks[i], v) \in Scalar
  BY <1>3, <1>4, ShareSame
<1> QED BY <1>3, <1>4, <1>5 DEF v

\* In a spend, the partial signature that verifies is the signer's own.
LEMMA SpendOwn ==
  ASSUME NEW sp, RightSpend(sp), NEW i \in 1 .. Len(sp.pks), NEW psig,
         PartialSigVerify(psig, sp.sec[i], sp.pks[i], ValuesOf(sp))
  PROVE  psig = Sign(sp.sec[i], sp.pks[i], ValuesOf(sp))
<1> DEFINE v == ValuesOf(sp)
           pk == sp.pks[i]
           sec == sp.sec[i]
<1>1. /\ v.b \in Scalar /\ pk \in Scalar /\ sec \in Scalar \X Scalar
      /\ KeyShare(pk, v) \in Scalar
  BY SpendValues DEF Values
<1> HIDE DEF v, pk, sec
<1>2. /\ KeyShare(pk, v) # 0
      /\ psig = PtAdd(SignedIf(~EvenY(v.r),
                              PtAdd(sec[1], ScalarMul(sec[2], v.b))),
                      PtMul(pk, KeyShare(pk, v)))
  BY DEF PartialSigVerify, v, pk, sec
<1>3. psig = Sign(sec, pk, v)
  BY <1>1, <1>2, SignOwn
<1> QED BY <1>3 DEF v, pk, sec

-------------------------------------------------------------------------------
(***************************************************************************)
(* The key of a spend: the tweaked aggregate, and the one finalize         *)
(* verifies with is its x.                                                 *)
(***************************************************************************)
LEMMA TweakMeans ==
  ASSUME NEW k \in KeyState, NEW tweak \in Tweak, TweakOnce(k, tweak).q # Err
  PROVE  /\ k.q # Err /\ tweak.t < Order
         /\ LET q == PtAdd(IF tweak.xonly /\ ~EvenY(k.q) THEN PtNeg(k.q)
                          ELSE k.q, tweak.t)
            IN  q # Infinity /\ TweakOnce(k, tweak).q = q
<1>1. tweak.t \in Int /\ Order \in Int
  BY OrderOK DEF Tweak
<1> QED BY <1>1 DEF TweakOnce, KeyState

\* finalize verifies with the x of the key the session signs for.
LEMMA SpendKey ==
  ASSUME NEW sp, RightSpend(sp), Tweaked(sp).q # Err, VerifyKey(sp) # Err
  PROVE  /\ KeyAgg(sp.pks, sp.hash) # Err
         /\ KeyRight(Tweaked(sp), KeyAgg(sp.pks, sp.hash))
         /\ VerifyKey(sp) = X(Tweaked(sp).q)
<1> DEFINE agg == KeyAgg(sp.pks, sp.hash)
           plain == [t |-> sp.il, xonly |-> FALSE]
           tap == [t |-> sp.tap, xonly |-> TRUE]
           key == [q |-> agg, flipped |-> FALSE, tacc |-> 0]
           tweaks == Tweaks(sp)
           child == ChildKey(agg, sp.il)
<1>1. agg = Err \/ agg \in Scalar
  BY KeyAggSame DEF RightSpend
<1>2. plain \in Tweak /\ tap \in Tweak
  BY DEF RightSpend, Hash, Tweak
<1>3. key \in KeyState /\ KeyRight(key, agg) /\ agg \in Int
  <2>1. agg \in PointOrErr /\ agg \in Int
    BY <1>1, PointInt DEF PointOrErr
  <2>2. key \in KeyState
    BY <2>1, OrderInt DEF KeyState
  <2>3. Sgn(key.flipped) * agg + key.tacc = agg
    BY <2>1 DEF Sgn
  <2>4. Same(key.q, Sgn(key.flipped) * agg + key.tacc)
    BY <2>1, <2>3, SameIs
  <2> QED BY <2>1, <2>2, <2>4 DEF KeyRight
<1>t. tweaks = <<plain>> \o (IF sp.taproot THEN <<tap>> ELSE <<>>)
  BY DEF Tweaks
<1> HIDE DEF plain, tap, key, tweaks
<1>4. /\ tweaks \in Seq(Tweak)
      /\ tweaks[1] = plain
      /\ ~sp.taproot => Len(tweaks) = 1
      /\ sp.taproot => Len(tweaks) = 2 /\ tweaks[2] = tap
  <2>1. CASE ~sp.taproot
    <3>1. tweaks = <<plain>>
      BY <1>2, <1>t, <2>1
    <3> QED BY <1>2, <2>1, <3>1
  <2>2. CASE sp.taproot
    <3>1. tweaks = <<plain>> \o <<tap>>
      BY <1>t, <2>2
    <3> QED BY <1>2, <2>2, <3>1
  <2> QED BY <2>1, <2>2 DEF RightSpend
<1>5. tweaks \in Seq(Tweak)
  BY <1>4
<1>6. PICK h \in [0 .. Len(tweaks) -> KeyState] :
        /\ h[0] = key
        /\ \A k \in 1 .. Len(tweaks) : h[k] = TweakOnce(h[k - 1], tweaks[k])
        /\ FoldLeft(TweakOnce, key, tweaks) = h[Len(tweaks)]
  BY <1>3, <1>5, TweakSteps
<1>7. Tweaked(sp) = h[Len(tweaks)]
  BY <1>6 DEF Tweaked, ApplyTweaks, key, tweaks
<1> DEFINE first == TweakOnce(key, plain)
<1>8. KeyRight(first, agg)
  BY <1>2, <1>3, TweakSame
<1>9. \/ ~sp.taproot /\ Tweaked(sp) = first
      \/ sp.taproot /\ Tweaked(sp) = TweakOnce(first, tap)
  <2>1. CASE ~sp.taproot
    <3>1. Len(tweaks) = 1 /\ tweaks[1] = plain
      BY <1>4, <2>1
    <3>2. h[1] = TweakOnce(h[1 - 1], tweaks[1])
      BY <1>6, <3>1
    <3> QED BY <1>6, <1>7, <2>1, <3>1, <3>2
  <2>2. CASE sp.taproot
    <3>1. Len(tweaks) = 2 /\ tweaks[1] = plain /\ tweaks[2] = tap
      BY <1>4, <2>2
    <3>2. /\ h[1] = TweakOnce(h[1 - 1], tweaks[1])
          /\ h[2] = TweakOnce(h[2 - 1], tweaks[2])
      BY <1>6, <3>1
    <3>3. 1 - 1 = 0 /\ 2 - 1 = 1
      OBVIOUS
    <3> QED BY <1>6, <1>7, <2>2, <3>1, <3>2, <3>3
  <2> QED BY <2>1, <2>2
<1> HIDE DEF first
<1>10. KeyRight(Tweaked(sp), agg)
  BY <1>2, <1>3, <1>8, <1>9, TweakSame
<1>11. first.q # Err /\ first \in KeyState
  BY <1>2, <1>8, <1>9, TweakMeans DEF KeyRight
<1>12. agg # Err /\ first.q = PtAdd(agg, sp.il) /\ first.q = child
  <2>1. /\ key.q = agg /\ plain.t = sp.il /\ plain.xonly = FALSE
    BY DEF key, plain
  <2>2. /\ agg # Err /\ sp.il < Order /\ first.q = PtAdd(agg, sp.il)
        /\ PtAdd(agg, sp.il) # Infinity
    BY <1>2, <1>3, <1>11, <2>1, TweakMeans DEF first
  <2>3. sp.il # Err /\ ~(sp.il >= Order)
    BY <2>2, OrderInt DEF RightSpend, Hash, Err
  <2> QED BY <2>2, <2>3 DEF ChildKey, Combine
<1>13. VerifyKey(sp) = X(Tweaked(sp).q)
  <2> DEFINE out == IF sp.tap >= Order THEN Err ELSE PtAdd(X(child), sp.tap)
  <2>1. /\ child # Err /\ out \notin {Err, Infinity}
        /\ VerifyKey(sp) = IF sp.taproot THEN X(out) ELSE X(child)
    BY DEF VerifyKey, TaprootContext
  <2>2. CASE ~sp.taproot
    BY <1>9, <1>12, <2>1, <2>2
  <2>3. CASE sp.taproot
    <3>1. Tweaked(sp).q = PtAdd(IF ~EvenY(child) THEN PtNeg(child) ELSE child,
                               sp.tap)
      <4>1. tap.t = sp.tap /\ tap.xonly = TRUE
        BY DEF tap
      <4> QED BY <1>2, <1>9, <1>11, <1>12, <2>3, <4>1, TweakMeans
    <3>2. X(child) = IF ~EvenY(child) THEN PtNeg(child) ELSE child
      BY DEF X
    <3> QED BY <2>1, <2>3, <3>1, <3>2
  <2> QED BY <2>2, <2>3 DEF RightSpend
<1> QED BY <1>10, <1>12, <1>13

-------------------------------------------------------------------------------
(***************************************************************************)
(* An honest spend: the sum of what everybody signs is a signature.        *)
(***************************************************************************)
\* The participants' nonces in the session.
EffNonces(sp) ==
  [i \in 1 .. Len(sp.pks) |-> EffNonce(sp.sec[i], ValuesOf(sp))]

LEMMA EffInts ==
  ASSUME NEW sp, RightSpend(sp)
  PROVE  Ints(EffNonces(sp), Len(sp.pks))
<1>1. ASSUME NEW i \in 1 .. Len(sp.pks) PROVE EffNonces(sp)[i] \in Int
  <2>1. sp.sec[i] \in Scalar \X Scalar /\ ValuesOf(sp).b \in Scalar
    BY SpendValues DEF Values
  <2>2. EffNonce(sp.sec[i], ValuesOf(sp)) \in Int
    BY <2>1, EffSame
  <2> QED BY <2>2 DEF EffNonces
<1> QED BY <1>1 DEF Ints

\* The session's nonce is the sum of the signers' effective nonces.
LEMMA NonceSumSame ==
  ASSUME NEW sp, RightSpend(sp), ~ValuesOf(sp).cancel, ValuesOf(sp).r # Err
  PROVE  /\ ValuesOf(sp).r \in Scalar
         /\ Same(ValuesOf(sp).r, Total(EffNonces(sp), Len(sp.pks)))
<1> DEFINE n == Len(sp.pks)
           b == ValuesOf(sp).b
           r1 == NonceAgg(sp.sec)[1]
           r2 == NonceAgg(sp.sec)[2]
           s1 == [i \in 1 .. n |-> sp.sec[i][1]]
           s2 == [i \in 1 .. n |-> sp.sec[i][2]]
           eff == EffNonces(sp)
           br2 == PtMul(r2, b)
<1>1. b = Reduce(sp.b) /\ b \in Scalar /\ b \in Int
  BY SessionIs, SpendValues, OrderInt DEF Values
<1>2. /\ ValuesOf(sp).r = PtAdd(r1, br2) /\ br2 # Err
  <2>1. NonceSum(MakeSession(sp))
          = IF PtMul(r2, Reduce(sp.b)) = Err THEN Err
            ELSE PtAdd(r1, PtMul(r2, Reduce(sp.b)))
    BY DEF NonceSum, MakeSession
  <2>2. /\ NonceSum(MakeSession(sp)) # Infinity
        /\ ValuesOf(sp).r = NonceSum(MakeSession(sp))
    BY SessionIs
  <2> QED BY <1>1, <2>1, <2>2
<1>3. /\ n \in Nat /\ sp.sec \in Seq(Scalar \X Scalar) /\ Len(sp.sec) = n
      /\ \A i \in 1 .. n : sp.sec[i] \in Scalar \X Scalar
  BY DEF RightSpend
<1>4. /\ r1 \in Scalar /\ Same(r1, Total(s1, n))
      /\ r2 \in Scalar /\ Same(r2, Total(s2, n))
  <2>1. 1 \in 1 .. 2 /\ 2 \in 1 .. 2
    OBVIOUS
  <2>2. /\ r1 \in Scalar
        /\ Same(r1, Total([i \in 1 .. Len(sp.sec) |-> sp.sec[i][1]], Len(sp.sec)))
    BY <1>3, <2>1, NonceSame
  <2>3. /\ r2 \in Scalar
        /\ Same(r2, Total([i \in 1 .. Len(sp.sec) |-> sp.sec[i][2]], Len(sp.sec)))
    BY <1>3, <2>1, NonceSame
  <2> QED BY <1>3, <2>2, <2>3
<1>5. Ints(s1, n) /\ Ints(s2, n)
  BY <1>3, OrderInt DEF Ints
<1>6. \A i \in 1 .. n : eff[i] = 1 * s1[i] + b * s2[i]
  <2>1. ASSUME NEW i \in 1 .. n PROVE eff[i] = 1 * s1[i] + b * s2[i]
    <3>1. eff[i] = sp.sec[i][1] + sp.sec[i][2] * b
      BY DEF EffNonces, EffNonce
    <3>2. s1[i] = sp.sec[i][1] /\ s2[i] = sp.sec[i][2]
      OBVIOUS
    <3>3. sp.sec[i][1] \in Int /\ sp.sec[i][2] \in Int
      BY <1>3, OrderInt
    <3> HIDE DEF s1, s2, b, eff
    <3> QED BY <1>1, <3>1, <3>2, <3>3
  <2> QED BY <2>1
<1> HIDE DEF n, b, r1, r2, s1, s2, eff, br2
<1>7. Total(eff, n) = 1 * Total(s1, n) + b * Total(s2, n)
  BY <1>1, <1>3, <1>5, <1>6, TotalLinear
<1>8. Total(s1, n) \in Int /\ Total(s2, n) \in Int
  BY <1>3, <1>5, TotalSteps
<1>9. br2 \in Scalar /\ Same(br2, r2 * b)
  BY <1>1, <1>2, <1>4, PtMulSame DEF br2
<1> DEFINE t1 == Total(s1, n)
           t2 == Total(s2, n)
<1>10. /\ t1 \in Int /\ t2 \in Int /\ r1 \in Int /\ r2 \in Int /\ br2 \in Int
       /\ Same(r1, t1) /\ Same(r2, t2) /\ Total(eff, n) = 1 * t1 + b * t2
  BY <1>4, <1>7, <1>8, <1>9, OrderInt
<1> HIDE DEF t1, t2
<1>11. r2 * b \in Int /\ t2 * b \in Int /\ t2 * b = b * t2 /\ 1 * t1 = t1
  BY <1>1, <1>10
<1>12. Same(br2, t2 * b)
  <2>1. Same(r2 * b, t2 * b)
    BY <1>1, <1>10, SameMul
  <2> QED BY <1>9, <2>1, SameTrans
<1>13. Same(r1 + br2, t1 + t2 * b)
  BY <1>10, <1>11, <1>12, SameAdd
<1>14. PtAdd(r1, br2) \in Scalar /\ Same(PtAdd(r1, br2), r1 + br2)
  BY <1>4, <1>9, AddSame
<1>15. Same(PtAdd(r1, br2), t1 + t2 * b)
  BY <1>13, <1>14, SameTrans
<1>16. t1 + t2 * b = Total(eff, n)
  BY <1>10, <1>11
<1>17. Same(ValuesOf(sp).r, Total(eff, n))
  BY <1>2, <1>15, <1>16
<1> QED BY <1>2, <1>14, <1>17 DEF eff, n

\* The sum of the partial signatures: the nonces and the keys, with their
\* signs.
LEMMA HonestSum ==
  ASSUME NEW sp, RightSpend(sp)
  PROVE  LET n     == Len(sp.pks)
             v     == ValuesOf(sp)
             psigs == Honest(sp, v)
             sum   == FoldLeft(ScalarAdd, 0, psigs)
         IN  /\ \A i \in 1 .. n :
                  psigs[i] = Sign(sp.sec[i], sp.pks[i], v) /\ psigs[i] \in Scalar
             /\ sum \in Scalar
             /\ Same(sum, Sgn(~EvenY(v.r)) * Total(EffNonces(sp), n)
                          + (Sgn(v.flips) * v.e)
                              * Total(KeyTerms(sp.pks, sp.hash), n))
<1> DEFINE n == Len(sp.pks)
           v == ValuesOf(sp)
           psigs == Honest(sp, v)
           sum == FoldLeft(ScalarAdd, 0, psigs)
           eff == EffNonces(sp)
           terms == KeyTerms(sp.pks, sp.hash)
           s == Sgn(~EvenY(v.r))
           se == Sgn(v.flips) * v.e
           m == [i \in 1 .. n |-> s * eff[i] + se * terms[i]]
<1>1. /\ n \in Nat /\ DOMAIN sp.pks = 1 .. n
      /\ v.b \in Scalar /\ v.e \in Scalar /\ v.e \in Int /\ v.flips \in BOOLEAN
  <2>1. n \in Nat /\ DOMAIN sp.pks = 1 .. n
    BY DEF RightSpend
  <2>2. Values(v)
    BY SpendValues
  <2> HIDE DEF n, v
  <2> QED BY <2>1, <2>2, OrderInt DEF Values
<1>2. s \in Int /\ se \in Int /\ Sgn(v.flips) \in Int
  <2>1. s \in Int /\ Sgn(v.flips) \in Int
    BY <1>1, SgnType
  <2> QED BY <1>1, <2>1
<1>3. ASSUME NEW i \in 1 .. n
      PROVE  /\ psigs[i] = Sign(sp.sec[i], sp.pks[i], v) /\ psigs[i] \in Scalar
             /\ eff[i] \in Int /\ terms[i] \in Int
             /\ Same(psigs[i], s * eff[i] + se * terms[i])
  <2> DEFINE pk == sp.pks[i]
             c == v.coeff[pk]
             share == KeyShare(pk, v)
             g == Sgn(v.flips)
             e == v.e
  <2>1. /\ pk \in Scalar /\ sp.sec[i] \in Scalar \X Scalar
        /\ c = Coeff(sp.pks, sp.hash, pk) /\ c \in Scalar /\ share \in Scalar
        /\ pk \in Int /\ c \in Int /\ share \in Int /\ Values(v)
    BY SpendValues, OrderInt
  <2>2. psigs[i] = Sign(sp.sec[i], pk, v)
    BY <1>1 DEF Honest
  <2>3. eff[i] = EffNonce(sp.sec[i], v) /\ terms[i] = pk * c
    BY <2>1 DEF EffNonces, KeyTerms
  <2>4. Same(share, g * (c * e))
    BY <2>1, ShareSame
  <2>5. /\ psigs[i] \in Scalar
        /\ Same(psigs[i], s * eff[i] + pk * share)
    BY <1>1, <2>1, <2>2, <2>3, SignSame
  <2>6. eff[i] \in Int
    BY EffInts DEF Ints
  <2> HIDE DEF pk, c, share, g, e, s, eff, terms, psigs
  <2>7. /\ g \in Int /\ e \in Int /\ se = g * e
    BY <1>1, <1>2 DEF g, e
  <2> HIDE DEF se
  <2>8. /\ g * (c * e) \in Int /\ pk * (g * (c * e)) \in Int
        /\ pk * share \in Int /\ s * eff[i] \in Int /\ pk * c \in Int
    <3>1. c * e \in Int /\ pk * share \in Int /\ pk * c \in Int
      BY <2>1, <2>7
    <3>2. g * (c * e) \in Int
      BY <2>7, <3>1
    <3>3. pk * (g * (c * e)) \in Int
      BY <2>1, <3>2
    <3>4. s * eff[i] \in Int
      <4> DEFINE x == eff[i]
      <4>1. x \in Int
        BY <2>6
      <4> HIDE DEF x
      <4>2. s * x \in Int
        BY <1>2, <4>1
      <4> QED BY <4>2 DEF x
    <3> QED BY <3>1, <3>2, <3>3, <3>4
  <2>9. pk * (g * (c * e)) = (g * e) * (pk * c)
    BY <2>1, <2>7
  <2>10. Same(pk * share, (g * e) * (pk * c))
    BY <2>1, <2>4, <2>8, <2>9, SameMul
  <2>11. (g * e) * (pk * c) \in Int
    BY <2>8, <2>9
  <2>12. Same(s * eff[i] + pk * share, s * eff[i] + (g * e) * (pk * c))
    BY <2>8, <2>10, <2>11, SameAdd, SameIs
  <2>13. Same(psigs[i], s * eff[i] + (g * e) * (pk * c))
    BY <2>5, <2>12, SameTrans
  <2>14. Same(psigs[i], s * eff[i] + se * terms[i])
    BY <2>3, <2>7, <2>13
  <2>15. terms[i] \in Int
    BY <2>3, <2>8
  <2> QED BY <2>2, <2>5, <2>6, <2>14, <2>15 DEF pk
<1>4. psigs \in Seq(Scalar) /\ Len(psigs) = n
  <2>1. psigs = [i \in 1 .. n |-> psigs[i]]
    BY <1>1 DEF Honest
  <2> HIDE DEF psigs, n
  <2> QED BY <1>1, <1>3, <2>1
<1>5. Ints(eff, n) /\ Ints(terms, n)
  BY <1>3 DEF Ints
<1>6. \A i \in 1 .. n : m[i] = s * eff[i] + se * terms[i]
  OBVIOUS
<1> HIDE DEF n, v, psigs, eff, terms, s, se, m, sum
<1>7. Ints(m, n) /\ Total(m, n) = s * Total(eff, n) + se * Total(terms, n)
  BY <1>1, <1>2, <1>5, <1>6, TotalLinear
<1>8. Same(Total(psigs, n), Total(m, n))
  <2>1. Ints(psigs, n)
    BY <1>3, OrderInt DEF Ints
  <2>2. \A i \in 1 .. n : Same(psigs[i], m[i])
    BY <1>3, <1>6
  <2> QED BY <1>1, <1>7, <2>1, <2>2, TotalSame
<1>9. sum \in Scalar /\ Same(sum, Total(psigs, n))
  BY <1>4, PartialsAdd DEF sum
<1>10. Same(sum, s * Total(eff, n) + se * Total(terms, n))
  BY <1>7, <1>8, <1>9, SameTrans
<1> QED BY <1>3, <1>9, <1>10 DEF n, v, psigs, eff, terms, s, se, sum

\* An honest spend that nothing fails in finalizes.
LEMMA SpendFinalizes ==
  ASSUME NEW sp, RightSpend(sp),
         ~Degenerate(sp, ValuesOf(sp), Honest(sp, ValuesOf(sp)))
  PROVE  Finalizes(sp, ValuesOf(sp), Honest(sp, ValuesOf(sp)))
<1> DEFINE n == Len(sp.pks)
           v == ValuesOf(sp)
           psigs == Honest(sp, v)
           key == VerifyKey(sp)
<1>1. n \in Nat /\ DOMAIN sp.pks = 1 .. n
  BY DEF RightSpend
<1>2. /\ v.q # Err /\ v.r # Err /\ ~v.cancel /\ key # Err
      /\ \A i \in 1 .. n :
           /\ psigs[i] # 0 /\ KeyShare(sp.pks[i], v) # 0
           /\ PtAdd(sp.sec[i][1], ScalarMul(sp.sec[i][2], v.b)) # Infinity
  BY <1>1 DEF Degenerate
<1>3. ASSUME NEW i \in 1 .. n
      PROVE  PartialSigVerify(psigs[i], sp.sec[i], sp.pks[i], v)
  <2> DEFINE pk == sp.pks[i]
             sec == sp.sec[i]
  <2>1. /\ v.b \in Scalar /\ pk \in Scalar /\ sec \in Scalar \X Scalar
        /\ KeyShare(pk, v) \in Scalar
    BY SpendValues DEF Values
  <2>2. psigs[i] = Sign(sec, pk, v) /\ psigs[i] \in Scalar
    BY HonestSum
  <2>3. psigs[i] \in Point
    BY <1>2, <2>2, OrderInt DEF Scalar, Point
  <2>4. KeyShare(pk, v) # 0
    BY <1>2
  <2>5. Sign(sec, pk, v) = PtAdd(SignedIf(~EvenY(v.r),
                                   PtAdd(sec[1], ScalarMul(sec[2], v.b))),
                                 PtMul(pk, KeyShare(pk, v)))
    BY <2>1, <2>4, SignOwn
  <2> QED BY <1>2, <2>2, <2>3, <2>5 DEF PartialSigVerify
<1>4. SchnorrVerifies(PartialSigAgg(psigs, v), key, v.e)
  <2> DEFINE q == v.q
             r == v.r
             e == v.e
             agg == KeyAgg(sp.pks, sp.hash)
             g == Sgn(Tweaked(sp).flipped)
             sq == Sgn(~EvenY(q))
             sr == Sgn(~EvenY(r))
             tacc == v.tacc
             eff == Total(EffNonces(sp), n)
             terms == Total(KeyTerms(sp.pks, sp.hash), n)
             sum == FoldLeft(ScalarAdd, 0, psigs)
             flip == SignedIf(~EvenY(q), tacc)
             fe == ScalarMul(flip, e)
             ss == ScalarAdd(sum, fe)
             ek == ScalarMul(e, key)
  <2>1. q = Tweaked(sp).q /\ tacc = Tweaked(sp).tacc
    BY SessionIs
  <2>2. KeyRight(Tweaked(sp), agg) /\ agg # Err /\ key = X(q)
    BY <1>2, <2>1, SpendKey
  <2>3. /\ q \in Scalar /\ tacc \in Scalar /\ Tweaked(sp).flipped \in BOOLEAN
        /\ Same(q, g * agg + tacc)
    BY <1>2, <2>1, <2>2 DEF KeyRight, KeyState, PointOrErr
  <2>4. agg \in Scalar /\ Same(agg, terms) /\ terms \in Int
    <3>1. /\ agg \in Scalar /\ Same(agg, terms)
          /\ Ints(KeyTerms(sp.pks, sp.hash), n)
      BY <2>2, KeyAggSame DEF RightSpend
    <3> QED BY <1>1, <3>1, TotalSteps
  <2>5. r \in Scalar /\ Same(r, eff) /\ eff \in Int
    <3>1. r \in Scalar /\ Same(r, eff)
      BY <1>2, NonceSumSame
    <3>2. Ints(EffNonces(sp), n)
      BY EffInts
    <3> QED BY <1>1, <3>1, <3>2, TotalSteps
  <2>6. /\ g \in Int /\ sq \in Int /\ sr \in Int /\ sq * sq = 1
        /\ Sgn(v.flips) = sq * g
    <3>1. (~EvenY(q)) \in BOOLEAN /\ (~EvenY(r)) \in BOOLEAN
      OBVIOUS
    <3>2. v.flips = ((~EvenY(q)) # Tweaked(sp).flipped)
      <4>1. v.flips = (~EvenY(q) # Tweaked(sp).flipped)
        BY <2>1, SessionIs
      <4>2. EvenY(q) \in BOOLEAN
        BY <2>3, OrderInt DEF EvenY
      <4> QED BY <2>3, <4>1, <4>2
    <3> QED BY <2>3, <3>1, <3>2, SgnType
  <2>7. e \in Scalar
    BY SpendValues DEF Values
  <2>8. sum \in Scalar /\ Same(sum, sr * eff + ((sq * g) * e) * terms)
    BY <2>6, HonestSum
  <2>9. key \in Scalar /\ Same(key, sq * q)
    BY <2>2, <2>3, XSame
  <2>10. X(r) \in Scalar /\ Same(X(r), sr * r)
    BY <2>5, XSame
  <2>11. flip \in Scalar /\ Same(flip, sq * tacc)
    <3>1. (~EvenY(q)) \in BOOLEAN
      OBVIOUS
    <3> QED BY <2>3, <3>1, SignedSame
  <2>12. fe \in Scalar /\ Same(fe, flip * e)
    BY <2>7, <2>11, MulSame
  <2>13. ss \in Scalar /\ Same(ss, sum + fe)
    BY <2>8, <2>12, AddSame
  <2>14. ek \in Scalar /\ Same(ek, e * key)
    BY <2>7, <2>9, MulSame
  <2>15. PtNeg(ek) \in Scalar /\ Same(PtNeg(ek), -ek)
    BY <2>14, NegSame
  <2>16. /\ PtAdd(ss, PtNeg(ek)) \in Scalar
         /\ Same(PtAdd(ss, PtNeg(ek)), ss + PtNeg(ek))
    BY <2>13, <2>15, AddSame
  <2>17. /\ PartialSigAgg(psigs, v).s = ss /\ PartialSigAgg(psigs, v).rx = X(r)
    BY DEF PartialSigAgg
  <2>18. /\ q \in Int /\ r \in Int /\ e \in Int /\ agg \in Int /\ tacc \in Int
         /\ sum \in Int /\ key \in Int /\ X(r) \in Int /\ flip \in Int
         /\ fe \in Int /\ ss \in Int /\ ek \in Int /\ PtNeg(ek) \in Int
    BY <2>3, <2>4, <2>5, <2>7, <2>8, <2>9, <2>10, <2>11, <2>12, <2>13, <2>14,
       <2>15, OrderInt
  <2> DEFINE negated == PtNeg(ek)
             total == PtAdd(ss, negated)
             xr == X(r)
             w == ((sq * g) * e) * terms + (sq * tacc) * e
  <2>19. /\ Same(q, g * agg + tacc) /\ Same(agg, terms) /\ Same(r, eff)
         /\ Same(sum, sr * eff + ((sq * g) * e) * terms)
         /\ Same(key, sq * q) /\ Same(xr, sr * r) /\ Same(flip, sq * tacc)
         /\ Same(fe, flip * e) /\ Same(ss, sum + fe) /\ Same(ek, e * key)
         /\ Same(negated, -ek) /\ Same(total, ss + negated)
         /\ terms \in Int /\ eff \in Int /\ g \in Int /\ sq \in Int /\ sr \in Int
         /\ negated \in Int /\ xr \in Int /\ total \in Scalar /\ xr \in Scalar
    BY <2>3, <2>4, <2>5, <2>6, <2>8, <2>9, <2>10, <2>11, <2>12, <2>13, <2>14,
       <2>15, <2>16, <2>18
  <2> HIDE DEF q, r, e, agg, g, sq, sr, tacc, eff, terms, sum, flip, fe, ss, ek,
               negated, total, xr, key
  <2>20. Same(ek, w)
    <3>1. /\ g * agg \in Int /\ g * terms \in Int /\ sq * q \in Int
          /\ g * agg + tacc \in Int /\ g * terms + tacc \in Int
      BY <2>18, <2>19
    <3>2. Same(g * agg, g * terms)
      BY <2>18, <2>19, SameMul
    <3>3. Same(g * agg + tacc, g * terms + tacc)
      BY <2>18, <3>1, <3>2, SameAdd, SameIs
    <3>4. Same(q, g * terms + tacc)
      BY <2>19, <3>3, SameTrans
    <3>5. sq * (g * terms + tacc) \in Int
      BY <2>19, <3>1
    <3>6. Same(sq * q, sq * (g * terms + tacc))
      BY <2>18, <2>19, <3>1, <3>4, SameMul
    <3>7. Same(key, sq * (g * terms + tacc))
      BY <2>19, <3>6, SameTrans
    <3>8. Same(e * key, e * (sq * (g * terms + tacc)))
      BY <2>18, <3>5, <3>7, SameMul
    <3>9. e * (sq * (g * terms + tacc)) = w
      BY <2>18, <2>19
    <3> QED BY <2>19, <3>8, <3>9, SameTrans
  <2>21. Same(ss, sr * eff + w)
    <3> DEFINE a == sr * eff
               b == ((sq * g) * e) * terms
               c == (sq * tacc) * e
    <3>1. a \in Int /\ sq * tacc \in Int /\ c \in Int
      BY <2>18, <2>19
    <3>2. b \in Int
      <4>1. sq * g \in Int
        BY <2>19
      <4>2. (sq * g) * e \in Int
        BY <2>18, <4>1
      <4> QED BY <2>19, <4>2
    <3>3. flip * e \in Int
      BY <2>18
    <3>4. Same(fe, c)
      <4>1. Same(flip * e, c)
        BY <2>18, <2>19, <3>1, SameMul
      <4> QED BY <2>19, <4>1, SameTrans
    <3>5. Same(sum, a + b)
      BY <2>19
    <3> HIDE DEF a, b, c
    <3>6. Same(sum + fe, (a + b) + c)
      BY <2>18, <3>1, <3>2, <3>4, <3>5, SameAdd
    <3>7. (a + b) + c = a + (b + c)
      BY <3>1, <3>2
    <3>8. Same(ss, a + (b + c))
      BY <2>19, <3>6, <3>7, SameTrans
    <3> QED BY <3>8 DEF a, b, c
  <2>22. w \in Int /\ sr * eff \in Int /\ sr * r \in Int
    <3>1. sq * g \in Int /\ sq * tacc \in Int
      BY <2>18, <2>19
    <3>2. (sq * g) * e \in Int /\ (sq * tacc) * e \in Int
      BY <2>18, <3>1
    <3>3. ((sq * g) * e) * terms \in Int
      BY <2>19, <3>2
    <3> QED BY <2>18, <2>19, <3>2, <3>3
  <2> HIDE DEF w
  <2>23. Same(ss + negated, sr * eff)
    <3>1. Same(-ek, -w)
      <4>1. Same((-1) * ek, (-1) * w)
        BY <2>18, <2>20, <2>22, SameMul
      <4>2. (-1) * ek = -ek /\ (-1) * w = -w
        BY <2>18, <2>22
      <4> QED BY <4>1, <4>2
    <3>2. Same(negated, -w)
      BY <2>19, <3>1, SameTrans
    <3> DEFINE a == sr * eff
    <3>3. a \in Int /\ a + w \in Int /\ -w \in Int /\ (a + w) + (-w) = a
      BY <2>22
    <3>4. Same(ss, a + w)
      BY <2>21
    <3> HIDE DEF a
    <3>5. Same(ss + negated, (a + w) + (-w))
      BY <2>18, <2>19, <3>2, <3>3, <3>4, SameAdd
    <3> QED BY <3>3, <3>5 DEF a
  <2>24. Same(xr, sr * eff)
    <3>1. Same(sr * r, sr * eff)
      BY <2>18, <2>19, SameMul
    <3> QED BY <2>19, <3>1, SameTrans
  <2>25. total = xr
    <3>1. Same(total, xr)
      BY <2>19, <2>23, <2>24, SameTrans, SameSwap
    <3> QED BY <2>19, <3>1, SameScalar
  <2> QED BY <2>17, <2>25 DEF SchnorrVerifies, total, negated, ss, ek, xr, e
<1> QED BY <1>1, <1>2, <1>3, <1>4 DEF Finalizes

-------------------------------------------------------------------------------
(***************************************************************************)
(* Lists of keys: what key_sort gives has the keys it is given.            *)
(***************************************************************************)
\* The elements of 1 .. n, from the one with the smallest v to the largest.
LEMMA OrderExists ==
  ASSUME NEW n \in Nat, NEW v, \A i \in 1 .. n : v[i] \in Nat
  PROVE  \E f \in Bijection(1 .. n, 1 .. n) :
           \A i, j \in 1 .. n : i < j => v[f[i]] <= v[f[j]]
<1> DEFINE Orders(f, T) ==
             /\ f \in [1 .. Cardinality(T) -> T]
             /\ \A x \in T : \E i \in 1 .. Cardinality(T) : f[i] = x
             /\ \A i, j \in 1 .. Cardinality(T) :
                  /\ i # j => f[i] # f[j]
                  /\ i < j => v[f[i]] <= v[f[j]]
           G == {T \in SUBSET (1 .. n) : \E f : Orders(f, T)}
<1>0. IsFiniteSet(1 .. n) /\ Cardinality(1 .. n) = n
  BY FS_Interval
<1>1. ASSUME NEW T \in SUBSET (1 .. n), \A x \in T : T \ {x} \in G PROVE T \in G
  <2>0. IsFiniteSet(T)
    BY <1>0, FS_Subset
  <2>1. CASE T = {}
    <3>1. Cardinality(T) = 0
      BY <2>1, FS_EmptySet
    <3>2. Orders([i \in {} |-> 0], T)
      BY <2>1, <3>1
    <3> QED BY <3>2
  <2>2. CASE T # {}
    <3>1. PICK x \in T : \A y \in T : v[y] <= v[x]
      <4>1. \A y \in T : v[y] \in Nat
        OBVIOUS
      <4> QED BY <2>0, <2>2, <4>1, LargestExists
    <3> DEFINE m == Cardinality(T)
               f == CHOOSE h : Orders(h, T \ {x})
               e == [i \in 1 .. m |-> IF i = m THEN x ELSE f[i]]
    <3>2. Cardinality(T \ {x}) = m - 1 /\ m \in Nat /\ m - 1 \in Nat
      <4>1. Cardinality(T \ {x}) = Cardinality(T) - 1
        BY <2>0, FS_RemoveElement
      <4>2. IsFiniteSet(T \ {x})
        BY <2>0, FS_RemoveElement
      <4>3. Cardinality(T) \in Nat /\ Cardinality(T \ {x}) \in Nat
        BY <2>0, <4>2, FS_CardinalityType
      <4> QED BY <4>1, <4>3
    <3>3. Orders(f, T \ {x})
      BY <1>1
    <3> HIDE DEF f, m
    <3>4. /\ f \in [1 .. m - 1 -> T \ {x}]
          /\ \A y \in T \ {x} : \E i \in 1 .. m - 1 : f[i] = y
          /\ \A i, j \in 1 .. m - 1 :
               /\ i # j => f[i] # f[j]
               /\ i < j => v[f[i]] <= v[f[j]]
      BY <3>2, <3>3
    <3>5. \A i \in 1 .. m : i = m \/ i \in 1 .. m - 1
      BY <3>2
    <3>6. m \in 1 .. m
      BY <3>2
    <3>7. e \in [1 .. m -> T]
      BY <3>4, <3>5
    <3>8. ASSUME NEW y \in T PROVE \E i \in 1 .. m : e[i] = y
      <4>1. CASE y = x
        BY <3>6, <4>1
      <4>2. CASE y # x
        <5>1. PICK i \in 1 .. m - 1 : f[i] = y
          BY <3>4, <4>2
        <5>2. i \in 1 .. m /\ i # m
          BY <3>2
        <5> QED BY <5>1, <5>2
      <4> QED BY <4>1, <4>2
    <3>9. ASSUME NEW i \in 1 .. m, NEW j \in 1 .. m
          PROVE  /\ i # j => e[i] # e[j]
                 /\ i < j => v[e[i]] <= v[e[j]]
      <4>1. CASE i \in 1 .. m - 1 /\ j \in 1 .. m - 1
        <5>1. i # m /\ j # m
          BY <3>2, <4>1
        <5>2. e[i] = f[i] /\ e[j] = f[j]
          BY <5>1
        <5> HIDE DEF e
        <5> QED BY <3>4, <4>1, <5>2
      <4>2. CASE i \in 1 .. m - 1 /\ j = m
        <5>1. i # m /\ f[i] \in T \ {x}
          BY <3>2, <3>4, <4>2
        <5>2. e[i] = f[i] /\ e[j] = x
          BY <4>2, <5>1
        <5> HIDE DEF e
        <5> QED BY <3>1, <5>1, <5>2
      <4>3. CASE i = m /\ j \in 1 .. m - 1
        <5>1. j # m /\ f[j] \in T \ {x} /\ ~(i < j)
          BY <3>2, <3>4, <4>3
        <5>2. e[j] = f[j] /\ e[i] = x
          BY <4>3, <5>1
        <5> HIDE DEF e
        <5> QED BY <5>1, <5>2
      <4>4. CASE i = m /\ j = m
        BY <3>2, <4>4
      <4> QED BY <3>5, <4>1, <4>2, <4>3, <4>4
    <3> HIDE DEF e
    <3>10. Orders(e, T)
      BY <3>7, <3>8, <3>9 DEF m
    <3> QED BY <3>10
  <2> QED BY <2>1, <2>2
<1>2. 1 .. n \in G
  <2>1. FromSmaller(G, 1 .. n)
    BY <1>1 DEF FromSmaller
  <2> HIDE DEF G
  <2>2. G = SUBSET (1 .. n)
    BY <1>0, <2>1, RemoveInduct
  <2> QED BY <2>2
<1>3. PICK f : Orders(f, 1 .. n)
  BY <1>2
<1>4. f \in Bijection(1 .. n, 1 .. n)
  BY <1>0, <1>3 DEF Bijection, Injection, Surjection, IsInjective
<1> QED BY <1>0, <1>3, <1>4

\* The place of a point among serialized keys.
Rank(p) == IF EvenY(p) THEN X(p) ELSE Order + X(p)

LEMMA RankRight ==
  ASSUME NEW p \in Point, NEW q \in Point
  PROVE  /\ Rank(p) \in Nat /\ Rank(q) \in Nat
         /\ Before(p, q) <=> Rank(p) < Rank(q)
         /\ Rank(p) = Rank(q) => p = q
<1>1. p \in Scalar /\ q \in Scalar
  BY OrderOK DEF Point, Scalar
<1>2. ASSUME NEW r \in Point
      PROVE  /\ X(r) \in Nat /\ X(r) < Order /\ EvenY(r) \in BOOLEAN
             /\ X(r) = IF EvenY(r) THEN r ELSE Order - r
             /\ r \in Int
  <2>1. r \in Int /\ Order - r \in 1 .. Order - 1 /\ Order \in Nat
    BY OrderOK DEF Point
  <2>2. (Order - r) % Order = Order - r
    BY <2>1, OrderOK
  <2> QED BY <2>1, <2>2, OrderOK DEF X, PtNeg, EvenY, Point
<1>3. Order \in Nat
  BY OrderOK
<1> DEFINE xp == X(p)
           xq == X(q)
           ep == EvenY(p)
           eq == EvenY(q)
<1>4. /\ xp \in Nat /\ xp < Order /\ ep \in BOOLEAN /\ p \in Int
      /\ xq \in Nat /\ xq < Order /\ eq \in BOOLEAN /\ q \in Int
      /\ xp = IF ep THEN p ELSE Order - p
      /\ xq = IF eq THEN q ELSE Order - q
  BY <1>2
<1>5. /\ Rank(p) = IF ep THEN xp ELSE Order + xp
      /\ Rank(q) = IF eq THEN xq ELSE Order + xq
      /\ Before(p, q) <=> IF ep = eq THEN xp < xq ELSE ep
  BY DEF Rank, Before
<1> HIDE DEF xp, xq, ep, eq
<1>6. Rank(p) \in Nat /\ Rank(q) \in Nat
  BY <1>3, <1>4, <1>5
<1>7. Before(p, q) <=> Rank(p) < Rank(q)
  <2>1. CASE ep = eq
    BY <1>3, <1>4, <1>5, <2>1
  <2>2. CASE ep # eq
    BY <1>3, <1>4, <1>5, <2>2
  <2> QED BY <2>1, <2>2
<1>8. ASSUME Rank(p) = Rank(q) PROVE p = q
  <2>1. ep = eq /\ xp = xq
    BY <1>3, <1>4, <1>5, <1>8
  <2> QED BY <1>3, <1>4, <2>1
<1> QED BY <1>6, <1>7, <1>8

\* key_sort gives a permutation of its keys, by their rank.
LEMMA SortRight ==
  ASSUME NEW pks \in Seq(Point)
  PROVE  \E f \in Bijection(1 .. Len(pks), 1 .. Len(pks)) :
           /\ KeySort(pks) = [i \in 1 .. Len(pks) |-> pks[f[i]]]
           /\ \A i, j \in 1 .. Len(pks) :
                i < j => Rank(pks[f[i]]) <= Rank(pks[f[j]])
<1> DEFINE n == Len(pks)
           v == [i \in 1 .. n |-> Rank(pks[i])]
           Sorts(f) == \A i, j \in 1 .. n : i < j => ~Before(pks[f[j]], pks[f[i]])
<1>1. n \in Nat /\ \A i \in 1 .. n : pks[i] \in Point
  OBVIOUS
<1>2. \A i \in 1 .. n : v[i] = Rank(pks[i]) /\ Rank(pks[i]) \in Nat
  BY <1>1, RankRight
<1>3. ASSUME NEW i \in 1 .. n, NEW j \in 1 .. n
      PROVE  ~Before(pks[j], pks[i]) <=> Rank(pks[i]) <= Rank(pks[j])
  <2>1. /\ Before(pks[j], pks[i]) <=> Rank(pks[j]) < Rank(pks[i])
        /\ Rank(pks[i]) \in Nat /\ Rank(pks[j]) \in Nat
    BY <1>1, RankRight
  <2> QED BY <2>1
<1>4. \E f \in Bijection(1 .. n, 1 .. n) : Sorts(f)
  <2>1. \A i \in 1 .. n : v[i] \in Nat
    BY <1>2
  <2> HIDE DEF v, n
  <2>2. PICK f \in Bijection(1 .. n, 1 .. n) :
          \A i, j \in 1 .. n : i < j => v[f[i]] <= v[f[j]]
    BY <1>1, <2>1, OrderExists
  <2>3. \A i \in 1 .. n : f[i] \in 1 .. n
    BY DEF Bijection, Injection
  <2>4. ASSUME NEW i \in 1 .. n, NEW j \in 1 .. n, i < j
        PROVE  ~Before(pks[f[j]], pks[f[i]])
    <3>1. f[i] \in 1 .. n /\ f[j] \in 1 .. n /\ v[f[i]] <= v[f[j]]
      BY <2>2, <2>3, <2>4
    <3>2. Rank(pks[f[i]]) <= Rank(pks[f[j]])
      BY <1>2, <3>1
    <3> QED BY <1>3, <3>1, <3>2
  <2>5. Sorts(f)
    BY <2>4
  <2> QED BY <2>2, <2>5
<1> DEFINE order == CHOOSE f \in Bijection(1 .. n, 1 .. n) : Sorts(f)
<1>5. order \in Bijection(1 .. n, 1 .. n) /\ Sorts(order)
  BY <1>4
<1>6. KeySort(pks) = [i \in 1 .. n |-> pks[order[i]]]
  BY DEF KeySort
<1> HIDE DEF order
<1>7. \A i \in 1 .. n : order[i] \in 1 .. n
  BY <1>5 DEF Bijection, Injection
<1>8. \A i, j \in 1 .. n : i < j => Rank(pks[order[i]]) <= Rank(pks[order[j]])
  BY <1>3, <1>5, <1>7
<1> QED BY <1>5, <1>6, <1>8

\* The lists b and a, of length n, are the same up to the permutation f.
Permutes(n, f, a, b) ==
  /\ n \in Nat /\ f \in Bijection(1 .. n, 1 .. n)
  /\ \A i \in 1 .. n : b[i] = a[f[i]]

\* How many elements of a list are in a set; the list by rank.
Count(n, a, T) == Cardinality({i \in 1 .. n : a[i] \in T})
InOrder(n, a) == \A i, j \in 1 .. n : i < j => Rank(a[i]) <= Rank(a[j])

\* A permutation of a list has as many elements in a set as the list.
LEMMA CountSame ==
  ASSUME NEW n, NEW f, NEW a, NEW b, Permutes(n, f, a, b), NEW T
  PROVE  Count(n, b, T) = Count(n, a, T)
<1> DEFINE A == {i \in 1 .. n : a[i] \in T}
           B == {i \in 1 .. n : b[i] \in T}
           g == [i \in B |-> f[i]]
<1>1. /\ f \in [1 .. n -> 1 .. n] /\ \A i, j \in 1 .. n : f[i] = f[j] => i = j
      /\ \A i \in 1 .. n : \E j \in 1 .. n : f[j] = i
      /\ \A i \in 1 .. n : b[i] = a[f[i]]
      /\ n \in Nat
  BY DEF Permutes, Bijection, Injection, Surjection, IsInjective
<1>2. g \in [B -> A] /\ \A i, j \in B : g[i] = g[j] => i = j
  <2>1. \A i \in B : i \in 1 .. n /\ f[i] \in A
    BY <1>1
  <2> HIDE DEF A, B
  <2>2. \A i \in B : g[i] = f[i]
    OBVIOUS
  <2>3. g \in [B -> A]
    BY <2>1
  <2> HIDE DEF g
  <2> QED BY <1>1, <2>1, <2>2, <2>3
<1>3. \A i \in A : \E j \in B : g[j] = i
  <2>1. \A j \in 1 .. n : f[j] \in A => j \in B
    BY <1>1
  <2>2. \A i \in A : i \in 1 .. n
    OBVIOUS
  <2>3. \A j \in B : g[j] = f[j]
    OBVIOUS
  <2> HIDE DEF A, B, g
  <2> QED BY <1>1, <2>1, <2>2, <2>3
<1>4. IsFiniteSet(B)
  <2>1. IsFiniteSet(1 .. n) /\ B \subseteq 1 .. n
    BY <1>1, FS_Interval
  <2> QED BY <2>1, FS_Subset
<1> HIDE DEF A, B, g
<1>5. g \in Bijection(B, A)
  BY <1>2, <1>3 DEF Bijection, Injection, Surjection, IsInjective
<1>6. ExistsBijection(B, A)
  BY <1>5 DEF ExistsBijection
<1> QED BY <1>4, <1>6, FS_Bijection DEF A, B, Count

\* Two lists of the same points, both in the order of their ranks, are the same
\* list: where they first differed, one had more points up to a rank.
LEMMA SortedBelow ==
  ASSUME NEW n \in Nat, NEW a \in [1 .. n -> Point], NEW b \in [1 .. n -> Point],
         InOrder(n, a), InOrder(n, b),
         \A T : Count(n, a, T) = Count(n, b, T), NEW k \in 1 .. n
  PROVE  Rank(b[k]) <= Rank(a[k])
<1> DEFINE t == Rank(a[k])
           T == {p \in Point : Rank(p) <= t}
           A == {i \in 1 .. n : a[i] \in T}
           B == {i \in 1 .. n : b[i] \in T}
<1>1. \A i \in 1 .. n : /\ a[i] \in Point /\ b[i] \in Point
                        /\ Rank(a[i]) \in Nat /\ Rank(b[i]) \in Nat
  BY RankRight
<1>2. SUFFICES ASSUME t < Rank(b[k]) PROVE FALSE
  BY <1>1
<1>3. \A i \in 1 .. k : i \in A
  <2>1. ASSUME NEW i \in 1 .. k PROVE i \in 1 .. n /\ Rank(a[i]) <= t
    <3>1. i \in 1 .. n /\ (i < k \/ i = k)
      OBVIOUS
    <3>2. t \in Nat
      BY <1>1
    <3>3. CASE i < k
      BY <3>1, <3>3 DEF InOrder
    <3>4. CASE i = k
      BY <3>2, <3>4
    <3> QED BY <3>1, <3>3, <3>4
  <2> QED BY <1>1, <2>1
<1>4. \A i \in B : i \in 1 .. k - 1
  <2>1. ASSUME NEW i \in B, i >= k PROVE FALSE
    <3>1. i \in 1 .. n /\ Rank(b[i]) <= t
      OBVIOUS
    <3>2. Rank(b[k]) <= Rank(b[i])
      <4>1. CASE i = k
        BY <1>1, <3>1, <4>1
      <4>2. CASE i > k
        BY <3>1, <4>2 DEF InOrder
      <4> QED BY <2>1, <3>1, <4>1, <4>2
    <3>3. t \in Nat /\ Rank(b[k]) \in Nat /\ Rank(b[i]) \in Nat
      BY <1>1, <3>1
    <3> HIDE DEF t, B
    <3> QED BY <1>2, <3>1, <3>2, <3>3
  <2> QED BY <2>1
<1>5. A \subseteq 1 .. n /\ Cardinality(A) = Cardinality(B)
  BY DEF Count
<1> HIDE DEF A, B
<1>6. IsFiniteSet(A) /\ IsFiniteSet(1 .. k - 1)
  <2>1. IsFiniteSet(1 .. n) /\ IsFiniteSet(1 .. k - 1)
    BY FS_Interval
  <2> QED BY <1>5, <2>1, FS_Subset
<1>7. 1 .. k \subseteq A /\ B \subseteq 1 .. k - 1
  BY <1>3, <1>4
<1>8. Cardinality(1 .. k) = k /\ Cardinality(1 .. k - 1) = k - 1
  <2>1. k \in Int /\ k - 1 \in Int /\ 1 \in Int /\ k >= 1
    OBVIOUS
  <2>2. Cardinality(1 .. k) = IF 1 > k THEN 0 ELSE k - 1 + 1
    BY <2>1, FS_Interval
  <2>3. Cardinality(1 .. k - 1) = IF 1 > k - 1 THEN 0 ELSE (k - 1) - 1 + 1
    BY <2>1, FS_Interval
  <2> QED BY <2>1, <2>2, <2>3
<1>9. Cardinality(1 .. k) <= Cardinality(A)
  BY <1>6, <1>7, FS_Subset
<1>10. Cardinality(B) <= Cardinality(1 .. k - 1)
  BY <1>6, <1>7, FS_Subset
<1>11. Cardinality(A) \in Nat
  BY <1>6, FS_CardinalityType
<1> QED BY <1>5, <1>8, <1>9, <1>10, <1>11

\* vault.rs:115-116: "every device that collects the same codes computes the
\* same aggregate": sorted, a list of keys is the same list, whatever order
\* they were collected in, also with keys collected twice.
THEOREM SortAnyOrder ==
  ASSUME NEW pks \in Seq(Point), NEW qks \in Seq(Point),
         NEW h \in Bijection(1 .. Len(pks), 1 .. Len(pks)),
         qks = [i \in 1 .. Len(pks) |-> pks[h[i]]]
  PROVE  KeySort(qks) = KeySort(pks)
<1> DEFINE n == Len(pks)
           a == KeySort(pks)
           b == KeySort(qks)
<1>1. /\ n \in Nat /\ Len(qks) = n /\ pks \in [1 .. n -> Point]
      /\ qks \in [1 .. n -> Point] /\ \A i \in 1 .. n : qks[i] = pks[h[i]]
  OBVIOUS
<1>2. PICK f \in Bijection(1 .. n, 1 .. n) :
        /\ a = [i \in 1 .. n |-> pks[f[i]]]
        /\ \A i, j \in 1 .. n : i < j => Rank(pks[f[i]]) <= Rank(pks[f[j]])
  BY SortRight
<1>3. PICK g \in Bijection(1 .. n, 1 .. n) :
        /\ b = [i \in 1 .. n |-> qks[g[i]]]
        /\ \A i, j \in 1 .. n : i < j => Rank(qks[g[i]]) <= Rank(qks[g[j]])
  <2> DEFINE m == Len(qks)
  <2>1. \E g \in Bijection(1 .. m, 1 .. m) :
          /\ b = [i \in 1 .. m |-> qks[g[i]]]
          /\ \A i, j \in 1 .. m : i < j => Rank(qks[g[i]]) <= Rank(qks[g[j]])
    BY SortRight
  <2>2. m = n
    BY <1>1
  <2> HIDE DEF m, n, b
  <2> QED BY <2>1, <2>2
<1> HIDE DEF n, a, b
<1>4. \A i \in 1 .. n : f[i] \in 1 .. n /\ g[i] \in 1 .. n
  BY DEF Bijection, Injection
<1>5. a \in [1 .. n -> Point] /\ b \in [1 .. n -> Point]
  <2>1. a \in [1 .. n -> Point]
    BY <1>1, <1>2, <1>4
  <2>2. b \in [1 .. n -> Point]
    BY <1>1, <1>3, <1>4
  <2> QED BY <2>1, <2>2
<1>6. InOrder(n, a) /\ InOrder(n, b)
  BY <1>2, <1>3 DEF InOrder
<1>7. ASSUME NEW T PROVE Count(n, a, T) = Count(n, b, T)
  <2>1. /\ Permutes(n, f, pks, a) /\ Permutes(n, g, qks, b)
        /\ Permutes(n, h, pks, qks)
    BY <1>1, <1>2, <1>3 DEF Permutes, n
  <2>2. Count(n, a, T) = Count(n, pks, T) /\ Count(n, qks, T) = Count(n, pks, T)
    BY <2>1, CountSame
  <2>3. Count(n, b, T) = Count(n, qks, T)
    BY <2>1, CountSame
  <2> QED BY <2>2, <2>3
<1>8. ASSUME NEW k \in 1 .. n PROVE a[k] = b[k]
  <2>1. Rank(b[k]) <= Rank(a[k])
    BY <1>1, <1>5, <1>6, <1>7, SortedBelow
  <2>2. Rank(a[k]) <= Rank(b[k])
    BY <1>1, <1>5, <1>6, <1>7, SortedBelow
  <2>3. /\ a[k] \in Point /\ b[k] \in Point
        /\ Rank(a[k]) \in Nat /\ Rank(b[k]) \in Nat
    BY <1>5, RankRight
  <2> QED BY <2>1, <2>2, <2>3, RankRight
<1>9. a = b
  <2>1. a = [k \in 1 .. n |-> a[k]] /\ b = [k \in 1 .. n |-> b[k]]
    BY <1>5
  <2>2. \A k \in 1 .. n : a[k] = b[k]
    BY <1>8
  <2> QED BY <2>1, <2>2
<1> QED BY <1>9 DEF a, b

\* A list of different keys, in any order.
Distinct(pks) == \A i, j \in DOMAIN pks : pks[i] = pks[j] => i = j

\* The keys of a vault are different points.
LEMMA VaultKeysRight ==
  ASSUME NEW pks \in Vaults
  PROVE  pks \in Seq(Point) /\ pks # <<>> /\ Distinct(pks)
<1>1. PICK S \in SUBSET Key : Cardinality(S) >= 2 /\ pks = KeySort(SetToSeq(S))
  BY DEF Vaults
<1>2. IsFiniteSet(S) /\ S \subseteq Point
  <2>1. IsFiniteSet(Point)
    <3>1. 1 \in Int /\ Order - 1 \in Int
      BY OrderInt
    <3> QED BY <3>1, FS_Interval DEF Point
  <2>2. S \subseteq Point
    BY OrderOK
  <2> QED BY <2>1, <2>2, FS_Subset
<1> DEFINE n == Cardinality(S)
           list == SetToSeq(S)
<1>3. n \in Nat /\ n >= 2
  BY <1>1, <1>2, FS_CardinalityType
<1>4. list \in [1 .. n -> S] /\ IsInjective(list)
  <2>1. \E f \in [1 .. n -> S] : IsInjective(f)
    <3>1. ExistsBijection(1 .. n, S)
      BY <1>2, FS_CardinalityType
    <3> QED BY <3>1 DEF ExistsBijection, Bijection, Injection
  <2> QED BY <2>1 DEF SetToSeq
<1>5. list \in Seq(Point) /\ Len(list) = n
  <2>1. list \in [1 .. n -> Point]
    BY <1>2, <1>4
  <2> HIDE DEF list, n
  <2> QED BY <1>3, <2>1
<1> HIDE DEF list, n
<1>6. PICK f \in Bijection(1 .. n, 1 .. n) : pks = [i \in 1 .. n |-> list[f[i]]]
  BY <1>1, <1>5, SortRight DEF list
<1>7. f \in [1 .. n -> 1 .. n] /\ \A i, j \in 1 .. n : f[i] = f[j] => i = j
  BY <1>6 DEF Bijection, Injection, IsInjective
<1>8. pks \in [1 .. n -> Point]
  BY <1>5, <1>6, <1>7
<1>9. pks \in Seq(Point) /\ Len(pks) = n
  BY <1>3, <1>8
<1>10. Distinct(pks)
  <2>1. \A i, j \in 1 .. n : list[i] = list[j] => i = j
    BY <1>4 DEF IsInjective
  <2> QED BY <1>6, <1>7, <2>1 DEF Distinct
<1> QED BY <1>3, <1>9, <1>10

-------------------------------------------------------------------------------
(***************************************************************************)
(* The shares of an ECDH, listed in any order.                             *)
(***************************************************************************)
\* g has the sum of w over each subset of S: IsSum, without the operator.
Adds(g, S, w) ==
  /\ w \in [S -> Nat] /\ g \in [SUBSET S -> Nat] /\ g[{}] = 0
  /\ \A s \in SUBSET S : \A p \in s : g[s] = w[p] + g[s \ {p}]

\* q lists the elements of S, each of them once.
Lists(q, n, S) ==
  /\ n \in Nat /\ q \in [1 .. n -> S]
  /\ \A i, j \in 1 .. n : q[i] = q[j] => i = j
  /\ \A p \in S : \E i \in 1 .. n : q[i] = p

\* f has the values of w along the list q.
Along(f, w, q, n) == \A i \in 1 .. n : f[i] = w[q[i]]

\* The sum along a list of the elements of a set is that of the set.
LEMMA TotalOfSet ==
  ASSUME NEW S, NEW w, NEW g, NEW n, NEW q, NEW f,
         Adds(g, S, w), Lists(q, n, S), Along(f, w, q, n)
  PROVE  Ints(f, n) /\ Total(f, n) = g[S]
<1> DEFINE Image(k) == {q[i] : i \in 1 .. k}
<1>1. /\ w \in [S -> Nat] /\ g \in [SUBSET S -> Nat] /\ g[{}] = 0
      /\ \A s \in SUBSET S : \A p \in s : g[s] = w[p] + g[s \ {p}]
      /\ n \in Nat /\ q \in [1 .. n -> S]
      /\ \A i, j \in 1 .. n : q[i] = q[j] => i = j
      /\ \A p \in S : \E i \in 1 .. n : q[i] = p
      /\ \A i \in 1 .. n : f[i] = w[q[i]]
  BY DEF Adds, Lists, Along
<1>2. Ints(f, n)
  BY <1>1 DEF Ints
<1>3. PICK h : Running(h, f, n) /\ Total(f, n) = h[n]
  BY <1>1, <1>2, TotalSteps
<1> DEFINE G == {k \in Nat : k <= n => h[k] = g[Image(k)]}
<1>4. 0 \in G
  <2>1. Image(0) = {}
    OBVIOUS
  <2> QED BY <1>1, <1>3, <2>1 DEF Running
<1>5. ASSUME NEW k \in G PROVE k + 1 \in G
  <2>1. ASSUME k + 1 <= n PROVE h[k + 1] = g[Image(k + 1)]
    <3>1. k \in Nat /\ k + 1 \in 1 .. n /\ (k + 1) - 1 = k /\ k <= n
      BY <1>1, <2>1
    <3>2. h[k + 1] = h[k] + f[k + 1]
      BY <1>3, <3>1 DEF Running
    <3>3. h[k] = g[Image(k)]
      BY <3>1
    <3>4. 1 .. k \subseteq 1 .. n /\ 1 .. (k + 1) \subseteq 1 .. n
      BY <1>1, <3>1
    <3>5. Image(k + 1) \in SUBSET S /\ q[k + 1] \in Image(k + 1)
      BY <1>1, <3>1, <3>4
    <3>6. Image(k + 1) \ {q[k + 1]} = Image(k)
      <4>1. \A i \in 1 .. (k + 1) : i = k + 1 \/ i \in 1 .. k
        BY <3>1
      <4>2. \A i \in 1 .. k : i \in 1 .. (k + 1) /\ i # k + 1
        BY <3>1
      <4>3. \A i \in 1 .. k : q[i] # q[k + 1]
        BY <1>1, <3>1, <3>4, <4>2
      <4> QED BY <4>1, <4>2, <4>3
    <3> DEFINE big == Image(k + 1)
               small == Image(k)
               last == q[k + 1]
               term == f[k + 1]
    <3>7. big \in SUBSET S /\ last \in big /\ big \ {last} = small
      BY <3>5, <3>6
    <3>8. term = w[last]
      BY <1>1, <3>1
    <3> HIDE DEF big, small, last, term, Image
    <3>9. last \in S /\ small \in SUBSET S
      BY <3>7
    <3>10. g[big] = w[last] + g[small] /\ w[last] \in Nat /\ g[small] \in Nat
      BY <1>1, <3>7, <3>9
    <3>11. h[k + 1] = g[small] + term
      BY <3>2, <3>3 DEF small, term
    <3>12. h[k + 1] = g[big]
      BY <3>8, <3>10, <3>11
    <3> QED BY <3>12 DEF big
  <2>2. k + 1 \in Nat
    OBVIOUS
  <2> QED BY <2>1, <2>2
<1>6. G = Nat
  <2>1. G \in SUBSET Nat
    OBVIOUS
  <2> HIDE DEF G
  <2> QED BY <1>4, <1>5, <2>1, NatInduct
<1>7. Image(n) = S
  BY <1>1
<1>8. h[n] = g[Image(n)]
  <2>1. n \in G /\ n <= n
    BY <1>1, <1>6
  <2> QED BY <2>1
<1> QED BY <1>2, <1>3, <1>7, <1>8

\* The sum of multiples is the multiple of the sum.
LEMMA TotalTimes ==
  ASSUME NEW n \in Nat, NEW f, Ints(f, n), NEW c \in Int, NEW m,
         \A k \in 1 .. n : m[k] = c * f[k]
  PROVE  Ints(m, n) /\ Total(m, n) = c * Total(f, n)
<1>1. Ints(m, n)
  BY DEF Ints
<1>2. PICK a : Running(a, f, n) /\ Total(f, n) = a[n]
  BY TotalSteps
<1>3. PICK s : Running(s, m, n) /\ Total(m, n) = s[n]
  BY <1>1, TotalSteps
<1> DEFINE G == {k \in Nat : k <= n => s[k] = c * a[k]}
<1>4. 0 \in G
  BY <1>2, <1>3 DEF Running
<1>5. ASSUME NEW k \in G PROVE k + 1 \in G
  <2>1. ASSUME k + 1 <= n PROVE s[k + 1] = c * a[k + 1]
    <3>1. k \in 0 .. n /\ k + 1 \in 1 .. n /\ (k + 1) - 1 = k
      BY <1>5, <2>1
    <3>2. s[k] = c * a[k] /\ m[k + 1] = c * f[k + 1]
      BY <1>5, <3>1
    <3>3. a[k] \in Int /\ f[k + 1] \in Int
      BY <1>2, <3>1 DEF Running, Ints
    <3>4. a[k + 1] = a[k] + f[k + 1] /\ s[k + 1] = s[k] + m[k + 1]
      BY <1>2, <1>3, <3>1 DEF Running
    <3>5. c * (a[k] + f[k + 1]) = c * a[k] + c * f[k + 1]
      BY <3>3
    <3> QED BY <3>2, <3>4, <3>5
  <2> QED BY <1>5, <2>1
<1>6. G = Nat
  <2>1. G \in SUBSET Nat
    OBVIOUS
  <2> HIDE DEF G
  <2> QED BY <1>4, <1>5, <2>1, NatInduct
<1> QED BY <1>1, <1>2, <1>3, <1>6

\* What the recipient of an ECDH is given with: pks, hash and to of Ecdhs.
RightEcdh(in) ==
  /\ in.pks \in Seq(Point) /\ in.pks # <<>> /\ Distinct(in.pks)
  /\ Hashed(in.hash, in.pks) /\ in.to \in Point

\* What a key adds to the aggregate: a function of the key alone.
Weights(pks, hash) ==
  [p \in Range(pks) |-> ScalarMul(p, Coeff(pks, hash, p))]

LEMMA WeightsRight ==
  ASSUME NEW pks \in Seq(Point), NEW hash, Hashed(hash, pks),
         NEW p \in Range(pks)
  PROVE  /\ p \in Scalar /\ Coeff(pks, hash, p) \in Scalar
         /\ Weights(pks, hash)[p] = ScalarMul(p, Coeff(pks, hash, p))
         /\ Weights(pks, hash)[p] \in Scalar /\ Weights(pks, hash)[p] \in Nat
         /\ Same(Weights(pks, hash)[p], p * Coeff(pks, hash, p))
<1>1. PICK i \in 1 .. Len(pks) : p = pks[i]
  BY DEF Range
<1>2. p \in Scalar /\ Coeff(pks, hash, p) \in Scalar
  BY <1>1, CoeffScalar
<1> DEFINE c == Coeff(pks, hash, p)
<1>3. Weights(pks, hash)[p] = ScalarMul(p, c)
  BY DEF Weights
<1> HIDE DEF c
<1>4. ScalarMul(p, c) \in Scalar /\ Same(ScalarMul(p, c), p * c)
  BY <1>2, MulSame DEF c
<1>5. Scalar \subseteq Nat
  BY OrderOK DEF Scalar
<1> QED BY <1>2, <1>3, <1>4, <1>5 DEF c

\* A list of the keys, in any order, has each of them once.
LEMMA ListedOnce ==
  ASSUME NEW pks \in Seq(Point), Distinct(pks)
  PROVE  /\ IsFiniteSet(Range(pks)) /\ Lists(pks, Len(pks), Range(pks))
         /\ \A order \in SetToSeqs(Range(pks)) :
              Lists(order, Len(pks), Range(pks))
<1> DEFINE n == Len(pks)
           S == Range(pks)
<1>1. n \in Nat /\ DOMAIN pks = 1 .. n /\ pks \in [1 .. n -> S]
  BY DEF Range
<1>2. IsFiniteSet(1 .. n) /\ Cardinality(1 .. n) = n
  BY <1>1, FS_Interval
<1>3. pks \in Surjection(1 .. n, S) /\ pks \in Injection(1 .. n, S)
  <2>1. \A t \in S : \E s \in 1 .. n : pks[s] = t
    BY <1>1 DEF Range
  <2>2. \A i, j \in 1 .. n : pks[i] = pks[j] => i = j
    BY <1>1 DEF Distinct
  <2> HIDE DEF n, S
  <2> QED BY <1>1, <2>1, <2>2 DEF Surjection, Injection, IsInjective
<1> HIDE DEF n, S
<1>4. IsFiniteSet(S) /\ Cardinality(S) = n
  BY <1>2, <1>3, FS_Surjection
<1>5. Lists(pks, n, S)
  BY <1>1, <1>3 DEF Lists, Injection, Surjection, IsInjective
<1>6. ASSUME NEW order \in SetToSeqs(S) PROVE Lists(order, n, S)
  <2>1. /\ order \in [1 .. n -> S]
        /\ \A i, j \in 1 .. n : i # j => order[i] # order[j]
    BY <1>4 DEF SetToSeqs
  <2>2. order \in Injection(1 .. n, S)
    BY <2>1 DEF Injection, IsInjective
  <2>3. order \in Surjection(1 .. n, S)
    BY <1>2, <1>4, <2>2, FS_Injection
  <2>4. \A p \in S : \E i \in 1 .. n : order[i] = p
    BY <2>3 DEF Surjection
  <2> QED BY <1>1, <2>1, <2>4 DEF Lists
<1> QED BY <1>4, <1>5, <1>6 DEF n, S

\* The shares add up to the aggregate key times the recipient's.
LEMMA SharesAdd ==
  ASSUME NEW in, RightEcdh(in), NEW order \in SetToSeqs(Range(in.pks)),
         KeyAgg(in.pks, in.hash) # Err,
         NEW points,
         points = [i \in 1 .. Len(in.pks) |->
                     EcdhShare(in.pks, in.hash, in.to, order[i])],
         CombinePartials(points) # Err
  PROVE  CombinePartials(points) = PtMul(KeyAgg(in.pks, in.hash), in.to)
<1> DEFINE pks == in.pks
           hash == in.hash
           to == in.to
           n == Len(pks)
           S == Range(pks)
           w == Weights(pks, hash)
           agg == KeyAgg(pks, hash)
           sum == CombinePartials(points)
           listed == [i \in 1 .. n |-> w[order[i]]]
           kept == [i \in 1 .. n |-> w[pks[i]]]
           times == [i \in 1 .. n |-> to * listed[i]]
<1>1. /\ pks \in Seq(Point) /\ pks # <<>> /\ Distinct(pks)
      /\ Hashed(hash, pks) /\ to \in Point /\ n \in Nat
  BY DEF RightEcdh
<1>2. IsFiniteSet(S) /\ Lists(order, n, S) /\ Lists(pks, n, S)
  BY <1>1, ListedOnce
<1>3. \A i \in 1 .. n : order[i] \in S /\ pks[i] \in S
  BY <1>2 DEF Lists
<1>4. \A p \in S :
        /\ p \in Scalar /\ Coeff(pks, hash, p) \in Scalar
        /\ w[p] = ScalarMul(p, Coeff(pks, hash, p))
        /\ w[p] \in Scalar /\ w[p] \in Nat
        /\ Same(w[p], p * Coeff(pks, hash, p))
  BY <1>1, WeightsRight
<1>5. w \in [S -> Nat]
  <2>1. w = [p \in S |-> w[p]]
    BY DEF Weights
  <2> HIDE DEF w, S
  <2> QED BY <1>4, <2>1
<1>6. to \in Scalar /\ to \in Int /\ to # 0
  BY <1>1, OrderOK DEF Point, Scalar
<1>7. /\ agg \in Scalar /\ Same(agg, Total(KeyTerms(pks, hash), n))
      /\ Ints(KeyTerms(pks, hash), n)
  BY <1>1, KeyAggSame
<1>8. \A i \in 1 .. n : KeyTerms(pks, hash)[i] = pks[i] * Coeff(pks, hash, pks[i])
  BY DEF KeyTerms
<1>9. /\ \A i \in 1 .. n :
           points[i] = EcdhPartial(to, Coeff(pks, hash, order[i]), order[i])
      /\ DOMAIN points = 1 .. n
  BY DEF EcdhShare
<1> HIDE DEF pks, hash, to, n, S, w, agg
<1>10. /\ \A i \in 1 .. n : listed[i] = w[order[i]] /\ kept[i] = w[pks[i]]
       /\ \A i \in 1 .. n : times[i] = to * listed[i]
  OBVIOUS
<1>11. PICK g \in [SUBSET S -> Nat] : Adds(g, S, w)
  <2>1. PICK g \in [SUBSET S -> Nat] : IsSum(g, S, w)
    BY <1>2, <1>5, SumExists
  <2> QED BY <1>5, <2>1 DEF IsSum, Adds
<1>12. Along(listed, w, order, n) /\ Along(kept, w, pks, n)
  BY <1>10 DEF Along
<1> HIDE DEF listed, kept, times
<1>13. /\ Ints(listed, n) /\ Total(listed, n) = g[S]
       /\ Ints(kept, n) /\ Total(kept, n) = g[S]
  <2>1. Ints(listed, n) /\ Total(listed, n) = g[S]
    BY <1>2, <1>11, <1>12, TotalOfSet
  <2>2. Ints(kept, n) /\ Total(kept, n) = g[S]
    BY <1>2, <1>11, <1>12, TotalOfSet
  <2> QED BY <2>1, <2>2
<1>14. Ints(listed, n) /\ Ints(kept, n)
  BY <1>13
<1>15. Same(agg, Total(listed, n))
  <2>1. \A i \in 1 .. n : Same(kept[i], KeyTerms(pks, hash)[i])
    BY <1>3, <1>4, <1>8, <1>10
  <2>2. Same(Total(kept, n), Total(KeyTerms(pks, hash), n))
    BY <1>1, <1>7, <1>14, <2>1, TotalSame
  <2> QED BY <1>7, <1>13, <2>2, SameSwap, SameTrans
<1>16. Ints(times, n) /\ Total(times, n) = to * Total(listed, n)
  BY <1>1, <1>6, <1>10, <1>14, TotalTimes
<1>17. ASSUME NEW i \in 1 .. n
       PROVE  /\ points[i] \in PointOrErr
              /\ points[i] # Err => Same(points[i], times[i])
  <2> DEFINE p == order[i]
             c == Coeff(pks, hash, p)
             s == ScalarMul(p, c)
  <2>1. /\ p \in S /\ c \in Scalar /\ w[p] = s /\ s \in Scalar
        /\ points[i] = EcdhPartial(to, c, p)
    BY <1>3, <1>4, <1>9
  <2>2. points[i] = IF s = 0 THEN Err ELSE PtMul(to, s)
    BY <2>1 DEF EcdhPartial
  <2>3. times[i] = to * s
    BY <1>10, <2>1
  <2> HIDE DEF s
  <2>4. points[i] # Err => /\ points[i] = PtMul(to, s) /\ PtMul(to, s) \in Scalar
                           /\ Same(PtMul(to, s), to * s)
    BY <1>6, <2>1, <2>2, PtMulSame
  <2> QED BY <2>3, <2>4 DEF PointOrErr
<1>18. points \in Seq(PointOrErr) /\ points # <<>> /\ Len(points) = n
  <2>1. points \in [1 .. n -> PointOrErr]
    BY <1>9, <1>17 DEF n, pks
  <2>2. n # 0 /\ n \in Nat
    BY <1>1 DEF n
  <2>3. points \in Seq(PointOrErr) /\ Len(points) = n
    BY <2>1, <2>2
  <2> QED BY <2>2, <2>3
<1>19. /\ \A i \in 1 .. n : points[i] \in Scalar
       /\ sum \in Scalar /\ Same(sum, Total(points, n))
  BY <1>18, PartialsSame
<1>20. Same(Total(points, n), Total(times, n))
  <2>1. \A i \in 1 .. n : Same(points[i], times[i]) /\ points[i] \in Int
    <3>1. Err \notin Scalar /\ Scalar \subseteq Int
      BY OrderOK DEF Err, Scalar
    <3> QED BY <1>17, <1>19, <3>1
  <2>2. Ints(points, n)
    BY <2>1 DEF Ints
  <2> QED BY <1>1, <1>16, <2>1, <2>2, TotalSame
<1> HIDE DEF sum
<1> DEFINE t == Total(listed, n)
<1>21. t \in Int
  BY <1>1, <1>14, TotalSteps
<1>22. Total(times, n) = to * t
  BY <1>16
<1>23. Same(sum, agg * to)
  <2>1. Same(agg, t)
    BY <1>15
  <2> HIDE DEF t
  <2>2. agg \in Int /\ agg * to \in Int /\ t * to = to * t
    BY <1>6, <1>7, <1>21, OrderInt
  <2>3. Same(agg * to, t * to)
    BY <1>6, <1>21, <2>1, <2>2, SameMul
  <2>4. Same(sum, to * t)
    BY <1>19, <1>20, <1>22, SameTrans
  <2> QED BY <2>2, <2>3, <2>4, SameSwap, SameTrans
<1>24. PtMul(agg, to) # Err
  <2>1. agg \in Int /\ agg * to \in Int
    BY <1>6, <1>7, OrderInt
  <2> DEFINE z == agg * to
  <2>2. z % Order \in Scalar
    <3>1. z \in Int
      BY <2>1
    <3> HIDE DEF z
    <3> QED BY <3>1, OrderOK DEF Scalar
  <2>3. Err \notin Scalar
    BY OrderOK DEF Err, Scalar
  <2> HIDE DEF z
  <2> QED BY <1>6, <1>7, <2>2, <2>3 DEF PtMul, z
<1>25. PtMul(agg, to) \in Scalar /\ Same(PtMul(agg, to), agg * to)
  BY <1>6, <1>7, <1>24, PtMulSame
<1>26. Same(sum, PtMul(agg, to))
  BY <1>23, <1>25, SameSwap, SameTrans
<1>27. sum = PtMul(agg, to)
  BY <1>19, <1>25, <1>26, SameScalar
<1> QED BY <1>27 DEF sum, agg, pks, hash, to

-------------------------------------------------------------------------------
(***************************************************************************)
(* The inputs of VaultKeys, and its properties.                            *)
(***************************************************************************)
\* What is computed with is one of the inputs the lemmas are about.
KeysInv ==
  \/ given = Idle
  \/ given.kind = "spend" /\ RightSpend(given)
  \/ given.kind = "ecdh" /\ RightEcdh(given)

LEMMA HashesRight ==
  ASSUME NEW pks \in Seq(Point), NEW hash \in Hashes(pks)
  PROVE  Hashed(hash, pks)
<1>1. ASSUME NEW i \in 1 .. Len(pks) PROVE hash[pks[i]] \in 0 .. Width - 1
  <2>1. pks[i] \in Range(pks)
    BY DEF Range
  <2>2. hash[pks[i]] \in HashValue
    BY <2>1 DEF Hashes
  <2> QED BY <2>2, OrderOK
<1> QED BY <1>1 DEF Hashed

LEMMA SpendsRight ==
  ASSUME NEW pks \in Vaults, NEW sp \in Spends(pks)
  PROVE  sp.kind = "spend" /\ RightSpend(sp)
<1>1. pks \in Seq(Point) /\ pks # <<>>
  BY VaultKeysRight
<1>2. /\ sp.kind = "spend" /\ sp.pks = pks /\ sp.hash \in Hashes(pks)
      /\ sp.il \in HashValue /\ sp.tap \in HashValue /\ sp.b \in HashValue
      /\ sp.e \in HashValue /\ sp.taproot \in BOOLEAN
      /\ sp.sec \in [DOMAIN pks -> NoncePair]
  BY DEF Spends
<1>3. Hashed(sp.hash, sp.pks)
  BY <1>1, <1>2, HashesRight
<1>4. sp.il \in Hash /\ sp.tap \in Hash /\ sp.b \in Hash /\ sp.e \in Hash
  BY <1>2, OrderOK DEF Hash
<1>5. sp.sec \in Seq(Scalar \X Scalar) /\ Len(sp.sec) = Len(sp.pks)
  <2> DEFINE n == Len(pks)
             P == Scalar \X Scalar
             sec == sp.sec
  <2>1. n \in Nat /\ DOMAIN pks = 1 .. n
    BY <1>1
  <2>2. NoncePair \subseteq P
    <3>1. Point \subseteq Scalar
      BY OrderOK DEF Point, Scalar
    <3> QED BY <3>1, OrderOK
  <2>3. sec \in [1 .. n -> P]
    BY <1>2, <2>1, <2>2
  <2> HIDE DEF n, P, sec
  <2>4. sec \in Seq(P) /\ Len(sec) = n
    BY <2>1, <2>3
  <2> QED BY <1>2, <2>4 DEF n, P, sec
<1> QED BY <1>1, <1>2, <1>3, <1>4, <1>5 DEF RightSpend

LEMMA EcdhsRight ==
  ASSUME NEW pks \in Vaults, NEW in \in Ecdhs(pks)
  PROVE  in.kind = "ecdh" /\ RightEcdh(in)
<1>1. pks \in Seq(Point) /\ pks # <<>> /\ Distinct(pks)
  BY VaultKeysRight
<1>2. /\ in.kind = "ecdh" /\ in.pks = pks /\ in.hash \in Hashes(pks)
      /\ in.to \in Point
  BY DEF Ecdhs
<1>3. Hashed(in.hash, in.pks)
  BY <1>1, <1>2, HashesRight
<1> QED BY <1>1, <1>2, <1>3 DEF RightEcdh

\* Every input of the runs, and of any other bounds, is of a vault.
LEMMA InputsRight == KeysSpec => []KeysInv
<1>1. given = Idle => KeysInv
  BY DEF KeysInv
<1>2. ASSUME KeysInv, [Begin \/ End]_given PROVE KeysInv'
  <2>1. CASE Begin
    <3>1. PICK pks \in Vaults : given' \in Spends(pks) \cup Ecdhs(pks)
      BY <2>1 DEF Begin
    <3>2. CASE given' \in Spends(pks)
      BY <3>2, SpendsRight DEF KeysInv
    <3>3. CASE given' \in Ecdhs(pks)
      BY <3>3, EcdhsRight DEF KeysInv
    <3> QED BY <3>1, <3>2, <3>3
  <2>2. CASE End
    BY <2>2 DEF End, KeysInv
  <2>3. CASE UNCHANGED given
    BY <1>2, <2>3 DEF KeysInv
  <2> QED BY <1>2, <2>1, <2>2, <2>3
<1> QED BY <1>1, <1>2, PTL DEF KeysSpec

LEMMA InvGives ==
  ASSUME KeysInv
  PROVE  /\ given.kind = "spend" => RightSpend(given)
         /\ given.kind = "ecdh" => RightEcdh(given)
<1>1. Idle.kind # "spend" /\ Idle.kind # "ecdh"
  BY DEF Idle
<1> QED BY <1>1 DEF KeysInv

\* vault.rs:648-668: when every participant signs, the ceremony ends with a
\* signature that verifies under the key the coin pays to, in any group of
\* prime order, for any number of participants and whatever the hashes give,
\* unless a product is 0 or a sum is at infinity.
THEOREM SignaturesFinalize == KeysSpec => []HonestSpendFinalizes
<1>1. ASSUME KeysInv PROVE HonestSpendFinalizes
  <2>1. given.kind = "spend" => RightSpend(given)
    BY <1>1, InvGives
  <2> QED BY <2>1, SpendFinalizes DEF HonestSpendFinalizes, ValuesOf
<1> QED BY <1>1, InputsRight, PTL

\* vault.rs:652: the only partial signature that verifies for a participant is
\* the one this participant makes in this session: a bit changed in it, or one
\* made in another session, is refused.
THEOREM PartialsAreOwn == KeysSpec => []OnlyOwnPartialVerifies
<1>1. ASSUME KeysInv PROVE OnlyOwnPartialVerifies
  <2>1. given.kind = "spend" => RightSpend(given)
    BY <1>1, InvGives
  <2>2. ASSUME given.kind = "spend", NEW i \in DOMAIN given.pks,
               NEW psig \in 0 .. Width - 1,
               PartialSigVerify(psig, given.sec[i], given.pks[i], ValuesOf(given))
        PROVE  psig = Sign(given.sec[i], given.pks[i], ValuesOf(given))
    <3>1. RightSpend(given) /\ i \in 1 .. Len(given.pks)
      BY <2>1, <2>2 DEF RightSpend
    <3> QED BY <2>2, <3>1, SpendOwn
  <2> QED BY <2>2 DEF OnlyOwnPartialVerifies, ValuesOf
<1> QED BY <1>1, InputsRight, PTL

\* vault.rs:230-234: the shares of the participants add up, in any order, to
\* the x of the recipient's key times the aggregate key, in any group of prime
\* order and for any number of participants.
THEOREM SharesAreSecret == KeysSpec => []SharesGiveSecret
<1>1. ASSUME KeysInv PROVE SharesGiveSecret
  <2>1. given.kind = "ecdh" => RightEcdh(given)
    BY <1>1, InvGives
  <2> DEFINE pks == given.pks
             agg == KeyAgg(pks, given.hash)
             Points(order) == [i \in DOMAIN pks |->
                                 EcdhShare(pks, given.hash, given.to, order[i])]
  <2>2. ASSUME given.kind = "ecdh", NEW order \in SetToSeqs(Range(pks)),
               CombineEcdhShares(Points(order)) # Err, agg # Err
        PROVE  CombineEcdhShares(Points(order)) = EcdhX(agg, given.to)
    <3> DEFINE points == Points(order)
    <3>1. RightEcdh(given) /\ DOMAIN pks = 1 .. Len(pks)
      BY <2>1, <2>2 DEF RightEcdh
    <3>2. points = [i \in 1 .. Len(pks) |->
                      EcdhShare(pks, given.hash, given.to, order[i])]
      BY <3>1
    <3>3. /\ CombinePartials(points) # Err
          /\ CombineEcdhShares(points) = X(CombinePartials(points))
      BY <2>2 DEF CombineEcdhShares
    <3> HIDE DEF points
    <3>4. CombinePartials(points) = PtMul(agg, given.to)
      BY <2>2, <3>1, <3>2, <3>3, SharesAdd
    <3> QED BY <3>3, <3>4 DEF EcdhX, points
  <2> QED BY <2>2 DEF SharesGiveSecret
<1> QED BY <1>1, InputsRight, PTL
================================================================================
