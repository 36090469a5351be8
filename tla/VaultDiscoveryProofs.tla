------------------------ MODULE VaultDiscoveryProofs ------------------------
(***************************************************************************)
(* Proofs about VaultDiscovery for any codes, coins, watch depth and       *)
(* number of scans: a vault's keys are those of its aggregate, a set       *)
(* called fresh is exact, the coin picked pays the vault, and the balance  *)
(* shown is the set's.                                                     *)
(***************************************************************************)
EXTENDS VaultDiscovery, FoldTheorems

\* The coins a scan of the vault v finds at the indices before n, when no
\* query fails and the chain stands still.
Exact(v, n) ==
  {[coin |-> c, index |-> Script[c].index] :
     c \in {d \in Coin : /\ chain[d] = "unspent"
                         /\ Script[d].kind = "p2tr"
                         /\ Script[d].vault = v
                         /\ Script[d].index < n
                         /\ Script[d].index <= WatchDepth}}

\* What FreshSetIsExact rests on: a clean scan is exact so far.
ScansExact ==
  /\ \A t \in Running : scan[t].clean =>
       scan[t].found = Exact(scan[t].vault, scan[t].next)
  /\ fresh => vault # None /\ utxos = Exact(vault.aggregate, WatchDepth + 1)

\* What AutoPickPaysVault rests on: what a scan found pays its vault, and as
\* long as the vault was not replaced every scan is of the vault in use.
Pays(us, v) ==
  \A u \in us : Script[u.coin] = [vault |-> v, index |-> u.index,
                                  kind |-> "p2tr"]

ScansPay ==
  /\ \A t \in Running : Pays(scan[t].found, scan[t].vault)
  /\ vault = None => Running = {} /\ utxos = {} /\ ~rebuilt
  /\ ~rebuilt /\ vault # None =>
       /\ \A t \in Running : scan[t].vault = vault.aggregate
       /\ Pays(utxos, vault.aggregate)

\* What DisplayFollowsSet rests on.  The device posts what it stores in one
\* step, so the last balance posted is the set's.  On a hosted build, while no
\* two refreshes overlap, at most one scan runs or one balance waits.
DevicePosts ==
  device =>
    /\ \A t \in Running : scan[t].next # WatchDepth + 2
    /\ ~overlap
    /\ IF posted = <<>> THEN display = CoinsOf(utxos)
                        ELSE posted[Len(posted)] = CoinsOf(utxos)

HostedPosts ==
  ~device /\ ~overlap =>
    /\ \A t, r \in Running : t = r
    /\ posted # <<>> =>
         Running = {} /\ Len(posted) = 1 /\ posted[1] = CoinsOf(utxos)
    /\ \A t \in Running : scan[t].next = WatchDepth + 2 =>
                            utxos = scan[t].found
    /\ Running = {} /\ posted = <<>> => display = CoinsOf(utxos)

-------------------------------------------------------------------------------
(***************************************************************************)
(* BUILD VAULT.                                                            *)
(***************************************************************************)
\* The states of the loop of VaultConfig::build.
KeptState == [clean : Seq(Code), seen : SUBSET {KeyOf[c] : c \in Code},
              codes : SUBSET Code]

LEMMA KeepType ==
  ASSUME NEW kept \in KeptState, NEW code \in Code
  PROVE  Keep(kept, code) \in KeptState
BY DEF Keep, KeptState

\* What the loop has kept of the first k codes, for every k.
IsKept(h, parts) ==
  /\ h \in [0 .. Len(parts) -> KeptState]
  /\ h[0] = NothingKept
  /\ \A k \in 1 .. Len(parts) : h[k] = Keep(h[k - 1], parts[k])
  /\ KeptOf(parts) = h[Len(parts)]

\* The fold is the loop, one code after the other.
LEMMA KeptSteps ==
  ASSUME NEW parts \in Seq(Code)
  PROVE  \E h : IsKept(h, parts)
<1> DEFINE n == Len(parts)
           op == [i \in 1 .. n |-> [x \in KeptState |-> Keep(x, parts[i])]]
           Solves(f) ==
             f = [s \in SUBSET DOMAIN parts |->
                    IF s = {} THEN NothingKept
                    ELSE Keep(f[s \ {Max(s)}], parts[Max(s)])]
           iter == CHOOSE f : Solves(f)
<1>1. n \in Nat /\ DOMAIN parts = 1 .. n /\ \A i \in 1 .. n : parts[i] \in Code
  OBVIOUS
<1>2. \A i \in 1 .. n, x \in KeptState :
        op[i][x] = Keep(x, parts[i]) /\ op[i][x] \in KeptState
  BY <1>1, KeepType
<1> HIDE DEF op
<1>3. PICK g \in [SUBSET (1 .. n) -> KeptState], h \in [0 .. n -> KeptState] :
             IsFold(g, h, n, NothingKept, op)
  <2>1. NothingKept \in KeptState
    BY DEF NothingKept, KeptState
  <2>2. StepOn(op, 1 .. n, KeptState)
    BY <1>2 DEF StepOn
  <2> HIDE DEF n
  <2> QED BY <1>1, <2>1, <2>2, FoldSteps
<1>4. ASSUME NEW s \in SUBSET (1 .. n), s # {}
      PROVE  g[s] = Keep(g[s \ {Max(s)}], parts[Max(s)])
  BY <1>2, <1>3, <1>4 DEF IsFold
<1>5. Solves(g)
  BY <1>1, <1>3, <1>4 DEF IsFold
<1>6. Solves(iter)
  BY <1>5
<1>7. iter[1 .. n] = h[n]
  <2>1. iter[{}] = NothingKept
    BY <1>6
  <2>2. ASSUME NEW s \in SUBSET (1 .. n), s # {},
               iter[s \ {Max(s)}] = g[s \ {Max(s)}]
        PROVE  iter[s] = g[s]
    BY <1>1, <1>4, <1>6, <2>2
  <2> HIDE DEF iter
  <2> QED BY <1>3, <2>1, <2>2 DEF IsFold
<1>8. KeptOf(parts) = iter[1 .. n]
  BY <1>1 DEF KeptOf, FoldLeft, MapThenFoldSet
<1>9. ASSUME NEW k \in 1 .. n PROVE h[k] = Keep(h[k - 1], parts[k])
  BY <1>1, <1>2, <1>3 DEF IsFold
<1> HIDE DEF iter
<1> QED BY <1>3, <1>7, <1>8, <1>9 DEF IsFold, IsKept

\* What holds of the loop after every code: the keys seen are those of the
\* codes kept, the list has exactly the codes of the set, and one of each key.
KeptRight(kept, parts) ==
  /\ kept \in KeptState
  /\ kept.seen = {KeyOf[c] : c \in kept.codes}
  /\ kept.codes = {kept.clean[i] : i \in DOMAIN kept.clean}
  /\ kept.codes \subseteq {parts[i] : i \in DOMAIN parts}
  /\ \A i, j \in DOMAIN kept.clean :
       KeyOf[kept.clean[i]] = KeyOf[kept.clean[j]] => i = j

LEMMA KeepRight ==
  ASSUME NEW parts \in Seq(Code), NEW kept, KeptRight(kept, parts),
         NEW k \in DOMAIN parts
  PROVE  KeptRight(Keep(kept, parts[k]), parts)
<1> DEFINE code == parts[k]
           new == Keep(kept, code)
<1>0. SUFFICES KeptRight(new, parts)
  OBVIOUS
<1>1. code \in Code /\ kept \in KeptState /\ new \in KeptState
  BY KeepType DEF KeptRight
<1>2. CASE KeyOf[code] \in kept.seen
  BY <1>2 DEF Keep
<1>3. CASE KeyOf[code] \notin kept.seen
  <2> DEFINE n == Len(kept.clean)
  <2>1. /\ new.clean = Append(kept.clean, code)
        /\ new.seen = kept.seen \cup {KeyOf[code]}
        /\ new.codes = kept.codes \cup {code}
    BY <1>3 DEF Keep
  <2>2. kept.clean \in Seq(Code) /\ n \in Nat /\ DOMAIN kept.clean = 1 .. n
    BY <1>1 DEF KeptState
  <2>3. /\ DOMAIN new.clean = 1 .. (n + 1)
        /\ new.clean[n + 1] = code
        /\ \A i \in 1 .. n : new.clean[i] = kept.clean[i]
    BY <2>1, <2>2, <1>1
  <2>4. \A i \in 1 .. n : KeyOf[kept.clean[i]] # KeyOf[code]
    BY <1>3, <2>2 DEF KeptRight
  <2>5. \A i \in 1 .. (n + 1) : i = n + 1 \/ i \in 1 .. n
    BY <2>2
  <2>6. \A i, j \in DOMAIN new.clean :
          KeyOf[new.clean[i]] = KeyOf[new.clean[j]] => i = j
    <3>1. \A i, j \in 1 .. n :
            KeyOf[kept.clean[i]] = KeyOf[kept.clean[j]] => i = j
      BY <2>2 DEF KeptRight
    <3> HIDE DEF new, n, code
    <3> QED BY <3>1, <2>3, <2>4, <2>5
  <2>7. new.codes = {new.clean[i] : i \in DOMAIN new.clean}
    <3>1. kept.codes = {kept.clean[i] : i \in 1 .. n}
      BY <2>2 DEF KeptRight
    <3>2. n + 1 \in 1 .. (n + 1) /\ 1 .. n \subseteq 1 .. (n + 1)
      BY <2>2
    <3> HIDE DEF new, n, code
    <3> QED BY <3>1, <3>2, <2>1, <2>3, <2>5
  <2>8. new.seen = {KeyOf[c] : c \in new.codes}
    <3>1. kept.seen = {KeyOf[c] : c \in kept.codes}
      BY DEF KeptRight
    <3> HIDE DEF new
    <3> QED BY <3>1, <2>1
  <2>9. new.codes \subseteq {parts[i] : i \in DOMAIN parts}
    BY <2>1 DEF KeptRight
  <2> HIDE DEF new
  <2> QED BY <1>1, <2>6, <2>7, <2>8, <2>9 DEF KeptRight
<1> QED BY <1>2, <1>3

LEMMA KeptOfRight ==
  ASSUME NEW parts \in Seq(Code)
  PROVE  KeptRight(KeptOf(parts), parts)
<1>1. PICK h : IsKept(h, parts)
  BY KeptSteps
<1> DEFINE n == Len(parts)
           G == {k \in Nat : k <= n => KeptRight(h[k], parts)}
<1>2. n \in Nat /\ DOMAIN parts = 1 .. n
  OBVIOUS
<1>3. 0 \in G
  <2>1. /\ NothingKept \in KeptState /\ NothingKept.codes = {}
        /\ NothingKept.seen = {} /\ DOMAIN NothingKept.clean = {}
    BY DEF NothingKept, KeptState
  <2>2. KeptRight(NothingKept, parts)
    BY <2>1 DEF KeptRight
  <2> QED BY <1>1, <2>2 DEF IsKept
<1>4. ASSUME NEW k \in G PROVE k + 1 \in G
  <2>1. ASSUME k + 1 <= n PROVE KeptRight(h[k + 1], parts)
    <3>1. k \in Nat /\ k + 1 \in 1 .. n /\ (k + 1) - 1 = k
      BY <1>2, <1>4, <2>1
    <3>2. KeptRight(h[k], parts)
      BY <1>2, <1>4, <3>1
    <3>3. h[k + 1] = Keep(h[k], parts[k + 1])
      BY <1>1, <3>1 DEF IsKept
    <3> QED BY <1>2, <3>1, <3>2, <3>3, KeepRight
  <2> QED BY <1>4, <2>1
<1>5. G = Nat
  <2>1. G \in SUBSET Nat
    OBVIOUS
  <2> HIDE DEF G
  <2> QED BY <1>3, <1>4, <2>1, NatInduct
<1>6. KeptRight(h[n], parts)
  BY <1>2, <1>5
<1> QED BY <1>1, <1>6 DEF IsKept

\* A list without two codes of one key is kept whole.
LEMMA KeptWhole ==
  ASSUME NEW parts \in Seq(Code),
         \A i, j \in DOMAIN parts : KeyOf[parts[i]] = KeyOf[parts[j]] => i = j
  PROVE  /\ KeptOf(parts).clean = parts
         /\ KeptOf(parts).codes = {parts[i] : i \in DOMAIN parts}
<1>1. PICK h : IsKept(h, parts)
  BY KeptSteps
<1> DEFINE n == Len(parts)
           Whole(k) ==
             /\ h[k].clean = [i \in 1 .. k |-> parts[i]]
             /\ h[k].codes = {parts[i] : i \in 1 .. k}
             /\ h[k].seen = {KeyOf[parts[i]] : i \in 1 .. k}
           G == {k \in Nat : k <= n => Whole(k)}
<1>2. n \in Nat /\ DOMAIN parts = 1 .. n /\ \A i \in 1 .. n : parts[i] \in Code
  OBVIOUS
<1>3. 0 \in G
  <2>1. 1 .. 0 = {} /\ <<>> = [i \in {} |-> parts[i]]
    OBVIOUS
  <2>2. /\ h[0].clean = <<>> /\ h[0].codes = {} /\ h[0].seen = {}
    BY <1>1 DEF IsKept, NothingKept
  <2> QED BY <2>1, <2>2
<1>4. ASSUME NEW k \in G PROVE k + 1 \in G
  <2>1. ASSUME k + 1 <= n PROVE Whole(k + 1)
    <3>1. k \in Nat /\ k + 1 \in 1 .. n /\ (k + 1) - 1 = k
      BY <1>2, <1>4, <2>1
    <3>2. Whole(k)
      BY <1>2, <1>4, <3>1
    <3>3. h[k + 1] = Keep(h[k], parts[k + 1])
      BY <1>1, <3>1 DEF IsKept
    <3>4. KeyOf[parts[k + 1]] \notin h[k].seen
      <4>1. \A i \in 1 .. k : i \in 1 .. n /\ i # k + 1
        BY <1>2, <3>1
      <4> QED BY <1>2, <3>1, <3>2, <4>1
    <3>5. /\ h[k + 1].clean = Append(h[k].clean, parts[k + 1])
          /\ h[k + 1].codes = h[k].codes \cup {parts[k + 1]}
          /\ h[k + 1].seen = h[k].seen \cup {KeyOf[parts[k + 1]]}
      BY <3>3, <3>4 DEF Keep
    <3>6. 1 .. (k + 1) = (1 .. k) \cup {k + 1}
      BY <3>1
    <3> DEFINE q == [i \in 1 .. k |-> parts[i]]
    <3>7. Append(q, parts[k + 1]) = [i \in 1 .. (k + 1) |-> parts[i]]
      <4>1. q \in Seq(Code) /\ Len(q) = k
        <5>1. q \in [1 .. k -> Code]
          BY <1>2, <3>1
        <5>2. k \in Nat
          BY <3>1
        <5> HIDE DEF q
        <5> QED BY <5>1, <5>2
      <4>2. Append(q, parts[k + 1]) =
              [i \in 1 .. (k + 1) |-> IF i = k + 1 THEN parts[k + 1] ELSE q[i]]
        BY <4>1
      <4>3. ASSUME NEW i \in 1 .. (k + 1)
            PROVE  (IF i = k + 1 THEN parts[k + 1] ELSE q[i]) = parts[i]
        <5>1. i = k + 1 \/ (i \in 1 .. k /\ i # k + 1)
          BY <3>1
        <5> QED BY <5>1
      <4> HIDE DEF q
      <4> QED BY <4>2, <4>3
    <3> QED BY <3>2, <3>5, <3>6, <3>7
  <2>2. k + 1 \in Nat
    BY <1>4
  <2> HIDE DEF Whole
  <2> QED BY <2>1, <2>2
<1>5. G = Nat
  <2>1. G \in SUBSET Nat
    OBVIOUS
  <2> HIDE DEF G
  <2> QED BY <1>3, <1>4, <2>1, NatInduct
<1>6. Whole(n)
  BY <1>2, <1>5
<1>7. [i \in 1 .. n |-> parts[i]] = parts
  BY <1>2
<1> QED BY <1>1, <1>2, <1>6, <1>7 DEF IsKept

\* What BUILD VAULT makes of the codes collected.
LEMMA BuildRight ==
  ASSUME NEW parts \in Seq(Code), Build(parts) # None
  PROVE  /\ Build(parts) \in VaultConfig
         /\ Build(parts).aggregate =
              {Build(parts).participants[i] :
                 i \in DOMAIN Build(parts).participants}
         /\ \A i, j \in DOMAIN Build(parts).participants :
              KeyOf[Build(parts).participants[i]] =
                KeyOf[Build(parts).participants[j]] => i = j
<1> DEFINE kept == KeptOf(parts)
<1>1. KeptRight(kept, parts)
  BY KeptOfRight
<1> HIDE DEF kept
<1>2. /\ Build(parts) = [participants |-> kept.clean, aggregate |-> kept.codes]
  BY DEF Build, kept
<1>3. Build(parts).participants = kept.clean /\ Build(parts).aggregate = kept.codes
  BY <1>2
<1>4. kept.clean \in Seq(Code) /\ kept.codes \in SUBSET Code
  BY <1>1 DEF KeptRight, KeptState
<1> QED BY <1>1, <1>2, <1>3, <1>4 DEF KeptRight, VaultConfig, Aggregate

\* The list a vault was built with builds it again.
LEMMA BuildAgain ==
  ASSUME NEW parts \in Seq(Code), Build(parts) # None
  PROVE  Build(Build(parts).participants) = Build(parts)
<1> DEFINE kept == KeptOf(parts)
           again == KeptOf(kept.clean)
<1>1. KeptRight(kept, parts)
  BY KeptOfRight
<1>2. /\ ~ \E i \in DOMAIN parts : KeyOf[parts[i]] = None
      /\ ~(Len(kept.clean) < 2)
      /\ Build(parts) = [participants |-> kept.clean, aggregate |-> kept.codes]
  BY DEF Build
<1> HIDE DEF kept
<1>3. kept.clean \in Seq(Code)
  BY <1>1 DEF KeptRight, KeptState
<1>4. again.clean = kept.clean /\ again.codes = kept.codes
  BY <1>1, <1>3, KeptWhole DEF KeptRight
<1>5. ~ \E i \in DOMAIN kept.clean : KeyOf[kept.clean[i]] = None
  BY <1>1, <1>2 DEF KeptRight
<1>6. Build(kept.clean) =
        [participants |-> again.clean, aggregate |-> again.codes]
  BY <1>2, <1>4, <1>5 DEF Build
<1>7. Build(parts).participants = kept.clean
  BY <1>2
<1> HIDE DEF again
<1> QED BY <1>2, <1>4, <1>6, <1>7

\* The vault made of a list of codes is a vault, known by a set of codes.
LEMMA BuildType ==
  ASSUME NEW parts \in Seq(Code), Build(parts) # None
  PROVE  Build(parts) \in VaultConfig /\ Build(parts).aggregate \in Aggregate
BY BuildRight DEF VaultConfig

\* The vault in use is known by a set of codes.
LEMMA VaultType ==
  ASSUME TypeOK, vault # None
  PROVE  vault.aggregate \in Aggregate
BY DEF TypeOK, VaultConfig

-------------------------------------------------------------------------------
(***************************************************************************)
(* Types, and what each step does to the scans.                            *)
(***************************************************************************)
\* The coins of a set of outputs found are coins.
LEMMA CoinsOfType ==
  ASSUME NEW us \in SUBSET Utxo
  PROVE  CoinsOf(us) \subseteq Coin
BY DEF CoinsOf, Utxo

\* A queue that is not empty has a length.
LEMMA QueueLength ==
  ASSUME NEW S, NEW q \in Seq(S), q # <<>>
  PROVE  Len(q) \in Nat \ {0}
OBVIOUS

\* A new scan is a scan.
LEMMA NewScanType ==
  ASSUME NEW v \in Aggregate
  PROVE  [vault |-> v, next |-> 0, found |-> {}, clean |-> TRUE] \in ScanState
BY ConstantsOK DEF ScanState

\* What the node reports at an index is found at that index.
LEMMA ReportedType ==
  ASSUME NEW v, NEW i \in 0 .. WatchDepth
  PROVE  {[coin |-> c, index |-> i] : c \in ListUnspent(v, i)} \subseteq Utxo
BY DEF ListUnspent, Utxo

\* A change of the chain leaves a scan what it was but clean.
LEMMA DisturbScan ==
  ASSUME TypeOK, Disturb
  PROVE  /\ scan' \in [Task -> ScanState \cup {None}]
         /\ \A t \in Task :
              /\ scan'[t] = None <=> scan[t] = None
              /\ scan[t] # None =>
                   /\ scan'[t].vault = scan[t].vault
                   /\ scan'[t].next = scan[t].next
                   /\ scan'[t].found = scan[t].found
                   /\ ~scan'[t].clean
<1>1. ASSUME NEW t \in Task, scan[t] # None
      PROVE  /\ [scan[t] EXCEPT !.clean = FALSE] \in ScanState
             /\ [scan[t] EXCEPT !.clean = FALSE].vault = scan[t].vault
             /\ [scan[t] EXCEPT !.clean = FALSE].next = scan[t].next
             /\ [scan[t] EXCEPT !.clean = FALSE].found = scan[t].found
             /\ ~[scan[t] EXCEPT !.clean = FALSE].clean
  <2>1. scan[t] \in ScanState
    BY <1>1 DEF TypeOK
  <2> QED BY <2>1 DEF ScanState
<1>2. ASSUME NEW t \in Task
      PROVE  scan'[t] = IF scan[t] = None THEN None
                        ELSE [scan[t] EXCEPT !.clean = FALSE]
  BY DEF Disturb
<1> QED BY <1>1, <1>2, ConstantsOK DEF Disturb

\* A query moves one scan to the next index.
LEMMA QueryScan ==
  ASSUME TypeOK, NEW t \in Task, Query(t)
  PROVE  /\ scan[t] \in ScanState /\ scan[t].next \in 0 .. WatchDepth
         /\ scan'[t] \in ScanState
         /\ scan'[t].vault = scan[t].vault
         /\ scan'[t].next = scan[t].next + 1
         /\ \/ /\ scan'[t].clean = scan[t].clean
               /\ scan'[t].found = scan[t].found \cup
                    {[coin |-> c, index |-> scan[t].next] :
                       c \in ListUnspent(scan[t].vault, scan[t].next)}
            \/ ~scan'[t].clean /\ scan'[t].found = scan[t].found
         /\ \A r \in Task : r # t => scan'[r] = scan[r]
         /\ scan' \in [Task -> ScanState \cup {None}]
<1> DEFINE new == {[coin |-> c, index |-> scan[t].next] :
                     c \in ListUnspent(scan[t].vault, scan[t].next)}
           hit == [scan[t] EXCEPT !.next = scan[t].next + 1,
                                  !.found = scan[t].found \cup new]
           miss == [scan[t] EXCEPT !.next = scan[t].next + 1,
                                   !.clean = FALSE]
<1>1. scan[t] \in ScanState /\ scan[t].next \in 0 .. WatchDepth
  BY DEF Query, TypeOK, ScanState
<1>2. new \subseteq Utxo
  BY <1>1, ReportedType
<1>3. scan[t].next + 1 \in 0 .. WatchDepth + 2
  BY <1>1, ConstantsOK
<1> HIDE DEF new
<1>4. /\ hit \in ScanState /\ miss \in ScanState
      /\ hit.vault = scan[t].vault /\ miss.vault = scan[t].vault
      /\ hit.next = scan[t].next + 1 /\ miss.next = scan[t].next + 1
      /\ hit.clean = scan[t].clean /\ ~miss.clean
      /\ hit.found = scan[t].found \cup new /\ miss.found = scan[t].found
  BY <1>1, <1>2, <1>3 DEF ScanState
<1>5. \/ scan' = [scan EXCEPT ![t] = hit]
      \/ scan' = [scan EXCEPT ![t] = miss]
  BY DEF Query, new
<1> HIDE DEF hit, miss
<1>6. /\ scan'[t] \in {hit, miss}
      /\ \A r \in Task : r # t => scan'[r] = scan[r]
      /\ scan' \in [Task -> ScanState \cup {None}]
  BY <1>4, <1>5 DEF TypeOK
<1> QED BY <1>1, <1>4, <1>6 DEF new

\* Storing ends a scan of the device; a hosted one has yet to post.
LEMMA StoreScan ==
  ASSUME TypeOK, NEW t \in Task, Store(t)
  PROVE  /\ scan[t] \in ScanState /\ scan[t] # None
         /\ scan[t].next = WatchDepth + 1
         /\ device => scan'[t] = None
         /\ ~device => /\ scan'[t] \in ScanState
                       /\ scan'[t].vault = scan[t].vault
                       /\ scan'[t].found = scan[t].found
                       /\ scan'[t].clean = scan[t].clean
                       /\ scan'[t].next = WatchDepth + 2
         /\ \A r \in Task : r # t => scan'[r] = scan[r]
         /\ scan' \in [Task -> ScanState \cup {None}]
<1> DEFINE stop == [scan[t] EXCEPT !.next = WatchDepth + 2]
<1>1. scan[t] \in ScanState /\ scan[t] # None /\ scan[t].next = WatchDepth + 1
  BY DEF Store, TypeOK
<1>2. WatchDepth + 2 \in 0 .. WatchDepth + 2
  BY ConstantsOK
<1>3. /\ stop \in ScanState
      /\ stop.vault = scan[t].vault /\ stop.found = scan[t].found
      /\ stop.clean = scan[t].clean /\ stop.next = WatchDepth + 2
  BY <1>1, <1>2 DEF ScanState
<1>4. CASE device
  BY <1>1, <1>4 DEF Store, TypeOK
<1>5. CASE ~device
  <2>1. scan' = [scan EXCEPT ![t] = stop]
    BY <1>5 DEF Store
  <2> HIDE DEF stop
  <2>2. /\ scan'[t] = stop
        /\ \A r \in Task : r # t => scan'[r] = scan[r]
        /\ scan' \in [Task -> ScanState \cup {None}]
    BY <1>3, <2>1 DEF TypeOK
  <2> QED BY <1>1, <1>3, <1>5, <2>2
<1> QED BY <1>4, <1>5

\* Posting ends a scan.
LEMMA PostScan ==
  ASSUME TypeOK, NEW t \in Task, Post(t)
  PROVE  /\ scan[t] \in ScanState /\ scan[t] # None
         /\ scan[t].next = WatchDepth + 2
         /\ scan'[t] = None
         /\ \A r \in Task : r # t => scan'[r] = scan[r]
         /\ scan' \in [Task -> ScanState \cup {None}]
BY DEF Post, TypeOK

\* Starting a scan.
LEMMA NewScan ==
  ASSUME TypeOK, NEW v, v.aggregate \in Aggregate, NEW t \in Task,
         StartScan(v, t)
  PROVE  /\ scan[t] = None /\ scan'[t] # None
         /\ scan'[t] = [vault |-> v.aggregate, next |-> 0, found |-> {},
                        clean |-> TRUE]
         /\ \A r \in Task : r # t => scan'[r] = scan[r]
         /\ scan' \in [Task -> ScanState \cup {None}]
<1> DEFINE new == [vault |-> v.aggregate, next |-> 0, found |-> {},
                   clean |-> TRUE]
<1>1. new \in ScanState /\ new # None
  BY NewScanType, ConstantsOK
<1> HIDE DEF new
<1>2. scan[t] = None /\ scan' = [scan EXCEPT ![t] = new]
  BY DEF StartScan, new
<1>3. /\ scan'[t] = new
      /\ \A r \in Task : r # t => scan'[r] = scan[r]
      /\ scan' \in [Task -> ScanState \cup {None}]
  BY <1>1, <1>2 DEF TypeOK
<1> QED BY <1>1, <1>2, <1>3 DEF new

\* After a restart at most one scan runs, of the vault rebuilt.
LEMMA RestartScan ==
  ASSUME TypeOK, Restart
  PROVE  /\ scan' \in [Task -> ScanState \cup {None}]
         /\ \A t, r \in Running' : t = r
         /\ \A t \in Running' :
              /\ vault' # None
              /\ scan'[t] = [vault |-> vault'.aggregate, next |-> 0,
                             found |-> {}, clean |-> TRUE]
<1> DEFINE v == Build(stored)
           new == [vault |-> v.aggregate, next |-> 0,
                   found |-> {}, clean |-> TRUE]
           t0 == [t \in Task |-> None]
<1>1. vault' = v
  BY DEF Restart
<1>2. v # None => new \in ScanState
  BY BuildType, NewScanType DEF TypeOK
<1>3. \/ scan' = t0
      \/ v # None /\ \E t \in Task : scan' = [t0 EXCEPT ![t] = new]
  BY DEF Restart
<1>4. CASE scan' = t0
  BY <1>4 DEF Running
<1>5. ASSUME v # None, NEW t \in Task, scan' = [t0 EXCEPT ![t] = new]
      PROVE  /\ scan' \in [Task -> ScanState \cup {None}]
             /\ \A r \in Running' : r = t /\ scan'[r] = new
  <2> HIDE DEF new, v
  <2> QED BY <1>2, <1>5 DEF Running
<1> QED BY <1>1, <1>3, <1>4, <1>5

LEMMA InitTypes == Init => TypeOK
<1> SUFFICES ASSUME Init PROVE TypeOK
  OBVIOUS
<1>1. /\ posted = <<>> /\ utxos = {} /\ display = {} /\ shown = {}
      /\ collected = <<>> /\ vault = None /\ stored = <<>> /\ nextIndex = 0
  BY DEF Init
<1>2. scan \in [Task -> ScanState \cup {None}]
  BY DEF Init
<1>3. chain \in [Coin -> {"unpaid", "unspent", "spent"}]
  BY DEF Init
<1>4. <<>> \in Seq(SUBSET Coin) /\ <<>> \in Seq(Code)
  OBVIOUS
<1>5. /\ device \in BOOLEAN /\ fresh \in BOOLEAN
      /\ overlap \in BOOLEAN /\ rebuilt \in BOOLEAN
  BY DEF Init
<1> QED BY <1>1, <1>2, <1>3, <1>4, <1>5 DEF TypeOK

LEMMA StartTypes ==
  ASSUME TypeOK, NEW v, v.aggregate \in Aggregate, Refresh(v)
  PROVE  /\ scan' \in [Task -> ScanState \cup {None}]
         /\ utxos' \subseteq Utxo
         /\ posted' \in Seq(SUBSET Coin) /\ display' \subseteq Coin
         /\ fresh' \in BOOLEAN /\ overlap' \in BOOLEAN
<1>1. CASE Clear
  BY <1>1 DEF Clear, TypeOK
<1>2. ASSUME NEW t \in Task, StartScan(v, t), fresh' = (fresh /\ vault = v)
      PROVE  /\ scan' \in [Task -> ScanState \cup {None}]
             /\ utxos' \subseteq Utxo
             /\ posted' \in Seq(SUBSET Coin) /\ display' \subseteq Coin
             /\ fresh' \in BOOLEAN /\ overlap' \in BOOLEAN
  <2>1. scan' \in [Task -> ScanState \cup {None}]
    BY <1>2, NewScan
  <2> QED BY <1>2, <2>1 DEF StartScan, TypeOK
<1> QED BY <1>1, <1>2 DEF Refresh

\* Every step keeps the types.
LEMMA NextTypes == TypeOK /\ [Next]_vars => TypeOK'
<1> SUFFICES ASSUME TypeOK, [Next]_vars PROVE TypeOK'
  OBVIOUS
<1>1. CASE ScanSetup
  <2>1. PICK i \in DOMAIN Offered : collected' = Append(collected, Offered[i])
    BY <1>1 DEF ScanSetup
  <2>2. Offered[i] \in Code
    BY ConstantsOK
  <2>3. collected' \in Seq(Code)
    BY <2>1, <2>2 DEF TypeOK
  <2> QED BY <1>1, <2>3 DEF ScanSetup, TypeOK, found
<1>2. CASE BuildVault
  <2>1. Build(collected) # None /\ vault' = Build(collected)
    BY <1>2 DEF BuildVault
  <2>2. vault' \in VaultConfig /\ vault'.aggregate \in Aggregate
    BY <2>1, BuildType DEF TypeOK
  <2>3. Refresh(Build(collected))
    BY <1>2 DEF BuildVault
  <2>4. /\ rebuilt' \in BOOLEAN
        /\ UNCHANGED <<device, collected, nextIndex, shown, chain>>
    BY <1>2 DEF BuildVault, TypeOK
  <2>5. stored' \in Seq(Code)
    <3>1. stored' = vault'.participants
      BY <1>2 DEF BuildVault
    <3> QED BY <2>2, <3>1 DEF VaultConfig
  <2> QED BY <2>1, <2>2, <2>3, <2>4, <2>5, StartTypes DEF TypeOK
<1>3. CASE Restart
  <2>1. vault' \in VaultConfig \cup {None}
    BY <1>3, BuildType DEF Restart, TypeOK
  <2>2. scan' \in [Task -> ScanState \cup {None}]
    BY <1>3, RestartScan
  <2>3. utxos' = {} /\ posted' = <<>> /\ display' = {}
    BY <1>3 DEF Restart
  <2>4. /\ UNCHANGED <<device, stored, nextIndex, shown, chain>>
        /\ fresh' \in BOOLEAN /\ overlap' \in BOOLEAN /\ rebuilt' \in BOOLEAN
    BY <1>3 DEF Restart
  <2>5. collected' \in Seq(Code)
    BY <1>3 DEF Restart, TypeOK
  <2> QED BY <2>1, <2>2, <2>3, <2>4, <2>5 DEF TypeOK
<1>4. CASE RefreshBalance
  BY <1>4, StartTypes, VaultType DEF RefreshBalance, TypeOK, setup
<1>5. CASE Receive
  <2>1. nextIndex \in 0 .. MaxIndex
    BY <1>5, ConstantsOK DEF Receive, TypeOK
  <2>2. shown' \subseteq Address /\ nextIndex' \in Nat
    BY <1>5, <2>1, VaultType DEF Receive, Address, AddressOf, TypeOK
  <2> QED BY <1>5, <2>2 DEF Receive, TypeOK, found
<1>6. CASE Show
  BY <1>6 DEF Show, TypeOK, setup
<1>7. ASSUME NEW t \in Task, Query(t) PROVE TypeOK'
  <2>1. scan' \in [Task -> ScanState \cup {None}]
    BY <1>7, QueryScan
  <2> QED BY <1>7, <2>1 DEF Query, TypeOK, setup, found
<1>8. ASSUME NEW t \in Task, Store(t) PROVE TypeOK'
  <2>1. /\ scan[t] \in ScanState
        /\ scan' \in [Task -> ScanState \cup {None}]
    BY <1>8, StoreScan
  <2>2. scan[t].found \subseteq Utxo /\ CoinsOf(scan[t].found) \subseteq Coin
    BY <2>1, CoinsOfType DEF ScanState
  <2>3. posted' \in Seq(SUBSET Coin)
    <3>1. posted \in Seq(SUBSET Coin)
      BY DEF TypeOK
    <3>2. posted' \in {posted, Append(posted, CoinsOf(scan[t].found))}
      BY <1>8 DEF Store
    <3> QED BY <2>2, <3>1, <3>2
  <2>4. fresh' \in BOOLEAN
    BY <1>8, <2>1 DEF Store, ScanState
  <2> QED BY <1>8, <2>1, <2>2, <2>3, <2>4 DEF Store, TypeOK, setup
<1>9. ASSUME NEW t \in Task, Post(t) PROVE TypeOK'
  <2>1. /\ scan[t] \in ScanState
        /\ scan' \in [Task -> ScanState \cup {None}]
    BY <1>9, PostScan
  <2>2. CoinsOf(scan[t].found) \subseteq Coin
    BY <2>1, CoinsOfType DEF ScanState
  <2> QED BY <1>9, <2>1, <2>2 DEF Post, TypeOK, setup
<1>10. ASSUME NEW c \in Coin, Pay(c) \/ Spend(c) PROVE TypeOK'
  <2>1. Disturb
    BY <1>10 DEF Pay, Spend
  <2>2. fresh' \in BOOLEAN
    BY <2>1 DEF Disturb
  <2>3. chain' \in [Coin -> {"unpaid", "unspent", "spent"}]
    BY <1>10 DEF Pay, Spend, TypeOK
  <2>4. UNCHANGED <<device, setup, utxos, posted, display, overlap>>
    BY <1>10 DEF Pay, Spend
  <2> QED BY <2>1, <2>2, <2>3, <2>4, DisturbScan DEF TypeOK, setup
<1>11. CASE UNCHANGED vars
  BY <1>11 DEF vars, setup, found, TypeOK
<1> QED
  BY <1>1, <1>2, <1>3, <1>4, <1>5, <1>6, <1>7, <1>8, <1>9, <1>10, <1>11
  DEF Next, ScanStep

\* Every variable keeps its type: what BUILD VAULT stores is a list of codes,
\* what it makes of any list is a vault, and every address displayed is one.
THEOREM TypeCorrect == Spec => []TypeOK
<1> QED BY InitTypes, NextTypes, PTL DEF Spec

-------------------------------------------------------------------------------
(***************************************************************************)
(* KeysMatchIdentity.                                                      *)
(***************************************************************************)

\* Every step keeps the vault one that BUILD VAULT made, and the list stored
\* one that makes it again.
LEMMA NextIdentity ==
  TypeOK /\ KeysMatchIdentity /\ [Next]_vars => KeysMatchIdentity'
<1> SUFFICES ASSUME TypeOK, KeysMatchIdentity, [Next]_vars
             PROVE  KeysMatchIdentity'
  OBVIOUS
<1>s. ASSUME UNCHANGED <<vault, stored>> PROVE KeysMatchIdentity'
  BY <1>s DEF KeysMatchIdentity
<1>b. ASSUME NEW parts \in Seq(Code), vault' = Build(parts),
             vault' # None => Build(stored') = vault'
      PROVE  KeysMatchIdentity'
  BY <1>b, BuildRight DEF KeysMatchIdentity
<1>1. CASE BuildVault
  <2>1. /\ Build(collected) # None /\ vault' = Build(collected)
        /\ stored' = Build(collected).participants
    BY <1>1 DEF BuildVault
  <2>2. collected \in Seq(Code)
    BY DEF TypeOK
  <2>3. Build(stored') = vault'
    BY <2>1, <2>2, BuildAgain
  <2> QED BY <1>b, <2>1, <2>2, <2>3
<1>2. CASE Restart
  <2>1. vault' = Build(stored) /\ stored' = stored /\ stored \in Seq(Code)
    BY <1>2 DEF Restart, TypeOK
  <2> QED BY <1>b, <2>1
<1>3. CASE ScanSetup \/ RefreshBalance \/ Receive \/ Show
  BY <1>3, <1>s DEF ScanSetup, RefreshBalance, Receive, Show, setup
<1>4. ASSUME NEW t \in Task, ScanStep(t) PROVE KeysMatchIdentity'
  BY <1>4, <1>s DEF ScanStep, Query, Store, Post, setup
<1>5. ASSUME NEW c \in Coin, Pay(c) \/ Spend(c) PROVE KeysMatchIdentity'
  BY <1>5, <1>s DEF Pay, Spend, setup
<1>6. CASE UNCHANGED vars
  BY <1>6, <1>s DEF vars, setup
<1> QED
  BY <1>1, <1>2, <1>3, <1>4, <1>5, <1>6 DEF Next

\* However often devices are scanned, whatever is built, stored and rebuilt at
\* a restart, the list sessions take their keys from is the key set of the
\* aggregate, one code per key, and the list stored rebuilds the vault.
THEOREM IdentityKept == Spec => []KeysMatchIdentity
<1>1. Init => KeysMatchIdentity
  BY DEF Init, KeysMatchIdentity
<1> QED
  BY <1>1, InitTypes, NextTypes, NextIdentity, PTL DEF Spec

-------------------------------------------------------------------------------
(***************************************************************************)
(* FreshSetIsExact.                                                        *)
(***************************************************************************)

\* Nothing is found before the first index is asked for.
LEMMA ExactZero ==
  ASSUME NEW v
  PROVE  Exact(v, 0) = {}
BY ConstantsOK DEF Exact

\* Past the last index nothing more is asked for.
LEMMA ExactEnd ==
  ASSUME NEW v
  PROVE  Exact(v, WatchDepth + 2) = Exact(v, WatchDepth + 1)
BY ConstantsOK DEF Exact

\* One query adds what pays the vault at its index.
LEMMA ExactNext ==
  ASSUME NEW v, NEW i \in 0 .. WatchDepth
  PROVE  Exact(v, i + 1) = Exact(v, i) \cup
           {[coin |-> c, index |-> i] : c \in ListUnspent(v, i)}
<1>1. ASSUME NEW c \in Coin
      PROVE  /\ Script[c] = [vault |-> v, index |-> i, kind |-> "p2tr"] <=>
                /\ Script[c].vault = v /\ Script[c].index = i
                /\ Script[c].kind = "p2tr"
             /\ Script[c].index \in Nat
  BY ConstantsOK
<1>2. ASSUME NEW c \in Coin
      PROVE  (Script[c].index < i + 1 /\ Script[c].index <= WatchDepth) <=>
             \/ Script[c].index < i /\ Script[c].index <= WatchDepth
             \/ Script[c].index = i
  BY <1>1, ConstantsOK
<1> QED BY <1>1, <1>2 DEF Exact, ListUnspent

\* Every step keeps a clean scan, and a fresh set, exact.
LEMMA NextScansExact == TypeOK /\ ScansExact /\ [Next]_vars => ScansExact'
<1> SUFFICES ASSUME TypeOK, ScansExact, [Next]_vars PROVE ScansExact'
  OBVIOUS
<1> DEFINE Clean == \A t \in Running : scan[t].clean =>
                      scan[t].found = Exact(scan[t].vault, scan[t].next)
           Fresh == fresh => /\ vault # None
                             /\ utxos = Exact(vault.aggregate, WatchDepth + 1)
<1>0. Clean /\ Fresh
  BY DEF ScansExact
<1>e. ASSUME chain' = chain
      PROVE  \A v, n : Exact(v, n)' = Exact(v, n)
  BY <1>e DEF Exact
<1>r. ASSUME NEW v, v.aggregate \in Aggregate, Refresh(v), chain' = chain,
             vault' = v, v # None
      PROVE  ScansExact'
  <2>1. CASE Clear
    <3>1. Running' = Running /\ scan' = scan /\ ~fresh'
      BY <2>1 DEF Clear, Running
    <3> QED BY <1>0, <1>e, <1>r, <3>1 DEF ScansExact
  <2>2. ASSUME NEW t \in Task, StartScan(v, t), fresh' = (fresh /\ vault = v)
        PROVE  ScansExact'
    <3>1. utxos' = utxos
      BY <2>2 DEF StartScan
    <3>2. Fresh'
      BY <1>0, <1>e, <1>r, <2>2, <3>1
    <3>3. \A r \in Running' \ {t} : scan'[r] = scan[r] /\ r \in Running
      BY <1>r, <2>2, NewScan DEF Running
    <3>4. scan'[t].found = {} /\ scan'[t].next = 0
      <4>1. scan'[t] = [vault |-> v.aggregate, next |-> 0, found |-> {},
                        clean |-> TRUE]
        BY <1>r, <2>2, NewScan
      <4> QED BY <4>1
    <3>5. Clean'
      BY <1>0, <1>e, <1>r, <3>3, <3>4, ExactZero
    <3> QED BY <3>2, <3>5 DEF ScansExact
  <2> QED BY <1>r, <2>1, <2>2 DEF Refresh
<1>s. ASSUME UNCHANGED <<chain, scan, utxos, fresh, vault>>
      PROVE  ScansExact'
  BY <1>s, <1>0, <1>e DEF ScansExact, Running
<1>1. CASE BuildVault
  <2>1. Build(collected) # None /\ vault' = Build(collected)
    BY <1>1 DEF BuildVault
  <2>2. Refresh(Build(collected)) /\ chain' = chain
    BY <1>1 DEF BuildVault
  <2> QED BY <2>1, <2>2, <1>r, BuildType DEF TypeOK
<1>2. CASE RefreshBalance
  BY <1>2, <1>r, VaultType DEF RefreshBalance, setup
<1>3. CASE Restart
  <2>1. ~fresh'
    BY <1>3 DEF Restart
  <2>2. \A t \in Running' : scan'[t].found = {} /\ scan'[t].next = 0
    BY <1>3, RestartScan
  <2>3. chain' = chain
    BY <1>3 DEF Restart
  <2> QED BY <2>1, <2>2, <2>3, <1>e, ExactZero DEF ScansExact
<1>4. ASSUME NEW t \in Task, Query(t) PROVE ScansExact'
  <2>1. UNCHANGED <<chain, utxos, fresh, vault>>
    BY <1>4 DEF Query, setup, found
  <2>2. Fresh'
    BY <1>0, <1>e, <2>1
  <2>3. \A r \in Running' \ {t} : scan'[r] = scan[r] /\ r \in Running
    BY <1>4, QueryScan DEF Running
  <2>4. t \in Running
    BY <1>4 DEF Query, Running
  <2>5. ASSUME scan'[t].clean
        PROVE  scan'[t].found = Exact(scan'[t].vault, scan'[t].next)
    <3>1. /\ scan[t].next \in 0 .. WatchDepth
          /\ scan'[t].vault = scan[t].vault
          /\ scan'[t].next = scan[t].next + 1
          /\ scan[t].clean
          /\ scan'[t].found = scan[t].found \cup
               {[coin |-> c, index |-> scan[t].next] :
                  c \in ListUnspent(scan[t].vault, scan[t].next)}
      BY <1>4, <2>5, QueryScan
    <3>2. scan[t].found = Exact(scan[t].vault, scan[t].next)
      BY <1>0, <2>4, <3>1
    <3> QED BY <3>1, <3>2, ExactNext
  <2>6. Clean'
    BY <1>0, <1>e, <2>1, <2>3, <2>5
  <2> QED BY <2>2, <2>6 DEF ScansExact
<1>5. ASSUME NEW t \in Task, Store(t) PROVE ScansExact'
  <2>1. UNCHANGED <<chain, vault>> /\ utxos' = scan[t].found
    BY <1>5 DEF Store, setup
  <2>2. fresh' => /\ scan[t].clean /\ vault # None
                  /\ scan[t].vault = vault.aggregate
    BY <1>5 DEF Store
  <2>3. t \in Running /\ scan[t].next = WatchDepth + 1
    BY <1>5 DEF Store, Running
  <2>4. Fresh'
    BY <1>0, <1>e, <2>1, <2>2, <2>3
  <2>5. \A r \in Running' \ {t} : scan'[r] = scan[r] /\ r \in Running
    BY <1>5, StoreScan DEF Running
  <2>6. t \in Running' /\ scan'[t].clean =>
          scan'[t].found = Exact(scan'[t].vault, scan'[t].next)
    BY <1>0, <1>5, <2>3, StoreScan, ExactEnd DEF Running
  <2>7. Clean'
    BY <1>0, <1>e, <2>1, <2>5, <2>6
  <2> QED BY <2>4, <2>7 DEF ScansExact
<1>6. ASSUME NEW t \in Task, Post(t) PROVE ScansExact'
  <2>1. UNCHANGED <<chain, utxos, fresh, vault>>
    BY <1>6 DEF Post, setup
  <2>2. \A r \in Running' : scan'[r] = scan[r] /\ r \in Running
    BY <1>6, PostScan DEF Running
  <2> QED BY <1>0, <1>e, <2>1, <2>2 DEF ScansExact
<1>7. ASSUME NEW c \in Coin, Pay(c) \/ Spend(c) PROVE ScansExact'
  <2>1. Disturb
    BY <1>7 DEF Pay, Spend
  <2>2. \A t \in Running' : ~scan'[t].clean
    BY <2>1, DisturbScan DEF Running
  <2>3. ~fresh'
    BY <2>1 DEF Disturb
  <2> QED BY <2>2, <2>3 DEF ScansExact
<1>8. CASE ScanSetup
  BY <1>8, <1>s DEF ScanSetup, found
<1>9. CASE Receive
  BY <1>9, <1>s DEF Receive, found
<1>10. CASE Show
  BY <1>10, <1>s DEF Show, setup
<1>11. CASE UNCHANGED vars
  BY <1>11, <1>s DEF vars, setup, found
<1> QED
  BY <1>1, <1>2, <1>3, <1>4, <1>5, <1>6, <1>7, <1>8, <1>9, <1>10, <1>11
  DEF Next, ScanStep

\* A set marked fresh has exactly the unspent watched coins of the vault in
\* use, whatever scans ran beside the one that stored it.
THEOREM FreshExact == Spec => []FreshSetIsExact
<1>1. Init => TypeOK /\ ScansExact
  BY InitTypes DEF Init, ScansExact, Running
<1>2. TypeOK /\ ScansExact /\ [Next]_vars => (TypeOK /\ ScansExact)'
  BY NextTypes, NextScansExact
<1>3. ScansExact => FreshSetIsExact
  BY ConstantsOK DEF ScansExact, FreshSetIsExact, Exact
<1> QED
  BY <1>1, <1>2, <1>3, PTL DEF Spec

-------------------------------------------------------------------------------
(***************************************************************************)
(* AutoPickPaysVault.                                                      *)
(***************************************************************************)

\* Every step keeps what scans found paying their vault.
LEMMA NextScansPay == TypeOK /\ ScansPay /\ [Next]_vars => ScansPay'
<1> SUFFICES ASSUME TypeOK, ScansPay, [Next]_vars PROVE ScansPay'
  OBVIOUS
<1> DEFINE Found == \A t \in Running : Pays(scan[t].found, scan[t].vault)
           First == vault = None => Running = {} /\ utxos = {} /\ ~rebuilt
           Same == ~rebuilt /\ vault # None =>
                     /\ \A t \in Running : scan[t].vault = vault.aggregate
                     /\ Pays(utxos, vault.aggregate)
<1>0. Found /\ First /\ Same
  BY DEF ScansPay
<1>p. \A us, v : Pays(us, v)' = Pays(us, v)
  BY DEF Pays
<1>z. \A v : Pays({}, v)
  BY DEF Pays
<1>r. ASSUME NEW v, v # None, v.aggregate \in Aggregate, Refresh(v), vault' = v,
             rebuilt' = (rebuilt \/ (vault # None /\ vault # v))
      PROVE  ScansPay'
  <2>1. CASE Clear
    <3>1. Running' = Running /\ scan' = scan /\ utxos' = {}
      BY <2>1 DEF Clear, Running
    <3>2. ~rebuilt' => \A t \in Running' : scan'[t].vault = v.aggregate
      BY <1>0, <1>r, <3>1
    <3> QED BY <1>0, <1>z, <1>r, <3>1, <3>2 DEF ScansPay, Pays
  <2>2. ASSUME NEW t \in Task, StartScan(v, t) PROVE ScansPay'
    <3>1. utxos' = utxos
      BY <2>2 DEF StartScan
    <3>2. \A r \in Running' \ {t} : scan'[r] = scan[r] /\ r \in Running
      BY <1>r, <2>2, NewScan DEF Running
    <3>3. scan'[t].found = {} /\ scan'[t].vault = v.aggregate
      <4>1. scan'[t] = [vault |-> v.aggregate, next |-> 0, found |-> {},
                        clean |-> TRUE]
        BY <1>r, <2>2, NewScan
      <4> QED BY <4>1
    <3>4. \A r \in Running' : Pays(scan'[r].found, scan'[r].vault)
      <4>1. Pays(scan'[t].found, scan'[t].vault)
        BY <3>3 DEF Pays
      <4>2. ASSUME NEW r \in Running', r # t
            PROVE  Pays(scan'[r].found, scan'[r].vault)
        <5>1. scan'[r] = scan[r] /\ r \in Running
          BY <3>2, <4>2
        <5> QED BY <1>0, <5>1
      <4> QED BY <4>1, <4>2
    <3>5. ~rebuilt' => /\ \A r \in Running' : scan'[r].vault = v.aggregate
                      /\ Pays(utxos, v.aggregate)
      <4>1. CASE vault = None
        BY <1>0, <1>z, <3>2, <3>3, <4>1
      <4>2. CASE vault # None
        BY <1>0, <1>r, <3>2, <3>3, <4>2
      <4> QED BY <4>1, <4>2
    <3> QED BY <1>r, <3>1, <3>4, <3>5 DEF ScansPay, Pays
  <2> QED BY <1>r, <2>1, <2>2 DEF Refresh
<1>s. ASSUME UNCHANGED <<scan, utxos, vault, rebuilt>>
      PROVE  ScansPay'
  BY <1>s, <1>0 DEF ScansPay, Running, Pays
<1>1. CASE BuildVault
  <2>1. Build(collected) # None /\ vault' = Build(collected)
    BY <1>1 DEF BuildVault
  <2>2. Refresh(Build(collected))
    BY <1>1 DEF BuildVault
  <2>3. rebuilt' = (rebuilt \/ (vault # None /\ vault # Build(collected)))
    BY <1>1 DEF BuildVault
  <2> QED BY <2>1, <2>2, <2>3, <1>r, BuildType DEF TypeOK
<1>2. CASE RefreshBalance
  <2>1. /\ vault # None /\ Refresh(vault) /\ vault' = vault
        /\ rebuilt' = rebuilt /\ vault.aggregate \in Aggregate
    BY <1>2, VaultType DEF RefreshBalance, setup
  <2> QED BY <2>1, <1>r DEF TypeOK
<1>3. CASE Restart
  <2>1. utxos' = {} /\ ~rebuilt'
    BY <1>3 DEF Restart
  <2>2. ASSUME NEW t \in Running'
        PROVE  /\ vault' # None /\ scan'[t].found = {}
               /\ scan'[t].vault = vault'.aggregate
    <3>1. /\ vault' # None
          /\ scan'[t] = [vault |-> vault'.aggregate, next |-> 0,
                         found |-> {}, clean |-> TRUE]
      BY <1>3, RestartScan
    <3> QED BY <3>1
  <2> QED BY <1>z, <2>1, <2>2 DEF ScansPay, Pays
<1>4. ASSUME NEW t \in Task, Query(t) PROVE ScansPay'
  <2>1. UNCHANGED <<utxos, vault, rebuilt>>
    BY <1>4 DEF Query, setup, found
  <2>2. t \in Running
    BY <1>4 DEF Query, Running
  <2>3. \A r \in Running' : /\ r \in Running /\ scan'[r].vault = scan[r].vault
                            /\ r # t => scan'[r] = scan[r]
    BY <1>4, <2>2, QueryScan DEF Running
  <2>4. Pays(scan'[t].found, scan[t].vault)
    <3>1. Pays({[coin |-> c, index |-> scan[t].next] :
                  c \in ListUnspent(scan[t].vault, scan[t].next)},
               scan[t].vault)
      BY DEF Pays, ListUnspent
    <3>2. Pays(scan[t].found, scan[t].vault)
      BY <1>0, <2>2
    <3>3. \/ scan'[t].found = scan[t].found
          \/ scan'[t].found = scan[t].found \cup
               {[coin |-> c, index |-> scan[t].next] :
                  c \in ListUnspent(scan[t].vault, scan[t].next)}
      BY <1>4, QueryScan
    <3> QED BY <3>1, <3>2, <3>3 DEF Pays
  <2>5. \A r \in Running' : Pays(scan'[r].found, scan'[r].vault)
    BY <1>0, <2>3, <2>4
  <2>6. Running = {} => Running' = {}
    BY <2>3
  <2> QED BY <1>0, <2>1, <2>3, <2>5, <2>6 DEF ScansPay, Pays
<1>5. ASSUME NEW t \in Task, Store(t) PROVE ScansPay'
  <2>1. UNCHANGED <<vault, rebuilt>> /\ utxos' = scan[t].found
    BY <1>5 DEF Store, setup
  <2>2. t \in Running
    BY <1>5 DEF Store, Running
  <2>3. \A r \in Running' : /\ r \in Running /\ scan'[r].vault = scan[r].vault
                            /\ scan'[r].found = scan[r].found
    BY <1>5, <2>2, StoreScan DEF Running
  <2> QED BY <1>0, <2>1, <2>2, <2>3 DEF ScansPay, Pays
<1>6. ASSUME NEW t \in Task, Post(t) PROVE ScansPay'
  <2>1. UNCHANGED <<utxos, vault, rebuilt>>
    BY <1>6 DEF Post, setup
  <2>2. \A r \in Running' : scan'[r] = scan[r] /\ r \in Running
    BY <1>6, PostScan DEF Running
  <2> QED BY <1>0, <2>1, <2>2 DEF ScansPay, Pays
<1>7. ASSUME NEW c \in Coin, Pay(c) \/ Spend(c) PROVE ScansPay'
  <2>1. Disturb /\ UNCHANGED <<utxos, vault, rebuilt>>
    BY <1>7 DEF Pay, Spend, setup
  <2>2. \A t \in Running' : /\ t \in Running /\ scan'[t].vault = scan[t].vault
                            /\ scan'[t].found = scan[t].found
    BY <2>1, DisturbScan DEF Running
  <2> QED BY <1>0, <2>1, <2>2 DEF ScansPay, Pays
<1>8. CASE ScanSetup
  BY <1>8, <1>s DEF ScanSetup, found
<1>9. CASE Receive
  BY <1>9, <1>s DEF Receive, found
<1>10. CASE Show
  BY <1>10, <1>s DEF Show, setup
<1>11. CASE UNCHANGED vars
  BY <1>11, <1>s DEF vars, setup, found
<1> QED
  BY <1>1, <1>2, <1>3, <1>4, <1>5, <1>6, <1>7, <1>8, <1>9, <1>10, <1>11
  DEF Next, ScanStep

\* The coin picked pays the vault at its index, until the vault is replaced.
THEOREM PickPays == Spec => []AutoPickPaysVault
<1>1. Init => TypeOK /\ ScansPay
  BY InitTypes DEF Init, ScansPay, Running, Pays
<1>2. TypeOK /\ ScansPay /\ [Next]_vars => (TypeOK /\ ScansPay)'
  BY NextTypes, NextScansPay
<1>3. ScansPay => AutoPickPaysVault
  BY DEF ScansPay, AutoPickPaysVault, Largest, Pays
<1> QED
  BY <1>1, <1>2, <1>3, PTL DEF Spec

-------------------------------------------------------------------------------
(***************************************************************************)
(* DisplayFollowsSet.                                                      *)
(***************************************************************************)

\* A hosted refresh that finds nothing running and nothing to show leaves at
\* most itself running.
LEMMA RefreshPosts ==
  ASSUME TypeOK, DevicePosts, HostedPosts, NEW v, v.aggregate \in Aggregate,
         Refresh(v), device' = device
  PROVE  DevicePosts' /\ HostedPosts'
<1>1. CASE ~device /\ Clear
  <2>1. /\ utxos' = {} /\ display' = {} /\ posted' = posted /\ scan' = scan
        /\ overlap' = (Running # {} \/ posted # <<>>)
    BY <1>1 DEF Clear
  <2>2. Running' = Running
    BY <2>1 DEF Running
  <2>3. CoinsOf({}) = {}
    BY DEF CoinsOf
  <2> QED BY <1>1, <2>1, <2>2, <2>3 DEF DevicePosts, HostedPosts
<1>2. ASSUME NEW t \in Task, StartScan(v, t)
      PROVE  DevicePosts' /\ HostedPosts'
  <2>1. /\ utxos' = utxos /\ display' = display /\ posted' = posted
        /\ overlap' = (~device /\ (Running # {} \/ posted # <<>>))
    BY <1>2 DEF StartScan
  <2>2. \A r \in Running' \ {t} : scan'[r] = scan[r] /\ r \in Running
    BY <1>2, NewScan DEF Running
  <2>3. t \in Running' /\ scan'[t].next = 0
    <3>1. /\ scan'[t] # None
          /\ scan'[t] = [vault |-> v.aggregate, next |-> 0, found |-> {},
                         clean |-> TRUE]
      BY <1>2, NewScan
    <3> QED BY <3>1 DEF Running
  <2>4. WatchDepth + 2 # 0
    BY ConstantsOK
  <2>5. DevicePosts'
    BY <2>1, <2>2, <2>3, <2>4 DEF DevicePosts, CoinsOf
  <2>6. HostedPosts'
    <3>1. CASE device \/ Running # {} \/ posted # <<>>
      BY <2>1, <3>1 DEF HostedPosts
    <3>2. CASE Running = {} /\ posted = <<>>
      <4>1. \A r \in Running' : r = t
        BY <2>2, <3>2
      <4> QED BY <2>1, <2>3, <2>4, <3>2, <4>1 DEF HostedPosts
    <3> QED BY <3>1, <3>2
  <2> QED BY <2>5, <2>6
<1> QED BY <1>1, <1>2 DEF Refresh

\* Every step keeps the last balance posted that of the set.
LEMMA NextPosts ==
  TypeOK /\ DevicePosts /\ HostedPosts /\ [Next]_vars
    => DevicePosts' /\ HostedPosts'
<1> SUFFICES ASSUME TypeOK, DevicePosts, HostedPosts, [Next]_vars
             PROVE  DevicePosts' /\ HostedPosts'
  OBVIOUS
<1>s. ASSUME UNCHANGED <<device, scan, utxos, posted, display, overlap>>
      PROVE  DevicePosts' /\ HostedPosts'
  <2>1. Running' = Running
    BY <1>s DEF Running
  <2> QED BY <1>s, <2>1 DEF DevicePosts, HostedPosts
<1>1. CASE BuildVault
  <2>1. Build(collected) # None /\ Refresh(Build(collected))
    BY <1>1 DEF BuildVault
  <2>2. device' = device
    BY <1>1 DEF BuildVault
  <2> QED BY <2>1, <2>2, BuildType, RefreshPosts DEF TypeOK
<1>2. CASE RefreshBalance
  BY <1>2, RefreshPosts, VaultType DEF RefreshBalance
<1>3. CASE Restart
  <2>1. /\ utxos' = {} /\ posted' = <<>> /\ display' = {} /\ ~overlap'
        /\ device' = device
    BY <1>3 DEF Restart
  <2>2. \A t, r \in Running' : t = r
    BY <1>3, RestartScan
  <2>3. \A t \in Running' : scan'[t].next # WatchDepth + 2
    <3>1. ASSUME NEW t \in Running'
          PROVE  scan'[t].next = 0
      <4>1. scan'[t] = [vault |-> vault'.aggregate, next |-> 0,
                        found |-> {}, clean |-> TRUE]
        BY <1>3, RestartScan
      <4> QED BY <4>1
    <3> QED BY <3>1, ConstantsOK
  <2> QED BY <2>1, <2>2, <2>3 DEF DevicePosts, HostedPosts, CoinsOf
<1>4. ASSUME NEW t \in Task, Query(t) PROVE DevicePosts' /\ HostedPosts'
  <2>1. UNCHANGED <<device, utxos, posted, display, overlap>>
    BY <1>4 DEF Query, found
  <2>2. t \in Running /\ scan[t].next \in 0 .. WatchDepth
    BY <1>4, QueryScan DEF Query, Running
  <2>3. t \in Running' /\ scan'[t].next # WatchDepth + 2
    BY <1>4, <2>2, QueryScan, ConstantsOK DEF Running
  <2>4. Running' = Running /\ \A r \in Running : r # t => scan'[r] = scan[r]
    BY <1>4, <2>2, <2>3, QueryScan DEF Running
  <2> QED BY <2>1, <2>2, <2>3, <2>4 DEF DevicePosts, HostedPosts
<1>5. ASSUME NEW t \in Task, Store(t) PROVE DevicePosts' /\ HostedPosts'
  <2>1. /\ UNCHANGED <<device, display, overlap>>
        /\ utxos' = scan[t].found
    BY <1>5 DEF Store
  <2>2. t \in Running
    BY <1>5 DEF Store, Running
  <2>3. \A r \in Running' \ {t} : scan'[r] = scan[r] /\ r \in Running
    BY <1>5, StoreScan DEF Running
  <2>4. CASE device
    <3>1. posted' = Append(posted, CoinsOf(scan[t].found))
      BY <1>5, <2>4 DEF Store
    <3>2. posted \in Seq(SUBSET Coin)
      BY DEF TypeOK
    <3>3. posted' # <<>> /\ posted'[Len(posted')] = CoinsOf(utxos')
      BY <2>1, <3>1, <3>2
    <3>4. Running' \subseteq Running \ {t}
      BY <1>5, <2>3, <2>4, StoreScan DEF Running
    <3>5. DevicePosts'
      <4>1. CoinsOf(utxos)' = CoinsOf(utxos')
        BY DEF CoinsOf
      <4> QED BY <2>1, <2>3, <2>4, <3>3, <3>4, <4>1 DEF DevicePosts
    <3> QED BY <2>1, <2>4, <3>5 DEF HostedPosts
  <2>5. CASE ~device
    <3>1. posted' = posted
      BY <1>5, <2>5 DEF Store
    <3>2. /\ t \in Running' /\ scan'[t].found = scan[t].found
      BY <1>5, <2>5, StoreScan, ConstantsOK DEF Running
    <3>3. Running' = Running
      BY <2>2, <2>3, <3>2, <1>5, StoreScan DEF Running
    <3>4. HostedPosts'
      BY <2>1, <2>2, <2>5, <3>1, <3>2, <3>3 DEF HostedPosts
    <3> QED BY <2>1, <2>5, <3>4 DEF DevicePosts
  <2> QED BY <2>4, <2>5
<1>6. ASSUME NEW t \in Task, Post(t) PROVE DevicePosts' /\ HostedPosts'
  <2>1. /\ UNCHANGED <<device, utxos, display, overlap>>
        /\ posted' = Append(posted, CoinsOf(scan[t].found))
    BY <1>6 DEF Post
  <2>2. t \in Running /\ scan[t].next = WatchDepth + 2
    BY <1>6 DEF Post, Running
  <2>3. ~device
    BY <2>2 DEF DevicePosts
  <2>4. t \notin Running' /\ Running' \subseteq Running
    BY <1>6, PostScan DEF Running
  <2>5. ASSUME ~overlap
        PROVE  /\ Running' = {} /\ Len(posted') = 1 /\ posted' # <<>>
               /\ posted'[1] = CoinsOf(utxos)
    <3>1. posted = <<>> /\ utxos = scan[t].found
      BY <2>2, <2>3, <2>5 DEF HostedPosts
    <3>2. Running' = {}
      BY <2>2, <2>3, <2>4, <2>5 DEF HostedPosts
    <3> QED BY <2>1, <3>1, <3>2
  <2>6. CoinsOf(utxos)' = CoinsOf(utxos)
    BY <2>1 DEF CoinsOf
  <2> QED BY <2>1, <2>3, <2>5, <2>6 DEF DevicePosts, HostedPosts
<1>7. ASSUME NEW c \in Coin, Pay(c) \/ Spend(c)
      PROVE  DevicePosts' /\ HostedPosts'
  <2>1. Disturb /\ UNCHANGED <<device, utxos, posted, display, overlap>>
    BY <1>7 DEF Pay, Spend
  <2>2. /\ Running' = Running
        /\ \A t \in Running : /\ scan'[t].next = scan[t].next
                              /\ scan'[t].found = scan[t].found
    BY <2>1, DisturbScan DEF Running
  <2> QED BY <2>1, <2>2 DEF DevicePosts, HostedPosts
<1>8. CASE ScanSetup
  BY <1>8, <1>s DEF ScanSetup, found
<1>9. CASE Receive
  BY <1>9, <1>s DEF Receive, found
<1>10. CASE Show
  <2>1. /\ posted # <<>> /\ display' = Head(posted) /\ posted' = Tail(posted)
        /\ UNCHANGED <<device, scan, utxos, overlap>>
    BY <1>10 DEF Show
  <2>2. posted \in Seq(SUBSET Coin)
    BY DEF TypeOK
  <2>3. Running' = Running /\ CoinsOf(utxos)' = CoinsOf(utxos)
    BY <2>1 DEF Running, CoinsOf
  <2>4. CASE Len(posted) = 1
    <3>1. posted' = <<>> /\ display' = posted[1]
      BY <2>1, <2>2, <2>4
    <3> QED BY <2>1, <2>3, <2>4, <3>1 DEF DevicePosts, HostedPosts
  <2>5. CASE Len(posted) # 1
    <3>1. /\ posted' # <<>>
          /\ posted'[Len(posted')] = posted[Len(posted)]
      <4>1. Len(posted) \in Nat /\ Len(posted) >= 2
        <5>1. Len(posted) \in Nat \ {0}
          BY <2>1, <2>2, QueueLength
        <5>2. \A n \in Nat \ {0} : n # 1 => n \in Nat /\ n >= 2
          OBVIOUS
        <5> QED BY <2>5, <5>1, <5>2
      <4>2. Len(posted') = Len(posted) - 1
        BY <2>1, <2>2
      <4>3. \A i \in 1 .. Len(posted) - 1 : posted'[i] = posted[i + 1]
        BY <2>1, <2>2
      <4>4. posted'[Len(posted) - 1] = posted[Len(posted)]
        BY <4>1, <4>3
      <4>5. posted' # <<>>
        BY <4>1, <4>2
      <4> QED BY <4>2, <4>4, <4>5
    <3> QED BY <2>1, <2>3, <2>5, <3>1 DEF DevicePosts, HostedPosts
  <2> QED BY <2>4, <2>5
<1>11. CASE UNCHANGED vars
  BY <1>11, <1>s DEF vars, setup, found
<1> QED
  BY <1>1, <1>2, <1>3, <1>4, <1>5, <1>6, <1>7, <1>8, <1>9, <1>10, <1>11
  DEF Next, ScanStep

\* With nothing running or to be shown, the balance is that of the set a send
\* picks from, unless two hosted refreshes overlapped.
THEOREM BalanceShown == Spec => []DisplayFollowsSet
<1>1. Init => TypeOK /\ DevicePosts /\ HostedPosts
  <2>1. Init => /\ posted = <<>> /\ utxos = {} /\ display = {}
                /\ Running = {} /\ ~overlap
    BY DEF Init, Running
  <2>2. Init => DevicePosts /\ HostedPosts
    BY <2>1 DEF DevicePosts, HostedPosts, CoinsOf
  <2> QED BY <2>2, InitTypes
<1>2. TypeOK /\ DevicePosts /\ HostedPosts /\ [Next]_vars
        => (TypeOK /\ DevicePosts /\ HostedPosts)'
  BY NextTypes, NextPosts
<1>3. TypeOK /\ DevicePosts /\ HostedPosts => DisplayFollowsSet
  BY DEF DevicePosts, HostedPosts, DisplayFollowsSet, TypeOK
<1> QED
  BY <1>1, <1>2, <1>3, PTL DEF Spec
=============================================================================
