--------------------------- MODULE VaultDiscovery ---------------------------
(***************************************************************************)
(* One device's vault between its ceremonies: the participant codes it has *)
(* scanned, BUILD VAULT, the addresses it hands out, the scans that look   *)
(* for the vault's coins, and the coin a send picks.                       *)
(*                                                                         *)
(* A scan (refresh_vault_balance) is a task on the device and a thread on  *)
(* a hosted build.  It keeps the vault it was started for, asks the node   *)
(* about one index after the other, then replaces VAULT_UTXOS and posts    *)
(* the new balance to the UI's event loop.  Nothing stops a second scan    *)
(* from starting, or the vault from changing, while one runs.              *)
(*                                                                         *)
(* Outside: the chain, as the node reports it.  A tracker (bwt) reports a  *)
(* coin once it has imported the address; registering an address with it   *)
(* is best effort and changes nothing in the app.                          *)
(*                                                                         *)
(* A save is taken to succeed: what a failing one does is the subject of   *)
(* NodeCredential.  The ceremony that spends a coin is VaultCeremony.      *)
(***************************************************************************)
EXTENDS Naturals, Sequences, FiniteSets, SequencesExt

CONSTANTS
  Code,       \* payment codes of device setup QRs
  KeyOf,      \* [Code -> its public key, None when it does not parse]
  Offered,    \* bound: the order in which the codes are shown to the camera
  Coin,       \* the outputs that may pay the vault
  Script,     \* [Coin -> what the output pays to]
  Value,      \* [Coin -> satoshis]
  WatchDepth, \* VAULT_WATCH_DEPTH
  MaxIndex,   \* bound: the largest index of an address
  MaxReceive, \* bound: the receive addresses handed out
  Task,       \* bound: the scans that may run, or wait to be shown, at a time
  None        \* the absent value of an Option

\* A vault is known to the outside by its aggregate payment code.  It hashes
\* the sorted keys with their chain codes, so it is the set of codes.
Aggregate == SUBSET Code

Address == [vault : Aggregate, index : 0 .. MaxIndex]

\* A coin a scan found: VaultUtxo, with the index it was found at.
Utxo == [coin : Coin, index : 0 .. WatchDepth]

\* A scan: the vault it was started for, the index it asks next, what it has
\* found.  After the last index it stores, and on a hosted build posts in a
\* step of its own.  History: clean, that no query failed and the chain did
\* not change since the scan began.
ScanState == [vault : Aggregate, next : 0 .. WatchDepth + 2,
              found : SUBSET Utxo, clean : BOOLEAN]

VaultConfig == [participants : Seq(Code), aggregate : Aggregate]

ASSUME ConstantsOK ==
  /\ Offered \in Seq(Code)
  /\ Script \in [Coin -> [vault : Aggregate, index : 0 .. MaxIndex,
                          kind : {"p2tr", "p2pkh"}]]
  /\ Value \in [Coin -> Nat]
  /\ WatchDepth \in Nat /\ MaxIndex \in Nat /\ WatchDepth <= MaxIndex
  /\ MaxReceive \in 0 .. MaxIndex + 1
  /\ IsFiniteSet(Task)
  /\ None \notin ScanState /\ None \notin VaultConfig

VARIABLES
  device,    \* built with cfg(keyos); fixed
  collected, \* VAULT_PARTICIPANTS
  vault,     \* VAULT_CONFIG
  stored,    \* vault_participants in config.json
  nextIndex, \* vault_receive_index in config.json
  chain,     \* external: what the node reports of each coin
  scan,      \* scan[t]: a running scan, or None
  utxos,     \* VAULT_UTXOS
  posted,    \* balances in the event loop
  display,   \* the coins the balance on the screen counts
  shown,     \* history: receive addresses displayed
  fresh,     \* history: utxos comes from a clean scan of the current vault
  overlap,   \* history (hosted): a refresh began before the last was shown
  rebuilt    \* history: the vault was replaced by another one since boot

setup == <<collected, vault, stored, nextIndex, shown, rebuilt>>
found == <<utxos, posted, display, fresh, overlap>>
vars == <<device, setup, chain, scan, found>>

TypeOK ==
  /\ device \in BOOLEAN
  /\ collected \in Seq(Code) /\ stored \in Seq(Code)
  /\ vault \in VaultConfig \cup {None}
  /\ nextIndex \in Nat
  /\ chain \in [Coin -> {"unpaid", "unspent", "spent"}]
  /\ shown \subseteq Address
  /\ scan \in [Task -> ScanState \cup {None}]
  /\ utxos \subseteq Utxo
  /\ posted \in Seq(SUBSET Coin) /\ display \subseteq Coin
  /\ fresh \in BOOLEAN /\ overlap \in BOOLEAN /\ rebuilt \in BOOLEAN

CoinsOf(us) == {u.coin : u \in us}

Running == {t \in Task : scan[t] # None}

Init ==
  /\ device \in BOOLEAN
  /\ collected = <<>> /\ vault = None /\ stored = <<>> /\ nextIndex = 0
  /\ chain = [c \in Coin |-> "unpaid"]
  /\ scan = [t \in Task |-> None]
  /\ utxos = {} /\ posted = <<>> /\ display = {}
  /\ shown = {} /\ fresh = FALSE /\ overlap = FALSE /\ rebuilt = FALSE

(***************************************************************************)
(* The vault.                                                              *)
(***************************************************************************)
\* What the loop of VaultConfig::build has kept so far: the list of codes, the
\* keys seen, and, as the set of them, the keys and chain codes to aggregate.
NothingKept == [clean |-> <<>>, seen |-> {}, codes |-> {}]

\* One code: skipped when its key was seen.
Keep(kept, code) ==
  IF KeyOf[code] \in kept.seen THEN kept
  ELSE [clean |-> Append(kept.clean, code),
        seen  |-> kept.seen \cup {KeyOf[code]},
        codes |-> kept.codes \cup {code}]

KeptOf(parts) == FoldLeft(Keep, NothingKept, parts)

\* Mutant: the list keeps the devices scanned twice.
BuildRaw(parts) ==
  LET kept == KeptOf(parts)
  IN  IF (\E i \in DOMAIN parts : KeyOf[parts[i]] = None)
           \/ Len(kept.clean) < 2
      THEN None
      ELSE [participants |-> parts, aggregate |-> kept.codes]

\* VaultConfig::build: one code that does not parse fails it.
Build(parts) ==
  LET kept == KeptOf(parts)
  IN  IF (\E i \in DOMAIN parts : KeyOf[parts[i]] = None)
           \/ Len(kept.clean) < 2
      THEN None
      ELSE [participants |-> kept.clean, aggregate |-> kept.codes]

\* on_vault_scan_setup: a code already collected is not added again.
ScanSetup ==
  \E i \in DOMAIN Offered :
    /\ \A j \in i .. Len(Offered) : Offered[j] \notin Range(collected)
    /\ \A j \in DOMAIN Offered : j = i - 1 => Offered[j] \in Range(collected)
    /\ collected' = Append(collected, Offered[i])
    /\ UNCHANGED <<device, vault, stored, nextIndex, shown, rebuilt,
                   chain, scan, found>>

\* Mutant: the balance on the screen stays.
ClearSetOnly ==
  /\ utxos' = {} /\ fresh' = FALSE
  /\ overlap' = (~device /\ (Running # {} \/ posted # <<>>))
  /\ UNCHANGED <<display, posted, scan>>

\* clear_vault_utxos
Clear ==
  /\ utxos' = {} /\ display' = {} /\ fresh' = FALSE
  /\ overlap' = (~device /\ (Running # {} \/ posted # <<>>))
  /\ UNCHANGED <<posted, scan>>

\* Mutant: scans for the codes collected, not for the vault built.
StartScanCollected(v, t) ==
  /\ scan[t] = None
  /\ Cardinality(Running) + Len(posted) < Cardinality(Task)
  /\ scan' = [scan EXCEPT ![t] = [vault |-> KeptOf(collected).codes, next |-> 0,
                                  found |-> {}, clean |-> TRUE]]
  /\ overlap' = (~device /\ (Running # {} \/ posted # <<>>))
  /\ UNCHANGED <<utxos, posted, display>>

StartScan(v, t) ==
  /\ scan[t] = None
  /\ Cardinality(Running) + Len(posted) < Cardinality(Task)
  /\ scan' = [scan EXCEPT ![t] = [vault |-> v.aggregate, next |-> 0,
                                  found |-> {}, clean |-> TRUE]]
  /\ overlap' = (~device /\ (Running # {} \/ posted # <<>>))
  /\ UNCHANGED <<utxos, posted, display>>

\* refresh_vault_balance for the vault v.  On a hosted build the settings last
\* saved may ask for TLS, which the client cannot do.  A host is always set:
\* load_app_config fills in the default one.
Refresh(v) ==
  \/ ~device /\ Clear
  \/ /\ fresh' = (fresh /\ vault = v)
     /\ \E t \in Task : StartScan(v, t)

\* The refresh buttons; on the device also an account update.
RefreshBalance ==
  /\ vault # None
  /\ Refresh(vault)
  /\ UNCHANGED <<device, setup, chain>>

\* on_vault_build, apply_vault_build: saved, then in use, then refreshed.
BuildVault ==
  LET v == Build(collected)
  IN  /\ v # None
      /\ stored' = v.participants
      /\ vault' = v
      /\ rebuilt' = (rebuilt \/ (vault # None /\ vault # v))
      /\ Refresh(v)
      /\ UNCHANGED <<device, collected, nextIndex, shown, chain>>

\* The app is started again: what was in memory is gone; a stored vault is
\* rebuilt and refreshed.
Restart ==
  LET v == Build(stored)
      t0 == [t \in Task |-> None]
      start(t) == [t0 EXCEPT ![t] = [vault |-> v.aggregate, next |-> 0,
                                     found |-> {}, clean |-> TRUE]]
  IN  /\ collected' = IF v = None THEN <<>> ELSE stored
      /\ vault' = v
      /\ \/ v = None /\ scan' = t0
         \/ v # None /\ ~device /\ scan' = t0
         \/ v # None /\ \E t \in Task : scan' = start(t)
      /\ utxos' = {} /\ posted' = <<>> /\ display' = {}
      /\ fresh' = FALSE /\ overlap' = FALSE /\ rebuilt' = FALSE
      /\ UNCHANGED <<device, stored, nextIndex, shown, chain>>

(***************************************************************************)
(* A scan.                                                                 *)
(***************************************************************************)
AddressOf(v, i) == [vault |-> v, index |-> i]

\* What the node reports for the P2TR script of a vault at an index.
ListUnspent(v, i) ==
  {c \in Coin : /\ chain[c] = "unspent"
                /\ Script[c] = [vault |-> v, index |-> i, kind |-> "p2tr"]}

\* Mutant: a failed query starts the scan again.
QueryRestarts(t) ==
  LET s == scan[t]  i == scan[t].next
  IN  /\ s # None /\ i <= WatchDepth
      /\ \/ scan' = [scan EXCEPT ![t].next = i + 1,
                        ![t].found = @ \cup {[coin |-> c, index |-> i] :
                                             c \in ListUnspent(s.vault, i)}]
         \/ scan' = [scan EXCEPT ![t].next = 0, ![t].found = {}]
      /\ UNCHANGED <<device, setup, chain, found>>

\* The index is registered (hosted), then asked for.  A query that fails is
\* passed over.
Query(t) ==
  LET s == scan[t]  i == scan[t].next
  IN  /\ s # None /\ i <= WatchDepth
      /\ \/ scan' = [scan EXCEPT ![t].next = i + 1,
                        ![t].found = @ \cup {[coin |-> c, index |-> i] :
                                             c \in ListUnspent(s.vault, i)}]
         \/ scan' = [scan EXCEPT ![t].next = i + 1, ![t].clean = FALSE]
      /\ UNCHANGED <<device, setup, chain, found>>

\* Mutant: what was found is added to the set.
StoreAdded(t) ==
  LET s == scan[t]
  IN  /\ s # None /\ s.next = WatchDepth + 1
      /\ utxos' = utxos \cup s.found
      /\ fresh' = (s.clean /\ vault # None /\ s.vault = vault.aggregate)
      /\ IF device
         THEN /\ posted' = Append(posted, CoinsOf(s.found))
              /\ scan' = [scan EXCEPT ![t] = None]
         ELSE /\ scan' = [scan EXCEPT ![t].next = WatchDepth + 2]
              /\ UNCHANGED posted
      /\ UNCHANGED <<device, setup, chain, display, overlap>>

\* The set is replaced, whatever vault is in use now.  On the device no other
\* task runs before the balance is posted; on a hosted build anything may.
Store(t) ==
  LET s == scan[t]
  IN  /\ s # None /\ s.next = WatchDepth + 1
      /\ utxos' = s.found
      /\ fresh' = (s.clean /\ vault # None /\ s.vault = vault.aggregate)
      /\ IF device
         THEN /\ posted' = Append(posted, CoinsOf(s.found))
              /\ scan' = [scan EXCEPT ![t] = None]
         ELSE /\ scan' = [scan EXCEPT ![t].next = WatchDepth + 2]
              /\ UNCHANGED posted
      /\ UNCHANGED <<device, setup, chain, display, overlap>>

\* Mutant: the scan goes on after its last step.
PostGoesOn(t) ==
  /\ scan[t] # None /\ scan[t].next = WatchDepth + 2
  /\ posted' = Append(posted, CoinsOf(scan[t].found))
  /\ scan' = [scan EXCEPT ![t].next = @ + 1]
  /\ UNCHANGED <<device, setup, chain, utxos, display, fresh, overlap>>

Post(t) ==
  /\ scan[t] # None /\ scan[t].next = WatchDepth + 2
  /\ posted' = Append(posted, CoinsOf(scan[t].found))
  /\ scan' = [scan EXCEPT ![t] = None]
  /\ UNCHANGED <<device, setup, chain, utxos, display, fresh, overlap>>

\* The event loop shows a posted balance.
Show ==
  /\ posted # <<>>
  /\ display' = Head(posted)
  /\ posted' = Tail(posted)
  /\ UNCHANGED <<device, setup, chain, scan, utxos, fresh, overlap>>

(***************************************************************************)
(* Receiving and sending.                                                  *)
(***************************************************************************)
\* on_vault_receive_new: the index is saved, its P2TR address registered, and
\* the address displayed is receive_address: the P2PKH one.
Receive ==
  /\ vault # None /\ nextIndex < MaxReceive
  /\ nextIndex' = nextIndex + 1
  /\ shown' = shown \cup {AddressOf(vault.aggregate, nextIndex)}
  /\ UNCHANGED <<device, collected, vault, stored, rebuilt, chain, scan,
                 found>>

\* The chain changed under every running scan and the set in use.
Disturb ==
  /\ scan' = [t \in Task |-> IF scan[t] = None THEN None
                             ELSE [scan[t] EXCEPT !.clean = FALSE]]
  /\ fresh' = FALSE

\* A payer: to a displayed address, or to a P2TR address derived from the
\* aggregate code.  The tracker sees it when the address is registered.
Pay(c) ==
  LET to == AddressOf(Script[c].vault, Script[c].index)
  IN  /\ chain[c] = "unpaid"
      /\ Script[c].kind = "p2pkh" => to \in shown
      /\ chain' = [chain EXCEPT ![c] = "unspent"]
      /\ Disturb
      /\ UNCHANGED <<device, setup, utxos, posted, display,
                     overlap>>

\* pick_largest_vault_utxo, when something was found: the coins the next send
\* may spend.  When nothing was, it takes the coin typed in.
Largest == {u \in utxos : \A w \in utxos : Value[w.coin] <= Value[u.coin]}

\* A spend of the vault, this device's or another's, reaches the chain.
\* VAULT_UTXOS keeps the coin.
Spend(c) ==
  /\ chain[c] = "unspent" /\ Script[c].kind = "p2tr"
  /\ chain' = [chain EXCEPT ![c] = "spent"]
  /\ Disturb
  /\ UNCHANGED <<device, setup, utxos, posted, display, overlap>>

ScanStep(t) == Query(t) \/ Store(t) \/ Post(t)

Next ==
  \/ ScanSetup \/ BuildVault \/ Restart
  \/ RefreshBalance \/ Receive \/ Show
  \/ \E t \in Task : ScanStep(t)
  \/ \E c \in Coin : Pay(c) \/ Spend(c)

\* Every query ends, with an answer or at its timeout, the executor runs its
\* tasks, and the event loop what is posted to it.
Fairness ==
  /\ \A t \in Task : WF_vars(ScanStep(t))
  /\ WF_vars(Show)

Spec == Init /\ [][Next]_vars

FairSpec == Spec /\ Fairness

-------------------------------------------------------------------------------
\* vault.rs:120-125: the participant list signing sessions take their keys
\* from is the key set the aggregate was made of, one code per key, however
\* often a device was scanned; and the list in config.json rebuilds the vault.
KeysMatchIdentity ==
  LET p == vault.participants
  IN  vault # None =>
        /\ {p[i] : i \in DOMAIN p} = vault.aggregate
        /\ \A i, j \in DOMAIN p : KeyOf[p[i]] = KeyOf[p[j]] => i = j
        /\ Build(stored) = vault

\* A set that comes from a scan no query of which failed and during which the
\* chain stood still has exactly the coins of the vault in use that the node
\* reports at the watched indices, each at its index, until the chain changes.
FreshSetIsExact ==
  fresh => utxos = {[coin |-> c, index |-> Script[c].index] :
              c \in {d \in Coin : /\ chain[d] = "unspent"
                                  /\ Script[d].kind = "p2tr"
                                  /\ Script[d].vault = vault.aggregate
                                  /\ Script[d].index <= WatchDepth}}

\* VaultTx::build (vault.rs:793): the coin picked pays exactly the vault's
\* output key at the index, as long as the vault is the one it was at boot,
\* or the first one built: a late scan and a kept set are of that vault.
AutoPickPaysVault ==
  (vault # None /\ ~rebuilt) =>
    \A u \in Largest : Script[u.coin] =
      [vault |-> vault.aggregate, index |-> u.index, kind |-> "p2tr"]

\* The balance on the screen counts the coins a send picks from, once nothing
\* is running and no refresh began before the one before it was shown.
DisplayFollowsSet ==
  (Running = {} /\ posted = <<>> /\ ~overlap) =>
    display = CoinsOf(utxos)

\* Unless the app is restarted again and again, every scan ends, whatever the
\* node answers, the vault becomes and the other scans do.
ScansEnd ==
  \/ []<><<Restart>>_vars
  \/ \A t \in Task : []<>(scan[t] = None)

\* README.md:200 and main.rs:2580: the address VAULT RECEIVE displays at a
\* watched index is one the balance finds.  It is not: the scan asks for the
\* P2TR script of the index, and the address displayed is its P2PKH one.
ShownAddressIsWatched ==
  (fresh /\ device) =>
    \A c \in Coin :
      (/\ chain[c] = "unspent" /\ Script[c].vault = vault.aggregate
       /\ AddressOf(Script[c].vault, Script[c].index) \in shown
       /\ Script[c].index <= WatchDepth)
      => c \in CoinsOf(utxos)
=============================================================================
