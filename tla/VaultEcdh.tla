------------------------------ MODULE VaultEcdh ------------------------------
(***************************************************************************)
(* R0: the threshold ECDH before a vault's send to a payment code.  Each   *)
(* device that starts a send to the recipient shows the point of its share *)
(* as a QR; a device that scanned one from every participant sums them and *)
(* derives the address to pay.                                             *)
(*                                                                         *)
(* A share is a point: the device's key and coefficient in its vault times *)
(* the recipient's child key at the index the device's own config.json     *)
(* has.  The QR shows the device's key and the point, nothing of the       *)
(* vault, the recipient or the index.  The sum is S = a.B, and the address *)
(* one the recipient can spend, exactly when the shares are one of each    *)
(* participant over the address's own child key: sums of other points are  *)
(* taken to be no recipient's secret, as for points without known          *)
(* relations.                                                              *)
(*                                                                         *)
(* The counters are shared with the single-sig wallet: send_bip47 loads    *)
(* the whole config.json when it starts and saves that copy, with its own  *)
(* recipient's index taken, after its broadcasts; a hosted builder's       *)
(* worker thread loads and saves it to take a change index.  Either save   *)
(* restores what it loaded of every recipient.                             *)
(***************************************************************************)
EXTENDS Naturals, FiniteSets

CONSTANTS
  Device,
  VaultSet,      \* participant sets of the vaults devices may build
  Code,          \* recipients: payment codes
  Send,          \* single-sig sends and workers that may be under way
  MaxIndex,      \* bound: the value a counter may reach
  MaxQr,         \* bound: the different shares shown
  None

ASSUME ConstantsOK ==
  /\ IsFiniteSet(Device)
  /\ \A v \in VaultSet : v \subseteq Device /\ Cardinality(v) >= 2
  /\ MaxIndex \in Nat /\ MaxQr \in Nat
  /\ None \notin VaultSet \cup Code

Share == [by : Device, vault : VaultSet, to : Code, index : Nat]

VARIABLES
  vault,   \* vault[d]: VAULT_CONFIG
  index,   \* index[d][c]: bip47_indices of d's config.json
  pending, \* pending[d]: the recipient of VAULT_PENDING_SEND
  shares,  \* shares[d]: VAULT_ECDH_SHARES
  qrs,     \* the ECDH QRs shown so far, which can be scanned at any time
  tx,      \* tx[d]: the payment VAULT_TX makes
  held,    \* held[s]: the config.json a send or a worker loaded, if under way
  early,   \* history: those under way since before their device's payment
  putBack  \* history: putBack[d]: one of them has saved since

r0Vars == <<vault, pending, shares, qrs, tx>>
historyVars == <<early, putBack>>
vars == <<r0Vars, index, held, historyVars>>

SharedCounter == Send # {}

\* The payment's vault, its address's recipient and index, and the shares its
\* secret was summed from.
Payment == [vault : VaultSet, to : Code, index : Nat, shares : SUBSET Share]

\* A send's recipient, None for a worker, and the counters it loaded.
Held == [on : Device, to : Code \cup {None}, copy : [Code -> Nat]]

TypeOK ==
  /\ vault \in [Device -> VaultSet \cup {None}]
  /\ index \in [Device -> [Code -> Nat]]
  /\ pending \in [Device -> Code \cup {None}]
  /\ shares \in [Device -> SUBSET Share]
  /\ qrs \subseteq Share
  /\ tx \in [Device -> Payment \cup {None}]
  /\ held \in [Send -> Held \cup {None}]
  /\ early \subseteq Send
  /\ putBack \in [Device -> BOOLEAN]

Init ==
  /\ vault = [d \in Device |-> None]
  /\ index = [d \in Device |-> [c \in Code |-> 0]]
  /\ pending = [d \in Device |-> None]
  /\ shares = [d \in Device |-> {}]
  /\ qrs = {}
  /\ tx = [d \in Device |-> None]
  /\ held = [s \in Send |-> None]
  /\ early = {}
  /\ putBack = [d \in Device |-> FALSE]

BuildVault(d, v) ==
  /\ vault' = [vault EXCEPT ![d] = v]
  /\ UNCHANGED <<pending, shares, qrs, tx, index, held, historyVars>>

ShareOf(d, c) == [by |-> d, vault |-> vault[d], to |-> c, index |-> index[d][c]]

\* Mutant: the shares of an earlier send are kept.
StartSendKeeps(d, c) ==
  /\ vault[d] # None /\ d \in vault[d]
  /\ pending' = [pending EXCEPT ![d] = c]
  /\ shares' = [shares EXCEPT ![d] =
                  IF \E s \in @ : s.by = d THEN @ ELSE @ \cup {ShareOf(d, c)}]
  /\ qrs' = qrs \cup {ShareOf(d, c)}
  /\ UNCHANGED <<vault, tx, index, held, historyVars>>

\* Mutant: does not ask for the vault.
StartSendUnbuilt(d, c) ==
  /\ pending' = [pending EXCEPT ![d] = c]
  /\ shares' = [shares EXCEPT ![d] = {ShareOf(d, c)}]
  /\ qrs' = qrs \cup {ShareOf(d, c)}
  /\ UNCHANGED <<vault, tx, index, held, historyVars>>

\* on_vault_send to a payment code: a new R0, with this device's share only.
StartSend(d, c) ==
  /\ vault[d] # None /\ d \in vault[d]
  /\ pending' = [pending EXCEPT ![d] = c]
  /\ shares' = [shares EXCEPT ![d] = {ShareOf(d, c)}]
  /\ qrs' = qrs \cup {ShareOf(d, c)}
  /\ Cardinality(qrs') <= MaxQr
  /\ UNCHANGED <<vault, tx, index, held, historyVars>>

\* Mutant: a device's second share is kept beside its first.
ScanShareTwice(d, s) ==
  /\ shares' = [shares EXCEPT ![d] = @ \cup {s}]
  /\ UNCHANGED <<vault, pending, qrs, tx, index, held, historyVars>>

\* on_vault_scan_ecdh: the first share of each device's key counts.
ScanShare(d, s) ==
  /\ \A r \in shares[d] : r.by # s.by
  /\ shares' = [shares EXCEPT ![d] = @ \cup {s}]
  /\ UNCHANGED <<vault, pending, qrs, tx, index, held, historyVars>>

Enough(d) == Cardinality(shares[d]) >= Cardinality(vault[d])

PaymentOf(d) == [vault |-> vault[d], to |-> pending[d],
                 index |-> index[d][pending[d]], shares |-> shares[d]]

\* Finish without enough shares: the send is dropped all the same.
FinishShort(d) ==
  /\ vault[d] # None /\ pending[d] # None
  /\ ~Enough(d)
  /\ pending' = [pending EXCEPT ![d] = None]
  /\ shares' = [shares EXCEPT ![d] = {}]
  /\ UNCHANGED <<vault, qrs, tx, index, held, historyVars>>

UnderWay(d) == {s \in Send : held[s] # None /\ held[s].on = d}

\* on_vault_ecdh_finish: the index is read anew and saved as taken; the
\* transaction is built if a coin of the vault covers it.
Finish(d, funded) ==
  /\ vault[d] # None /\ pending[d] # None
  /\ Enough(d)
  /\ index[d][pending[d]] < MaxIndex
  /\ pending' = [pending EXCEPT ![d] = None]
  /\ shares' = [shares EXCEPT ![d] = {}]
  /\ index' = [index EXCEPT ![d][pending[d]] = @ + 1]
  /\ IF funded
     THEN /\ tx' = [tx EXCEPT ![d] = PaymentOf(d)]
          /\ early' = early \cup UnderWay(d)
          /\ putBack' = [putBack EXCEPT ![d] = FALSE]
     ELSE UNCHANGED <<tx, historyVars>>
  /\ UNCHANGED <<vault, qrs, held>>

\* Mutant: works from the configuration read at boot.
SingleSigLoadBoot(d, s, c) ==
  /\ held[s] = None
  /\ held' = [held EXCEPT ![s] = [on |-> d, to |-> c, copy |-> [b \in Code |-> 0]]]
  /\ UNCHANGED <<r0Vars, index, historyVars>>

\* send_bip47 to recipient c starts, or a worker (None): config.json is loaded.
SingleSigLoad(d, s, c) ==
  /\ held[s] = None
  /\ c # None => index[d][c] < MaxIndex
  /\ held' = [held EXCEPT ![s] = [on |-> d, to |-> c, copy |-> index[d]]]
  /\ UNCHANGED <<r0Vars, index, historyVars>>

\* What is saved: the copy, with the recipient's index taken.
TakenIn(h) ==
  [c \in Code |-> IF c = h.to THEN h.copy[c] + 1 ELSE h.copy[c]]

\* The payment was sent, or the worker has its change index: the copy is saved.
SingleSigSave(s) ==
  /\ held[s] # None
  /\ index' = [index EXCEPT ![held[s].on] = TakenIn(held[s])]
  /\ held' = [held EXCEPT ![s] = None]
  /\ early' = early \ {s}
  /\ putBack' = [putBack EXCEPT ![held[s].on] = @ \/ s \in early]
  /\ UNCHANGED r0Vars

\* The notification or the payment was not sent: nothing is saved.
SingleSigFails(s) ==
  /\ held[s] # None /\ held[s].to # None
  /\ held' = [held EXCEPT ![s] = None]
  /\ early' = early \ {s}
  /\ UNCHANGED <<r0Vars, index, putBack>>

\* A restart: config.json and the vault in it stay.
Reboot(d) ==
  /\ pending' = [pending EXCEPT ![d] = None]
  /\ shares' = [shares EXCEPT ![d] = {}]
  /\ tx' = [tx EXCEPT ![d] = None]
  /\ held' = [s \in Send |-> IF s \in UnderWay(d) THEN None ELSE held[s]]
  /\ early' = early \ UnderWay(d)
  /\ putBack' = [putBack EXCEPT ![d] = FALSE]
  /\ UNCHANGED <<vault, index, qrs>>

Next ==
  \/ \E d \in Device :
       \/ \E v \in VaultSet : BuildVault(d, v)
       \/ \E c \in Code : StartSend(d, c)
       \/ \E s \in qrs : ScanShare(d, s)
       \/ FinishShort(d)
       \/ \E funded \in BOOLEAN : Finish(d, funded)
       \/ \E s \in Send, c \in Code \cup {None} : SingleSigLoad(d, s, c)
       \/ Reboot(d)
  \/ \E s \in Send : SingleSigSave(s) \/ SingleSigFails(s)

Spec == Init /\ [][Next]_vars

-------------------------------------------------------------------------------
(***************************************************************************)
(* Properties.                                                             *)
(***************************************************************************)

Paying == {d \in Device : tx[d] # None}

\* The address of a payment is one the recipient can derive: its shares are
\* one of each participant over the address's child key.  main.rs:2689: "The
\* vault pays a UNIQUE per-recipient address derived via threshold-ECDH (R0):
\* each device exports a share QR over the recipient's child pubkey; combined
\* they recover S = a.B".  (a is here the vault's account key: a recipient that
\* takes it rather than the notification key.  README, section 5.)
RecipientCanSpend ==
  \A d \in Paying :
    tx[d].shares =
      {[by |-> e, vault |-> tx[d].vault, to |-> tx[d].to, index |-> tx[d].index]
         : e \in tx[d].vault}

\* The shares of a payment come from different devices, as many as the vault
\* has participants: no device stands in for another.
SharesOfDifferentDevices ==
  \A d \in Paying :
    /\ \A r, s \in tx[d].shares : r.by = s.by => r = s
    /\ Cardinality(tx[d].shares) >= Cardinality(tx[d].vault)

\* A participant is left out of a payment only for a device that is none: the
\* scan asks for no membership (main.rs:3165), so shares of other vaults'
\* devices may count, but those missing are never more than those standing in.
LeftOutOnlyForOutsiders ==
  \A d \in Paying :
    LET by == {s.by : s \in tx[d].shares}
    IN  Cardinality(tx[d].vault \ by) <= Cardinality(by \ tx[d].vault)

\* The index a payment has taken stays taken (main.rs:310, "Next unused BIP47
\* payment index"), unless a send or a worker that was under way when R0 ended
\* saves what it had loaded: then it is the next one again.  One that starts
\* later cannot undo it, however it overlaps with others.
OnlyEarlyPutsBack ==
  \A d \in Paying : ~putBack[d] => tx[d].index < index[d][tx[d].to]

\* The device that builds the payment has put in its own share for this very
\* recipient, not one left over from another send; and for this very index,
\* unless single-sig sends move the counter meanwhile (main.rs:3240 reads it
\* anew, and the share already shown is then of no use).
OwnShareIsForThisSend ==
  \A d \in Paying :
    \E s \in tx[d].shares :
      s.by = d /\ s.to = tx[d].to /\ (SharedCounter \/ s.index = tx[d].index)
==============================================================================
