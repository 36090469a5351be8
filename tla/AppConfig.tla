------------------------------ MODULE AppConfig ------------------------------
(***************************************************************************)
(* config.json and everything that writes it.  Every writer loads the      *)
(* whole file, changes its own fields and saves the whole file; nothing    *)
(* locks the file.  Three kinds of writer interleave:                      *)
(*                                                                         *)
(*   - the handlers of the UI thread: one at a time, from load to save;    *)
(*   - the tasks of send_bip47 and create_and_broadcast_psbt, which wait   *)
(*     for workers and broadcasts; send_bip47 saves, after the broadcast   *)
(*     of the payment, the configuration it loaded when it started;        *)
(*   - the worker threads of run_blocking, which on a hosted build load    *)
(*     and save while the UI thread runs, to take a change address.        *)
(*                                                                         *)
(* A payment is the recipient and the BIP47 index of its address.  What a  *)
(* builder or a broadcast returns is free: coins, the node and the         *)
(* companion are outside.  That a derived scalar is invalid, and the index *)
(* skipped, has probability 2^-128 and is left out.                        *)
(***************************************************************************)
EXTENDS Integers

CONSTANTS
  Code,        \* recipients: payment codes
  VaultSet,    \* participant lists a vault is built from
  Send,        \* the sends that may be in flight
  FreshFile,   \* whether config.json is missing at the first start
  WatchDepth,  \* SINGLESIG_WATCH_DEPTH
  MaxIndex,    \* bound: the value a counter may reach
  MaxNotify,   \* bound: vault notifications spawned and not yet run
  None         \* the absent value of an Option field

ASSUME ConstantsOK ==
  /\ FreshFile \in BOOLEAN
  /\ WatchDepth \in Nat
  /\ MaxIndex \in Nat \ {0}
  /\ MaxNotify \in Nat
  /\ None \notin VaultSet \cup Code
  /\ VaultSet \cap Code = {}
  /\ {"receive", "vaultReceive", "settings"} \cap (VaultSet \cup Code) = {}

\* The fields the properties are about; the others (node, relay, pool,
\* verification history) are saved along with them.
Config == [receive : Nat, change : 0 .. WatchDepth, vaultReceive : Nat,
           bip47 : [Code -> Nat], vault : VaultSet \cup {None}]

DefaultConfig ==
  [receive |-> 0, change |-> 0, vaultReceive |-> 0,
   bip47 |-> [c \in Code |-> 0], vault |-> None]

\* A file from before the vault: serde fills in the field's default.
LegacyConfig == [DefaultConfig EXCEPT !.vaultReceive = 1]

\* What the writers change in the configuration they loaded.  The change index
\* stays among the addresses the wallet watches.
TakeReceive(cfg) == [cfg EXCEPT !.receive = @ + 1]
TakeVaultReceive(cfg) == [cfg EXCEPT !.vaultReceive = @ + 1]
TakeIndex(cfg, c) == [cfg EXCEPT !.bip47[c] = @ + 1]
SetVault(cfg, v) == [cfg EXCEPT !.vault = v]

\* Mutant: the change index runs past the watched addresses.
TakeChangeUnwrapped(cfg) == [cfg EXCEPT !.change = @ + 1]

TakeChange(cfg) == [cfg EXCEPT !.change = (@ + 1) % (WatchDepth + 1)]

Payment == [to : Code, index : Nat]

\* A send: where it is, its recipient (None for a plain address), the
\* configuration it loaded, what its worker loaded, and whether the network
\* has its payment.
SendState ==
  [pc : {"idle", "notify", "notifyBroadcast", "pay", "payBroadcast"},
   to : Code \cup {None}, cfg : Config, work : Config \cup {None},
   delivered : BOOLEAN]

Idle == [pc |-> "idle", to |-> None, cfg |-> DefaultConfig, work |-> None,
         delivered |-> FALSE]

\* What a handler of the UI thread is about: a counter, the settings, a vault
\* to build, or the recipient of a vault send.
Op == {"receive", "vaultReceive", "settings"} \cup VaultSet \cup Code

VARIABLES
  hosted,     \* built without cfg(keyos), so that builders take change
              \* addresses; fixed
  vaultSends, \* whether the vault sends to payment codes; fixed
  file,       \* config.json
  ui,         \* the running handler and what it loaded, None between handlers
  send,       \* send[s]: a send in flight, or Idle
  notify,     \* vault notifications spawned and not yet run
  vault,      \* VAULT_CONFIG
  vaultPay,   \* the BIP47 payment VAULT_TX makes, None for none
  shown,      \* history: vault receive indices displayed
  changeUsed, \* history: change indices given to a built transaction
  paid,       \* history: the payments the network has
  quiet       \* history: config.json when no handler and no send last ran

vars == <<hosted, vaultSends, file, ui, send, notify, vault, vaultPay, shown, changeUsed, paid, quiet>>

TypeOK ==
  /\ hosted \in BOOLEAN /\ vaultSends \in BOOLEAN
  /\ file \in Config /\ quiet \in Config
  /\ ui \in [op : Op, cfg : Config] \cup {None}
  /\ send \in [Send -> SendState]
  /\ notify \in Nat
  /\ vault \in VaultSet \cup {None}
  /\ vaultPay \in Payment \cup {None}
  /\ shown \subseteq Nat
  /\ changeUsed \subseteq 0 .. WatchDepth
  /\ paid \subseteq Payment

Quiet == ui = None /\ \A s \in Send : send[s] = Idle

Init ==
  /\ hosted \in BOOLEAN /\ vaultSends \in BOOLEAN
  /\ file = IF FreshFile THEN DefaultConfig ELSE LegacyConfig
  /\ quiet = file
  /\ ui = None
  /\ send = [s \in Send |-> Idle]
  /\ notify = 0
  /\ vault = None /\ vaultPay = None
  /\ shown = {} /\ changeUsed = {} /\ paid = {}

\* Every step records the file when it leaves nothing running.
Settle ==
  /\ quiet' = IF Quiet' THEN file' ELSE quiet
  /\ UNCHANGED <<hosted, vaultSends>>

(***************************************************************************)
(* The handlers of the UI thread.  While one runs no other handler and no  *)
(* task does; the worker threads go on between its load and its save.      *)
(***************************************************************************)
UiLoad(op) ==
  /\ ui = None
  /\ ui' = [op |-> op, cfg |-> file]
  /\ UNCHANGED <<file, send, notify, vault, vaultPay, shown, changeUsed, paid>>
  /\ Settle

\* on_receive_new_address
ReceiveLoad == file.receive < MaxIndex /\ UiLoad("receive")

ReceiveSave ==
  /\ ui # None /\ ui.op = "receive"
  /\ file' = TakeReceive(ui.cfg)
  /\ ui' = None
  /\ UNCHANGED <<send, notify, vault, vaultPay, shown, changeUsed, paid>>
  /\ Settle

\* on_vault_receive_new: bumped and saved before the address is displayed.
VaultReceiveLoad ==
  file.vault # None /\ file.vaultReceive < MaxIndex /\ UiLoad("vaultReceive")

VaultReceiveSave ==
  /\ ui # None /\ ui.op = "vaultReceive"
  /\ file' = TakeVaultReceive(ui.cfg)
  /\ shown' = shown \cup {ui.cfg.vaultReceive}
  /\ ui' = None
  /\ UNCHANGED <<send, notify, vault, vaultPay, changeUsed, paid>>
  /\ Settle

\* apply_vault_build
BuildLoad == \E v \in VaultSet : UiLoad(v)

BuildSave ==
  /\ ui # None /\ ui.op \in VaultSet
  /\ file' = SetVault(ui.cfg, ui.op)
  /\ vault' = ui.op
  /\ ui' = None
  /\ UNCHANGED <<send, notify, vaultPay, shown, changeUsed, paid>>
  /\ Settle

\* on_connect_node, on_select_pool, on_verify_message and probe_relay_ui.
SettingsLoad == UiLoad("settings")

SettingsSave ==
  /\ ui # None /\ ui.op = "settings"
  /\ file' = ui.cfg
  /\ ui' = None
  /\ UNCHANGED <<send, notify, vault, vaultPay, shown, changeUsed, paid>>
  /\ Settle

(***************************************************************************)
(* The vault's BIP47 send: the end of R0 takes the index and spawns the    *)
(* notification, and only then picks a coin and builds the transaction.    *)
(***************************************************************************)
VaultFinishLoad ==
  /\ vaultSends
  /\ vault # None /\ notify < MaxNotify
  /\ \E c \in Code : file.bip47[c] < MaxIndex /\ UiLoad(c)

VaultFinishSave(built) ==
  /\ ui # None /\ ui.op \in Code
  /\ file' = TakeIndex(ui.cfg, ui.op)
  /\ vaultPay' = IF built THEN [to |-> ui.op, index |-> ui.cfg.bip47[ui.op]]
                 ELSE vaultPay
  /\ notify' = notify + 1
  /\ ui' = None
  /\ UNCHANGED <<send, vault, shown, changeUsed, paid>>
  /\ Settle

\* The spawned notification: on a hosted build it takes a change address.
VaultNotify ==
  /\ ui = None /\ notify > 0
  /\ notify' = notify - 1
  /\ \/ UNCHANGED <<file, changeUsed>>
     \/ /\ hosted
        /\ file' = TakeChange(file)
        /\ changeUsed' = changeUsed \cup {file.change}
  /\ UNCHANGED <<ui, send, vault, vaultPay, shown, paid>>
  /\ Settle

\* on_vault_broadcast, after the ceremony.
VaultBroadcast ==
  /\ ui = None /\ vaultPay # None
  /\ paid' = paid \cup {vaultPay}
  /\ UNCHANGED <<file, ui, send, notify, vault, vaultPay, shown, changeUsed>>
  /\ Settle

(***************************************************************************)
(* The sends of the single-sig wallet.                                     *)
(***************************************************************************)
\* Mutant: works from the configuration read at boot.
SendBip47Boot(s, c) ==
  /\ ui = None /\ send[s] = Idle
  /\ file.bip47[c] < MaxIndex
  /\ send' = [send EXCEPT ![s] =
                [Idle EXCEPT !.pc = IF file.bip47[c] = 0 THEN "notify" ELSE "pay",
                             !.to = c, !.cfg = LegacyConfig]]
  /\ UNCHANGED <<file, ui, notify, vault, vaultPay, shown, changeUsed, paid>>
  /\ Settle

\* send_bip47 up to its first await; index 0 is the first contact.
SendBip47(s, c) ==
  /\ ui = None /\ send[s] = Idle
  /\ file.bip47[c] < MaxIndex
  /\ send' = [send EXCEPT ![s] =
                [Idle EXCEPT !.pc = IF file.bip47[c] = 0 THEN "notify" ELSE "pay",
                             !.to = c, !.cfg = file]]
  /\ UNCHANGED <<file, ui, notify, vault, vaultPay, shown, changeUsed, paid>>
  /\ Settle

\* create_and_broadcast_psbt
SendPlain(s) ==
  /\ ui = None /\ send[s] = Idle
  /\ send' = [send EXCEPT ![s] = [Idle EXCEPT !.pc = "pay"]]
  /\ UNCHANGED <<file, ui, notify, vault, vaultPay, shown, changeUsed, paid>>
  /\ Settle

Building(s) == send[s].pc \in {"notify", "pay"}

Built(s) == IF send[s].pc = "notify" THEN "notifyBroadcast" ELSE "payBroadcast"

\* The builder on its worker thread loads the file ...
WorkerLoad(s) ==
  /\ hosted
  /\ Building(s) /\ send[s].work = None
  /\ send' = [send EXCEPT ![s].work = file]
  /\ UNCHANGED <<file, ui, notify, vault, vaultPay, shown, changeUsed, paid>>
  /\ Settle

\* ... and saves it with the change index taken; signing may still fail.
WorkerSave(s, signed) ==
  /\ Building(s) /\ send[s].work # None
  /\ file' = TakeChange(send[s].work)
  /\ send' = [send EXCEPT ![s] = IF signed THEN [@ EXCEPT !.pc = Built(s), !.work = None]
                                 ELSE Idle]
  /\ changeUsed' = IF signed THEN changeUsed \cup {send[s].work.change}
                   ELSE changeUsed
  /\ UNCHANGED <<ui, notify, vault, vaultPay, shown, paid>>
  /\ Settle

\* On the device bdk chooses the change address.
DeviceBuild(s) ==
  /\ ~hosted
  /\ Building(s)
  /\ send' = [send EXCEPT ![s].pc = Built(s)]
  /\ UNCHANGED <<file, ui, notify, vault, vaultPay, shown, changeUsed, paid>>
  /\ Settle

\* A failed builder ends the send: no payment without the notification.
BuildFails(s) ==
  /\ Building(s) /\ send[s].work = None
  /\ send' = [send EXCEPT ![s] = Idle]
  /\ UNCHANGED <<file, ui, notify, vault, vaultPay, shown, changeUsed, paid>>
  /\ Settle

\* No coin for the notification: the payment goes on.
NotifySkipped(s) ==
  /\ send[s].pc = "notify" /\ send[s].work = None
  /\ send' = [send EXCEPT ![s].pc = "pay"]
  /\ UNCHANGED <<file, ui, notify, vault, vaultPay, shown, changeUsed, paid>>
  /\ Settle

\* Whether or not the notification was broadcast, the payment goes on.
NotifyBroadcast(s) ==
  /\ ui = None /\ send[s].pc = "notifyBroadcast"
  /\ send' = [send EXCEPT ![s].pc = "pay"]
  /\ UNCHANGED <<file, ui, notify, vault, vaultPay, shown, changeUsed, paid>>
  /\ Settle

PaymentOf(s) == [to |-> send[s].to, index |-> send[s].cfg.bip47[send[s].to]]

\* The network takes the payment, before or without an answer.
Deliver(s) ==
  /\ send[s].pc = "payBroadcast" /\ ~send[s].delivered
  /\ send' = [send EXCEPT ![s].delivered = TRUE]
  /\ paid' = IF send[s].to = None THEN paid ELSE paid \cup {PaymentOf(s)}
  /\ UNCHANGED <<file, ui, notify, vault, vaultPay, shown, changeUsed>>
  /\ Settle

\* `sent`: the index is taken, in the configuration the send started with.
PayAcked(s) ==
  /\ ui = None /\ send[s].pc = "payBroadcast" /\ send[s].delivered
  /\ file' = IF send[s].to = None THEN file
             ELSE TakeIndex(send[s].cfg, send[s].to)
  /\ send' = [send EXCEPT ![s] = Idle]
  /\ UNCHANGED <<ui, notify, vault, vaultPay, shown, changeUsed, paid>>
  /\ Settle

\* Mutant: takes the index when the payment is exported for later, too.
PayFailsTakesIndex(s) ==
  /\ ui = None /\ send[s].pc = "payBroadcast"
  /\ file' = IF send[s].to = None THEN file
             ELSE TakeIndex(send[s].cfg, send[s].to)
  /\ send' = [send EXCEPT ![s] = Idle]
  /\ UNCHANGED <<ui, notify, vault, vaultPay, shown, changeUsed, paid>>
  /\ Settle

\* The broadcast reports an error, which a lost answer also does.
PayFails(s) ==
  /\ ui = None /\ send[s].pc = "payBroadcast"
  /\ send' = [send EXCEPT ![s] = Idle]
  /\ UNCHANGED <<file, ui, notify, vault, vaultPay, shown, changeUsed, paid>>
  /\ Settle

\* A restart between any two steps; the vault is rebuilt from the file.
Reboot ==
  /\ ui' = None
  /\ send' = [s \in Send |-> Idle]
  /\ notify' = 0
  /\ vault' = file.vault /\ vaultPay' = None
  /\ UNCHANGED <<file, shown, changeUsed, paid>>
  /\ Settle

Handler ==
  \/ ReceiveLoad \/ ReceiveSave
  \/ VaultReceiveLoad \/ VaultReceiveSave
  \/ BuildLoad \/ BuildSave
  \/ SettingsLoad \/ SettingsSave
  \/ VaultFinishLoad \/ \E built \in BOOLEAN : VaultFinishSave(built)
  \/ VaultNotify \/ VaultBroadcast

Sending(s) ==
  \/ \E c \in Code : SendBip47(s, c)
  \/ SendPlain(s)
  \/ WorkerLoad(s) \/ \E signed \in BOOLEAN : WorkerSave(s, signed)
  \/ DeviceBuild(s) \/ BuildFails(s)
  \/ NotifySkipped(s) \/ NotifyBroadcast(s)
  \/ Deliver(s) \/ PayAcked(s) \/ PayFails(s)

Next == Handler \/ Reboot \/ \E s \in Send : Sending(s)

Spec == Init /\ [][Next]_vars

-------------------------------------------------------------------------------
(***************************************************************************)
(* Properties.                                                             *)
(***************************************************************************)

NotBehind(cfg, base) ==
  /\ cfg.receive >= base.receive
  /\ cfg.vaultReceive >= base.vaultReceive
  /\ \A c \in Code : cfg.bip47[c] >= base.bip47[c]
  /\ base.vault # None => cfg.vault # None

\* No lost update reaches back past the last moment nothing was running: what
\* the receive, vault receive and BIP47 counters had reached, and that a vault
\* was built, survives every stale save of send_bip47, every worker's save and
\* every restart.  Only what is written while a send runs can be lost.
QuietPersists == [][NotBehind(file', quiet)]_vars

\* An index is taken only by a payment: unless the vault sends, which takes
\* the index first, the network has a payment for every index below a
\* recipient's counter ("persisted only on success", README.md:93).
IndexOnlyAfterPayment ==
  ~vaultSends =>
    \A c \in Code :
      \A i \in 0 .. file.bip47[c] - 1 : [to |-> c, index |-> i] \in paid

\* main.rs:305, "persisted so change addresses are never reused across sends":
\* when nothing runs, the next change index was not given to a transaction.
ChangeNeverReused == Quiet => file.change \notin changeUsed
==============================================================================
