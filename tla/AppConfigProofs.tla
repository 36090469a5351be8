--------------------------- MODULE AppConfigProofs ---------------------------
(***************************************************************************)
(* Proofs about AppConfig for any recipients, vaults, sends and bounds.    *)
(***************************************************************************)
EXTENDS AppConfig, TLAPS

\* Increments, and the change index's wrap, stay in the fields' types.
LEMMA ConfigSteps ==
  ASSUME NEW cfg \in Config
  PROVE  /\ TakeReceive(cfg) \in Config
         /\ TakeVaultReceive(cfg) \in Config
         /\ \A c \in Code : TakeIndex(cfg, c) \in Config
         /\ \A v \in VaultSet : SetVault(cfg, v) \in Config
         /\ TakeChange(cfg) \in Config
<1>1. \A c \in Code : TakeIndex(cfg, c) \in Config
  <2> SUFFICES ASSUME NEW c \in Code PROVE TakeIndex(cfg, c) \in Config
    OBVIOUS
  <2>1. [cfg.bip47 EXCEPT ![c] = @ + 1] \in [Code -> Nat]
    BY DEF Config
  <2>2. TakeIndex(cfg, c) = [cfg EXCEPT !.bip47 = [cfg.bip47 EXCEPT ![c] = @ + 1]]
    BY DEF TakeIndex
  <2> QED BY <2>1, <2>2 DEF Config
<1>2. TakeChange(cfg) \in Config
  <2> DEFINE k == cfg.change + 1
             n == WatchDepth + 1
  <2>1. k \in Int /\ n \in Int /\ n > 0 /\ n - 1 = WatchDepth
    BY ConstantsOK DEF Config
  <2>2. ASSUME NEW a \in Int, NEW b \in Int, b > 0
        PROVE  a % b \in 0 .. b - 1
    BY <2>2
  <2>3. k % n \in 0 .. WatchDepth
    <3> HIDE DEF k, n
    <3> QED BY <2>1, <2>2
  <2>4. TakeChange(cfg) = [cfg EXCEPT !.change = k % n]
    BY DEF TakeChange
  <2> QED BY <2>3, <2>4 DEF Config
<1>3. /\ TakeReceive(cfg) \in Config
      /\ TakeVaultReceive(cfg) \in Config
      /\ \A v \in VaultSet : SetVault(cfg, v) \in Config
  BY DEF Config, TakeReceive, TakeVaultReceive, SetVault
<1> QED BY <1>1, <1>2, <1>3

LEMMA IdleType == Idle \in SendState /\ LegacyConfig \in Config /\ DefaultConfig \in Config
<1>1. DefaultConfig \in Config /\ LegacyConfig \in Config
  BY ConstantsOK DEF DefaultConfig, LegacyConfig, Config
<1> QED BY <1>1 DEF Idle, SendState

LEMMA TypeInit == Init => TypeOK
BY IdleType DEF Init, TypeOK

\* The history `quiet' follows the file.
LEMMA QuietType ==
  ASSUME TypeOK, file' \in Config, Settle
  PROVE  /\ quiet' \in Config
         /\ hosted' \in BOOLEAN /\ vaultSends' \in BOOLEAN
BY DEF TypeOK, Settle

LEMMA TypeHandler ==
  ASSUME TypeOK, Handler
  PROVE  TypeOK'
<1> USE QuietType, ConfigSteps
<1>0. ASSUME NEW op \in Op, UiLoad(op)
      PROVE  TypeOK'
  <2>1. ui' \in [op : Op, cfg : Config]
    BY <1>0 DEF TypeOK, UiLoad
  <2> QED BY <2>1, <1>0 DEF TypeOK, UiLoad
<1>1. CASE ReceiveLoad
  BY <1>0, <1>1 DEF ReceiveLoad, Op
<1>2. CASE ReceiveSave
  BY <1>2 DEF ReceiveSave, TypeOK
<1>3. CASE VaultReceiveLoad
  BY <1>0, <1>3 DEF VaultReceiveLoad, Op
<1>4. CASE VaultReceiveSave
  <2>1. ui.cfg \in Config /\ ui.cfg.vaultReceive \in Nat
    BY <1>4 DEF VaultReceiveSave, TypeOK, Config
  <2>2. file' \in Config /\ shown' \subseteq Nat
    BY <2>1, <1>4 DEF VaultReceiveSave, TypeOK
  <2> QED BY <2>2, <1>4 DEF VaultReceiveSave, TypeOK
<1>5. CASE BuildLoad
  BY <1>0, <1>5 DEF BuildLoad, Op
<1>6. CASE BuildSave
  BY <1>6 DEF BuildSave, TypeOK
<1>7. CASE SettingsLoad
  BY <1>0, <1>7 DEF SettingsLoad, Op
<1>8. CASE SettingsSave
  BY <1>8 DEF SettingsSave, TypeOK
<1>9. CASE VaultFinishLoad
  BY <1>0, <1>9 DEF VaultFinishLoad, Op
<1>10. ASSUME NEW built \in BOOLEAN, VaultFinishSave(built)
       PROVE  TypeOK'
  <2>1. ui.cfg \in Config /\ ui.op \in Code
    BY <1>10 DEF VaultFinishSave, TypeOK
  <2>2. [to |-> ui.op, index |-> ui.cfg.bip47[ui.op]] \in Payment
    BY <2>1 DEF Payment, Config
  <2>3. file' \in Config
    BY <2>1, <1>10 DEF VaultFinishSave
  <2> QED BY <2>2, <2>3, <1>10 DEF VaultFinishSave, TypeOK
<1>11. CASE VaultNotify
  <2>1. file.change \in 0 .. WatchDepth
    BY DEF TypeOK, Config
  <2>2. file' \in Config /\ changeUsed' \subseteq 0 .. WatchDepth
    BY <2>1, <1>11 DEF VaultNotify, TypeOK
  <2> QED BY <2>2, <1>11 DEF VaultNotify, TypeOK
<1>12. CASE VaultBroadcast
  BY <1>12 DEF VaultBroadcast, TypeOK
<1> QED BY <1>1, <1>2, <1>3, <1>4, <1>5, <1>6, <1>7, <1>8, <1>9, <1>10, <1>11,
          <1>12 DEF Handler

LEMMA TypeSending ==
  ASSUME TypeOK, NEW s \in Send, Sending(s)
  PROVE  TypeOK'
<1> USE QuietType, ConfigSteps, IdleType
<1>0. send[s] \in SendState /\ file \in Config
  BY DEF TypeOK
<1>s. ASSUME NEW to \in SendState, send' = [send EXCEPT ![s] = to],
             UNCHANGED <<file, ui, notify, vault, vaultPay, shown, changeUsed, paid>>,
             Settle
      PROVE  TypeOK'
  <2>1. send' \in [Send -> SendState]
    BY <1>s DEF TypeOK
  <2> QED BY <1>0, <1>s, <2>1 DEF TypeOK
<1>1. ASSUME NEW c \in Code, SendBip47(s, c)
      PROVE  TypeOK'
  <2> DEFINE to == [Idle EXCEPT !.pc = IF file.bip47[c] = 0 THEN "notify" ELSE "pay",
                                !.to = c, !.cfg = file]
  <2>1. to \in SendState
    BY <1>0, Zenon, SMT DEF Idle, SendState
  <2> QED BY <2>1, <1>s, <1>1 DEF SendBip47
<1>2. CASE SendPlain(s)
  <2>1. [Idle EXCEPT !.pc = "pay"] \in SendState
    BY DEF Idle, SendState
  <2> QED BY <2>1, <1>s, <1>2 DEF SendPlain
<1>3. CASE WorkerLoad(s)
  <2>1. [send[s] EXCEPT !.work = file] \in SendState
    BY <1>0 DEF SendState
  <2> QED BY <2>1, <1>s, <1>3 DEF WorkerLoad
<1>4. ASSUME NEW signed \in BOOLEAN, WorkerSave(s, signed)
      PROVE  TypeOK'
  <2>1. send[s].work \in Config
    BY <1>0, <1>4 DEF WorkerSave, SendState
  <2>2. file' \in Config
    BY <2>1, <1>4 DEF WorkerSave
  <2>3. changeUsed' \subseteq 0 .. WatchDepth
    BY <2>1, <1>4 DEF WorkerSave, Config, TypeOK
  <2>4. [send[s] EXCEPT !.pc = Built(s), !.work = None] \in SendState
    BY <1>0 DEF SendState, Built
  <2>5. send' \in [Send -> SendState]
    BY <2>4, <1>4 DEF WorkerSave, TypeOK
  <2> QED BY <2>2, <2>3, <2>5, <1>4 DEF WorkerSave, TypeOK
<1>5. CASE DeviceBuild(s)
  <2>1. [send[s] EXCEPT !.pc = Built(s)] \in SendState
    BY <1>0 DEF SendState, Built
  <2> QED BY <2>1, <1>s, <1>5 DEF DeviceBuild
<1>6. CASE BuildFails(s)
  BY <1>s, <1>6 DEF BuildFails
<1>7. CASE NotifySkipped(s)
  <2>1. [send[s] EXCEPT !.pc = "pay"] \in SendState
    BY <1>0 DEF SendState
  <2> QED BY <2>1, <1>s, <1>7 DEF NotifySkipped
<1>8. CASE NotifyBroadcast(s)
  <2>1. [send[s] EXCEPT !.pc = "pay"] \in SendState
    BY <1>0 DEF SendState
  <2> QED BY <2>1, <1>s, <1>8 DEF NotifyBroadcast
<1>9. CASE Deliver(s)
  <2>1. [send[s] EXCEPT !.delivered = TRUE] \in SendState
    BY <1>0 DEF SendState
  <2>2. send[s].to # None => PaymentOf(s) \in Payment
    BY <1>0 DEF SendState, PaymentOf, Payment, Config
  <2>3. paid' \subseteq Payment
    BY <2>2, <1>9 DEF Deliver, TypeOK
  <2>4. send' \in [Send -> SendState]
    BY <2>1, <1>9 DEF Deliver, TypeOK
  <2> QED BY <2>3, <2>4, <1>9 DEF Deliver, TypeOK
<1>10. CASE PayAcked(s)
  <2>1. file' \in Config
    BY <1>0, <1>10 DEF PayAcked, SendState
  <2> QED BY <2>1, <1>10 DEF PayAcked, TypeOK
<1>11. CASE PayFails(s)
  BY <1>s, <1>11 DEF PayFails
<1> QED BY <1>1, <1>2, <1>3, <1>4, <1>5, <1>6, <1>7, <1>8, <1>9, <1>10, <1>11
        DEF Sending

LEMMA TypeNext ==
  ASSUME TypeOK, [Next]_vars
  PROVE  TypeOK'
<1>1. CASE Reboot
  <2>1. file.vault \in VaultSet \cup {None}
    BY DEF TypeOK, Config
  <2>2. send' \in [Send -> SendState]
    BY <1>1, IdleType DEF Reboot
  <2> QED BY <2>1, <2>2, <1>1, QuietType DEF Reboot, TypeOK
<1>2. CASE UNCHANGED vars
  BY <1>2 DEF vars, TypeOK
<1> QED BY <1>1, <1>2, TypeHandler, TypeSending DEF Next

\* Every variable keeps its type, whatever the bounds.
THEOREM TypeCorrect == Spec => []TypeOK
<1>1. Init => TypeOK
  BY TypeInit
<1>2. TypeOK /\ [Next]_vars => TypeOK'
  BY TypeNext
<1> QED BY <1>1, <1>2, PTL DEF Spec

-------------------------------------------------------------------------------
(***************************************************************************)
(* QuietPersists.  Whatever may yet be saved -- the file, what the running *)
(* handler loaded, what a send or its worker loaded -- is not behind the   *)
(* last quiet file.                                                        *)
(***************************************************************************)
Kept(f, u, snd, base) ==
  /\ NotBehind(f, base)
  /\ u # None => NotBehind(u.cfg, base)
  /\ \A s \in Send : /\ snd[s].to # None => NotBehind(snd[s].cfg, base)
                     /\ snd[s].work # None => NotBehind(snd[s].work, base)

KeptInv == TypeOK /\ Kept(file, ui, send, quiet)

LEMMA NotBehindItself ==
  ASSUME NEW cfg \in Config
  PROVE  NotBehind(cfg, cfg)
BY DEF NotBehind, Config

\* No writer moves a counter back in what it loaded.
LEMMA NotBehindSteps ==
  ASSUME NEW cfg \in Config, NEW base \in Config, NotBehind(cfg, base)
  PROVE  /\ NotBehind(TakeReceive(cfg), base)
         /\ NotBehind(TakeVaultReceive(cfg), base)
         /\ \A c \in Code : NotBehind(TakeIndex(cfg, c), base)
         /\ \A v \in VaultSet : NotBehind(SetVault(cfg, v), base)
         /\ NotBehind(TakeChange(cfg), base)
<1>1. /\ TakeReceive(cfg).receive = cfg.receive + 1
      /\ TakeReceive(cfg).vaultReceive = cfg.vaultReceive
      /\ TakeReceive(cfg).bip47 = cfg.bip47
      /\ TakeReceive(cfg).vault = cfg.vault
  BY DEF TakeReceive, Config
<1>2. /\ TakeVaultReceive(cfg).receive = cfg.receive
      /\ TakeVaultReceive(cfg).vaultReceive = cfg.vaultReceive + 1
      /\ TakeVaultReceive(cfg).bip47 = cfg.bip47
      /\ TakeVaultReceive(cfg).vault = cfg.vault
  BY DEF TakeVaultReceive, Config
<1>3. ASSUME NEW c \in Code
      PROVE  /\ TakeIndex(cfg, c).receive = cfg.receive
             /\ TakeIndex(cfg, c).vaultReceive = cfg.vaultReceive
             /\ TakeIndex(cfg, c).vault = cfg.vault
             /\ \A d \in Code : TakeIndex(cfg, c).bip47[d] >= cfg.bip47[d]
  BY DEF TakeIndex, Config
<1>4. ASSUME NEW v \in VaultSet
      PROVE  /\ SetVault(cfg, v).receive = cfg.receive
             /\ SetVault(cfg, v).vaultReceive = cfg.vaultReceive
             /\ SetVault(cfg, v).bip47 = cfg.bip47
             /\ SetVault(cfg, v).vault # None
  BY ConstantsOK DEF SetVault, Config
<1>5. /\ TakeChange(cfg).receive = cfg.receive
      /\ TakeChange(cfg).vaultReceive = cfg.vaultReceive
      /\ TakeChange(cfg).bip47 = cfg.bip47
      /\ TakeChange(cfg).vault = cfg.vault
  BY DEF TakeChange, Config
<1>6. NotBehind(TakeReceive(cfg), base) /\ NotBehind(TakeVaultReceive(cfg), base)
  BY <1>1, <1>2 DEF NotBehind, Config
<1>7. ASSUME NEW c \in Code
      PROVE  NotBehind(TakeIndex(cfg, c), base)
  <2>1. TakeIndex(cfg, c) \in Config
    BY ConfigSteps
  <2>2. \A d \in Code : TakeIndex(cfg, c).bip47[d] >= base.bip47[d]
    BY <2>1, <1>3 DEF NotBehind, Config
  <2> QED BY <2>2, <1>3 DEF NotBehind
<1>8. ASSUME NEW v \in VaultSet
      PROVE  NotBehind(SetVault(cfg, v), base)
  BY <1>4 DEF NotBehind
<1>9. NotBehind(TakeChange(cfg), base)
  BY <1>5 DEF NotBehind
<1> QED BY <1>6, <1>7, <1>8, <1>9

\* Recording the file when nothing is left running loses nothing.
LEMMA KeptSettles ==
  ASSUME TypeOK', Settle, Kept(file', ui', send', quiet)
  PROVE  Kept(file', ui', send', quiet')
<1>1. CASE Quiet'
  <2>1. quiet' = file' /\ ui' = None /\ \A s \in Send : send'[s] = Idle
    BY <1>1 DEF Settle, Quiet
  <2>2. NotBehind(file', quiet')
    BY <2>1, NotBehindItself DEF TypeOK
  <2>3. Idle.to = None /\ Idle.work = None
    BY DEF Idle
  <2> QED BY <2>1, <2>2, <2>3 DEF Kept
<1>2. CASE ~Quiet'
  BY <1>2 DEF Settle
<1> QED BY <1>1, <1>2

LEMMA KeptHandler ==
  ASSUME KeptInv, Handler
  PROVE  Kept(file', ui', send', quiet)
<1> USE NotBehindSteps
<1>0. /\ file \in Config /\ quiet \in Config
      /\ NotBehind(file, quiet)
      /\ ui # None => ui.cfg \in Config /\ NotBehind(ui.cfg, quiet)
  BY DEF KeptInv, Kept, TypeOK
<1>1. ASSUME NEW op, UiLoad(op)
      PROVE  Kept(file', ui', send', quiet)
  BY <1>1 DEF UiLoad, KeptInv, Kept
<1>2. ASSUME ui # None, ui' = None, send' = send, NotBehind(file', quiet)
      PROVE  Kept(file', ui', send', quiet)
  BY <1>2 DEF KeptInv, Kept
<1>3. CASE ReceiveSave
  BY <1>0, <1>2, <1>3 DEF ReceiveSave
<1>4. CASE VaultReceiveSave
  BY <1>0, <1>2, <1>4 DEF VaultReceiveSave
<1>5. CASE BuildSave
  BY <1>0, <1>2, <1>5 DEF BuildSave
<1>6. CASE SettingsSave
  BY <1>0, <1>2, <1>6 DEF SettingsSave
<1>7. ASSUME NEW built \in BOOLEAN, VaultFinishSave(built)
      PROVE  Kept(file', ui', send', quiet)
  BY <1>0, <1>2, <1>7 DEF VaultFinishSave
<1>8. CASE VaultNotify
  <2>1. NotBehind(file', quiet)
    BY <1>0, <1>8 DEF VaultNotify
  <2> QED BY <2>1, <1>8 DEF VaultNotify, KeptInv, Kept
<1>9. CASE VaultBroadcast
  BY <1>9 DEF VaultBroadcast, KeptInv, Kept
<1> QED BY <1>1, <1>3, <1>4, <1>5, <1>6, <1>7, <1>8, <1>9
        DEF Handler, ReceiveLoad, VaultReceiveLoad, BuildLoad, SettingsLoad,
            VaultFinishLoad

LEMMA KeptSending ==
  ASSUME KeptInv, NEW s \in Send, Sending(s)
  PROVE  Kept(file', ui', send', quiet)
<1> USE NotBehindSteps
<1>0. /\ file \in Config /\ quiet \in Config
      /\ send \in [Send -> SendState]
      /\ NotBehind(file, quiet)
      /\ send[s].to # None => NotBehind(send[s].cfg, quiet)
      /\ send[s].work # None => NotBehind(send[s].work, quiet)
  BY DEF KeptInv, Kept, TypeOK
<1>i. Idle.to = None /\ Idle.work = None
  BY DEF Idle
<1>s. ASSUME NEW to, send' = [send EXCEPT ![s] = to],
             to.to # None => NotBehind(to.cfg, quiet),
             to.work # None => NotBehind(to.work, quiet),
             NotBehind(file', quiet), ui' = ui
      PROVE  Kept(file', ui', send', quiet)
  BY <1>0, <1>s DEF KeptInv, Kept
<1>1. ASSUME NEW c \in Code, SendBip47(s, c)
      PROVE  Kept(file', ui', send', quiet)
  <2> DEFINE to == [Idle EXCEPT !.pc = IF file.bip47[c] = 0 THEN "notify" ELSE "pay",
                                !.to = c, !.cfg = file]
  <2>1. to.cfg = file /\ to.work = None
    BY DEF Idle
  <2> QED BY <2>1, <1>0, <1>1, <1>s DEF SendBip47
<1>2. CASE SendPlain(s)
  <2>1. [Idle EXCEPT !.pc = "pay"].to = None /\ [Idle EXCEPT !.pc = "pay"].work = None
    BY DEF Idle
  <2> QED BY <2>1, <1>0, <1>s, <1>2 DEF SendPlain
<1>3. CASE WorkerLoad(s)
  <2> DEFINE to == [send[s] EXCEPT !.work = file]
  <2>1. to.work = file /\ to.cfg = send[s].cfg /\ to.to = send[s].to
    BY <1>0 DEF SendState
  <2> HIDE DEF to
  <2>2. send' = [send EXCEPT ![s] = to]
    BY <1>3 DEF WorkerLoad, to
  <2> QED BY <2>1, <2>2, <1>0, <1>s, <1>3 DEF WorkerLoad
<1>4. ASSUME NEW signed \in BOOLEAN, WorkerSave(s, signed)
      PROVE  Kept(file', ui', send', quiet)
  <2>1. send[s].work \in Config
    BY <1>0, <1>4 DEF WorkerSave, SendState
  <2>2. NotBehind(file', quiet)
    BY <2>1, <1>0, <1>4 DEF WorkerSave
  <2> DEFINE to == IF signed THEN [send[s] EXCEPT !.pc = Built(s), !.work = None]
                   ELSE Idle
  <2>3. to.to # None => to.cfg = send[s].cfg /\ to.to = send[s].to
    BY <1>0, <1>i DEF SendState
  <2>4. to.work = None
    BY <1>0, <1>i DEF SendState
  <2> HIDE DEF to
  <2>5. send' = [send EXCEPT ![s] = to]
    BY <1>4 DEF WorkerSave, to
  <2> QED BY <2>2, <2>3, <2>4, <2>5, <1>0, <1>s, <1>4 DEF WorkerSave
<1>p. ASSUME NEW pc, NEW del,
             send' = [send EXCEPT ![s] = [send[s] EXCEPT !.pc = pc, !.delivered = del]],
             file' = file, ui' = ui
      PROVE  Kept(file', ui', send', quiet)
  <2> DEFINE to == [send[s] EXCEPT !.pc = pc, !.delivered = del]
  <2>1. to.work = send[s].work /\ to.cfg = send[s].cfg /\ to.to = send[s].to
    BY <1>0 DEF SendState
  <2> HIDE DEF to
  <2>2. send' = [send EXCEPT ![s] = to]
    BY <1>p DEF to
  <2> QED BY <2>1, <2>2, <1>0, <1>s, <1>p
<1>q. ASSUME NEW pc, send' = [send EXCEPT ![s].pc = pc], file' = file, ui' = ui
      PROVE  Kept(file', ui', send', quiet)
  <2>1. [send[s] EXCEPT !.pc = pc]
        = [send[s] EXCEPT !.pc = pc, !.delivered = send[s].delivered]
    BY <1>0 DEF SendState
  <2> QED BY <2>1, <1>p, <1>q
<1>5. CASE DeviceBuild(s)
  BY <1>5, <1>q DEF DeviceBuild
<1>6. CASE BuildFails(s)
  BY <1>0, <1>i, <1>s, <1>6 DEF BuildFails
<1>7. CASE NotifySkipped(s)
  BY <1>7, <1>q DEF NotifySkipped
<1>8. CASE NotifyBroadcast(s)
  BY <1>8, <1>q DEF NotifyBroadcast
<1>9. CASE Deliver(s)
  <2>1. [send[s] EXCEPT !.delivered = TRUE]
        = [send[s] EXCEPT !.pc = send[s].pc, !.delivered = TRUE]
    BY <1>0 DEF SendState
  <2> QED BY <2>1, <1>9, <1>p DEF Deliver
<1>10. CASE PayAcked(s)
  <2>1. send[s].to # None => send[s].to \in Code /\ send[s].cfg \in Config
    BY <1>0 DEF SendState
  <2>2. NotBehind(file', quiet)
    BY <2>1, <1>0, <1>10 DEF PayAcked
  <2> QED BY <2>2, <1>i, <1>s, <1>10 DEF PayAcked
<1>11. CASE PayFails(s)
  BY <1>0, <1>i, <1>s, <1>11 DEF PayFails
<1> QED BY <1>1, <1>2, <1>3, <1>4, <1>5, <1>6, <1>7, <1>8, <1>9, <1>10, <1>11
        DEF Sending

LEMMA KeptStep ==
  ASSUME KeptInv, Next
  PROVE  Kept(file', ui', send', quiet)
<1>1. CASE Reboot
  <2>1. Idle.to = None /\ Idle.work = None
    BY DEF Idle
  <2> QED BY <2>1, <1>1 DEF Reboot, KeptInv, Kept
<1> QED BY <1>1, KeptHandler, KeptSending DEF Next

LEMMA NextSettles ==
  ASSUME Next
  PROVE  Settle
<1>1. CASE Handler
  BY <1>1 DEF Handler, UiLoad, ReceiveLoad, ReceiveSave, VaultReceiveLoad,
     VaultReceiveSave, BuildLoad, BuildSave, SettingsLoad, SettingsSave,
     VaultFinishLoad, VaultFinishSave, VaultNotify, VaultBroadcast
<1>2. ASSUME NEW s \in Send, Sending(s)
      PROVE  Settle
  BY <1>2 DEF Sending, SendBip47, SendPlain, WorkerLoad, WorkerSave, DeviceBuild,
     BuildFails, NotifySkipped, NotifyBroadcast, Deliver, PayAcked, PayFails
<1>3. CASE Reboot
  BY <1>3 DEF Reboot
<1> QED BY <1>1, <1>2, <1>3 DEF Next

LEMMA KeptInductive ==
  ASSUME KeptInv, [Next]_vars
  PROVE  KeptInv'
<1>1. TypeOK'
  BY TypeNext DEF KeptInv
<1>2. CASE Next
  BY <1>1, <1>2, KeptStep, NextSettles, KeptSettles DEF KeptInv
<1>3. CASE UNCHANGED vars
  BY <1>1, <1>3 DEF vars, KeptInv, Kept
<1> QED BY <1>2, <1>3

\* Whatever interleaving of stale saves, workers and restarts: no save reaches
\* back past the last moment nothing was running.
THEOREM QuietFilePersists == Spec => QuietPersists
<1>1. Init => KeptInv
  <2> SUFFICES ASSUME Init PROVE KeptInv
    OBVIOUS
  <2>1. TypeOK
    BY TypeInit
  <2>2. NotBehind(file, quiet)
    BY <2>1, NotBehindItself DEF Init, TypeOK
  <2>3. Idle.to = None /\ Idle.work = None
    BY DEF Idle
  <2> QED BY <2>1, <2>2, <2>3 DEF Init, KeptInv, Kept
<1>2. KeptInv /\ [Next]_vars => KeptInv'
  BY KeptInductive
<1>3. KeptInv /\ [Next]_vars => [NotBehind(file', quiet)]_vars
  BY KeptStep DEF Kept
<1> QED BY <1>1, <1>2, <1>3, PTL DEF Spec, QuietPersists

-------------------------------------------------------------------------------
(***************************************************************************)
(* IndexOnlyAfterPayment, for the single-sig wallet's sends.  Every        *)
(* configuration that may yet be saved has only taken paid indices, and a  *)
(* delivered send's payment is among the paid ones.                        *)
(***************************************************************************)
IndexPaid(cfg, pd) ==
  \A c \in Code : \A i \in 0 .. cfg.bip47[c] - 1 : [to |-> c, index |-> i] \in pd

Paid(f, u, snd, pd) ==
  /\ IndexPaid(f, pd)
  /\ u # None => u.op \notin Code /\ IndexPaid(u.cfg, pd)
  /\ \A s \in Send :
       /\ snd[s].to # None => IndexPaid(snd[s].cfg, pd)
       /\ snd[s].work # None => IndexPaid(snd[s].work, pd)
       /\ snd[s].to # None /\ snd[s].delivered =>
            [to |-> snd[s].to, index |-> snd[s].cfg.bip47[snd[s].to]] \in pd

PaidInv == TypeOK /\ ~vaultSends /\ Paid(file, ui, send, paid)

LEMMA PaidGrows ==
  ASSUME NEW cfg, NEW pd, NEW more, pd \subseteq more, IndexPaid(cfg, pd)
  PROVE  IndexPaid(cfg, more)
BY DEF IndexPaid

\* Only taking an index touches the BIP47 counters.
LEMMA PaidSteps ==
  ASSUME NEW cfg \in Config, NEW pd, IndexPaid(cfg, pd)
  PROVE  /\ IndexPaid(TakeReceive(cfg), pd)
         /\ IndexPaid(TakeVaultReceive(cfg), pd)
         /\ \A v \in VaultSet : IndexPaid(SetVault(cfg, v), pd)
         /\ IndexPaid(TakeChange(cfg), pd)
         /\ \A c \in Code : [to |-> c, index |-> cfg.bip47[c]] \in pd
                            => IndexPaid(TakeIndex(cfg, c), pd)
<1>1. /\ TakeReceive(cfg).bip47 = cfg.bip47
      /\ TakeVaultReceive(cfg).bip47 = cfg.bip47
      /\ \A v \in VaultSet : SetVault(cfg, v).bip47 = cfg.bip47
      /\ TakeChange(cfg).bip47 = cfg.bip47
  BY DEF TakeReceive, TakeVaultReceive, SetVault, TakeChange, Config
<1>2. ASSUME NEW c \in Code, [to |-> c, index |-> cfg.bip47[c]] \in pd,
             NEW d \in Code, NEW i \in 0 .. TakeIndex(cfg, c).bip47[d] - 1
      PROVE  [to |-> d, index |-> i] \in pd
  <2>1. cfg.bip47 \in [Code -> Nat]
    BY DEF Config
  <2>2. TakeIndex(cfg, c).bip47[d] = IF d = c THEN cfg.bip47[c] + 1 ELSE cfg.bip47[d]
    BY <2>1 DEF TakeIndex, Config
  <2>3. CASE d = c /\ i = cfg.bip47[c]
    BY <2>3, <1>2
  <2>4. CASE ~(d = c /\ i = cfg.bip47[c])
    <3>1. i \in 0 .. cfg.bip47[d] - 1
      BY <2>1, <2>2, <2>4
    <3> QED BY <3>1 DEF IndexPaid
  <2> QED BY <2>3, <2>4
<1> QED BY <1>1, <1>2 DEF IndexPaid

LEMMA PaidHandler ==
  ASSUME PaidInv, Handler
  PROVE  Paid(file', ui', send', paid')
<1> USE PaidSteps
<1>0. /\ file \in Config /\ ~vaultSends
      /\ IndexPaid(file, paid)
      /\ ui # None => ui.cfg \in Config /\ ui.op \notin Code /\ IndexPaid(ui.cfg, paid)
  BY DEF PaidInv, Paid, TypeOK
<1>1. ASSUME NEW op, op \notin Code, UiLoad(op)
      PROVE  Paid(file', ui', send', paid')
  BY <1>1 DEF UiLoad, PaidInv, Paid
<1>2. ASSUME ui' = None, send' = send, paid' = paid, IndexPaid(file', paid)
      PROVE  Paid(file', ui', send', paid')
  BY <1>2 DEF PaidInv, Paid
<1>3. CASE ReceiveSave
  BY <1>0, <1>2, <1>3 DEF ReceiveSave
<1>4. CASE VaultReceiveSave
  BY <1>0, <1>2, <1>4 DEF VaultReceiveSave
<1>5. CASE BuildSave
  BY <1>0, <1>2, <1>5 DEF BuildSave
<1>6. CASE SettingsSave
  BY <1>0, <1>2, <1>6 DEF SettingsSave
<1>7. ASSUME NEW built \in BOOLEAN, VaultFinishSave(built)
      PROVE  FALSE
  BY <1>0, <1>7 DEF VaultFinishSave
<1>8. CASE VaultNotify
  <2>1. IndexPaid(file', paid)
    BY <1>0, <1>8 DEF VaultNotify
  <2> QED BY <2>1, <1>8 DEF VaultNotify, PaidInv, Paid
<1>9. CASE VaultBroadcast
  <2>1. paid \subseteq paid'
    BY <1>9 DEF VaultBroadcast
  <2> QED BY <2>1, <1>9, PaidGrows DEF VaultBroadcast, PaidInv, Paid
<1>10. {"receive", "vaultReceive", "settings"} \cap Code = {} /\ VaultSet \cap Code = {}
  BY ConstantsOK
<1> QED BY <1>0, <1>1, <1>3, <1>4, <1>5, <1>6, <1>7, <1>8, <1>9, <1>10
        DEF Handler, ReceiveLoad, VaultReceiveLoad, BuildLoad, SettingsLoad,
            VaultFinishLoad

LEMMA PaidSending ==
  ASSUME PaidInv, NEW s \in Send, Sending(s)
  PROVE  Paid(file', ui', send', paid')
<1> USE PaidSteps
<1>0. /\ file \in Config
      /\ send[s] \in SendState
      /\ IndexPaid(file, paid)
      /\ send[s].to # None => send[s].to \in Code /\ send[s].cfg \in Config
                              /\ IndexPaid(send[s].cfg, paid)
      /\ send[s].work # None => send[s].work \in Config /\ IndexPaid(send[s].work, paid)
      /\ send[s].to # None /\ send[s].delivered => PaymentOf(s) \in paid
  BY DEF PaidInv, Paid, TypeOK, SendState, PaymentOf
<1>i. Idle.to = None /\ Idle.work = None
  BY DEF Idle
<1>s. ASSUME NEW to, send' = [send EXCEPT ![s] = to],
             to.to # None => IndexPaid(to.cfg, paid),
             to.work # None => IndexPaid(to.work, paid),
             to.to # None /\ to.delivered =>
               [to |-> to.to, index |-> to.cfg.bip47[to.to]] \in paid',
             paid \subseteq paid', IndexPaid(file', paid), ui' = ui
      PROVE  Paid(file', ui', send', paid')
  <2>1. \A r \in Send : send'[r] = IF r = s THEN to ELSE send[r]
    BY <1>s DEF PaidInv, TypeOK
  <2> QED BY <2>1, <1>s, PaidGrows DEF PaidInv, Paid
<1>1. ASSUME NEW c \in Code, SendBip47(s, c)
      PROVE  Paid(file', ui', send', paid')
  <2> DEFINE to == [Idle EXCEPT !.pc = IF file.bip47[c] = 0 THEN "notify" ELSE "pay",
                                !.to = c, !.cfg = file]
  <2>1. to.cfg = file /\ to.work = None /\ to.delivered = FALSE
    BY DEF Idle
  <2> QED BY <2>1, <1>0, <1>1, <1>s DEF SendBip47
<1>2. CASE SendPlain(s)
  <2>1. [Idle EXCEPT !.pc = "pay"].to = None /\ [Idle EXCEPT !.pc = "pay"].work = None
    BY DEF Idle
  <2> QED BY <2>1, <1>0, <1>s, <1>2 DEF SendPlain
<1>3. CASE WorkerLoad(s)
  <2> DEFINE to == [send[s] EXCEPT !.work = file]
  <2>1. /\ to.work = file /\ to.cfg = send[s].cfg /\ to.to = send[s].to
        /\ to.delivered = send[s].delivered
    BY <1>0 DEF SendState
  <2> HIDE DEF to
  <2>2. send' = [send EXCEPT ![s] = to]
    BY <1>3 DEF WorkerLoad, to
  <2> QED BY <2>1, <2>2, <1>0, <1>s, <1>3 DEF WorkerLoad, PaymentOf
<1>4. ASSUME NEW signed \in BOOLEAN, WorkerSave(s, signed)
      PROVE  Paid(file', ui', send', paid')
  <2>1. IndexPaid(file', paid)
    BY <1>0, <1>4 DEF WorkerSave
  <2> DEFINE to == IF signed THEN [send[s] EXCEPT !.pc = Built(s), !.work = None]
                   ELSE Idle
  <2>2. /\ to.to # None => /\ to.cfg = send[s].cfg /\ to.to = send[s].to
                           /\ to.delivered = send[s].delivered
        /\ to.work = None
    BY <1>0, <1>i DEF SendState
  <2> HIDE DEF to
  <2>3. send' = [send EXCEPT ![s] = to]
    BY <1>4 DEF WorkerSave, to
  <2> QED BY <2>1, <2>2, <2>3, <1>0, <1>s, <1>4 DEF WorkerSave, PaymentOf
<1>q. ASSUME NEW pc, send' = [send EXCEPT ![s].pc = pc], file' = file, ui' = ui,
             paid' = paid
      PROVE  Paid(file', ui', send', paid')
  <2> DEFINE to == [send[s] EXCEPT !.pc = pc]
  <2>1. /\ to.work = send[s].work /\ to.cfg = send[s].cfg /\ to.to = send[s].to
        /\ to.delivered = send[s].delivered
    BY <1>0 DEF SendState
  <2> HIDE DEF to
  <2>2. send' = [send EXCEPT ![s] = to]
    BY <1>q DEF to
  <2> QED BY <2>1, <2>2, <1>0, <1>s, <1>q DEF PaymentOf
<1>5. CASE DeviceBuild(s)
  BY <1>5, <1>q DEF DeviceBuild
<1>6. CASE BuildFails(s)
  BY <1>0, <1>i, <1>s, <1>6 DEF BuildFails
<1>7. CASE NotifySkipped(s)
  BY <1>7, <1>q DEF NotifySkipped
<1>8. CASE NotifyBroadcast(s)
  BY <1>8, <1>q DEF NotifyBroadcast
<1>9. CASE Deliver(s)
  <2> DEFINE to == [send[s] EXCEPT !.delivered = TRUE]
  <2>1. to.work = send[s].work /\ to.cfg = send[s].cfg /\ to.to = send[s].to
    BY <1>0 DEF SendState
  <2> HIDE DEF to
  <2>2. send' = [send EXCEPT ![s] = to]
    BY <1>9 DEF Deliver, to
  <2>3. paid \subseteq paid' /\ (send[s].to # None => PaymentOf(s) \in paid')
    BY <1>9 DEF Deliver
  <2> QED BY <2>1, <2>2, <2>3, <1>0, <1>s, <1>9 DEF Deliver, PaymentOf
<1>10. CASE PayAcked(s)
  <2>1. IndexPaid(file', paid)
    BY <1>0, <1>10 DEF PayAcked, PaymentOf
  <2> QED BY <2>1, <1>i, <1>s, <1>10 DEF PayAcked
<1>11. CASE PayFails(s)
  BY <1>0, <1>i, <1>s, <1>11 DEF PayFails
<1> QED BY <1>1, <1>2, <1>3, <1>4, <1>5, <1>6, <1>7, <1>8, <1>9, <1>10, <1>11
        DEF Sending

LEMMA PaidInductive ==
  ASSUME PaidInv, [Next]_vars
  PROVE  PaidInv'
<1>1. TypeOK'
  BY TypeNext DEF PaidInv
<1>2. ~vaultSends'
  BY NextSettles DEF PaidInv, Settle, vars
<1>3. CASE Handler
  BY <1>1, <1>2, <1>3, PaidHandler DEF PaidInv
<1>4. ASSUME NEW s \in Send, Sending(s)
      PROVE  PaidInv'
  BY <1>1, <1>2, <1>4, PaidSending DEF PaidInv
<1>5. CASE Reboot
  <2>1. Idle.to = None /\ Idle.work = None
    BY DEF Idle
  <2> QED BY <1>1, <1>2, <1>5, <2>1 DEF Reboot, PaidInv, Paid
<1>6. CASE UNCHANGED vars
  BY <1>1, <1>2, <1>6 DEF vars, PaidInv, Paid
<1> QED BY <1>3, <1>4, <1>5, <1>6 DEF Next

\* Without the vault's sends, which take the index first, no failed, lost or
\* interrupted send of the single-sig wallet takes a BIP47 index.
THEOREM IndexTakenByPayments == Spec => []IndexOnlyAfterPayment
<1> DEFINE IInv == TypeOK /\ (vaultSends \/ PaidInv)
<1>1. Init => IInv
  <2> SUFFICES ASSUME Init PROVE IInv
    OBVIOUS
  <2>1. \A c \in Code : file.bip47[c] = 0
    BY DEF Init, DefaultConfig, LegacyConfig
  <2>2. IndexPaid(file, paid)
    BY <2>1 DEF IndexPaid
  <2>3. Idle.to = None /\ Idle.work = None
    BY DEF Idle
  <2> QED BY <2>2, <2>3, TypeInit DEF Init, PaidInv, Paid
<1>2. IInv /\ [Next]_vars => IInv'
  <2>1. [Next]_vars => vaultSends' = vaultSends
    BY NextSettles DEF Settle, vars
  <2> QED BY <2>1, TypeNext, PaidInductive
<1>3. IInv => IndexOnlyAfterPayment
  BY DEF PaidInv, Paid, IndexPaid, IndexOnlyAfterPayment
<1> QED BY <1>1, <1>2, <1>3, PTL DEF Spec
==============================================================================
