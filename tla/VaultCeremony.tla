---------------------------- MODULE VaultCeremony ----------------------------
(***************************************************************************)
(* The 4-round MuSig2 spend ceremony of the vault: every device runs the   *)
(* Vault page's handlers (main.rs) over its own VaultSpend state machine   *)
(* (vault.rs), and devices talk only by showing and scanning QR codes.     *)
(*                                                                         *)
(*   R1  each device shows a public nonce                                  *)
(*   R2  a coordinator sums the nonces and shows the session               *)
(*   R3  each device signs the session and shows a partial signature       *)
(*   R4  a device aggregates the partials and verifies the result          *)
(*                                                                         *)
(* A QR stays scannable after it was shown (another screen, a photograph), *)
(* so the pools below only grow: a payload may be scanned late, twice, out *)
(* of order, or never.  Every handler runs on the UI thread and holds the  *)
(* VAULT_SPEND value it took until it puts it back, so a handler is one    *)
(* action.                                                                 *)
(*                                                                         *)
(* The cryptography is symbolic.  A device's key is the device.  A nonce   *)
(* is the device and the number of the draw (the TRNG never repeats).  The *)
(* sum of nonces is the function counting each nonce: two sums are equal   *)
(* only if they have the same summands.  A partial signature is the signer,*)
(* its nonce and the session it was made in; it verifies against exactly   *)
(* these.  The sum of partial signatures is a valid BIP340 signature iff   *)
(* it holds each summed nonce and each vault key once.  This is            *)
(* BIP-327's correctness without accidental collisions.                    *)
(***************************************************************************)
EXTENDS Integers, FiniteSets

CONSTANTS
  Device,     \* the devices; also their public keys
  Vault,      \* the participant sets a device may build a vault from
  Tx,         \* unsigned vault transactions (a transaction is its sighash)
  Auth,       \* spend-authorisation digests typed on the Vault page
  VaultOf,    \* VaultOf[t]: the vault whose taproot output t spends
  IndexOf,    \* IndexOf[m]: the child index of message m; 0 for a digest
  MaxNonce,   \* bound: nonces one device draws
  MaxSpends,  \* bound: spends one device opens
  MaxSessions,\* bound: different SESSION payloads ever shown
  None        \* the absent value of an Option field

Msg   == Tx \cup Auth
Index == {IndexOf[m] : m \in Msg}

ASSUME ConstantsOK ==
  /\ Vault \subseteq SUBSET Device
  /\ {} \notin Vault
  /\ VaultOf \in [Tx -> Vault]
  /\ IndexOf \in [Msg -> Nat]
  /\ \A a \in Auth : IndexOf[a] = 0
  /\ MaxNonce \in Nat
  /\ MaxSpends \in Nat
  /\ MaxSessions \in Nat

(***************************************************************************)
(* What crosses the camera, and what it is made of.                        *)
(***************************************************************************)
Nonce     == [by : Device, n : 1 .. MaxNonce]
AggNonce  == [Nonce -> 0 .. 2]
Session   == [agg : AggNonce, pks : Vault, index : Index,
              taproot : BOOLEAN, msg : Msg]
Psig      == [by : Device, n : 1 .. MaxNonce, session : Session]
SessionQr == [msg : Msg, index : Index, agg : AggNonce]
\* What a BIP340 signature verifies for: a key (vault, child index, with or
\* without the taproot tweak) and a message.
Signature == [vault : Vault, index : Index, taproot : BOOLEAN, msg : Msg]

\* VaultSpend: `nonce` stands for the secnonce/pubnonce pair, 0 for None; in
\* `nonces` 0 means nothing was collected from that key.
Spend == [msg : Msg, index : Index, taproot : BOOLEAN,
          nonce : 0 .. MaxNonce,
          nonces : [Device -> 0 .. MaxNonce],
          session : Session \cup {None},
          psig : Psig \cup {None},
          psigs : [Device -> Psig \cup {None}]]

VARIABLES
  config,      \* config[d]: VAULT_CONFIG's participants, {} for None
  spend,       \* spend[d]: VAULT_SPEND
  tx,          \* tx[d]: VAULT_TX
  sig,         \* sig[d]: vault_sig, the signature R4 verified
  signedTx,    \* signedTx[d]: vault_signed_tx, the tx with R4's signature
  drawn,       \* drawn[d]: how many nonces d has drawn
  opened,      \* opened[d]: how many spends d has opened
  nonceQrs,    \* NONCE payloads shown so far
  sessionQrs,  \* SESSION payloads shown so far
  psigQrs,     \* PSIG payloads shown so far
  accepted,    \* history: signatures R4 accepted on some device
  published    \* transactions the network accepted

pools == <<nonceQrs, sessionQrs, psigQrs>>
vars  == <<config, spend, tx, sig, signedTx, drawn, opened, pools, accepted,
           published>>

TypeOK ==
  /\ config \in [Device -> Vault \cup {{}}]
  /\ spend \in [Device -> Spend \cup {None}]
  /\ tx \in [Device -> Tx \cup {None}]
  /\ sig \in [Device -> Signature \cup {None}]
  /\ signedTx \in [Device -> [tx : Tx, sig : Signature] \cup {None}]
  /\ drawn \in [Device -> 0 .. MaxNonce]
  /\ opened \in [Device -> 0 .. MaxSpends]
  /\ nonceQrs \subseteq Nonce
  /\ sessionQrs \subseteq SessionQr
  /\ psigQrs \subseteq Psig
  /\ accepted \subseteq Signature
  /\ published \subseteq Tx

Init ==
  /\ config \in [Device -> Vault \cup {{}}]
  /\ spend = [d \in Device |-> None]
  /\ tx = [d \in Device |-> None]
  /\ sig = [d \in Device |-> None]
  /\ signedTx = [d \in Device |-> None]
  /\ drawn = [d \in Device |-> 0]
  /\ opened = [d \in Device |-> 0]
  /\ nonceQrs = {} /\ sessionQrs = {} /\ psigQrs = {}
  /\ accepted = {} /\ published = {}

(***************************************************************************)
(* VaultSpend's functions.                                                 *)
(***************************************************************************)
NewVaultSpend(m, index, taproot) ==
  [msg |-> m, index |-> index, taproot |-> taproot, nonce |-> 0,
   nonces |-> [d \in Device |-> 0], session |-> None, psig |-> None,
   psigs |-> [d \in Device |-> None]]

\* nonce_agg over the device's own nonce and the collected ones.  A device
\* that scanned a nonce of its own counts it a second time.
NonceAgg(d, sp) ==
  [x \in Nonce |-> (IF x.by = d /\ x.n = sp.nonce THEN 1 ELSE 0)
                   + (IF x.n = sp.nonces[x.by] THEN 1 ELSE 0)]

NonceCount(sp) ==
  Cardinality({p \in Device : sp.nonces[p] # 0})
  + (IF sp.nonce = 0 THEN 0 ELSE 1)

\* The tweaks are the child index and, for a taproot spend, the taproot tweak.
MakeSession(sp, agg, vault) ==
  [agg |-> agg, pks |-> vault, index |-> sp.index,
   taproot |-> sp.taproot, msg |-> sp.msg]

\* The (psig, pubnonce, key) triples of finalize; `mine` tells the device's
\* own triple from one collected under the device's own key.
Triples(d, sp) ==
  (IF sp.nonce # 0 /\ sp.psig # None
   THEN {[mine |-> TRUE, pk |-> d, n |-> sp.nonce, psig |-> sp.psig]}
   ELSE {})
  \cup
  {[mine |-> FALSE, pk |-> p, n |-> sp.nonces[p], psig |-> sp.psigs[p]] :
     p \in {q \in Device : sp.nonces[q] # 0 /\ sp.psigs[q] # None}}

PartialSigVerify(t, session) ==
  /\ t.psig.by = t.pk
  /\ t.psig.n = t.n
  /\ t.psig.session = session

\* Mutant: the aggregate nonce is not compared with the nonces signed with.
PartialSigAggAnyNonce(T, session) ==
  /\ \A t \in T : t.psig.by = t.pk /\ t.psig.session = session
  /\ \A p \in session.pks : \E t \in T : t.pk = p
  /\ \A t, u \in T : t.pk = u.pk => t = u

\* The aggregate of the triples is a signature of `session`: every key of the
\* session contributes once, and so does every nonce of the aggregate nonce.
PartialSigAggValid(T, session) ==
  /\ \A t \in T : t.psig.by = t.pk /\ t.psig.session = session
  /\ \A p \in session.pks : \E t \in T : t.pk = p
  /\ \A t, u \in T : t.pk = u.pk => t = u
  /\ \A x \in Nonce :
       session.agg[x] = IF \E t \in T : t.psig.by = x.by /\ t.psig.n = x.n
                        THEN 1 ELSE 0

\* Mutant: verifies against the session's own key set.
FinalSigVerifiesForSession(session, sp, vault) ==
  /\ session.index = sp.index
  /\ session.taproot = sp.taproot
  /\ session.msg = sp.msg

\* The final verify_schnorr: against the key of the vault the device has now,
\* at the spend's index, and against the spend's message.
FinalSigVerifies(session, sp, vault) ==
  /\ session.pks = vault
  /\ session.index = sp.index
  /\ session.taproot = sp.taproot
  /\ session.msg = sp.msg

SignatureOf(sp, vault) ==
  [vault |-> vault, index |-> sp.index, taproot |-> sp.taproot, msg |-> sp.msg]

(***************************************************************************)
(* The handlers of the Vault page.                                         *)
(***************************************************************************)
BuildVault(d, v) ==
  /\ config' = [config EXCEPT ![d] = v]
  /\ UNCHANGED <<spend, tx, sig, signedTx, drawn, opened, pools, accepted, published>>

\* R1 for a spend authorisation: forgets the transaction of an earlier send.
NewSpend(d, a) ==
  /\ config[d] # {}
  /\ opened[d] < MaxSpends
  /\ opened' = [opened EXCEPT ![d] = @ + 1]
  /\ spend' = [spend EXCEPT ![d] = NewVaultSpend(a, 0, FALSE)]
  /\ tx' = [tx EXCEPT ![d] = None]
  /\ sig' = [sig EXCEPT ![d] = None]
  /\ signedTx' = [signedTx EXCEPT ![d] = None]
  /\ UNCHANGED <<config, drawn, pools, accepted, published>>

\* Mutant: a new send keeps the signature of the last one.
SendKeepsSig(d, t) ==
  /\ config[d] = VaultOf[t]
  /\ opened[d] < MaxSpends
  /\ opened' = [opened EXCEPT ![d] = @ + 1]
  /\ spend' = [spend EXCEPT ![d] = NewVaultSpend(t, IndexOf[t], TRUE)]
  /\ tx' = [tx EXCEPT ![d] = t]
  /\ UNCHANGED <<config, sig, signedTx, drawn, pools, accepted, published>>

\* A transaction was built from a UTXO of the device's vault: the plain branch
\* of on_vault_send, and the end of on_vault_ecdh_finish.
Send(d, t) ==
  /\ config[d] = VaultOf[t]
  /\ opened[d] < MaxSpends
  /\ opened' = [opened EXCEPT ![d] = @ + 1]
  /\ spend' = [spend EXCEPT ![d] = NewVaultSpend(t, IndexOf[t], TRUE)]
  /\ tx' = [tx EXCEPT ![d] = t]
  /\ sig' = [sig EXCEPT ![d] = None]
  /\ signedTx' = [signedTx EXCEPT ![d] = None]
  /\ UNCHANGED <<config, drawn, pools, accepted, published>>

GenNonce(d) ==
  /\ spend[d] # None
  /\ config[d] # {}
  /\ drawn[d] < MaxNonce
  /\ drawn' = [drawn EXCEPT ![d] = @ + 1]
  /\ spend' = [spend EXCEPT ![d].nonce = drawn[d] + 1]
  /\ nonceQrs' = nonceQrs \cup {[by |-> d, n |-> drawn[d] + 1]}
  /\ UNCHANGED <<config, tx, sig, signedTx, opened, sessionQrs, psigQrs, accepted,
                 published>>

\* add_pubnonce keeps the first nonce scanned for a key.
ScanNonce(d, q) ==
  /\ spend[d] # None
  /\ spend[d].nonces[q.by] = 0
  /\ spend' = [spend EXCEPT ![d].nonces[q.by] = q.n]
  /\ UNCHANGED <<config, tx, sig, signedTx, drawn, opened, pools, accepted, published>>

BuildSession(d) ==
  /\ spend[d] # None
  /\ config[d] # {}
  /\ NonceCount(spend[d]) >= 2
  /\ LET agg == NonceAgg(d, spend[d])
         qr  == [msg |-> spend[d].msg, index |-> spend[d].index, agg |-> agg]
     IN  /\ spend' = [spend EXCEPT ![d].session =
                                     MakeSession(spend[d], agg, config[d])]
         /\ sessionQrs' = sessionQrs \cup {qr}
         /\ Cardinality(sessionQrs') <= MaxSessions
  /\ UNCHANGED <<config, tx, sig, signedTx, drawn, opened, nonceQrs, psigQrs, accepted,
                 published>>

\* Mutant: the scanned message without its index.
AdoptMsgOnly(sp, q, vault) ==
  LET adopted == [sp EXCEPT !.msg = q.msg]
  IN  [adopted EXCEPT !.session = MakeSession(adopted, q.agg, vault)]

\* set_session adopts the scanned message and index; keys and the taproot flag
\* are the device's own.
Adopt(sp, q, vault) ==
  LET adopted == [sp EXCEPT !.msg = q.msg, !.index = q.index]
  IN  [adopted EXCEPT !.session = MakeSession(adopted, q.agg, vault)]

ScanSession(d, q) ==
  /\ spend[d] # None
  /\ config[d] # {}
  /\ spend' = [spend EXCEPT ![d] = Adopt(spend[d], q, config[d])]
  /\ UNCHANGED <<config, tx, sig, signedTx, drawn, opened, pools, accepted, published>>

\* Mutant: signs before a nonce was drawn.
SignWithoutNonce(d) ==
  /\ spend[d] # None
  /\ spend[d].session # None
  /\ d \in spend[d].session.pks
  /\ LET psig == [by |-> d, n |-> spend[d].nonce, session |-> spend[d].session]
     IN  /\ spend' = [spend EXCEPT ![d].psig = psig]
         /\ psigQrs' = psigQrs \cup {psig}
  /\ UNCHANGED <<config, tx, sig, signedTx, drawn, opened, nonceQrs, sessionQrs, accepted,
                 published>>

\* sign refuses a device whose key is not one of the session's.
Sign(d) ==
  /\ spend[d] # None
  /\ spend[d].session # None
  /\ spend[d].nonce # 0
  /\ d \in spend[d].session.pks
  /\ LET psig == [by |-> d, n |-> spend[d].nonce, session |-> spend[d].session]
     IN  /\ spend' = [spend EXCEPT ![d].psig = psig]
         /\ psigQrs' = psigQrs \cup {psig}
  /\ UNCHANGED <<config, tx, sig, signedTx, drawn, opened, nonceQrs, sessionQrs, accepted,
                 published>>

\* add_psig keeps the first partial signature scanned for a key.
ScanPsig(d, q) ==
  /\ spend[d] # None
  /\ spend[d].psigs[q.by] = None
  /\ spend' = [spend EXCEPT ![d].psigs[q.by] = q]
  /\ UNCHANGED <<config, tx, sig, signedTx, drawn, opened, pools, accepted, published>>

FinalizeOK(d) ==
  /\ spend[d].session # None
  /\ LET T == Triples(d, spend[d])
     IN  /\ Cardinality(T) >= 2
         /\ \A t \in T : PartialSigVerify(t, spend[d].session)
         /\ PartialSigAggValid(T, spend[d].session)
  /\ FinalSigVerifies(spend[d].session, spend[d], config[d])

\* R4.  The verified signature is shown, and attached to VAULT_TX if there is
\* a transaction.  A failed finalize only sets the error text.
Finalize(d) ==
  /\ spend[d] # None
  /\ config[d] # {}
  /\ FinalizeOK(d)
  /\ LET s == SignatureOf(spend[d], config[d])
     IN  /\ sig' = [sig EXCEPT ![d] = s]
         /\ signedTx' = IF tx[d] = None THEN signedTx
                        ELSE [signedTx EXCEPT ![d] = [tx |-> tx[d], sig |-> s]]
         /\ accepted' = accepted \cup {s}
  /\ UNCHANGED <<config, spend, tx, drawn, opened, pools, published>>

\* The network takes a transaction whose witness is a signature of its sighash
\* by the taproot output key it spends.
NetworkAccepts(t, s) ==
  s = [vault |-> VaultOf[t], index |-> IndexOf[t], taproot |-> TRUE, msg |-> t]

Broadcast(d) ==
  /\ tx[d] # None
  /\ sig[d] # None
  /\ NetworkAccepts(tx[d], sig[d])
  /\ published' = published \cup {tx[d]}
  /\ UNCHANGED <<config, spend, tx, sig, signedTx, drawn, opened, pools, accepted>>

\* A restart loses every static but the vault, rebuilt from config.json.
Reboot(d) ==
  /\ spend' = [spend EXCEPT ![d] = None]
  /\ tx' = [tx EXCEPT ![d] = None]
  /\ sig' = [sig EXCEPT ![d] = None]
  /\ signedTx' = [signedTx EXCEPT ![d] = None]
  /\ UNCHANGED <<config, drawn, opened, pools, accepted, published>>

Ceremony(d) ==
  \/ \E a \in Auth : NewSpend(d, a)
  \/ \E t \in Tx : Send(d, t)
  \/ GenNonce(d)
  \/ \E q \in nonceQrs : ScanNonce(d, q)
  \/ BuildSession(d)
  \/ \E q \in sessionQrs : ScanSession(d, q)
  \/ Sign(d)
  \/ \E q \in psigQrs : ScanPsig(d, q)
  \/ Finalize(d)
  \/ Broadcast(d)

Next ==
  \E d \in Device :
    \/ Ceremony(d)
    \/ \E v \in Vault : BuildVault(d, v)
    \/ Reboot(d)

Spec == Init /\ [][Next]_vars

-------------------------------------------------------------------------------
(***************************************************************************)
(* Properties.                                                             *)
(***************************************************************************)

\* What a session's partial signatures add up to.
StatementOf(session) ==
  [vault |-> session.pks, index |-> session.index,
   taproot |-> session.taproot, msg |-> session.msg]

\* Every participant of s's vault signed s, on its own device, in one and the
\* same session, and with the one nonce that session counts for it.
SignedByAll(s) ==
  \E ses \in {q.session : q \in psigQrs} :
    /\ StatementOf(ses) = s
    /\ \A p \in s.vault :
         \E q \in psigQrs : /\ q.by = p
                            /\ q.session = ses
                            /\ ses.agg[[by |-> p, n |-> q.n]] = 1

\* All of N: no mixture of late, repeated or foreign QRs, regenerated nonces or
\* rebuilt vaults lets R4 (VaultSpend::finalize) accept a signature that some
\* participant of the device's vault did not make.
AcceptedSignedByAll == \A s \in accepted : SignedByAll(s)

\* Message and child index travel together: whatever sessions a device adopts
\* and whatever spend it had opened, what it signs, shows and accepts pairs a
\* message with the index of the output that message spends (set_session,
\* new_for_tx).
IndexFollowsMsg ==
  /\ \A q \in sessionQrs : q.index = IndexOf[q.msg]
  /\ \A q \in psigQrs : q.session.index = IndexOf[q.session.msg]
  /\ \A s \in accepted : s.index = IndexOf[s.msg]

\* BROADCAST sends VAULT_TX with vault_sig, two statics written by different
\* handlers; together they are always the signed transaction R4 showed.
BroadcastIsWhatR4Showed ==
  \A d \in Device :
    tx[d] # None /\ sig[d] # None => signedTx[d] = [tx |-> tx[d], sig |-> sig[d]]

\* The abstract specification: a statement is released only once all signers
\* approved it, and settles on the network only once released.
Approvals ==
  {[by |-> q.by, what |-> StatementOf(q.session)] : q \in psigQrs}

Settled ==
  {[vault |-> VaultOf[t], index |-> IndexOf[t], taproot |-> TRUE, msg |-> t] :
     t \in published}

SignersOf(s) == s.vault

Abstract == INSTANCE VaultSigning
              WITH Statement <- Signature, Signers <- SignersOf,
                   approvals <- Approvals, released <- accepted,
                   settled <- Settled

\* The ceremony implements all-of-N signing: R3 approves, R4 releases, the
\* broadcast settles, and every other handler changes none of the three.
ImplementsVaultSigning == Abstract!Spec

\* What main.rs:2644 asks of R4, for the tx of a send too: the transaction it
\* reports as signed carries a signature of that transaction.
SignedTxIsSpendable ==
  \A d \in Device :
    signedTx[d] # None => NetworkAccepts(signedTx[d].tx, signedTx[d].sig)
==============================================================================
