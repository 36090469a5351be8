------------------------- MODULE VaultCeremonyProofs -------------------------
(***************************************************************************)
(* Proofs about VaultCeremony for any devices, vaults, transactions and    *)
(* bounds: type correctness, all-of-N signing (AcceptedSignedByAll), and   *)
(* that the ceremony implements VaultSigning.                              *)
(***************************************************************************)
EXTENDS VaultCeremony, TLAPS

(***************************************************************************)
(* What VaultSpend's functions return.                                     *)
(***************************************************************************)

\* The index of a message is an index.
LEMMA IndexOfMsg ==
  ASSUME NEW m \in Msg
  PROVE  IndexOf[m] \in Index
BY DEF Index

\* A new spend is a VaultSpend.
LEMMA NewVaultSpendType ==
  ASSUME NEW m \in Msg, NEW i \in Index, NEW b \in BOOLEAN
  PROVE  NewVaultSpend(m, i, b) \in Spend
BY ConstantsOK DEF NewVaultSpend, Spend

\* nonce_agg counts every nonce at most twice.
LEMMA NonceAggType ==
  ASSUME NEW d \in Device, NEW sp \in Spend
  PROVE  NonceAgg(d, sp) \in AggNonce
BY DEF NonceAgg, AggNonce, Nonce, Spend

\* make_session returns a session.
LEMMA MakeSessionType ==
  ASSUME NEW sp \in Spend, NEW agg \in AggNonce, NEW v \in Vault
  PROVE  MakeSession(sp, agg, v) \in Session
BY DEF MakeSession, Session, Spend

\* set_session leaves a VaultSpend.
LEMMA AdoptType ==
  ASSUME NEW sp \in Spend, NEW q \in SessionQr, NEW v \in Vault
  PROVE  Adopt(sp, q, v) \in Spend
<1> DEFINE adopted == [sp EXCEPT !.msg = q.msg, !.index = q.index]
<1>1. adopted \in Spend
  BY DEF Spend, SessionQr
<1>2. MakeSession(adopted, q.agg, v) \in Session
  BY <1>1, MakeSessionType DEF SessionQr
<1> QED
  BY <1>1, <1>2 DEF Adopt, Spend

\* A device with a vault has one of the vaults.
LEMMA ConfigIsVault ==
  ASSUME TypeOK, NEW d \in Device, config[d] # {}
  PROVE  config[d] \in Vault
BY DEF TypeOK

-------------------------------------------------------------------------------
(***************************************************************************)
(* Type correctness.                                                       *)
(***************************************************************************)

LEMMA InitTypeOK == Init => TypeOK
BY ConstantsOK DEF Init, TypeOK

LEMMA NextTypeOK == TypeOK /\ [Next]_vars => TypeOK'
<1> SUFFICES ASSUME TypeOK, [Next]_vars
             PROVE  TypeOK'
  OBVIOUS
<1> USE ConstantsOK
<1>1. ASSUME NEW d \in Device, NEW v \in Vault, BuildVault(d, v)
      PROVE  TypeOK'
  BY <1>1 DEF TypeOK, BuildVault, pools
<1>2. ASSUME NEW d \in Device, NEW a \in Auth, NewSpend(d, a)
      PROVE  TypeOK'
  <2>1. a \in Msg /\ 0 \in Index
    BY IndexOfMsg DEF Msg
  <2>2. NewVaultSpend(a, 0, FALSE) \in Spend
    BY <2>1, NewVaultSpendType
  <2>3. opened' \in [Device -> 0 .. MaxSpends]
    <3>1. opened[d] + 1 \in 0 .. MaxSpends
      BY <1>2 DEF TypeOK, NewSpend
    <3> QED
      BY <1>2, <3>1 DEF TypeOK, NewSpend
  <2>4. spend' \in [Device -> Spend \cup {None}]
    BY <1>2, <2>2 DEF TypeOK, NewSpend
  <2> QED
    BY <1>2, <2>3, <2>4 DEF TypeOK, NewSpend, pools
<1>3. ASSUME NEW d \in Device, NEW t \in Tx, Send(d, t)
      PROVE  TypeOK'
  <2>1. t \in Msg /\ IndexOf[t] \in Index
    BY IndexOfMsg DEF Msg
  <2>2. NewVaultSpend(t, IndexOf[t], TRUE) \in Spend
    BY <2>1, NewVaultSpendType
  <2>3. opened' \in [Device -> 0 .. MaxSpends]
    <3>1. opened[d] + 1 \in 0 .. MaxSpends
      BY <1>3 DEF TypeOK, Send
    <3> QED
      BY <1>3, <3>1 DEF TypeOK, Send
  <2>4. spend' \in [Device -> Spend \cup {None}]
    BY <1>3, <2>2 DEF TypeOK, Send
  <2> QED
    BY <1>3, <2>3, <2>4 DEF TypeOK, Send, pools
<1>4. ASSUME NEW d \in Device, GenNonce(d)
      PROVE  TypeOK'
  <2>1. drawn[d] \in 0 .. MaxNonce /\ drawn[d] + 1 \in 1 .. MaxNonce
    BY <1>4 DEF TypeOK, GenNonce
  <2>2. spend[d] \in Spend
    BY <1>4 DEF TypeOK, GenNonce
  <2>3. [spend[d] EXCEPT !.nonce = drawn[d] + 1] \in Spend
    BY <2>1, <2>2 DEF Spend
  <2>4. spend' \in [Device -> Spend \cup {None}]
    BY <1>4, <2>3 DEF TypeOK, GenNonce
  <2>5. nonceQrs' \subseteq Nonce
    BY <1>4, <2>1 DEF TypeOK, GenNonce, Nonce
  <2>6. drawn' \in [Device -> 0 .. MaxNonce]
    BY <1>4, <2>1 DEF TypeOK, GenNonce
  <2> QED
    BY <1>4, <2>4, <2>5, <2>6 DEF TypeOK, GenNonce
<1>5. ASSUME NEW d \in Device, NEW q \in nonceQrs, ScanNonce(d, q)
      PROVE  TypeOK'
  <2>1. q \in Nonce /\ spend[d] \in Spend
    BY <1>5 DEF TypeOK, ScanNonce
  <2>2. [spend[d] EXCEPT !.nonces[q.by] = q.n] \in Spend
    BY <2>1 DEF Spend, Nonce
  <2> QED
    BY <1>5, <2>2 DEF TypeOK, ScanNonce, pools
<1>6. ASSUME NEW d \in Device, BuildSession(d)
      PROVE  TypeOK'
  <2> DEFINE agg == NonceAgg(d, spend[d])
  <2> DEFINE qr  == [msg |-> spend[d].msg, index |-> spend[d].index, agg |-> agg]
  <2> DEFINE ses == MakeSession(spend[d], agg, config[d])
  <2>1. spend[d] \in Spend /\ config[d] \in Vault
    BY <1>6, ConfigIsVault DEF TypeOK, BuildSession
  <2>2. agg \in AggNonce
    BY <2>1, NonceAggType
  <2>3. qr \in SessionQr
    BY <2>1, <2>2 DEF SessionQr, Spend
  <2>4. ses \in Session
    BY <2>1, <2>2, MakeSessionType
  <2>5. [spend[d] EXCEPT !.session = ses] \in Spend
    BY <2>1, <2>4 DEF Spend
  <2> HIDE DEF agg, qr, ses
  <2>6. /\ spend' = [spend EXCEPT ![d].session = ses]
        /\ sessionQrs' = sessionQrs \cup {qr}
    BY <1>6 DEF BuildSession, agg, qr, ses
  <2> QED
    BY <1>6, <2>3, <2>5, <2>6 DEF TypeOK, BuildSession
<1>7. ASSUME NEW d \in Device, NEW q \in sessionQrs, ScanSession(d, q)
      PROVE  TypeOK'
  <2>1. q \in SessionQr /\ spend[d] \in Spend /\ config[d] \in Vault
    BY <1>7, ConfigIsVault DEF TypeOK, ScanSession
  <2>2. Adopt(spend[d], q, config[d]) \in Spend
    BY <2>1, AdoptType
  <2> QED
    BY <1>7, <2>2 DEF TypeOK, ScanSession, pools
<1>8. ASSUME NEW d \in Device, Sign(d)
      PROVE  TypeOK'
  <2> DEFINE psig == [by |-> d, n |-> spend[d].nonce, session |-> spend[d].session]
  <2>1. spend[d] \in Spend
    BY <1>8 DEF TypeOK, Sign
  <2>2. psig \in Psig
    BY <1>8, <2>1 DEF Sign, Spend, Psig
  <2>3. [spend[d] EXCEPT !.psig = psig] \in Spend
    BY <2>1, <2>2 DEF Spend
  <2> HIDE DEF psig
  <2>4. /\ spend' = [spend EXCEPT ![d].psig = psig]
        /\ psigQrs' = psigQrs \cup {psig}
    BY <1>8 DEF Sign, psig
  <2> QED
    BY <1>8, <2>2, <2>3, <2>4 DEF TypeOK, Sign
<1>9. ASSUME NEW d \in Device, NEW q \in psigQrs, ScanPsig(d, q)
      PROVE  TypeOK'
  <2>1. q \in Psig /\ spend[d] \in Spend
    BY <1>9 DEF TypeOK, ScanPsig
  <2>2. [spend[d] EXCEPT !.psigs[q.by] = q] \in Spend
    BY <2>1 DEF Spend, Psig
  <2> QED
    BY <1>9, <2>2 DEF TypeOK, ScanPsig, pools
<1>10. ASSUME NEW d \in Device, Finalize(d)
       PROVE  TypeOK'
  <2> DEFINE s == SignatureOf(spend[d], config[d])
  <2>1. spend[d] \in Spend /\ config[d] \in Vault
    BY <1>10, ConfigIsVault DEF TypeOK, Finalize
  <2>2. s \in Signature
    BY <2>1 DEF SignatureOf, Signature, Spend
  <2> HIDE DEF s
  <2>3. /\ sig' = [sig EXCEPT ![d] = s]
        /\ signedTx' = IF tx[d] = None THEN signedTx
                       ELSE [signedTx EXCEPT ![d] = [tx |-> tx[d], sig |-> s]]
        /\ accepted' = accepted \cup {s}
    BY <1>10 DEF Finalize, s
  <2>4. signedTx' \in [Device -> [tx : Tx, sig : Signature] \cup {None}]
    BY <2>2, <2>3 DEF TypeOK
  <2> QED
    BY <1>10, <2>2, <2>3, <2>4 DEF TypeOK, Finalize, pools
<1>11. ASSUME NEW d \in Device, Broadcast(d)
       PROVE  TypeOK'
  BY <1>11 DEF TypeOK, Broadcast, pools
<1>12. ASSUME NEW d \in Device, Reboot(d)
       PROVE  TypeOK'
  BY <1>12 DEF TypeOK, Reboot, pools
<1>13. CASE UNCHANGED vars
  BY <1>13 DEF TypeOK, vars, pools
<1> QED
  BY <1>1, <1>2, <1>3, <1>4, <1>5, <1>6, <1>7, <1>8, <1>9, <1>10, <1>11, <1>12,
     <1>13 DEF Next, Ceremony

\* Every variable keeps its type, whatever the devices, vaults and bounds.
THEOREM TypeCorrect == Spec => []TypeOK
BY InitTypeOK, NextTypeOK, PTL DEF Spec

-------------------------------------------------------------------------------
(***************************************************************************)
(* All-of-N signing.  R4 only sees what a device collected, so the         *)
(* invariant is strengthened by where that came from: every partial        *)
(* signature a device holds was shown by the device that made it.          *)
(***************************************************************************)
PsigsShown ==
  \A d \in Device :
    spend[d] # None =>
      /\ spend[d].psig \in psigQrs \cup {None}
      /\ \A p \in Device : spend[d].psigs[p] \in psigQrs \cup {None}

SigningInv == TypeOK /\ PsigsShown /\ AcceptedSignedByAll

\* A step that shows further partial signatures takes none back, so what was
\* signed by all stays signed by all.
LEMMA SignedByAllStable ==
  ASSUME NEW s, SignedByAll(s), psigQrs \subseteq psigQrs'
  PROVE  SignedByAll(s)'
BY DEF SignedByAll, StatementOf

\* The pool of partial signatures only grows.
LEMMA PsigQrsGrow ==
  ASSUME [Next]_vars
  PROVE  psigQrs \subseteq psigQrs'
BY DEF Next, Ceremony, vars, pools, BuildVault, NewSpend, Send, GenNonce, ScanNonce,
       BuildSession, ScanSession, Sign, ScanPsig, Finalize, Broadcast, Reboot

\* What a device aggregates was shown by its makers.
LEMMA TriplesShown ==
  ASSUME PsigsShown, NEW d \in Device, spend[d] # None,
         NEW t \in Triples(d, spend[d])
  PROVE  t.psig \in psigQrs
BY DEF PsigsShown, Triples

\* R4 accepts only what every participant of the device's vault signed.
LEMMA FinalizeSignedByAll ==
  ASSUME TypeOK, PsigsShown, NEW d \in Device, Finalize(d)
  PROVE  SignedByAll(SignatureOf(spend[d], config[d]))
<1> DEFINE sp  == spend[d]
<1> DEFINE ses == sp.session
<1> DEFINE T   == Triples(d, sp)
<1>1. sp \in Spend /\ sp # None /\ config[d] \in Vault /\ ses \in Session
  BY ConfigIsVault DEF TypeOK, Finalize, FinalizeOK, Spend
<1>2. StatementOf(ses) = SignatureOf(sp, config[d]) /\ ses.pks = config[d]
  BY DEF Finalize, FinalizeOK, FinalSigVerifies, StatementOf, SignatureOf
<1>3. \A p \in ses.pks :
        \E q \in psigQrs : /\ q.by = p
                           /\ q.session = ses
                           /\ ses.agg[[by |-> p, n |-> q.n]] = 1
  <2> SUFFICES ASSUME NEW p \in ses.pks
               PROVE  \E q \in psigQrs : /\ q.by = p
                                         /\ q.session = ses
                                         /\ ses.agg[[by |-> p, n |-> q.n]] = 1
    OBVIOUS
  <2>1. PICK t \in T : t.pk = p
    BY DEF Finalize, FinalizeOK, PartialSigAggValid
  <2>2. t.psig \in psigQrs
    BY <1>1, <2>1, TriplesShown
  <2>3. t.psig \in Psig
    BY <2>2 DEF TypeOK
  <2>4. t.psig.by = p /\ t.psig.session = ses
    BY <2>1 DEF Finalize, FinalizeOK, PartialSigAggValid
  <2>5. [by |-> p, n |-> t.psig.n] \in Nonce
    BY <2>3, <2>4 DEF Psig, Nonce
  <2>6. ses.agg[[by |-> p, n |-> t.psig.n]] = 1
    BY <2>1, <2>4, <2>5 DEF Finalize, FinalizeOK, PartialSigAggValid
  <2> QED
    BY <2>2, <2>4, <2>6
<1>4. PICK p \in ses.pks : TRUE
  BY <1>1, ConstantsOK DEF Session
<1>5. ses \in {q.session : q \in psigQrs}
  BY <1>3, <1>4
<1> DEFINE s == SignatureOf(sp, config[d])
<1>6. s.vault = ses.pks /\ StatementOf(ses) = s
  BY <1>2 DEF SignatureOf
<1>7. SUFFICES SignedByAll(s)
  OBVIOUS
<1> HIDE DEF sp, ses, s
<1>8. \A r \in s.vault :
        \E q \in psigQrs : /\ q.by = r
                           /\ q.session = ses
                           /\ ses.agg[[by |-> r, n |-> q.n]] = 1
  BY <1>3, <1>6
<1> QED
  BY <1>5, <1>6, <1>8 DEF SignedByAll

\* Signing, scanning and opening spends keep only what was shown.
LEMMA NextPsigsShown ==
  ASSUME TypeOK, PsigsShown, [Next]_vars
  PROVE  PsigsShown'
<1>1. ASSUME NEW d \in Device, NEW v \in Vault, BuildVault(d, v)
      PROVE  PsigsShown'
  BY <1>1 DEF PsigsShown, BuildVault, pools
<1>2. ASSUME NEW d \in Device, NEW a \in Auth, NewSpend(d, a)
      PROVE  PsigsShown'
  BY <1>2 DEF TypeOK, PsigsShown, NewSpend, NewVaultSpend, pools
<1>3. ASSUME NEW d \in Device, NEW t \in Tx, Send(d, t)
      PROVE  PsigsShown'
  BY <1>3 DEF TypeOK, PsigsShown, Send, NewVaultSpend, pools
<1>4. ASSUME NEW d \in Device, GenNonce(d)
      PROVE  PsigsShown'
  <2>1. spend[d] \in Spend
    BY <1>4 DEF TypeOK, GenNonce
  <2> QED
    BY <1>4, <2>1 DEF TypeOK, PsigsShown, GenNonce, Spend
<1>5. ASSUME NEW d \in Device, NEW q \in nonceQrs, ScanNonce(d, q)
      PROVE  PsigsShown'
  <2>1. spend[d] \in Spend
    BY <1>5 DEF TypeOK, ScanNonce
  <2> QED
    BY <1>5, <2>1 DEF TypeOK, PsigsShown, ScanNonce, Spend, pools
<1>6. ASSUME NEW d \in Device, BuildSession(d)
      PROVE  PsigsShown'
  <2>1. spend[d] \in Spend
    BY <1>6 DEF TypeOK, BuildSession
  <2>2. PICK ses : spend' = [spend EXCEPT ![d].session = ses]
    BY <1>6 DEF BuildSession
  <2> QED
    BY <1>6, <2>1, <2>2 DEF TypeOK, PsigsShown, BuildSession, Spend
<1>7. ASSUME NEW d \in Device, NEW q \in sessionQrs, ScanSession(d, q)
      PROVE  PsigsShown'
  <2>1. spend[d] \in Spend
    BY <1>7 DEF TypeOK, ScanSession
  <2>2. /\ Adopt(spend[d], q, config[d]).psig = spend[d].psig
        /\ Adopt(spend[d], q, config[d]).psigs = spend[d].psigs
    BY <2>1 DEF Adopt, Spend
  <2> QED
    BY <1>7, <2>1, <2>2 DEF TypeOK, PsigsShown, ScanSession, pools
<1>8. ASSUME NEW d \in Device, Sign(d)
      PROVE  PsigsShown'
  <2> DEFINE psig == [by |-> d, n |-> spend[d].nonce, session |-> spend[d].session]
  <2>1. spend[d] \in Spend
    BY <1>8 DEF TypeOK, Sign
  <2> HIDE DEF psig
  <2>2. /\ spend' = [spend EXCEPT ![d].psig = psig]
        /\ psigQrs' = psigQrs \cup {psig}
    BY <1>8 DEF Sign, psig
  <2>3. spend'[d] = [spend[d] EXCEPT !.psig = psig]
    BY <2>2 DEF TypeOK
  <2>4. spend'[d].psig = psig /\ spend'[d].psigs = spend[d].psigs
    BY <2>1, <2>3 DEF Spend
  <2>5. \A e \in Device \ {d} : spend'[e] = spend[e]
    BY <2>2 DEF TypeOK
  <2>6. spend[d] # None
    BY <1>8 DEF Sign
  <2> QED
    BY <2>2, <2>4, <2>5, <2>6 DEF PsigsShown
<1>9. ASSUME NEW d \in Device, NEW q \in psigQrs, ScanPsig(d, q)
      PROVE  PsigsShown'
  <2>1. spend[d] \in Spend
    BY <1>9 DEF TypeOK, ScanPsig
  <2>2. q.by \in Device
    BY DEF TypeOK, Psig
  <2> QED
    BY <1>9, <2>1, <2>2 DEF TypeOK, PsigsShown, ScanPsig, Spend, pools
<1>10. ASSUME NEW d \in Device, Finalize(d)
       PROVE  PsigsShown'
  BY <1>10 DEF PsigsShown, Finalize, pools
<1>11. ASSUME NEW d \in Device, Broadcast(d)
       PROVE  PsigsShown'
  BY <1>11 DEF PsigsShown, Broadcast, pools
<1>12. ASSUME NEW d \in Device, Reboot(d)
       PROVE  PsigsShown'
  BY <1>12 DEF TypeOK, PsigsShown, Reboot, pools
<1>13. CASE UNCHANGED vars
  BY <1>13 DEF PsigsShown, vars, pools
<1> QED
  BY <1>1, <1>2, <1>3, <1>4, <1>5, <1>6, <1>7, <1>8, <1>9, <1>10, <1>11, <1>12,
     <1>13 DEF Next, Ceremony

\* Only R4 adds to the accepted signatures.
LEMMA AcceptedOnlyAtR4 ==
  ASSUME [Next]_vars
  PROVE  \/ accepted' = accepted
         \/ \E d \in Device :
              /\ Finalize(d)
              /\ accepted' = accepted \cup {SignatureOf(spend[d], config[d])}
BY DEF Next, Ceremony, vars, pools, BuildVault, NewSpend, Send, GenNonce, ScanNonce,
       BuildSession, ScanSession, Sign, ScanPsig, Finalize, Broadcast, Reboot

LEMMA NextSigningInv ==
  ASSUME SigningInv, [Next]_vars
  PROVE  SigningInv'
<1>1. TypeOK' /\ PsigsShown'
  BY NextTypeOK, NextPsigsShown DEF SigningInv
<1>2. psigQrs \subseteq psigQrs'
  BY PsigQrsGrow
<1>3. ASSUME NEW s \in accepted
      PROVE  SignedByAll(s)'
  BY <1>2, <1>3, SignedByAllStable DEF SigningInv, AcceptedSignedByAll
<1>4. ASSUME NEW d \in Device, Finalize(d)
      PROVE  SignedByAll(SignatureOf(spend[d], config[d]))
  BY <1>4, FinalizeSignedByAll DEF SigningInv
<1>5. ASSUME NEW s \in accepted'
      PROVE  SignedByAll(s)'
  <2>1. CASE s \in accepted
    BY <1>3, <2>1
  <2>2. CASE s \notin accepted
    <3>1. SignedByAll(s)
      BY <1>4, <1>5, <2>2, AcceptedOnlyAtR4
    <3> QED
      BY <1>2, <3>1, SignedByAllStable
  <2> QED
    BY <2>1, <2>2
<1>6. AcceptedSignedByAll'
  BY <1>5 DEF AcceptedSignedByAll
<1> QED
  BY <1>1, <1>6 DEF SigningInv

\* R4 never accepts a signature that a participant of the vault did not make
\* in the very session it belongs to.
THEOREM AllOfN == Spec => []AcceptedSignedByAll
<1>1. Init => SigningInv
  BY InitTypeOK DEF Init, SigningInv, PsigsShown, AcceptedSignedByAll
<1>2. SigningInv /\ [Next]_vars => SigningInv'
  BY NextSigningInv
<1>3. SigningInv => AcceptedSignedByAll
  BY DEF SigningInv
<1> QED
  BY <1>1, <1>2, <1>3, PTL DEF Spec
-------------------------------------------------------------------------------
(***************************************************************************)
(* Message and child index.  What is shown and accepted comes from what    *)
(* devices hold, so the invariant is strengthened by the same fact about   *)
(* every spend and every session a device holds.                           *)
(***************************************************************************)
SpendIndexed ==
  \A d \in Device :
    spend[d] # None =>
      /\ spend[d].index = IndexOf[spend[d].msg]
      /\ spend[d].session # None =>
           spend[d].session.index = IndexOf[spend[d].session.msg]

IndexInv == TypeOK /\ SpendIndexed /\ IndexFollowsMsg

\* A device that opens a spend with its message's index keeps SpendIndexed.
LEMMA OpenSpendIndexed ==
  ASSUME TypeOK, SpendIndexed, NEW d \in Device, NEW m \in Msg, NEW b,
         spend' = [spend EXCEPT ![d] = NewVaultSpend(m, IndexOf[m], b)]
  PROVE  SpendIndexed'
BY DEF TypeOK, SpendIndexed, NewVaultSpend

\* A device that changes neither message, index nor session keeps it too.
LEMMA SameMsgSpendIndexed ==
  ASSUME TypeOK, SpendIndexed, NEW d \in Device, spend[d] # None,
         \A e \in Device \ {d} : spend'[e] = spend[e],
         spend'[d].msg = spend[d].msg,
         spend'[d].index = spend[d].index,
         spend'[d].session = spend[d].session
  PROVE  SpendIndexed'
BY DEF SpendIndexed

\* The collected QRs and a rebuilt vault leave a spend its message.
LEMMA NextSpendIndexed ==
  ASSUME IndexInv, [Next]_vars
  PROVE  SpendIndexed'
<1> USE DEF IndexInv
<1>1. ASSUME NEW d \in Device, NEW a \in Auth, NewSpend(d, a)
      PROVE  SpendIndexed'
  BY <1>1, OpenSpendIndexed, ConstantsOK DEF NewSpend, Msg
<1>2. ASSUME NEW d \in Device, NEW t \in Tx, Send(d, t)
      PROVE  SpendIndexed'
  BY <1>2, OpenSpendIndexed DEF Send, Msg
<1>3. ASSUME NEW d \in Device, GenNonce(d)
      PROVE  SpendIndexed'
  <2>1. spend[d] \in Spend
    BY <1>3 DEF TypeOK, GenNonce
  <2> QED
    BY <1>3, <2>1, SameMsgSpendIndexed DEF TypeOK, GenNonce, Spend
<1>4. ASSUME NEW d \in Device, NEW q \in nonceQrs, ScanNonce(d, q)
      PROVE  SpendIndexed'
  <2>1. spend[d] \in Spend
    BY <1>4 DEF TypeOK, ScanNonce
  <2> QED
    BY <1>4, <2>1, SameMsgSpendIndexed DEF TypeOK, ScanNonce, Spend
<1>5. ASSUME NEW d \in Device, BuildSession(d)
      PROVE  SpendIndexed'
  <2> DEFINE ses == MakeSession(spend[d], NonceAgg(d, spend[d]), config[d])
  <2>1. spend[d] \in Spend /\ spend[d] # None
    BY <1>5 DEF TypeOK, BuildSession
  <2>2. ses.index = spend[d].index /\ ses.msg = spend[d].msg
    BY DEF MakeSession
  <2>3. spend' = [spend EXCEPT ![d].session = ses]
    BY <1>5 DEF BuildSession
  <2> HIDE DEF ses
  <2>4. spend'[d] = [spend[d] EXCEPT !.session = ses]
    BY <2>3 DEF TypeOK
  <2>5. /\ spend'[d].msg = spend[d].msg
        /\ spend'[d].index = spend[d].index
        /\ spend'[d].session = ses
    BY <2>1, <2>4 DEF Spend
  <2>6. \A e \in Device \ {d} : spend'[e] = spend[e]
    BY <2>3 DEF TypeOK
  <2> QED
    BY <2>1, <2>2, <2>5, <2>6 DEF SpendIndexed
<1>6. ASSUME NEW d \in Device, NEW q \in sessionQrs, ScanSession(d, q)
      PROVE  SpendIndexed'
  <2> DEFINE sp == Adopt(spend[d], q, config[d])
  <2>1. spend[d] \in Spend
    BY <1>6 DEF TypeOK, ScanSession
  <2>2. /\ sp.msg = q.msg /\ sp.index = q.index
        /\ sp.session.msg = q.msg /\ sp.session.index = q.index
    BY <2>1 DEF Adopt, MakeSession, Spend
  <2>3. q.index = IndexOf[q.msg]
    BY DEF IndexFollowsMsg
  <2>4. spend' = [spend EXCEPT ![d] = sp]
    BY <1>6 DEF ScanSession
  <2> HIDE DEF sp
  <2> QED
    BY <2>2, <2>3, <2>4 DEF TypeOK, SpendIndexed
<1>7. ASSUME NEW d \in Device, Sign(d)
      PROVE  SpendIndexed'
  <2>1. spend[d] \in Spend /\ spend[d] # None
    BY <1>7 DEF TypeOK, Sign
  <2>2. PICK psig : spend' = [spend EXCEPT ![d].psig = psig]
    BY <1>7 DEF Sign
  <2> QED
    BY <2>1, <2>2, SameMsgSpendIndexed DEF TypeOK, Spend
<1>8. ASSUME NEW d \in Device, NEW q \in psigQrs, ScanPsig(d, q)
      PROVE  SpendIndexed'
  <2>1. spend[d] \in Spend /\ spend[d] # None
    BY <1>8 DEF TypeOK, ScanPsig
  <2>2. spend' = [spend EXCEPT ![d].psigs[q.by] = q]
    BY <1>8 DEF ScanPsig
  <2> QED
    BY <2>1, <2>2, SameMsgSpendIndexed DEF TypeOK, Spend
<1>9. ASSUME NEW d \in Device, Reboot(d)
      PROVE  SpendIndexed'
  BY <1>9 DEF TypeOK, SpendIndexed, Reboot
<1>10. ASSUME UNCHANGED spend
       PROVE  SpendIndexed'
  BY <1>10 DEF SpendIndexed
<1>11. \/ UNCHANGED spend
       \/ \E d \in Device :
            \/ \E a \in Auth : NewSpend(d, a)
            \/ \E t \in Tx : Send(d, t)
            \/ GenNonce(d)
            \/ \E q \in nonceQrs : ScanNonce(d, q)
            \/ BuildSession(d)
            \/ \E q \in sessionQrs : ScanSession(d, q)
            \/ Sign(d)
            \/ \E q \in psigQrs : ScanPsig(d, q)
            \/ Reboot(d)
  BY DEF Next, Ceremony, vars, BuildVault, Finalize, Broadcast
<1> QED
  BY <1>1, <1>2, <1>3, <1>4, <1>5, <1>6, <1>7, <1>8, <1>9, <1>10, <1>11

LEMMA NextIndexInv ==
  ASSUME IndexInv, [Next]_vars
  PROVE  IndexInv'
<1>1. TypeOK' /\ SpendIndexed'
  BY NextTypeOK, NextSpendIndexed DEF IndexInv
<1>2. ASSUME NEW d \in Device, BuildSession(d)
      PROVE  IndexFollowsMsg'
  BY <1>2 DEF IndexInv, SpendIndexed, IndexFollowsMsg, BuildSession
<1>3. ASSUME NEW d \in Device, Sign(d)
      PROVE  IndexFollowsMsg'
  BY <1>3 DEF IndexInv, SpendIndexed, IndexFollowsMsg, Sign
<1>4. ASSUME NEW d \in Device, Finalize(d)
      PROVE  IndexFollowsMsg'
  <2> DEFINE s == SignatureOf(spend[d], config[d])
  <2>1. s.index = IndexOf[s.msg]
    BY <1>4 DEF IndexInv, SpendIndexed, Finalize, SignatureOf
  <2>2. /\ UNCHANGED <<sessionQrs, psigQrs>>
        /\ accepted' = accepted \cup {s}
    BY <1>4 DEF Finalize, pools
  <2> HIDE DEF s
  <2> QED
    BY <2>1, <2>2 DEF IndexInv, IndexFollowsMsg
<1>5. ASSUME UNCHANGED <<sessionQrs, psigQrs, accepted>>
      PROVE  IndexFollowsMsg'
  BY <1>5 DEF IndexInv, IndexFollowsMsg
<1>6. \/ UNCHANGED <<sessionQrs, psigQrs, accepted>>
      \/ \E d \in Device : BuildSession(d) \/ Sign(d) \/ Finalize(d)
  BY DEF Next, Ceremony, vars, pools, BuildVault, NewSpend, Send, GenNonce,
         ScanNonce, ScanSession, ScanPsig, Broadcast, Reboot
<1>7. IndexFollowsMsg'
  BY <1>2, <1>3, <1>4, <1>5, <1>6
<1> QED
  BY <1>1, <1>7 DEF IndexInv

\* A signature, a session or a partial signature never pairs a message with
\* another message's child index.
THEOREM IndexAndMsgTogether == Spec => []IndexFollowsMsg
<1>1. Init => IndexInv
  BY InitTypeOK DEF Init, IndexInv, SpendIndexed, IndexFollowsMsg
<1>2. IndexInv /\ [Next]_vars => IndexInv'
  BY NextIndexInv
<1>3. IndexInv => IndexFollowsMsg
  BY DEF IndexInv
<1> QED
  BY <1>1, <1>2, <1>3, PTL DEF Spec

-------------------------------------------------------------------------------
(***************************************************************************)
(* What BROADCAST sends.  R4 is the only writer of a signature, and every  *)
(* handler that replaces the transaction forgets the signature.            *)
(***************************************************************************)
\* VAULT_TX with vault_sig is always the signed transaction R4 showed.
THEOREM BroadcastShown == Spec => []BroadcastIsWhatR4Showed
<1>1. Init => BroadcastIsWhatR4Showed
  BY DEF Init, BroadcastIsWhatR4Showed
<1>2. TypeOK /\ BroadcastIsWhatR4Showed /\ [Next]_vars => BroadcastIsWhatR4Showed'
  <2> SUFFICES ASSUME TypeOK, BroadcastIsWhatR4Showed, [Next]_vars
               PROVE  BroadcastIsWhatR4Showed'
    OBVIOUS
  <2>1. ASSUME NEW d \in Device, NEW a \in Auth, NewSpend(d, a)
        PROVE  BroadcastIsWhatR4Showed'
    BY <2>1 DEF TypeOK, BroadcastIsWhatR4Showed, NewSpend
  <2>2. ASSUME NEW d \in Device, NEW t \in Tx, Send(d, t)
        PROVE  BroadcastIsWhatR4Showed'
    BY <2>2 DEF TypeOK, BroadcastIsWhatR4Showed, Send
  <2>3. ASSUME NEW d \in Device, Finalize(d)
        PROVE  BroadcastIsWhatR4Showed'
    BY <2>3 DEF TypeOK, BroadcastIsWhatR4Showed, Finalize
  <2>4. ASSUME NEW d \in Device, Reboot(d)
        PROVE  BroadcastIsWhatR4Showed'
    BY <2>4 DEF TypeOK, BroadcastIsWhatR4Showed, Reboot
  <2>5. CASE UNCHANGED <<tx, sig, signedTx>>
    BY <2>5 DEF BroadcastIsWhatR4Showed
  <2>6. \/ UNCHANGED <<tx, sig, signedTx>>
        \/ \E d \in Device : \/ \E a \in Auth : NewSpend(d, a)
                             \/ \E t \in Tx : Send(d, t)
                             \/ Finalize(d)
                             \/ Reboot(d)
    BY DEF Next, Ceremony, vars, BuildVault, GenNonce, ScanNonce, BuildSession,
           ScanSession, Sign, ScanPsig, Broadcast
  <2> QED
    BY <2>1, <2>2, <2>3, <2>4, <2>5, <2>6
<1> QED
  BY <1>1, <1>2, TypeCorrect, PTL DEF Spec

-------------------------------------------------------------------------------
(***************************************************************************)
(* The ceremony implements VaultSigning.  R3 is Approve, R4 is Release (by *)
(* FinalizeSignedByAll), BROADCAST is Settle; the last needs that a device *)
(* holds only signatures R4 accepted.                                      *)
(***************************************************************************)
SigAccepted == \A d \in Device : sig[d] \in accepted \cup {None}

LEMMA NextSigAccepted ==
  ASSUME TypeOK, SigAccepted, [Next]_vars
  PROVE  SigAccepted'
<1>1. ASSUME NEW d \in Device, Finalize(d)
      PROVE  SigAccepted'
  BY <1>1 DEF TypeOK, SigAccepted, Finalize
<1>2. ASSUME NEW d \in Device,
             \A e \in Device : sig'[e] \in {sig[e], None},
             accepted' = accepted
      PROVE  SigAccepted'
  BY <1>2 DEF SigAccepted
<1>3. \/ \E d \in Device : Finalize(d)
      \/ (\A e \in Device : sig'[e] \in {sig[e], None}) /\ accepted' = accepted
  BY DEF TypeOK, Next, Ceremony, vars, BuildVault, NewSpend, Send, GenNonce,
         ScanNonce, BuildSession, ScanSession, Sign, ScanPsig, Broadcast, Reboot
<1> QED
  BY <1>1, <1>2, <1>3 DEF SigAccepted

\* R3 approves the statement of the session it signs.
LEMMA SignApproves ==
  ASSUME TypeOK, NEW d \in Device, Sign(d)
  PROVE  Abstract!Next
<1> DEFINE ses == spend[d].session
<1> DEFINE s   == StatementOf(ses)
<1>1. ses \in Session /\ d \in ses.pks
  BY DEF TypeOK, Sign, Spend
<1>2. s \in Signature /\ d \in SignersOf(s)
  BY <1>1 DEF StatementOf, Session, Signature, SignersOf
<1> DEFINE psig == [by |-> d, n |-> spend[d].nonce, session |-> ses]
<1>3. psigQrs' = psigQrs \cup {psig}
  BY DEF Sign
<1>4. Approvals' = Approvals \cup {[by |-> d, what |-> s]}
  <2>1. psig.by = d /\ StatementOf(psig.session) = s
    OBVIOUS
  <2> HIDE DEF psig, s
  <2> QED
    BY <1>3, <2>1 DEF Approvals
<1>5. UNCHANGED <<accepted, Settled>>
  BY DEF Sign, Settled
<1> QED
  BY <1>2, <1>4, <1>5 DEF Abstract!Next, Abstract!Approve

\* R4 releases only what every signer approved.
LEMMA FinalizeReleases ==
  ASSUME TypeOK, PsigsShown, NEW d \in Device, Finalize(d)
  PROVE  Abstract!Next
<1> DEFINE s == SignatureOf(spend[d], config[d])
<1>1. s \in Signature
  BY ConfigIsVault DEF TypeOK, Finalize, SignatureOf, Spend, Signature
<1>2. SignedByAll(s)
  BY FinalizeSignedByAll
<1>3. \A p \in SignersOf(s) : [by |-> p, what |-> s] \in Approvals
  <2> SUFFICES ASSUME NEW p \in s.vault
               PROVE  [by |-> p, what |-> s] \in Approvals
    BY DEF SignersOf
  <2> HIDE DEF s
  <2>1. PICK ses : /\ StatementOf(ses) = s
                   /\ \E q \in psigQrs : q.by = p /\ q.session = ses
    BY <1>2 DEF SignedByAll
  <2>2. PICK q \in psigQrs : q.by = p /\ q.session = ses
    BY <2>1
  <2> QED
    BY <2>1, <2>2 DEF Approvals
<1>4. accepted' = accepted \cup {s} /\ UNCHANGED <<Approvals, Settled>>
  BY DEF Finalize, Approvals, Settled, pools
<1> QED
  BY <1>1, <1>3, <1>4 DEF Abstract!Next, Abstract!Release

\* BROADCAST settles a released statement.
LEMMA BroadcastSettles ==
  ASSUME TypeOK, SigAccepted, NEW d \in Device, Broadcast(d)
  PROVE  Abstract!Next
<1> DEFINE s == sig[d]
<1>1. s \in Signature /\ s \in accepted
  BY DEF TypeOK, SigAccepted, Broadcast
<1>2. Settled' = Settled \cup {s}
  BY DEF Broadcast, NetworkAccepts, Settled
<1>3. UNCHANGED <<Approvals, accepted>>
  BY DEF Broadcast, Approvals, pools
<1> QED
  BY <1>1, <1>2, <1>3 DEF Abstract!Next, Abstract!Settle

\* Every step of the ceremony is a step of VaultSigning or a stutter.
LEMMA StepImplements ==
  ASSUME SigningInv, SigAccepted, [Next]_vars
  PROVE  [Abstract!Next]_<<Approvals, accepted, Settled>>
<1> USE DEF SigningInv
<1>1. ASSUME UNCHANGED <<psigQrs, accepted, published>>
      PROVE  UNCHANGED <<Approvals, accepted, Settled>>
  BY <1>1 DEF Approvals, Settled
<1>2. \/ UNCHANGED <<psigQrs, accepted, published>>
      \/ \E d \in Device : Sign(d) \/ Finalize(d) \/ Broadcast(d)
  BY DEF Next, Ceremony, vars, pools, BuildVault, NewSpend, Send, GenNonce,
         ScanNonce, BuildSession, ScanSession, ScanPsig, Reboot
<1> QED
  BY <1>1, <1>2, SignApproves, FinalizeReleases, BroadcastSettles

\* The ceremony implements all-of-N signing.
THEOREM Refinement == Spec => ImplementsVaultSigning
<1>1. Init => Abstract!Init
  BY DEF Init, Abstract!Init, Approvals, Settled
<1>2. Init => SigningInv /\ SigAccepted
  BY InitTypeOK DEF Init, SigningInv, PsigsShown, AcceptedSignedByAll, SigAccepted
<1>3. SigningInv /\ SigAccepted /\ [Next]_vars => (SigningInv /\ SigAccepted)'
  BY NextSigningInv, NextSigAccepted DEF SigningInv
<1>4. SigningInv /\ SigAccepted /\ [Next]_vars => [Abstract!Next]_(Abstract!vars)
  BY StepImplements DEF Abstract!vars
<1> QED
  BY <1>1, <1>2, <1>3, <1>4, PTL DEF Spec, ImplementsVaultSigning, Abstract!Spec
===============================================================================
