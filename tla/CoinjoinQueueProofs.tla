------------------------- MODULE CoinjoinQueueProofs -------------------------
(***************************************************************************)
(* Proofs about CoinjoinQueue for any requests and any approvals in flight.*)
(***************************************************************************)
EXTENDS CoinjoinQueue, TLAPS

\* An approval that moves on is an approval.
LEMMA AtType ==
  ASSUME NEW t \in Task, task \in [Task -> Approval \cup {None}], task[t] # None,
         NEW pc \in {"sign", "send", "sent"}
  PROVE  [task EXCEPT ![t] = At(t, pc)] \in [Task -> Approval \cup {None}]
<1>1. task[t] \in Approval
  OBVIOUS
<1>2. At(t, pc) \in Approval
  BY <1>1 DEF At, Approval
<1> QED BY <1>2

LEMMA CountType ==
  ASSUME NEW f \in [Psbt -> Nat], NEW p \in Psbt
  PROVE  [f EXCEPT ![p] = @ + 1] \in [Psbt -> Nat]
OBVIOUS

LEMMA TypeStep ==
  ASSUME TypeOK, [Next]_vars
  PROVE  TypeOK'
<1>t. /\ task \in [Task -> Approval \cup {None}]
      /\ delivered \in [Psbt -> Nat]
      /\ approved \in [Psbt -> Nat]
  BY DEF TypeOK
<1>1. ASSUME NEW p \in Psbt, Deliver(p) PROVE TypeOK'
  <2>1. delivered' \in [Psbt -> Nat]
    BY <1>1, <1>t, CountType DEF Deliver
  <2>2. /\ pendingPsbt' \in Psbt /\ pendingSigning' \in Psbt \cup {None}
        /\ shown' \in Psbt \cup {None} /\ status' \in Status
        /\ rejected' \subseteq Psbt
    BY <1>1 DEF Deliver, TypeOK, Status
  <2> QED BY <1>1, <2>1, <2>2 DEF Deliver, TypeOK
<1>2. ASSUME NEW t \in Task, Approve(t) PROVE TypeOK'
  <2>1. pendingPsbt \in Psbt /\ MixOf \in Mix
    BY <1>2 DEF Approve, MixOf, Mix, TypeOK
  <2>2. [pc |-> "sign", psbt |-> pendingPsbt, mix |-> MixOf] \in Approval
    BY <2>1 DEF Approval
  <2>3. task' \in [Task -> Approval \cup {None}]
    BY <1>2, <1>t, <2>2 DEF Approve
  <2>4. approved' \in [Psbt -> Nat]
    BY <1>2, <1>t, <2>1, CountType DEF Approve
  <2> QED BY <1>2, <2>3, <2>4 DEF Approve, TypeOK, Status
<1>3. CASE ApproveNothing
  BY <1>3 DEF ApproveNothing, TypeOK, Status
<1>4. CASE Reject
  BY <1>4 DEF Reject, TypeOK, Status, queue
<1>5. ASSUME NEW t \in Task, Sign(t) PROVE TypeOK'
  <2>1. task' \in [Task -> Approval \cup {None}]
    BY <1>5, <1>t, AtType DEF Sign
  <2> QED BY <1>5, <2>1 DEF Sign, TypeOK, queue
<1>6. ASSUME NEW t \in Task, SignFails(t) \/ Answered(t) PROVE TypeOK'
  <2>1. task' = [task EXCEPT ![t] = None] /\ status' \in Status
    BY <1>6 DEF SignFails, Answered, Status
  <2>2. task' \in [Task -> Approval \cup {None}]
    BY <1>t, <2>1
  <2> QED BY <1>6, <2>1, <2>2 DEF SignFails, Answered, TypeOK, queue
<1>7. ASSUME NEW t \in Task, Taken(t) PROVE TypeOK'
  <2>1. task' \in [Task -> Approval \cup {None}]
    BY <1>7, <1>t, AtType DEF Taken
  <2>2. task[t] \in Approval
    BY <1>7, <1>t DEF Taken
  <2>3. published' \subseteq Psbt
    BY <1>7, <2>2 DEF Taken, TypeOK, Approval
  <2> QED BY <1>7, <2>1, <2>3 DEF Taken, TypeOK, queue
<1>8. ASSUME NEW t \in Task, Unanswered(t) PROVE TypeOK'
  <2>1. task' \in [Task -> Approval \cup {None}]
    BY <1>8, <1>t, AtType DEF Unanswered
  <2> QED BY <1>8, <2>1 DEF Unanswered, TypeOK, queue
<1>9. CASE Reboot
  <2>1. {task[t].psbt : t \in {u \in Task : task[u] # None}} \subseteq Psbt
    BY <1>t DEF Approval
  <2> QED BY <1>9, <2>1 DEF Reboot, TypeOK, Status
<1>10. CASE UNCHANGED vars
  BY <1>10 DEF vars, queue, TypeOK
<1> QED BY <1>1, <1>2, <1>3, <1>4, <1>5, <1>6, <1>7, <1>8, <1>9, <1>10
        DEF Next

LEMMA TypeInit == Init => TypeOK
BY DEF Init, Booted, TypeOK, Status

\* Every variable keeps its type.
THEOREM TypeCorrect == Spec => []TypeOK
<1> QED BY TypeInit, TypeStep, PTL DEF Spec

-------------------------------------------------------------------------------
(***************************************************************************)
(* A queued request that parses is the one parsed and the one on the       *)
(* screen; what approvals took of it and what is queued was pushed.        *)
(***************************************************************************)

QueueShown ==
  pendingPsbt \in Valid => pendingSigning = pendingPsbt /\ shown = pendingPsbt

\* A queued request is one push that no approval has taken yet.
PushesLeft ==
  \A p \in Psbt :
    approved[p] <= delivered[p] /\ (pendingPsbt = p => approved[p] < delivered[p])

MixKept ==
  \A t \in Task :
    (task[t] # None /\ task[t].psbt \in Valid) => task[t].mix = MixId[task[t].psbt]

SentIsValid ==
  \A t \in Task :
    (task[t] # None /\ task[t].pc # "sign") => task[t].psbt \in Valid

QueueInv == TypeOK /\ QueueShown /\ PushesLeft /\ MixKept /\ SentIsValid

LEMMA QueueInit == Init => QueueInv
<1> SUFFICES ASSUME Init PROVE QueueInv
  OBVIOUS
<1>1. TypeOK
  BY TypeInit
<1>2. PushesLeft
  <2>1. /\ pendingPsbt = None /\ None \notin Psbt
        /\ \A p \in Psbt : approved[p] = 0 /\ delivered[p] = 0
    BY ConstantsOK DEF Init, Booted
  <2>2. ASSUME NEW p \in Psbt PROVE approved[p] <= delivered[p]
    <3>1. approved[p] = 0 /\ delivered[p] = 0
      BY <2>1
    <3>2. 0 <= 0
      OBVIOUS
    <3> QED BY <3>1, <3>2, Zenon
  <2> QED BY <2>1, <2>2 DEF PushesLeft
<1>3. QueueShown /\ MixKept /\ SentIsValid
  BY ConstantsOK DEF Init, Booted, QueueShown, MixKept, SentIsValid
<1> QED BY <1>1, <1>2, <1>3 DEF QueueInv

LEMMA PushesStep ==
  ASSUME QueueInv, [Next]_vars
  PROVE  PushesLeft'
<1> USE DEF QueueInv, PushesLeft, queue
<1>t. /\ delivered \in [Psbt -> Nat] /\ approved \in [Psbt -> Nat]
      /\ pendingPsbt \in Psbt \cup {None} /\ None \notin Psbt
  BY ConstantsOK DEF TypeOK
<1>1. ASSUME NEW p \in Psbt, Deliver(p) PROVE PushesLeft'
  <2> SUFFICES ASSUME NEW q \in Psbt
               PROVE  /\ approved'[q] <= delivered'[q]
                      /\ pendingPsbt' = q => approved'[q] < delivered'[q]
    OBVIOUS
  <2>1. approved' = approved /\ pendingPsbt' = p
        /\ delivered' = [delivered EXCEPT ![p] = @ + 1]
    BY <1>1 DEF Deliver
  <2>2. approved[q] \in Nat /\ delivered[q] \in Nat /\ approved[q] <= delivered[q]
    BY <1>t
  <2> QED BY <1>t, <2>1, <2>2
<1>2. ASSUME NEW t \in Task, Approve(t) PROVE PushesLeft'
  <2> SUFFICES ASSUME NEW q \in Psbt
               PROVE  /\ approved'[q] <= delivered'[q]
                      /\ pendingPsbt' = q => approved'[q] < delivered'[q]
    OBVIOUS
  <2>1. /\ delivered' = delivered /\ pendingPsbt' = None
        /\ pendingPsbt \in Psbt
        /\ approved' = [approved EXCEPT ![pendingPsbt] = @ + 1]
    BY <1>2, <1>t DEF Approve
  <2>2. /\ approved[q] \in Nat /\ delivered[q] \in Nat
        /\ approved[q] <= delivered[q]
        /\ pendingPsbt = q => approved[q] < delivered[q]
    BY <1>t
  <2> QED BY <1>t, <2>1, <2>2
<1>3. CASE Reboot
  <2> SUFFICES ASSUME NEW q \in Psbt
               PROVE  /\ approved'[q] <= delivered'[q]
                      /\ pendingPsbt' = q => approved'[q] < delivered'[q]
    OBVIOUS
  <2>1. approved' = approved /\ delivered' = delivered /\ pendingPsbt' = None
    BY <1>3 DEF Reboot
  <2>2. approved[q] \in Nat /\ delivered[q] \in Nat /\ approved[q] <= delivered[q]
    BY <1>t
  <2> QED BY <1>t, <2>1, <2>2
<1>4. CASE UNCHANGED <<approved, delivered, pendingPsbt>>
  BY <1>4
<1>5. ASSUME NEW t \in Task,
             Sign(t) \/ SignFails(t) \/ Taken(t) \/ Unanswered(t) \/ Answered(t)
      PROVE  PushesLeft'
  BY <1>4, <1>5 DEF Sign, SignFails, Taken, Unanswered, Answered
<1> QED BY <1>1, <1>2, <1>3, <1>4, <1>5
        DEF Next, vars, ApproveNothing, Reject

LEMMA TasksStep ==
  ASSUME QueueInv, [Next]_vars
  PROVE  QueueShown' /\ MixKept' /\ SentIsValid'
<1> USE ConstantsOK DEF QueueInv, QueueShown, MixKept, SentIsValid, TypeOK, Approval, queue,
                     At
<1>1. ASSUME NEW p \in Psbt, Deliver(p) PROVE QueueShown' /\ MixKept' /\ SentIsValid'
  BY <1>1 DEF Deliver
<1>2. ASSUME NEW t \in Task, Approve(t) PROVE QueueShown' /\ MixKept' /\ SentIsValid'
  <2>1. pendingPsbt \in Valid => MixOf = MixId[pendingPsbt]
    BY DEF MixOf
  <2>2. /\ task' = [task EXCEPT ![t] = [pc |-> "sign", psbt |-> pendingPsbt, mix |-> MixOf]]
        /\ pendingPsbt' = None
    BY <1>2 DEF Approve
  <2> QED BY <2>1, <2>2
<1>3. CASE ApproveNothing \/ Reject
  BY <1>3 DEF ApproveNothing, Reject
<1>4. ASSUME NEW t \in Task, Sign(t) \/ SignFails(t) \/ Taken(t)
      PROVE  QueueShown' /\ MixKept' /\ SentIsValid'
  BY <1>4 DEF Sign, SignFails, Taken
<1>5. ASSUME NEW t \in Task, Unanswered(t) \/ Answered(t)
      PROVE  QueueShown' /\ MixKept' /\ SentIsValid'
  BY <1>5 DEF Unanswered, Answered
<1>6. CASE Reboot
  BY <1>6 DEF Reboot
<1>7. CASE UNCHANGED vars
  BY <1>7 DEF vars
<1> QED BY <1>1, <1>2, <1>3, <1>4, <1>5, <1>6, <1>7 DEF Next

LEMMA QueueStep == QueueInv /\ [Next]_vars => QueueInv'
BY TypeStep, PushesStep, TasksStep DEF QueueInv

\* No interleaving of pushes, approvals and restarts makes the device sign a
\* request more often than the companion pushed it.
THEOREM OneApprovalPerPush == Spec => []ApprovedAtMostOnceEach
<1>1. QueueInv => ApprovedAtMostOnceEach
  BY ConstantsOK DEF QueueInv, PushesLeft, ApprovedAtMostOnceEach, TypeOK
<1> QED BY <1>1, QueueInit, QueueStep, PTL DEF Spec

\* A signed request's response names its mix.
THEOREM ResponseNamed == Spec => []ResponseNamesItsRequest
<1>1. QueueInv => ResponseNamesItsRequest
  BY DEF QueueInv, MixKept, SentIsValid, ResponseNamesItsRequest
<1> QED BY <1>1, QueueInit, QueueStep, PTL DEF Spec

\* What APPROVE starts to sign is what the screen shows at that moment.
THEOREM SignsTheScreen == Spec => SignsWhatIsShown
<1> DEFINE Shown == \A t \in Task :
                      (task[t] = None /\ task'[t] # None /\ task'[t].psbt \in Valid)
                        => shown = task'[t].psbt
<1>1. ASSUME QueueInv, [Next]_vars PROVE [Shown]_vars
  <2> SUFFICES ASSUME Next, NEW t \in Task,
                      task[t] = None, task'[t] # None, task'[t].psbt \in Valid
               PROVE  shown = task'[t].psbt
    BY <1>1
  <2> USE <1>1 DEF QueueInv, TypeOK, queue
  <2>1. CASE \E k \in Task : Approve(k)
    <3>1. PICK k \in Task : Approve(k)
      BY <2>1
    <3>2. task' = [task EXCEPT ![k] = [pc |-> "sign", psbt |-> pendingPsbt, mix |-> MixOf]]
      BY <3>1 DEF Approve
    <3>3. k = t /\ task'[t].psbt = pendingPsbt
      BY <3>2
    <3> QED BY <3>3 DEF QueueShown
  <2>2. ASSUME NEW k \in Task, Sign(k) \/ SignFails(k) \/ Taken(k) \/ Unanswered(k)
                               \/ Answered(k)
        PROVE  FALSE
    <3>1. task[k] # None
      BY <2>2 DEF Sign, SignFails, Taken, Unanswered, Answered
    <3>2. task'[t] = task[t]
      BY <3>1, <2>2 DEF Sign, SignFails, Taken, Unanswered, Answered
    <3> QED BY <3>2
  <2>3. CASE Reboot
    BY <2>3 DEF Reboot
  <2>4. CASE ApproveNothing \/ Reject \/ \E p \in Psbt : Deliver(p)
    BY <2>4 DEF ApproveNothing, Reject, Deliver
  <2> QED BY <2>1, <2>2, <2>3, <2>4 DEF Next
<1>2. [Shown]_vars <=> [Shown]_vars
  OBVIOUS
<1> QED BY <1>1, QueueInit, QueueStep, PTL DEF Spec, SignsWhatIsShown
==============================================================================
