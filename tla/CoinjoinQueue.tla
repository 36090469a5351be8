---------------------------- MODULE CoinjoinQueue ----------------------------
(***************************************************************************)
(* The Whirlpool approval queue.  The companion pushes PSBTs over Quantum  *)
(* Link; the newest one waits in PENDING_PSBT, what was parsed from it in  *)
(* PENDING_SIGNING and on the screen.  APPROVE takes both and spawns a     *)
(* task that signs and sends the result until the companion answers;       *)
(* REJECT writes the screen.                                               *)
(*                                                                         *)
(* Subscription, handlers and tasks share the UI thread's executor: each   *)
(* runs alone from one await to the next, and that stretch is one action.  *)
(* A request stands for its bytes and for what is parsed from them, but its*)
(* mix id is cut from its first bytes, and two requests may share one.     *)
(***************************************************************************)
EXTENDS Naturals

CONSTANTS
  Psbt,        \* what the companion may push
  Valid,       \* the ones Psbt::deserialize accepts
  MixId,       \* MixId[p]: hex_short of p
  Task,        \* bound: approvals in flight
  MaxDeliver,  \* bound: MaxDeliver[p], how often the companion pushes p
  None

ASSUME ConstantsOK ==
  /\ Valid \subseteq Psbt
  /\ DOMAIN MixId = Psbt
  /\ MaxDeliver \in [Psbt -> Nat]
  /\ None \notin Psbt

Status == {"Idle", "CONFIRM_INPUT", "SIGNING", "SUCCESS", "FAIL"}

Mix == {MixId[p] : p \in Psbt} \cup {None}

\* An approval in flight: signing, sending, or sent with the answer on its way;
\* `mix` is the mix id its SigningResponse names.
Approval == [pc : {"sign", "send", "sent"}, psbt : Psbt, mix : Mix]

VARIABLES
  pendingPsbt,    \* PENDING_PSBT
  pendingSigning, \* PENDING_SIGNING
  shown,          \* the request whose mix id, inputs and sum are on the screen
  status,         \* mix_status
  task,           \* task[t]: an approval in flight, or None
  delivered,      \* history: delivered[p], how often p was pushed
  approved,       \* history: approved[p], how many approvals took p
  published,      \* the requests the companion has, signed
  rejected,       \* history: rejected on the screen and not pushed again since
  lost            \* history: approved requests a restart dropped unfinished

queue == <<pendingPsbt, pendingSigning>>
vars  == <<queue, shown, status, task, delivered, approved, published, rejected,
           lost>>

TypeOK ==
  /\ pendingPsbt \in Psbt \cup {None}
  /\ pendingSigning \in Psbt \cup {None}
  /\ shown \in Psbt \cup {None}
  /\ status \in Status
  /\ task \in [Task -> Approval \cup {None}]
  /\ delivered \in [Psbt -> Nat]
  /\ approved \in [Psbt -> Nat]
  /\ published \subseteq Psbt
  /\ rejected \subseteq Psbt
  /\ lost \subseteq Psbt

Booted ==
  /\ pendingPsbt = None /\ pendingSigning = None
  /\ shown = None /\ status = "Idle"
  /\ task = [t \in Task |-> None]

Init ==
  /\ Booted
  /\ delivered = [p \in Psbt |-> 0] /\ approved = [p \in Psbt |-> 0]
  /\ published = {} /\ rejected = {} /\ lost = {}

\* Mutant: the screen keeps the request whose approval is still in flight.
DeliverBehind(p) ==
  /\ delivered[p] < MaxDeliver[p]
  /\ delivered' = [delivered EXCEPT ![p] = @ + 1]
  /\ rejected' = rejected \ {p}
  /\ pendingPsbt' = p
  /\ IF p \in Valid
     THEN /\ pendingSigning' = p
          /\ shown' = IF \E t \in Task : task[t] # None THEN shown ELSE p
          /\ status' = "CONFIRM_INPUT"
     ELSE status' = "FAIL" /\ UNCHANGED <<pendingSigning, shown, lost>>
  /\ UNCHANGED <<task, approved, published, lost>>

\* Mutant: what was parsed is kept until an approval takes it.
DeliverKeepsMix(p) ==
  /\ delivered[p] < MaxDeliver[p]
  /\ delivered' = [delivered EXCEPT ![p] = @ + 1]
  /\ rejected' = rejected \ {p}
  /\ pendingPsbt' = p
  /\ IF p \in Valid
     THEN /\ pendingSigning' = IF pendingSigning = None THEN p ELSE pendingSigning
          /\ shown' = p /\ status' = "CONFIRM_INPUT"
     ELSE status' = "FAIL" /\ UNCHANGED <<pendingSigning, shown, lost>>
  /\ UNCHANGED <<task, approved, published, lost>>

\* The subscription: bytes that do not parse replace PENDING_PSBT only.
Deliver(p) ==
  /\ delivered[p] < MaxDeliver[p]
  /\ delivered' = [delivered EXCEPT ![p] = @ + 1]
  /\ rejected' = rejected \ {p}
  /\ pendingPsbt' = p
  /\ IF p \in Valid
     THEN pendingSigning' = p /\ shown' = p /\ status' = "CONFIRM_INPUT"
     ELSE status' = "FAIL" /\ UNCHANGED <<pendingSigning, shown, lost>>
  /\ UNCHANGED <<task, approved, published, lost>>

\* The queued metadata's mix id, or else the one on the screen.
MixOf == LET p == IF pendingSigning = None THEN shown ELSE pendingSigning
         IN  IF p = None THEN None ELSE MixId[p]

\* Mutant: the request stays queued.
ApproveLeaves(t) ==
  /\ task[t] = None
  /\ pendingPsbt # None
  /\ task' = [task EXCEPT ![t] = [pc |-> "sign", psbt |-> pendingPsbt, mix |-> MixOf]]
  /\ approved' = [approved EXCEPT ![pendingPsbt] = @ + 1]
  /\ status' = "SIGNING"
  /\ UNCHANGED <<queue, shown, delivered, published, rejected, lost>>

\* Mutant: takes a request without one queued.
ApproveUnqueued(t) ==
  /\ task[t] = None
  /\ task' = [task EXCEPT ![t] = [pc |-> "sign", psbt |-> pendingPsbt, mix |-> MixOf]]
  /\ status' = "SIGNING"
  /\ pendingPsbt' = None /\ pendingSigning' = None
  /\ UNCHANGED <<shown, delivered, approved, published, rejected, lost>>

\* on_approve_coinjoin with a request queued.
Approve(t) ==
  /\ task[t] = None
  /\ pendingPsbt # None
  /\ task' = [task EXCEPT ![t] = [pc |-> "sign", psbt |-> pendingPsbt, mix |-> MixOf]]
  /\ approved' = [approved EXCEPT ![pendingPsbt] = @ + 1]
  /\ status' = "SIGNING"
  /\ pendingPsbt' = None /\ pendingSigning' = None
  /\ UNCHANGED <<shown, delivered, published, rejected, lost>>

\* on_approve_coinjoin with none: the walkthrough completes on the screen.
ApproveNothing ==
  /\ pendingPsbt = None
  /\ pendingSigning' = None
  /\ status' = "SUCCESS"
  /\ UNCHANGED <<pendingPsbt, shown, task, delivered, approved, published,
                 rejected, lost>>

\* on_reject_coinjoin touches nothing but the screen.
Reject ==
  /\ status' = "FAIL"
  /\ rejected' = IF shown = None THEN rejected ELSE rejected \cup {shown}
  /\ UNCHANGED <<queue, shown, task, delivered, approved, published, lost>>

At(t, pc) == [pc |-> pc, psbt |-> task[t].psbt, mix |-> task[t].mix]

\* verify_and_sign_psbt
Sign(t) ==
  /\ task[t] # None /\ task[t].pc = "sign"
  /\ task[t].psbt \in Valid
  /\ task' = [task EXCEPT ![t] = At(t, "send")]
  /\ UNCHANGED <<queue, shown, status, delivered, approved, published, rejected,
                 lost>>

SignFails(t) ==
  /\ task[t] # None /\ task[t].pc = "sign"
  /\ task' = [task EXCEPT ![t] = None]
  /\ status' = "FAIL"
  /\ UNCHANGED <<queue, shown, delivered, approved, published, rejected, lost>>

\* The companion takes the signed PSBT; its answer may still be lost.
Taken(t) ==
  /\ task[t] # None /\ task[t].pc = "send"
  /\ task' = [task EXCEPT ![t] = At(t, "sent")]
  /\ published' = published \cup {task[t].psbt}
  /\ UNCHANGED <<queue, shown, status, delivered, approved, rejected, lost>>

\* Mutant: a failed broadcast is not tried again.
UnansweredGivesUp(t) ==
  /\ task[t] # None /\ task[t].pc \in {"send", "sent"}
  /\ task' = [task EXCEPT ![t] = None]
  /\ UNCHANGED <<queue, shown, status, delivered, approved, published, rejected,
                 lost>>

\* No answer, or a refusal: the loop yields and sends again.
Unanswered(t) ==
  /\ task[t] # None /\ task[t].pc \in {"send", "sent"}
  /\ task' = [task EXCEPT ![t] = At(t, "send")]
  /\ UNCHANGED <<queue, shown, status, delivered, approved, published, rejected,
                 lost>>

Answered(t) ==
  /\ task[t] # None /\ task[t].pc = "sent"
  /\ task' = [task EXCEPT ![t] = None]
  /\ status' = "SUCCESS"
  /\ UNCHANGED <<queue, shown, delivered, approved, published, rejected, lost>>

\* A restart: nothing of the queue is persisted.
Reboot ==
  /\ pendingPsbt' = None /\ pendingSigning' = None
  /\ shown' = None /\ status' = "Idle"
  /\ lost' = lost \cup {task[t].psbt : t \in {u \in Task : task[u] # None}}
  /\ task' = [t \in Task |-> None]
  /\ UNCHANGED <<delivered, approved, published, rejected>>

Next ==
  \/ \E p \in Psbt : Deliver(p)
  \/ ApproveNothing \/ Reject \/ Reboot
  \/ \E t \in Task :
       Approve(t) \/ Sign(t) \/ SignFails(t) \/ Taken(t) \/ Unanswered(t) \/ Answered(t)

Spec == Init /\ [][Next]_vars

\* The executor polls every task again (spawn_local, yield_now), and a companion
\* that is asked again and again takes the PSBT some time, and some time its
\* answer arrives.
Fairness ==
  \A t \in Task : /\ WF_vars(Sign(t) \/ SignFails(t))
                  /\ SF_vars(Taken(t))
                  /\ SF_vars(Answered(t))

FairSpec == Spec /\ Fairness

-------------------------------------------------------------------------------
(***************************************************************************)
(* Properties.                                                             *)
(***************************************************************************)

\* What an approval starts to sign is the request on the screen when APPROVE
\* was pressed ("REVIEW ON SECURE DISPLAY", README.md:213), however deliveries,
\* malformed requests and approvals in flight interleave.
SignsWhatIsShown ==
  [][\A t \in Task :
       (task[t] = None /\ task'[t] # None /\ task'[t].psbt \in Valid)
         => shown = task'[t].psbt]_vars

\* One push, one signature: a request is never approved more often than the
\* companion asked ("never auto-sign", main.rs:2146).
ApprovedAtMostOnceEach == \A p \in Psbt : approved[p] <= delivered[p]

\* The SigningResponse of a signed request names its mix, although bytes and
\* parsed metadata wait in two statics.
ResponseNamesItsRequest ==
  \A t \in Task :
    (task[t] # None /\ task[t].pc # "sign") => task[t].mix = MixId[task[t].psbt]

\* A signed request reaches the companion however often the link fails, unless
\* a restart loses it: the loop never gives up.
SignedIsPublished ==
  \A t \in Task : \A p \in Psbt :
    (task[t] # None /\ task[t].psbt = p /\ task[t].pc = "send")
      ~> p \in published \cup lost

\* README.md:216, "Reject -> nothing leaves the device": a request that was
\* rejected, and not pushed again, is not published afterwards.
RejectedStays == [][published' \cap rejected \subseteq published]_vars
==============================================================================
