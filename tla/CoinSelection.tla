---------------------------- MODULE CoinSelection ----------------------------
(***************************************************************************)
(* The coins of a hosted BIP47 send: the notification's, chosen first, and *)
(* the payment's, chosen greedily, largest first, while each coin picked   *)
(* also makes the transaction larger and its fee higher.                   *)
(*                                                                         *)
(* The builders ask the node for the wallet's coins twice.  Either answer  *)
(* may lack any of them: queries that fail are skipped, and between the    *)
(* two the node may or may not have seen the notification.  The change     *)
(* index the builders take is AppConfig's.                                 *)
(*                                                                         *)
(* A vault's send spends one coin: VaultDiscovery's largest, or one typed  *)
(* in.                                                                     *)
(***************************************************************************)
EXTENDS SpendAmounts, FiniteSets, FiniteSetsExt

CONSTANTS
  Coin,    \* the wallet's outpoints
  Value,   \* values coins may have
  Amount,  \* amounts the user may type
  Fee      \* fees the user may type

ASSUME InputsOK ==
  /\ IsFiniteSet(Coin)
  /\ Value \subseteq U64 /\ Amount \subseteq U64 \ {0} /\ Fee \subseteq U64
  /\ None \notin Coin

VARIABLES
  value,     \* value[c]
  amount,    \* what is sent
  rate,      \* at which fee rate
  pc,        \* where the send is
  excluded,  \* the notification's coin
  available, \* coins the payment may still pick
  picked,    \* coins the payment spends
  total,     \* their sum
  split      \* what the built payment pays

vars == <<value, amount, rate, pc, excluded, available, picked, total, split>>

TypeOK ==
  /\ value \in [Coin -> U64]
  /\ amount \in U64 \ {0}
  /\ rate \in Nat \ {0}
  /\ pc \in {"notify", "discover", "pick", "built", "poor", "failed",
             "vault", "spends", "refused"}
  /\ excluded \in Coin \cup {None}
  /\ available \subseteq Coin
  /\ picked \subseteq Coin
  /\ total \in U64
  /\ split \in Split \cup {None}

Init ==
  /\ value \in [Coin -> Value]
  /\ amount \in Amount
  /\ \E fee \in Fee : rate = FeeRate(fee)
  /\ pc \in {"notify", "discover", "vault"}
  /\ excluded = None
  /\ available = {} /\ picked = {} /\ total = 0
  /\ split = None

IsLargest(c, S) == c \in S /\ \A d \in S : value[d] <= value[c]

\* build_hosted_notification_psbt on a first contact: the largest coin, alone,
\* has to pay for it.  Without any coin the notification is put off.
Notify(found) ==
  /\ pc = "notify"
  /\ \/ found = {} /\ pc' = "discover" /\ UNCHANGED excluded
     \/ \E c \in found :
          /\ IsLargest(c, found)
          /\ \/ NotifyCovers(value[c]) /\ pc' = "discover" /\ excluded' = c
             \/ ~NotifyCovers(value[c]) /\ pc' = "failed" /\ UNCHANGED excluded
  /\ UNCHANGED <<value, amount, rate, available, picked, total, split>>

\* Mutant: the notification's coin stays among the payment's.
DiscoverAll(found) ==
  /\ pc = "discover"
  /\ available' = found
  /\ pc' = IF available' = {} THEN "failed" ELSE "pick"
  /\ UNCHANGED <<value, amount, rate, excluded, picked, total, split>>

\* build_hosted_signed_psbt up to its loop.
Discover(found) ==
  /\ pc = "discover"
  /\ available' = found \ {excluded}
  /\ pc' = IF available' = {} THEN "failed" ELSE "pick"
  /\ UNCHANGED <<value, amount, rate, excluded, picked, total, split>>

Enough == picked # {} /\ Covers(total, amount, rate, Cardinality(picked))

\* Mutant: smallest first.
PickSmallest ==
  /\ pc = "pick" /\ ~Enough
  /\ \E c \in available :
       /\ \A d \in available : value[c] <= value[d]
       /\ available' = available \ {c}
       /\ picked' = picked \cup {c}
       /\ total' = SatAdd(total, value[c])
  /\ UNCHANGED <<value, amount, rate, pc, excluded, split>>

Pick ==
  /\ pc = "pick" /\ ~Enough
  /\ \E c \in available :
       /\ IsLargest(c, available)
       /\ available' = available \ {c}
       /\ picked' = picked \cup {c}
       /\ total' = SatAdd(total, value[c])
  /\ UNCHANGED <<value, amount, rate, pc, excluded, split>>

Build ==
  /\ pc = "pick" /\ Enough
  /\ pc' = "built"
  /\ split' = PaymentSplit(total, amount, rate, Cardinality(picked))
  /\ UNCHANGED <<value, amount, rate, excluded, available, picked, total>>

\* Every coin is picked and they are not enough.
Poor ==
  /\ pc = "pick" /\ available = {} /\ ~Enough
  /\ pc' = "poor"
  /\ UNCHANGED <<value, amount, rate, excluded, available, picked, total, split>>

\* The node, the wallet or its signing reports an error.
Fails ==
  /\ pc \in {"notify", "discover", "pick"}
  /\ pc' = "failed"
  /\ UNCHANGED <<value, amount, rate, excluded, available, picked, total, split>>

\* VaultTx::build, of a vault's send at the rate picked.
VaultBuild(c, picks) ==
  /\ pc = "vault"
  /\ picked' = {c}
  /\ total' = value[c]
  /\ rate' = IF picks = 0 THEN 1 ELSE picks
  /\ split' = VaultSplit(total', amount, rate')
  /\ pc' = IF split' = None THEN "refused" ELSE "spends"
  /\ UNCHANGED <<value, amount, excluded, available>>

Next ==
  \/ \E found \in SUBSET Coin : Notify(found) \/ Discover(found)
  \/ Pick \/ Build \/ Poor \/ Fails
  \/ \E c \in Coin, picks \in Fee : VaultBuild(c, picks)

Spec == Init /\ [][Next]_vars

-------------------------------------------------------------------------------
(***************************************************************************)
(* Properties.                                                             *)
(***************************************************************************)

\* README.md:91, "the two can never collide": the payment spends no coin that
\* the notification of the same send spends.
NeverCollides == excluded \notin picked

\* Nothing is lost and nobody overpays: amount, fee and change are what the
\* picked coins hold, the fee is the rate's for this many inputs and less than
\* a dust output more, and change is no dust.  2^64 satoshis do not exist.
AmountsRight ==
  (pc = "built" /\ total < MaxU64) =>
    LET owed == rate * (Overhead + PerInput * Cardinality(picked))
    IN  /\ total = split.amount + split.fee + split.change
        /\ split.amount = amount
        /\ split.fee >= owed /\ split.fee < owed + Dust
        /\ split.change = 0 \/ split.change >= Dust

\* vault.rs:812-830: a vault's send is refused exactly if its coin does not pay
\* amount and fee, computed without a bound; otherwise nothing is lost, the fee
\* is the rate's and less than a dust output more, and change is no dust.
VaultAmountsRight ==
  (pc \in {"spends", "refused"} /\ total < MaxU64) =>
    LET owed == rate * VaultSize
    IN  IF amount + owed > total THEN pc = "refused"
        ELSE /\ pc = "spends"
             /\ total = split.amount + split.fee + split.change
             /\ split.amount = amount
             /\ split.fee >= owed /\ split.fee < owed + Dust
             /\ split.change = 0 \/ split.change >= Dust

\* What the coins of S hold, by their values v.
SumOf(v, S) == MapThenSumSet(LAMBDA c : v[c], S)

\* What it takes, in unbounded arithmetic, to pay from the coins of S.
Suffices(S) ==
  SumOf(value, S) >= amount + rate * (Overhead + PerInput * Cardinality(S))

\* The greedy choice is enough, unless its sum or what is needed does not fit
\* in a u64, and uses as few inputs as any choice could.
FewestCoins ==
  pc = "built" =>
    /\ total < MaxU64 => Suffices(picked)
    /\ \A S \in SUBSET (available \cup picked) :
         Suffices(S) /\ S # {} => Cardinality(S) >= Cardinality(picked)

\* "Insufficient funds" is said only if no choice among the coins would do,
\* although a coin may cost more than it brings.
FailsOnlyWhenPoor ==
  pc = "poor" => \A S \in (SUBSET picked) \ {{}} : ~Suffices(S)
==============================================================================
