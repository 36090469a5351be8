----------------------------- MODULE SpendAmounts -----------------------------
(***************************************************************************)
(* The arithmetic of the transactions the app builds itself, over u64:     *)
(* satoshis, fees and change, with Rust's saturating and checked           *)
(* operations.  The width, the dust limit and the sizes are constants, so  *)
(* that small ones show every boundary; in the code they are 2^64 - 1,     *)
(* 546, and the estimates of the builders in virtual bytes.                *)
(***************************************************************************)
EXTENDS Naturals

CONSTANTS
  MaxU64,     \* the largest u64
  Dust,       \* the smallest change output
  FeeUnit,    \* 250: the size the fee typed on the Send page is for
  Overhead,   \* size of a hosted payment without its inputs: 10 + 31 * 2
  PerInput,   \* 68, size of an input of a hosted payment
  NotifyDust, \* 1000, what a notification pays the recipient
  NotifyFee,  \* 4 * (10 + 68 + 91 + 31 + 31), what it pays the network
  VaultSize,  \* 10 + 58 + 43 * 2, size of a vault spend
  None

\* What a built transaction pays: its recipient, the network, and itself.
Split == [amount : Nat, fee : Nat, change : Nat]

ASSUME SizesOK ==
  /\ MaxU64 \in Nat /\ Dust \in Nat \ {0} /\ FeeUnit \in Nat \ {0}
  /\ Overhead \in Nat /\ PerInput \in Nat
  /\ NotifyDust \in Nat /\ NotifyFee \in Nat
  /\ VaultSize \in Nat
  /\ None \notin Split

U64 == 0 .. MaxU64

Saturate(n) == IF n <= MaxU64 THEN n ELSE MaxU64
SatAdd(a, b) == Saturate(a + b)
SatMul(a, b) == Saturate(a * b)

-------------------------------------------------------------------------------
\* Mutant: a low fee becomes a rate of 0.
FeeRateUnclamped(fee) == fee \div FeeUnit

\* The hosted payments.  The Send page's fee becomes a rate of at least 1.
FeeRate(fee) == IF fee \div FeeUnit = 0 THEN 1 ELSE fee \div FeeUnit

PaymentSize(k) == Overhead + PerInput * k

PaymentFee(rate, k) == SatMul(rate, PaymentSize(k))

\* Mutant: asks for one satoshi more.
CoversStrictly(total, amount, rate, k) ==
  total > SatAdd(amount, PaymentFee(rate, k))

Covers(total, amount, rate, k) == total >= SatAdd(amount, PaymentFee(rate, k))

\* Mutant: any change becomes an output.
PaymentSplitDusty(total, amount, rate, k) ==
  LET change == total - SatAdd(amount, PaymentFee(rate, k))
  IN  [amount |-> amount, fee |-> total - amount - change, change |-> change]

\* Change under the dust limit is left to the fee.
PaymentSplit(total, amount, rate, k) ==
  LET rest   == total - SatAdd(amount, PaymentFee(rate, k))
      change == IF rest >= Dust THEN rest ELSE 0
  IN  [amount |-> amount, fee |-> total - amount - change, change |-> change]

-------------------------------------------------------------------------------
\* The notification of a first contact, from one coin of the given value.
NotifyCovers(value) == value >= SatAdd(NotifyDust, NotifyFee)

-------------------------------------------------------------------------------
\* Mutant: the fee wraps around.
VaultFeeWraps(r) == (r * VaultSize) % (MaxU64 + 1)

VaultFee(r) == SatMul(r, VaultSize)

\* VaultTx::build of a prevout of v satoshis that pays a at rate r: None for
\* InsufficientFunds.
VaultSplit(v, a, r) ==
  LET spent == a + VaultFee(r)
  IN  IF spent > MaxU64 \/ spent > v THEN None
      ELSE IF v - spent < Dust
      THEN [amount |-> a, fee |-> v - a, change |-> 0]
      ELSE [amount |-> a, fee |-> VaultFee(r), change |-> v - spent]
==============================================================================
