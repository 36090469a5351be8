------------------------- MODULE CoinSelectionProofs -------------------------
(***************************************************************************)
(* For any coins, values, amounts and fees: the two transactions of a send *)
(* spend different coins, what a built transaction pays adds up, and the   *)
(* greedy choice of coins uses as few as can be and gives up only if no    *)
(* choice pays.                                                            *)
(***************************************************************************)
EXTENDS CoinSelection, FoldTheorems, FiniteSetTheorems, TLAPS

\* What a payment pays when its total did not saturate: any u64 amounts, any
\* fee owed.  CoinSelection!AmountsRight says this of a state.
Balanced(s, sum, owed) ==
  /\ sum = s.amount + s.fee + s.change
  /\ s.fee >= owed /\ s.fee < owed + Dust
  /\ s.change = 0 \/ s.change >= Dust

\* Saturating a sum that is below the largest u64 changed nothing.
LEMMA SaturateBelow ==
  ASSUME NEW n \in Nat, Saturate(n) < MaxU64
  PROVE  Saturate(n) = n
  BY SizesOK DEF Saturate

LEMMA SatAddBelow ==
  ASSUME NEW a \in Nat, NEW n \in Nat, SatAdd(a, Saturate(n)) < MaxU64
  PROVE  SatAdd(a, Saturate(n)) = a + n
  BY SizesOK DEF Saturate, SatAdd

\* The split of a payment whose coins cover it is balanced.
LEMMA PaymentBalanced ==
  ASSUME NEW sum \in Nat, NEW amt \in Nat, NEW r \in Nat, NEW k \in Nat,
         sum < MaxU64, Covers(sum, amt, r, k)
  PROVE  /\ PaymentSplit(sum, amt, r, k) \in Split
         /\ PaymentSplit(sum, amt, r, k).amount = amt
         /\ Balanced(PaymentSplit(sum, amt, r, k), sum, r * PaymentSize(k))
  <1> DEFINE owed == r * PaymentSize(k)
             need == SatAdd(amt, PaymentFee(r, k))
             rest == sum - need
             change == IF rest >= Dust THEN rest ELSE 0
  <1>1. owed \in Nat
    <2>1. PerInput * k \in Nat BY SizesOK
    <2>2. PaymentSize(k) \in Nat BY <2>1, SizesOK DEF PaymentSize
    <2> QED BY <2>2
  <1>2. need = SatAdd(amt, Saturate(owed)) BY DEF PaymentFee, SatMul
  <1>3. sum >= need BY DEF Covers
  <1>4. need \in Nat
    BY <1>1, <1>2, SizesOK DEF SatAdd, Saturate
  <1>5. need < MaxU64 BY <1>3, <1>4, SizesOK
  <1>6. need = amt + owed BY <1>1, <1>2, <1>5, SatAddBelow
  <1> HIDE DEF owed, need
  <1>7. rest \in Nat /\ change \in Nat BY <1>3, <1>4
  <1>8. PaymentSplit(sum, amt, r, k)
          = [amount |-> amt, fee |-> sum - amt - change, change |-> change]
    BY DEF PaymentSplit, need
  <1>9. /\ sum - amt - change \in Nat
        /\ sum - amt - change >= owed /\ sum - amt - change < owed + Dust
        /\ sum = amt + (sum - amt - change) + change
        /\ change = 0 \/ change >= Dust
    BY <1>1, <1>3, <1>4, <1>6, <1>7, SizesOK
  <1> QED BY <1>7, <1>8, <1>9 DEF Balanced, Split, owed

\* VaultTx::build, vault.rs: whatever it builds is balanced, for any prevout,
\* amount and rate whose fee does not saturate; it builds one exactly when the
\* prevout holds amount and fee and their sum fits in a u64.
THEOREM VaultBalanced ==
  ASSUME NEW v \in U64, NEW amt \in U64, NEW r \in U64, r * VaultSize <= MaxU64
  PROVE  /\ VaultSplit(v, amt, r) # None <=> v >= amt + r * VaultSize
         /\ VaultSplit(v, amt, r) # None =>
              /\ VaultSplit(v, amt, r).amount = amt
              /\ Balanced(VaultSplit(v, amt, r), v, r * VaultSize)
  <1> DEFINE owed == r * VaultSize
             sum  == amt + VaultFee(r)
  <1>1. owed \in Nat /\ v \in Nat /\ amt \in Nat /\ v <= MaxU64
    BY SizesOK DEF U64
  <1>2. VaultFee(r) = owed BY <1>1 DEF VaultFee, SatMul, Saturate
  <1> HIDE DEF owed
  <1>3. CASE v < amt + owed
    <2>1. VaultSplit(v, amt, r) = None
      BY <1>1, <1>2, <1>3, SizesOK DEF VaultSplit
    <2> QED BY <1>1, <1>3, <2>1 DEF owed
  <1>4. CASE v >= amt + owed
    <2>1. ~(sum > MaxU64 \/ sum > v) BY <1>1, <1>2, <1>4, SizesOK
    <2>2. CASE v - sum < Dust
      <3>1. VaultSplit(v, amt, r)
              = [amount |-> amt, fee |-> v - amt, change |-> 0]
        BY <2>1, <2>2 DEF VaultSplit
      <3>2. v - amt >= owed /\ v - amt < owed + Dust /\ v = amt + (v - amt) + 0
        BY <1>1, <1>2, <1>4, <2>2, SizesOK
      <3>3. VaultSplit(v, amt, r) \in Split
        BY <1>1, <1>4, <3>1, <3>2, SizesOK DEF Split
      <3> QED BY <1>1, <1>4, <3>1, <3>2, <3>3, SizesOK DEF Balanced, owed
    <2>3. CASE ~(v - sum < Dust)
      <3>1. VaultSplit(v, amt, r)
              = [amount |-> amt, fee |-> owed, change |-> v - (amt + owed)]
        BY <1>2, <2>1, <2>3 DEF VaultSplit
      <3>2. /\ v = amt + owed + (v - (amt + owed)) /\ owed < owed + Dust
            /\ v - (amt + owed) >= Dust
        BY <1>1, <1>2, <1>4, <2>3, SizesOK
      <3>3. VaultSplit(v, amt, r) \in Split
        BY <1>1, <1>4, <3>1, <3>2, SizesOK DEF Split
      <3> QED BY <1>1, <1>4, <3>1, <3>2, <3>3, SizesOK DEF Balanced, owed
    <2> QED BY <2>2, <2>3
  <1> QED BY <1>1, <1>3, <1>4, SizesOK

\* VaultTx::build for every coin, amount and rate, the ones included at which
\* the fee saturates.
LEMMA VaultSplitRight ==
  ASSUME NEW v \in U64 \ {MaxU64}, NEW a \in U64, NEW r \in U64
  PROVE  LET built == VaultSplit(v, a, r)
             owed  == r * VaultSize
         IN  IF a + owed > v THEN built = None
             ELSE /\ built \in Split
                  /\ built.amount = a
                  /\ v = a + built.fee + built.change
                  /\ built.fee >= owed /\ built.fee < owed + Dust
                  /\ built.change = 0 \/ built.change >= Dust
  <1> DEFINE owed == r * VaultSize
  <1>1. /\ owed \in Nat /\ MaxU64 \in Nat
        /\ v \in Nat /\ a \in Nat /\ r \in Nat /\ v < MaxU64
    BY SizesOK DEF U64
  <1> HIDE DEF owed
  <1>2. CASE owed <= MaxU64
    <2>1. VaultSplit(v, a, r) \in Split \cup {None}
      <3>1. VaultFee(r) = owed
        BY <1>2 DEF VaultFee, SatMul, Saturate, owed
      <3>2. v - a \in Nat \/ a + owed > v BY <1>1
      <3>3. v - (a + owed) \in Nat \/ a + owed > v BY <1>1
      <3> QED BY <1>1, <3>1, <3>2, <3>3 DEF VaultSplit, Split
    <2>2. /\ VaultSplit(v, a, r) # None <=> v >= a + owed
          /\ VaultSplit(v, a, r) # None =>
               /\ VaultSplit(v, a, r).amount = a
               /\ Balanced(VaultSplit(v, a, r), v, owed)
      BY <1>2, VaultBalanced DEF owed
    <2> QED BY <1>1, <2>1, <2>2 DEF Balanced, owed
  <1>3. CASE owed > MaxU64
    <2>1. VaultFee(r) = MaxU64
      BY <1>1, <1>3 DEF VaultFee, SatMul, Saturate, owed
    <2>2. VaultSplit(v, a, r) = None
      BY <1>1, <2>1 DEF VaultSplit
    <2> QED BY <1>1, <1>3, <2>2 DEF owed
  <1> QED BY <1>1, <1>2, <1>3

\* It builds nothing else than a split, whatever coin it is given.
LEMMA VaultSplitTyped ==
  ASSUME NEW v \in U64, NEW a \in U64, NEW r \in U64
  PROVE  VaultSplit(v, a, r) \in Split \cup {None}
  <1> DEFINE spent == a + VaultFee(r)
  <1>1. v \in Nat /\ a \in Nat /\ r \in Nat /\ r * VaultSize \in Nat
    BY SizesOK DEF U64
  <1>2. VaultFee(r) \in Nat BY <1>1, SizesOK DEF VaultFee, SatMul, Saturate
  <1>3. CASE spent > MaxU64 \/ spent > v BY <1>3 DEF VaultSplit
  <1>4. CASE ~(spent > MaxU64 \/ spent > v)
    <2>1. v - a \in Nat /\ v - spent \in Nat BY <1>1, <1>2, <1>4, SizesOK
    <2> QED BY <1>1, <1>2, <1>4, <2>1 DEF VaultSplit, Split
  <1> QED BY <1>3, <1>4

-------------------------------------------------------------------------------
(***************************************************************************)
(* The inductive invariant: the excluded coin is neither available nor     *)
(* picked, and what is built, of a payment or by a vault, is its total's    *)
(* split.                                                                  *)
(***************************************************************************)
ApartInv ==
  /\ excluded \notin picked
  /\ pc \in {"notify", "discover"} => picked = {}
  /\ pc = "vault" => excluded = None
  /\ pc = "pick" => excluded \notin available

BuiltInv ==
  pc = "built" =>
    /\ Covers(total, amount, rate, Cardinality(picked))
    /\ split = PaymentSplit(total, amount, rate, Cardinality(picked))

VaultInv ==
  pc \in {"spends", "refused"} =>
    /\ rate \in U64
    /\ split = VaultSplit(total, amount, rate)
    /\ pc = "refused" <=> split = None

IInv == TypeOK /\ ApartInv /\ BuiltInv /\ VaultInv

-------------------------------------------------------------------------------
THEOREM InitHolds == Init => IInv
  <1> SUFFICES ASSUME Init PROVE IInv OBVIOUS
  <1>1. rate \in Nat \ {0}
    <2>1. PICK fee \in Fee : rate = FeeRate(fee) BY DEF Init
    <2>2. fee \in Nat BY InputsOK DEF U64
    <2> QED BY <2>1, <2>2, SizesOK DEF FeeRate
  <1>2. TypeOK
    <2>1. value \in [Coin -> U64] /\ amount \in U64 \ {0}
      BY InputsOK DEF Init
    <2>2. 0 \in U64 BY SizesOK DEF U64
    <2> QED BY <1>1, <2>1, <2>2 DEF Init, TypeOK
  <1>3. ApartInv
    BY InputsOK DEF Init, ApartInv
  <1> QED BY <1>2, <1>3 DEF Init, IInv, BuiltInv, VaultInv

\* What a pick adds stays a u64.
LEMMA PickTyped ==
  ASSUME TypeOK, NEW c \in Coin
  PROVE  SatAdd(total, value[c]) \in U64
  <1>1. total \in Nat /\ value[c] \in Nat BY DEF TypeOK, U64
  <1>2. total + value[c] \in Nat BY <1>1
  <1> QED BY <1>2, SizesOK DEF SatAdd, Saturate, U64

\* A built payment's split is one: the lemma above, in a state.
LEMMA BuildTyped ==
  ASSUME TypeOK, Enough
  PROVE  LET s == PaymentSplit(total, amount, rate, Cardinality(picked))
         IN  /\ s \in Split
             /\ total < MaxU64 =>
                  /\ s.amount = amount
                  /\ Balanced(s, total,
                              rate * PaymentSize(Cardinality(picked)))
  <1> DEFINE k == Cardinality(picked)
  <1>1. k \in Nat
    BY InputsOK, FS_Subset, FS_CardinalityType DEF TypeOK
  <1>2. total \in Nat /\ amount \in Nat /\ rate \in Nat /\ total <= MaxU64
    BY DEF TypeOK, U64
  <1>3. Covers(total, amount, rate, k) BY DEF Enough
  <1> HIDE DEF k
  <1>4. CASE total < MaxU64
    BY <1>1, <1>2, <1>3, <1>4, PaymentBalanced DEF k
  <1>5. CASE ~(total < MaxU64)
    <2>1. PaymentSplit(total, amount, rate, k) \in Split
      <3> DEFINE need == SatAdd(amount, PaymentFee(rate, k))
                 rest == total - need
                 change == IF rest >= Dust THEN rest ELSE 0
      <3>1. rate * PaymentSize(k) \in Nat
        <4>1. PerInput * k \in Nat BY <1>1, SizesOK
        <4>2. PaymentSize(k) \in Nat BY <4>1, SizesOK DEF PaymentSize
        <4> QED BY <1>2, <4>2
      <3>2. PaymentFee(rate, k) \in Nat
        BY <3>1, SizesOK DEF PaymentFee, SatMul, Saturate
      <3>3. need \in Nat /\ (need >= amount \/ need = MaxU64)
        BY <1>2, <3>2, SizesOK DEF SatAdd, Saturate
      <3>4. total >= need BY <1>3 DEF Covers
      <3>5. amount <= MaxU64 BY DEF TypeOK, U64
      <3>6. PaymentSplit(total, amount, rate, k)
              = [amount |-> amount, fee |-> total - amount - change,
                 change |-> change]
        BY DEF PaymentSplit
      <3> HIDE DEF need
      <3>7. change \in Nat /\ total - amount - change \in Nat
        BY <1>2, <3>3, <3>4, <3>5, SizesOK
      <3> QED BY <1>2, <3>6, <3>7 DEF Split
    <2> QED BY <1>5, <2>1 DEF k
  <1> QED BY <1>4, <1>5

THEOREM StepHolds == IInv /\ [Next]_vars => IInv'
  <1> SUFFICES ASSUME IInv, [Next]_vars PROVE IInv' OBVIOUS
  <1> USE DEF IInv
  <1>1. ASSUME NEW found \in SUBSET Coin, Notify(found) PROVE IInv'
    <2>1. TypeOK' BY <1>1 DEF Notify, TypeOK, IsLargest
    <2>2. ApartInv' BY <1>1 DEF Notify, ApartInv
    <2> QED BY <1>1, <2>1, <2>2 DEF Notify, BuiltInv, VaultInv
  <1>2. ASSUME NEW found \in SUBSET Coin, Discover(found) PROVE IInv'
    <2>1. TypeOK' BY <1>2 DEF Discover, TypeOK
    <2>2. ApartInv' BY <1>2, InputsOK DEF Discover, ApartInv, TypeOK
    <2> QED BY <1>2, <2>1, <2>2 DEF Discover, BuiltInv, VaultInv
  <1>3. CASE Pick
    <2>1. PICK c \in available :
            /\ available' = available \ {c} /\ picked' = picked \cup {c}
            /\ total' = SatAdd(total, value[c])
      BY <1>3 DEF Pick
    <2>2. c \in Coin BY DEF TypeOK
    <2>3. TypeOK' BY <1>3, <2>1, <2>2, PickTyped DEF Pick, TypeOK
    <2>4. ApartInv' BY <1>3, <2>1 DEF Pick, ApartInv
    <2> QED BY <1>3, <2>3, <2>4 DEF Pick, BuiltInv, VaultInv
  <1>4. CASE Build
    <2>1. TypeOK' BY <1>4, BuildTyped DEF Build, TypeOK
    <2>2. ApartInv' BY <1>4 DEF Build, ApartInv
    <2>3. BuiltInv' BY <1>4 DEF Build, BuiltInv, Enough
    <2>4. VaultInv' BY <1>4 DEF Build, VaultInv
    <2> QED BY <2>1, <2>2, <2>3, <2>4
  <1>5. CASE Poor
    BY <1>5 DEF Poor, TypeOK, ApartInv, BuiltInv, VaultInv
  <1>6. CASE Fails
    BY <1>6 DEF Fails, TypeOK, ApartInv, BuiltInv, VaultInv
  <1>7. CASE UNCHANGED vars
    BY <1>7 DEF vars, TypeOK, ApartInv, BuiltInv, VaultInv
  <1>8. ASSUME NEW c \in Coin, NEW picks \in Fee, VaultBuild(c, picks)
        PROVE  IInv'
    <2>1. rate' \in U64 /\ rate' \in Nat \ {0}
      <3>1. picks \in 0 .. MaxU64 BY InputsOK DEF U64
      <3>2. rate' = IF picks = 0 THEN 1 ELSE picks BY <1>8 DEF VaultBuild
      <3>3. 1 <= MaxU64 BY SizesOK DEF TypeOK, U64
      <3> QED BY <3>1, <3>2, <3>3, SizesOK DEF U64
    <2>2. total' \in U64 /\ amount \in U64 BY <1>8 DEF VaultBuild, TypeOK
    <2>3. split' \in Split \cup {None}
      BY <1>8, <2>1, <2>2, VaultSplitTyped DEF VaultBuild
    <2>4. TypeOK' BY <1>8, <2>1, <2>2, <2>3 DEF VaultBuild, TypeOK
    <2>5. ApartInv' BY <1>8, InputsOK DEF VaultBuild, ApartInv
    <2>6. VaultInv' BY <1>8, <2>1 DEF VaultBuild, VaultInv
    <2> QED BY <1>8, <2>4, <2>5, <2>6 DEF VaultBuild, BuiltInv
  <1> QED BY <1>1, <1>2, <1>3, <1>4, <1>5, <1>6, <1>7, <1>8 DEF Next

LEMMA Inductive == Spec => []IInv
  BY InitHolds, StepHolds, PTL DEF Spec

\* Every state of a hosted send is well typed; in particular a built payment
\* never asks for less than nothing, whatever saturates.
THEOREM TypeCorrect == Spec => []TypeOK
  <1>1. IInv => TypeOK BY DEF IInv
  <1> QED BY Inductive, <1>1, PTL

\* README.md:91 for any coins: notification and payment spend different ones.
THEOREM Apart == Spec => []NeverCollides
  <1>1. IInv => NeverCollides BY DEF IInv, ApartInv, NeverCollides
  <1> QED BY Inductive, <1>1, PTL

\* build_hosted_signed_psbt for any coins, amount and fee: what a payment
\* pays is what its coins hold, at its rate, and it makes no dust.
THEOREM AmountsCorrect == Spec => []AmountsRight
  <1>1. ASSUME IInv PROVE AmountsRight
    <2> SUFFICES ASSUME pc = "built", total < MaxU64
                 PROVE  /\ split.amount = amount
                        /\ Balanced(split, total,
                             rate * (Overhead + PerInput * Cardinality(picked)))
      BY DEF AmountsRight, Balanced
    <2>1. TypeOK /\ BuiltInv BY <1>1 DEF IInv
    <2>2. Cardinality(picked) \in Nat
      BY <2>1, InputsOK, FS_Subset, FS_CardinalityType DEF TypeOK
    <2>3. total \in Nat /\ amount \in Nat /\ rate \in Nat
      BY <2>1 DEF TypeOK, U64
    <2>4. /\ Covers(total, amount, rate, Cardinality(picked))
          /\ split = PaymentSplit(total, amount, rate, Cardinality(picked))
      BY <2>1 DEF BuiltInv
    <2> QED BY <2>2, <2>3, <2>4, PaymentBalanced DEF PaymentSize
  <1> QED BY Inductive, <1>1, PTL

\* vault.rs:812-830 for every width, dust limit, coin, amount and rate: a
\* vault's send is refused exactly if its coin is too small, and balances.
THEOREM VaultAmounts == Spec => []VaultAmountsRight
  <1>1. ASSUME IInv PROVE VaultAmountsRight
    <2> SUFFICES ASSUME pc \in {"spends", "refused"}, total < MaxU64
                 PROVE  LET owed == rate * VaultSize
                        IN  IF amount + owed > total THEN pc = "refused"
                            ELSE /\ pc = "spends"
                                 /\ total = split.amount + split.fee + split.change
                                 /\ split.amount = amount
                                 /\ split.fee >= owed /\ split.fee < owed + Dust
                                 /\ split.change = 0 \/ split.change >= Dust
      BY DEF VaultAmountsRight
    <2>1. TypeOK /\ VaultInv BY <1>1 DEF IInv
    <2>2. total \in U64 \ {MaxU64} /\ amount \in U64 /\ rate \in U64
      BY <2>1, SizesOK DEF TypeOK, VaultInv, U64
    <2>3. split = VaultSplit(total, amount, rate) /\ (pc = "refused" <=> split = None)
      BY <2>1 DEF VaultInv
    <2> QED BY <2>2, <2>3, VaultSplitRight, SizesOK
  <1> QED BY Inductive, <1>1, PTL

-------------------------------------------------------------------------------
(***************************************************************************)
(* The greedy choice.                                                      *)
(***************************************************************************)

\* Among the coins the node reported the payment's hold the most, their total
\* is their sum, and no choice of fewer coins pays.
GreedyInv ==
  /\ pc \in {"notify", "discover"} => picked = {} /\ total = 0
  /\ pc \in {"pick", "built"} =>
       /\ picked \cup available # {}
       /\ total = Saturate(SumOf(value, picked))
       /\ picked \cap available = {}
       /\ \A p \in picked : \A a \in available : value[a] <= value[p]
       /\ \A S \in SUBSET (picked \cup available) :
            S # {} /\ Cardinality(S) < Cardinality(picked) => ~Suffices(S)
  /\ pc = "poor" => FailsOnlyWhenPoor

\* The coins' values, summed over any of them.
LEMMA CoinSums ==
  ASSUME TypeOK
  PROVE  \E g \in [SUBSET Coin -> Nat] :
           IsSum(g, Coin, value) /\ \A S \in SUBSET Coin : SumOf(value, S) = g[S]
<1>1. value \in [Coin -> Nat] /\ IsFiniteSet(Coin)
  BY InputsOK DEF TypeOK, U64
<1>2. PICK g \in [SUBSET Coin -> Nat] : IsSum(g, Coin, value)
  BY <1>1, SumExists
<1>3. \A S \in SUBSET Coin : SumOf(value, S) = g[S]
  BY <1>2 DEF IsSum, SumOf
<1> QED BY <1>2, <1>3

\* What a choice of k coins has to pay, without a bound.
Need(k) == amount + rate * (Overhead + PerInput * k)

LEMMA NeedType ==
  ASSUME TypeOK, NEW S \in SUBSET Coin
  PROVE  /\ Cardinality(S) \in Nat
         /\ Need(Cardinality(S)) \in Nat
         /\ SumOf(value, S) \in Nat
         /\ Suffices(S) <=> SumOf(value, S) >= Need(Cardinality(S))
<1>1. Cardinality(S) \in Nat
  BY InputsOK, FS_Subset, FS_CardinalityType
<1>2. Need(Cardinality(S)) \in Nat
  <2> DEFINE k == Cardinality(S)
  <2>1. k \in Nat /\ amount \in Nat /\ rate \in Nat
    BY <1>1 DEF TypeOK, U64
  <2> HIDE DEF k
  <2>2. PerInput * k \in Nat
    BY <2>1, SizesOK
  <2>3. Overhead + PerInput * k \in Nat
    BY <2>2, SizesOK
  <2>4. rate * (Overhead + PerInput * k) \in Nat
    BY <2>1, <2>3
  <2> QED BY <2>1, <2>4 DEF Need, k
<1>3. SumOf(value, S) \in Nat
  BY CoinSums
<1>4. Suffices(S) <=> SumOf(value, S) >= Need(Cardinality(S))
  BY DEF Suffices, Need
<1> QED BY <1>1, <1>2, <1>3, <1>4

\* The loop's test, on saturated numbers, is the test without a bound, as long
\* as the total is no more than a u64 can hold.
LEMMA CoversNeed ==
  ASSUME TypeOK, total = Saturate(SumOf(value, picked))
  PROVE  /\ ~Covers(total, amount, rate, Cardinality(picked)) =>
              /\ total = SumOf(value, picked)
              /\ SumOf(value, picked) < Need(Cardinality(picked))
         /\ Covers(total, amount, rate, Cardinality(picked)) /\ total < MaxU64 =>
              Suffices(picked)
<1> DEFINE k == Cardinality(picked)
           owed == rate * (Overhead + PerInput * k)
           sum == SumOf(value, picked)
<1>1. picked \in SUBSET Coin
  BY DEF TypeOK
<1>2. /\ Need(k) \in Nat /\ sum \in Nat
      /\ Suffices(picked) <=> sum >= Need(k)
  BY <1>1, NeedType
<1>3. owed \in Nat /\ amount \in Nat /\ Need(k) = amount + owed
  <2>1. k \in Nat /\ amount \in Nat /\ rate \in Nat
    BY <1>1, NeedType DEF TypeOK, U64
  <2> HIDE DEF k
  <2>2. PerInput * k \in Nat
    BY <2>1, SizesOK
  <2>3. Overhead + PerInput * k \in Nat
    BY <2>2, SizesOK
  <2>4. owed \in Nat
    BY <2>1, <2>3
  <2> QED BY <2>1, <2>4 DEF Need
<1>4. Covers(total, amount, rate, k) <=> total >= SatAdd(amount, Saturate(owed))
  BY DEF Covers, PaymentFee, SatMul, PaymentSize
<1> HIDE DEF k, owed, sum
<1>5. SatAdd(amount, Saturate(owed)) = Saturate(Need(k))
  BY <1>3, SizesOK DEF SatAdd, Saturate
<1>6. total = Saturate(sum)
  BY DEF sum
<1>7. ~(total >= Saturate(Need(k))) => total = sum /\ sum < Need(k)
  BY <1>2, <1>6, SizesOK DEF Saturate
<1>8. total >= Saturate(Need(k)) /\ total < MaxU64 => sum >= Need(k)
  BY <1>2, <1>6, SizesOK DEF Saturate
<1> QED BY <1>2, <1>4, <1>5, <1>7, <1>8 DEF k, sum

\* No choice of as many coins holds more than the payment's.
LEMMA PickedHoldMost ==
  ASSUME TypeOK, GreedyInv, pc = "pick",
         NEW S \in SUBSET (picked \cup available),
         Cardinality(S) = Cardinality(picked)
  PROVE  SumOf(value, S) <= SumOf(value, picked)
<1>1. PICK g \in [SUBSET Coin -> Nat] :
        IsSum(g, Coin, value) /\ \A T \in SUBSET Coin : SumOf(value, T) = g[T]
  BY CoinSums
<1>2. S \in SUBSET Coin /\ picked \in SUBSET Coin
  BY DEF TypeOK
<1>3. IsFiniteSet(Coin) /\ value \in [Coin -> Nat]
  BY InputsOK DEF TypeOK, U64
<1>4. \A x \in S \ picked : \A y \in picked \ S : value[x] <= value[y]
  BY DEF GreedyInv
<1>5. g[S] <= g[picked]
  BY ONLY <1>1, <1>2, <1>3, <1>4, Cardinality(S) = Cardinality(picked),
          SumLargest
<1> QED BY <1>1, <1>2, <1>5

\* While the loop goes on, no choice of as many coins as picked, or fewer, pays.
LEMMA NoFewer ==
  ASSUME TypeOK, GreedyInv, pc = "pick", ~Enough,
         NEW S \in SUBSET (picked \cup available), S # {},
         Cardinality(S) <= Cardinality(picked)
  PROVE  ~Suffices(S)
<1>1. S \in SUBSET Coin /\ picked \in SUBSET Coin
  BY DEF TypeOK
<1>2. Cardinality(S) \in Nat /\ Cardinality(picked) \in Nat
  BY <1>1, NeedType
<1>3. CASE Cardinality(S) < Cardinality(picked)
  BY <1>3 DEF GreedyInv
<1>4. CASE Cardinality(S) = Cardinality(picked)
  <2>1. picked # {}
    <3>1. IsFiniteSet(S)
      BY <1>1, InputsOK, FS_Subset
    <3> QED BY <1>4, <3>1, FS_EmptySet
  <2>2. SumOf(value, picked) < Need(Cardinality(picked))
    BY <2>1, CoversNeed DEF Enough, GreedyInv
  <2>3. SumOf(value, S) <= SumOf(value, picked)
    BY <1>4, PickedHoldMost
  <2>4. /\ SumOf(value, S) \in Nat /\ SumOf(value, picked) \in Nat
        /\ Need(Cardinality(picked)) \in Nat
        /\ Suffices(S) <=> SumOf(value, S) >= Need(Cardinality(picked))
    BY <1>1, <1>4, NeedType
  <2> QED BY <2>2, <2>3, <2>4
<1> QED BY <1>2, <1>3, <1>4

\* What pays is a question of the coins' values, the amount and the rate.
LEMMA SameSums ==
  ASSUME UNCHANGED <<value, amount, rate>>
  PROVE  \A S : Suffices(S)' <=> Suffices(S)
BY DEF Suffices

LEMMA GreedyInit == Init => GreedyInv
BY DEF Init, GreedyInv

\* One more coin.
LEMMA GreedyPick ==
  ASSUME TypeOK, GreedyInv, Pick
  PROVE  GreedyInv'
<1>1. PICK c \in available :
        /\ IsLargest(c, available)
        /\ available' = available \ {c} /\ picked' = picked \cup {c}
        /\ total' = SatAdd(total, value[c])
  BY DEF Pick
<1>2. /\ pc = "pick" /\ pc' = "pick" /\ ~Enough
      /\ UNCHANGED <<value, amount, rate>>
  BY DEF Pick
<1>3. /\ picked \in SUBSET Coin /\ available \in SUBSET Coin /\ c \in Coin
      /\ value[c] \in Nat
  BY <1>1 DEF TypeOK, U64
<1>4. c \notin picked
  BY <1>2 DEF GreedyInv
<1>5. \A S : Suffices(S)' <=> Suffices(S)
  BY <1>2, SameSums
<1>6. SumOf(value, picked \cup {c}) = SumOf(value, picked) + value[c]
  <2>1. PICK g \in [SUBSET Coin -> Nat] :
          IsSum(g, Coin, value) /\ \A T \in SUBSET Coin : SumOf(value, T) = g[T]
    BY CoinSums
  <2>2. g[picked \cup {c}] = value[c] + g[(picked \cup {c}) \ {c}]
    <3>1. picked \cup {c} \in SUBSET Coin /\ c \in picked \cup {c}
      BY <1>3
    <3> QED BY <2>1, <3>1 DEF IsSum
  <2>3. g[(picked \cup {c}) \ {c}] = g[picked]
    <3>1. (picked \cup {c}) \ {c} = picked
      BY <1>4
    <3> QED BY <3>1, Zenon
  <2>4. picked \cup {c} \in SUBSET Coin
    BY <1>3
  <2>5. /\ SumOf(value, picked) = g[picked]
        /\ SumOf(value, picked \cup {c}) = g[picked \cup {c}]
    BY <1>3, <2>1, <2>4
  <2>6. g[picked] \in Nat
    BY <1>3, <2>1
  <2> QED BY <1>3, <2>2, <2>3, <2>5, <2>6
<1>7. total' = Saturate(SumOf(value', picked'))
  <2>1. SumOf(value, picked) \in Nat /\ total = Saturate(SumOf(value, picked))
    BY <1>2, <1>3, NeedType DEF GreedyInv
  <2>2. SatAdd(total, value[c]) = Saturate(SumOf(value, picked) + value[c])
    BY <1>3, <2>1, SizesOK DEF SatAdd, Saturate
  <2>3. SumOf(value', picked') = SumOf(value, picked \cup {c})
    BY <1>1, <1>2
  <2> QED BY <1>1, <1>6, <2>2, <2>3
<1>8. Cardinality(picked') = Cardinality(picked) + 1
  BY <1>1, <1>3, <1>4, InputsOK, FS_Subset, FS_AddElement
<1>9. ASSUME NEW S \in SUBSET (picked' \cup available'), S # {},
             Cardinality(S) < Cardinality(picked')
      PROVE  ~Suffices(S)'
  <2>1. S \in SUBSET (picked \cup available) /\ S \in SUBSET Coin
    BY <1>1, <1>3
  <2>2. Cardinality(S) \in Nat /\ Cardinality(picked) \in Nat
    BY <1>3, <2>1, NeedType
  <2>3. Cardinality(S) <= Cardinality(picked)
    BY <1>8, <1>9, <2>2
  <2>4. ~Suffices(S)
    BY <1>2, <1>9, <2>1, <2>3, NoFewer
  <2> QED BY <1>5, <2>1, <2>4
<1>10. \A p \in picked' : \A a \in available' : value'[a] <= value'[p]
  BY <1>1, <1>2, <1>3 DEF GreedyInv, IsLargest
<1>11. picked' \cup available' # {} /\ picked' \cap available' = {}
  BY <1>1, <1>2, <1>4 DEF GreedyInv
<1> QED BY <1>2, <1>7, <1>9, <1>10, <1>11 DEF GreedyInv

\* Every step keeps the choice greedy.
LEMMA GreedyNext == TypeOK /\ GreedyInv /\ [Next]_vars => GreedyInv'
<1> SUFFICES ASSUME TypeOK, GreedyInv, [Next]_vars PROVE GreedyInv'
  OBVIOUS
<1>1. ASSUME NEW found \in SUBSET Coin, Notify(found) PROVE GreedyInv'
  BY <1>1 DEF Notify, GreedyInv
<1>2. ASSUME NEW found \in SUBSET Coin, Discover(found) PROVE GreedyInv'
  <2>1. picked' = {} /\ total' = 0 /\ pc' \in {"failed", "pick"}
    BY <1>2 DEF Discover, GreedyInv
  <2>2. pc' = "pick" => available' # {}
    BY <1>2 DEF Discover
  <2>3. SumOf(value', {}) = 0
    <3>1. PICK g \in [SUBSET Coin -> Nat] :
            IsSum(g, Coin, value) /\ \A T \in SUBSET Coin : SumOf(value, T) = g[T]
      BY CoinSums
    <3>2. SumOf(value, {}) = 0
      BY <3>1 DEF IsSum
    <3>3. value' = value
      BY <1>2 DEF Discover
    <3> QED BY <3>2, <3>3
  <2>4. total' = Saturate(SumOf(value', picked'))
    BY <2>1, <2>3, SizesOK DEF Saturate
  <2>5. ASSUME NEW S \in SUBSET (picked' \cup available'),
               Cardinality(S) < Cardinality(picked')
        PROVE  S = {}
    <3>1. IsFiniteSet(S) /\ Cardinality(S) \in Nat
      BY <2>1, InputsOK, FS_Subset, FS_CardinalityType, <1>2 DEF Discover
    <3>2. Cardinality(picked') = 0
      BY <2>1, FS_EmptySet
    <3> QED BY <2>5, <3>1, <3>2
  <2> QED BY <2>1, <2>2, <2>4, <2>5 DEF GreedyInv
<1>3. CASE Pick
  BY <1>3, GreedyPick
<1>4. CASE Build
  <2>1. /\ pc = "pick" /\ pc' = "built"
        /\ UNCHANGED <<value, amount, rate, available, picked, total>>
    BY <1>4 DEF Build
  <2>2. SumOf(value', picked') = SumOf(value, picked)
    BY <2>1
  <2> QED BY <2>1, <2>2, SameSums DEF GreedyInv
<1>5. CASE Poor
  <2>1. /\ pc = "pick" /\ pc' = "poor" /\ available = {} /\ ~Enough
        /\ UNCHANGED <<value, amount, rate, picked>>
    BY <1>5 DEF Poor
  <2>2. ASSUME NEW S \in SUBSET picked, S # {} PROVE ~Suffices(S)
    <3>1. S \in SUBSET (picked \cup available) /\ IsFiniteSet(picked)
      BY InputsOK, FS_Subset DEF TypeOK
    <3>2. Cardinality(S) <= Cardinality(picked)
      BY <3>1, FS_Subset
    <3> QED BY <2>1, <2>2, <3>1, <3>2, NoFewer
  <2>3. ASSUME NEW S \in SUBSET picked', S # {} PROVE ~Suffices(S)'
    BY <2>1, <2>2, <2>3, SameSums
  <2>4. FailsOnlyWhenPoor'
    BY <2>1, <2>3 DEF FailsOnlyWhenPoor
  <2> QED BY <2>1, <2>4 DEF GreedyInv
<1>6. CASE Fails
  BY <1>6 DEF Fails, GreedyInv
<1>7. ASSUME NEW c \in Coin, NEW picks \in Fee, VaultBuild(c, picks)
      PROVE  GreedyInv'
  BY <1>7 DEF VaultBuild, GreedyInv
<1>8. CASE UNCHANGED vars
  <2>1. /\ UNCHANGED <<value, amount, rate>>
        /\ UNCHANGED <<pc, available, picked, total>>
    BY <1>8 DEF vars
  <2>2. SumOf(value', picked') = SumOf(value, picked)
    BY <2>1
  <2>3. FailsOnlyWhenPoor' <=> FailsOnlyWhenPoor
    BY <2>1, SameSums DEF FailsOnlyWhenPoor
  <2> QED BY <2>1, <2>2, <2>3, SameSums DEF GreedyInv
<1> QED BY <1>1, <1>2, <1>3, <1>4, <1>5, <1>6, <1>7, <1>8 DEF Next

LEMMA GreedyAlways == Spec => [](TypeOK /\ GreedyInv)
<1>1. Init => TypeOK /\ GreedyInv
  BY InitHolds, GreedyInit DEF IInv
<1>2. Spec => []TypeOK
  BY TypeCorrect
<1>3. TypeOK /\ GreedyInv /\ [Next]_vars => GreedyInv'
  BY GreedyNext
<1> QED BY <1>1, <1>2, <1>3, PTL DEF Spec

\* The loop of build_hosted_signed_psbt for any coins and any amount: largest
\* first never takes more inputs than it has to, each input's own fee counted.
THEOREM Fewest == Spec => []FewestCoins
<1>1. TypeOK /\ GreedyInv /\ BuiltInv => FewestCoins
  <2> SUFFICES ASSUME TypeOK, GreedyInv, BuiltInv, pc = "built"
               PROVE  /\ total < MaxU64 => Suffices(picked)
                      /\ \A S \in SUBSET (available \cup picked) :
                           Suffices(S) /\ S # {} =>
                             Cardinality(S) >= Cardinality(picked)
    BY DEF FewestCoins
  <2>1. total < MaxU64 => Suffices(picked)
    BY CoversNeed DEF GreedyInv, BuiltInv
  <2>2. ASSUME NEW S \in SUBSET (available \cup picked), Suffices(S), S # {}
        PROVE  Cardinality(S) >= Cardinality(picked)
    <3>1. ~(Cardinality(S) < Cardinality(picked))
      BY <2>2 DEF GreedyInv
    <3>2. Cardinality(S) \in Nat /\ Cardinality(picked) \in Nat
      BY NeedType DEF TypeOK
    <3> QED BY <3>1, <3>2
  <2> QED BY <2>1, <2>2
<1>2. IInv => BuiltInv
  BY DEF IInv
<1> QED BY <1>1, <1>2, Inductive, GreedyAlways, PTL

\* "Insufficient funds" for any coins: said only when no choice would do.
THEOREM PoorMeansPoor == Spec => []FailsOnlyWhenPoor
<1>1. GreedyInv => FailsOnlyWhenPoor
  BY DEF GreedyInv, FailsOnlyWhenPoor
<1> QED BY <1>1, GreedyAlways, PTL
==============================================================================
