--------------------------------- MODULE Musig ---------------------------------
(***************************************************************************)
(* The arithmetic of musig.rs and of the vault's keys, over any group of   *)
(* prime order, so that a small one shows every case: signs, tweaks, keys  *)
(* of either parity, carries, sums at infinity.                            *)
(*                                                                         *)
(* A point is written as its discrete logarithm: 0 is the point at         *)
(* infinity, P and -P have the same x, and the one with an even y is the   *)
(* smaller.  A secret key and its public key are then the same number.     *)
(* What a hash gives is an input, any number of Width values, as it is of  *)
(* 2^256.  The library's operations on keys fail at 0 and at infinity.     *)
(***************************************************************************)
EXTENDS Integers, SequencesExt

CONSTANTS
  Order,      \* n, the order of the group, a prime
  Width,      \* 2^256
  Key,        \* bound: the keys of participants
  HashValue,  \* bound: the values hashes take
  NoncePair   \* bound: the pairs of secret nonces drawn

Scalar == 0 .. Order - 1
Point == 1 .. Order - 1
Infinity == 0
Err == -1

\* Order > Width / 2, as n > 2^255: one subtraction reduces a hash.
ASSUME OrderOK ==
  /\ Order \in Nat /\ Width \in Nat
  /\ Order > 2 /\ Order <= Width /\ Width < 2 * Order
  /\ Key \subseteq Point
  /\ HashValue \subseteq 0 .. Width - 1
  /\ NoncePair \subseteq Point \X Point

(***************************************************************************)
(* Scalars: 32 bytes.                                                      *)
(***************************************************************************)
\* scalar_from_bytes_mod_n
Reduce(h) == IF h >= Order THEN h - Order ELSE h

\* scalar_add_mod_n: a carry out of the 32 bytes asks for the subtraction too.
ScalarAdd(a, b) ==
  LET v == a + b
  IN  IF v \div Width # 0 \/ v % Width >= Order THEN (v - Order) % Width ELSE v

ScalarNeg(a) == IF a = 0 THEN 0 ELSE Order - a

ScalarMul(a, b) == (a * b) % Order

(***************************************************************************)
(* Points.                                                                 *)
(***************************************************************************)
EvenY(p) == 2 * p < Order
PtNeg(p) == (Order - p) % Order
PtAdd(p, q) == (p + q) % Order
PtMul(p, k) == IF p = Infinity THEN p ELSE IF k = 0 THEN Err ELSE (p * k) % Order

\* The x of a point, written as the point with an even y that has it.
X(p) == IF EvenY(p) THEN p ELSE PtNeg(p)

\* The library's sum of two keys.
Combine(p, q) ==
  IF p = Err \/ q = Err \/ PtAdd(p, q) = Infinity THEN Err ELSE PtAdd(p, q)

CombinePartials(ps) == FoldLeft(Combine, Head(ps), Tail(ps))

(***************************************************************************)
(* Keys.  hash[p] is the coefficient hash of the key p in its list.        *)
(***************************************************************************)
\* The order of serialized keys: the byte for the parity, then x.
Before(p, q) == IF EvenY(p) = EvenY(q) THEN X(p) < X(q) ELSE EvenY(p)

\* The keys in an order that puts none after a later one.
KeySort(pks) ==
  LET n     == Len(pks)
      order == CHOOSE f \in Bijection(1 .. n, 1 .. n) :
                 \A i, j \in 1 .. n : i < j => ~Before(pks[f[j]], pks[f[i]])
  IN  [i \in 1 .. n |-> pks[order[i]]]

\* GetSecondKey: the first key that is not the first one, else 0.
SecondKey(pks) ==
  LET others == {i \in DOMAIN pks : pks[i] # pks[1]}
  IN  IF others = {} THEN 0 ELSE pks[Min(others)]

Coeff(pks, hash, p) == IF p = SecondKey(pks) THEN 1 ELSE Reduce(hash[p])

KeyAgg(pks, hash) ==
  CombinePartials([i \in DOMAIN pks |-> PtMul(pks[i], Coeff(pks, hash, pks[i]))])

EcdhPartial(to, coeff, sk) ==
  LET share == ScalarMul(sk, coeff) IN IF share = 0 THEN Err ELSE PtMul(to, share)

(***************************************************************************)
(* Sessions: [pks, hash, tweaks, r1, r2, b, e], r1 and r2 the aggregated   *)
(* nonce, b and e what its coefficient and the challenge hash to.          *)
(***************************************************************************)
\* ApplyTweak; flipped is gacc = -1.
TweakOnce(k, tweak) ==
  LET flips == tweak.xonly /\ ~EvenY(k.q)
      q     == PtAdd(IF flips THEN PtNeg(k.q) ELSE k.q, tweak.t)
  IN  IF k.q = Err \/ tweak.t >= Order \/ q = Infinity THEN [k EXCEPT !.q = Err]
      ELSE [q |-> q, flipped |-> k.flipped # flips,
            tacc |-> ScalarAdd(tweak.t,
                               IF flips THEN ScalarNeg(k.tacc) ELSE k.tacc)]

ApplyTweaks(q, tweaks) ==
  FoldLeft(TweakOnce, [q |-> q, flipped |-> FALSE, tacc |-> 0], tweaks)

\* R = r1 + b.r2, before it is replaced by the generator where it is infinite.
NonceSum(s) ==
  LET br2 == PtMul(s.r2, Reduce(s.b))
  IN  IF br2 = Err THEN Err ELSE PtAdd(s.r1, br2)

\* GetSessionValues: no error if both points are there.  The key's sign is the
\* one a signer gives its key, g * gacc = -1.
SessionValues(s) ==
  LET k == ApplyTweaks(KeyAgg(s.pks, s.hash), s.tweaks)
  IN  [q |-> k.q, r |-> IF NonceSum(s) = Infinity THEN 1 ELSE NonceSum(s),
       tacc |-> k.tacc, flips |-> ~EvenY(k.q) # k.flipped,
       cancel |-> NonceSum(s) = Infinity,
       coeff |-> [p \in Range(s.pks) |-> Coeff(s.pks, s.hash, p)],
       b |-> Reduce(s.b), e |-> Reduce(s.e)]

SignedIf(flip, a) == IF flip THEN ScalarNeg(a) ELSE a

\* A participant's key in the challenge, without the key itself.
KeyShare(pk, v) == SignedIf(v.flips, ScalarMul(v.coeff[pk], v.e))

\* Mutant: the sign of the key at the time of the tweaks is not in it.
SignUnflipped(sec, sk, v) ==
  LET k(i) == SignedIf(~EvenY(v.r), sec[i])
      ea   == ScalarMul(v.coeff[sk], v.e)
  IN  ScalarAdd(ScalarAdd(k(1), ScalarMul(k(2), v.b)),
                ScalarMul(sk, SignedIf(~EvenY(v.q), ea)))

\* sign, of a participant, in a session with the values v and no error.
Sign(sec, sk, v) ==
  LET k(i) == SignedIf(~EvenY(v.r), sec[i])
  IN  ScalarAdd(ScalarAdd(k(1), ScalarMul(k(2), v.b)),
                ScalarMul(sk, KeyShare(sk, v)))

\* Mutant: the nonce is taken with either sign.
PartialSigVerifyEither(psig, pub, pk, v) ==
  LET re == PtAdd(pub[1], ScalarMul(pub[2], v.b))
  IN  /\ v.q # Err /\ v.r # Err /\ psig \in Point
      /\ re # Infinity /\ KeyShare(pk, v) # 0
      /\ X(PtAdd(psig, PtNeg(PtMul(pk, KeyShare(pk, v))))) = X(re)

\* partial_sig_verify; a partial signature is the secret key of a point.
PartialSigVerify(psig, pub, pk, v) ==
  LET re == PtAdd(pub[1], ScalarMul(pub[2], v.b))
  IN  /\ v.q # Err /\ v.r # Err /\ psig \in Point
      /\ re # Infinity /\ KeyShare(pk, v) # 0
      /\ psig = PtAdd(SignedIf(~EvenY(v.r), re), PtMul(pk, KeyShare(pk, v)))

\* partial_sig_agg, of partial signatures below the order.
PartialSigAgg(psigs, v) ==
  [rx |-> X(v.r),
   s  |-> ScalarAdd(FoldLeft(ScalarAdd, 0, psigs),
                    ScalarMul(SignedIf(~EvenY(v.q), v.tacc), v.e))]

\* Verification of BIP340, by the library: s.G - e.Q is R, with an even y.
SchnorrVerifies(sig, key, e) == PtAdd(sig.s, PtNeg(ScalarMul(e, key))) = sig.rx

NonceAgg(pubs) ==
  [i \in 1 .. 2 |-> FoldLeft(LAMBDA r, p : PtAdd(r, p[i]), Infinity, pubs)]

-------------------------------------------------------------------------------
\* musig.rs:112-135 and 389-455: the arithmetic on bytes is the one modulo the
\* order, at every carry.
ScalarsRight ==
  /\ \A h \in 0 .. Width - 1 : Reduce(h) = h % Order
  /\ \A a, b \in Scalar : ScalarAdd(a, b) = (a + b) % Order
  /\ \A a \in Scalar : ScalarNeg(a) = (Order - a) % Order
===============================================================================
