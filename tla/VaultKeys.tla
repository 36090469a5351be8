------------------------------- MODULE VaultKeys -------------------------------
(***************************************************************************)
(* The keys of a vault, what its ceremony signs with, and the secret of    *)
(* its threshold ECDH: the arithmetic of vault.rs, over Musig.             *)
(*                                                                         *)
(* A spend: pks, the keys of the participants, sorted; hash, their         *)
(* coefficient hashes; il, the tweak of the vault's child key; tap, what   *)
(* TapTweak of the internal key hashes to; taproot; sec, the participants' *)
(* nonce pairs; b and e, what the nonce coefficient and the challenge      *)
(* hash to.                                                                *)
(***************************************************************************)
EXTENDS Musig

VARIABLE given  \* what is computed with: a spend, the input of an ECDH, or Idle

Idle == [kind |-> "idle"]

\* The child key at an index: the aggregate key and the index's public tweak.
ChildKey(agg, il) == IF il >= Order THEN Err ELSE Combine(agg, il)

\* taproot_context: the x of the internal key and of the output key.
TaprootContext(pks, hash, il, tap) ==
  LET child == ChildKey(KeyAgg(pks, hash), il)
      out   == IF tap >= Order THEN Err ELSE PtAdd(X(child), tap)
  IN  IF child = Err \/ out \in {Err, Infinity}
      THEN [internal |-> Err, output |-> Err]
      ELSE [internal |-> X(child), output |-> X(out)]

\* The child's tweak is plain, the one of taproot x-only.
Tweaks(sp) ==
  <<[t |-> sp.il, xonly |-> FALSE]>>
    \o (IF sp.taproot THEN <<[t |-> sp.tap, xonly |-> TRUE]>> ELSE <<>>)

\* make_session, over the sum of the participants' nonces.
MakeSession(sp) ==
  LET aggnonce == NonceAgg(sp.sec)
  IN  [pks |-> sp.pks, hash |-> sp.hash, tweaks |-> Tweaks(sp),
       r1 |-> aggnonce[1], r2 |-> aggnonce[2], b |-> sp.b, e |-> sp.e]

\* The key finalize verifies the signature with.
VerifyKey(sp) ==
  LET keys == TaprootContext(sp.pks, sp.hash, sp.il, sp.tap)
  IN  IF sp.taproot THEN keys.output ELSE keys.internal

\* finalize, of the partial signatures of all participants.
Finalizes(sp, v, psigs) ==
  /\ \A i \in DOMAIN sp.pks :
       PartialSigVerify(psigs[i], sp.sec[i], sp.pks[i], v)
  /\ VerifyKey(sp) # Err
  /\ SchnorrVerifies(PartialSigAgg(psigs, v), VerifyKey(sp), v.e)

\* Mutant: the coefficients are those of the keys as they were collected.
EcdhShareCollected(pks, hash, to, pk) ==
  EcdhPartial(to, Coeff(Reverse(pks), hash, pk), pk)

\* ecdh_share of the participant with the key pk.
EcdhShare(pks, hash, to, pk) == EcdhPartial(to, Coeff(pks, hash, pk), pk)

\* combine_ecdh_shares: the x of the sum.
CombineEcdhShares(points) ==
  LET sum == CombinePartials(points) IN IF sum = Err THEN Err ELSE X(sum)

\* ecdh_x_coordinate
EcdhX(pk, sk) == X(PtMul(pk, sk))

-------------------------------------------------------------------------------
(***************************************************************************)
(* Every input within the bounds, one after the other.                     *)
(***************************************************************************)
Vaults ==
  {KeySort(SetToSeq(S)) : S \in {T \in SUBSET Key : Cardinality(T) >= 2}}

Hashes(pks) == [Range(pks) -> HashValue]

Spends(pks) ==
  [kind : {"spend"}, pks : {pks}, hash : Hashes(pks), il : HashValue,
   tap : HashValue, taproot : BOOLEAN, sec : [DOMAIN pks -> NoncePair],
   b : HashValue, e : HashValue]

Ecdhs(pks) == [kind : {"ecdh"}, pks : {pks}, hash : Hashes(pks), to : Point]

Begin ==
  /\ given = Idle
  /\ \E pks \in Vaults : given' \in Spends(pks) \cup Ecdhs(pks)

End == given # Idle /\ given' = Idle

KeysSpec == given = Idle /\ [][Begin \/ End]_given

-------------------------------------------------------------------------------
(***************************************************************************)
(* Properties.                                                             *)
(***************************************************************************)
\* The partial signatures of participants who all sign.
Honest(sp, v) == [i \in DOMAIN sp.pks |-> Sign(sp.sec[i], sp.pks[i], v)]

\* A product is 0 or a sum is at infinity, which in the code's group takes a
\* hash of one value in 2^256: a step of the ceremony fails.
Degenerate(sp, v, psigs) ==
  \/ v.q = Err \/ v.r = Err \/ v.cancel \/ VerifyKey(sp) = Err
  \/ \E i \in DOMAIN sp.pks :
       \/ psigs[i] = 0
       \/ PtAdd(sp.sec[i][1], ScalarMul(sp.sec[i][2], v.b)) = Infinity
       \/ KeyShare(sp.pks[i], v) = 0

\* vault.rs:648-668: when every participant signs, the ceremony ends with a
\* signature that verifies under the key the coin pays to, whatever the signs
\* of the keys and of the nonce and whichever sums carry.
HonestSpendFinalizes ==
  given.kind = "spend" =>
    LET v     == SessionValues(MakeSession(given))
        psigs == Honest(given, v)
    IN  Finalizes(given, v, psigs) \/ Degenerate(given, v, psigs)

\* vault.rs:652: "a tampered or wrong-session one fails here": the partial
\* signature that verifies is the one this signer makes in this session.
OnlyOwnPartialVerifies ==
  given.kind = "spend" =>
    LET v == SessionValues(MakeSession(given))
    IN  \A i \in DOMAIN given.pks, psig \in 0 .. Width - 1 :
          PartialSigVerify(psig, given.sec[i], given.pks[i], v)
            => psig = Sign(given.sec[i], given.pks[i], v)

\* vault.rs:230-234: the participants' shares add up, in any order, to the
\* secret the recipient computes with its own key and the vault's aggregate
\* key.  (The code's key, not its notification key, which a recipient of BIP47
\* takes: README, section 5.)
SharesGiveSecret ==
  given.kind = "ecdh" =>
    LET pks == given.pks  agg == KeyAgg(pks, given.hash)
    IN  \A order \in SetToSeqs(Range(pks)) :
          LET points == [i \in DOMAIN pks |->
                           EcdhShare(pks, given.hash, given.to, order[i])]
          IN  CombineEcdhShares(points) # Err /\ agg # Err
                => CombineEcdhShares(points) = EcdhX(agg, given.to)
===============================================================================
