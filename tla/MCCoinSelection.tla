--------------------------- MODULE MCCoinSelection ---------------------------
(***************************************************************************)
(* Instances of CoinSelection for TLC.                                     *)
(***************************************************************************)
EXTENDS CoinSelection, TLC

CONSTANTS u1, u2, u3, u4

SymmetryOfCoins == Permutations(Coin)
===============================================================================
