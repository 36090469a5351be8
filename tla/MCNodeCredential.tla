-------------------------- MODULE MCNodeCredential --------------------------
(***************************************************************************)
(* NodeCredential on a small instance.                                     *)
(***************************************************************************)
EXTENDS NodeCredential, TLC

CONSTANTS p, q, w1, w2, w3

\* Neither passwords nor writers are told apart.
Alike == Permutations(Password) \cup Permutations(Writer)
=============================================================================
