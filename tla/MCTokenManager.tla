---------------------------- MODULE MCTokenManager ----------------------------
(* Instances of TokenManager for TLC: the callers are symmetric. *)
EXTENDS TokenManager, TLC

CONSTANTS c1, c2, c3

CallerSymmetry == Permutations(Callers)
=============================================================================
