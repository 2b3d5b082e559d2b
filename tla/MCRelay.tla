------------------------------- MODULE MCRelay -------------------------------
(* Instances of Relay for TLC: symmetric requests, and the values that a cfg *)
(* cannot write.                                                             *)
EXTENDS Relay, TLC

CONSTANTS r1, r2, r3, s1

RequestSymmetry == Permutations(Requests)
=============================================================================
