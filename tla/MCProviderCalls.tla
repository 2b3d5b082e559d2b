--------------------------- MODULE MCProviderCalls ---------------------------
(* Instances of ProviderCalls for TLC: one client, whose image calls have up  *)
(* to two goroutines.                                                         *)
EXTENDS ProviderCalls, TLC

CONSTANTS r1, r2, c1

OneCall == [c \in {c1} |-> {r1, r2}]
=============================================================================
