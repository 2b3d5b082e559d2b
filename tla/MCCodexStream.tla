---------------------------- MODULE MCCodexStream ----------------------------
(* Instances of CodexStream for TLC. *)
EXTENDS CodexStream, TLC

CONSTANTS i1, i2

ItemSymmetry == Permutations(Items)

\* A backend that names an item by its call_id throughout, by its id
\* throughout, or opens it by the call_id and sends its deltas by the id.
OneName  == {[open |-> n, delta |-> n] : n \in Names}
AllNames == OneName \cup {[open |-> "call_id", delta |-> "id"]}
=============================================================================
