-------------------------------- MODULE MCChat --------------------------------
\* The bounded instance of Chat that TLC checks.
EXTENDS Chat

CONSTANTS i1, i2

\* A Codex backend that names an item by its call_id throughout, by its id
\* throughout, or opens it by the call_id and sends its deltas by the id.
AllNames == {[open |-> n, delta |-> n] : n \in {"call_id", "id"}}
            \cup {[open |-> "call_id", delta |-> "id"]}
=============================================================================
