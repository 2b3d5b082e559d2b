----------------------------- MODULE SlotLedger -----------------------------
(***************************************************************************)
(* What the pool and the relay together promise about concurrency slots    *)
(* (pool.go:5-6 and relay.go:3-4,109-112): a request holds the slot of at  *)
(* most one account, an account lends at most Conc slots, a slot goes from *)
(* one request to the next only through the account, and every slot lent   *)
(* comes back.  No counter, no channel, no goroutine: who holds what.      *)
(***************************************************************************)
EXTENDS Integers, FiniteSets

CONSTANTS Holder, Lender, Nobody, Limit

VARIABLE lease     \* the account whose slot each request holds, or Nobody

LedgerTypeOK == lease \in [Holder -> Lender \cup {Nobody}]

Lent(a) == {r \in Holder : lease[r] = a}

LedgerInit == lease = [r \in Holder |-> Nobody]

Grant(r, a) ==
  /\ lease[r] = Nobody
  /\ Limit > 0 => Cardinality(Lent(a)) < Limit
  /\ lease' = [lease EXCEPT ![r] = a]

Return(r) ==
  /\ lease[r] # Nobody
  /\ lease' = [lease EXCEPT ![r] = Nobody]

LedgerNext ==
  \E r \in Holder : Return(r) \/ \E a \in Lender : Grant(r, a)

LedgerSpec == LedgerInit /\ [][LedgerNext]_lease

LedgerFairSpec == LedgerSpec /\ \A r \in Holder : WF_lease(Return(r))
=============================================================================
