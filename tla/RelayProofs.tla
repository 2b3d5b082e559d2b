----------------------------- MODULE RelayProofs -----------------------------
(***************************************************************************)
(* Theorems about Relay over AccountPool, for every number of accounts,    *)
(* requests and sessions, every cap, and every length of the waits: the    *)
(* slots; then what a request is offered and in which order, what an       *)
(* operator's disable is worth, what the health snapshot says, and what    *)
(* "busy" means.                                                           *)
(***************************************************************************)
EXTENDS Relay, FiniteSetTheorems, WellFoundedInduction, TLAPS

-----------------------------------------------------------------------------
(* What the pool's operators return.                                       *)

LEMMA AccountsFinite ==
  /\ IsFiniteSet(Accounts)
  /\ Cardinality(Accounts) = NumAccounts
<1>1. 1 \in Int /\ NumAccounts \in Int /\ NumAccounts >= 1
  BY PoolAssumption
<1>2. QED
  BY <1>1, FS_Interval DEF Accounts

\* The healthy accounts, if there are any, number between 1 and NumAccounts.
LEMMA HealthyCount ==
  ASSUME HealthyAccounts # {}
  PROVE  Cardinality(HealthyAccounts) \in 1..NumAccounts
<1>1. HealthyAccounts \subseteq Accounts
  BY DEF HealthyAccounts
<1>2. /\ IsFiniteSet(HealthyAccounts)
      /\ Cardinality(HealthyAccounts) <= NumAccounts
  BY <1>1, AccountsFinite, FS_Subset
<1>3. Cardinality(HealthyAccounts) \in Nat
  BY <1>2, FS_CardinalityType
<1>4. Cardinality(HealthyAccounts) # 0
  BY <1>2, FS_EmptySet
<1>5. QED
  BY <1>2, <1>3, <1>4, PoolAssumption

LEMMA CursorInRange ==
  ASSUME PoolTypeOK, AdvanceCursor
  PROVE  cursor' \in 0..(NumAccounts - 1)
<1>1. CASE IsRoundRobin /\ HealthyAccounts # {}
  <2>1. Cardinality(HealthyAccounts) \in 1..NumAccounts
    BY <1>1, HealthyCount
  <2>2. cursor' = (cursor + 1) % Cardinality(HealthyAccounts)
    BY <1>1 DEF AdvanceCursor
  <2>3. cursor + 1 \in Int /\ NumAccounts \in Nat
    BY PoolAssumption DEF PoolTypeOK
  <2>4. QED
    BY <2>1, <2>2, <2>3
<1>2. CASE ~(IsRoundRobin /\ HealthyAccounts # {})
  BY <1>2 DEF AdvanceCursor, PoolTypeOK
<1>3. QED
  BY <1>1, <1>2

LEMMA RankType ==
  ASSUME NEW p, NEW s
  PROVE  CandidateRank(p, s) \in [Accounts -> Nat]
<1>1. SUFFICES ASSUME NEW a \in HealthyAccounts
               PROVE  Cardinality({b \in HealthyAccounts :
                        OrderKey(b, p, s) < OrderKey(a, p, s)}) \in Nat
  BY DEF CandidateRank
<1> DEFINE Before == {b \in HealthyAccounts : OrderKey(b, p, s) < OrderKey(a, p, s)}
<1>2. Before \subseteq Accounts
  BY DEF HealthyAccounts
<1>3. IsFiniteSet(Before)
  BY <1>2, AccountsFinite, FS_Subset
<1>4. QED
  BY <1>3, FS_CardinalityType

LEMMA OfferedType == Offered \subseteq Accounts
<1>1. 1 \in Accounts
  BY PoolAssumption DEF Accounts
<1>2. QED
  BY <1>1 DEF Offered, HealthyAccounts, RecoversSoonest

-----------------------------------------------------------------------------
(* Type correctness.                                                       *)

\* The part of TypeOK about the requests.
RequestTypeOK ==
  /\ pc        \in [Requests -> Points]
  /\ cancelled \in [Requests -> BOOLEAN]
  /\ budget    \in [Requests -> 0..QueueWait]
  /\ pin       \in [Requests -> Pins \cup {NoAccount}]
  /\ session   \in [Requests -> Sessions \cup {NoSession}]
  /\ pass      \in [Requests -> SUBSET Accounts]
  /\ rank      \in [Requests -> [Accounts -> Nat]]
  /\ skipped   \in [Requests -> SUBSET Accounts]
  /\ acct      \in [Requests -> Accounts \cup {NoAccount}]
  /\ freedSeen \in [Requests -> BOOLEAN]
  /\ outcome   \in [Requests -> Outcomes]

\* A request has a slot exactly while it names the account it is on.
HoldsMeansNamed == \A r \in Requests : Holds(r) <=> acct[r] \in Accounts

TypeInv == TypeOK /\ HoldsMeansNamed

LEMMA TypeSplit == TypeOK <=> PoolTypeOK /\ RequestTypeOK
BY DEF TypeOK, RequestTypeOK

LEMMA TypeInit == Init => TypeInv
<1> SUFFICES ASSUME Init PROVE TypeInv
  OBVIOUS
<1>1. PoolTypeOK
  <2>1. 0 \in 0..(NumAccounts - 1) /\ 0 \in 0..MaxFailures /\ 0 \in 0..StickyTTL
    BY PoolAssumption
  <2>2. QED
    BY <2>1 DEF Init, PoolInit, PoolTypeOK
<1>2. RequestTypeOK
  <2>1. 0 \in 0..QueueWait
    BY RelayAssumption
  <2>2. NoRank \in [Accounts -> Nat]
    BY DEF NoRank
  <2>3. "idle" \in Points /\ "none" \in Outcomes
    BY DEF Points, Outcomes
  <2>4. QED
    BY <2>1, <2>2, <2>3 DEF Init, RequestTypeOK
<1>3. HoldsMeansNamed
  BY DEF Init, HoldsMeansNamed, Holds, Accounts, NoAccount
<1>4. QED
  BY <1>1, <1>2, <1>3, TypeSplit DEF TypeInv

LEMMA TypeStep == TypeInv /\ [Next]_vars => TypeInv'
<1> SUFFICES ASSUME TypeInv, [Next]_vars PROVE TypeInv'
  OBVIOUS
<1> USE PoolAssumption, RelayAssumption
<1>0. PoolTypeOK /\ RequestTypeOK /\ HoldsMeansNamed
  BY TypeSplit DEF TypeInv
<1>s. SUFFICES PoolTypeOK' /\ RequestTypeOK' /\ HoldsMeansNamed'
  BY DEF TypeInv, TypeOK, RequestTypeOK
<1>a. NoAccount \notin Accounts
  BY DEF NoAccount, Accounts
<1>b. \A r \in Requests : Holds(r) => acct[r] \in Accounts
  BY <1>0 DEF HoldsMeansNamed
<1>1. ASSUME NEW r \in Requests, Start(r)
      PROVE  PoolTypeOK' /\ RequestTypeOK' /\ HoldsMeansNamed'
  <2>1. PoolTypeOK'
    BY <1>0, <1>b, <1>1 DEF Start, PoolTypeOK, poolVars, healthVars, routeVars, Holds, Goto
  <2>2. RequestTypeOK'
    BY <1>0, <1>1 DEF Start, RequestTypeOK, Goto, Decide, Points, Outcomes, ctlVars, inputVars, passVars
  <2>3. HoldsMeansNamed'
    BY <1>0, <1>a, <1>1 DEF Start, RequestTypeOK, HoldsMeansNamed, Holds, Goto, ctlVars
  <2>4. QED
    BY <2>1, <2>2, <2>3
<1>2. ASSUME NEW r \in Requests, GrabFreed(r)
      PROVE  PoolTypeOK' /\ RequestTypeOK' /\ HoldsMeansNamed'
  BY <1>0, <1>a, <1>2 DEF GrabFreed, PoolTypeOK, RequestTypeOK, HoldsMeansNamed, Holds, Goto, Decide, Points, Outcomes, poolVars, healthVars, routeVars, ctlVars, inputVars, passVars
<1>3. ASSUME NEW r \in Requests, ListCandidates(r)
      PROVE  PoolTypeOK' /\ RequestTypeOK' /\ HoldsMeansNamed'
  <2>1. cursor' \in 0..(NumAccounts - 1)
    BY <1>0, <1>3, CursorInRange DEF ListCandidates
  <2>2. Offered \in SUBSET Accounts
    BY OfferedType
  <2>3. CandidateRank(pin[r], session[r]) \in [Accounts -> Nat]
    BY RankType
  <2>4. PoolTypeOK'
    BY <1>0, <1>3, <2>1 DEF ListCandidates, PoolTypeOK, healthVars
  <2>5. RequestTypeOK'
    BY <1>0, <1>3, <2>2, <2>3 DEF ListCandidates, RequestTypeOK, Goto, Points, inputVars
  <2>6. HoldsMeansNamed'
    BY <1>0, <1>3 DEF ListCandidates, RequestTypeOK, HoldsMeansNamed, Holds, Goto
  <2>7. QED
    BY <2>4, <2>5, <2>6
<1>4. ASSUME NEW r \in Requests, SkipBusy(r)
      PROVE  PoolTypeOK' /\ RequestTypeOK' /\ HoldsMeansNamed'
  <2>1. PoolTypeOK'
    BY <1>0, <1>b, <1>4 DEF SkipBusy, PoolTypeOK, poolVars, healthVars, routeVars, Holds, Goto
  <2>2. RequestTypeOK'
    BY <1>0, <1>4 DEF SkipBusy, RequestTypeOK, Goto, Decide, Points, Outcomes, ctlVars, inputVars, passVars
  <2>3. HoldsMeansNamed'
    BY <1>0, <1>a, <1>4 DEF SkipBusy, RequestTypeOK, HoldsMeansNamed, Holds, Goto, ctlVars
  <2>4. QED
    BY <2>1, <2>2, <2>3
<1>5. ASSUME NEW r \in Requests, TakeSlot(r)
      PROVE  PoolTypeOK' /\ RequestTypeOK' /\ HoldsMeansNamed'
  <2>1. PoolTypeOK'
    BY <1>0, <1>b, <1>5 DEF TakeSlot, Acquire, PoolTypeOK, poolVars, healthVars, routeVars, Holds, Goto
  <2>2. RequestTypeOK'
    BY <1>0, <1>5 DEF TakeSlot, RequestTypeOK, Goto, Decide, Points, Outcomes, ctlVars, inputVars, passVars
  <2>3. HoldsMeansNamed'
    BY <1>0, <1>a, <1>5 DEF TakeSlot, RequestTypeOK, HoldsMeansNamed, Holds, Goto, ctlVars
  <2>4. QED
    BY <2>1, <2>2, <2>3
<1>6. ASSUME NEW r \in Requests, GiveUpUnavailable(r)
      PROVE  PoolTypeOK' /\ RequestTypeOK' /\ HoldsMeansNamed'
  BY <1>0, <1>a, <1>6 DEF GiveUpUnavailable, PoolTypeOK, RequestTypeOK, HoldsMeansNamed, Holds, Goto, Decide, Points, Outcomes, poolVars, healthVars, routeVars, ctlVars, inputVars, passVars
<1>7. ASSUME NEW r \in Requests, GiveUpBusy(r)
      PROVE  PoolTypeOK' /\ RequestTypeOK' /\ HoldsMeansNamed'
  BY <1>0, <1>a, <1>7 DEF GiveUpBusy, PoolTypeOK, RequestTypeOK, HoldsMeansNamed, Holds, Goto, Decide, Points, Outcomes, poolVars, healthVars, routeVars, ctlVars, inputVars, passVars
<1>8. ASSUME NEW r \in Requests, Enqueue(r)
      PROVE  PoolTypeOK' /\ RequestTypeOK' /\ HoldsMeansNamed'
  BY <1>0, <1>a, <1>8 DEF Enqueue, PoolTypeOK, RequestTypeOK, HoldsMeansNamed, Holds, Goto, Decide, Points, Outcomes, poolVars, healthVars, routeVars, ctlVars, inputVars, passVars
<1>9. ASSUME NEW r \in Requests, WakeFreed(r)
      PROVE  PoolTypeOK' /\ RequestTypeOK' /\ HoldsMeansNamed'
  BY <1>0, <1>a, <1>9 DEF WakeFreed, LeavePass, NoRank, PoolTypeOK, RequestTypeOK, HoldsMeansNamed, Holds, Goto, Decide, Points, Outcomes, poolVars, healthVars, routeVars, ctlVars, inputVars, passVars
<1>10. ASSUME NEW r \in Requests, WakeTimeout(r)
      PROVE  PoolTypeOK' /\ RequestTypeOK' /\ HoldsMeansNamed'
  BY <1>0, <1>a, <1>10 DEF WakeTimeout, PoolTypeOK, RequestTypeOK, HoldsMeansNamed, Holds, Goto, Decide, Points, Outcomes, poolVars, healthVars, routeVars, ctlVars, inputVars, passVars
<1>11. ASSUME NEW r \in Requests, WakeCancelled(r)
      PROVE  PoolTypeOK' /\ RequestTypeOK' /\ HoldsMeansNamed'
  BY <1>0, <1>a, <1>11 DEF WakeCancelled, PoolTypeOK, RequestTypeOK, HoldsMeansNamed, Holds, Goto, Decide, Points, Outcomes, poolVars, healthVars, routeVars, ctlVars, inputVars, passVars
<1>12. ASSUME NEW r \in Requests, BindSession(r)
      PROVE  PoolTypeOK' /\ RequestTypeOK' /\ HoldsMeansNamed'
  <2>1. PoolTypeOK'
    BY <1>0, <1>b, <1>12 DEF BindSession, Bind, PoolTypeOK, poolVars, healthVars, routeVars, Holds, Goto
  <2>2. RequestTypeOK'
    BY <1>0, <1>12 DEF BindSession, LeavePass, NoRank, RequestTypeOK, Goto, Decide, Points, Outcomes, ctlVars, inputVars, passVars
  <2>3. HoldsMeansNamed'
    BY <1>0, <1>a, <1>12 DEF BindSession, RequestTypeOK, HoldsMeansNamed, Holds, Goto, ctlVars
  <2>4. QED
    BY <2>1, <2>2, <2>3
<1>13. ASSUME NEW r \in Requests, DeferredRelease(r)
      PROVE  PoolTypeOK' /\ RequestTypeOK' /\ HoldsMeansNamed'
  <2>1. PoolTypeOK'
    BY <1>0, <1>b, <1>13 DEF DeferredRelease, Release, ReleaseCounts, PoolTypeOK, poolVars, healthVars, routeVars, Holds, Goto
  <2>2. RequestTypeOK'
    BY <1>0, <1>13 DEF DeferredRelease, Broadcast, RequestTypeOK, Goto, Decide, Points, Outcomes, ctlVars, inputVars, passVars
  <2>3. HoldsMeansNamed'
    BY <1>0, <1>a, <1>13 DEF DeferredRelease, RequestTypeOK, HoldsMeansNamed, Holds, Goto, ctlVars
  <2>4. QED
    BY <2>1, <2>2, <2>3
<1>14. ASSUME NEW r \in Requests, Finish(r)
      PROVE  PoolTypeOK' /\ RequestTypeOK' /\ HoldsMeansNamed'
  <2>1. PoolTypeOK'
    BY <1>0, <1>b, <1>14 DEF Finish, PoolTypeOK, poolVars, healthVars, routeVars, Holds, Goto
  <2>2. RequestTypeOK'
    BY <1>0, <1>14 DEF Finish, LeavePass, NoRank, RequestTypeOK, Goto, Decide, Points, Outcomes, ctlVars, inputVars, passVars
  <2>3. HoldsMeansNamed'
    BY <1>0, <1>a, <1>14 DEF Finish, RequestTypeOK, HoldsMeansNamed, Holds, Goto, ctlVars
  <2>4. QED
    BY <2>1, <2>2, <2>3
<1>15. ASSUME NEW r \in Requests, ReplyOk(r)
      PROVE  PoolTypeOK' /\ RequestTypeOK' /\ HoldsMeansNamed'
  <2>1. PoolTypeOK'
    BY <1>0, <1>b, <1>15 DEF ReplyOk, MarkOk, PoolTypeOK, poolVars, healthVars, routeVars, Holds, Goto
  <2>2. RequestTypeOK'
    BY <1>0, <1>15 DEF ReplyOk, RequestTypeOK, Goto, Decide, Points, Outcomes, ctlVars, inputVars, passVars
  <2>3. HoldsMeansNamed'
    BY <1>0, <1>a, <1>15 DEF ReplyOk, RequestTypeOK, HoldsMeansNamed, Holds, Goto, ctlVars
  <2>4. QED
    BY <2>1, <2>2, <2>3
<1>16. ASSUME NEW r \in Requests, ReplyRetriable(r)
      PROVE  PoolTypeOK' /\ RequestTypeOK' /\ HoldsMeansNamed'
  <2>1. PoolTypeOK'
    BY <1>0, <1>b, <1>16 DEF ReplyRetriable, RetryAfterReply, MarkRateLimited, MarkAuthFailed, cooldown, PoolTypeOK, poolVars, healthVars, routeVars, Holds, Goto
  <2>2. RequestTypeOK'
    BY <1>0, <1>16 DEF ReplyRetriable, RetryAfterReply, RequestTypeOK, Goto, Decide, Points, Outcomes, ctlVars, inputVars, passVars
  <2>3. HoldsMeansNamed'
    BY <1>0, <1>a, <1>16 DEF ReplyRetriable, RetryAfterReply, RequestTypeOK, HoldsMeansNamed, Holds, Goto, ctlVars
  <2>4. QED
    BY <2>1, <2>2, <2>3
<1>17. ASSUME NEW r \in Requests, ReplyTerminal(r)
      PROVE  PoolTypeOK' /\ RequestTypeOK' /\ HoldsMeansNamed'
  <2>1. PoolTypeOK'
    BY <1>0, <1>b, <1>17 DEF ReplyTerminal, EndWithReply, PoolTypeOK, poolVars, healthVars, routeVars, Holds, Goto
  <2>2. RequestTypeOK'
    BY <1>0, <1>17 DEF ReplyTerminal, EndWithReply, RequestTypeOK, Goto, Decide, Points, Outcomes, ctlVars, inputVars, passVars
  <2>3. HoldsMeansNamed'
    BY <1>0, <1>a, <1>17 DEF ReplyTerminal, EndWithReply, RequestTypeOK, HoldsMeansNamed, Holds, Goto, ctlVars
  <2>4. QED
    BY <2>1, <2>2, <2>3
<1>18. ASSUME NEW r \in Requests, CloseBody(r)
      PROVE  PoolTypeOK' /\ RequestTypeOK' /\ HoldsMeansNamed'
  <2>1. PoolTypeOK'
    BY <1>0, <1>b, <1>18 DEF CloseBody, Release, ReleaseCounts, PoolTypeOK, poolVars, healthVars, routeVars, Holds, Goto
  <2>2. RequestTypeOK'
    BY <1>0, <1>18 DEF CloseBody, Broadcast, RequestTypeOK, Goto, Decide, Points, Outcomes, ctlVars, inputVars, passVars
  <2>3. HoldsMeansNamed'
    BY <1>0, <1>a, <1>18 DEF CloseBody, RequestTypeOK, HoldsMeansNamed, Holds, Goto, ctlVars
  <2>4. QED
    BY <2>1, <2>2, <2>3
<1>19. ASSUME NEW gone \in SUBSET Requests, Cancel(gone)
      PROVE  PoolTypeOK' /\ RequestTypeOK' /\ HoldsMeansNamed'
  BY <1>0, <1>a, <1>19 DEF Cancel, PoolTypeOK, RequestTypeOK, HoldsMeansNamed, Holds, Goto, Decide, Points, Outcomes, poolVars, healthVars, routeVars, ctlVars, inputVars, passVars
<1>20. ASSUME AdminSetEnabled
      PROVE  PoolTypeOK' /\ RequestTypeOK' /\ HoldsMeansNamed'
  <2>1. PoolTypeOK'
    BY <1>0, <1>b, <1>20 DEF AdminSetEnabled, SetEnabled, PoolTypeOK, poolVars, healthVars, routeVars, Holds, Goto
  <2>2. RequestTypeOK'
    BY <1>0, <1>20 DEF AdminSetEnabled, RequestTypeOK, Goto, Decide, Points, Outcomes, ctlVars, inputVars, passVars
  <2>3. HoldsMeansNamed'
    BY <1>0, <1>a, <1>20 DEF AdminSetEnabled, RequestTypeOK, HoldsMeansNamed, Holds, Goto, ctlVars
  <2>4. QED
    BY <2>1, <2>2, <2>3
<1>21. ASSUME AdminSetPreferred
      PROVE  PoolTypeOK' /\ RequestTypeOK' /\ HoldsMeansNamed'
  <2>1. PoolTypeOK'
    BY <1>0, <1>b, <1>21 DEF AdminSetPreferred, SetPreferred, PoolTypeOK, poolVars, healthVars, routeVars, Holds, Goto
  <2>2. RequestTypeOK'
    BY <1>0, <1>21 DEF AdminSetPreferred, RequestTypeOK, Goto, Decide, Points, Outcomes, ctlVars, inputVars, passVars
  <2>3. HoldsMeansNamed'
    BY <1>0, <1>a, <1>21 DEF AdminSetPreferred, RequestTypeOK, HoldsMeansNamed, Holds, Goto, ctlVars
  <2>4. QED
    BY <2>1, <2>2, <2>3
<1>22. ASSUME Tick
      PROVE  PoolTypeOK' /\ RequestTypeOK' /\ HoldsMeansNamed'
  <2>1. PoolTypeOK'
    BY <1>0, <1>b, <1>22 DEF Tick, PoolTick, PoolTypeOK, poolVars, healthVars, routeVars, Holds, Goto
  <2>2. RequestTypeOK'
    BY <1>0, <1>22 DEF Tick, RequestTypeOK, Goto, Decide, Points, Outcomes, ctlVars, inputVars, passVars
  <2>3. HoldsMeansNamed'
    BY <1>0, <1>a, <1>22 DEF Tick, RequestTypeOK, HoldsMeansNamed, Holds, Goto, ctlVars
  <2>4. QED
    BY <2>1, <2>2, <2>3
<1>23. CASE UNCHANGED vars
  BY <1>0, <1>23 DEF vars, PoolTypeOK, RequestTypeOK, HoldsMeansNamed, Holds, Goto, Decide, Points, Outcomes, poolVars, healthVars, routeVars, ctlVars, inputVars, passVars
<1>24. QED
  BY <1>1, <1>2, <1>3, <1>4, <1>5, <1>6, <1>7, <1>8, <1>9, <1>10, <1>11, <1>12, <1>13, <1>14, <1>15, <1>16, <1>17, <1>18, <1>19, <1>20, <1>21, <1>22, <1>23 DEF Next, Proceed, Reply

\* The state of the pool and of every request always has its type, and a request
\* names an account exactly while it holds a slot.
THEOREM TypeCorrect == Spec => []TypeOK
<1>1. Init => TypeInv
  BY TypeInit
<1>2. TypeInv /\ [Next]_vars => TypeInv'
  BY TypeStep
<1>3. TypeInv => TypeOK
  BY DEF TypeInv
<1>4. QED
  BY <1>1, <1>2, <1>3, PTL DEF Spec

-----------------------------------------------------------------------------
(* Slots: the counter of an account and the requests that hold its slots.  *)

\* No counter is beyond the cap.
CountersCapped == Conc > 0 => \A a \in Accounts : inflight[a] <= Conc

SlotInv == TypeInv /\ SlotAccounting /\ CountersCapped

\* A step that neither takes nor returns a slot.
NoSlotMoves ==
  /\ UNCHANGED <<inflight, acct>>
  /\ \A q \in Requests : Holds(q)' <=> Holds(q)

LEMMA HoldersFinite ==
  ASSUME NEW a
  PROVE  /\ IsFiniteSet(Holders(a))
         /\ Cardinality(Holders(a)) \in Nat
<1>1. Holders(a) \subseteq Requests
  BY DEF Holders
<1>2. QED
  BY <1>1, FS_Subset, FS_CardinalityType, RelayAssumption

\* Only TakeSlot, DeferredRelease and CloseBody move a slot.
LEMMA QuietSteps ==
  ASSUME TypeInv, [Next]_vars
  PROVE  \/ NoSlotMoves
         \/ \E r \in Requests : TakeSlot(r) \/ DeferredRelease(r) \/ CloseBody(r)
<1>0. RequestTypeOK
  BY TypeSplit DEF TypeInv
<1>1. ASSUME NEW r \in Requests, Start(r) PROVE NoSlotMoves
  BY <1>0, <1>1 DEF Start, NoSlotMoves, Holds, RequestTypeOK, Goto, poolVars, healthVars, ctlVars
<1>2. ASSUME NEW r \in Requests, GrabFreed(r) PROVE NoSlotMoves
  BY <1>0, <1>2 DEF GrabFreed, NoSlotMoves, Holds, RequestTypeOK, Goto, poolVars, healthVars, ctlVars
<1>3. ASSUME NEW r \in Requests, ListCandidates(r) PROVE NoSlotMoves
  BY <1>0, <1>3 DEF ListCandidates, NoSlotMoves, Holds, RequestTypeOK, Goto, poolVars, healthVars, ctlVars
<1>4. ASSUME NEW r \in Requests, SkipBusy(r) PROVE NoSlotMoves
  BY <1>0, <1>4 DEF SkipBusy, NoSlotMoves, Holds, RequestTypeOK, Goto, poolVars, healthVars, ctlVars
<1>5. ASSUME NEW r \in Requests, GiveUpUnavailable(r) PROVE NoSlotMoves
  BY <1>0, <1>5 DEF GiveUpUnavailable, NoSlotMoves, Holds, RequestTypeOK, Goto, poolVars, healthVars, ctlVars
<1>6. ASSUME NEW r \in Requests, GiveUpBusy(r) PROVE NoSlotMoves
  BY <1>0, <1>6 DEF GiveUpBusy, NoSlotMoves, Holds, RequestTypeOK, Goto, poolVars, healthVars, ctlVars
<1>7. ASSUME NEW r \in Requests, Enqueue(r) PROVE NoSlotMoves
  BY <1>0, <1>7 DEF Enqueue, NoSlotMoves, Holds, RequestTypeOK, Goto, poolVars, healthVars, ctlVars
<1>8. ASSUME NEW r \in Requests, WakeFreed(r) PROVE NoSlotMoves
  BY <1>0, <1>8 DEF WakeFreed, NoSlotMoves, Holds, RequestTypeOK, Goto, poolVars, healthVars, ctlVars
<1>9. ASSUME NEW r \in Requests, WakeTimeout(r) PROVE NoSlotMoves
  BY <1>0, <1>9 DEF WakeTimeout, NoSlotMoves, Holds, RequestTypeOK, Goto, poolVars, healthVars, ctlVars
<1>10. ASSUME NEW r \in Requests, WakeCancelled(r) PROVE NoSlotMoves
  BY <1>0, <1>10 DEF WakeCancelled, NoSlotMoves, Holds, RequestTypeOK, Goto, poolVars, healthVars, ctlVars
<1>11. ASSUME NEW r \in Requests, BindSession(r) PROVE NoSlotMoves
  BY <1>0, <1>11 DEF BindSession, NoSlotMoves, Holds, RequestTypeOK, Goto, poolVars, healthVars, ctlVars
<1>12. ASSUME NEW r \in Requests, Finish(r) PROVE NoSlotMoves
  BY <1>0, <1>12 DEF Finish, NoSlotMoves, Holds, RequestTypeOK, Goto, poolVars, healthVars, ctlVars
<1>13. ASSUME NEW r \in Requests, ReplyOk(r) PROVE NoSlotMoves
  BY <1>0, <1>13 DEF ReplyOk, NoSlotMoves, Holds, RequestTypeOK, Goto, poolVars, healthVars, ctlVars
<1>14. ASSUME NEW r \in Requests, ReplyRetriable(r) PROVE NoSlotMoves
  BY <1>0, <1>14 DEF ReplyRetriable, RetryAfterReply, NoSlotMoves, Holds, RequestTypeOK, Goto, poolVars, healthVars, ctlVars
<1>15. ASSUME NEW r \in Requests, ReplyTerminal(r) PROVE NoSlotMoves
  BY <1>0, <1>15 DEF ReplyTerminal, EndWithReply, NoSlotMoves, Holds, RequestTypeOK, Goto, poolVars, healthVars, ctlVars
<1>16. ASSUME NEW gone \in SUBSET Requests, Cancel(gone) PROVE NoSlotMoves
  BY <1>0, <1>16 DEF Cancel, NoSlotMoves, Holds, RequestTypeOK, Goto, poolVars, healthVars, ctlVars
<1>17. ASSUME AdminSetEnabled PROVE NoSlotMoves
  BY <1>0, <1>17 DEF AdminSetEnabled, NoSlotMoves, Holds, ctlVars
<1>18. ASSUME AdminSetPreferred PROVE NoSlotMoves
  BY <1>0, <1>18 DEF AdminSetPreferred, NoSlotMoves, Holds, ctlVars
<1>19. ASSUME Tick PROVE NoSlotMoves
  BY <1>0, <1>19 DEF Tick, PoolTick, NoSlotMoves, Holds, ctlVars
<1>20. CASE UNCHANGED vars
  BY <1>20 DEF vars, NoSlotMoves, Holds, poolVars, ctlVars
<1>21. QED
  BY <1>1, <1>2, <1>3, <1>4, <1>5, <1>6, <1>7, <1>8, <1>9, <1>10, <1>11, <1>12, <1>13, <1>14, <1>15, <1>16, <1>17, <1>18, <1>19, <1>20 DEF Next, Proceed, Reply

LEMMA QuietKeepsSlots ==
  ASSUME SlotInv, NoSlotMoves
  PROVE  SlotAccounting' /\ CountersCapped'
<1>1. \A a : Holders(a)' = Holders(a)
  BY DEF NoSlotMoves, Holders
<1>2. QED
  BY <1>1 DEF SlotInv, SlotAccounting, CountersCapped, NoSlotMoves

\* One holder more on the account whose counter went up.
LEMMA TakeKeepsSlots ==
  ASSUME SlotInv, NEW r \in Requests, TakeSlot(r)
  PROVE  SlotAccounting' /\ CountersCapped'
<1>0. PoolTypeOK /\ RequestTypeOK /\ SlotAccounting /\ CountersCapped
  BY TypeSplit DEF SlotInv, TypeInv
<1>1. PICK a \in Accounts :
        /\ ~AtCap(a)
        /\ inflight' = [inflight EXCEPT ![a] = @ + 1]
        /\ acct' = [acct EXCEPT ![r] = a]
  BY DEF TakeSlot, Acquire
<1>2. pc[r] = "try" /\ pc' = [pc EXCEPT ![r] = "call"]
  BY DEF TakeSlot, Goto
<1>3. r \notin Holders(a)
  BY <1>2 DEF Holders, Holds
<1>4. Holders(a)' = Holders(a) \cup {r}
  BY <1>0, <1>1, <1>2 DEF Holders, Holds, RequestTypeOK
<1>5. \A b \in Accounts \ {a} : Holders(b)' = Holders(b)
  BY <1>0, <1>1, <1>2 DEF Holders, Holds, RequestTypeOK
<1>6. Cardinality(Holders(a)') = Cardinality(Holders(a)) + 1
  BY <1>3, <1>4, HoldersFinite, FS_AddElement
<1>7. SlotAccounting'
  BY <1>0, <1>1, <1>5, <1>6 DEF SlotAccounting, PoolTypeOK
<1>8. CountersCapped'
  BY <1>0, <1>1, PoolAssumption DEF CountersCapped, AtCap, PoolTypeOK
<1>9. QED
  BY <1>7, <1>8

\* One holder less on the account whose counter went down; the guard of Release
\* (inflight > 0) never bites, because the releasing request is counted.
LEMMA ReturnKeepsSlots ==
  ASSUME SlotInv, NEW r \in Requests, DeferredRelease(r) \/ CloseBody(r)
  PROVE  /\ SlotAccounting' /\ CountersCapped'
         /\ ReleaseCounts(acct[r])
<1>0. /\ PoolTypeOK /\ RequestTypeOK /\ SlotAccounting /\ CountersCapped
      /\ HoldsMeansNamed
  BY TypeSplit DEF SlotInv, TypeInv
<1>a. Holds(r) /\ acct[r] \in Accounts
  BY <1>0 DEF DeferredRelease, CloseBody, Goto, Holds, HoldsMeansNamed
<1>1. PICK a \in Accounts : a = acct[r] /\ Holds(r)
  BY <1>a
<1>2. r \in Holders(a)
  BY <1>1 DEF Holders
<1>3. inflight[a] > 0
  <2>1. Cardinality(Holders(a)) # 0
    BY <1>2, HoldersFinite, FS_EmptySet
  <2>2. inflight[a] = Cardinality(Holders(a))
    BY <1>0, <1>1 DEF SlotAccounting
  <2>3. QED
    BY <2>1, <2>2, HoldersFinite
<1>4. inflight' = [inflight EXCEPT ![a] = @ - 1]
  BY <1>1, <1>3 DEF DeferredRelease, CloseBody, Release, ReleaseCounts
<1>5. acct' = [acct EXCEPT ![r] = NoAccount]
  BY DEF DeferredRelease, CloseBody
<1>6. \A q \in Requests : q # r => pc'[q] = pc[q] /\ acct'[q] = acct[q]
  BY <1>0, <1>5 DEF DeferredRelease, CloseBody, Goto, RequestTypeOK
<1>7. acct'[r] = NoAccount /\ NoAccount \notin Accounts
  BY <1>0, <1>5 DEF RequestTypeOK, NoAccount, Accounts
<1>8. Holders(a)' = Holders(a) \ {r}
  BY <1>1, <1>6, <1>7 DEF Holders, Holds
<1>9. \A b \in Accounts \ {a} : Holders(b)' = Holders(b)
  BY <1>1, <1>6, <1>7 DEF Holders, Holds
<1>10. Cardinality(Holders(a)') = Cardinality(Holders(a)) - 1
  BY <1>2, <1>8, HoldersFinite, FS_RemoveElement
<1>11. SlotAccounting'
  BY <1>0, <1>1, <1>4, <1>9, <1>10 DEF SlotAccounting, PoolTypeOK
<1>12. CountersCapped'
  BY <1>0, <1>1, <1>4, PoolAssumption DEF CountersCapped, PoolTypeOK
<1>13. QED
  BY <1>1, <1>3, <1>11, <1>12 DEF ReleaseCounts

LEMMA SlotInit == Init => SlotInv
<1> SUFFICES ASSUME Init PROVE SlotInv
  OBVIOUS
<1>1. \A a \in Accounts : Holders(a) = {} /\ inflight[a] = 0
  BY DEF Init, PoolInit, Holders, Holds
<1>2. SlotAccounting
  BY <1>1, FS_EmptySet DEF SlotAccounting
<1>3. CountersCapped
  BY <1>1, PoolAssumption DEF CountersCapped
<1>4. QED
  BY <1>2, <1>3, TypeInit DEF SlotInv

LEMMA SlotStep == SlotInv /\ [Next]_vars => SlotInv'
<1> SUFFICES ASSUME SlotInv, [Next]_vars PROVE SlotInv'
  OBVIOUS
<1>1. TypeInv'
  BY TypeStep DEF SlotInv
<1>2. SlotAccounting' /\ CountersCapped'
  BY QuietSteps, QuietKeepsSlots, TakeKeepsSlots, ReturnKeepsSlots DEF SlotInv
<1>3. QED
  BY <1>1, <1>2 DEF SlotInv

\* No slot leaks and none is returned twice, on any path of any request.
THEOREM SlotsAccounted == Spec => []SlotAccounting
<1>1. SlotInv => SlotAccounting
  BY DEF SlotInv
<1>2. QED
  BY <1>1, SlotInit, SlotStep, PTL DEF Spec

\* No account ever serves more requests than its cap.
THEOREM CapKept == Spec => []CapRespected
<1>1. SlotInv => CapRespected
  BY DEF SlotInv, SlotAccounting, CountersCapped, CapRespected
<1>2. QED
  BY <1>1, SlotInit, SlotStep, PTL DEF Spec

-----------------------------------------------------------------------------
(* No lost wakeup.                                                         *)

\* The points at which a request still relies on the channel it took.
Relying == {"try", "call", "bind", "release", "wait"}

\* What a step of anybody has to keep for NoLostWakeup to hold of q after it.
KeepsWatch(q) ==
  pc'[q] \in Relying /\ ~freedSeen'[q] => \A a \in skipped'[q] : AtCap(a)'

WakeInv == TypeInv /\ NoLostWakeup

\* A step that changes neither a counter nor what q relies on.
LEMMA StandsStill ==
  ASSUME WakeInv, NEW q \in Requests,
         UNCHANGED <<inflight, skipped[q], freedSeen[q]>>,
         pc[q] \in Relying \/ pc'[q] \notin Relying
  PROVE  KeepsWatch(q)
BY DEF WakeInv, NoLostWakeup, KeepsWatch, AtCap, Relying

LEMMA WakeStep == WakeInv /\ [Next]_vars => WakeInv'
<1> SUFFICES ASSUME WakeInv, [Next]_vars, NEW q \in Requests
             PROVE  KeepsWatch(q)
  BY TypeStep DEF WakeInv, NoLostWakeup, KeepsWatch, Relying
<1>0. PoolTypeOK /\ RequestTypeOK
  BY TypeSplit DEF WakeInv, TypeInv
<1>1. ASSUME NEW r \in Requests, Start(r) PROVE KeepsWatch(q)
  BY <1>0, <1>1, StandsStill DEF Start, RequestTypeOK, Goto, Relying, poolVars, healthVars, ctlVars, passVars
<1>2. ASSUME NEW r \in Requests, GrabFreed(r) PROVE KeepsWatch(q)
  BY <1>0, <1>2, StandsStill DEF GrabFreed, KeepsWatch, RequestTypeOK, Goto, Relying,
     poolVars, passVars
<1>3. ASSUME NEW r \in Requests, ListCandidates(r) PROVE KeepsWatch(q)
  BY <1>0, <1>3, StandsStill DEF ListCandidates, KeepsWatch, RequestTypeOK, Goto
<1>4. ASSUME NEW r \in Requests, SkipBusy(r) PROVE KeepsWatch(q)
  <2>1. PICK a \in Accounts : /\ AtCap(a)
                              /\ skipped' = [skipped EXCEPT ![r] = @ \cup {a}]
    BY <1>4 DEF SkipBusy
  <2>2. UNCHANGED <<inflight, pc, freedSeen>> /\ pc[r] = "try"
    BY <1>4 DEF SkipBusy, poolVars, ctlVars
  <2>3. CASE q = r
    BY <1>0, <2>1, <2>2, <2>3
       DEF WakeInv, NoLostWakeup, KeepsWatch, AtCap, RequestTypeOK, Relying
  <2>4. CASE q # r
    BY <1>0, <2>1, <2>2, <2>4, StandsStill DEF RequestTypeOK
  <2>5. QED
    BY <2>3, <2>4
<1>5. ASSUME NEW r \in Requests, TakeSlot(r) PROVE KeepsWatch(q)
  <2>1. PICK a \in Accounts : inflight' = [inflight EXCEPT ![a] = @ + 1]
    BY <1>5 DEF TakeSlot, Acquire
  <2>2. \A b \in Accounts : AtCap(b) => AtCap(b)'
    BY <1>0, <2>1, PoolAssumption DEF AtCap, PoolTypeOK
  <2>3. UNCHANGED <<skipped, freedSeen>> /\ (pc'[q] \in Relying => pc[q] \in Relying)
    BY <1>0, <1>5 DEF TakeSlot, Goto, RequestTypeOK, Relying
  <2>4. skipped[q] \subseteq Accounts
    BY <1>0 DEF RequestTypeOK
  <2>5. QED
    BY <2>2, <2>3, <2>4 DEF WakeInv, NoLostWakeup, KeepsWatch, Relying
<1>6. ASSUME NEW r \in Requests, GiveUpUnavailable(r) PROVE KeepsWatch(q)
  BY <1>0, <1>6, StandsStill DEF GiveUpUnavailable, RequestTypeOK, Goto, Relying, poolVars, healthVars, ctlVars, passVars
<1>7. ASSUME NEW r \in Requests, GiveUpBusy(r) PROVE KeepsWatch(q)
  BY <1>0, <1>7, StandsStill DEF GiveUpBusy, RequestTypeOK, Goto, Relying, poolVars, healthVars, ctlVars, passVars
<1>8. ASSUME NEW r \in Requests, Enqueue(r) PROVE KeepsWatch(q)
  BY <1>0, <1>8, StandsStill DEF Enqueue, RequestTypeOK, Goto, Relying, poolVars, healthVars, ctlVars, passVars
<1>9. ASSUME NEW r \in Requests, WakeFreed(r) PROVE KeepsWatch(q)
  BY <1>0, <1>9, StandsStill
     DEF WakeFreed, KeepsWatch, RequestTypeOK, Goto, Relying, LeavePass, poolVars
<1>10. ASSUME NEW r \in Requests, WakeTimeout(r) PROVE KeepsWatch(q)
  BY <1>0, <1>10, StandsStill DEF WakeTimeout, RequestTypeOK, Goto, Relying, poolVars, healthVars, ctlVars, passVars
<1>11. ASSUME NEW r \in Requests, WakeCancelled(r) PROVE KeepsWatch(q)
  BY <1>0, <1>11, StandsStill DEF WakeCancelled, RequestTypeOK, Goto, Relying, poolVars, healthVars, ctlVars, passVars
<1>12. ASSUME NEW r \in Requests, BindSession(r) PROVE KeepsWatch(q)
  BY <1>0, <1>12, StandsStill
     DEF BindSession, KeepsWatch, RequestTypeOK, Goto, Relying, LeavePass
<1>13. ASSUME NEW r \in Requests, DeferredRelease(r) PROVE KeepsWatch(q)
  <2>1. CASE ReleaseCounts(acct[r])
    \* Every request past fetch sees its channel closed.
    BY <1>0, <1>13, <2>1 DEF DeferredRelease, Broadcast, KeepsWatch, RequestTypeOK, Goto, Relying
  <2>2. CASE ~ReleaseCounts(acct[r])
    BY <1>0, <1>13, <2>2, StandsStill
       DEF DeferredRelease, Release, Broadcast, RequestTypeOK, Goto, Relying, passVars
  <2>3. QED
    BY <2>1, <2>2
<1>14. ASSUME NEW r \in Requests, Finish(r) PROVE KeepsWatch(q)
  BY <1>0, <1>14, StandsStill
     DEF Finish, KeepsWatch, RequestTypeOK, Goto, Relying, LeavePass, poolVars
<1>15. ASSUME NEW r \in Requests, ReplyOk(r) PROVE KeepsWatch(q)
  BY <1>0, <1>15, StandsStill DEF ReplyOk, RequestTypeOK, Goto, Relying, poolVars, healthVars, ctlVars, passVars
<1>16. ASSUME NEW r \in Requests, ReplyRetriable(r) PROVE KeepsWatch(q)
  BY <1>0, <1>16, StandsStill DEF ReplyRetriable, RetryAfterReply, RequestTypeOK, Goto, Relying, poolVars, healthVars, ctlVars, passVars
<1>17. ASSUME NEW r \in Requests, ReplyTerminal(r) PROVE KeepsWatch(q)
  BY <1>0, <1>17, StandsStill DEF ReplyTerminal, EndWithReply, RequestTypeOK, Goto, Relying, poolVars, healthVars, ctlVars, passVars
<1>18. ASSUME NEW r \in Requests, CloseBody(r) PROVE KeepsWatch(q)
  <2>1. CASE ReleaseCounts(acct[r])
    \* Every request past fetch sees its channel closed.
    BY <1>0, <1>18, <2>1 DEF CloseBody, Broadcast, KeepsWatch, RequestTypeOK, Goto, Relying
  <2>2. CASE ~ReleaseCounts(acct[r])
    BY <1>0, <1>18, <2>2, StandsStill
       DEF CloseBody, Release, Broadcast, RequestTypeOK, Goto, Relying, passVars
  <2>3. QED
    BY <2>1, <2>2
<1>19. ASSUME NEW gone \in SUBSET Requests, Cancel(gone) PROVE KeepsWatch(q)
  BY <1>0, <1>19, StandsStill DEF Cancel, RequestTypeOK, Goto, Relying, poolVars, healthVars, ctlVars, passVars
<1>20. ASSUME AdminSetEnabled PROVE KeepsWatch(q)
  BY <1>0, <1>20, StandsStill DEF AdminSetEnabled, ctlVars, passVars
<1>21. ASSUME AdminSetPreferred PROVE KeepsWatch(q)
  BY <1>0, <1>21, StandsStill DEF AdminSetPreferred, ctlVars, passVars
<1>22. ASSUME Tick PROVE KeepsWatch(q)
  BY <1>0, <1>22, StandsStill DEF Tick, PoolTick, ctlVars, passVars
<1>23. CASE UNCHANGED vars
  BY <1>0, <1>23, StandsStill DEF vars, poolVars, ctlVars, passVars
<1>24. QED
  BY <1>1, <1>2, <1>3, <1>4, <1>5, <1>6, <1>7, <1>8, <1>9, <1>10, <1>11, <1>12, <1>13, <1>14, <1>15, <1>16, <1>17, <1>18, <1>19, <1>20, <1>21, <1>22, <1>23 DEF Next, Proceed, Reply

\* A request that sleeps on an open channel was refused by accounts that are
\* still at their cap.
THEOREM NoWakeupLost == Spec => []NoLostWakeup
<1>1. Init => WakeInv
  <2>1. Init => NoLostWakeup
    BY DEF Init, NoLostWakeup
  <2>2. QED
    BY <2>1, TypeInit DEF WakeInv
<1>2. WakeInv => NoLostWakeup
  BY DEF WakeInv
<1>3. QED
  BY <1>1, <1>2, WakeStep, PTL DEF Spec

-----------------------------------------------------------------------------
(* The relay implements the ledger of slots.                               *)

LEMMA LedgerStep == SlotInv /\ [Next]_vars => [Ledger!LedgerNext]_acct
<1> SUFFICES ASSUME SlotInv, [Next]_vars PROVE [Ledger!LedgerNext]_acct
  OBVIOUS
<1>0. /\ PoolTypeOK /\ RequestTypeOK /\ SlotAccounting /\ HoldsMeansNamed
  BY TypeSplit DEF SlotInv, TypeInv
<1>1. CASE NoSlotMoves
  BY <1>1 DEF NoSlotMoves
<1>2. ASSUME NEW r \in Requests, TakeSlot(r) PROVE Ledger!LedgerNext
  <2>1. PICK a \in Accounts : ~AtCap(a) /\ acct' = [acct EXCEPT ![r] = a]
    BY <1>2 DEF TakeSlot, Acquire
  <2>2. acct[r] = NoAccount
    BY <1>0, <1>2 DEF TakeSlot, Goto, HoldsMeansNamed, Holds, RequestTypeOK
  <2>3. Ledger!Lent(a) = Holders(a)
    BY <1>0 DEF Ledger!Lent, Holders, HoldsMeansNamed
  <2>4. Conc > 0 => Cardinality(Ledger!Lent(a)) < Conc
    BY <1>0, <2>1, <2>3, PoolAssumption DEF AtCap, SlotAccounting, PoolTypeOK
  <2>c. Ledger!Cardinality(Ledger!Lent(a)) = Cardinality(Ledger!Lent(a))
    BY DEF Ledger!Cardinality, Cardinality
  <2>5. Ledger!Grant(r, a)
    BY <2>1, <2>2, <2>4, <2>c DEF Ledger!Grant
  <2>6. QED
    BY <2>5 DEF Ledger!LedgerNext
<1>3. ASSUME NEW r \in Requests, DeferredRelease(r) \/ CloseBody(r)
      PROVE  Ledger!LedgerNext
  <2>1. acct[r] # NoAccount
    BY <1>0, <1>3 DEF DeferredRelease, CloseBody, Goto, HoldsMeansNamed, Holds,
                      NoAccount, Accounts
  <2>2. Ledger!Return(r)
    BY <1>3, <2>1 DEF DeferredRelease, CloseBody, Ledger!Return
  <2>3. QED
    BY <2>2 DEF Ledger!LedgerNext
<1>4. QED
  BY <1>1, <1>2, <1>3, QuietSteps DEF SlotInv

\* Every behaviour of the relay lends and takes back slots as the ledger does:
\* at most Conc of an account at a time, one per request, and never from one
\* request to another without coming back first.
THEOREM RelayFollowsLedger == Spec => SlotsFollowLedger
<1>1. Init => Ledger!LedgerInit
  BY DEF Init, Ledger!LedgerInit
<1>2. QED
  BY <1>1, SlotInit, SlotStep, LedgerStep, PTL
     DEF Spec, SlotsFollowLedger, Ledger!LedgerSpec

-----------------------------------------------------------------------------
(* What a step does to the health of the accounts.                         *)

\* Every step that changes it: replies, an operator, the clock.
LEMMA HealthSteps ==
  ASSUME [Next]_vars
  PROVE  \/ UNCHANGED healthVars
         \/ \E r \in Requests : ReplyOk(r) \/ ReplyRetriable(r)
         \/ AdminSetEnabled
         \/ Tick
BY DEF Next, Proceed, Reply, vars, poolVars,
       Start, GrabFreed, ListCandidates, SkipBusy, TakeSlot, GiveUpUnavailable, GiveUpBusy,
       Enqueue, WakeFreed, WakeTimeout, WakeCancelled, BindSession, DeferredRelease, Finish,
       ReplyTerminal, EndWithReply, CloseBody, Cancel, AdminSetPreferred

LEMMA ManualStep ==
  ASSUME [Next]_vars
  PROVE  UNCHANGED manualDisabled \/ UNCHANGED pc
BY HealthSteps DEF healthVars, ReplyOk, MarkOk, ReplyRetriable, RetryAfterReply, MarkRateLimited,
                   MarkAuthFailed, cooldown, AdminSetEnabled, ctlVars, Tick, PoolTick

\* Nothing a request does takes back an operator's disable.
THEOREM ManualDisableStays == Spec => ManualDisableHolds
<1>1. [Next]_vars =>
        [\A a \in Accounts : manualDisabled[a] /\ ~manualDisabled'[a] => UNCHANGED pc]_vars
  BY ManualStep
<1>2. QED
  BY <1>1, PTL DEF Spec, ManualDisableHolds

LEMMA CoolingStep ==
  ASSUME TypeInv, CoolingAccountsHaveFailed, [Next]_vars
  PROVE  CoolingAccountsHaveFailed'
<1> SUFFICES ASSUME MaxFailures > 0, NEW a \in Accounts, cool'[a] > 0
             PROVE  failures'[a] > 0
  BY DEF CoolingAccountsHaveFailed
<1>0. PoolTypeOK
  BY TypeSplit DEF TypeInv
<1>1. cool[a] > 0 => failures[a] > 0
  BY DEF CoolingAccountsHaveFailed
<1> USE <1>0, <1>1, PoolAssumption DEF PoolTypeOK
<1>2. CASE UNCHANGED healthVars
  BY <1>2 DEF healthVars
<1>3. ASSUME NEW r \in Requests, ReplyOk(r) PROVE failures'[a] > 0
  BY <1>3 DEF ReplyOk, MarkOk
<1>4. ASSUME NEW r \in Requests, ReplyRetriable(r) PROVE failures'[a] > 0
  BY <1>4 DEF ReplyRetriable, RetryAfterReply, MarkRateLimited, MarkAuthFailed, cooldown
<1>5. CASE AdminSetEnabled
  BY <1>5 DEF AdminSetEnabled, SetEnabled
<1>6. CASE Tick
  BY <1>6 DEF Tick, PoolTick
<1>7. QED
  BY <1>2, <1>3, <1>4, <1>5, <1>6, HealthSteps

\* What the health snapshot shows fits together: an account in cooldown has a
\* failure to show for it.
THEOREM CoolingShowsFailures == Spec => []CoolingAccountsHaveFailed
<1>1. Init => TypeInv /\ CoolingAccountsHaveFailed
  BY TypeInit DEF Init, PoolInit, CoolingAccountsHaveFailed
<1>2. TypeInv /\ CoolingAccountsHaveFailed /\ [Next]_vars
      => TypeInv' /\ CoolingAccountsHaveFailed'
  BY TypeStep, CoolingStep
<1>3. QED
  BY <1>1, <1>2, PTL DEF Spec

-----------------------------------------------------------------------------
(* What a request is offered, and in which order.                          *)

\* Somebody recovers soonest: among the sets "a and all who recover before a"
\* there is a smallest one.
LEMMA SomebodyRecovers ==
  ASSUME PoolTypeOK
  PROVE  RecoversSoonest # {}
<1> DEFINE enabled == {a \in Accounts : ~manualDisabled[a]}
           Before(a, b) == cool[a] < cool[b] \/ (cool[a] = cool[b] /\ a <= b)
           UpTo(b) == {a \in enabled : Before(a, b)}
           UpTos   == {UpTo(b) : b \in enabled}
<1>1. CASE enabled = {}
  BY <1>1 DEF RecoversSoonest
<1>2. CASE enabled # {}
  <2>1. IsFiniteSet(enabled)
    BY AccountsFinite, FS_Subset
  <2>2. UpTos \subseteq FiniteSubsetsOf(enabled) /\ UpTos # {}
    <3>1. \A b \in enabled : UpTo(b) \in SUBSET enabled
      OBVIOUS
    <3>2. \A b \in enabled : UpTo(b) \in FiniteSubsetsOf(enabled)
      BY <2>1, <3>1, FS_Subset DEF FiniteSubsetsOf
    <3> HIDE DEF UpTo
    <3>3. QED
      BY <1>2, <3>2
  <2>3. IsWellFoundedOn(StrictSubsetOrdering(enabled), FiniteSubsetsOf(enabled))
    BY FS_StrictSubsetOrderingWellFounded
  <2> HIDE DEF UpTos
  <2>4. PICK U \in UpTos : \A V \in UpTos : <<V, U>> \notin StrictSubsetOrdering(enabled)
    BY <2>2, <2>3, WFMin
  <2>5. PICK m \in enabled : U = UpTo(m)
    BY <2>4 DEF UpTos
  <2>6. ASSUME NEW b \in enabled PROVE Before(m, b)
    <3>1. \A a \in enabled : a \in Int /\ cool[a] \in Int
      BY PoolAssumption DEF PoolTypeOK, Accounts
    <3>2. SUFFICES ASSUME ~Before(m, b) PROVE FALSE
      OBVIOUS
    <3>3. UpTo(b) \subseteq UpTo(m) /\ m \in UpTo(m) /\ m \notin UpTo(b)
      BY <3>1, <3>2
    <3>4. <<UpTo(b), U>> \in StrictSubsetOrdering(enabled)
      BY <2>5, <3>3 DEF StrictSubsetOrdering
    <3>5. UpTo(b) \in UpTos
      BY DEF UpTos
    <3>6. QED
      BY <2>4, <3>4, <3>5
  <2>7. m \in RecoversSoonest
    BY <1>2, <2>6 DEF RecoversSoonest
  <2>8. QED
    BY <2>7
<1>3. QED
  BY <1>1, <1>2

\* One turn past n comes round to the start.
LEMMA OnceRound ==
  ASSUME NEW n \in Nat \ {0}, NEW x \in 0..(2 * n - 1)
  PROVE  x % n = IF x < n THEN x ELSE x - n
OBVIOUS

\* A smaller set of a finite set counts less.
LEMMA FewerOf ==
  ASSUME NEW S, NEW T, IsFiniteSet(T), S \subseteq T, NEW x \in T, x \notin S
  PROVE  Cardinality(S) \in Nat /\ Cardinality(T) \in Nat /\ Cardinality(S) < Cardinality(T)
<1>1. IsFiniteSet(S) /\ Cardinality(S) <= Cardinality(T) /\ Cardinality(S) # Cardinality(T)
  BY FS_Subset
<1>2. QED
  BY <1>1, FS_CardinalityType

\* Each healthy account has a key of its own.  The free ones are numbered below
\* n, the ones at their cap from n on, and the front one has -1.
LEMMA KeysDiffer ==
  ASSUME PoolTypeOK, NEW p, NEW s, NEW a \in HealthyAccounts
  PROVE  LET n == Cardinality(HealthyAccounts)
         IN  /\ n \in Nat
             /\ OrderKey(a, p, s) \in Int
             /\ a = Front(p, s)  => OrderKey(a, p, s) = -1
             /\ a # Front(p, s) /\ ~AtCap(a) => OrderKey(a, p, s) \in 0..(n - 1)
             /\ a # Front(p, s) /\ AtCap(a)  => OrderKey(a, p, s) \in n..(2 * n - 1)
             /\ \A b \in HealthyAccounts :
                  OrderKey(a, p, s) = OrderKey(b, p, s) => a = b
<1> DEFINE n == Cardinality(HealthyAccounts)
           pos(b) == Cardinality({d \in HealthyAccounts : d < b})
           start == IF IsRoundRobin THEN cursor % n ELSE 0
           turn(b) == (pos(b) + n - start) % n
<1>1. n \in Nat \ {0} /\ IsFiniteSet(HealthyAccounts) /\ HealthyAccounts \subseteq Int
  <2>1. HealthyAccounts \subseteq Accounts /\ Accounts \subseteq Int
    BY PoolAssumption DEF HealthyAccounts, Accounts
  <2>2. IsFiniteSet(HealthyAccounts)
    BY <2>1, AccountsFinite, FS_Subset
  <2>3. n \in 1..NumAccounts
    BY HealthyCount
  <2>4. QED
    BY <2>1, <2>2, <2>3, PoolAssumption
<1>2. start \in 0..(n - 1)
  BY <1>1 DEF PoolTypeOK
<1>3. \A b \in HealthyAccounts : pos(b) \in 0..(n - 1)
  <2>1. TAKE b \in HealthyAccounts
  <2>2. b \notin {d \in HealthyAccounts : d < b}
    BY <1>1
  <2>3. QED
    BY <1>1, <2>2, FewerOf
<1>4. \A b, d \in HealthyAccounts : b < d => pos(b) < pos(d)
  <2>1. SUFFICES ASSUME NEW b \in HealthyAccounts, NEW d \in HealthyAccounts, b < d
                 PROVE  pos(b) < pos(d)
    OBVIOUS
  <2> DEFINE S == {e \in HealthyAccounts : e < b}
             T == {e \in HealthyAccounts : e < d}
  <2>2. S \subseteq T /\ b \in T /\ b \notin S
    <3>1. b \in Int /\ d \in Int /\ \A e \in HealthyAccounts : e \in Int
      BY <1>1
    <3>2. \A e \in HealthyAccounts : e < b => e < d
      BY <2>1, <3>1
    <3>3. S \subseteq T
      BY ONLY <3>2
    <3>4. b \in T
      BY ONLY <2>1, b \in HealthyAccounts
    <3>5. b \notin S
      BY <3>1
    <3>6. QED
      BY <3>3, <3>4, <3>5
  <2>3. IsFiniteSet(T)
    BY <1>1, FS_Subset
  <2> HIDE DEF S, T
  <2>4. Cardinality(S) < Cardinality(T)
    BY <2>2, <2>3, FewerOf
  <2>5. QED
    BY <2>4 DEF S, T
<1> HIDE DEF start, pos
<1>5. \A b \in HealthyAccounts :
        turn(b) = IF pos(b) >= start THEN pos(b) - start ELSE pos(b) - start + n
  <2>1. TAKE b \in HealthyAccounts
  <2> DEFINE x == pos(b) + n - start
  <2>2. x \in 0..(2 * n - 1)
    BY <1>1, <1>2, <1>3
  <2>3. turn(b) = IF x < n THEN x ELSE x - n
    <3>1. turn(b) = x % n
      BY DEF turn
    <3> HIDE DEF x, n
    <3>2. QED
      BY <1>1, <2>2, <3>1, OnceRound
  <2>4. QED
    BY <1>1, <1>2, <1>3, <2>3
<1> HIDE DEF turn
<1>6. \A b \in HealthyAccounts : turn(b) \in 0..(n - 1)
  BY <1>1, <1>2, <1>3, <1>5
<1>7. \A b, d \in HealthyAccounts : turn(b) = turn(d) => b = d
  <2>1. \A b, d \in HealthyAccounts : turn(b) = turn(d) => pos(b) = pos(d)
    BY <1>1, <1>2, <1>3, <1>5
  <2>2. \A b, d \in HealthyAccounts : b = d \/ b < d \/ d < b
    BY <1>1
  <2>3. QED
    BY <1>3, <1>4, <2>1, <2>2
<1>8. \A b \in HealthyAccounts :
        OrderKey(b, p, s) = IF b = Front(p, s) THEN -1
                            ELSE turn(b) + (IF AtCap(b) THEN n ELSE 0)
  BY DEF OrderKey, turn, pos, start
<1> HIDE DEF n
<1>9. QED
  BY <1>1, <1>6, <1>7, <1>8 DEF n

\* The places follow the keys.
LEMMA PlacesFollowKeys ==
  ASSUME PoolTypeOK, NEW p, NEW s, NEW a \in HealthyAccounts, NEW b \in HealthyAccounts,
         OrderKey(a, p, s) < OrderKey(b, p, s)
  PROVE  CandidateRank(p, s)[a] < CandidateRank(p, s)[b]
<1> DEFINE S == {d \in HealthyAccounts : OrderKey(d, p, s) < OrderKey(a, p, s)}
           T == {d \in HealthyAccounts : OrderKey(d, p, s) < OrderKey(b, p, s)}
<1>1. \A d \in HealthyAccounts : OrderKey(d, p, s) \in Int
  BY KeysDiffer
<1>2. S \subseteq T /\ a \in T /\ a \notin S
  <2>1. \A d \in HealthyAccounts :
          OrderKey(d, p, s) < OrderKey(a, p, s) => OrderKey(d, p, s) < OrderKey(b, p, s)
    BY <1>1
  <2>2. ~(OrderKey(a, p, s) < OrderKey(a, p, s))
    BY <1>1
  <2> HIDE DEF OrderKey
  <2>3. QED
    BY <2>1, <2>2
<1>3. IsFiniteSet(T)
  <2>1. T \subseteq Accounts
    BY DEF HealthyAccounts
  <2>2. QED
    BY <2>1, AccountsFinite, FS_Subset
<1>4. CandidateRank(p, s)[a] = Cardinality(S) /\ CandidateRank(p, s)[b] = Cardinality(T)
  BY DEF CandidateRank, HealthyAccounts
<1> HIDE DEF S, T
<1>5. QED
  BY <1>2, <1>3, <1>4, FewerOf

\* Whom a request is offered.
OfferIsRight ==
  LET usable(a) == ~manualDisabled[a] /\ cool[a] = 0
  IN  /\ Offered # {}
      /\ \A a \in Accounts : usable(a) => a \in Offered
      /\ (\E a \in Accounts : usable(a)) => \A a \in Offered : usable(a)
      /\ \A a \in Offered, b \in Accounts :
           ~manualDisabled[b] => ~manualDisabled[a] /\ cool[a] <= cool[b]

LEMMA OfferOfThePool == PoolTypeOK => OfferIsRight
<1> SUFFICES ASSUME PoolTypeOK PROVE OfferIsRight
  OBVIOUS
<1> USE DEF healthy
<1>1. Accounts \subseteq Int /\ \A a \in Accounts : cool[a] \in Nat
  BY PoolAssumption DEF PoolTypeOK, Accounts
<1>2. CASE HealthyAccounts = {}
  <2>1. Offered = RecoversSoonest /\ Offered # {}
    BY <1>2, SomebodyRecovers DEF Offered
  <2>2. \A a \in Accounts : ~(~manualDisabled[a] /\ cool[a] = 0)
    BY <1>2 DEF HealthyAccounts
  <2>3. ASSUME NEW a \in Offered, NEW b \in Accounts, ~manualDisabled[b]
        PROVE  ~manualDisabled[a] /\ cool[a] <= cool[b]
    BY <1>1, <2>1, <2>3 DEF RecoversSoonest
  <2>4. QED
    BY <2>1, <2>2, <2>3 DEF OfferIsRight
<1>3. CASE HealthyAccounts # {}
  <2>1. Offered = HealthyAccounts
    BY <1>3 DEF Offered
  <2>2. \A a \in Accounts : a \in Offered <=> ~manualDisabled[a] /\ cool[a] = 0
    BY <2>1 DEF HealthyAccounts
  <2>3. Offered \subseteq Accounts
    BY <2>1 DEF HealthyAccounts
  <2>4. QED
    BY <1>1, <1>3, <2>1, <2>2, <2>3 DEF OfferIsRight
<1>4. QED
  BY <1>2, <1>3

\* In which order.
OrderIsRight(p, s) ==
  LET place == CandidateRank(p, s)
      front == IF p # NoAccount THEN p ELSE IF s # NoSession THEN stickyId[s] ELSE NoAccount
  IN  /\ \A a, b \in Offered : place[a] = place[b] => a = b
      /\ front \in Offered => \A b \in Offered : place[front] <= place[b]
      /\ \A a, b \in Offered :
           AtCap(a) /\ ~AtCap(b) /\ place[a] < place[b] => place[a] = 0

\* Sessions are bound only when they can be.
StickyInv == StickyTTL = 0 => \A s \in Sessions : stickyId[s] = NoAccount

LEMMA OrderOfThePool ==
  ASSUME PoolTypeOK, StickyInv, NEW p, NEW s \in Sessions \cup {NoSession}
  PROVE  OrderIsRight(p, s)
<1> DEFINE place == CandidateRank(p, s)
           front == IF p # NoAccount THEN p ELSE IF s # NoSession THEN stickyId[s] ELSE NoAccount
           key(a) == OrderKey(a, p, s)
           n == Cardinality(HealthyAccounts)
<1>0. NoAccount \notin Accounts
  BY DEF NoAccount, Accounts
<1>1. CASE HealthyAccounts = {}
  <2>1. Offered = RecoversSoonest
    BY <1>1 DEF Offered
  <2>2. \A a, b \in RecoversSoonest : a = b
    <3>1. \A a \in Accounts : a \in Int /\ cool[a] \in Int
      BY PoolAssumption DEF PoolTypeOK, Accounts
    <3>2. CASE {a \in Accounts : ~manualDisabled[a]} = {}
      BY <3>2 DEF RecoversSoonest
    <3>3. CASE {a \in Accounts : ~manualDisabled[a]} # {}
      <4>1. ASSUME NEW a \in RecoversSoonest, NEW b \in RecoversSoonest
            PROVE  /\ a \in Accounts /\ b \in Accounts
                   /\ cool[a] < cool[b] \/ (cool[a] = cool[b] /\ a <= b)
                   /\ cool[b] < cool[a] \/ (cool[b] = cool[a] /\ b <= a)
        BY <3>3, <4>1 DEF RecoversSoonest
      <4>2. QED
        BY <3>1, <4>1
    <3>4. QED
      BY <3>2, <3>3
  <2>3. \A a \in Offered : place[a] = 0
    BY <1>1, OfferedType DEF CandidateRank
  <2>4. QED
    BY <2>1, <2>2, <2>3 DEF OrderIsRight
<1>2. CASE HealthyAccounts # {}
  <2>1. Offered = HealthyAccounts /\ HealthyAccounts \subseteq Accounts
    BY <1>2 DEF Offered, HealthyAccounts
  <2>2. \A a \in HealthyAccounts : place[a] \in Nat
    BY <2>1, RankType
  <2>3. \A a \in HealthyAccounts : key(a) \in Int
    BY KeysDiffer
  <2>4. \A a, b \in HealthyAccounts : key(a) < key(b) => place[a] < place[b]
    BY PlacesFollowKeys
  <2>5. \A a, b \in HealthyAccounts : key(a) = key(b) => a = b
    BY KeysDiffer
  <2>6. \A a, b \in HealthyAccounts : place[a] = place[b] => a = b
    <3> HIDE DEF key, place
    <3>1. QED
      BY <2>2, <2>3, <2>4, <2>5
  <2>7. front \in HealthyAccounts => front = Front(p, s)
    <3>1. CASE p # NoAccount
      BY <3>1 DEF Front
    <3>2. CASE p = NoAccount /\ s # NoSession /\ front \in HealthyAccounts
      <4>1. front = stickyId[s] /\ s \in Sessions /\ front # NoAccount
        BY <1>0, <2>1, <3>2
      <4>2. StickyTTL # 0
        BY <4>1 DEF StickyInv
      <4>3. stickyLookup(s) = front
        BY <3>2, <4>1, <4>2 DEF stickyLookup
      <4>4. QED
        BY <3>2, <4>1, <4>3 DEF Front
    <3>3. CASE p = NoAccount /\ s = NoSession
      BY <1>0, <2>1, <3>3
    <3>4. QED
      BY <3>1, <3>2, <3>3
  <2>8. \A a \in HealthyAccounts : a = Front(p, s) => place[a] = 0
    <3>1. TAKE a \in HealthyAccounts
    <3>2. HAVE a = Front(p, s)
    <3>3. key(a) = -1 /\ \A b \in HealthyAccounts : key(b) >= -1
      BY <3>2, KeysDiffer
    <3>4. {b \in HealthyAccounts : key(b) < key(a)} = {}
      BY <2>3, <3>3
    <3>5. place[a] = Cardinality({b \in HealthyAccounts : key(b) < key(a)})
      BY <2>1 DEF CandidateRank
    <3>6. QED
      BY <3>4, <3>5, FS_EmptySet
  <2>9. ASSUME NEW a \in HealthyAccounts, NEW b \in HealthyAccounts,
               AtCap(a), ~AtCap(b), place[a] < place[b]
        PROVE  place[a] = 0
    <3>1. CASE a = Front(p, s)
      BY <2>8, <3>1
    <3>2. CASE a # Front(p, s)
      <4>1. n \in Nat /\ key(a) \in n..(2 * n - 1)
        BY <2>9, <3>2, KeysDiffer
      <4>2. key(b) = -1 \/ key(b) \in 0..(n - 1)
        BY <2>9, KeysDiffer
      <4>3. key(b) < key(a)
        BY <2>3, <4>1, <4>2
      <4> HIDE DEF key, place
      <4>4. QED
        BY <2>2, <2>4, <2>9, <4>3
    <3>3. QED
      BY <3>1, <3>2
  <2> HIDE DEF key
  <2>10. QED
    BY <2>1, <2>2, <2>6, <2>7, <2>8, <2>9 DEF OrderIsRight
<1>3. QED
  BY <1>1, <1>2

LEMMA StickyStep ==
  ASSUME TypeInv, StickyInv, [Next]_vars
  PROVE  StickyInv'
BY TypeSplit
   DEF TypeInv, PoolTypeOK, StickyInv, Next, Proceed, Reply, vars, poolVars, healthVars, routeVars,
       Start, GrabFreed, ListCandidates, SkipBusy, TakeSlot, GiveUpUnavailable, GiveUpBusy,
       Enqueue, WakeFreed, WakeTimeout, WakeCancelled, BindSession, Bind, DeferredRelease, Finish,
       ReplyOk, ReplyRetriable, RetryAfterReply, ReplyTerminal, EndWithReply, CloseBody, Cancel,
       AdminSetEnabled, AdminSetPreferred, Tick, PoolTick

\* Only ListCandidates leads from the list to the pass.
LEMMA PassBegins ==
  ASSUME TypeInv, [Next]_vars, NEW r \in Requests, pc[r] = "list", pc'[r] = "try"
  PROVE  ListCandidates(r)
<1>1. pc \in [Requests -> Points]
  BY TypeSplit DEF TypeInv, RequestTypeOK
<1>2. ASSUME NEW q \in Requests, Proceed(q) \/ Reply(q), ~ListCandidates(q)
      PROVE  FALSE
  BY <1>1, <1>2
     DEF Proceed, Reply, Goto, ctlVars,
         GrabFreed, SkipBusy, TakeSlot, GiveUpUnavailable, GiveUpBusy,
         Enqueue, WakeFreed, WakeTimeout, WakeCancelled, BindSession, DeferredRelease, Finish,
         ReplyOk, ReplyRetriable, RetryAfterReply, ReplyTerminal, EndWithReply
<1>3. ASSUME (\E q \in Requests : Start(q) \/ CloseBody(q)) \/ \E gone \in SUBSET Requests : Cancel(gone)
      PROVE  FALSE
  BY <1>1, <1>3 DEF Start, CloseBody, Cancel, Goto, ctlVars
<1>4. ASSUME NEW q \in Requests, ListCandidates(q)
      PROVE  ListCandidates(r)
  <2>1. pc' = [pc EXCEPT ![q] = pc'[q]]
    BY <1>1, <1>4 DEF ListCandidates, Goto
  <2>2. q = r
    BY <1>1, <2>1
  <2>3. QED
    BY <1>4, <2>2
<1>5. CASE AdminSetEnabled \/ AdminSetPreferred \/ Tick \/ UNCHANGED vars
  BY <1>5 DEF AdminSetEnabled, AdminSetPreferred, Tick, vars, ctlVars
<1>6. QED
  BY <1>2, <1>3, <1>4, <1>5 DEF Next, Proceed, Reply

\* The list a pass starts with is what Candidates promises, for every number of
\* accounts, either strategy, every cap and every state of the pool.
THEOREM CandidatesInOrder == Spec => CandidateOrder
<1>1. ASSUME TypeInv, StickyInv, [Next]_vars, NEW r \in Requests, pc[r] = "list", pc'[r] = "try"
      PROVE  /\ pass'[r] = Offered
             /\ rank'[r] = CandidateRank(pin[r], session[r])
             /\ OfferIsRight
             /\ OrderIsRight(pin[r], session[r])
  <2>1. PoolTypeOK /\ RequestTypeOK
    BY <1>1, TypeSplit DEF TypeInv
  <2>2. ListCandidates(r)
    BY <1>1, PassBegins
  <2>3. session[r] \in Sessions \cup {NoSession}
    BY <2>1 DEF RequestTypeOK
  <2>4. QED
    BY <1>1, <2>1, <2>2, <2>3, OfferOfThePool, OrderOfThePool DEF ListCandidates, RequestTypeOK
<1>2. Init => TypeInv /\ StickyInv
  BY TypeInit DEF Init, PoolInit, StickyInv
<1>3. TypeInv /\ StickyInv /\ [Next]_vars => TypeInv' /\ StickyInv'
  BY TypeStep, StickyStep
<1>4. TypeInv /\ StickyInv /\ [Next]_vars =>
        [\A r \in Requests : pc[r] = "list" /\ pc'[r] = "try" => GoodList(r)]_vars
  BY <1>1 DEF GoodList, OfferIsRight, OrderIsRight
<1>5. QED
  BY <1>2, <1>3, <1>4, PTL DEF Spec, CandidateOrder

-----------------------------------------------------------------------------
(* What "busy" means while no account leaves or comes back.                *)

\* No reply cools an account and no operator disables one.
NothingCools ==
  /\ Replies \cap {"rate", "auth", "gateway", "transport"} = {}
  /\ "enabled" \notin AdminOps

\* Every account is healthy, and what a pass has not tried yet it has skipped.
CalmInv ==
  /\ \A a \in Accounts : healthy(a)
  /\ \A r \in Requests :
       /\ pc[r] \in {"try", "wait"} => Accounts \subseteq pass[r] \cup skipped[r]
       /\ pc[r] = "wait" => pass[r] = {}
       /\ pc[r] = "release" => outcome[r] # "none"

LEMMA CalmHealth ==
  ASSUME NothingCools, TypeInv, CalmInv, [Next]_vars
  PROVE  \A a \in Accounts : healthy(a)'
<1>1. PoolTypeOK
  BY TypeSplit DEF TypeInv
<1>2. CASE UNCHANGED healthVars
  BY <1>2 DEF CalmInv, healthy, healthVars
<1>3. ASSUME NEW r \in Requests, ReplyOk(r) PROVE \A a \in Accounts : healthy(a)'
  BY <1>1, <1>3 DEF CalmInv, healthy, ReplyOk, MarkOk, PoolTypeOK
<1>4. ASSUME NEW r \in Requests, ReplyRetriable(r) PROVE FALSE
  BY <1>4 DEF NothingCools, ReplyRetriable, RetryAfterReply
<1>5. CASE AdminSetEnabled
  BY <1>5 DEF NothingCools, AdminSetEnabled
<1>6. CASE Tick
  BY <1>1, <1>6 DEF CalmInv, healthy, Tick, PoolTick, PoolTypeOK
<1>7. QED
  BY <1>2, <1>3, <1>4, <1>5, <1>6, HealthSteps

LEMMA CalmStep ==
  ASSUME NothingCools, TypeInv, CalmInv, [Next]_vars
  PROVE  CalmInv'
<1> DEFINE Calm(q) == /\ pc[q] \in {"try", "wait"} => Accounts \subseteq pass[q] \cup skipped[q]
                      /\ pc[q] = "wait" => pass[q] = {}
                      /\ pc[q] = "release" => outcome[q] # "none"
<1> SUFFICES ASSUME NEW q \in Requests PROVE Calm(q)'
  BY CalmHealth DEF CalmInv
<1>0. RequestTypeOK /\ Calm(q)
  BY TypeSplit DEF TypeInv, CalmInv
<1> USE <1>0 DEF RequestTypeOK, Goto
<1>1. ASSUME UNCHANGED <<pc, outcome, pass, skipped>> PROVE Calm(q)'
  BY <1>1
<1>2. ASSUME NEW r \in Requests,
             \/ Start(r) \/ GrabFreed(r) \/ TakeSlot(r) \/ GiveUpUnavailable(r) \/ GiveUpBusy(r)
             \/ WakeFreed(r) \/ WakeTimeout(r) \/ WakeCancelled(r) \/ BindSession(r)
             \/ CloseBody(r) \/ Finish(r) \/ ReplyOk(r)
      PROVE  Calm(q)'
  BY <1>2 DEF Start, GrabFreed, TakeSlot, GiveUpUnavailable, GiveUpBusy, WakeFreed, WakeTimeout,
              WakeCancelled, BindSession, CloseBody, Finish, ReplyOk, LeavePass, Decide, passVars
<1>3. ASSUME NEW r \in Requests, ListCandidates(r) PROVE Calm(q)'
  <2>1. Offered = Accounts
    <3>1. HealthyAccounts = Accounts
      BY DEF CalmInv, HealthyAccounts
    <3>2. 1 \in Accounts
      BY PoolAssumption DEF Accounts
    <3>3. QED
      BY <3>1, <3>2 DEF Offered
  <2>2. QED
    BY <1>3, <2>1 DEF ListCandidates
<1>4. ASSUME NEW r \in Requests, SkipBusy(r) PROVE Calm(q)'
  BY <1>4 DEF SkipBusy, ctlVars
<1>5. ASSUME NEW r \in Requests, Enqueue(r) PROVE Calm(q)'
  BY <1>5 DEF Enqueue, PassOver, passVars
<1>6. ASSUME NEW r \in Requests, ReplyRetriable(r) PROVE FALSE
  BY <1>6 DEF NothingCools, ReplyRetriable, RetryAfterReply
<1>7. ASSUME NEW r \in Requests, ReplyTerminal(r) PROVE Calm(q)'
  BY <1>7 DEF ReplyTerminal, EndWithReply, Decide, passVars
<1>8. ASSUME NEW r \in Requests, DeferredRelease(r) PROVE Calm(q)'
  <2>1. outcome[r] # "none"
    BY <1>8 DEF DeferredRelease, CalmInv
  <2>2. QED
    BY <1>8, <2>1 DEF DeferredRelease, passVars
<1>9. CASE (\E gone \in SUBSET Requests : Cancel(gone)) \/ AdminSetEnabled
           \/ AdminSetPreferred \/ Tick \/ UNCHANGED vars
  BY <1>1, <1>9 DEF Cancel, AdminSetEnabled, AdminSetPreferred, Tick, vars, ctlVars, passVars
<1>10. QED
  BY <1>2, <1>3, <1>4, <1>5, <1>6, <1>7, <1>8, <1>9 DEF Next, Proceed, Reply

\* While no account leaves or comes back, a queued request is answered "busy" only
\* if every account is at its cap then, or a release wakes it at the same time.
\* (MCRelayBusyIdle shows what an account that comes back changes.)
THEOREM BusyIsBusy ==
  ASSUME NothingCools
  PROVE  Spec => BusyMeansAllBusy
<1>1. Init => TypeInv /\ CalmInv
  BY TypeInit DEF Init, PoolInit, CalmInv, healthy
<1>2. TypeInv /\ CalmInv /\ [Next]_vars => TypeInv' /\ CalmInv'
  BY TypeStep, CalmStep
<1>3. TypeInv /\ CalmInv /\ NoLostWakeup =>
        \A r \in Requests : pc[r] = "wait" /\ ~freedSeen[r] =>
          \A a \in HealthyAccounts : AtCap(a)
  BY DEF CalmInv, NoLostWakeup, HealthyAccounts
<1>4. TypeInv /\ CalmInv /\ NoLostWakeup =>
        [\A r \in Requests :
           pc[r] = "wait" /\ outcome'[r] = "busy" /\ ~freedSeen[r] =>
             \A a \in HealthyAccounts : AtCap(a)]_vars
  BY <1>3
<1>5. QED
  BY NoWakeupLost, <1>1, <1>2, <1>4, PTL DEF Spec, BusyMeansAllBusy
=============================================================================
