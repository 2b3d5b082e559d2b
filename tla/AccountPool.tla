----------------------------- MODULE AccountPool -----------------------------
(***************************************************************************)
(* The account pool of one provider (internal/pool/pool.go).               *)
(*                                                                         *)
(* Every exported operation of the pool runs under p.mu, so each is one    *)
(* atomic step: an action over the pool's variables, which Relay conjoins  *)
(* with the step of the request that makes the call.  Account ids are the  *)
(* positions 1..NumAccounts of p.accounts (a provider numbers its accounts *)
(* "codex#1", "codex#2", ..., so ids are unique and byID is the identity). *)
(*                                                                         *)
(* Time is relative: instead of an instant such as disabledUntil the model *)
(* keeps the number of clock ticks left until it, and PoolTick lets one    *)
(* tick of time.Now() pass.                                                *)
(***************************************************************************)
EXTENDS Integers, FiniteSets

CONSTANTS
  NumAccounts,     \* len(p.accounts)
  Conc,            \* p.conc, the per-account concurrency cap; 0 = unlimited
  IsRoundRobin,    \* p.strategy = RoundRobin (FALSE: Failover)
  StickyTTL,       \* p.stickyTTL in ticks; 0 disables sticky sessions
  Sessions,        \* session keys
  NoSession,       \* the empty session key
  RateCool,        \* defaultRateLimitCooldown in ticks
  AuthCool,        \* authFailCooldown in ticks
  MaxFailures      \* bound: the failure counter saturates here (0: left out)

ASSUME PoolAssumption ==
  /\ NumAccounts \in Nat \ {0}         \* New panics on an empty pool
  /\ Conc \in Nat
  /\ IsRoundRobin \in BOOLEAN
  /\ StickyTTL \in Nat
  /\ NoSession \notin Sessions
  /\ RateCool \in Nat \ {0}
  /\ AuthCool \in Nat \ {0}
  /\ MaxFailures \in Nat

VARIABLES
  manualDisabled,  \* state.manualDisabled, per account
  cool,            \* ticks until state.disabledUntil; 0 = not in the future
  failures,        \* state.failures
  inflight,        \* state.inflight
  cursor,          \* p.cursor
  preferred,       \* p.preferred
  stickyId,        \* p.sticky[s].id; NoAccount = no live entry
  stickyLeft       \* ticks until p.sticky[s].expires

healthVars == <<manualDisabled, cool, failures>>
routeVars  == <<cursor, preferred, stickyId, stickyLeft>>
poolVars   == <<healthVars, inflight, routeVars>>

Accounts       == 1..NumAccounts
NoAccount      == 0                  \* the empty id
UnknownAccount == NumAccounts + 1    \* an id that byID does not hold

PoolTypeOK ==
  /\ manualDisabled \in [Accounts -> BOOLEAN]
  /\ cool           \in [Accounts -> Nat]
  /\ failures       \in [Accounts -> 0..MaxFailures]
  /\ inflight       \in [Accounts -> Nat]
  /\ cursor         \in 0..(NumAccounts - 1)
  /\ preferred      \in Accounts \cup {NoAccount}
  /\ stickyId       \in [Sessions -> Accounts \cup {NoAccount}]
  /\ stickyLeft     \in [Sessions -> 0..StickyTTL]

PoolInit ==
  /\ manualDisabled = [a \in Accounts |-> FALSE]
  /\ cool           = [a \in Accounts |-> 0]
  /\ failures       = [a \in Accounts |-> 0]
  /\ inflight       = [a \in Accounts |-> 0]
  /\ cursor         = 0
  /\ preferred      = NoAccount
  /\ stickyId       = [s \in Sessions |-> NoAccount]
  /\ stickyLeft     = [s \in Sessions |-> 0]

-----------------------------------------------------------------------------
(* Candidates: the accounts one request is offered, in preference order.   *)

healthy(a) == ~manualDisabled[a] /\ cool[a] = 0

HealthyAccounts == {a \in Accounts : healthy(a)}

\* Mutant: the cap lets one request more in.
AtCapOffByOne(a) == Conc > 0 /\ inflight[a] > Conc

AtCap(a) == Conc > 0 /\ inflight[a] >= Conc

\* With nobody healthy, the account that recovers soonest, the first of them
\* on a tie; manually disabled ones only count when every one is.
RecoversSoonest ==
  LET enabled == {a \in Accounts : ~manualDisabled[a]}
      Soonest(a) == \A b \in enabled :
                      cool[a] < cool[b] \/ (cool[a] = cool[b] /\ a <= b)
  IN  IF enabled = {} THEN {1} ELSE {a \in enabled : Soonest(a)}

Offered == IF HealthyAccounts = {} THEN RecoversSoonest ELSE HealthyAccounts

\* The account of a session's live entry, if it is healthy now.
stickyLookup(s) ==
  IF s = NoSession \/ StickyTTL = 0 \/ s \notin Sessions THEN NoAccount
  ELSE IF stickyId[s] \in HealthyAccounts THEN stickyId[s] ELSE NoAccount

\* Mutant: the session's account hides the pin.
FrontSessionFirst(pin, s) ==
  IF stickyLookup(s) # NoAccount THEN stickyLookup(s)
  ELSE IF pin # NoAccount THEN pin ELSE preferred

\* The account moved to the front, when it is in the running set: a pin hides
\* the session's account and the preferred one even if it names nobody.
Front(pin, s) ==
  IF pin # NoAccount THEN pin
  ELSE IF stickyLookup(s) # NoAccount THEN stickyLookup(s) ELSE preferred

\* The healthy accounts rotated by the cursor, the ones at their cap behind
\* the others, the front account before all: smaller keys are tried first.
OrderKey(a, pin, s) ==
  LET n     == Cardinality(HealthyAccounts)
      pos   == Cardinality({b \in HealthyAccounts : b < a})
      start == IF IsRoundRobin THEN cursor % n ELSE 0
  IN  IF a = Front(pin, s) THEN -1
      ELSE ((pos + n - start) % n) + (IF AtCap(a) THEN n ELSE 0)

\* Position of each offered account in the list Candidates returns.
CandidateRank(pin, s) ==
  [a \in Accounts |->
     IF a \in HealthyAccounts
     THEN Cardinality({b \in HealthyAccounts :
                         OrderKey(b, pin, s) < OrderKey(a, pin, s)})
     ELSE 0]

\* Mutant: the cursor is not wrapped.
AdvanceCursorNoWrap ==
  cursor' = IF IsRoundRobin /\ HealthyAccounts # {} THEN cursor + 1 ELSE cursor

AdvanceCursor ==
  cursor' = IF IsRoundRobin /\ HealthyAccounts # {}
            THEN (cursor + 1) % Cardinality(HealthyAccounts)
            ELSE cursor

-----------------------------------------------------------------------------
(* The other operations.  Each leaves the variables it does not name alone. *)

\* A session is bound to the account that answered it.
Bind(s, a) ==
  IF s = NoSession \/ StickyTTL = 0
  THEN UNCHANGED <<stickyId, stickyLeft>>
  ELSE /\ stickyId'   = [stickyId EXCEPT ![s] = a]
       /\ stickyLeft' = [stickyLeft EXCEPT ![s] = StickyTTL]

\* Acquire succeeds: one slot more is taken.  It fails exactly when AtCap(a).
Acquire(a) ==
  /\ ~AtCap(a)
  /\ inflight' = [inflight EXCEPT ![a] = @ + 1]

\* Release: freed' is the broadcast, the closing of the current p.freed.  The
\* caller says which waiters hold that channel.
ReleaseCounts(a) == inflight[a] > 0

Release(a) ==
  inflight' = IF ReleaseCounts(a) THEN [inflight EXCEPT ![a] = @ - 1]
                                  ELSE inflight

\* Mutant: a success re-enables the account.
MarkOkEnables(a) ==
  /\ cool'     = [cool EXCEPT ![a] = 0]
  /\ failures' = [failures EXCEPT ![a] = 0]
  /\ manualDisabled' = [manualDisabled EXCEPT ![a] = FALSE]

\* Mutant: a success resets the failures and leaves the cooldown.
MarkOkKeepsCooldown(a) ==
  /\ failures' = [failures EXCEPT ![a] = 0]
  /\ UNCHANGED <<manualDisabled, cool>>

MarkOk(a) ==
  /\ cool'     = [cool EXCEPT ![a] = 0]
  /\ failures' = [failures EXCEPT ![a] = 0]
  /\ UNCHANGED manualDisabled

\* A cooldown replaces the one that is running, longer or shorter.
cooldown(a, d) ==
  /\ cool'     = [cool EXCEPT ![a] = d]
  /\ failures' = [failures EXCEPT ![a] = IF @ < MaxFailures THEN @ + 1 ELSE @]
  /\ UNCHANGED manualDisabled

MarkRateLimited(a, retryAfter) ==
  cooldown(a, IF retryAfter <= 0 THEN RateCool ELSE retryAfter)

MarkAuthFailed(a) == cooldown(a, AuthCool)

\* Admin: an unknown id is refused and changes nothing.
SetPreferred(a) ==
  preferred' = IF a \in Accounts \cup {NoAccount} THEN a ELSE preferred

\* Admin: enabling also ends a cooldown, and leaves the failure count.
SetEnabled(a, enabled) ==
  /\ manualDisabled' = [manualDisabled EXCEPT ![a] = ~enabled]
  /\ cool' = IF enabled THEN [cool EXCEPT ![a] = 0] ELSE cool
  /\ UNCHANGED failures

-----------------------------------------------------------------------------
\* Time passes for the pool: cooldowns run down, and a session's entry that is
\* already at its expiry instant (ttl 0) falls behind it.
ClockPending == \/ \E a \in Accounts : cool[a] > 0
                \/ \E s \in Sessions : stickyId[s] # NoAccount

PoolTick ==
  /\ cool'       = [a \in Accounts |-> IF cool[a] > 0 THEN cool[a] - 1 ELSE 0]
  /\ stickyId'   = [s \in Sessions |->
                      IF stickyLeft[s] = 0 THEN NoAccount ELSE stickyId[s]]
  /\ stickyLeft' = [s \in Sessions |->
                      IF stickyLeft[s] > 0 THEN stickyLeft[s] - 1 ELSE 0]
  /\ UNCHANGED <<manualDisabled, failures, inflight, cursor, preferred>>
=============================================================================
