-------------------------------- MODULE Relay --------------------------------
(***************************************************************************)
(* Concurrent requests driving one account pool: WithAccountRetry,         *)
(* tryAccounts, attemptOnce and releaseCloser (internal/relay/relay.go),   *)
(* with the admin operations of the pool and the clock.                    *)
(*                                                                         *)
(* A request is a goroutine; between two pool operations, each a critical  *)
(* section of its own, any other request, an admin or the clock may step.  *)
(* pc[r] is where request r is:                                            *)
(*   idle     no request                                                   *)
(*   fetch    about to take p.SlotFreed()                                  *)
(*   list     about to call p.Candidates                                   *)
(*   try      walking the candidates, about to Acquire the next            *)
(*   call     slot held, fn(acc) runs                                      *)
(*   bind     slot held, MarkOk done, Bind pending                         *)
(*   body     slot held by the open response body (releaseCloser)          *)
(*   release  slot held, the deferred Release is pending                   *)
(*   wait     queued in the select                                         *)
(*   answer   no slot; the answer (error, 503, upstream's body) goes out   *)
(***************************************************************************)
EXTENDS AccountPool

CONSTANTS
  Requests,        \* request goroutines
  Pins,            \* values of x-apiforge-account
  QueueWait,       \* queueWait() in ticks
  TransportCool,   \* the 10 s cooldown of a transport failure, in ticks
  RetryAfters,     \* Retry-After of a 429 in ticks; 0 = absent
  Replies,         \* ways fn(acc) may end
  AdminOps         \* admin operations that operators use

AllReplies == {"ok", "rate", "auth", "gateway", "transport", "timeout",
               "foreign", "error", "panic"}

ASSUME RelayAssumption ==
  /\ IsFiniteSet(Requests)
  /\ Pins \subseteq Accounts \cup {NoAccount, UnknownAccount}
  /\ QueueWait \in Nat
  /\ TransportCool \in Nat \ {0}
  /\ RetryAfters \subseteq Nat
  /\ Replies \subseteq AllReplies
  /\ AdminOps \subseteq {"enabled", "preferred"}

VARIABLES
  pc,          \* control point of each request
  cancelled,   \* ctx.Err() # nil: the client is gone
  budget,      \* ticks left until the deadline
  pin,         \* rctx.AccountPin
  session,     \* rctx.Session
  pass,        \* candidates this pass has not tried yet
  rank,        \* position of each candidate in the pass
  skipped,     \* candidates skipped at their cap (busySkips counts them)
  acct,        \* the account of the current attempt
  freedSeen,   \* the channel taken in fetch has been closed since
  outcome      \* what the client is answered, once that is decided

ctlVars   == <<pc, outcome>>
inputVars == <<cancelled, pin, session>>
passVars  == <<pass, rank, skipped>>
vars == <<poolVars, ctlVars, inputVars, passVars, budget, acct, freedSeen>>

NoRank == [a \in Accounts |-> 0]

Outcomes == {"none", "ok", "upstream", "unavailable", "busy", "cancelled",
             "failed", "timedout", "panic"}

Points == {"idle", "fetch", "list", "try", "call", "bind", "body", "release",
           "wait", "answer"}

TypeOK ==
  /\ PoolTypeOK
  /\ pc        \in [Requests -> Points]
  /\ cancelled \in [Requests -> BOOLEAN]
  /\ budget    \in [Requests -> 0..QueueWait]
  /\ pin       \in [Requests -> Pins \cup {NoAccount}]
  /\ session   \in [Requests -> Sessions \cup {NoSession}]
  /\ pass      \in [Requests -> SUBSET Accounts]
  /\ rank      \in [Requests -> [Accounts -> Nat]]
  /\ skipped   \in [Requests -> SUBSET Accounts]
  /\ acct      \in [Requests -> Accounts \cup {NoAccount}]
  /\ freedSeen \in [Requests -> BOOLEAN]
  /\ outcome   \in [Requests -> Outcomes]

Init ==
  /\ PoolInit
  /\ pc        = [r \in Requests |-> "idle"]
  /\ cancelled = [r \in Requests |-> FALSE]
  /\ budget    = [r \in Requests |-> 0]
  /\ pin       = [r \in Requests |-> NoAccount]
  /\ session   = [r \in Requests |-> NoSession]
  /\ pass      = [r \in Requests |-> {}]
  /\ rank      = [r \in Requests |-> NoRank]
  /\ skipped   = [r \in Requests |-> {}]
  /\ acct      = [r \in Requests |-> NoAccount]
  /\ freedSeen = [r \in Requests |-> FALSE]
  /\ outcome   = [r \in Requests |-> "none"]

Goto(r, from, to) ==
  /\ pc[r] = from
  /\ pc' = [pc EXCEPT ![r] = to]

Decide(r, o) == outcome' = [outcome EXCEPT ![r] = o]

\* tryAccounts has returned and its locals are gone.
LeavePass(r) ==
  /\ pass'    = [pass EXCEPT ![r] = {}]
  /\ rank'    = [rank EXCEPT ![r] = NoRank]
  /\ skipped' = [skipped EXCEPT ![r] = {}]

-----------------------------------------------------------------------------
(* WithAccountRetry and tryAccounts.                                       *)

\* The server hands the request to the provider; the deadline is set.
Start(r) ==
  /\ Goto(r, "idle", "fetch")
  /\ \E p \in Pins, s \in Sessions \cup {NoSession} :
       /\ pin'     = [pin EXCEPT ![r] = p]
       /\ session' = [session EXCEPT ![r] = s]
  /\ budget' = [budget EXCEPT ![r] = QueueWait]
  /\ UNCHANGED <<poolVars, outcome, cancelled, passVars, acct, freedSeen>>

\* freed := p.SlotFreed(), before the pass.
GrabFreed(r) ==
  /\ Goto(r, "fetch", "list")
  /\ freedSeen' = [freedSeen EXCEPT ![r] = FALSE]
  /\ UNCHANGED <<poolVars, outcome, inputVars, passVars, budget, acct>>

ListCandidates(r) ==
  /\ Goto(r, "list", "try")
  /\ pass'    = [pass EXCEPT ![r] = Offered]
  /\ rank'    = [rank EXCEPT ![r] = CandidateRank(pin[r], session[r])]
  /\ skipped' = [skipped EXCEPT ![r] = {}]
  /\ AdvanceCursor
  /\ UNCHANGED <<healthVars, inflight, preferred, stickyId, stickyLeft,
                 outcome, inputVars, budget, acct, freedSeen>>

IsNext(r, a) == /\ a \in pass[r]
                /\ \A b \in pass[r] : rank[r][a] <= rank[r][b]

\* Acquire returned false: the account is at its cap.
SkipBusy(r) ==
  /\ pc[r] = "try"
  /\ \E a \in Accounts :
       /\ IsNext(r, a)
       /\ AtCap(a)
       /\ pass'    = [pass EXCEPT ![r] = @ \ {a}]
       /\ skipped' = [skipped EXCEPT ![r] = @ \cup {a}]
  /\ UNCHANGED <<poolVars, ctlVars, inputVars, rank, budget, acct, freedSeen>>

\* Acquire returned true: fn runs on the account.
TakeSlot(r) ==
  /\ Goto(r, "try", "call")
  /\ \E a \in Accounts :
       /\ IsNext(r, a)
       /\ Acquire(a)
       /\ pass' = [pass EXCEPT ![r] = @ \ {a}]
       /\ acct' = [acct EXCEPT ![r] = a]
  /\ UNCHANGED <<healthVars, routeVars, outcome, inputVars, rank, skipped,
                 budget, freedSeen>>

\* The pass is over without a result.
PassOver(r) == pc[r] = "try" /\ pass[r] = {}

\* Nothing was skipped for capacity: 503 unavailable.
GiveUpUnavailable(r) ==
  /\ PassOver(r)
  /\ skipped[r] = {}
  /\ Goto(r, "try", "answer")
  /\ Decide(r, "unavailable")
  /\ UNCHANGED <<poolVars, inputVars, passVars, budget, acct, freedSeen>>

\* Something was busy, and the budget is spent: 503 busy.
GiveUpBusy(r) ==
  /\ PassOver(r)
  /\ skipped[r] # {}
  /\ budget[r] = 0
  /\ Goto(r, "try", "answer")
  /\ Decide(r, "busy")
  /\ UNCHANGED <<poolVars, inputVars, passVars, budget, acct, freedSeen>>

\* Mutant: the channel is taken after the pass, just before the select.
EnqueueTakesChannel(r) ==
  /\ PassOver(r)
  /\ skipped[r] # {}
  /\ budget[r] > 0
  /\ Goto(r, "try", "wait")
  /\ freedSeen' = [freedSeen EXCEPT ![r] = FALSE]
  /\ UNCHANGED <<poolVars, outcome, inputVars, passVars, budget, acct>>

\* Something was busy: queue.
Enqueue(r) ==
  /\ PassOver(r)
  /\ skipped[r] # {}
  /\ budget[r] > 0
  /\ Goto(r, "try", "wait")
  /\ UNCHANGED <<poolVars, outcome, inputVars, passVars, budget, acct,
                 freedSeen>>

\* Mutant: the deadline is set anew in every round.
WakeFreedNewDeadline(r) ==
  /\ freedSeen[r]
  /\ Goto(r, "wait", "fetch")
  /\ LeavePass(r)
  /\ budget' = [budget EXCEPT ![r] = QueueWait]
  /\ UNCHANGED <<poolVars, outcome, inputVars, acct, freedSeen>>

\* The three cases of the select; when several are ready any may be taken.
WakeFreed(r) ==
  /\ freedSeen[r]
  /\ Goto(r, "wait", "fetch")
  /\ LeavePass(r)
  /\ UNCHANGED <<poolVars, outcome, inputVars, budget, acct, freedSeen>>

WakeTimeout(r) ==
  /\ budget[r] = 0
  /\ Goto(r, "wait", "answer")
  /\ Decide(r, "busy")
  /\ UNCHANGED <<poolVars, inputVars, passVars, budget, acct, freedSeen>>

WakeCancelled(r) ==
  /\ cancelled[r]
  /\ Goto(r, "wait", "answer")
  /\ Decide(r, "cancelled")
  /\ UNCHANGED <<poolVars, inputVars, passVars, budget, acct, freedSeen>>

-----------------------------------------------------------------------------
(* attemptOnce: fn(acc) returns, and the reply is classified.              *)

\* A 2xx: the cooldown is cleared, the session is bound next.
ReplyOk(r) ==
  /\ "ok" \in Replies
  /\ Goto(r, "call", "bind")
  /\ MarkOk(acct[r])
  /\ UNCHANGED <<inflight, routeVars, outcome, inputVars, passVars, budget,
                 acct, freedSeen>>

\* Mutant: handedOff is not set, so the deferred release runs as well.
BindSessionNotHandedOff(r) ==
  /\ Goto(r, "bind", "body")
  /\ Bind(session[r], acct[r])
  /\ Decide(r, "ok")
  /\ LeavePass(r)
  /\ Release(acct[r])
  /\ UNCHANGED <<healthVars, cursor, preferred, inputVars, budget, acct,
                 freedSeen>>

\* Bind, then the slot is handed to the body's releaseCloser.
BindSession(r) ==
  /\ Goto(r, "bind", "body")
  /\ Bind(session[r], acct[r])
  /\ Decide(r, "ok")
  /\ LeavePass(r)
  /\ UNCHANGED <<healthVars, inflight, cursor, preferred, inputVars, budget,
                 acct, freedSeen>>

\* A retriable reply cools the account; the next candidate follows.
RetryAfterReply(r, reply) ==
  /\ Goto(r, "call", "release")
  /\ \/ /\ reply = "rate"
        /\ \E d \in RetryAfters : MarkRateLimited(acct[r], d)
     \/ /\ reply = "auth"
        /\ MarkAuthFailed(acct[r])
     \/ /\ reply = "gateway"                        \* 502, 503, 504
        /\ MarkRateLimited(acct[r], TransportCool)
     \/ /\ reply = "transport" /\ ~cancelled[r]
        /\ MarkRateLimited(acct[r], TransportCool)
  /\ UNCHANGED <<inflight, routeVars, outcome, inputVars, passVars, budget,
                 acct, freedSeen>>

ReplyRetriable(r) == \E reply \in Replies : RetryAfterReply(r, reply)

\* A terminal reply marks nothing: any error of a cancelled request, an error
\* that is a cancellation of another caller ("foreign") or an expired deadline
\* ("timeout"), another status ("error": 400, 404, 422, 500), a panic of fn.
EndWithReply(r, reply) ==
  /\ Goto(r, "call", "release")
  /\ \/ reply = "cancelled" /\ cancelled[r]         /\ Decide(r, "cancelled")
     \/ reply = "foreign" /\ ~cancelled[r]          /\ Decide(r, "failed")
     \/ reply = "timeout" /\ ~cancelled[r]          /\ Decide(r, "timedout")
     \/ reply = "error"                             /\ Decide(r, "upstream")
     \/ reply = "panic"                             /\ Decide(r, "panic")
  /\ UNCHANGED <<poolVars, inputVars, passVars, budget, acct, freedSeen>>

ReplyTerminal(r) ==
  \E reply \in Replies \cup {"cancelled"} : EndWithReply(r, reply)

\* Mutant: Release does not close the channel.
BroadcastForgotten(a) == freedSeen' = freedSeen

\* A release that counts closes the channel that every request past fetch has
\* taken (or an older one, closed already).
Broadcast(a) ==
  freedSeen' = [q \in Requests |->
                  freedSeen[q] \/ (ReleaseCounts(a) /\ pc[q] \notin {"idle", "fetch"})]

\* Mutant: the retriable path goes on to the next account without a release.
DeferredReleaseNotOnRetry(r) ==
  /\ Goto(r, "release", IF outcome[r] = "none" THEN "try" ELSE "answer")
  /\ IF outcome[r] = "none"
     THEN UNCHANGED <<inflight, freedSeen, acct>>
     ELSE /\ Release(acct[r])
          /\ Broadcast(acct[r])
          /\ acct' = [acct EXCEPT ![r] = NoAccount]
  /\ UNCHANGED <<healthVars, routeVars, outcome, inputVars, passVars, budget>>

\* The deferred release; then the next candidate, or the terminal answer.
DeferredRelease(r) ==
  /\ Goto(r, "release", IF outcome[r] = "none" THEN "try" ELSE "answer")
  /\ Release(acct[r])
  /\ Broadcast(acct[r])
  /\ acct' = [acct EXCEPT ![r] = NoAccount]
  /\ UNCHANGED <<healthVars, routeVars, outcome, inputVars, passVars, budget>>

\* releaseCloser.Close: the slot first, then the underlying body.
CloseBody(r) ==
  /\ Goto(r, "body", "answer")
  /\ Release(acct[r])
  /\ Broadcast(acct[r])
  /\ acct' = [acct EXCEPT ![r] = NoAccount]
  /\ UNCHANGED <<healthVars, routeVars, outcome, inputVars, passVars, budget>>

\* The handler returns; the goroutine serves another request later.
Finish(r) ==
  /\ Goto(r, "answer", "idle")
  /\ Decide(r, "none")
  /\ cancelled' = [cancelled EXCEPT ![r] = FALSE]
  /\ budget'    = [budget EXCEPT ![r] = 0]
  /\ pin'       = [pin EXCEPT ![r] = NoAccount]
  /\ session'   = [session EXCEPT ![r] = NoSession]
  /\ freedSeen' = [freedSeen EXCEPT ![r] = FALSE]
  /\ LeavePass(r)
  /\ UNCHANGED <<poolVars, acct>>

-----------------------------------------------------------------------------
(* The environment: clients that leave, an operator, the clock.            *)

\* A client goes away, and with it the context of every request it is behind.
Cancel(gone) ==
  /\ gone # {}
  /\ \A r \in gone : pc[r] \notin {"idle", "answer"} /\ ~cancelled[r]
  /\ cancelled' = [r \in Requests |-> cancelled[r] \/ r \in gone]
  /\ UNCHANGED <<poolVars, ctlVars, pin, session, passVars, budget, acct,
                 freedSeen>>

AdminSetEnabled ==
  /\ "enabled" \in AdminOps
  /\ \E a \in Accounts, enabled \in BOOLEAN : SetEnabled(a, enabled)
  /\ UNCHANGED <<inflight, routeVars, ctlVars, inputVars, passVars, budget,
                 acct, freedSeen>>

AdminSetPreferred ==
  /\ "preferred" \in AdminOps
  /\ \E a \in Accounts \cup {NoAccount, UnknownAccount} : SetPreferred(a)
  /\ UNCHANGED <<healthVars, inflight, cursor, stickyId, stickyLeft, ctlVars,
                 inputVars, passVars, budget, acct, freedSeen>>

Tick ==
  /\ ClockPending \/ \E r \in Requests : budget[r] > 0
  /\ PoolTick
  /\ budget' = [r \in Requests |-> IF budget[r] > 0 THEN budget[r] - 1 ELSE 0]
  /\ UNCHANGED <<ctlVars, inputVars, passVars, acct, freedSeen>>

-----------------------------------------------------------------------------
\* What the goroutine of r does by itself, and what its upstream answers.
Proceed(r) ==
  \/ GrabFreed(r) \/ ListCandidates(r) \/ SkipBusy(r) \/ TakeSlot(r)
  \/ GiveUpUnavailable(r) \/ GiveUpBusy(r) \/ Enqueue(r)
  \/ WakeFreed(r) \/ WakeTimeout(r) \/ WakeCancelled(r)
  \/ BindSession(r) \/ DeferredRelease(r) \/ Finish(r)

Reply(r) == ReplyOk(r) \/ ReplyRetriable(r) \/ ReplyTerminal(r)

Next ==
  \/ \E r \in Requests :
       Start(r) \/ Proceed(r) \/ Reply(r) \/ CloseBody(r)
  \/ \E gone \in SUBSET Requests : Cancel(gone)
  \/ AdminSetEnabled \/ AdminSetPreferred \/ Tick

Spec == Init /\ [][Next]_vars

\* The Go scheduler runs every ready goroutine, fn returns, a body is read to
\* its end or closed, and time passes.
Fairness ==
  /\ \A r \in Requests :
       WF_vars(Proceed(r)) /\ WF_vars(Reply(r)) /\ WF_vars(CloseBody(r))
  /\ WF_vars(Tick)

FairSpec == Spec /\ Fairness

-----------------------------------------------------------------------------
(* Properties.                                                             *)

\* Request r holds a concurrency slot (on account acct[r]).
Holds(r) == pc[r] \in {"call", "bind", "body", "release"}

Holders(a) == {r \in Requests : Holds(r) /\ acct[r] = a}

\* No slot leaks and none is returned twice: the pool's counter of an account
\* is the number of requests that hold one of its slots, through every error
\* path, panic, disconnect and streamed body (relay.go:109-112, 228).
SlotAccounting == \A a \in Accounts : inflight[a] = Cardinality(Holders(a))

\* "Never let more than N requests hit one subscription account at once"
\* (pool.go:5), N requests being those that hold a slot.
CapRespected ==
  Conc > 0 => \A a \in Accounts : Cardinality(Holders(a)) <= Conc

\* No wakeup is lost (relay.go:55-57): while the channel a request took before
\* its pass is still open, every account the pass skipped is still at its cap,
\* so a request never sleeps beside a slot it was refused.
NoLostWakeup ==
  \A r \in Requests : pc[r] \in {"try", "call", "bind", "release", "wait"}
    /\ ~freedSeen[r] => \A a \in skipped[r] : AtCap(a)

\* The list that r's pass starts with: all healthy accounts, or the one that
\* recovers soonest, a manually disabled one only when all are; each has a place
\* of its own; a healthy pin, else the session's live account, comes first, and
\* behind the front no busy account precedes a free one.
GoodList(r) ==
  LET offer   == pass'[r]
      place   == rank'[r]
      front   == IF pin[r] # NoAccount THEN pin[r] ELSE
                 IF session[r] # NoSession THEN stickyId[session[r]]
                 ELSE NoAccount
      usable(a) == ~manualDisabled[a] /\ cool[a] = 0
  IN  /\ offer # {}
      /\ \A a \in Accounts : usable(a) => a \in offer
      /\ (\E a \in Accounts : usable(a)) => \A a \in offer : usable(a)
      /\ \A a \in offer, b \in Accounts :
           ~manualDisabled[b] => ~manualDisabled[a] /\ cool[a] <= cool[b]
      /\ \A a, b \in offer : place[a] = place[b] => a = b
      /\ front \in offer => \A b \in offer : place[front] <= place[b]
      /\ \A a, b \in offer :
           AtCap(a) /\ ~AtCap(b) /\ place[a] < place[b] => place[a] = 0

\* Every pass starts with such a list (pool.go:116-119).
CandidateOrder ==
  [][\A r \in Requests : pc[r] = "list" /\ pc'[r] = "try" => GoodList(r)]_vars

\* Nothing a request does takes back an operator's disable (pool.go:259): only
\* an admin step, which moves no request, re-enables an account.
ManualDisableHolds ==
  [][\A a \in Accounts :
       manualDisabled[a] /\ ~manualDisabled'[a] => UNCHANGED pc]_vars

\* A queued request is answered "busy" only if every healthy account is at its
\* cap then, or a release wakes it at the same time as the timer
\* (OPERATIONS.md:479, relay.go:41-46).
BusyMeansAllBusy ==
  [][\A r \in Requests :
       pc[r] = "wait" /\ outcome'[r] = "busy" /\ ~freedSeen[r] =>
         \A a \in HealthyAccounts : AtCap(a)]_vars

\* Every request is answered: none is queued, retried or parked for ever.
EveryRequestAnswered ==
  \A r \in Requests : pc[r] = "fetch" ~> pc[r] = "idle"

-----------------------------------------------------------------------------
\* The relay over the pool implements the ledger of slots: the attempt of a
\* request is its lease.  Grant is TakeSlot, which looks at the pool's counter
\* and not at the holders; Return is DeferredRelease or CloseBody.
Ledger == INSTANCE SlotLedger WITH
            Holder <- Requests, Lender <- Accounts, Nobody <- NoAccount,
            Limit  <- Conc,     lease  <- acct

\* Slots are lent and returned as the ledger says.
SlotsFollowLedger == Ledger!LedgerSpec

\* ... and each slot lent is returned in the end.
SlotsComeBack == Ledger!LedgerFairSpec

\* What the health snapshot of /admin/accounts says fits together
\* (pool.go:342-364): an account in cooldown shows at least one failure.
CoolingAccountsHaveFailed ==
  MaxFailures > 0 => \A a \in Accounts : cool[a] > 0 => failures[a] > 0
=============================================================================
