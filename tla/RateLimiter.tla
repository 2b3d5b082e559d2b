----------------------------- MODULE RateLimiter -----------------------------
(***************************************************************************)
(* The request limit (server/middleware.go, rateLimiter): one counter per  *)
(* key in a window of a minute that starts with the first request after    *)
(* the last one has ended.  allow holds the mutex throughout: one step.    *)
(* Time is in ticks; the window is kept as its age.                        *)
(***************************************************************************)
EXTENDS Integers, FiniteSets

CONSTANTS
  Keys,            \* what callers are told apart by: bearer(r) or RemoteAddr
  Rpm,             \* rl.rpm; 0 = no limit
  Minute           \* time.Minute in ticks

ASSUME LimiterAssumption ==
  /\ IsFiniteSet(Keys)
  /\ Rpm \in Nat
  /\ Minute \in Nat \ {0}

VARIABLES
  counts,      \* rl.counts; Rpm + 1 stands for every greater number
  windowAge,   \* ticks since rl.window; Minute stands for every greater number
  asked,       \* history: requests of a key that met allow at most so long ago
  passed       \* history: those it let pass

limiterVars == <<counts, windowAge, asked, passed>>

Ages == 0..(Minute - 1)       \* the ages of what is less than a minute ago

LimiterTypeOK ==
  /\ counts    \in [Keys -> 0..(Rpm + 1)]
  /\ windowAge \in 0..Minute
  /\ asked     \in [Keys -> [Ages -> 0..(Rpm + 1)]]
  /\ passed    \in [Keys -> [Ages -> Nat]]

LimiterInit ==
  /\ counts    = [k \in Keys |-> 0]
  /\ windowAge = 0
  /\ asked     = [k \in Keys |-> [a \in Ages |-> 0]]
  /\ passed    = [k \in Keys |-> [a \in Ages |-> 0]]

Capped(n) == IF n <= Rpm THEN n ELSE Rpm + 1

WindowOver == windowAge >= Minute

\* The number of this request of k in the window it falls into.
Nth(k) == Capped((IF WindowOver THEN 0 ELSE counts[k]) + 1)

\* Mutant: the counters of a window that is over are kept.
CountNoReset(k) ==
  /\ counts' = [counts EXCEPT ![k] = Nth(k)]
  /\ windowAge' = IF WindowOver THEN 0 ELSE windowAge

\* Mutant: the counters are reset, the window is not.
CountWindowKept(k) ==
  /\ counts' = [j \in Keys |-> IF j = k THEN Nth(k)
                               ELSE IF WindowOver THEN 0 ELSE counts[j]]
  /\ UNCHANGED windowAge

\* A window that is over is replaced, and the request counted, in any case.
Count(k) ==
  /\ counts' = [j \in Keys |-> IF j = k THEN Nth(k)
                               ELSE IF WindowOver THEN 0 ELSE counts[j]]
  /\ windowAge' = IF WindowOver THEN 0 ELSE windowAge

Within(k) == Nth(k) <= Rpm

\* allow(k), with its result.
allow(k, ok) ==
  IF Rpm = 0
  THEN ok = TRUE /\ UNCHANGED limiterVars
  ELSE /\ ok = Within(k)
       /\ Count(k)
       /\ asked'  = [asked EXCEPT ![k] = [a \in Ages |-> Capped(@[a] + 1)]]
       /\ passed' = [passed EXCEPT ![k] = [a \in Ages |-> @[a] + (IF ok THEN 1 ELSE 0)]]

\* A tick: what is as old as a minute is forgotten.
Older(h) == [k \in Keys |-> [a \in Ages |-> IF a = 0 THEN 0 ELSE h[k][a - 1]]]

LimiterTick ==
  /\ windowAge' = IF windowAge < Minute THEN windowAge + 1 ELSE Minute
  /\ asked'  = Older(asked)
  /\ passed' = Older(passed)
  /\ UNCHANGED counts

LastMinute(h, k) == h[k][Minute - 1]
=============================================================================
