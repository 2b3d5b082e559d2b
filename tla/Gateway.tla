------------------------------- MODULE Gateway -------------------------------
(***************************************************************************)
(* A request from its arrival to the end of its answer: the chain of       *)
(* middleware and dispatch (internal/server), over RateLimiter, Startup    *)
(* (and with it Registry) and ResponsePipe.  What the provider function    *)
(* does, WithAccountRetry that is, is the module Relay; here it returns a  *)
(* response, or an error, and holds a slot in between.                     *)
(*                                                                         *)
(* pc[r]: idle; auth, limit (the middleware); read (the body); route       *)
(* (dispatch); call (the provider function); write (writeUpstream);        *)
(* answered (the handler has returned).                                    *)
(***************************************************************************)
EXTENDS RateLimiter, Startup, ResponsePipe

CONSTANTS
  NoKey,           \* a request without credentials
  RemoteAddr,      \* what the limiter tells such a request apart by
  DefaultImageModel,
  Asks             \* requests that clients send: [surface, key, model]

Surfaces == {"chat", "responses", "messages", "images"}

ASSUME GatewayAssumption ==
  /\ NoKey \notin Keys
  /\ RemoteAddr \in Keys
  /\ APIKeys \subseteq Keys \ {RemoteAddr} /\ APIKeys # {}
  /\ DefaultImageModel \in Models
  /\ Asks \subseteq [surface : Surfaces, key : Keys \cup {NoKey},
                     model : Models \cup {NoModel}]

VARIABLES
  pc,
  ask,         \* the request
  provider,    \* the provider it is routed to
  status       \* of the answer; 0 before there is one

requestVars == <<pc, ask, provider, status>>
vars == <<limiterVars, startupVars, pipeVars, slot, gone, requestVars>>

NoAsk == [surface |-> "chat", key |-> NoKey, model |-> NoModel]

Points == {"idle", "auth", "limit", "read", "route", "call", "write", "answered"}
Statuses == {0, 200, 400, 401, 404, 429, 502, 503}

TypeOK ==
  /\ LimiterTypeOK /\ StartupTypeOK /\ PipeTypeOK
  /\ pc       \in [Requests -> Points]
  /\ ask      \in [Requests -> Asks \cup {NoAsk}]
  /\ provider \in [Requests -> Providers \cup {NoProvider}]
  /\ status   \in [Requests -> Statuses]

Init ==
  /\ LimiterInit /\ StartupInit /\ PipeInit
  /\ pc       = [r \in Requests |-> "idle"]
  /\ ask      = [r \in Requests |-> NoAsk]
  /\ provider = [r \in Requests |-> NoProvider]
  /\ status   = [r \in Requests |-> 0]

Goto(r, from, to) ==
  /\ pc[r] = from
  /\ pc' = [pc EXCEPT ![r] = to]

\* The handler returns with an answer of its own.
Reject(r, from, code) ==
  /\ Goto(r, from, "answered")
  /\ status' = [status EXCEPT ![r] = code]
  /\ UNCHANGED <<ask, provider>>

Pass(r, from, to) ==
  /\ Goto(r, from, to)
  /\ UNCHANGED <<ask, provider, status>>

-----------------------------------------------------------------------------
\* main: nothing is served before every provider is initialised.
Start ==
  /\ StartupNext
  /\ UNCHANGED <<limiterVars, pipeVars, slot, gone, requestVars>>

Arrive(r) ==
  /\ phase = "serving"
  /\ Goto(r, "idle", "auth")
  /\ \E a \in Asks : ask' = [ask EXCEPT ![r] = a]
  /\ UNCHANGED <<limiterVars, startupVars, pipeVars, slot, gone, provider, status>>

\* No keys: authentication is off.
KeyAccepted(r) == apiKeys = {} \/ ask[r].key \in apiKeys

Authenticate(r) ==
  /\ IF KeyAccepted(r) THEN Pass(r, "auth", "limit") ELSE Reject(r, "auth", 401)
  /\ UNCHANGED <<limiterVars, startupVars, pipeVars, slot, gone>>

LimitKey(r) == IF ask[r].key = NoKey THEN RemoteAddr ELSE ask[r].key

Limit(r) ==
  /\ \E ok \in BOOLEAN :
       /\ allow(LimitKey(r), ok)
       /\ IF ok THEN Pass(r, "limit", "read") ELSE Reject(r, "limit", 429)
  /\ UNCHANGED <<startupVars, pipeVars, slot, gone>>

\* The body is read: it fails (too large, cut off), lacks the model (but for
\* images there is a default), or is in order.
ReadBody(r) ==
  /\ \/ /\ ask[r].model = NoModel => ask[r].surface = "images"
        /\ Pass(r, "read", "route")
     \/ Reject(r, "read", 400)
  /\ UNCHANGED <<limiterVars, startupVars, pipeVars, slot, gone>>

Needs(s) == CASE s = "chat"      -> {}
              [] s = "responses" -> {"responses"}
              [] s = "messages"  -> {"anthropic"}
              [] s = "images"    -> {"images"}

ModelOf(r) == IF ask[r].model = NoModel THEN DefaultImageModel ELSE ask[r].model

\* types.HasCapability
Capable(r, p) == Needs(ask[r].surface) \subseteq providers[p].caps

Route(r) ==
  /\ LET p == FindByModel(ModelOf(r))
     IN  IF p = NoProvider THEN Reject(r, "route", 404)
         ELSE IF ~Capable(r, p) THEN Reject(r, "route", 400)
         ELSE /\ Goto(r, "route", "call")
              /\ provider' = [provider EXCEPT ![r] = p]
              /\ UNCHANGED <<ask, status>>
  /\ UNCHANGED <<limiterVars, startupVars, pipeVars, slot, gone>>

\* The provider function returns an error: a failed upstream, or the client
\* has gone.
CallFails(r) ==
  /\ Reject(r, "call", 502)
  /\ UNCHANGED <<limiterVars, startupVars, pipeVars, slot, gone>>

\* It returns an answer that holds no slot: no account was available (whole),
\* or the upstream refused the request (relayed).
CallRefused(r) ==
  /\ Goto(r, "call", "write")
  /\ \/ status' = [status EXCEPT ![r] = 503] /\ StartBody(r, "whole")
     \/ status' = [status EXCEPT ![r] = 400] /\ StartBody(r, "relayed")
  /\ UNCHANGED <<limiterVars, startupVars, slot, gone, ask, provider>>

\* It returns the answer of an account, whose slot the body takes along; that of
\* the images API is put together when every account has given its slot back.
CallSucceeds(r) ==
  /\ Goto(r, "call", "write")
  /\ status' = [status EXCEPT ![r] = 200]
  /\ \E b \in Bodies :
       /\ ask[r].surface = "images" => b = "whole"
       /\ StartBody(r, b)
  /\ slot' = [slot EXCEPT ![r] = ask[r].surface # "images"]
  /\ UNCHANGED <<limiterVars, startupVars, gone, ask, provider>>

\* writeUpstream returns.
Written(r) ==
  /\ reader[r] = "done"
  /\ Pass(r, "write", "answered")
  /\ UNCHANGED <<limiterVars, startupVars, pipeVars, slot, gone>>

\* r stands for another request: once the goroutines of this one are over.
Forget(r) ==
  /\ Goto(r, "answered", "idle")
  /\ producer[r] = "none"
  /\ NoBody(r)
  /\ gone'     = [gone     EXCEPT ![r] = FALSE]
  /\ ask'      = [ask      EXCEPT ![r] = NoAsk]
  /\ provider' = [provider EXCEPT ![r] = NoProvider]
  /\ status'   = [status   EXCEPT ![r] = 0]
  /\ UNCHANGED <<limiterVars, startupVars, slot>>

Leave(r) ==
  /\ pc[r] \notin {"idle", "answered"} /\ ~gone[r]
  /\ gone' = [gone EXCEPT ![r] = TRUE]
  /\ UNCHANGED <<limiterVars, startupVars, pipeVars, slot, requestVars>>

Tick ==
  /\ Rpm > 0
  /\ LimiterTick
  /\ UNCHANGED <<startupVars, pipeVars, slot, gone, requestVars>>

-----------------------------------------------------------------------------
Handle(r) ==
  \/ Authenticate(r) \/ Limit(r) \/ ReadBody(r) \/ Route(r)
  \/ CallFails(r) \/ CallRefused(r) \/ CallSucceeds(r) \/ Written(r) \/ Forget(r)

Others == <<limiterVars, startupVars, requestVars>>

Next ==
  \/ Start \/ Tick
  \/ \E r \in Requests :
       \/ Arrive(r) \/ Handle(r) \/ Leave(r)
       \/ PipeStep(r) /\ UNCHANGED Others
       \/ OutsideStep(r) /\ UNCHANGED Others

Spec == Init /\ [][Next]_vars

\* A goroutine that can go on does so.  Nothing is assumed of clients, which may
\* stay and never read, nor of providers and upstreams, which may hang for ever.
Fairness ==
  \A r \in Requests : WF_vars(PipeStep(r) /\ UNCHANGED Others) /\ WF_vars(Written(r))

FairSpec == Spec /\ Fairness

-----------------------------------------------------------------------------
\* What is answered 429 is a caller that has itself sent Rpm requests, and this
\* one, within the last minute: the window of the limiter is common to all the
\* callers, its counters are not (middleware.go: rateLimiter, "per-key").
Limited(r) == pc[r] = "limit" /\ pc'[r] = "answered"

OnlyTheBusyAreLimited ==
  [][\A r \in Requests :
       Limited(r) => LastMinute(asked', LimitKey(r)) > Rpm]_vars

\* No minute, wherever it starts, sees more than twice RATE_LIMIT_RPM requests
\* of a caller pass, though the window is a fixed one (middleware.go:95).
AtMostTwiceTheLimit ==
  Rpm > 0 => \A k \in Keys : LastMinute(passed, k) <= 2 * Rpm

\* What /v1/models lists is served by the provider it is listed under
\* (registry.go:92-94), for every outcome of the providers' Init.
AdvertisedIsRouted ==
  phase = "serving" => \A m \in Advertised : FindByModel(m) = AdvertisedBy(m)

\* "A streamed response holds its slot until the stream closes" (README.md:216):
\* as long as the client stays, the account's slot is not given back before its
\* upstream is over, whichever goroutine closes it.
SlotOutlivesUpstream ==
  \A r \in Requests :
    status[r] = 200 /\ ~slot[r] /\ upstream[r] = "open" => gone[r]

\* A client that stays gets every frame once: as it is, or through the pipe between
\* what opens the stream and what ends it.
NothingLost ==
  \A r \in Requests :
    reader[r] \in {"release", "close", "done"} /\ ~gone[r] /\ wrote[r] # "error" =>
      sent[r] = CASE body[r] = "whole"   -> 1
                  [] body[r] = "relayed" -> frames[r]
                  [] body[r] = "piped"   -> frames[r] + 2

Over(r) ==
  /\ pc[r] \in {"idle", "answered"} /\ producer[r] = "none"
  /\ upstream[r] # "open" /\ ~slot[r]

\* The client is connected and does not read: w.Write (server.go:422) waits, and
\* nothing limits how long.
Stalled(r) == reader[r] = "send" /\ ~gone[r]

\* When the upstream is over, the producer has panicked, or the client has gone,
\* though the upstream may never send another byte, both goroutines come to an
\* end and the slot is free: neither waits for the other for ever
\* (relay.go:192-214).  All that can hold them up is a client that is still
\* connected and never again reads.
StreamsEnd ==
  \A r \in Requests :
    pc[r] = "write" /\ (upstream[r] \in {"ended", "closed"} \/ gone[r]) ~>
      (Over(r) \/ []Stalled(r))
=============================================================================
