# TLA+ verification of apiforge

apiforge is a gateway in Go: it offers one OpenAI-compatible API and serves it
from pools of subscription accounts (Codex, Claude, Gemini, Qwen, Copilot,
Cursor, Grok-web logins) and API keys. This directory holds TLA+ models of it,
the TLC runs that check them and the TLAPS proofs about them. Every definition
is translated from the code; `PROJECT.json` ("map") names the lines each one
stands for, and lists the runs, the mutants that show each property can fail,
the hazards the properties are aimed at, the theorems and the findings.

## Inventory

| Part (source) | State it keeps | Operations | Interacts with | What makes it correct |
|---|---|---|---|---|
| Account pool (`internal/pool`) | per account `disabledUntil`, `failures`, `manualDisabled`, `inflight`; `cursor`, `preferred`, `sticky`, the `freed` channel; all under one mutex | `Candidates`, `Acquire`, `Release`, `SlotFreed`, `MarkOk`, `MarkRateLimited`, `MarkAuthFailed`, `Bind`, `SetPreferred`, `SetEnabled`, `Status` | called by the relay and by the admin API | counters equal slots in use, caps hold, the list of candidates is the documented one, an operator's disable holds |
| Relay (`internal/relay`) | per request: deadline, candidates left, skips, the `freed` channel it took, the slot it holds | `WithAccountRetry`, `tryAccounts`, `attemptOnce`, `releaseCloser.Close`, `StreamingResponse` | pool, provider functions, server | no slot leaks, no wakeup is lost, answers say what is the case, every request is answered |
| Token manager (`internal/token`, `provider/*/creds.go`) | `loaded`, the credentials in memory, the credential file, the single-flight call | `AccessToken`, `Read`, `Fresh`, `Refresh` | provider functions, the vendor's CLI that shares the file, the vendor's OAuth server | one refresh at a time, no rotated token lost, file and memory agree |
| Providers (`internal/provider/*`) | ready flag, models, a pool; for images, the goroutines of a call | `Init`, `OwnsModel`, `ListModels`, `ChatCompletion`, `Responses`, `Messages`, `Images` | relay, token manager, translation | upstream failures become retriable statuses; nobody is asked for a generation that is done, no image is lost |
| Translation (`codex/translate.go`, `claude/translate.go`, `gemini/translate.go`, `cursor/cursor.go`, `grokweb/protocol.go`) | per request: the conversation so far, turn by turn; the body all attempts share | fold over the messages; the body of an attempt | provider functions | nothing that a backend can be told is lost or doubled, turns are legal, an account is sent the body meant for it |
| Streams (the same files, `cursor/protobuf.go`, `util/sse`) | per answer: collected text, tool calls in order, finish reason; the lines of the current frame | fold of upstream events, chunk by chunk or aggregated | provider functions, the client through an `io.Pipe` | streamed and aggregated answers agree, tool indices are right, a failure is not reported as success |
| Copilot's exchange (`copilot/creds.go`) | the token, its end and the endpoint, behind one atomic pointer | `copilotToken`, `exchange`, `apiBaseURL` | provider function, GitHub | one exchange at a time, endpoint and token fit, no exchange per request |
| Registry (`internal/registry`) | providers in order, failure reasons | `Register`, `InitAll`, `Ready`, `FindByModel`, `ByID`, `Models`, `Diagnostics` | server | a failed provider disables only itself, the list of models agrees with the routing |
| Server (`internal/server`) | rate-limit window and counters | middleware chain, dispatch, `writeUpstream`, admin handlers | registry, providers, pool | an unauthenticated or limited request reaches no provider, bodies are closed |
| Configuration and start (`internal/config`, `cmd/apiforge`) | process environment | env files, credential discovery, fail-closed start, graceful stop | everything | precedence of sources, no unauthenticated public bind |
| Utilities (`internal/util`) | none | SSE frames, JWT expiry, atomic file write, ids, SSRF guard, sanitising | the others | pure functions |

The hard behaviours: requests, the admin API and the clock interleave on one
pool, whose operations are atomic one by one but not together; a queue is built
on a broadcast channel that is replaced at every release; slots are held across
network calls, panics, disconnects and streamed bodies; two processes (gateway
and CLI) rotate the same refresh token through one file; a single-flight call
runs with the context of whoever came first; streams can stop at any point.

## Modules

| Module | Models |
|---|---|
| `AccountPool` | the pool: one action or operator per exported operation |
| `Relay` | requests over the pool: `WithAccountRetry`, `tryAccounts`, `attemptOnce`, `releaseCloser`, with the operator and the clock |
| `SlotLedger` | abstract: who holds which account's slot; `Relay` implements it |
| `ProviderCalls` | a client's call to a provider: what `ChatCompletion`, `Responses`, `Messages` and `Images` do with a 2xx, and the goroutines of an image call; implements `Relay` |
| `TokenManager` | one login: `Manager.AccessToken` over the credential files of Codex, Claude, Qwen and Gemini, with the vendor's CLI and OAuth server |
| `CopilotExchange` | a login of any kind: `TokenManager`, or Copilot's exchange in memory |
| `ChatChunks` | abstract: what a streaming client has received, and the promise every translator keeps (`Promise`) |
| `CodexStream`, `ClaudeStream`, `GeminiStream`, `TextStream` | one answer of Codex, of Anthropic, of Gemini, of Grok or Cursor, streamed and whole; each implements `ChatChunks` |
| `SseFrames` | `sse.Frames`, against a definition of the frames of a stream |
| `ChatTranslation` | a conversation as the translators of Claude, Gemini, Codex and Cursor turn it into their backend's |
| `AccountBodies` | the body of every attempt of one request (Claude, Codex) |
| `Chat` | composes the rows above from `ChatChunks` on: one answer, one stream of events or one request |
| `RateLimiter` | `rateLimiter.allow` and the ages of the requests it has seen |
| `Registry` | the providers in order, `FindByModel`, `Models` |
| `Startup` | config files, environment, the check for an open gateway, the relays of the configuration, registration, and the `Init` of every provider |
| `ResponsePipe` | the body of an answer: `writeUpstream`, the goroutine of `StreamingResponse`, the pipe between them |
| `Gateway` | composes the four rows above: the start, then a request through the middleware, `dispatch` and its answer |
| `RelayProofs`, `CallsProofs` | theorems about `Relay` and `ProviderCalls`, for all constants |
| `TokenProofs`, `LoginProofs` | theorems about the two token modules: the flight, and what callers and the file get out of it |
| `StartupProofs`, `GatewayProofs` | lemmas about the registry and the start, and the theorems about the server |
| `ChatProofs`, `RequestProofs` | theorems about `Chat`: the answers, and the requests and the reader of event streams |
| `MCRelay`, `MCProviderCalls`, `MCTokenManager`, `MCLogins`, `MCChat`, `MCCodexStream`, `MCGateway` | instances for TLC |

`Relay` EXTENDS `AccountPool`, whose operations are parts of its steps, and
INSTANCEs `SlotLedger` with its own `acct`. `ProviderCalls` EXTENDS `Relay` and
says where it left a choice: a step of a call is a step of `Relay` or one `Relay`
does not see (`CallsFollowRelay`, checked and proved). `CopilotExchange` EXTENDS
`TokenManager`, `Startup` EXTENDS `Registry`, the streams EXTEND `ChatChunks`,
`AccountBodies` EXTENDS `ChatTranslation`; `Chat` INSTANCEs what it composes,
`Gateway` EXTENDS `RateLimiter`, `Startup` and `ResponsePipe`.

Three cuts are made between the modules. The token a provider function asks for
is a way for it to fail in `Relay`, and all of `TokenManager` or
`CopilotExchange` on its own; so are translation and `Chat`. What
`WithAccountRetry` does inside `Gateway` is one step with the outcomes that
`Relay` has: an answer that holds a slot, one that does not, an error. What the
body does after `Relay` has handed it out, one step there (`CloseBody`), is all
of `ResponsePipe`.

### AccountPool and Relay

Each method of the pool locks `p.mu`, so each is one step. A request is a
goroutine, and `pc[r]` marks the places between two pool operations; at each of
them every other request, an operator or the clock may step. So `MarkOk`, `Bind`
and the hand-over of the slot are separate steps, as are a cooldown and the
deferred release that follows it.

* Account ids are positions: every provider numbers its accounts
  (`codex#1`, `codex-key#1`, ...), so `byID` is the identity on them.
* Instants are kept as the number of ticks left (`cool`, `stickyLeft`,
  `budget`), which needs no clock value and no bound on time.
* `freed` is abstracted to one bit per request: whether the channel that it took
  has been closed since. `Release` closes and replaces the channel, so the bit
  becomes true for every request that has taken one.
* The list of candidates is a set (`pass`) with a position for each member
  (`rank`). `busySkips` is the cardinality of `skipped`.
* `Replies` are the ways a provider function can end; every retriable status is
  a disjunct of `ReplyRetriable`, every terminal end one of `ReplyTerminal`.

Bounds: `MaxFailures` saturates the failure counter (0 leaves it out, where no
property looks at it). The ticks of the cooldowns keep the code's order
10 s <= default rate limit <= auth failure. Two requests on a cap of one already
reach skip, queue, wakeup, race of timer and wakeup; the third adds waiters that
compete for a wakeup. Three accounts are used where rotation matters.

Fairness (`Fairness` in `Relay`): the scheduler runs a goroutine that can run, a
provider function returns, a body ends or is closed, and time passes. The code
justifies the second for the time to the first byte (60 s
`ResponseHeaderTimeout`); that a non-streamed upstream body ends is an
assumption about the upstream, since `UPSTREAM_TIMEOUT_MS` is only reserved, and
that a streamed body is closed is one about upstream and client: `StreamsEnd` in
`Gateway` says how far it goes.
New requests are not fair. The queue itself is not fair in the code: a waiter may lose the
slot again and again, and only its deadline bounds the wait; `relay_live` shows
that this suffices.

### ProviderCalls

A call has one goroutine, or up to one for each image it asks for
(`codex.Images`); each goroutine is a request of `Relay`, with the call's pin,
session and context, so a client that leaves cancels all of them (`Leave`).
`Relay` lets a provider function end in any way while it holds a slot. Here the
ways are tied to what is read: `read` is what a goroutine has seen of the body
at hand (its first bytes, an output, a preview, the end), and on it depends what
it answers. The five surfaces are the five things the providers do with a 2xx:

| Surface | Who | A 2xx becomes |
|---|---|---|
| `stream` | every streaming call and native passthrough | the answer, unread (`PassOn`) |
| `whole` | chat of Claude and Gemini | the answer if it can be read to its end and is JSON, a 502 otherwise |
| `chat` | chat of Codex | the answer if the stream has not failed and is complete or has brought some output, though it may have been cut off behind it; a 502 otherwise (`AggregateChatCompletion`) |
| `lenient` | Codex responses, Grok, Cursor | the answer, whatever could be read |
| `images` | Codex images | an image, the last preview that stands in for one, a refusal (422), a 502 for a stream that breaks off |

An account with an API key of Codex (`KeyAccounts`) is passed through unread in
`chat` and `lenient`. Its images come in one JSON body; one that is complete and
holds no image is a 502 as well, so a generation that is done is asked of the
next account (`KeyImageMissing`).

`drawn` is history: the accounts that have completed a generation for a goroutine. `answer` is
assembled when all goroutines are done (`wg.Wait`), from what each of them got.

Bounds: one client whose call has up to two goroutines, on a login and a key
account with one slot each. That is enough for one goroutine to wait for the
other's slot, for one to fail and the other to succeed, and for a retry to move
from the login to the key and back. When the client leaves, both are under way,
or one. The client calls again and again, with any surface, so what a call leaves
behind (a cooldown, a slot) meets the next.

Fairness (`CallsFairness`) is `Relay`'s, goroutine by goroutine; in addition a
goroutine that was started begins, and `wg.Wait` returns when all are done.

### TokenManager

A caller is a request goroutine in `AccessToken`. `pc[c]` separates what other
goroutines, the CLI and the server can come between: `ensureLoaded`, the two
loads of the atomic pointer (`Fresh`, then `Token`), joining the flight, and in
the flight the re-read, the second `Fresh`, the request on its way, the answer
on its way, the written file and the new pointer. `source` says whose
`creds.go` it is, which fixes what `Fresh` says of a token without an expiry
(`CodexFresh`, `QwenFresh`, `DatedFresh`) and what becomes of the refresh token
(`Rotated`, `Renewed`). Token pairs are numbers in the order in which the
server issues them, and go stale in that order; a credential is a pair of
numbers. The server invalidates a refresh token when it is used, if `Rotates`.

`Join` and `Land` are `singleflight.Group.Do`: the first caller runs the
function, the others wait for its result, and the result goes to all of them in
one step. The fault `disk` is a file that cannot be written, which the code
ignores (`_ = filestore.WriteAtomic`).

Bounds: `MaxIssued` pairs (2 or 3), after which the server is unreachable. Three
pairs are the login, the one the CLI or the flight rotates to, and one more for
a flight that starts from either. Three callers are a leader, a follower, and
one that arrives when the flight is over; the run with every fault has two.

Fairness: a caller that can go on does, and a request that was sent ends, by an
answer, an error or its 30 s limit. Nothing is assumed of clients and of the CLI.

### CopilotExchange

A Copilot account has no file: `mem` is its `state` pointer, the number of the
exchange standing for the token and for the endpoint that came with it, and
the callers share a single flight of their own (`Join` and `Land`, as there).
They load the pointer up to three times: to see whether the token is fresh
(`LoadState`), again as the leader (`ReloadState`), and for the endpoint of the
request that carries the token (`ReadBase`), with another caller's exchange, or
the clock, in between. `Provider.Init` has exchanged for the first account only, so
an account may start with or without a token. Both kinds of login are behaviours of
`LoginSpec`, and `TokenManager` alone is one of its instances (`SingleRefresh` uses
this).

### ChatChunks and the streams

`ChatChunks` adds up what a streaming client was sent: whether the role came,
the text, the calls by index with their arguments, the finish reason, `[DONE]`.
Its `Promise` is the abstract specification of a stream: chunks only add, content
comes after the role, nothing follows the finish reason but `[DONE]`, and nothing
that.

Each action of a stream module is one event of the upstream with everything the
code does on it. The aggregated answer is an operator over what the upstream has
said so far (`anthropicToOpenAI`, `geminiToOpenAI`), or the collector itself
(Codex), so the two paths can be compared at every moment, not at the end
only.

* `CodexStream`: text and arguments are sequences of piece numbers. An upstream
  names its items by `call_id` or `id`, in the event that opens a call and in the
  deltas independently (`Named`), so that the code's lookups by either are
  exercised; arguments come as deltas, with the done event only, or both.
* `ClaudeStream`: content blocks (text, tool use, thinking), whose numbers are
  not the indices of the calls; the stop reason comes with `message_delta`.
* `GeminiStream`: a call comes whole in one part; a `finishReason` may come with
  any frame, and overwrites what the frames before it said.
* `TextStream`: lines of Grok, and Cursor's frames: plain, compressed, corrupt,
  the trailer, several deltas in one frame, an end in the middle of a frame, one
  that is too large.

A stream ends where the protocol says, with an error, or is cut off (`Cuts`).

`SseFrames` is the reader all of them use; lines are blank, comments or fields, and
the frames it yields are compared with a definition over the whole stream
(`FramesOfTheStream`).

### ChatTranslation and AccountBodies

A behaviour adds one message at a time to a conversation: instructions, a user
turn, an assistant with text, calls or neither, a result. Instructions are the
system's or a developer's; a content is a text, parts (a text and something that
is not one) or nothing. With each message, the translators of Claude, Gemini and
Codex do what their loops do on it, and Cursor's `buildMessages` is an operator
over all of them. A text or an image is known by the number of its message, a
call by its own number, so what a translator loses, doubles, reorders
or attributes to another turn is visible. Where a translator leaves out, so does
the model: an assistant's parts that are not texts for Gemini and Codex, images
and calls for Cursor. Grok's `foldMessages` is not modelled: it writes the text
of each message under a label, one by one, and there is nothing to get wrong but
what it drops. The client is legal (results answer
calls that were made); roles come in any order. When the conversation has at
most `MaxTried` messages it is tried on the accounts: `AccountBodies` makes the body
of every attempt from the body all attempts share, as the closures do, for a login
or a key, in any order, up to `MaxAttempts`.

Bounds: `chat` has two items or calls and two pieces, for a wrong index (the
other call) and a piece that is lost or doubled; three blocks and four parts, so
that a call follows a text and another call; streams of three frames or four lines;
conversations of up to five messages and three calls, which hold two calls made in
parallel with results in either order, and one turn after them; three attempts,
which hold key, login, key and login, key, login. Each behaviour is one answer, one
stream or one request, and it ends, hence `CHECK_DEADLOCK FALSE`.

### Gateway, RateLimiter, Registry, Startup, ResponsePipe

`Startup` loads the config files in their order: a setting of a later file
overwrites an earlier one's and none overwrites the real environment. Then it
refuses to go on or not (no keys, a public address, not allowed), registers
the relays of the two sources and the subscriptions, and starts the providers
one by one. Which of a provider's logins work, whether it has keys and what a relay names when
it is asked are chosen by the deployment. Codex and Claude try every login, Gemini,
Qwen and Copilot the first.

The server listens only then, so the registry is constant while requests are
served. A request is taken through `authMiddleware`, `rateLimitMiddleware`, the
reading of its body, the routing and the provider function, each a step of its
own, then `writeUpstream`. `allow` holds its mutex and is one step.

In `ResponsePipe` an answer is `whole` (`JSONResponse`), `relayed` (the body of
the upstream) or `piped` (`StreamingResponse`). A piped one has two goroutines:
the producer reads the upstream and writes chunks, the handler reads the pipe
and writes to the client. The pipe is unbuffered: a chunk passes when both ends
are there. The producer opens with a chunk and ends with one, and may stop at a
final event before its upstream ends, as `StreamChatCompletion` does. Clients
leave, or stay and do not read (`Send` is theirs to allow), upstreams stay silent,
translations panic. A frame makes one chunk,
and how many reads of the pipe a chunk takes is left out.

Time in the limiter is in ticks, and the window is kept as its age. `asked` and
`passed` are history, one number for each caller and age: how many of its requests met
the limiter, or passed it, at most so long ago. `LastMinute` is the oldest of them.

Bounds: one request at a time. Handlers share nothing in these modules but the
limiter, whose step is atomic, and the registry, which nobody writes; so
concurrent requests meet the limiter in some order, and a sequence of requests
between two ticks goes through all of them. Slots are shared, and are the
subject of `Relay`. The limiter counts for a key or, without one, for the remote
address: two counters tell a caller's own from the common window; a limit of one is
the boundary, two ticks let a minute span two windows. Two frames let the
producer be ahead of, level with and behind the reader. The deployments are every
environment with up to two config files, and, for the providers, Codex and Gemini
with two logins of which some, one or none work, and two relays in either order with
models in common, one that names its own and one without a key.

Fairness: the goroutines of an answer go on when they can (`PipeStep`). Clients,
providers and upstreams may hang, and so may a request that waits for them: what
they do (`OutsideStep`) is not fair, the write to a client that is connected
included, for which the server sets no limit (`main.go:79-83` has no
`WriteTimeout`). A write to a client that has gone fails, and that is fair.

## Runs

Each run answers one question; a property whose mutant (`PROJECT.json`) is
checked under the same instance is known to be able to fail there.

| Run | Instance | Shows |
|---|---|---|
| `relay_queue` | 3 requests, 2 accounts with one slot, no cooldowns | slots are counted exactly (`SlotAccounting`), no released slot goes unnoticed by a waiter that was refused it (`NoLostWakeup`), "busy" is answered only when every account is (`BusyMeansAllBusy`), and the relay is a `SlotLedger`, which keeps the caps (`SlotsFollowLedger`) |
| `relay_route` | 1 request, 3 accounts, no cap, pins, a session that expires, an operator who prefers, disables and enables | candidates come in the documented order, where pin, preference and session compete and the soonest to recover closes the list (`CandidateOrder`); nothing but the operator brings back what he has disabled (`ManualDisableHolds`) |
| `relay_live` | 2 requests, cooldowns, fairness | every request is answered (`EveryRequestAnswered`), every slot comes back (`SlotsComeBack`), an account cools only after it has failed (`CoolingAccountsHaveFailed`) |
| `relay_busy_idle` | 2 requests, cooldowns that end | finding 1, `BusyMeansAllBusy` violated |
| `calls` | every kind of call, 2 goroutines, a login and a key account, every way a call can end, panics included; fairness | an aggregated answer is a whole body of Claude or Gemini, or a stream of Codex that has not failed and has brought something (`NoTornAnswer`), nobody is asked after a login has completed a generation (`LoginGeneratesLast`), every image made is in the answer (`NoImageLost`), every call is answered (`CallAnswered`), and all of it uses the pool as `Relay` says (`CallsFollowRelay`) |
| `client_leaves` | a chat call whose client leaves | finding 4, `DisconnectCoolsNothing` violated |
| `token_shared` | Codex or Qwen, 3 callers, with or without a CLI that refreshes and logs in | one refresh at a time (`OneFlight`), a refresh token that works is never lost (`RotationKept`), nobody is given a token that was stale when he asked (`HandsOutFresh`), none is refreshed without need (`RefreshOnlyWhenStale`); alone with the file, no refresh token is posted twice (`NeverRefusedAlone`) |
| `logins` | Claude, Gemini or Copilot, 2 callers, disconnects, network errors, an unwritable file, restarts, a CLI; fairness | Copilot's endpoint fits its token and no exchange is made without need (`ExchangesFit`), and every call returns (`EveryCallReturns`) |
| `token_rotation_lost` | Claude, a client that leaves | finding 2, `RotationKept` violated |
| `chat` | one answer of any backend, one event stream, or one request | calls and texts are whole (`AnswerWhole`), the streamed and the aggregated answer agree at every moment (`StreamMatchesAggregate`), the finish reason fits and is not invented (`ReasonFits`), every stream keeps the promise of the chunks (`ChunkPromise`), frames are those of the stream (`FramesOfTheStream`); the upstream accepts the turns (`TurnsAccepted`), the conversation arrives at Claude, Gemini and Codex once and in order, its instructions at Gemini, Codex and Cursor (`ConversationKept`), and each account is sent the body meant for it (`EachGetsItsBody`) |
| `codex_fake_success` | Codex with one call | finding 3, `ResponsesNoFakeSuccess` violated |
| `gateway` | every start, 2 counters, limit 1, 6 kinds of requests, 3 kinds of bodies; fairness | an open gateway on a public address never listens unless that is allowed (`ListensGuarded`), a provider that fails disables itself only (`FailuresIsolated`), what is advertised is routed to whom it is advertised under (`AdvertisedIsRouted`); only a caller who is himself busy is limited (`OnlyTheBusyAreLimited`), and never passes more than twice the limit in a minute (`AtMostTwiceTheLimit`); a slot is held until its upstream is over (`SlotOutlivesUpstream`), a client that stays gets every chunk (`NothingLost`), and when the upstream is over or the client has left, both goroutines end and the slot is free, unless a client that is still connected never reads again (`StreamsEnd`) |

Deadlock is checked in every run but the two over streams (`chat`,
`codex_fake_success`), which end. Symmetry of requests, callers and items is used
where no liveness is checked.

## Findings

1. `relay.go:74`. A queued request is woken by its client, its deadline or a
   released slot. The end of a cooldown and `SetEnabled` close no channel, so
   the request waits its whole `QUEUE_WAIT_MS` and is answered "busy" beside a
   healthy account with a free slot.
2. `token.go:68`. The refresh runs with the context of the request that leads
   the flight. If that client leaves after the server has rotated the refresh
   token and before the answer is read, the new pair is dropped, and the file
   keeps one that is used up: the login is lost.
3. `codex/translate.go:419`. `AggregateResponses` answers 200, `completed`,
   with an empty text when the stream has failed or was cut off;
   `AggregateChatCompletion` checks this.
4. `claude.go:174` (and `gemini.go:116`, and `codex/codex.go:197` if nothing has come
   yet). A chat answer is read inside the function `WithAccountRetry` calls. A client
   that leaves meanwhile makes the read fail, the failure becomes a 502, and the account
   is cooled for it, though the retry layer means to blame no account for a client.

Other observations, which no run asserts. Two contradict a document:

* `token.go:62`. With a file that cannot be written, a caller that enters the flight late
  re-reads the stale file over the token just refreshed, though "the refresh still takes
  effect in memory" (`OPERATIONS.md:329`). `TokenManager` has it (fault `disk`).
* `codex/codex.go:352`. A key account's complete answer without an image is a retriable
  502, so the account is cooled and the next one generates again, where a login's is a 422
  for that very reason (`codex.go:304-306`; `CHANGELOG.md:34`: "no image" is
  non-retriable). `ProviderCalls` has it (`KeyImageMissing`).

Of the others no document says more:

* The later of two cooldowns wins even when shorter (`pool.go:287`); a deadline that is not
  the client's, such as the 30 s of a refresh, ends the request without another account
  (`relay.go:135`); a client that stays connected and never reads holds its account's slot
  (`server.go:422`).
* A Codex token without an expiry is handed out after a 401 as before (`codex/creds.go:85`);
  Gemini, Qwen and Copilot start only if their first login works (`gemini.go:78`); a model in
  `CODEX_MODELS` that `OwnsModel` does not know is advertised and answered 404
  (`codex.go:116`; no deployment of the runs has one).
* Claude drops instructions that come as parts (`claude/translate.go:172`), and a part of an
  assistant's content that is not a text, such as a refusal, is sent to it as an image (182);
  Cursor and Grok drop calls and images (`cursor.go:103-106`, `grokweb/protocol.go:49-52`),
  and Grok has a developer speak as `[User]` (`protocol.go:62-68`).
* A streamed answer of Gemini that made calls ends with the `finishReason` of its last frame,
  where the aggregate says "tool_calls" (`gemini/translate.go:397`); a stream of Codex, Grok
  or Cursor that is cut off ends like a complete one, and a Codex chat that is not streamed
  is then answered 200 with what had come (`codex/translate.go:368`).

The entries of "hazards" in `PROJECT.json` say where each stands.

## Proofs

Every safety property of the passing runs, invariant, action property or refinement, is
a theorem: what a run shows on its instance holds for every value of the constants under
the ASSUMEs of the modules: `PoolAssumption` (at least one account, cooldowns that are
not empty), `RelayAssumption` (finitely many requests), `CallsAssumption` (no two calls
share a goroutine), `TokenAssumption`, `LimiterAssumption` (finitely many callers, a
minute has a tick), `RegistryAssumption`, `StartupAssumption`, `PipeAssumption` and
`GatewayAssumption` (the constants have their types), `ChatAssumption` (the same, and finitely
many items). Five theorems have a hypothesis more, which the code needs and the instances
of the runs satisfy:

| Theorem | Hypothesis | Without it |
|---|---|---|
| `BusyIsBusy` | no reply cools an account and no operator disables one (`NothingCools`) | finding 1 |
| `HandedOutFresh` | the credential file can be written | `token.go:62`, above: a late caller re-reads the stale file |
| `LoginKept`, `AloneNeverRefused` | nothing else goes wrong, or the server rotates nothing | finding 2 |
| `AdvertisedRouted` | names are their own (`OwnersApart`): a relay owns what it lists, subscriptions list some of what they own and share none of it | `codex.go:116`, above |

`RelayProofs`:

* `TypeCorrect`. `TypeOK` is not inductive: a request that holds a slot must name
  an account, or the release would count nowhere. `TypeInv` adds
  `HoldsMeansNamed`. The cursor needs a little arithmetic on the number of
  healthy accounts (`HealthyCount`, `CursorInRange`).
* `SlotsAccounted`, `CapKept`. `SlotInv` is `TypeInv`, the equation "the counter
  of an account is the number of its holders", and the cap on the counter. All
  actions but three leave counters and holders alone (`QuietSteps`); `TakeSlot`
  adds a holder where the counter was below the cap, `DeferredRelease` and
  `CloseBody` remove one. Only because the equation holds is the code's guard
  "release if the counter is positive" never a skipped release.
* `NoWakeupLost`. Inductive together with `TypeInv`: for a request that relies on
  the channel it took (`Relying`), every account it has skipped is full unless
  the channel has been closed since, and each step keeps that (`KeepsWatch`);
  only a release can free a slot, and a release closes the channel.
* `RelayFollowsLedger`. The refinement: a step of the relay takes one slot that
  is free, gives one back, or stutters, as far as the ledger can see.
* `ManualDisableStays`. Only `AdminSetEnabled` writes `manualDisabled`, and it moves no
  request (`ManualStep`). `CoolingShowsFailures` is inductive with `TypeInv`: whatever
  sets a cooldown counts a failure in the same step, and `MarkOk` clears both.
* `CandidatesInOrder`. The order is a fact about one step, from any typed state. The
  rotation is a bijection, so the ranks of healthy accounts are all different; pin,
  preference and session move at most one to the front; and the one cooling account at
  the end is the soonest to recover. Without a TTL no session is remembered (`StickyInv`).
* `BusyIsBusy`. `CalmInv`: where nothing cools, what a pass has not left to try it has
  skipped, so that the refusal of the last account speaks for all of them.

`CallsProofs`:

* `CallsImplementRelay`. A second refinement, of `Relay` by `ProviderCalls`, with the
  identity as its mapping. Whatever a provider does with a 2xx is one of the
  replies (`UpstreamReplies`); a client that leaves cancels requests only, for which
  the goroutines of a call must be its own (`Mine`, the invariant it takes).
* `CallsKeepSlots`. What is proved of `Relay` therefore holds of every goroutine of
  every call: `SlotAccounting`, `CapRespected` and `NoLostWakeup`, carried over without
  another induction.
* `AnswersWhole`, `LoginsLast`, `ImagesKept` (and `CallsTyped`). `AnswerInv` says
  of a goroutine what its place in `Relay` has to do with what it has read, got and
  drawn (`GoroutineInv`: what a login has drawn is drawn on the way
  out, `Out`; who is not idle belongs to a call that is not answered, `UnderWay`), and
  of a call that its goroutines are its own (`CallInv`). The calls then do not
  disturb each other: a step of one goroutine keeps what is said of the others
  (`MoveKeeps`), and a call is of one kind (`OneSurface`).

`TokenProofs`:

* `TokenTypes`, `SingleFlight`, for `LoginSpec`, logins with a file and Copilot's
  alike. `FlightInv` is `TypeOK`, `OneFlight` and `FlightData` (what the leader
  carries, `cur` and `next`, is a credential where the flight is past the point
  that sets it; the two kinds of login never stand at each other's points).
  `OneFlight` alone is not enough: the fields of the response would have no type.
* `ExchangesAlwaysFit`. `ExchangeInv` adds that the exchange in memory is at least as
  new as every token that callers hold, and an answer on its way at least as new as
  memory: memory only grows, until a restart, which ends every call.
* `NoNeedlessRefresh`, for Codex and Qwen: the token a refresh is sent for was not fresh
  when it was sent, and the clock does not go back. It is false of Claude and Gemini,
  which take a token without a lifetime for one that has ended.
* `SingleRefresh`: a login with a file is one of the logins (`FileLogin`), so the
  single flight is the token manager's as well.

`LoginProofs`, on top of `FlightInv`:

* `HandedOutFresh`. A caller loads the pointer twice, for `Fresh` and for `Token`, and a
  re-read can come between. `FreshInv` adds that numbers only grow (`NumbersInv`), and
  that such a re-read finds a file that is alive (`ReadsInv`): whoever waits to re-read
  saw memory when it was no longer fresh, and what was written since is new.
* `LoginKept`. With rotation, a pair the server has just issued is held by one alone, the
  leader or the CLI, until the file has it (`HandedOnInv`); without, there is one refresh
  token for good (`OneTokenInv`). `AloneNeverRefused` adds that the leader posts what the
  file holds (`PostsTheFileInv`).

`GatewayProofs`, with the lemmas of `StartupProofs`:

* `TwiceTheLimit`, `LimitedAreBusy`. `LimitInv` relates the histories to the window: what
  passed since the window began is within its counter, what passed before within another
  limit, and a counter counts nothing that was not asked in its window. The bound of two
  limits alone is not inductive, since it says nothing of how they lie across the start of
  the window.
* `SlotsOutliveUpstreams`, `EveryFrameOnce`. `BodyInv` says who holds which end of the pipe
  at each point of producer and reader (`EndsInv`), and that what the reader has taken is
  what the producer has put in (`CountInv`).
* `GuardedBeforeListening`, from what the loaded files have made of the environment
  (`GuardInv`), and `FailuresStayIsolated`, from who is ready among those that were
  initialised so far (`ReadyInv`).
* `AdvertisedRouted`. `RoutesInv`: relays come first and own exactly what they list, before
  and after they are asked, and no two subscriptions own the same, so the first that owns a
  name is the first that lists it.
* `TypeCorrect`. What is routed is routed to a provider of the list.

`ChatProofs`. A behaviour is one answer, one event stream or one request; each has its
invariant, which the steps of the others leave alone.

* `WholeAnswers`, `SameAnswerStreamed`, `ReasonsFit`. Of Codex: the keys of
  the collector are the items, each once, the client has a call for each at the same index,
  and the reason follows the calls until the upstream says otherwise (`CodexInv`). Of
  Claude: the blocks that are calls have the indices they were sent under, and what was sent
  so far is what the aggregate makes of the blocks so far (`ClaudeInv`). Of Gemini the same,
  part by part (`GeminiInv`), of Grok and Cursor frame by frame (`TextInv`).
* `PromiseKept`. The refinement of `Promise` by the streams: each step writes, or
  leaves what was sent alone. It needs the invariants, since a promise that nothing follows
  the finish reason depends on where the upstream is.

`RequestProofs`:

* `EachHasItsBody`. The body all attempts share is never changed (`BodiesInv`).
* `TurnsAreAccepted`. `TurnsInv`, for Claude and Gemini: every turn is done but the last two,
  where calls wait for results that come ahead of all else.
* `ConversationsAreKept`. `ConversationInv`: what the translators of Claude, Gemini and
  Codex have told their upstreams, turns flattened, is what the messages said, in their
  order, without what an upstream is not shown; and Cursor's one message with the
  instructions is the first of the user.
* `FramesAreTheStreams`. `ReaderInv`: the frames so far are those that blank lines have
  ended, and what is held is the one that is being read; and that is what the definition
  over the whole stream says (`ReferenceIsYield`).

The aggregates, the conversation and the frames are sequences flattened
(`FlattenSeq`), hence defined over all that was said. The induction theorems of the
library, which take an operator, are not used: that a flattened sequence is the sum of its
members (`FlattenIsTheSum`), and what one more member adds to it, is proved by the least
counterexample (`Least`, from `WFMin`), which needs a set only. The invariants
then speak of one step each.

The argument is the same throughout: Init implies the invariant, each action
keeps it, and the last step puts them together with PTL.

Model-checked only: liveness (`EveryRequestAnswered`, `SlotsComeBack`,
`CallAnswered`, `EveryCallReturns`, `StreamsEnd`), which needs ENABLED and fairness, out
of the prover's reach.
The properties of the runs that expect a violation are refuted by TLC, and of them
`BusyMeansAllBusy` and `RotationKept` are theorems where their hypothesis holds.

## Not modelled

* The bytes of a format: JSON fields that are copied from one place to another
  (tools, sampling and reasoning options, image parameters), headers, multipart forms,
  Cursor's protobuf and its checksum, upstream URLs, ids and timestamps. Nothing
  branches on them but what the modules have.
* What is read once at the start from the machine: where config and credential
  files are searched, the syntax of a line of an env file, numeric settings, the
  list of models that Copilot asks for, Gemini's project.
* Endpoints that only read: health, status, diagnostics, the list of accounts;
  `Status`, `Size`, `All` of the pool.
* The graceful stop of the process, and a panic in an image goroutine, which no
  `recover` stands above and which ends the process.
* `internal/util` apart from `sse`: helpers without state, or wrappers of the library.
  That `filestore` leaves either the old file or the new one is what `TokenManager`
  assumes of a restart.

`PROJECT.json` ("components") has the reason part by part.

## Plan

The model is what it is meant to be, and its safety properties are proved. What is left:

1. `TypeOK` of `Chat` and its parts as theorems of their own; the proofs have what they need
   of it in their invariants.
2. That the start and the answers of `Gateway` do what `Relay` assumes of them: `CloseBody` as
   an abstraction of `ResponsePipe`, so that the third cut is a refinement as well.
3. Shorter proofs: `RequestProofs` and `ChatProofs` prove again what a library of lemmas
   about `FlattenSeq` and appended sequences could say once.
