---------------------------- MODULE ProviderCalls ----------------------------
(***************************************************************************)
(* A client's call to a provider, and what the function the provider hands *)
(* to WithAccountRetry does with a 2xx (Relay leaves that open):           *)
(*   stream   hands the response over at once (every streaming call and    *)
(*            native passthrough)                                          *)
(*   whole    reads it to its end and answers a 502 unless it is complete  *)
(*            (chat of Claude and Gemini)                                  *)
(*   chat     collects a stream and answers what it has brought, a 502 if  *)
(*            that is nothing or the stream says it has failed (Codex)     *)
(*   lenient  reads what there is and answers that (Codex responses,       *)
(*            Cursor, Grok)                                                *)
(*   images   up to maxImages goroutines, each a request of Relay with the *)
(*            same context, pin and session; each reads its image stream,  *)
(*            and the call is answered when all of them are done (Codex)   *)
(* Codex hands over what an account with an API key answers, but for       *)
(* images, which it takes out of one JSON body; these accounts are         *)
(* KeyAccounts.                                                            *)
(* TasksOf names the goroutines a call has at its disposal; a call of      *)
(* another kind runs one, its own.                                         *)
(***************************************************************************)
EXTENDS Relay

CONSTANTS
  Calls,           \* clients' calls
  TasksOf,         \* their goroutines: disjoint sets of Requests
  Surfaces,        \* what is called
  KeyAccounts      \* accounts whose answers are passed on: Codex's with a key

ASSUME CallsAssumption ==
  /\ TasksOf \in [Calls -> SUBSET Requests]
  /\ \A c, d \in Calls : c # d => TasksOf[c] \cap TasksOf[d] = {}
  /\ Surfaces \subseteq {"stream", "whole", "chat", "lenient", "images"}
  /\ KeyAccounts \subseteq Accounts
  /\ {"ok", "gateway", "error"} \subseteq Replies

VARIABLES
  ask,     \* what is called: surface, pin, session
  want,    \* the goroutines of the call
  todo,    \* those that have not begun
  read,    \* what a goroutine has read of the 2xx at hand
  got,     \* what its answer holds
  drawn,   \* history: the accounts that have completed a generation for it
  answer   \* the images of the last answer, by goroutine

callVars == <<ask, want, todo, read, got, drawn, answer>>
allVars  == <<vars, callVars>>

NoCall == [surface |-> "none", pin |-> NoAccount, session |-> NoSession]

\* What the events of a stream say: of a chat, of an image.
ChatEvents  == {"output", "ended", "failed"}
ImageEvents == {"partial", "completed"}
Seen == {"open"} \cup ChatEvents \cup ImageEvents

\* What a collected chat stream amounts to.
Collected(seen) ==
  CASE "failed" \in seen -> "failed"
    [] "failed" \notin seen /\ "ended" \in seen -> "whole"
    [] seen \cap {"failed", "ended"} = {} /\ "output" \in seen -> "cut"
    [] OTHER -> "nothing"

Held == {"nothing", "passed", "whole", "cut", "failed", "torn", "image", "partial"}

CallsTypeOK ==
  /\ TypeOK
  /\ ask    \in [Calls -> [surface : Surfaces \cup {"none"},
                           pin     : Pins \cup {NoAccount},
                           session : Sessions \cup {NoSession}]]
  /\ want   \in [Calls -> SUBSET Requests]
  /\ todo   \in [Calls -> SUBSET Requests]
  /\ read   \in [Requests -> SUBSET Seen]
  /\ got    \in [Requests -> Held]
  /\ drawn  \in [Requests -> SUBSET Accounts]
  /\ answer \in [Calls -> SUBSET Requests]

CallsInit ==
  /\ Init
  /\ ask    = [c \in Calls |-> NoCall]
  /\ want   = [c \in Calls |-> {}]
  /\ todo   = [c \in Calls |-> {}]
  /\ read   = [r \in Requests |-> {}]
  /\ got    = [r \in Requests |-> "nothing"]
  /\ drawn  = [r \in Requests |-> {}]
  /\ answer = [c \in Calls |-> {}]

\* r is a goroutine of a call of that kind.
Serves(r, surface) == \E c \in Calls : r \in want[c] /\ ask[c].surface = surface

-----------------------------------------------------------------------------
(* The handler.                                                            *)

\* The call arrives; an image call has as many goroutines as it asks for
\* images, any other runs on the handler's own.
StartCall(c) ==
  /\ ask[c] = NoCall
  /\ \E s \in Surfaces, p \in Pins, k \in Sessions \cup {NoSession},
        T \in SUBSET TasksOf[c] :
       /\ T # {} /\ (s # "images" => Cardinality(T) = 1)
       /\ ask'   = [ask  EXCEPT ![c] = [surface |-> s, pin |-> p, session |-> k]]
       /\ want'  = [want EXCEPT ![c] = T]
       /\ todo'  = [todo EXCEPT ![c] = T]
       /\ got'   = [r \in Requests |-> IF r \in T THEN "nothing" ELSE got[r]]
       /\ drawn' = [r \in Requests |-> IF r \in T THEN {} ELSE drawn[r]]
  /\ answer' = [answer EXCEPT ![c] = {}]
  /\ UNCHANGED <<vars, read>>

\* A goroutine of the call enters WithAccountRetry.
StartTask(c, r) ==
  /\ r \in todo[c]
  /\ Start(r)
  /\ pin'[r] = ask[c].pin
  /\ session'[r] = ask[c].session
  /\ todo' = [todo EXCEPT ![c] = @ \ {r}]
  /\ UNCHANGED <<ask, want, read, got, drawn, answer>>

\* What WithAccountRetry does by itself.
RelayProceeds(r) == Proceed(r) /\ UNCHANGED callVars

\* The body of the answer is read and closed: copied to the client, or parsed
\* by the goroutine that wants an image.
CloseAnswer(r) == CloseBody(r) /\ UNCHANGED callVars

CallDone(c) ==
  /\ ask[c] # NoCall
  /\ todo[c] = {}
  /\ \A r \in want[c] : pc[r] = "idle"

ImagesOf(c) == {r \in want[c] : got[r] \in {"image", "partial"}}

\* Mutant: the answer waits until every goroutine has an image.
AnswerCallOnlyFull(c) ==
  /\ CallDone(c)
  /\ ask[c].surface = "images" => ImagesOf(c) = want[c]
  /\ answer' = [answer EXCEPT ![c] = ImagesOf(c)]
  /\ ask'    = [ask EXCEPT ![c] = NoCall]
  /\ UNCHANGED <<vars, want, todo, read, got, drawn>>

\* Mutant: fewer images than were asked for are no answer.
AnswerCallAllOrNothing(c) ==
  /\ CallDone(c)
  /\ answer' = [answer EXCEPT ![c] = IF ImagesOf(c) = want[c] THEN want[c] ELSE {}]
  /\ ask'    = [ask EXCEPT ![c] = NoCall]
  /\ UNCHANGED <<vars, want, todo, read, got, drawn>>

\* wg.Wait: all goroutines are done; the images there are, or a 502.
AnswerCall(c) ==
  /\ CallDone(c)
  /\ answer' = [answer EXCEPT ![c] = ImagesOf(c)]
  /\ ask'    = [ask EXCEPT ![c] = NoCall]
  /\ UNCHANGED <<vars, want, todo, read, got, drawn>>

-----------------------------------------------------------------------------
(* The provider's function, on the account at hand.                        *)

\* The account is left: what was read goes with it.
Forget(r) == read' = [read EXCEPT ![r] = {}]

Returns(r, what, complete) ==
  /\ Forget(r)
  /\ got'   = [got EXCEPT ![r] = what]
  /\ drawn' = [drawn EXCEPT ![r] = IF complete THEN @ \cup {acct[r]} ELSE @]
  /\ UNCHANGED <<ask, want, todo, answer>>

\* No 2xx: the retry layer classifies the status or the error.  (A panic in an
\* image goroutine has no recover above it and ends the process: not modelled.)
UpstreamFails(r) ==
  /\ read[r] = {}
  /\ \/ ReplyRetriable(r)
     \/ \E reply \in Replies \cup {"cancelled"} :
          EndWithReply(r, reply) /\ (reply = "panic" => ~Serves(r, "images"))
  /\ UNCHANGED callVars

\* Nobody looks into the body.
Unread(r) == \/ Serves(r, "stream")
             \/ acct[r] \in KeyAccounts /\ (Serves(r, "chat") \/ Serves(r, "lenient"))

\* A 2xx that is handed over at once.  (It came before the client left, if the
\* client has: a request with a context that is over is not answered.)
PassOn(r) ==
  /\ read[r] = {} /\ ~cancelled[r]
  /\ Unread(r)
  /\ ReplyOk(r)
  /\ Returns(r, "passed", FALSE)

\* A 2xx whose body the provider reads itself.
OpenBody(r) ==
  /\ pc[r] = "call" /\ read[r] = {} /\ ~cancelled[r]
  /\ ~Unread(r)
  /\ read' = [read EXCEPT ![r] = {"open"}]
  /\ UNCHANGED <<vars, ask, want, todo, got, drawn, answer>>

ReadWhole(r) ==
  /\ read[r] # {} /\ (Serves(r, "whole") \/ Serves(r, "lenient"))
  /\ ReplyOk(r)
  /\ Returns(r, "whole", TRUE)

\* The body breaks off, is no answer, or the client is gone while it is read:
\* a 502, which the retry layer takes for the account's.
BodyTorn(r) ==
  /\ read[r] # {} /\ Serves(r, "whole")
  /\ RetryAfterReply(r, "gateway")
  /\ Returns(r, "nothing", FALSE)

\* The same, where what could be read is the answer.
BodyTornIsAnswer(r) ==
  /\ read[r] # {} /\ Serves(r, "lenient")
  /\ ReplyOk(r)
  /\ Returns(r, "torn", FALSE)

\* The collector: a text or a call, the end of the response, or its failure.
ChatEvent(r, what) ==
  /\ pc[r] = "call" /\ Serves(r, "chat")
  /\ read[r] # {} /\ what \notin read[r]
  /\ read' = [read EXCEPT ![r] = @ \cup {what}]
  /\ UNCHANGED <<vars, ask, want, todo, got, drawn, answer>>

\* Mutant: what was collected is the answer, though the stream has failed.
ChatCollectedAny(r) ==
  /\ read[r] # {} /\ Serves(r, "chat")
  /\ read[r] \cap ChatEvents # {}
  /\ ReplyOk(r)
  /\ Returns(r, Collected(read[r]), "ended" \in read[r])

\* The body is at its end, wherever that came: what was collected is the answer,
\* also when it was cut off behind the first output.
ChatCollected(r) ==
  /\ read[r] # {} /\ Serves(r, "chat")
  /\ "failed" \notin read[r] /\ read[r] \cap {"ended", "output"} # {}
  /\ ReplyOk(r)
  /\ Returns(r, Collected(read[r]), "ended" \in read[r])

\* The stream has failed, or has brought nothing: a 502.
ChatMissing(r) ==
  /\ read[r] # {} /\ Serves(r, "chat")
  /\ "failed" \in read[r] \/ read[r] \cap {"ended", "output"} = {}
  /\ RetryAfterReply(r, "gateway")
  /\ Returns(r, "nothing", FALSE)

\* collectImage: a preview, or the end of the response.
ImageEvent(r, what) ==
  /\ pc[r] = "call" /\ Serves(r, "images")
  /\ read[r] # {} /\ what \notin read[r]
  /\ acct[r] \notin KeyAccounts
  /\ read' = [read EXCEPT ![r] = @ \cup {what}]
  /\ UNCHANGED <<vars, ask, want, todo, got, drawn, answer>>

\* The image itself: of an item of the stream, or of a key account's JSON.
FinalImage(r) ==
  /\ read[r] # {} /\ Serves(r, "images")
  /\ ReplyOk(r)
  /\ Returns(r, "image", TRUE)

\* The stream is complete and has only shown previews: the last one it is.
LastPreview(r) ==
  /\ {"partial", "completed"} \subseteq read[r]
  /\ ReplyOk(r)
  /\ Returns(r, "partial", TRUE)

\* Mutant: a refusal is a 502.
RefusedRetried(r) ==
  /\ "completed" \in read[r] /\ "partial" \notin read[r]
  /\ RetryAfterReply(r, "gateway")
  /\ Returns(r, "nothing", TRUE)

\* The stream is complete without an image: a 422, no other account is asked.
Refused(r) ==
  /\ "completed" \in read[r] /\ "partial" \notin read[r]
  /\ EndWithReply(r, "error")
  /\ Returns(r, "nothing", TRUE)

\* Mutant: the next account is tried, and this one stays as it is.
ImageTornUnmarked(r) ==
  /\ read[r] # {} /\ "completed" \notin read[r]
  /\ Serves(r, "images")
  /\ Goto(r, "call", "release")
  /\ UNCHANGED <<poolVars, outcome, inputVars, passVars, budget, acct, freedSeen>>
  /\ Returns(r, "nothing", FALSE)

\* A key account's JSON is complete and holds no image: a 502, like a body that
\* breaks off, though the generation is done.
KeyImageMissing(r) ==
  /\ read[r] # {} /\ Serves(r, "images")
  /\ acct[r] \in KeyAccounts
  /\ RetryAfterReply(r, "gateway")
  /\ Returns(r, "nothing", TRUE)

\* The stream, or the JSON, breaks off: a 502.
ImageTorn(r) ==
  /\ read[r] # {} /\ "completed" \notin read[r]
  /\ Serves(r, "images")
  /\ RetryAfterReply(r, "gateway")
  /\ Returns(r, "nothing", FALSE)

Upstream(r) ==
  \/ UpstreamFails(r) \/ PassOn(r) \/ OpenBody(r)
  \/ ReadWhole(r) \/ BodyTorn(r) \/ BodyTornIsAnswer(r)
  \/ \E what \in ChatEvents : ChatEvent(r, what)
  \/ ChatCollected(r) \/ ChatMissing(r)
  \/ \E what \in ImageEvents : ImageEvent(r, what)
  \/ FinalImage(r) \/ LastPreview(r) \/ Refused(r)
  \/ KeyImageMissing(r) \/ ImageTorn(r)

-----------------------------------------------------------------------------
\* The client goes away, and with it the context that all the goroutines of the
\* call share (one that has not begun has looked at nothing yet).
Leave(c) ==
  /\ todo[c] = {}
  /\ Cancel({r \in want[c] : pc[r] \notin {"idle", "answer"}})
  /\ UNCHANGED callVars

Others == (AdminSetEnabled \/ AdminSetPreferred \/ Tick) /\ UNCHANGED callVars

CallsNext ==
  \/ \E c \in Calls : StartCall(c) \/ AnswerCall(c) \/ Leave(c)
  \/ \E c \in Calls, r \in Requests : StartTask(c, r)
  \/ \E r \in Requests : RelayProceeds(r) \/ CloseAnswer(r) \/ Upstream(r)
  \/ Others

CallsSpec == CallsInit /\ [][CallsNext]_allVars

\* As for Relay; the goroutines begin, and wg.Wait returns.
CallsFairness ==
  /\ \A c \in Calls : WF_allVars(AnswerCall(c))
  /\ \A c \in Calls, r \in Requests : WF_allVars(StartTask(c, r))
  /\ \A r \in Requests : /\ WF_allVars(RelayProceeds(r))
                         /\ WF_allVars(CloseAnswer(r))
                         /\ WF_allVars(Upstream(r))
  /\ WF_allVars(Tick /\ UNCHANGED callVars)

CallsFairSpec == CallsSpec /\ CallsFairness

-----------------------------------------------------------------------------
(* Properties.                                                             *)

\* Whatever the providers do, they use the pool as Relay says, so what holds
\* of Relay's requests holds of every goroutine of every call.
CallsFollowRelay == Spec

\* Whatever accounts were asked before, an aggregated chat answer of Claude or
\* Gemini is a body that was read to its end (claude.go:169-175); one of Codex is
\* a stream that has not failed and has brought something, if not all of it
\* (codex.go:193-197).
NoTornAnswer ==
  \A r \in Requests : outcome[r] = "ok" =>
    /\ Serves(r, "whole") => got[r] = "whole"
    /\ Serves(r, "chat")  => got[r] \in {"passed", "whole", "cut"}

\* Once a login has completed a generation for a goroutine, an image or a
\* refusal, nobody is asked for it again: "so we don't re-generate on every other
\* account" (codex.go:304-306).  Of a key account that is not so: see
\* KeyImageMissing.
LoginGeneratesLast ==
  \A r \in Requests : drawn[r] \ KeyAccounts # {} =>
    pc[r] \notin {"fetch", "list", "try", "wait", "call"}

\* Every image that was made is in the answer, though other goroutines of the
\* call have failed, were refused, or found every account busy (codex.go:258-270).
NoImageLost ==
  \A c \in Calls : ask[c] = NoCall =>
    \A r \in want[c] : got[r] = "image" => r \in answer[c]

\* Every call is answered, also one whose goroutines queue behind each other for
\* the same slots.
CallAnswered == \A c \in Calls : ask[c] # NoCall ~> ask[c] = NoCall

\* "client disconnected — don't blame the account" (relay.go:130): a client that
\* leaves while its answer is read cools no account.
DisconnectCoolsNothing ==
  [][\A r \in Requests :
       cancelled[r] /\ read[r] # {} /\ pc'[r] = "release" => UNCHANGED cool]_allVars
=============================================================================
