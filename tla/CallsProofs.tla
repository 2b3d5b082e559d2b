------------------------------ MODULE CallsProofs ------------------------------
(***************************************************************************)
(* Theorems about ProviderCalls, for every number of clients, goroutines   *)
(* and accounts, and every assignment of goroutines to calls.              *)
(***************************************************************************)
EXTENDS ProviderCalls, RelayProofs

-----------------------------------------------------------------------------
(* The calls use the pool as Relay says.                                   *)

\* Whatever a provider does with a 2xx, to the pool it is one of the replies.
LEMMA UpstreamReplies ==
  ASSUME NEW r \in Requests, Upstream(r)
  PROVE  Reply(r) \/ UNCHANGED vars
<1> USE CallsAssumption
<1>1. CASE UpstreamFails(r)
  BY <1>1 DEF UpstreamFails, Reply, ReplyTerminal
<1>2. CASE \/ PassOn(r) \/ ReadWhole(r) \/ BodyTornIsAnswer(r)
               \/ ChatCollected(r) \/ FinalImage(r) \/ LastPreview(r)
  BY <1>2 DEF PassOn, ReadWhole, BodyTornIsAnswer, ChatCollected, FinalImage, LastPreview, Reply
<1>3. CASE BodyTorn(r) \/ ChatMissing(r) \/ KeyImageMissing(r) \/ ImageTorn(r)
  BY <1>3 DEF BodyTorn, ChatMissing, KeyImageMissing, ImageTorn, Reply, ReplyRetriable
<1>4. CASE Refused(r)
  BY <1>4 DEF Refused, Reply, ReplyTerminal
<1>5. ASSUME OpenBody(r) \/ \E what : ChatEvent(r, what) \/ ImageEvent(r, what)
      PROVE  UNCHANGED vars
  BY <1>5 DEF OpenBody, ChatEvent, ImageEvent
<1>6. QED
  BY <1>1, <1>2, <1>3, <1>4, <1>5, Zenon DEF Upstream

\* The goroutines of a call are its own.
Mine ==
  /\ want \in [Calls -> SUBSET Requests]
  /\ \A c \in Calls : want[c] \subseteq TasksOf[c]

LEMMA MineStep == Mine /\ [CallsNext]_allVars => Mine'
<1> SUFFICES ASSUME Mine, [CallsNext]_allVars PROVE Mine'
  OBVIOUS
<1>1. CASE UNCHANGED want
  BY <1>1 DEF Mine
<1>2. ASSUME NEW c \in Calls, StartCall(c) PROVE Mine'
  <2>1. PICK T \in SUBSET TasksOf[c] : want' = [want EXCEPT ![c] = T]
    BY <1>2 DEF StartCall
  <2>2. T \in SUBSET Requests
    BY CallsAssumption
  <2>3. QED
    BY <2>1, <2>2 DEF Mine
<1>3. ASSUME NEW r \in Requests, Upstream(r) PROVE UNCHANGED want
  BY <1>3 DEF Upstream, UpstreamFails, PassOn, OpenBody, ReadWhole, BodyTorn,
              BodyTornIsAnswer, ChatEvent, ChatCollected, ChatMissing, ImageEvent,
              FinalImage, LastPreview, Refused, KeyImageMissing, ImageTorn, Returns, callVars
<1>4. QED
  BY <1>1, <1>2, <1>3 DEF CallsNext, allVars, callVars, AnswerCall, Leave, StartTask,
                          RelayProceeds, CloseAnswer, Others

LEMMA CallsStepRelay == Mine /\ [CallsNext]_allVars => [Next]_vars
<1> SUFFICES ASSUME Mine, [CallsNext]_allVars PROVE [Next]_vars
  OBVIOUS
<1>1. CASE UNCHANGED allVars
  BY <1>1 DEF allVars
<1>2. ASSUME NEW c \in Calls, StartCall(c) \/ AnswerCall(c) PROVE UNCHANGED vars
  BY <1>2 DEF StartCall, AnswerCall
<1>3. ASSUME NEW c \in Calls, Leave(c) PROVE Next
  <2> DEFINE gone == {r \in want[c] : pc[r] \notin {"idle", "answer"}}
  <2>1. Cancel(gone)
    BY <1>3 DEF Leave
  <2>2. gone \in SUBSET Requests
    BY DEF Mine
  <2>3. QED
    BY <2>1, <2>2 DEF Next
<1>4. ASSUME NEW c \in Calls, NEW r \in Requests, StartTask(c, r) PROVE Next
  BY <1>4 DEF StartTask, Next
<1>5. ASSUME NEW r \in Requests, RelayProceeds(r) \/ CloseAnswer(r) PROVE Next
  BY <1>5 DEF RelayProceeds, CloseAnswer, Next
<1>6. ASSUME NEW r \in Requests, Upstream(r) PROVE [Next]_vars
  BY <1>6, UpstreamReplies DEF Next
<1>7. CASE Others
  BY <1>7 DEF Others, Next
<1>8. QED
  BY <1>1, <1>2, <1>3, <1>4, <1>5, <1>6, <1>7 DEF CallsNext

\* The calls of any number of clients, with any number of goroutines, streamed,
\* aggregated or of images, implement Relay.
THEOREM CallsImplementRelay == CallsSpec => CallsFollowRelay
<1>1. CallsInit => Init
  BY DEF CallsInit
<1>2. CallsInit => Mine
  BY DEF CallsInit, Mine
<1>3. QED
  BY <1>1, <1>2, MineStep, CallsStepRelay, PTL DEF CallsSpec, CallsFollowRelay, Spec

\* So no goroutine of any call leaks a slot or gives one back twice, and none
\* sleeps through the release it waits for.
THEOREM CallsKeepSlots == CallsSpec => [](SlotAccounting /\ CapRespected /\ NoLostWakeup)
BY CallsImplementRelay, SlotsAccounted, CapKept, NoWakeupLost, PTL DEF CallsFollowRelay

-----------------------------------------------------------------------------
(* What is read becomes an answer once, and the right one.                 *)

\* Nothing more is asked for on the way out.
Out(r) == \/ pc[r] \in {"idle", "bind", "body", "answer"}
          \/ pc[r] = "release" /\ outcome[r] # "none"

\* It has begun, and its call is not answered yet.
UnderWay(r) == \E c \in Calls : r \in want[c] \ todo[c] /\ ask[c] # NoCall

\* Where a goroutine stands says what it has read, got and drawn.
GoroutineInv(r) ==
  /\ outcome[r] # "none" => pc[r] \in {"body", "release", "answer"}
  /\ drawn[r] \ KeyAccounts # {} => Out(r)
  /\ pc[r] # "idle" => UnderWay(r)
  /\ read[r] # {} => pc[r] = "call"
  /\ read[r] \cap ImageEvents # {} => Serves(r, "images")
  /\ pc[r] = "bind" \/ outcome[r] = "ok" =>
       /\ Serves(r, "whole") => got[r] = "whole"
       /\ Serves(r, "chat")  => got[r] \in {"passed", "whole", "cut"}

\* A call has goroutines of its own, and what they have made once it is answered.
CallInv(c) ==
  /\ want[c] \subseteq TasksOf[c] /\ todo[c] \subseteq want[c]
  /\ todo[c] # {} => ask[c] # NoCall
  /\ \A r \in todo[c] : pc[r] = "idle" /\ drawn[r] = {}
  /\ ask[c] = NoCall => \A r \in want[c] : got[r] = "image" => r \in answer[c]

AnswerInv ==
  /\ TypeInv /\ CallsTypeOK
  /\ \A r \in Requests : GoroutineInv(r)
  /\ \A c \in Calls : CallInv(c)

LEMMA OneCall ==
  ASSUME AnswerInv, NEW r \in Requests, NEW c \in Calls, NEW d \in Calls,
         r \in want[c], r \in want[d]
  PROVE  c = d
BY CallsAssumption DEF AnswerInv, CallInv

\* A call is of one kind.
LEMMA OneSurface ==
  ASSUME AnswerInv, NEW r \in Requests, NEW s, NEW t, Serves(r, s), Serves(r, t)
  PROVE  s = t
BY OneCall DEF Serves

LEMMA AnswerInit == CallsInit => AnswerInv
<1> SUFFICES ASSUME CallsInit PROVE AnswerInv
  OBVIOUS
<1>1. TypeInv
  BY TypeInit DEF CallsInit
<1>2. CallsTypeOK
  BY <1>1 DEF CallsInit, CallsTypeOK, TypeInv, NoCall, Held
<1>3. QED
  BY <1>1, <1>2 DEF CallsInit, Init, AnswerInv, GoroutineInv, CallInv, Out, Serves, UnderWay

\* r moves, and nobody else.
OnlyMoves(r) ==
  /\ \A q \in Requests \ {r} :
       /\ pc'[q] = pc[q] /\ outcome'[q] = outcome[q]
       /\ read'[q] = read[q] /\ got'[q] = got[q] /\ drawn'[q] = drawn[q]
  /\ UNCHANGED <<ask, want, todo, answer>>

LEMMA MoveKeeps ==
  ASSUME AnswerInv, NEW r \in Requests, OnlyMoves(r), pc[r] # "idle",
         GoroutineInv(r)', TypeInv', CallsTypeOK'
  PROVE  AnswerInv'
<1>1. \A q \in Requests \ {r} : GoroutineInv(q)'
  BY DEF AnswerInv, OnlyMoves, GoroutineInv, Out, Serves, UnderWay
<1>2. PICK d \in Calls : r \in want[d] \ todo[d] /\ ask[d] # NoCall
  BY DEF AnswerInv, GoroutineInv, UnderWay
<1>3. \A c \in Calls : r \in want[c] => c = d
  BY <1>2, OneCall
<1>4. ASSUME NEW c \in Calls PROVE CallInv(c)'
  <2>1. CallInv(c) /\ TasksOf[c] \subseteq Requests
    BY CallsAssumption DEF AnswerInv
  <2>2. CASE r \notin want[c]
    BY <2>1, <2>2 DEF OnlyMoves, CallInv
  <2>3. CASE c = d
    BY <1>2, <2>1, <2>3 DEF OnlyMoves, CallInv
  <2>4. QED
    BY <1>3, <2>2, <2>3
<1>5. QED
  BY <1>1, <1>4 DEF AnswerInv

\* What the relay does by itself.
LEMMA ProceedKeeps ==
  ASSUME AnswerInv, TypeInv', NEW r \in Requests, RelayProceeds(r) \/ CloseAnswer(r)
  PROVE  AnswerInv'
<1> USE DEF AnswerInv, TypeInv, TypeOK
<1>1. /\ pc' = [pc EXCEPT ![r] = pc'[r]] /\ outcome' = [outcome EXCEPT ![r] = outcome'[r]]
      /\ UNCHANGED callVars
      /\ <<pc[r], pc'[r]>> \in
           {<<"fetch", "list">>, <<"list", "try">>, <<"try", "try">>, <<"try", "call">>,
            <<"try", "answer">>, <<"try", "wait">>, <<"wait", "fetch">>,
            <<"wait", "answer">>, <<"bind", "body">>, <<"release", "try">>,
            <<"release", "answer">>, <<"answer", "idle">>, <<"body", "answer">>}
      /\ pc'[r] = "body" => outcome'[r] = "ok"
      /\ pc[r] \in {"try", "wait"} =>
           outcome'[r] = outcome[r] \/ (pc'[r] = "answer" /\ outcome'[r] # "ok")
      /\ pc[r] \in {"fetch", "list", "release", "body"} => outcome'[r] = outcome[r]
      /\ pc[r] = "release" => (pc'[r] = "try" <=> outcome[r] = "none")
      /\ pc[r] = "answer" => outcome'[r] = "none"
  BY DEF RelayProceeds, CloseAnswer, Proceed, GrabFreed, ListCandidates, SkipBusy, TakeSlot,
         GiveUpUnavailable, GiveUpBusy, Enqueue, WakeFreed, WakeTimeout, WakeCancelled,
         BindSession, DeferredRelease, Finish, CloseBody, Goto, Decide, ctlVars
<1>2. OnlyMoves(r) /\ pc[r] # "idle"
  BY <1>1 DEF OnlyMoves, callVars
<1>3. CallsTypeOK'
  BY <1>1 DEF CallsTypeOK, callVars
<1>4. GoroutineInv(r)'
  <2>1. /\ UNCHANGED <<UnderWay(r), Serves(r, "images"), Serves(r, "whole"), Serves(r, "chat")>>
        /\ UNCHANGED <<got, drawn, read>>
    BY <1>1 DEF UnderWay, Serves, callVars
  <2>2. GoroutineInv(r)
    OBVIOUS
  <2>3. outcome'[r] # "none" => pc'[r] \in {"body", "release", "answer"}
    BY <1>1, <2>2 DEF GoroutineInv
  <2>4. Out(r) => Out(r)'
    BY <1>1, <2>2 DEF GoroutineInv, Out
  <2>5. pc'[r] # "bind" /\ (outcome'[r] = "ok" => pc[r] = "bind" \/ outcome[r] = "ok")
    BY <1>1
  <2>6. read[r] = {}
    BY <1>1, <2>2 DEF GoroutineInv
  <2>7. pc[r] # "idle"
    BY <1>1
  <2>8. QED
    BY <2>1, <2>2, <2>3, <2>4, <2>5, <2>6, <2>7 DEF GoroutineInv
<1>5. QED
  BY <1>2, <1>3, <1>4, MoveKeeps

\* What the provider's function does.
LEMMA UpstreamKeeps ==
  ASSUME AnswerInv, TypeInv', NEW r \in Requests, Upstream(r)
  PROVE  AnswerInv'
<1> USE DEF AnswerInv, TypeInv, TypeOK
<1>1. /\ pc' = [pc EXCEPT ![r] = pc'[r]] /\ outcome' = [outcome EXCEPT ![r] = outcome'[r]]
      /\ pc[r] = "call" /\ pc'[r] \in {"call", "bind", "release"}
      /\ outcome[r] = "none" /\ drawn[r] \subseteq KeyAccounts /\ acct[r] \in Accounts
      /\ outcome'[r] # "ok"
      /\ pc'[r] # "release" => outcome'[r] = "none"
      /\ UNCHANGED <<ask, want, todo, answer>>
  <2>1. pc[r] = "call" /\ UNCHANGED <<ask, want, todo, answer>>
    BY DEF Upstream, UpstreamFails, PassOn, OpenBody, ReadWhole, BodyTorn, BodyTornIsAnswer,
           ChatEvent, ChatCollected, ChatMissing, ImageEvent, FinalImage, LastPreview,
           Refused, KeyImageMissing, ImageTorn, Returns, ReplyOk, ReplyRetriable,
           RetryAfterReply, EndWithReply, Goto, callVars
  <2>2. outcome[r] = "none" /\ drawn[r] \subseteq KeyAccounts /\ acct[r] \in Accounts
    BY <2>1 DEF GoroutineInv, Out, HoldsMeansNamed, Holds
  <2>3. /\ pc' = [pc EXCEPT ![r] = pc'[r]] /\ outcome' = [outcome EXCEPT ![r] = outcome'[r]]
        /\ pc'[r] \in {"call", "bind", "release"}
        /\ outcome'[r] # "ok"
        /\ pc'[r] # "release" => outcome'[r] = "none"
    <3>1. CASE UNCHANGED vars
      BY <2>1, <2>2, <3>1 DEF vars, ctlVars
    <3>2. CASE Reply(r)
      BY <2>2, <3>2 DEF Reply, ReplyOk, ReplyRetriable, ReplyTerminal, RetryAfterReply,
                        EndWithReply, Goto, Decide
    <3>3. QED
      BY <3>1, <3>2, UpstreamReplies
  <2>4. QED
    BY <2>1, <2>2, <2>3
<1>2. ASSUME UNCHANGED <<got, drawn>>, read' = [read EXCEPT ![r] = read'[r]],
             read'[r] \subseteq Seen, pc'[r] # "bind",
             read'[r] # {} => pc'[r] = "call",
             read'[r] \cap ImageEvents # {} => Serves(r, "images")
      PROVE  AnswerInv'
  <2>1. OnlyMoves(r)
    BY <1>1, <1>2 DEF OnlyMoves, CallsTypeOK
  <2>2. CallsTypeOK'
    BY <1>1, <1>2 DEF CallsTypeOK
  <2>3. GoroutineInv(r)'
    BY <1>1, <1>2 DEF GoroutineInv, Out, Serves, UnderWay
  <2>4. QED
    BY <1>1, <2>1, <2>2, <2>3, MoveKeeps
<1>3. ASSUME NEW what \in Held,
             NEW complete \in BOOLEAN, Returns(r, what, complete),
             complete => Out(r)' \/ acct[r] \in KeyAccounts,
             pc'[r] # "call",
             Serves(r, "whole") /\ pc'[r] = "bind" => what = "whole",
             Serves(r, "chat") /\ pc'[r] = "bind" => what \in {"passed", "whole", "cut"}
      PROVE  AnswerInv'
  <2>1. /\ got' = [got EXCEPT ![r] = what] /\ read' = [read EXCEPT ![r] = {}]
        /\ drawn' = [drawn EXCEPT ![r] = IF complete THEN @ \cup {acct[r]} ELSE @]
    BY <1>1, <1>3 DEF Returns, Forget, CallsTypeOK
  <2>2. OnlyMoves(r)
    BY <1>1, <2>1 DEF OnlyMoves, CallsTypeOK
  <2>3. CallsTypeOK'
    BY <1>1, <2>1 DEF CallsTypeOK
  <2>4. GoroutineInv(r)'
    <3>1. UNCHANGED <<UnderWay(r), Serves(r, "images"), Serves(r, "whole"), Serves(r, "chat")>>
      BY <1>1 DEF UnderWay, Serves
    <3>2. /\ got'[r] = what /\ read'[r] = {}
          /\ drawn'[r] = IF complete THEN drawn[r] \cup {acct[r]} ELSE drawn[r]
      BY <2>1 DEF CallsTypeOK
    <3>3. GoroutineInv(r)
      OBVIOUS
    <3>4. QED
      BY <1>1, <1>3, <3>1, <3>2, <3>3 DEF GoroutineInv
  <2>5. QED
    BY <1>1, <2>2, <2>3, <2>4, MoveKeeps
<1>4. CASE UpstreamFails(r)
  BY <1>1, <1>2, <1>4
     DEF UpstreamFails, callVars, CallsTypeOK, ReplyRetriable, RetryAfterReply, EndWithReply, Goto
<1>5. CASE PassOn(r)
  <2>1. ~Serves(r, "whole")
    BY <1>5, OneSurface DEF PassOn, Unread
  <2>2. QED
    BY <1>3, <1>5, <2>1 DEF PassOn, ReplyOk, Goto, Held
<1>6. CASE OpenBody(r)
  BY <1>1, <1>2, <1>6 DEF OpenBody, CallsTypeOK, Seen, ImageEvents, vars, ctlVars
<1>7. CASE ReadWhole(r)
  <2>1. ~Serves(r, "chat")
    BY <1>7, OneSurface DEF ReadWhole
  <2>2. QED
    BY <1>3, <1>7, <2>1 DEF ReadWhole, ReplyOk, Goto, Out, Held
<1>8. CASE BodyTorn(r)
  BY <1>3, <1>8 DEF BodyTorn, RetryAfterReply, Goto, Held
<1>9. CASE BodyTornIsAnswer(r)
  BY <1>3, <1>9, OneSurface DEF BodyTornIsAnswer, ReplyOk, Goto, Held
<1>10. ASSUME NEW what \in ImageEvents, ImageEvent(r, what) PROVE AnswerInv'
  BY <1>1, <1>2, <1>10 DEF ImageEvent, CallsTypeOK, Seen, vars, ctlVars
<1>11. CASE FinalImage(r)
  BY <1>3, <1>11, OneSurface DEF FinalImage, ReplyOk, Goto, Out, Held
<1>12. CASE LastPreview(r)
  <2>1. Serves(r, "images")
    BY <1>12 DEF LastPreview, GoroutineInv, ImageEvents
  <2>2. QED
    BY <1>3, <1>12, <2>1, OneSurface DEF LastPreview, ReplyOk, Goto, Out, Held
<1>13. CASE Refused(r)
  <2>1. pc'[r] = "release" /\ outcome'[r] = "upstream"
    BY <1>13 DEF Refused, EndWithReply, Goto, Decide
  <2>2. QED
    BY <1>3, <1>13, <2>1 DEF Refused, Out, Held
<1>14. CASE KeyImageMissing(r) \/ ImageTorn(r)
  BY <1>3, <1>14 DEF KeyImageMissing, ImageTorn, RetryAfterReply, Goto, Held
<1>15. ASSUME NEW what \in ChatEvents, ChatEvent(r, what) PROVE AnswerInv'
  BY <1>1, <1>2, <1>15 DEF ChatEvent, GoroutineInv, CallsTypeOK, Seen, ChatEvents, ImageEvents,
                           vars, ctlVars
<1>16. CASE ChatCollected(r)
  <2>1. Collected(read[r]) \in {"whole", "cut"}
    BY <1>16 DEF ChatCollected, Collected
  <2>2. ~Serves(r, "whole")
    BY <1>16, OneSurface DEF ChatCollected
  <2>3. Returns(r, Collected(read[r]), TRUE) \/ Returns(r, Collected(read[r]), FALSE)
    <3>1. CASE "ended" \in read[r]
      BY <1>16, <3>1 DEF ChatCollected, Returns
    <3>2. CASE "ended" \notin read[r]
      BY <1>16, <3>2 DEF ChatCollected, Returns
    <3>3. QED
      BY <3>1, <3>2
  <2>4. pc'[r] = "bind" /\ Out(r)'
    BY <1>16 DEF ChatCollected, ReplyOk, Goto, Out
  <2>5. Collected(read[r]) \in Held /\ Collected(read[r]) \in {"passed", "whole", "cut"}
    BY <2>1 DEF Held
  <2>6. QED
    BY <1>3, <2>2, <2>3, <2>4, <2>5
<1>17. CASE ChatMissing(r)
  BY <1>3, <1>17 DEF ChatMissing, RetryAfterReply, Goto, Held
<1>18. QED
  BY <1>4, <1>5, <1>6, <1>7, <1>8, <1>9, <1>10, <1>11, <1>12, <1>13, <1>14, <1>15, <1>16, <1>17
     DEF Upstream

\* The client and the handler: calls come, begin, and are answered.
LEMMA CallStepKeeps ==
  ASSUME AnswerInv, TypeInv', NEW c \in Calls,
         StartCall(c) \/ AnswerCall(c) \/ (\E r \in Requests : StartTask(c, r))
  PROVE  AnswerInv'
<1> USE DEF AnswerInv, TypeInv, TypeOK
<1>1. CASE StartCall(c)
  <2>1. PICK s \in Surfaces, p \in Pins, k \in Sessions \cup {NoSession},
             T \in SUBSET TasksOf[c] :
          /\ T # {} /\ (s # "images" => Cardinality(T) = 1)
          /\ ask'   = [ask  EXCEPT ![c] = [surface |-> s, pin |-> p, session |-> k]]
          /\ want'  = [want EXCEPT ![c] = T]
          /\ todo'  = [todo EXCEPT ![c] = T]
          /\ got'   = [r \in Requests |-> IF r \in T THEN "nothing" ELSE got[r]]
          /\ drawn' = [r \in Requests |-> IF r \in T THEN {} ELSE drawn[r]]
    BY ONLY <1>1, Zenon DEF StartCall
  <2>2. ask[c] = NoCall /\ answer' = [answer EXCEPT ![c] = {}] /\ UNCHANGED <<pc, outcome, read>>
    BY <1>1 DEF StartCall, vars, ctlVars
  <2>3. T \subseteq Requests
    BY CallsAssumption
  <2>4. CallsTypeOK'
    BY <2>1, <2>2, <2>3 DEF CallsTypeOK, Held
  <2>5. ask'[c] # NoCall
    BY <2>1, CallsAssumption DEF CallsTypeOK, NoCall
  \* Nobody of the call is under way.
  <2>6. ASSUME NEW r \in T PROVE pc[r] = "idle"
    <3>1. ASSUME pc[r] # "idle" PROVE FALSE
      <4>1. PICK d \in Calls : r \in want[d] /\ ask[d] # NoCall
        BY <2>3, <3>1 DEF GoroutineInv, UnderWay
      <4>2. d = c
        BY <4>1, <2>3, CallsAssumption DEF CallInv
      <4>3. QED
        BY <2>2, <4>1, <4>2
    <3>2. QED
      BY <3>1
  <2>7. ASSUME NEW r \in Requests PROVE GoroutineInv(r)'
    <3>1. CASE r \in T
      BY <2>1, <2>2, <2>6, <3>1 DEF GoroutineInv, Out
    <3>2. CASE r \notin T
      <4>1. \A d \in Calls : r \in want'[d] => d # c /\ r \in want[d] /\ ask'[d] = ask[d]
        BY <2>1, <3>2 DEF CallsTypeOK
      <4>2. \A t : Serves(r, t)' => Serves(r, t)
        BY <4>1 DEF Serves
      <4>3. \A d \in Calls : ask[d] # NoCall =>
              ask'[d] = ask[d] /\ want'[d] = want[d] /\ todo'[d] = todo[d]
        BY <2>1, <2>2 DEF CallsTypeOK
      <4>4. Serves(r, "images") /\ pc[r] # "idle" => Serves(r, "images")'
        <5>1. ASSUME Serves(r, "images"), pc[r] # "idle" PROVE Serves(r, "images")'
          <6>1. PICK d \in Calls : r \in want[d] /\ ask[d] # NoCall
            BY <5>1 DEF GoroutineInv, UnderWay
          <6>2. PICK e \in Calls : r \in want[e] /\ ask[e].surface = "images"
            BY <5>1 DEF Serves
          <6>3. d = e
            BY <6>1, <6>2, OneCall
          <6>4. QED
            BY <4>3, <6>1, <6>2, <6>3 DEF Serves
        <5>2. QED
          BY <5>1
      <4>5. got'[r] = got[r] /\ drawn'[r] = drawn[r]
        BY <2>1, <3>2
      <4>6. UnderWay(r) => UnderWay(r)'
        BY <4>3 DEF UnderWay
      <4>7. GoroutineInv(r) /\ (read[r] # {} => pc[r] # "idle")
        BY DEF GoroutineInv
      <4>8. Out(r)' <=> Out(r)
        BY <2>2 DEF Out
      <4>9. QED
        BY <2>2, <4>2, <4>4, <4>5, <4>6, <4>7, <4>8 DEF GoroutineInv
    <3>3. QED
      BY <3>1, <3>2
  <2>8. ASSUME NEW d \in Calls PROVE CallInv(d)'
    <3>1. CASE d = c
      BY <2>1, <2>2, <2>3, <2>5, <2>6, <3>1 DEF CallInv, CallsTypeOK
    <3>2. CASE d # c
      <4>1. want'[d] = want[d] /\ todo'[d] = todo[d] /\ ask'[d] = ask[d] /\ answer'[d] = answer[d]
        BY <2>1, <2>2, <3>2 DEF CallsTypeOK
      <4>2. TasksOf[d] \subseteq Requests /\ TasksOf[d] \cap T = {}
        BY <3>2, CallsAssumption
      <4>3. \A r \in want[d] : got'[r] = got[r] /\ drawn'[r] = drawn[r]
        BY <2>1, <4>2 DEF CallInv
      <4>4. QED
        BY <2>2, <4>1, <4>3 DEF CallInv
    <3>3. QED
      BY <3>1, <3>2
  <2>9. QED
    BY <2>4, <2>7, <2>8
<1>2. CASE AnswerCall(c)
  <2>1. /\ todo[c] = {} /\ \A r \in want[c] : pc[r] = "idle"
        /\ answer' = [answer EXCEPT ![c] = ImagesOf(c)]
        /\ ask' = [ask EXCEPT ![c] = NoCall]
        /\ UNCHANGED <<pc, outcome, want, todo, read, got, drawn>>
    BY <1>2 DEF AnswerCall, CallDone, vars, ctlVars
  <2>2. CallsTypeOK'
    BY <2>1 DEF CallsTypeOK, ImagesOf, NoCall
  <2>3. ASSUME NEW r \in Requests PROVE GoroutineInv(r)'
    <3>1. \A d \in Calls : r \in want[d] /\ pc[r] # "idle" => ask'[d] = ask[d]
      BY <2>1 DEF CallsTypeOK
    <3>2. \A t : t # "none" /\ Serves(r, t)' => Serves(r, t)
      BY <2>1 DEF Serves, NoCall, CallsTypeOK
    <3>3. Serves(r, "images") /\ pc[r] # "idle" => Serves(r, "images")'
      BY <2>1, <3>1 DEF Serves
    <3>4. UnderWay(r) /\ pc[r] # "idle" => UnderWay(r)'
      BY <2>1, <3>1 DEF UnderWay
    <3>5. GoroutineInv(r) /\ (read[r] # {} => pc[r] # "idle")
      BY DEF GoroutineInv
    <3>6. Out(r)' <=> Out(r)
      BY <2>1 DEF Out
    <3>7. QED
      BY <2>1, <3>2, <3>3, <3>4, <3>5, <3>6 DEF GoroutineInv
  <2>4. ASSUME NEW d \in Calls PROVE CallInv(d)'
    <3>1. CASE d = c
      BY <2>1, <3>1 DEF CallInv, ImagesOf, CallsTypeOK
    <3>2. CASE d # c
      BY <2>1, <3>2 DEF CallInv, CallsTypeOK
    <3>3. QED
      BY <3>1, <3>2
  <2>5. QED
    BY <2>2, <2>3, <2>4
<1>3. ASSUME NEW r \in Requests, StartTask(c, r) PROVE AnswerInv'
  <2>1. /\ r \in todo[c] /\ pc[r] = "idle" /\ pc' = [pc EXCEPT ![r] = "fetch"]
        /\ todo' = [todo EXCEPT ![c] = @ \ {r}]
        /\ UNCHANGED <<outcome, ask, want, read, got, drawn, answer>>
    BY <1>3 DEF StartTask, Start, Goto
  <2>2. CallsTypeOK'
    BY <2>1 DEF CallsTypeOK
  <2>3. ASSUME NEW q \in Requests PROVE GoroutineInv(q)'
    <3>1. CASE q = r
      <4>1. drawn[r] = {} /\ r \in want[c] /\ ask[c] # NoCall
        BY <2>1 DEF CallInv
      <4>2. r \in want'[c] \ todo'[c] /\ ask'[c] # NoCall
        BY <2>1, <4>1 DEF CallsTypeOK
      <4>3. QED
        BY <2>1, <3>1, <4>1, <4>2 DEF GoroutineInv, Out, Serves, UnderWay
    <3>2. CASE q # r
      <4>1. \A d \in Calls : todo'[d] \subseteq todo[d]
        BY <2>1 DEF CallsTypeOK
      <4>2. QED
        <5>1. pc'[q] = pc[q]
          BY <2>1, <3>2
        <5>2. UnderWay(q) => UnderWay(q)'
          BY <2>1, <4>1 DEF UnderWay
        <5>3. /\ Serves(q, "images")' = Serves(q, "images")
              /\ Serves(q, "whole")' = Serves(q, "whole")
              /\ Serves(q, "chat")' = Serves(q, "chat")
          BY <2>1 DEF Serves
        <5>4. GoroutineInv(q)
          OBVIOUS
        <5>5. Out(q) => Out(q)'
          BY <2>1, <5>1 DEF Out
        <5>6. QED
          BY <2>1, <5>1, <5>2, <5>3, <5>4, <5>5 DEF GoroutineInv
    <3>3. QED
      BY <3>1, <3>2
  <2>4. ASSUME NEW d \in Calls PROVE CallInv(d)'
    <3>1. todo'[d] \subseteq todo[d] /\ r \notin todo'[d]
      <4>1. CASE d = c
        BY <2>1, <4>1 DEF CallsTypeOK
      <4>2. CASE d # c
        <5>1. r \in want[c] /\ (r \in todo[d] => r \in want[d])
          BY <2>1 DEF CallInv
        <5>2. r \notin todo[d]
          BY <4>2, <5>1, OneCall
        <5>3. QED
          BY <2>1, <4>2, <5>2 DEF CallsTypeOK
      <4>3. QED
        BY <4>1, <4>2
    <3>2. todo[d] \subseteq Requests
      BY DEF CallsTypeOK
    <3>3. QED
      BY <2>1, <3>1, <3>2 DEF CallInv
  <2>5. QED
    BY <2>2, <2>3, <2>4
<1>4. QED
  BY <1>1, <1>2, <1>3

LEMMA AnswerStep == AnswerInv /\ [CallsNext]_allVars => AnswerInv'
<1> SUFFICES ASSUME AnswerInv, [CallsNext]_allVars PROVE AnswerInv'
  OBVIOUS
<1>1. TypeInv'
  <2>1. Mine
    BY DEF AnswerInv, CallInv, CallsTypeOK, Mine
  <2>2. QED
    BY <2>1, CallsStepRelay, TypeStep DEF AnswerInv
\* A client that leaves, an operator, the clock.
<1>2. ASSUME UNCHANGED <<ctlVars, callVars>> PROVE AnswerInv'
  BY <1>1, <1>2 DEF AnswerInv, CallsTypeOK, TypeInv, GoroutineInv, CallInv, Out, Serves, UnderWay,
                    ctlVars, callVars
<1>3. ASSUME NEW c \in Calls, Leave(c) PROVE UNCHANGED <<ctlVars, callVars>>
  BY <1>3 DEF Leave, Cancel
<1>4. CASE Others
  BY <1>2, <1>4 DEF Others, AdminSetEnabled, AdminSetPreferred, Tick
<1>5. CASE UNCHANGED allVars
  BY <1>2, <1>5 DEF allVars, vars
<1>6. QED
  BY <1>1, <1>2, <1>3, <1>4, <1>5, ProceedKeeps, UpstreamKeeps, CallStepKeeps DEF CallsNext

LEMMA AnswerInvariant == CallsSpec => []AnswerInv
BY AnswerInit, AnswerStep, PTL DEF CallsSpec

\* What becomes an aggregated chat answer is a body read to its end or, of Codex, a
\* stream that has not failed and has brought something, whichever accounts were
\* asked before.
THEOREM AnswersWhole == CallsSpec => []NoTornAnswer
<1>1. AnswerInv => NoTornAnswer
  BY DEF AnswerInv, GoroutineInv, NoTornAnswer
<1>2. QED
  BY AnswerInvariant, <1>1, PTL

\* A generation that a login has completed, with an image or without, is the last
\* that is asked for; not so with key accounts.
THEOREM LoginsLast == CallsSpec => []LoginGeneratesLast
<1>1. AnswerInv => LoginGeneratesLast
  BY DEF AnswerInv, GoroutineInv, Out, LoginGeneratesLast
<1>2. QED
  BY AnswerInvariant, <1>1, PTL

\* However many images a call asks for, those that were made are in its answer.
THEOREM ImagesKept == CallsSpec => []NoImageLost
<1>1. AnswerInv => NoImageLost
  BY DEF AnswerInv, CallInv, NoImageLost
<1>2. QED
  BY AnswerInvariant, <1>1, PTL

\* The calls are well typed.
THEOREM CallsTyped == CallsSpec => []CallsTypeOK
<1>1. AnswerInv => CallsTypeOK
  BY DEF AnswerInv
<1>2. QED
  BY AnswerInvariant, <1>1, PTL
=============================================================================
