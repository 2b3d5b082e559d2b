------------------------------ MODULE CodexStream ------------------------------
(***************************************************************************)
(* One answer of the Codex backend, an SSE stream of events, translated    *)
(* for the client (provider/codex/translate.go): the collector that both   *)
(* chat paths fold the events into, the chunks StreamChatCompletion writes *)
(* as they come, and what AggregateChatCompletion and AggregateResponses   *)
(* make of the whole stream.                                               *)
(*                                                                         *)
(* Each action is one event of the upstream with everything the folds do   *)
(* on it.  A text is the sequence of the numbers of its pieces; so are a   *)
(* tool call's arguments.                                                  *)
(***************************************************************************)
EXTENDS ChatChunks, FiniteSets

CONSTANTS
  Items,           \* function calls the model may make
  Named,           \* how the upstream names an item: [open : , delta : ]
  MaxPieces,       \* bound: pieces of a text or of a call's arguments
  Cuts             \* the upstream may fail, or be cut off

Names == {"call_id", "id"}

StreamAssumption ==
  /\ IsFiniteSet(Items)
  /\ Named \subseteq [open : Names, delta : Names]
  /\ MaxPieces \in Nat
  /\ Cuts \in BOOLEAN

VARIABLES
  name,        \* how this upstream names its items
  pieces,      \* upstream: pieces of arguments sent as deltas, per item
  opened,      \* upstream: items whose output_item.added went out
  closed,      \* upstream: items whose output_item.done went out
  ended,       \* upstream: how the stream ended
  text,        \* c.text
  args,        \* c.tools[key].args
  order,       \* c.order, the keys in the order of their first event
  finish,      \* c.finish
  respText     \* AggregateResponses: text

upVars     == <<name, pieces, opened, closed, ended>>
collector  == <<text, args, order, finish>>
codexVars  == <<upVars, collector, respText>>
vars       == <<codexVars, sentVars>>

Ends    == {"no", "completed", "incomplete", "failed", "cut"}
Pieces  == 1..MaxPieces

TypeOK ==
  /\ name       \in Named
  /\ pieces     \in [Items -> 0..MaxPieces]
  /\ opened     \subseteq Items
  /\ closed     \subseteq Items
  /\ ended      \in Ends
  /\ text       \in Seq(Pieces)
  /\ args       \in [Items -> Seq(Pieces)]
  /\ order      \in Seq(Items)
  /\ finish     \in Reasons
  /\ sentText   \in Seq(Pieces)
  /\ sentTools  \in Seq([id : Items, args : Seq(Pieces)])
  /\ sentFinish \in Reasons \cup {"none"}
  /\ sentRole /\ (sentDone <=> ended # "no")
  /\ respText   \in Seq(Pieces)

CodexInit ==
  /\ name       \in Named
  /\ pieces     = [i \in Items |-> 0]
  /\ opened     = {}
  /\ closed     = {}
  /\ ended      = "no"
  /\ text       = <<>>
  /\ args       = [i \in Items |-> <<>>]
  /\ order      = <<>>
  /\ finish     = "stop"
  /\ respText   = <<>>

\* StreamChatCompletion sends the role first.
Init == CodexInit /\ SentNothing(TRUE)

-----------------------------------------------------------------------------
(* What the folds do on an event.                                          *)

Known(i) == \E n \in 1..Len(order) : order[n] = i

\* The key of a delta finds the tool only if the upstream names the item in
\* it as it did when it opened it.
Matched(i) == Known(i) /\ name.open = name.delta

\* toolIndex[key]
ToolIndex(i) == CHOOSE n \in 1..Len(order) : order[n] = i

\* Mutant: the reason of the stream stays what it was.
OpenToolKeepsReason(i, a) ==
  /\ order' = Append(order, i)
  /\ SendCall(i, a)
  /\ UNCHANGED finish

\* The first event of a tool: it gets a place in the order, and a chunk opens
\* it for the client with its first arguments, if there are any.
OpenTool(i, a) ==
  /\ order'  = Append(order, i)
  /\ finish' = "tool_calls"
  /\ SendCall(i, a)

Whole(n) == [m \in 1..n |-> m]

\* Mutant: the arguments of the done event are added to those of the deltas.
DoneArgsAlways(i, n) == Whole(n)

\* What output_item.done, which repeats all n pieces of the arguments, adds:
\* everything when no delta was taken, else nothing.
DoneArgs(i, n) == IF args[i] = <<>> THEN Whole(n) ELSE <<>>

-----------------------------------------------------------------------------
(* The events.                                                             *)

\* What an event that does not end the stream leaves alone.
notEnding == <<sentRole, sentFinish, sentDone>>

OutputTextDelta ==
  /\ ended = "no"
  /\ Len(text) < MaxPieces
  /\ LET d == Len(text) + 1
     IN  /\ text'     = Append(text, d)
         /\ SendText(d)
         /\ respText' = Append(respText, d)
  /\ UNCHANGED <<upVars, args, order, finish, sentTools, notEnding>>

ItemAdded(i) ==
  /\ ended = "no"
  /\ i \notin opened \cup closed
  /\ opened' = opened \cup {i}
  /\ OpenTool(i, <<>>)
  /\ UNCHANGED <<name, pieces, closed, ended, text, args, sentText, respText,
                 notEnding>>

\* A delta whose key is unknown is dropped.
ArgumentsDelta(i) ==
  /\ ended = "no"
  /\ i \in opened \ closed
  /\ pieces[i] < MaxPieces
  /\ pieces' = [pieces EXCEPT ![i] = @ + 1]
  /\ IF Matched(i)
     THEN /\ args' = [args EXCEPT ![i] = Append(@, pieces[i] + 1)]
          /\ SendArgs(ToolIndex(i), <<pieces[i] + 1>>)
     ELSE UNCHANGED <<args, sentTools>>
  /\ UNCHANGED <<name, opened, closed, ended, text, order, finish, sentText,
                 respText, notEnding>>

\* The item is whole.  The arguments are those of the deltas, or there were no
\* deltas; and this may be the first event of the item.
ItemDone(i) ==
  /\ ended = "no"
  /\ i \notin closed
  /\ closed' = closed \cup {i}
  /\ \E n \in 0..MaxPieces :
       /\ pieces[i] > 0 => n = pieces[i]
       /\ pieces' = [pieces EXCEPT ![i] = n]
       /\ args'   = [args EXCEPT ![i] = @ \o DoneArgs(i, n)]
       /\ IF Known(i)
          THEN SendArgs(ToolIndex(i), DoneArgs(i, n)) /\ UNCHANGED <<order, finish>>
          ELSE OpenTool(i, DoneArgs(i, n))
  /\ UNCHANGED <<name, opened, ended, text, sentText, respText, notEnding>>

\* What an end leaves alone.
atEnd == <<name, pieces, opened, closed, text, args, order, respText, sentRole,
           sentText, sentTools>>

\* response.completed: a chunk with the reason, and [DONE].
ResponseCompleted ==
  /\ ended = "no"
  /\ ended' = "completed"
  /\ SendEnd(finish)
  /\ UNCHANGED <<atEnd, finish>>

\* It ended early: whatever the reason was, it is now the length.
ResponseIncomplete ==
  /\ ended = "no"
  /\ ended'  = "incomplete"
  /\ finish' = "length"
  /\ SendEnd(finish')
  /\ UNCHANGED atEnd

\* response.failed: the stream ends without a reason.
ResponseFailed ==
  /\ Cuts /\ ended = "no"
  /\ ended' = "failed"
  /\ SendEnd("none")
  /\ UNCHANGED <<atEnd, finish>>

\* The connection ends with none of them: the reason as far as it is known.
Truncated ==
  /\ Cuts /\ ended = "no"
  /\ ended' = "cut"
  /\ SendEnd(finish)
  /\ UNCHANGED <<atEnd, finish>>

Next ==
  \/ OutputTextDelta
  \/ \E i \in Items : ItemAdded(i) \/ ArgumentsDelta(i) \/ ItemDone(i)
  \/ ResponseCompleted \/ ResponseIncomplete \/ ResponseFailed \/ Truncated

Spec == Init /\ [][Next]_vars

-----------------------------------------------------------------------------
(* What the other caller gets.                                             *)

\* AggregateChatCompletion: the tool calls, in order.
ToolCalls ==
  [n \in 1..Len(order) |-> [id |-> order[n], args |-> OrObject(args[order[n]])]]

\* AggregateResponses always answers with status "completed".
ResponsesOk == ended # "no"

-----------------------------------------------------------------------------
(* Properties.                                                             *)

\* A finished call has its arguments whole and once, whether they came as
\* deltas, with the done event, or both, and however the upstream's events
\* name the item (translate.go:240-244, 260-267).
ArgumentsWhole == \A i \in closed : args[i] = Whole(pieces[i])

\* At every moment the chunks a streaming client has add up to what the other
\* client would be answered: the same text, the same calls at the same index
\* with the same arguments (none at all standing for an empty object), and at
\* a regular end the same finish_reason.
StreamMatchesAggregate ==
  /\ AddUpTo(text, ToolCalls)
  /\ ended \in {"completed", "incomplete"} => sentFinish = finish

\* The reason says what the upstream did: calls are announced as such, and an
\* answer that was cut short by the limit is never called complete.
ReasonFits ==
  /\ sentFinish = "tool_calls" => order # <<>>
  /\ sentFinish = "stop" => order = <<>> /\ ended \in {"completed", "cut"}
  /\ ended = "incomplete" => sentFinish = "length"

\* "200-then-failure / truncated ... bodies surface an error instead of a fake
\* empty 200" (CHANGELOG.md:33): that of the Responses API does not.
ResponsesNoFakeSuccess ==
  ended \in {"failed", "cut"} /\ ResponsesOk =>
    ended = "cut" /\ (text # <<>> \/ order # <<>>)
=============================================================================
