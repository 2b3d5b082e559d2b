----------------------------- MODULE GeminiStream -----------------------------
(***************************************************************************)
(* One answer of Gemini or the Code Assist backend                         *)
(* (provider/gemini/translate.go): StreamToOpenAI translates its frames as *)
(* they come; geminiToOpenAI translates the same response sent whole.      *)
(***************************************************************************)
EXTENDS ChatChunks

CONSTANTS
  MaxParts,        \* bound: parts of a response
  Cuts             \* the upstream may be cut off

VARIABLES
  parts,           \* upstream: the kinds of the parts so far
  finishReason,    \* upstream: finishReason, or "" for none
  ended,           \* upstream: the stream is over
  toolIndex,       \* index of the next call
  finish           \* finish

geminiVars == <<parts, finishReason, ended, toolIndex, finish>>
vars       == <<geminiVars, sentVars>>

Kinds  == {"text", "functionCall"}
Finals == {"STOP", "MAX_TOKENS", "SAFETY", "MALFORMED_FUNCTION_CALL"}

TypeOK ==
  /\ parts        \in Seq(Kinds)
  /\ finishReason \in Finals \cup {""}
  /\ ended        \in BOOLEAN
  /\ toolIndex    = Len(sentTools)
  /\ finish       \in Reasons
  /\ sentText     \in Seq(1..MaxParts)
  /\ sentTools    \in Seq([id : 1..MaxParts, args : Seq(1..MaxParts)])
  /\ sentRole /\ (sentDone <=> ended)

GeminiInit ==
  /\ parts        = <<>>
  /\ finishReason = ""
  /\ ended        = FALSE
  /\ toolIndex    = 0
  /\ finish       = "stop"

\* StreamToOpenAI sends the role first.
Init == GeminiInit /\ SentNothing(TRUE)

-----------------------------------------------------------------------------
\* finishMap; a reason it does not know leaves what there is.
FinishMap(reason, default) ==
  CASE reason = "STOP"       -> "stop"
    [] reason = "MAX_TOKENS" -> "length"
    [] reason = "SAFETY"     -> "content_filter"
    [] OTHER                 -> default

\* The numbers of the parts of a kind, which come after some others.
Numbers(before, ps, kind) ==
  FlattenSeq([n \in 1..Len(ps) |-> IF ps[n] = kind THEN <<before + n>> ELSE <<>>])

Call(n) == [id |-> n, args |-> <<n>>]

\* Chunks with calls, from an index (from 0) on.
SendCalls(index, calls) ==
  sentTools' = [n \in 1..Max({Len(sentTools), index + Len(calls)}) |->
                  IF n \in index + 1..index + Len(calls) THEN calls[n - index]
                                                         ELSE sentTools[n]]

-----------------------------------------------------------------------------
(* The frames.                                                             *)

\* A frame with the next parts, and with the reason if it is the last: the
\* chunks of its parts, then the reason, which takes the place of the
\* "tool_calls" that a call has left in finish.
Frame(ps, reason) ==
  LET texts == Numbers(Len(parts), ps, "text")
      calls == Numbers(Len(parts), ps, "functionCall")
  IN  /\ ~ended /\ finishReason = ""
      /\ Len(parts \o ps) <= MaxParts
      /\ parts' = parts \o ps
      /\ finishReason' = reason
      /\ sentText' = sentText \o texts
      /\ SendCalls(toolIndex, [k \in 1..Len(calls) |-> Call(calls[k])])
      /\ toolIndex' = toolIndex + Len(calls)
      /\ finish' = FinishMap(reason, IF calls = <<>> THEN finish ELSE "tool_calls")
      /\ UNCHANGED <<ended, sentRole, sentFinish, sentDone>>

\* The stream ends, with a reason or cut off before it.
End ==
  /\ ~ended
  /\ Cuts \/ finishReason # ""
  /\ ended' = TRUE
  /\ SendEnd(finish)
  /\ UNCHANGED <<parts, finishReason, toolIndex, finish, sentRole, sentText,
                 sentTools>>

Next ==
  \/ \E ps \in BoundedSeq(Kinds, 2), reason \in Finals \cup {""} : Frame(ps, reason)
  \/ End

Spec == Init /\ [][Next]_vars

-----------------------------------------------------------------------------
(* The response sent whole: geminiToOpenAI.                                *)

Text == Numbers(0, parts, "text")

ToolCalls ==
  LET calls == Numbers(0, parts, "functionCall")
  IN  [k \in 1..Len(calls) |-> Call(calls[k])]

\* A response with calls is announced as such, whatever its reason.
Finish ==
  IF ToolCalls # <<>> THEN "tool_calls"
  ELSE FinishMap(IF finishReason = "" THEN "STOP" ELSE finishReason, "stop")

-----------------------------------------------------------------------------
(* Properties.                                                             *)

\* The chunks add up to what the other caller is answered, the calls numbered
\* through all frames; and, when there are no calls, with the same reason.
\* With calls the streaming client may be told another: see Frame and Finish
\* (translate.go:323-328, 395-399).
StreamMatchesAggregate ==
  /\ AddUpTo(Text, ToolCalls)
  /\ ended /\ ToolCalls = <<>> => sentFinish = Finish

\* A response the upstream cut short, at the limit or by its filter, is not
\* called complete, calls or not (translate.go:395-401).
CutShortIsSaid ==
  ended /\ finishReason \in {"MAX_TOKENS", "SAFETY"} =>
    sentFinish \in {"length", "content_filter"}
=============================================================================
