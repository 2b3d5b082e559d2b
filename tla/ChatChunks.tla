------------------------------ MODULE ChatChunks ------------------------------
(***************************************************************************)
(* What a streaming client of /v1/chat/completions has received: the       *)
(* chunks every provider's translator writes, added up.  A translator      *)
(* EXTENDS this module and says what it writes on each upstream event.     *)
(*                                                                         *)
(* Promise is the abstract specification of all of them: whatever the      *)
(* upstream does, the chunks are the legal prefix of one answer.           *)
(*                                                                         *)
(* A text is the sequence of the numbers of its pieces, counted in the     *)
(* order the upstream made them; so are the arguments of a call.           *)
(***************************************************************************)
EXTENDS Integers, Sequences, SequencesExt

VARIABLES
  sentRole,    \* the chunk with the role of the assistant was sent
  sentText,    \* the text the chunks add up to
  sentTools,   \* by index, the id and the arguments of the calls
  sentFinish,  \* the finish_reason that was sent, or "none"
  sentDone     \* [DONE] was sent

sentVars == <<sentRole, sentText, sentTools, sentFinish, sentDone>>

Reasons == {"stop", "tool_calls", "length", "content_filter"}

\* The translators that open the stream with the role send it before they
\* read anything.
SentNothing(role) ==
  /\ sentRole   = role
  /\ sentText   = <<>>
  /\ sentTools  = <<>>
  /\ sentFinish = "none"
  /\ sentDone   = FALSE

-----------------------------------------------------------------------------
(* The chunks.                                                             *)

\* A chunk with content.
SendText(p) == sentText' = Append(sentText, p)

\* A chunk with more of the arguments of the call at index n (from 1).
SendArgs(n, a) == sentTools' = [sentTools EXCEPT ![n].args = @ \o a]

\* A chunk that opens a call, with its first arguments, if there are any.
SendCall(id, a) == sentTools' = Append(sentTools, [id |-> id, args |-> a])

\* The last chunk, if it has a reason, and [DONE].
SendEnd(reason) == sentFinish' = reason /\ sentDone' = TRUE

-----------------------------------------------------------------------------
(* What the other caller is answered: one chat.completion.                 *)

EmptyObject == <<0>>       \* "{}"

\* No arguments are answered as the empty object.
OrObject(a) == IF a = <<>> THEN EmptyObject ELSE a

\* The chunks add up to the text and the calls, each call at its index with
\* its arguments, none at all standing for an empty object.
AddUpTo(text, calls) ==
  /\ sentText = text
  /\ Len(sentTools) = Len(calls)
  /\ \A n \in 1..Len(calls) : [sentTools[n] EXCEPT !.args = OrObject(@)] = calls[n]

-----------------------------------------------------------------------------
(* The promise.                                                            *)

\* Content is only added to.
Grows ==
  /\ IsPrefix(sentText, sentText')
  /\ Len(sentTools) <= Len(sentTools')
  /\ \A n \in 1..Len(sentTools) :
       /\ sentTools'[n].id = sentTools[n].id
       /\ IsPrefix(sentTools[n].args, sentTools'[n].args)

Write ==
  /\ ~sentDone
  /\ sentRole \/ UNCHANGED <<sentText, sentTools>>
  /\ sentRole => sentRole'
  /\ Grows
  /\ sentFinish # "none" => UNCHANGED <<sentText, sentTools, sentFinish>>

Promise == (\E role \in BOOLEAN : SentNothing(role)) /\ [][Write]_sentVars
=============================================================================
