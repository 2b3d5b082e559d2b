----------------------------- MODULE ClaudeStream -----------------------------
(***************************************************************************)
(* One answer of the Anthropic Messages API (provider/claude/translate.go):*)
(* StreamMessagesToOpenAI translates its events as they come;              *)
(* anthropicToOpenAI translates the same message sent whole.               *)
(***************************************************************************)
EXTENDS ChatChunks

CONSTANTS
  MaxBlocks,       \* bound: content blocks of a message
  MaxPieces,       \* bound: pieces of a block
  Cuts             \* the upstream may fail, or be cut off

VARIABLES
  phase,             \* how far the upstream is
  blocks,            \* upstream: the content blocks, with their pieces
  stopReason,        \* upstream: stop_reason, or "" for none
  toolIndexByBlock,  \* index of the call a block is, for the tool_use blocks
  nextTool           \* index of the next call

claudeVars == <<phase, blocks, stopReason, toolIndexByBlock, nextTool>>
vars       == <<claudeVars, sentVars>>

Kinds == {"text", "tool_use", "thinking"}
Stops == {"end_turn", "max_tokens", "stop_sequence", "tool_use", "refusal"}
Phases == {"created", "content", "stopping", "stopped", "cut"}
Index  == 0..MaxBlocks - 1
Pieces == 1..MaxBlocks * MaxPieces

TypeOK ==
  /\ phase      \in Phases
  /\ blocks     \in Seq([kind : Kinds, pieces : Seq(Pieces)])
  /\ stopReason \in Stops \cup {""}
  /\ DOMAIN toolIndexByBlock \subseteq Index
  /\ \A b \in DOMAIN toolIndexByBlock : toolIndexByBlock[b] \in Index
  /\ nextTool   \in 0..MaxBlocks
  /\ sentText   \in Seq(Pieces)
  /\ sentTools  \in Seq([id : Index, args : Seq(Pieces)])
  /\ sentFinish \in Reasons \cup {"none"}
  /\ sentDone <=> phase \in {"stopped", "cut"}

ClaudeInit ==
  /\ phase            = "created"
  /\ blocks           = <<>>
  /\ stopReason       = ""
  /\ toolIndexByBlock = [b \in {} |-> 0]
  /\ nextTool         = 0

Init == ClaudeInit /\ SentNothing(FALSE)

-----------------------------------------------------------------------------
\* stopMap; a reason it does not know is a stop.
FinishOf(stop) ==
  CASE stop = "max_tokens" -> "length"
    [] stop = "tool_use"   -> "tool_calls"
    [] OTHER               -> "stop"

\* The piece the upstream makes next.
NextPiece == Len(FlattenSeq([b \in 1..Len(blocks) |-> blocks[b].pieces])) + 1

-----------------------------------------------------------------------------
(* The events.                                                             *)

MessageStart ==
  /\ phase = "created"
  /\ phase' = "content"
  /\ sentRole' = TRUE
  /\ UNCHANGED <<blocks, stopReason, toolIndexByBlock, nextTool, sentText,
                 sentTools, sentFinish, sentDone>>

\* The indices of the calls, with that of one more block.
Indexed(block, index) ==
  [b \in DOMAIN toolIndexByBlock \cup {block} |->
     IF b = block THEN index ELSE toolIndexByBlock[b]]

\* Mutant: the index of every call is that of the first.
ContentBlockStartAt(kind) ==
  /\ phase = "content"
  /\ Len(blocks) < MaxBlocks
  /\ blocks' = Append(blocks, [kind |-> kind, pieces |-> <<>>])
  /\ IF kind = "tool_use"
     THEN /\ toolIndexByBlock' = Indexed(Len(blocks), 0)
          /\ nextTool' = nextTool + 1
          /\ SendCall(Len(blocks), <<>>)
     ELSE UNCHANGED <<toolIndexByBlock, nextTool, sentTools>>
  /\ UNCHANGED <<phase, stopReason, sentRole, sentText, sentFinish, sentDone>>

\* A tool_use block opens a call.
ContentBlockStart(kind) ==
  /\ phase = "content"
  /\ Len(blocks) < MaxBlocks
  /\ blocks' = Append(blocks, [kind |-> kind, pieces |-> <<>>])
  /\ IF kind = "tool_use"
     THEN /\ toolIndexByBlock' = Indexed(Len(blocks), nextTool)
          /\ nextTool' = nextTool + 1
          /\ SendCall(Len(blocks), <<>>)
     ELSE UNCHANGED <<toolIndexByBlock, nextTool, sentTools>>
  /\ UNCHANGED <<phase, stopReason, sentRole, sentText, sentFinish, sentDone>>

\* The chunk for a piece of a block: of the text, or of the arguments of a call;
\* what a thinking block says is left out.
SendPiece(b, d) ==
  \/ /\ blocks[b].kind = "text"
     /\ SendText(d) /\ UNCHANGED sentTools
  \/ /\ blocks[b].kind # "text" /\ b - 1 \in DOMAIN toolIndexByBlock
     /\ SendArgs(toolIndexByBlock[b - 1] + 1, <<d>>) /\ UNCHANGED sentText
  \/ /\ blocks[b].kind # "text" /\ b - 1 \notin DOMAIN toolIndexByBlock
     /\ UNCHANGED <<sentText, sentTools>>

\* text_delta and input_json_delta
ContentBlockDelta ==
  /\ phase = "content"
  /\ blocks # <<>>
  /\ Len(blocks[Len(blocks)].pieces) < MaxPieces
  /\ blocks' = [blocks EXCEPT ![Len(blocks)].pieces = Append(@, NextPiece)]
  /\ SendPiece(Len(blocks), NextPiece)
  /\ UNCHANGED <<phase, stopReason, toolIndexByBlock, nextTool, sentRole,
                 sentFinish, sentDone>>

\* The reason goes to the client at once; [DONE] waits for message_stop.
MessageDelta(stop) ==
  /\ phase = "content"
  /\ phase' = "stopping"
  /\ stopReason' = stop
  /\ sentFinish' = IF stop = "" THEN sentFinish ELSE FinishOf(stop)
  /\ UNCHANGED <<blocks, toolIndexByBlock, nextTool, sentRole, sentText,
                 sentTools, sentDone>>

\* Mutant: the last chunk is always a stop.
MessageStopAgain ==
  /\ phase = "stopping"
  /\ phase' = "stopped"
  /\ SendEnd("stop")
  /\ UNCHANGED <<blocks, stopReason, toolIndexByBlock, nextTool, sentRole,
                 sentText, sentTools>>

MessageStop ==
  /\ phase = "stopping"
  /\ phase' = "stopped"
  /\ SendEnd(sentFinish)
  /\ UNCHANGED <<blocks, stopReason, toolIndexByBlock, nextTool, sentRole,
                 sentText, sentTools>>

\* An error event, which is not looked at, or the end of the connection: [DONE]
\* and no reason beyond what was sent.
Truncated ==
  /\ Cuts /\ ~sentDone
  /\ phase' = "cut"
  /\ SendEnd(sentFinish)
  /\ UNCHANGED <<blocks, stopReason, toolIndexByBlock, nextTool, sentRole,
                 sentText, sentTools>>

Next ==
  \/ MessageStart
  \/ \E kind \in Kinds : ContentBlockStart(kind)
  \/ ContentBlockDelta
  \/ \E stop \in Stops \cup {""} : MessageDelta(stop)
  \/ MessageStop \/ Truncated

Spec == Init /\ [][Next]_vars

-----------------------------------------------------------------------------
(* The message sent whole: anthropicToOpenAI.                              *)

\* What the text, or the calls, have of a block.
TextOf(b) == IF blocks[b].kind = "text" THEN blocks[b].pieces ELSE <<>>

CallOf(b) ==
  IF blocks[b].kind = "tool_use"
  THEN <<[id |-> b - 1, args |-> OrObject(blocks[b].pieces)]>>
  ELSE <<>>

Text == FlattenSeq([b \in 1..Len(blocks) |-> TextOf(b)])

ToolCalls == FlattenSeq([b \in 1..Len(blocks) |-> CallOf(b)])

-----------------------------------------------------------------------------
(* Properties.                                                             *)

\* The chunks add up to what the other caller is answered for the message as
\* far as it has come, although the calls are numbered apart from the blocks,
\* and a whole stream ends with the reason the other caller is given
\* (translate.go:378-388, 395-403).
StreamMatchesAggregate ==
  /\ AddUpTo(Text, ToolCalls)
  /\ phase = "stopped" /\ stopReason # "" => sentFinish = FinishOf(stopReason)

\* A message that was cut off is not called complete: a reason is sent only
\* when the upstream gave one (translate.go:405-414).
NoReasonInvented ==
  sentFinish # "none" => stopReason # "" /\ phase \in {"stopping", "stopped", "cut"}
=============================================================================
