--------------------------------- MODULE Chat ---------------------------------
(***************************************************************************)
(* Chat completions: what goes to a backend and what comes back.  One      *)
(* behaviour is a conversation that the providers translate, with the      *)
(* bodies its accounts are sent (AccountBodies); or one answer of whichever*)
(* backend was routed to, as a streaming client and as any other client    *)
(* gets it, by the translators of all the providers over one client's      *)
(* chunks; or one stream of server-sent events, which they read.           *)
(***************************************************************************)
EXTENDS ChatChunks

CONSTANTS
  Items, Named,              \* Codex: see CodexStream
  MaxPieces,                 \* bound: pieces of a text or of a call's arguments
  MaxBlocks,                 \* bound: Claude: content blocks of a message
  MaxParts,                  \* bound: Gemini: parts of a response
  MaxFrames, MaxDeltas,      \* bounds: Grok and Cursor: frames, deltas in one
  MaxLines, Values,          \* bound: lines of a stream; what they may hold
  MaxMessages, MaxCalls, MaxTried, MaxAttempts,   \* bounds: see AccountBodies
  Cuts                       \* the upstream may fail, or be cut off

VARIABLES
  answering,                                             \* the backend
  name, pieces, opened, closed, codexEnded, text, args, order, codexFinish,
  respText,                                              \* Codex
  phase, blocks, stopReason, toolIndexByBlock, nextTool, \* Claude
  parts, finishReason, ended, toolIndex, finish,         \* Gemini
  backend, textFrames, textEnded,                        \* Grok and Cursor
  lines, atEnd, event, data, frames,                     \* the reader
  messages, called, pending, claudeSystem, claudeTurns, geminiSystem,
  geminiTurns, toolNames, instructions, input, surface, body, asked, sent
                                                         \* the requests

Codex  == INSTANCE CodexStream  WITH ended <- codexEnded, finish <- codexFinish
Claude == INSTANCE ClaudeStream
Gemini == INSTANCE GeminiStream
Text   == INSTANCE TextStream   WITH frames <- textFrames, ended <- textEnded
Reader == INSTANCE SseFrames
Bodies == INSTANCE AccountBodies

ASSUME ChatAssumption == Codex!StreamAssumption /\ Bodies!TranslationAssumption

codexVars  == <<name, pieces, opened, closed, codexEnded, text, args, order,
                codexFinish, respText>>
claudeVars == <<phase, blocks, stopReason, toolIndexByBlock, nextTool>>
geminiVars == <<parts, finishReason, ended, toolIndex, finish>>
textVars   == <<backend, textFrames, textEnded>>
readerVars == <<lines, atEnd, event, data, frames>>
bodyVars   == <<messages, called, pending, claudeSystem, claudeTurns, geminiSystem,
                geminiTurns, toolNames, instructions, input, surface, body, asked,
                sent>>
vars == <<answering, codexVars, claudeVars, geminiVars, textVars, readerVars,
          bodyVars, sentVars>>

Answering == {"codex", "claude", "gemini", "text", "reader", "nobody"}

Init ==
  /\ answering \in Answering
  /\ SentNothing(answering # "claude")
  /\ Codex!CodexInit /\ (answering # "codex" => name = CHOOSE n \in Named : TRUE)
  /\ Claude!ClaudeInit
  /\ Gemini!GeminiInit
  /\ Text!TextInit /\ (answering # "text" => backend = "grok")
  /\ Reader!Init
  /\ Bodies!Init
  /\ answering # "nobody" =>
       surface = "codex responses" /\ ~body.fingerprint

CodexAnswers ==
  /\ answering = "codex"
  /\ Codex!Next
  /\ UNCHANGED <<answering, claudeVars, geminiVars, textVars, readerVars,
                 bodyVars>>

ClaudeAnswers ==
  /\ answering = "claude"
  /\ Claude!Next
  /\ UNCHANGED <<answering, codexVars, geminiVars, textVars, readerVars,
                 bodyVars>>

GeminiAnswers ==
  /\ answering = "gemini"
  /\ Gemini!Next
  /\ UNCHANGED <<answering, codexVars, claudeVars, textVars, readerVars,
                 bodyVars>>

TextAnswers ==
  /\ answering = "text"
  /\ Text!Next
  /\ UNCHANGED <<answering, codexVars, claudeVars, geminiVars, readerVars,
                 bodyVars>>

StreamIsRead ==
  /\ answering = "reader"
  /\ Reader!Next
  /\ UNCHANGED <<answering, codexVars, claudeVars, geminiVars, textVars, bodyVars,
                 sentVars>>

\* Nobody answers yet: the request is translated and tried.
RequestIsMade ==
  /\ answering = "nobody"
  /\ Bodies!Next
  /\ UNCHANGED <<answering, codexVars, claudeVars, geminiVars, textVars, readerVars,
                 sentVars>>

Next ==
  \/ CodexAnswers \/ ClaudeAnswers \/ GeminiAnswers \/ TextAnswers
  \/ StreamIsRead \/ RequestIsMade

Spec == Init /\ [][Next]_vars

-----------------------------------------------------------------------------
(* Properties.                                                             *)

\* The types of whoever answers.
TypeOK ==
  /\ answering \in Answering
  /\ answering = "codex"  => Codex!TypeOK
  /\ answering = "claude" => Claude!TypeOK
  /\ answering = "gemini" => Gemini!TypeOK
  /\ answering = "text"   => Text!TypeOK
  /\ answering = "reader" => Reader!TypeOK
  /\ answering = "nobody" => Bodies!BodiesTypeOK

\* What the upstream said is whole: the arguments of a finished call, once,
\* however Codex names the items and repeats them (CodexStream); and the text of
\* Grok and Cursor, however it is batched in frames (TextStream).
AnswerWhole ==
  /\ answering = "codex" => Codex!ArgumentsWhole
  /\ answering = "text"  => Text!NothingTruncated

\* A streaming client and another one are told the same: the same text, the
\* same calls at the same index with the same arguments (each translator).
StreamMatchesAggregate ==
  /\ answering = "codex"  => Codex!StreamMatchesAggregate
  /\ answering = "claude" => Claude!StreamMatchesAggregate
  /\ answering = "gemini" => Gemini!StreamMatchesAggregate

\* The finish_reason says what the upstream did: an answer that the limit or a
\* filter cut short is never called complete, calls are announced as such
\* (CodexStream, GeminiStream), and no reason is made up (ClaudeStream).
ReasonFits ==
  /\ answering = "codex"  => Codex!ReasonFits
  /\ answering = "gemini" => Gemini!CutShortIsSaid
  /\ answering = "claude" => Claude!NoReasonInvented

\* The frames are those of the stream (SseFrames).
FramesOfTheStream == answering = "reader" => Reader!FramesOfTheStream

\* Whatever the upstream does, what is written is the legal prefix of one
\* answer: chunks only add to what was sent, nothing follows the finish_reason
\* but [DONE], and nothing [DONE]; content comes after the role.  Every
\* translator implements this promise (ChatChunks).
ChunkPromise == Promise
-----------------------------------------------------------------------------
(* Of the requests.  Each is stated, with its reason, where it is defined.  *)

\* Whatever the client sends, in whatever order of roles, the upstream accepts
\* the turns: user and assistant alternate, calls are answered in the turn after
\* theirs, all together, and no assistant without content goes to Anthropic
\* (ChatTranslation).
TurnsAccepted == Bodies!TurnsAccepted

\* Claude, Gemini and Codex are told the whole conversation, nothing twice and in
\* the client's order; Gemini, Codex and Cursor are told the instructions, once
\* (ChatTranslation).
ConversationKept == Bodies!ConversationKept /\ Bodies!InstructionsKept

\* A key is sent what the client asked, a login what its own CLI would send,
\* whoever was tried before (AccountBodies).
EachGetsItsBody == Bodies!EachGetsItsBody
=============================================================================
