--------------------------- MODULE ChatTranslation ---------------------------
(***************************************************************************)
(* What each provider makes of an OpenAI conversation: the loops over      *)
(* req.Messages of openaiToAnthropic (claude/translate.go),                *)
(* openaiToGeminiRequest (gemini/translate.go) and openaiToCodex           *)
(* (codex/translate.go), and Cursor's buildMessages.  Each action is the   *)
(* next message of the client, with what every translator does on it: a    *)
(* model and its client may be served by any of them.                      *)
(*                                                                         *)
(* A text or an image is known by the number of its message, a call and    *)
(* its result by the number of the call.                                   *)
(***************************************************************************)
EXTENDS Integers, Sequences, FiniteSets, SequencesExt

CONSTANTS
  MaxMessages,     \* bound: messages of a conversation
  MaxCalls         \* bound: calls the assistant makes in it

TranslationAssumption == MaxMessages \in Nat /\ MaxCalls \in Nat

VARIABLES
  messages,        \* client: the conversation so far
  called,          \* client: calls made so far
  pending,         \* client: calls whose result is not in yet
  claudeSystem,    \* openaiToAnthropic: systemTexts
  claudeTurns,     \* openaiToAnthropic: messages
  geminiSystem,    \* openaiToGeminiRequest: systemTexts
  geminiTurns,     \* openaiToGeminiRequest: contents
  toolNames,       \* openaiToGeminiRequest: the calls whose name is known
  instructions,    \* openaiToCodex: instructions
  input            \* openaiToCodex: input

client      == <<messages, called, pending>>
systems     == <<claudeSystem, geminiSystem, instructions>>
translators == <<claudeTurns, geminiTurns, toolNames, input>>
chatVars    == <<client, systems, translators>>

SystemRoles == {"system", "developer"}
Roles       == SystemRoles \cup {"user", "assistant", "tool"}

\* A text; parts, one a text and one not (an image, or the refusal of an
\* assistant, which Claude is sent as an image); or nothing.
Contents == {"text", "parts", "empty"}

Item(k, n) == [kind |-> k, of |-> n]
TurnItems == [kind : {"text", "image", "blank", "call", "result"}, of : Nat]
Turns == [role : {"user", "assistant"}, items : Seq(TurnItems)]

\* A message with the calls it makes, or the call it has the result of.
Message(role, content, calls) ==
  [role |-> role, content |-> content, calls |-> calls]
Messages == [role : Roles, content : Contents, calls : Seq(Nat)]

TypeOK ==
  /\ messages     \in Seq(Messages)
  /\ called       \in 0..MaxCalls
  /\ pending      \subseteq 1..called
  /\ claudeSystem \in Seq(Nat)
  /\ claudeTurns  \in Seq(Turns)
  /\ geminiSystem \in Seq(Nat)
  /\ geminiTurns  \in Seq(Turns)
  /\ toolNames    \subseteq 1..called
  /\ instructions \in Seq(Nat)
  /\ input        \in Seq(TurnItems)

ChatInit ==
  /\ messages     = <<>>
  /\ called       = 0
  /\ pending      = {}
  /\ claudeSystem = <<>>
  /\ claudeTurns  = <<>>
  /\ geminiSystem = <<>>
  /\ geminiTurns  = <<>>
  /\ toolNames    = {}
  /\ instructions = <<>>
  /\ input        = <<>>

-----------------------------------------------------------------------------
(* The translators.                                                        *)

\* The number of the message that comes next.
NextNumber == Len(messages) + 1

\* Mutant: every message is a turn of its own.
PushAlways(turns, role, items) == Append(turns, [role |-> role, items |-> items])

\* push: a turn of the same role goes on.
Push(turns, role, items) ==
  IF turns # <<>> /\ turns[Len(turns)].role = role
  THEN [turns EXCEPT ![Len(turns)].items = @ \o items]
  ELSE Append(turns, [role |-> role, items |-> items])

\* pushMerged: an assistant that says nothing is no turn.
PushMerged(turns, role, items) ==
  IF items = <<>> /\ role = "assistant" THEN turns ELSE Push(turns, role, items)

\* normalizeContent: the text, the parts, or no blocks at all.
NormalizeContent(content, n) ==
  CASE content = "text"  -> <<Item("text", n)>>
    [] content = "parts" -> <<Item("text", n), Item("image", n)>>
    [] OTHER             -> <<>>

\* contentParts: nothing is an empty text.
ContentParts(content, n) ==
  IF content = "empty" THEN <<Item("blank", n)>> ELSE NormalizeContent(content, n)

\* extractText: the texts alone.
Said(content, n) == IF content = "empty" THEN <<>> ELSE <<Item("text", n)>>

Calls(cs) == [k \in 1..Len(cs) |-> Item("call", cs[k])]

\* Gemini's parts of an assistant: an empty text rather than none.
OrBlank(items, n) == IF items = <<>> THEN <<Item("blank", n)>> ELSE items

\* The result of a call is under the name of the call, if it is known.
Result(c, names) == IF c \in names THEN Item("result", c) ELSE Item("result", 0)

-----------------------------------------------------------------------------
(* The messages of a conversation: after a message with calls come the     *)
(* results of all of them.                                                 *)

Add(m) ==
  /\ Len(messages) < MaxMessages
  /\ messages' = Append(messages, m)

\* Claude takes the instructions only as a string.
SystemMessage(role, content) ==
  /\ pending = {}
  /\ Add(Message(role, content, <<>>))
  /\ claudeSystem' = IF content = "text" THEN Append(claudeSystem, NextNumber) ELSE claudeSystem
  /\ geminiSystem' = Append(geminiSystem, NextNumber)
  /\ instructions' = Append(instructions, NextNumber)
  /\ UNCHANGED <<called, pending, translators>>

UserMessage(content) ==
  /\ pending = {}
  /\ Add(Message("user", content, <<>>))
  /\ claudeTurns' = PushMerged(claudeTurns, "user", NormalizeContent(content, NextNumber))
  /\ geminiTurns' = Push(geminiTurns, "user", ContentParts(content, NextNumber))
  /\ input'       = input \o ContentParts(content, NextNumber)
  /\ UNCHANGED <<called, pending, systems, toolNames>>

\* Mutant: the calls come before what is said.
AssistantMessageCallsFirst(content, n) ==
  LET calls  == [k \in 1..n |-> called + k]
      said   == Said(content, NextNumber)
      blocks == NormalizeContent(content, NextNumber)
  IN  /\ pending = {}
      /\ called + n <= MaxCalls
      /\ Add(Message("assistant", content, calls))
      /\ called'      = called + n
      /\ pending'     = called + 1..called + n
      /\ claudeTurns' = PushMerged(claudeTurns, "assistant", Calls(calls) \o blocks)
      /\ toolNames'   = toolNames \cup (called + 1..called + n)
      /\ geminiTurns' = Push(geminiTurns, "assistant", OrBlank(said \o Calls(calls), NextNumber))
      /\ input'       = input \o said \o Calls(calls)
      /\ UNCHANGED systems

\* The assistant says something, makes n calls, both or neither.
AssistantMessage(content, n) ==
  LET calls  == [k \in 1..n |-> called + k]
      said   == Said(content, NextNumber)
      blocks == NormalizeContent(content, NextNumber)
  IN  /\ pending = {}
      /\ called + n <= MaxCalls
      /\ Add(Message("assistant", content, calls))
      /\ called'      = called + n
      /\ pending'     = called + 1..called + n
      /\ claudeTurns' = PushMerged(claudeTurns, "assistant", blocks \o Calls(calls))
      /\ toolNames'   = toolNames \cup (called + 1..called + n)
      /\ geminiTurns' = Push(geminiTurns, "assistant", OrBlank(said \o Calls(calls), NextNumber))
      /\ input'       = input \o said \o Calls(calls)
      /\ UNCHANGED systems

\* The result of a call, in any order, is said by the user.
ToolMessage(c) ==
  /\ c \in pending
  /\ Add(Message("tool", "text", <<c>>))
  /\ pending'     = pending \ {c}
  /\ claudeTurns' = PushMerged(claudeTurns, "user", <<Item("result", c)>>)
  /\ geminiTurns' = Push(geminiTurns, "user", <<Result(c, toolNames)>>)
  /\ input'       = Append(input, Item("result", c))
  /\ UNCHANGED <<called, systems, toolNames>>

ChatNext ==
  \/ \E role \in SystemRoles, content \in {"text", "parts"} : SystemMessage(role, content)
  \/ \E content \in Contents : UserMessage(content)
  \/ \E content \in Contents, n \in 0..2 : AssistantMessage(content, n)
  \/ \E c \in pending : ToolMessage(c)

ChatSpec == ChatInit /\ [][ChatNext]_chatVars

-----------------------------------------------------------------------------
(* The one that folds the whole conversation at once.                      *)

\* The positions of the messages a predicate holds of.
Where(Test(_)) ==
  FlattenSeq([n \in 1..Len(messages) |-> IF Test(messages[n]) THEN <<n>> ELSE <<>>])

IsSystem(m) == m.role \in SystemRoles
SystemTexts == Where(IsSystem)

\* The k-th message of Cursor, the first of the user, has the instructions.
Injected(ns, k) ==
  /\ SystemTexts # <<>>
  /\ messages[ns[k]].role # "assistant"
  /\ \A j \in 1..k - 1 : messages[ns[j]].role = "assistant"

\* buildMessages: of every other message the text alone, without its images and
\* calls; a tool's is the user's.
CursorMessages ==
  LET ns == Where(LAMBDA m : ~IsSystem(m))
  IN  [k \in 1..Len(ns) |->
         [role   |-> IF messages[ns[k]].role = "assistant" THEN "assistant" ELSE "user",
          text   |-> Said(messages[ns[k]].content, ns[k]),
          system |-> Injected(ns, k)]]

-----------------------------------------------------------------------------
(* Properties.                                                             *)

Alternate(turns) == \A t \in 1..Len(turns) - 1 : turns[t].role # turns[t + 1].role

\* The turns of the user and the assistant alternate, whatever messages the
\* client sends and however many of one role in a row: both upstreams refuse
\* a conversation that does not (claude/translate.go:147-156,
\* gemini/translate.go:161-167).
TurnsAlternate == Alternate(claudeTurns) /\ Alternate(geminiTurns)

CallsIn(turn)   == {item.of : item \in {i \in Range(turn.items) : i.kind = "call"}}
ResultsIn(turn) == {item.of : item \in {i \in Range(turn.items) : i.kind = "result"}}

\* The results of all the calls of a turn open the turn after it, and nothing
\* comes before them.
Answered(turns) ==
  \A t \in 1..Len(turns) :
    CallsIn(turns[t]) # {} =>
      /\ turns[t].role = "assistant"
      /\ t < Len(turns)
      /\ LET next == turns[t + 1]
             n    == Cardinality(CallsIn(turns[t]))
         IN  /\ ResultsIn(next) = CallsIn(turns[t])
             /\ \A k \in 1..n : next.items[k].kind = "result"

\* When all the results are in, every call is answered in the turn after the
\* one it was made in, those made in parallel together and ahead of any text;
\* Anthropic refuses anything else.  For Gemini, under the name of the call.
CallsAnswered == pending = {} => Answered(claudeTurns) /\ Answered(geminiTurns)

Spoken(items) ==
  FlattenSeq([k \in 1..Len(items) |->
                IF items[k].kind = "blank" THEN <<>> ELSE <<items[k]>>])

Flat(turns) == Spoken(FlattenSeq([t \in 1..Len(turns) |-> turns[t].items]))

\* What the client said in the n-th message, for an upstream that is shown what
\* is not a text in the messages of some roles.
ContentOf(n, shown) ==
  LET m == messages[n]
  IN  CASE IsSystem(m)      -> <<>>
        [] m.role = "tool"  -> <<Item("result", m.calls[1])>>
        [] m.role \in shown -> NormalizeContent(m.content, n) \o Calls(m.calls)
        [] OTHER            -> Said(m.content, n) \o Calls(m.calls)

Conversation(shown) ==
  FlattenSeq([n \in 1..Len(messages) |-> ContentOf(n, shown)])

\* Claude, Gemini and Codex are told the whole conversation, its texts, images,
\* calls and results, nothing twice and in the client's order, however the
\* messages were merged; but for what is not a text of an assistant, which is
\* left out for Gemini and Codex.  Nothing of the kind holds of Cursor and Grok,
\* which are told texts only (cursor.go:103-106, protocol.go:49-52).
ConversationKept ==
  /\ Flat(claudeTurns) = Conversation({"user", "assistant"})
  /\ Flat(geminiTurns) = Conversation({"user"})
  /\ Spoken(input)     = Conversation({"user"})

\* An assistant that said nothing, as a client's history has it after a call
\* that failed, does not become a message without content, which Anthropic
\* refuses (claude/translate.go:144-146).
AssistantTurnsSaySomething ==
  \A t \in 1..Len(claudeTurns) :
    claudeTurns[t].role = "assistant" => claudeTurns[t].items # <<>>

\* What the upstreams ask of a conversation.
TurnsAccepted == TurnsAlternate /\ CallsAnswered /\ AssistantTurnsSaySomething

\* The instructions of the system and of developers reach the model: all of
\* them, in order, with Codex and Gemini; with Cursor, which has no role for
\* them, exactly once, in the first message of the user, if there is one
\* (cursor.go:146-179).  Claude is not told those that come as parts: see
\* SystemMessage.
InstructionsKept ==
  /\ instructions = SystemTexts /\ geminiSystem = SystemTexts
  /\ LET told == {k \in DOMAIN CursorMessages : CursorMessages[k].system}
     IN  IF SystemTexts # <<>> /\ \E k \in DOMAIN CursorMessages : CursorMessages[k].role = "user"
         THEN Cardinality(told) = 1
         ELSE told = {}
=============================================================================
