---------------------------- MODULE AccountBodies ----------------------------
(***************************************************************************)
(* The body each account is sent when one request goes from account to     *)
(* account (relay.WithAccountRetry): what the closures of Claude's         *)
(* ChatCompletion and native (claude/claude.go) and Codex's ChatCompletion *)
(* and Responses (codex/codex.go) make, attempt after attempt, of the one  *)
(* body they share.  A login of a subscription is sent a body that looks   *)
(* like its own CLI's; an API key is sent what the client asked.           *)
(*                                                                         *)
(* The chat surfaces start from the conversation of ChatTranslation.       *)
(***************************************************************************)
EXTENDS ChatTranslation

CONSTANTS
  MaxAttempts,     \* bound: accounts tried
  MaxTried         \* bound: messages of a conversation that is tried

VARIABLES
  surface,         \* what the client called, and who serves it
  body,            \* the body the attempts share
  asked,           \* the body as it was before the first attempt
  sent             \* the attempts: the kind of the account and its body

bodyVars == <<surface, body, asked, sent>>
vars     == <<chatVars, bodyVars>>

Surfaces == {"claude chat", "claude messages", "codex chat", "codex responses"}
Kinds    == {"login", "key"}

\* The system of an Anthropic body: absent, a string or an array of blocks.  A
\* block is the identity of Claude Code or the client's own.
Blocks  == {"identity", "own"}
Systems == {[form |-> "none", blocks |-> <<>>]}
           \cup {[form |-> "string", blocks |-> <<b>>] : b \in Blocks}
           \cup {[form |-> "array",  blocks |-> s] : s \in BoundedSeq(Blocks, 2)}
NoSystem == [form |-> "none", blocks |-> <<>>]

\* fingerprint: the fields that tell who the client's user is are there;
\* translated: it is openaiToCodex's.
Body(system, fingerprint, translated) ==
  [system |-> system, fingerprint |-> fingerprint, translated |-> translated]

IsBody(b) ==
  /\ b.system.form \in {"none", "string", "array"}
  /\ b.system.blocks \in Seq(Blocks)
  /\ b.fingerprint \in BOOLEAN /\ b.translated \in BOOLEAN

BodiesTypeOK ==
  /\ TypeOK
  /\ surface \in Surfaces
  /\ IsBody(body) /\ IsBody(asked)
  /\ \A a \in 1..Len(sent) : sent[a].kind \in Kinds /\ IsBody(sent[a].body)

\* What a client of a native surface may send; a chat starts with nothing.
Init ==
  /\ ChatInit
  /\ surface \in Surfaces
  /\ \E system \in Systems, f \in BOOLEAN : body = Body(system, f, FALSE)
  /\ surface # "claude messages" => body.system = NoSystem
  /\ surface = "claude chat" => ~body.fingerprint
  /\ asked = body
  /\ sent  = <<>>

-----------------------------------------------------------------------------
\* ensureIdentitySystem: an array that has the identity first.
EnsureIdentitySystem(system) ==
  [form   |-> "array",
   blocks |-> IF system.blocks # <<>> /\ Head(system.blocks) = "identity"
              THEN system.blocks
              ELSE <<"identity">> \o system.blocks]

\* oauthPatch, of a copy.
OauthPatch(b) ==
  [b EXCEPT !.fingerprint = FALSE, !.system = EnsureIdentitySystem(@)]

\* stripFingerprint
StripFingerprint(b) == [b EXCEPT !.fingerprint = FALSE]

\* The body of an attempt on an account of a kind.
Payload(kind) ==
  IF kind = "key" THEN body
  ELSE CASE surface = "codex chat"      -> [StripFingerprint(body) EXCEPT !.translated = TRUE]
         [] surface = "codex responses" -> StripFingerprint(body)
         [] OTHER                       -> OauthPatch(body)

\* The next message of the conversation; the translation's system is an array
\* of one block.
Converse ==
  /\ surface \in {"claude chat", "codex chat"}
  /\ sent = <<>>
  /\ ChatNext
  /\ body' = IF surface = "claude chat" /\ claudeSystem' # <<>>
             THEN [body EXCEPT !.system = [form |-> "array", blocks |-> <<"own">>]]
             ELSE body
  /\ asked' = body'
  /\ UNCHANGED <<surface, sent>>

\* Mutant: the body is patched in place, not its copy.
AttemptInPlace(kind) ==
  /\ Len(sent) < MaxAttempts
  /\ surface \in {"claude chat", "codex chat"} => Len(messages) \in 1..MaxTried
  /\ sent' = Append(sent, [kind |-> kind, body |-> Payload(kind)])
  /\ body' = Payload(kind)
  /\ UNCHANGED <<chatVars, surface, asked>>

\* Another account is tried: the shared body is not changed.
Attempt(kind) ==
  /\ Len(sent) < MaxAttempts
  /\ surface \in {"claude chat", "codex chat"} => Len(messages) \in 1..MaxTried
  /\ sent' = Append(sent, [kind |-> kind, body |-> Payload(kind)])
  /\ UNCHANGED <<chatVars, surface, body, asked>>

Next ==
  \/ Converse
  \/ \E kind \in Kinds : Attempt(kind)

Spec == Init /\ [][Next]_vars

-----------------------------------------------------------------------------
(* Properties.                                                             *)

\* An API key is sent what the client asked, although an attempt on a login
\* came before it: its identity and its missing fields are not passed on
\* (claude.go:139, 190-193, codex.go:194).
KeysGetWhatWasAsked ==
  \A a \in 1..Len(sent) : sent[a].kind = "key" => sent[a].body = asked

\* A login is sent the identity first and once more than the client did, or as
\* often as that if it was first already, then all of the client's own, and no
\* field that tells who its user is, whichever accounts were tried before: "in
\* OAuth mode it automatically injects the Claude Code identity and cleans up
\* the fingerprint" (USAGE.md:133).
LoginsLookGenuine ==
  \A a \in 1..Len(sent) :
    sent[a].kind = "login" =>
      /\ ~sent[a].body.fingerprint
      /\ surface \in {"claude chat", "claude messages"} =>
           LET blocks == sent[a].body.system.blocks
           IN  /\ blocks # <<>> /\ Head(blocks) = "identity"
               /\ asked.system.blocks \in {blocks, Tail(blocks)}
               /\ asked.system.blocks # <<>> /\ Head(asked.system.blocks) = "identity" =>
                    blocks = asked.system.blocks

\* Of one body, each account is sent the one that is its own, however many were
\* tried before it.
EachGetsItsBody == KeysGetWhatWasAsked /\ LoginsLookGenuine
=============================================================================
