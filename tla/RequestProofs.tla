---------------------------- MODULE RequestProofs ----------------------------
(***************************************************************************)
(* Theorems about the requests, for conversations and streams of any       *)
(* length: what each account is sent, what the upstreams ask of the turns, *)
(* that the conversation is kept, and the reader of server-sent events.    *)
(***************************************************************************)
EXTENDS ChatProofs

-----------------------------------------------------------------------------
(* The body each account is sent.                                          *)

SystemTypes == [form : {"none", "string", "array"}, blocks : Seq(Bodies!Blocks)]
BodyTypes   == [system : SystemTypes, fingerprint : BOOLEAN, translated : BOOLEAN]

\* What an account of a kind is sent as long as nobody changes the shared body.
Attempts == {[kind |-> k, body |-> Bodies!Payload(k)] : k \in Bodies!Kinds}

\* Nobody has changed it.
BodiesInv ==
  /\ body \in BodyTypes
  /\ asked = body
  /\ sent \in Seq(Attempts)

LEMMA BodiesInitially == Init => BodiesInv
<1> SUFFICES ASSUME Init PROVE BodiesInv
  OBVIOUS
<1>1. /\ \E system \in Bodies!Systems, f \in BOOLEAN : body = Bodies!Body(system, f, FALSE)
      /\ asked = body /\ sent = <<>>
  BY DEF Init, Bodies!Init
<1>2. PICK system \in Bodies!Systems, f \in BOOLEAN : body = Bodies!Body(system, f, FALSE)
  BY <1>1
<1>3. system \in SystemTypes
  <2>1. CASE system = [form |-> "none", blocks |-> <<>>]
    <3>1. <<>> \in Seq(Bodies!Blocks)
      OBVIOUS
    <3>2. QED
      BY <2>1, <3>1 DEF SystemTypes
  <2>2. CASE system \in {[form |-> "string", blocks |-> <<b>>] : b \in Bodies!Blocks}
    <3>1. PICK b \in Bodies!Blocks : system = [form |-> "string", blocks |-> <<b>>]
      BY <2>2
    <3>2. <<b>> \in Seq(Bodies!Blocks)
      OBVIOUS
    <3>3. QED
      BY <3>1, <3>2 DEF SystemTypes
  <2>3. CASE system \in {[form |-> "array", blocks |-> s] : s \in Bodies!BoundedSeq(Bodies!Blocks, 2)}
    <3>1. PICK s \in Bodies!BoundedSeq(Bodies!Blocks, 2) : system = [form |-> "array", blocks |-> s]
      BY <2>3
    <3>2. s \in SeqOf(Bodies!Blocks, 2)
      BY DEF SeqOf, Bodies!BoundedSeq, Bodies!SeqOf
    <3>3. s \in Seq(Bodies!Blocks)
      BY <3>2, BoundedIsSeq
    <3>4. QED
      BY <3>1, <3>3 DEF SystemTypes
  <2>4. QED
    BY <2>1, <2>2, <2>3 DEF Bodies!Systems
<1>4. body \in BodyTypes
  BY <1>2, <1>3 DEF Bodies!Body, BodyTypes
<1>5. sent \in Seq(Attempts)
  <2>1. <<>> \in Seq(Attempts)
    OBVIOUS
  <2>2. QED
    BY <1>1, <2>1
<1>6. QED
  BY <1>1, <1>4, <1>5 DEF BodiesInv

LEMMA BodiesStep == BodiesInv /\ [Next]_vars => BodiesInv'
<1> SUFFICES ASSUME BodiesInv, [Next]_vars PROVE BodiesInv'
  OBVIOUS
<1>1. CASE Bodies!Converse
  <2>1. /\ sent = <<>> /\ sent' = <<>> /\ asked' = body'
        /\ \/ body' = [body EXCEPT !.system = [form |-> "array", blocks |-> <<"own">>]]
           \/ body' = body
    BY <1>1 DEF Bodies!Converse
  <2>2. body' \in BodyTypes
    <3>1. <<"own">> \in Seq(Bodies!Blocks)
      BY DEF Bodies!Blocks
    <3>2. [form |-> "array", blocks |-> <<"own">>] \in SystemTypes
      BY <3>1 DEF SystemTypes
    <3>3. QED
      BY <2>1, <3>2 DEF BodiesInv, BodyTypes
  <2>3. sent' \in Seq(Attempts')
    <3>1. <<>> \in Seq(Attempts')
      OBVIOUS
    <3>2. QED
      BY <2>1, <3>1
  <2>4. QED
    BY <2>1, <2>2, <2>3 DEF BodiesInv
<1>2. CASE \E kind \in Bodies!Kinds : Bodies!Attempt(kind)
  <2>1. PICK kind \in Bodies!Kinds : Bodies!Attempt(kind)
    BY <1>2
  <2>2. /\ sent' = Append(sent, [kind |-> kind, body |-> Bodies!Payload(kind)])
        /\ surface' = surface /\ body' = body /\ asked' = asked
    BY <2>1 DEF Bodies!Attempt
  <2>3. Attempts' = Attempts
    BY <2>2 DEF Attempts, Bodies!Payload
  <2>4. [kind |-> kind, body |-> Bodies!Payload(kind)] \in Attempts
    BY DEF Attempts
  <2>5. sent' \in Seq(Attempts)
    BY <2>2, <2>4, ElementAdded DEF BodiesInv
  <2>6. QED
    BY <2>2, <2>3, <2>5 DEF BodiesInv
<1>3. CASE UNCHANGED <<surface, body, asked, sent>>
  <2>1. Attempts' = Attempts
    BY <1>3 DEF Attempts, Bodies!Payload
  <2>2. QED
    BY <1>3, <2>1 DEF BodiesInv
<1>4. QED
  BY <1>1, <1>2, <1>3
     DEF Next, vars, bodyVars, CodexAnswers, ClaudeAnswers, GeminiAnswers, TextAnswers, StreamIsRead,
         RequestIsMade, Bodies!Next

\* What a login is sent.
LEMMA LoginBody ==
  ASSUME BodiesInv, NEW sentBody, sentBody = Bodies!Payload("login"),
         NEW shown, shown = sentBody.system.blocks
  PROVE  /\ ~sentBody.fingerprint
         /\ surface \in {"claude chat", "claude messages"} =>
              /\ shown # <<>> /\ Head(shown) = "identity"
              /\ asked.system.blocks \in {shown, Tail(shown)}
              /\ asked.system.blocks # <<>> /\ Head(asked.system.blocks) = "identity" =>
                   shown = asked.system.blocks
<1>1. body \in BodyTypes /\ asked = body /\ body.system \in SystemTypes
  BY DEF BodiesInv, BodyTypes
<1>2. CASE surface = "codex chat"
  <2>1. sentBody = [Bodies!StripFingerprint(body) EXCEPT !.translated = TRUE]
    BY <1>2 DEF Bodies!Payload
  <2>2. QED
    BY <1>1, <1>2, <2>1 DEF BodyTypes, Bodies!StripFingerprint
<1>3. CASE surface = "codex responses"
  <2>1. sentBody = Bodies!StripFingerprint(body)
    BY <1>3 DEF Bodies!Payload
  <2>2. QED
    BY <1>1, <1>3, <2>1 DEF BodyTypes, Bodies!StripFingerprint
<1>4. CASE surface \notin {"codex chat", "codex responses"}
  <2> DEFINE own == body.system.blocks
  <2>1. own \in Seq(Bodies!Blocks)
    BY <1>1 DEF SystemTypes
  <2>2. sentBody = [body EXCEPT !.fingerprint = FALSE,
                                !.system = Bodies!EnsureIdentitySystem(body.system)]
    BY <1>4 DEF Bodies!Payload, Bodies!OauthPatch
  <2>3. ~sentBody.fingerprint /\ sentBody.system = Bodies!EnsureIdentitySystem(body.system)
    BY <1>1, <2>2 DEF BodyTypes
  <2>4. shown = IF own # <<>> /\ Head(own) = "identity" THEN own ELSE <<"identity">> \o own
    <3>1. Bodies!EnsureIdentitySystem(body.system).blocks
            = IF own # <<>> /\ Head(own) = "identity" THEN own ELSE <<"identity">> \o own
      BY DEF Bodies!EnsureIdentitySystem
    <3> HIDE DEF own
    <3>2. QED
      BY <2>3, <3>1
  <2> HIDE DEF own
  <2>5. ("identity" \in Bodies!Blocks) /\ <<"identity">> \in Seq(Bodies!Blocks)
    BY DEF Bodies!Blocks
  <2>6. /\ <<"identity">> \o own # <<>> /\ Head(<<"identity">> \o own) = "identity"
        /\ Tail(<<"identity">> \o own) = own
    BY <2>1, <2>5
  <2>7. QED
    BY <1>1, <2>3, <2>4, <2>6 DEF own
<1>5. QED
  BY <1>2, <1>3, <1>4

\* A key is sent what the client asked, a login what its own CLI would send,
\* whichever accounts were tried before and however many (claude/claude.go,
\* codex/codex.go).
THEOREM EachHasItsBody == Spec => []EachGetsItsBody
<1>1. BodiesInv => EachGetsItsBody
  <2> SUFFICES ASSUME BodiesInv PROVE EachGetsItsBody
    OBVIOUS
  <2>1. ASSUME NEW a \in 1..Len(sent) PROVE sent[a].body = Bodies!Payload(sent[a].kind)
    <3>1. sent[a] \in Attempts
      BY DEF BodiesInv
    <3>2. PICK k \in Bodies!Kinds : sent[a] = [kind |-> k, body |-> Bodies!Payload(k)]
      BY <3>1 DEF Attempts
    <3>3. sent[a].kind = k /\ sent[a].body = Bodies!Payload(k)
      BY <3>2
    <3>4. QED
      BY <3>3
  <2>2. Bodies!KeysGetWhatWasAsked
    <3>1. Bodies!Payload("key") = body
      BY DEF Bodies!Payload
    <3>2. QED
      BY <2>1, <3>1 DEF BodiesInv, Bodies!KeysGetWhatWasAsked
  <2>3. Bodies!LoginsLookGenuine
    <3>1. ASSUME NEW a \in 1..Len(sent), sent[a].kind = "login"
          PROVE  sent[a].body = Bodies!Payload("login")
      BY <2>1, <3>1
    <3>2. QED
      BY <3>1, LoginBody DEF Bodies!LoginsLookGenuine
  <2>4. QED
    BY <2>2, <2>3 DEF EachGetsItsBody, Bodies!EachGetsItsBody
<1>2. Spec => []BodiesInv
  BY BodiesInitially, BodiesStep, PTL DEF Spec
<1>3. QED
  BY <1>1, <1>2, PTL

-----------------------------------------------------------------------------
(* The turns.                                                              *)

\* The calls of a turn are answered by the next, which its results open.
Done(T, t) ==
  Bodies!CallsIn(T[t]) # {} =>
    LET n == Cardinality(Bodies!CallsIn(T[t]))
    IN  /\ t < Len(T)
        /\ Bodies!ResultsIn(T[t + 1]) = Bodies!CallsIn(T[t])
        /\ n \in 1..Len(T[t + 1].items)
        /\ \A k \in 1..n : T[t + 1].items[k].kind = "result"

\* The last turn makes the calls whose results are not in, and none of them is.
Calling(T, p) ==
  /\ T # <<>> /\ Bodies!CallsIn(T[Len(T)]) = p
  /\ \A t \in 1..Len(T) : t < Len(T) => Done(T, t)

\* Some of them are, and are all there is in the last turn.
Returning(T, p) ==
  /\ Len(T) > 1
  /\ LET calls == Bodies!CallsIn(T[Len(T) - 1])
         last  == T[Len(T)]
     IN  /\ last.role = "user"
         /\ p \subseteq calls
         /\ Bodies!ResultsIn(last) = calls \ p
         /\ IsFiniteSet(calls \ p) /\ Cardinality(calls \ p) = Len(last.items)
         /\ \A k \in 1..Len(last.items) : last.items[k].kind = "result"
  /\ \A t \in 1..Len(T) : t # Len(T) - 1 => Done(T, t)

\* What is true of turns in which the calls of p have no result yet.
TurnsInv(T, p) ==
  /\ T \in Seq(Bodies!Turns)
  /\ Bodies!Alternate(T)
  /\ \A t \in 1..Len(T) : Bodies!CallsIn(T[t]) # {} => T[t].role = "assistant"
  /\ IF p = {} THEN \A t \in 1..Len(T) : Done(T, t)
     ELSE Calling(T, p) \/ Returning(T, p)

\* An assistant without content is no turn for Anthropic.
Spoke(T) == \A t \in 1..Len(T) : T[t].role = "assistant" => T[t].items # <<>>

-----------------------------------------------------------------------------
(* What items have in them.                                                *)

\* The calls, or the results, among some items.
KindIn(items, kind) == {item.of : item \in {i \in Range(items) : i.kind = kind}}

LEMMA KindsAre ==
  \A turn : /\ Bodies!CallsIn(turn) = KindIn(turn.items, "call")
            /\ Bodies!ResultsIn(turn) = KindIn(turn.items, "result")
BY DEF Bodies!CallsIn, Bodies!ResultsIn, KindIn, Range, Bodies!Range

LEMMA KindMember ==
  ASSUME NEW T, NEW items \in Seq(T), NEW kind, NEW x
  PROVE  x \in KindIn(items, kind) <=> \E n \in 1..Len(items) : items[n].kind = kind /\ items[n].of = x
<1>1. DOMAIN items = 1..Len(items)
  OBVIOUS
<1>2. ASSUME x \in KindIn(items, kind)
      PROVE  \E n \in 1..Len(items) : items[n].kind = kind /\ items[n].of = x
  <2>1. PICK i \in Range(items) : i.kind = kind /\ x = i.of
    BY <1>2 DEF KindIn
  <2>2. PICK n \in DOMAIN items : i = items[n]
    BY <2>1 DEF Range
  <2>3. QED
    BY <1>1, <2>1, <2>2
<1>3. ASSUME NEW n \in 1..Len(items), items[n].kind = kind, items[n].of = x
      PROVE  x \in KindIn(items, kind)
  <2>1. items[n] \in Range(items)
    BY <1>1 DEF Range
  <2>2. QED
    BY <1>3, <2>1 DEF KindIn
<1>4. QED
  BY <1>2, <1>3

LEMMA KindInBoth ==
  ASSUME NEW T, NEW s \in Seq(T), NEW t \in Seq(T), NEW kind
  PROVE  KindIn(s \o t, kind) = KindIn(s, kind) \cup KindIn(t, kind)
<1>1. s \o t \in Seq(T)
  BY BothElements
<1>2. ASSUME NEW x \in KindIn(s \o t, kind) PROVE x \in KindIn(s, kind) \cup KindIn(t, kind)
  <2>1. PICK n \in 1..Len(s \o t) : (s \o t)[n].kind = kind /\ (s \o t)[n].of = x
    <3> DEFINE u == s \o t
    <3>1. u \in Seq(T) /\ x \in KindIn(u, kind)
      BY <1>1, <1>2
    <3> HIDE DEF u
    <3>2. \E n \in 1..Len(u) : u[n].kind = kind /\ u[n].of = x
      BY <3>1, KindMember
    <3>3. QED
      BY <3>2 DEF u
  <2>2. n \in 1..Len(s) \/ (n - Len(s) \in 1..Len(t) /\ n = Len(s) + (n - Len(s)))
    BY BothElements
  <2>3. CASE n \in 1..Len(s)
    <3>1. (s \o t)[n] = s[n]
      BY <2>3, BothElements
    <3>2. QED
      BY <2>1, <2>3, <3>1, KindMember
  <2>4. CASE n - Len(s) \in 1..Len(t) /\ n = Len(s) + (n - Len(s))
    <3> DEFINE m == n - Len(s)
    <3>1. (s \o t)[n] = t[m]
      BY <2>4, BothElements
    <3> HIDE DEF m
    <3>2. m \in 1..Len(t)
      BY <2>4 DEF m
    <3>3. QED
      BY <2>1, <3>1, <3>2, KindMember
  <2>5. QED
    BY <2>2, <2>3, <2>4
<1>3. ASSUME NEW x \in KindIn(s, kind) PROVE x \in KindIn(s \o t, kind)
  <2>1. PICK n \in 1..Len(s) : s[n].kind = kind /\ s[n].of = x
    BY <1>3, KindMember
  <2>2. n \in 1..Len(s \o t) /\ (s \o t)[n] = s[n]
    BY BothElements
  <2>3. \E m \in 1..Len(s \o t) : (s \o t)[m].kind = kind /\ (s \o t)[m].of = x
    BY <2>1, <2>2
  <2>4. QED
    BY <1>1, <2>3, KindMember
<1>4. ASSUME NEW x \in KindIn(t, kind) PROVE x \in KindIn(s \o t, kind)
  <2>1. PICK n \in 1..Len(t) : t[n].kind = kind /\ t[n].of = x
    BY <1>4, KindMember
  <2>2. Len(s) + n \in 1..Len(s \o t) /\ (s \o t)[Len(s) + n] = t[n]
    BY BothElements
  <2>3. \E m \in 1..Len(s \o t) : (s \o t)[m].kind = kind /\ (s \o t)[m].of = x
    BY <2>1, <2>2
  <2>4. QED
    BY <1>1, <2>3, KindMember
<1>5. QED
  BY <1>2, <1>3, <1>4

LEMMA KindInOne ==
  ASSUME NEW i, NEW kind
  PROVE  KindIn(<<i>>, kind) = IF i.kind = kind THEN {i.of} ELSE {}
<1>1. Range(<<i>>) = {i}
  <2>1. DOMAIN <<i>> = {1} /\ <<i>>[1] = i
    OBVIOUS
  <2>2. QED
    BY <2>1 DEF Range
<1>2. QED
  BY <1>1 DEF KindIn

LEMMA KindInNone ==
  ASSUME NEW T, NEW items \in Seq(T), NEW kind, \A n \in 1..Len(items) : items[n].kind # kind
  PROVE  KindIn(items, kind) = {}
BY KindMember

-----------------------------------------------------------------------------
(* Pushing a message to the turns.                                         *)

LEMMA OtherItems ==
  ASSUME NEW R, NEW P, NEW r \in [role : R, items : P], NEW x
  PROVE  [r EXCEPT !.items = x] = [role |-> r.role, items |-> x]
<1>1. PICK k \in R, p \in P : r = [role |-> k, items |-> p]
  OBVIOUS
<1>2. QED
  BY <1>1

\* The turns to which a message with some items of a role is pushed: the last
\* goes on, or there is one more.
GoesOn(T, U, role, items) ==
  /\ T # <<>> /\ T[Len(T)].role = role
  /\ U \in Seq(Bodies!Turns) /\ Len(U) = Len(T)
  /\ \A t \in 1..Len(T) : t # Len(T) => U[t] = T[t]
  /\ U[Len(T)] = [role |-> role, items |-> T[Len(T)].items \o items]

OneMore(T, U, role, items) ==
  /\ T # <<>> => T[Len(T)].role # role
  /\ U \in Seq(Bodies!Turns) /\ Len(U) = Len(T) + 1
  /\ \A t \in 1..Len(T) : U[t] = T[t]
  /\ U[Len(T) + 1] = [role |-> role, items |-> items]

Pushed(T, U, role, items) == GoesOn(T, U, role, items) \/ OneMore(T, U, role, items)

LEMMA TurnType ==
  ASSUME NEW T \in Seq(Bodies!Turns), NEW t \in 1..Len(T)
  PROVE  /\ T[t] \in Bodies!Turns
         /\ T[t].role \in {"user", "assistant"} /\ T[t].items \in Seq(Bodies!TurnItems)
<1>1. T[t] \in Bodies!Turns
  OBVIOUS
<1>2. QED
  BY <1>1 DEF Bodies!Turns

LEMMA PushIs ==
  ASSUME NEW T \in Seq(Bodies!Turns), NEW role \in {"user", "assistant"},
         NEW items \in Seq(Bodies!TurnItems)
  PROVE  Pushed(T, Bodies!Push(T, role, items), role, items)
<1> DEFINE U == Bodies!Push(T, role, items)
           n == Len(T)
           P == Bodies!TurnItems
<1>1. n \in Nat /\ (T # <<>> => n \in 1..n)
  BY NoLength
<1>2. CASE T # <<>> /\ T[n].role = role
  <2> DEFINE new == [role |-> role, items |-> T[n].items \o items]
  <2>1. T[n] \in [role : {"user", "assistant"}, items : Seq(P)] /\ T[n].items \in Seq(P)
    BY <1>1, <1>2, TurnType DEF Bodies!Turns
  <2>2. [T[n] EXCEPT !.items = T[n].items \o items] = new
    BY <1>2, <2>1, OtherItems
  <2>3. U = [T EXCEPT ![n] = new]
    BY <1>2, <2>2, Zenon DEF Bodies!Push
  <2>4. new \in Bodies!Turns
    <3> DEFINE both == T[n].items \o items
    <3>1. both \in Seq(P)
      BY <2>1, BothElements
    <3> HIDE DEF both
    <3>2. [role |-> role, items |-> both] \in Bodies!Turns
      BY <3>1 DEF Bodies!Turns
    <3>3. QED
      BY <3>2 DEF both
  <2> HIDE DEF new, U
  <2>5. /\ U \in Seq(Bodies!Turns) /\ Len(U) = n /\ U[n] = new
        /\ \A t \in 1..n : t # n => U[t] = T[t]
    BY <1>1, <1>2, <2>3, <2>4, ElementSet
  <2>6. QED
    BY <1>2, <2>5 DEF Pushed, GoesOn, new, U
<1>3. CASE ~(T # <<>> /\ T[n].role = role)
  <2> DEFINE new == [role |-> role, items |-> items]
  <2>1. new \in Bodies!Turns
    BY DEF Bodies!Turns
  <2>2. U = Append(T, new)
    BY <1>3, Zenon DEF Bodies!Push
  <2> HIDE DEF new, U
  <2>3. /\ U \in Seq(Bodies!Turns) /\ Len(U) = n + 1 /\ U[n + 1] = new
        /\ \A t \in 1..n : U[t] = T[t]
    BY <2>1, <2>2, ElementAdded
  <2>4. QED
    BY <1>3, <2>3 DEF Pushed, OneMore, new, U
<1>4. QED
  BY <1>2, <1>3

LEMMA PushAlternates ==
  ASSUME NEW T \in Seq(Bodies!Turns), Bodies!Alternate(T), NEW U, NEW role, NEW items,
         Pushed(T, U, role, items)
  PROVE  Bodies!Alternate(U)
<1>1. Len(T) \in Nat /\ (Len(T) = 0 <=> T = <<>>)
  BY NoLength
<1>2. CASE GoesOn(T, U, role, items)
  <2> SUFFICES ASSUME NEW t \in 1..Len(U) - 1 PROVE U[t].role # U[t + 1].role
    BY DEF Bodies!Alternate
  <2>1. Len(U) = Len(T) /\ t \in 1..Len(T) - 1 /\ t \in 1..Len(T) /\ t # Len(T) /\ t + 1 \in 1..Len(T)
    BY <1>1, <1>2 DEF GoesOn
  <2>2. U[t] = T[t] /\ U[t + 1].role = T[t + 1].role
    BY <1>2, <2>1 DEF GoesOn
  <2>3. QED
    BY <2>1, <2>2 DEF Bodies!Alternate
<1>3. CASE OneMore(T, U, role, items)
  <2> SUFFICES ASSUME NEW t \in 1..Len(U) - 1 PROVE U[t].role # U[t + 1].role
    BY DEF Bodies!Alternate
  <2>1. Len(U) = Len(T) + 1 /\ t \in 1..Len(T)
    BY <1>1, <1>3 DEF OneMore
  <2>2. CASE t = Len(T)
    BY <1>1, <1>3, <2>1, <2>2 DEF OneMore
  <2>3. CASE t # Len(T)
    <3>1. t \in 1..Len(T) - 1 /\ t + 1 \in 1..Len(T)
      BY <1>1, <2>1, <2>3
    <3>2. U[t] = T[t] /\ U[t + 1] = T[t + 1]
      BY <1>3, <2>1, <3>1 DEF OneMore
    <3>3. QED
      BY <3>1, <3>2 DEF Bodies!Alternate
  <2>4. QED
    BY <2>2, <2>3
<1>4. QED
  BY <1>2, <1>3 DEF Pushed

LEMMA KindsGoOn ==
  ASSUME NEW T \in Seq(Bodies!Turns), NEW U, NEW role, NEW items \in Seq(Bodies!TurnItems),
         GoesOn(T, U, role, items), NEW n, n = Len(T)
  PROVE  /\ n \in 1..Len(T) /\ U[n].role = role /\ U[n].items = T[n].items \o items
         /\ T[n].items \in Seq(Bodies!TurnItems)
         /\ Bodies!CallsIn(U[n])   = Bodies!CallsIn(T[n])   \cup KindIn(items, "call")
         /\ Bodies!ResultsIn(U[n]) = Bodies!ResultsIn(T[n]) \cup KindIn(items, "result")
<1>1. n \in 1..Len(T)
  <2>1. Len(T) \in Nat /\ (Len(T) = 0 <=> T = <<>>) /\ T # <<>>
    BY NoLength DEF GoesOn
  <2>2. QED
    BY <2>1
<1>2. T[n].items \in Seq(Bodies!TurnItems)
  BY <1>1, TurnType
<1>3. U[n].role = role /\ U[n].items = T[n].items \o items
  BY DEF GoesOn
<1>4. \A kind : KindIn(T[n].items \o items, kind) = KindIn(T[n].items, kind) \cup KindIn(items, kind)
  BY <1>2, KindInBoth
<1>5. QED
  BY <1>1, <1>2, <1>3, <1>4, KindsAre

Longer(T, U, items) == \A n \in 1..Len(T) : U[n] = T[n] \/ U[n].items = T[n].items \o items

LEMMA TurnsGoOn ==
  ASSUME NEW T, NEW U, NEW role, NEW items, GoesOn(T, U, role, items)
  PROVE  Longer(T, U, items)
<1> SUFFICES ASSUME NEW n \in 1..Len(T) PROVE U[n] = T[n] \/ U[n].items = T[n].items \o items
  BY DEF Longer
<1>1. CASE n = Len(T)
  <2>1. U[n] = [role |-> role, items |-> T[n].items \o items]
    BY <1>1 DEF GoesOn
  <2>2. QED
    BY <2>1
<1>2. CASE n # Len(T)
  BY <1>2 DEF GoesOn
<1>3. QED
  BY <1>1, <1>2

LEMMA LastIsDone ==
  ASSUME NEW T, NEW t, Done(T, t), ~(t < Len(T))
  PROVE  Bodies!CallsIn(T[t]) = {}
BY DEF Done

LEMMA KindsOneMore ==
  ASSUME NEW T \in Seq(Bodies!Turns), NEW U, NEW role, NEW items \in Seq(Bodies!TurnItems),
         OneMore(T, U, role, items), NEW n, n = Len(T) + 1
  PROVE  /\ n \in 1..Len(U) /\ U[n].role = role /\ U[n].items = items
         /\ Bodies!CallsIn(U[n])   = KindIn(items, "call")
         /\ Bodies!ResultsIn(U[n]) = KindIn(items, "result")
<1>1. Len(T) \in Nat /\ Len(U) = Len(T) + 1 /\ U[n] = [role |-> role, items |-> items]
  BY NoLength DEF OneMore
<1>2. QED
  BY <1>1, KindsAre

\* Calls are made by the assistant.
Callers(T) == \A t \in 1..Len(T) : Bodies!CallsIn(T[t]) # {} => T[t].role = "assistant"

LEMMA PushCallers ==
  ASSUME NEW T \in Seq(Bodies!Turns), Callers(T), NEW U, NEW role,
         NEW items \in Seq(Bodies!TurnItems), Pushed(T, U, role, items),
         KindIn(items, "call") # {} => role = "assistant"
  PROVE  Callers(U)
<1>1. CASE GoesOn(T, U, role, items)
  <2> SUFFICES ASSUME NEW t \in 1..Len(U), Bodies!CallsIn(U[t]) # {} PROVE U[t].role = "assistant"
    BY DEF Callers
  <2>1. t \in 1..Len(T)
    BY <1>1 DEF GoesOn
  <2>2. CASE t = Len(T)
    <3>1. U[Len(T)].role = role
      BY <1>1, KindsGoOn
    <3>2. T[Len(T)].role = role /\ (Bodies!CallsIn(T[t]) # {} => T[t].role = "assistant")
      BY <1>1, <2>1 DEF GoesOn, Callers
    <3>3. Bodies!CallsIn(U[Len(T)]) = Bodies!CallsIn(T[Len(T)]) \cup KindIn(items, "call")
      BY <1>1, KindsGoOn
    <3>4. QED
      BY <2>2, <3>1, <3>2, <3>3
  <2>3. CASE t # Len(T)
    BY <1>1, <2>1, <2>3 DEF GoesOn, Callers
  <2>4. QED
    BY <2>2, <2>3
<1>2. CASE OneMore(T, U, role, items)
  <2> SUFFICES ASSUME NEW t \in 1..Len(U), Bodies!CallsIn(U[t]) # {} PROVE U[t].role = "assistant"
    BY DEF Callers
  <2>1. t \in 1..Len(T) \/ t = Len(T) + 1
    BY <1>2, NoLength DEF OneMore
  <2>2. CASE t = Len(T) + 1
    BY <1>2, <2>2, KindsOneMore
  <2>3. CASE t \in 1..Len(T)
    BY <1>2, <2>3 DEF OneMore, Callers
  <2>4. QED
    BY <2>1, <2>2, <2>3
<1>3. QED
  BY <1>1, <1>2 DEF Pushed

\* A turn that is done stays it when the next goes on with no result.
LEMMA DoneStays ==
  ASSUME NEW T \in Seq(Bodies!Turns), NEW U \in Seq(Bodies!Turns), NEW t \in 1..Len(T), Done(T, t),
         Len(T) <= Len(U), U[t] = T[t],
         NEW items \in Seq(Bodies!TurnItems), KindIn(items, "result") = {},
         t < Len(T) => \/ U[t + 1] = T[t + 1]
                       \/ U[t + 1].items = T[t + 1].items \o items
  PROVE  Done(U, t)
<1> SUFFICES ASSUME Bodies!CallsIn(U[t]) # {} PROVE Done(U, t)
  BY DEF Done
<1> DEFINE n == Cardinality(Bodies!CallsIn(T[t]))
           a == T[t + 1].items
           b == U[t + 1].items
<1>1. /\ t < Len(T) /\ Bodies!ResultsIn(T[t + 1]) = Bodies!CallsIn(T[t])
      /\ n \in 1..Len(a) /\ \A k \in 1..n : a[k].kind = "result"
  BY DEF Done
<1>2. /\ t + 1 \in 1..Len(T) /\ t < Len(U)
      /\ a \in Seq(Bodies!TurnItems)
  <2>1. t + 1 \in 1..Len(T) /\ t < Len(U)
    BY <1>1, NoLength
  <2>2. QED
    BY <2>1, TurnType
<1>3. CASE U[t + 1] = T[t + 1]
  BY <1>1, <1>2, <1>3 DEF Done
<1>4. CASE b = a \o items
  <2>1. Bodies!ResultsIn(U[t + 1]) = Bodies!ResultsIn(T[t + 1])
    <3> HIDE DEF a, b
    <3>1. KindIn(b, "result") = KindIn(a, "result") \cup KindIn(items, "result")
      BY <1>2, <1>4, KindInBoth
    <3>2. KindIn(b, "result") = KindIn(a, "result")
      BY <3>1
    <3>3. QED
      BY <3>2, KindsAre DEF a, b
  <2> HIDE DEF a, b, n
  <2>2. Len(b) = Len(a) + Len(items) /\ Len(a) \in Nat /\ Len(items) \in Nat
        /\ \A k \in 1..Len(a) : b[k] = a[k]
    BY <1>2, <1>4, BothElements
  <2>3. n \in 1..Len(b) /\ \A k \in 1..n : b[k].kind = "result"
    <3>1. n \in 1..Len(a)
      BY <1>1
    <3>2. n \in 1..Len(b)
      BY <2>2, <3>1
    <3>3. ASSUME NEW k \in 1..n PROVE b[k].kind = "result"
      <4>1. k \in 1..Len(a)
        BY <2>2, <3>1
      <4>2. b[k] = a[k] /\ a[k].kind = "result"
        BY <1>1, <2>2, <4>1
      <4>3. QED
        BY <4>2
    <3>4. QED
      BY <3>2, <3>3
  <2>4. QED
    BY <1>1, <1>2, <2>1, <2>3 DEF Done, n, b
<1>5. QED
  BY <1>1, <1>3, <1>4

\* What is said when all results are in, with no calls or results of its own.
LEMMA SayKeeps ==
  ASSUME NEW T, TurnsInv(T, {}), NEW U, NEW role, NEW items \in Seq(Bodies!TurnItems),
         Pushed(T, U, role, items), KindIn(items, "call") = {}, KindIn(items, "result") = {}
  PROVE  TurnsInv(U, {})
<1>1. /\ T \in Seq(Bodies!Turns) /\ Bodies!Alternate(T) /\ Callers(T)
      /\ \A t \in 1..Len(T) : Done(T, t)
  BY DEF TurnsInv, Callers
<1>2. Bodies!Alternate(U) /\ Callers(U) /\ U \in Seq(Bodies!Turns)
  BY <1>1, PushAlternates, PushCallers DEF Pushed, GoesOn, OneMore
<1>3. ASSUME NEW t \in 1..Len(U) PROVE Done(U, t)
  <2>0. Len(T) \in Nat
    BY <1>1, NoLength
  <2>1. CASE GoesOn(T, U, role, items)
    <3>1. Len(U) = Len(T) /\ t \in 1..Len(T)
      BY <2>1 DEF GoesOn
    <3>2. CASE t = Len(T)
      <4>0. Done(T, t) /\ ~(t < Len(T))
        BY <1>1, <2>0, <3>1, <3>2
      <4>1. Bodies!CallsIn(T[t]) = {}
        BY <4>0, LastIsDone
      <4>2. Bodies!CallsIn(U[t]) = {}
        <5>1. Bodies!CallsIn(U[t]) = Bodies!CallsIn(T[t]) \cup KindIn(items, "call")
          <6>1. Bodies!CallsIn(U[Len(T)]) = Bodies!CallsIn(T[Len(T)]) \cup KindIn(items, "call")
            BY <1>1, <2>1, KindsGoOn
          <6>2. QED
            BY <3>2, <6>1
        <5>2. QED
          BY <4>1, <5>1
      <4>3. QED
        BY <4>2 DEF Done
    <3>3. CASE t # Len(T)
      <4>1. U[t] = T[t] /\ t + 1 \in 1..Len(T)
        <5>1. t + 1 \in 1..Len(T)
          BY <2>0, <3>1, <3>3
        <5>2. QED
          BY <2>1, <3>1, <3>3, <5>1 DEF GoesOn
      <4>2. U[t + 1] = T[t + 1] \/ U[t + 1].items = T[t + 1].items \o items
        <5>1. Longer(T, U, items)
          BY <2>1, TurnsGoOn
        <5>2. QED
          BY <4>1, <5>1 DEF Longer
      <4>3. Done(T, t) /\ Len(T) <= Len(U)
        BY <1>1, <2>0, <3>1
      <4>4. QED
        BY <1>1, <1>2, <3>1, <4>1, <4>2, <4>3, DoneStays
    <3>4. QED
      BY <3>2, <3>3
  <2>2. CASE OneMore(T, U, role, items)
    <3>1. Len(U) = Len(T) + 1
      BY <2>2 DEF OneMore
    <3>2. CASE t = Len(T) + 1
      <4>1. Bodies!CallsIn(U[t]) = {}
        BY <1>1, <2>2, <3>2, KindsOneMore
      <4>2. QED
        BY <4>1 DEF Done
    <3>3. CASE t # Len(T) + 1
      <4>1. t \in 1..Len(T) /\ U[t] = T[t] /\ Len(T) <= Len(U)
        BY <2>0, <2>2, <3>1, <3>3 DEF OneMore
      <4>2. t < Len(T) => U[t + 1] = T[t + 1]
        BY <2>0, <2>2, <4>1 DEF OneMore
      <4>3. QED
        BY <1>1, <1>2, <4>1, <4>2, DoneStays
    <3>4. QED
      BY <3>2, <3>3
  <2>3. QED
    BY <2>1, <2>2 DEF Pushed
<1>4. QED
  BY <1>2, <1>3 DEF TurnsInv, Callers

\* Calls are made when all results are in.
LEMMA CallKeeps ==
  ASSUME NEW T, TurnsInv(T, {}), NEW U, NEW items \in Seq(Bodies!TurnItems),
         Pushed(T, U, "assistant", items), KindIn(items, "call") # {}, KindIn(items, "result") = {}
  PROVE  TurnsInv(U, KindIn(items, "call"))
<1> DEFINE p == KindIn(items, "call")
<1>1. /\ T \in Seq(Bodies!Turns) /\ Bodies!Alternate(T) /\ Callers(T)
      /\ \A t \in 1..Len(T) : Done(T, t)
  BY DEF TurnsInv, Callers
<1>2. Bodies!Alternate(U) /\ Callers(U) /\ U \in Seq(Bodies!Turns)
  BY <1>1, PushAlternates, PushCallers DEF Pushed, GoesOn, OneMore
<1>3. Len(T) \in Nat /\ Len(U) \in Nat /\ (Len(U) = 0 <=> U = <<>>)
  BY <1>1, <1>2, NoLength
<1>4. Calling(U, p)
  <2>1. CASE GoesOn(T, U, "assistant", items)
    <3>1. Len(U) = Len(T) /\ Len(T) \in 1..Len(T)
      BY <1>1, <2>1, KindsGoOn DEF GoesOn
    <3>2. Bodies!CallsIn(T[Len(T)]) = {}
      <4>1. Done(T, Len(T)) /\ ~(Len(T) < Len(T))
        BY <1>1, <1>3, <3>1
      <4>2. QED
        BY <4>1, LastIsDone
    <3>3. Bodies!CallsIn(U[Len(U)]) = p
      <4>1. Bodies!CallsIn(U[Len(T)]) = Bodies!CallsIn(T[Len(T)]) \cup KindIn(items, "call")
        BY <1>1, <2>1, KindsGoOn
      <4>2. QED
        BY <3>1, <3>2, <4>1
    <3>4. ASSUME NEW t \in 1..Len(U), t < Len(U) PROVE Done(U, t)
      <4>1. U[t] = T[t] /\ t \in 1..Len(T) /\ t + 1 \in 1..Len(T)
        BY <1>3, <2>1, <3>1, <3>4 DEF GoesOn
      <4>2. U[t + 1] = T[t + 1] \/ U[t + 1].items = T[t + 1].items \o items
        <5>1. Longer(T, U, items)
          BY <2>1, TurnsGoOn
        <5>2. QED
          BY <4>1, <5>1 DEF Longer
      <4>3. Done(T, t) /\ Len(T) <= Len(U)
        BY <1>1, <1>3, <3>1, <4>1
      <4>4. QED
        BY <1>1, <1>2, <4>1, <4>2, <4>3, DoneStays
    <3>5. QED
      BY <1>3, <3>1, <3>3, <3>4 DEF Calling
  <2>2. CASE OneMore(T, U, "assistant", items)
    <3>1. Len(U) = Len(T) + 1
      BY <2>2 DEF OneMore
    <3>3. Bodies!CallsIn(U[Len(U)]) = p
      BY <1>1, <2>2, <3>1, KindsOneMore
    <3>4. ASSUME NEW t \in 1..Len(U), t < Len(U) PROVE Done(U, t)
      <4>1. t \in 1..Len(T) /\ U[t] = T[t] /\ Len(T) <= Len(U)
        BY <1>3, <2>2, <3>1, <3>4 DEF OneMore
      <4>2. t < Len(T) => U[t + 1] = T[t + 1]
        BY <1>3, <2>2, <4>1 DEF OneMore
      <4>3. QED
        BY <1>1, <1>2, <4>1, <4>2, DoneStays
    <3>5. QED
      BY <1>3, <3>1, <3>3, <3>4 DEF Calling
  <2>3. QED
    BY <2>1, <2>2 DEF Pushed
<1>5. QED
  BY <1>2, <1>4 DEF TurnsInv, Callers

LEMMA AllReturned ==
  ASSUME NEW T \in Seq(Bodies!Turns), Returning(T, {})
  PROVE  \A t \in 1..Len(T) : Done(T, t)
<1> DEFINE n == Len(T) - 1
           calls == Bodies!CallsIn(T[n])
           last == T[Len(T)]
<1>1. /\ Len(T) > 1 /\ Bodies!ResultsIn(last) = calls \ {}
      /\ IsFiniteSet(calls \ {}) /\ Cardinality(calls \ {}) = Len(last.items)
      /\ \A k \in 1..Len(last.items) : last.items[k].kind = "result"
      /\ \A t \in 1..Len(T) : t # n => Done(T, t)
  BY DEF Returning
<1>2. calls \ {} = calls
  OBVIOUS
<1>3. Len(T) \in Nat /\ n < Len(T) /\ n + 1 = Len(T)
  BY <1>1, NoLength
<1>4. Done(T, n)
  <2> SUFFICES ASSUME calls # {} PROVE Done(T, n)
    BY DEF Done
  <2> HIDE DEF calls, n
  <2>1. Cardinality(calls) \in Nat /\ Cardinality(calls) # 0
    BY <1>1, <1>2, FS_CardinalityType, FS_EmptySet
  <2>2. Cardinality(calls) \in 1..Len(last.items)
    BY <1>1, <1>2, <2>1
  <2>3. /\ n < Len(T) /\ Bodies!ResultsIn(T[n + 1]) = calls
        /\ Cardinality(calls) \in 1..Len(T[n + 1].items)
        /\ \A k \in 1..Cardinality(calls) : T[n + 1].items[k].kind = "result"
    BY <1>1, <1>2, <1>3, <2>2
  <2>4. QED
    BY <2>3 DEF Done, calls
<1> HIDE DEF n
<1>5. QED
  BY <1>1, <1>4

\* A result comes in.
LEMMA ReturnKeeps ==
  ASSUME NEW T, NEW p, TurnsInv(T, p), NEW c \in p, NEW r \in Bodies!TurnItems,
         r.kind = "result", r.of = c, NEW U, Pushed(T, U, "user", <<r>>)
  PROVE  TurnsInv(U, p \ {c})
<1> DEFINE L == Len(T)
           q == p \ {c}
           items == <<r>>
<1>1. /\ T \in Seq(Bodies!Turns) /\ Bodies!Alternate(T) /\ Callers(T)
      /\ Calling(T, p) \/ Returning(T, p)
  BY DEF TurnsInv, Callers
<1>2. items \in Seq(Bodies!TurnItems) /\ Len(items) = 1 /\ items[1] = r
      /\ KindIn(items, "call") = {} /\ KindIn(items, "result") = {c}
  <2>1. items \in Seq(Bodies!TurnItems) /\ Len(items) = 1 /\ items[1] = r
    OBVIOUS
  <2>2. r.kind # "call"
    OBVIOUS
  <2>3. QED
    BY <2>1, <2>2, KindInOne
<1> HIDE DEF items
<1>3. Pushed(T, U, "user", items)
  BY DEF items
<1>4. Bodies!Alternate(U) /\ Callers(U) /\ U \in Seq(Bodies!Turns)
  BY <1>1, <1>2, <1>3, PushAlternates, PushCallers DEF Pushed, GoesOn, OneMore
<1>5. L \in Nat /\ (L = 0 <=> T = <<>>)
  BY <1>1, NoLength
<1>6. CASE Calling(T, p)
  <2>1. L \in 1..L /\ Bodies!CallsIn(T[L]) = p /\ p # {}
        /\ \A t \in 1..L : t < L => Done(T, t)
    BY <1>5, <1>6 DEF Calling
  <2>2. OneMore(T, U, "user", items)
    <3>1. T[L].role = "assistant"
      BY <1>1, <2>1 DEF Callers
    <3>2. QED
      BY <1>3, <3>1 DEF Pushed, GoesOn
  <2> HIDE DEF q
  <2>3. Len(U) = L + 1 /\ Len(U) > 1 /\ Len(U) - 1 = L /\ U[L] = T[L] /\ L <= Len(U)
    BY <1>5, <2>1, <2>2 DEF OneMore
  <2>4. /\ U[L + 1].role = "user" /\ U[L + 1].items = items
        /\ Bodies!ResultsIn(U[L + 1]) = {c} /\ Bodies!CallsIn(U[L + 1]) = {}
    BY <1>1, <1>2, <2>2, KindsOneMore
  <2>5. p \ q = {c} /\ q \subseteq p
    BY DEF q
  <2>6. IsFiniteSet({c}) /\ Cardinality({c}) = 1
    BY FS_Singleton
  <2>7. ASSUME NEW t \in 1..Len(U), t # L PROVE Done(U, t)
    <3>1. CASE t = L + 1
      BY <2>4, <3>1 DEF Done
    <3>2. CASE t # L + 1
      <4>1. t \in 1..L /\ t < L /\ t + 1 \in 1..L
        <5>1. L \in Nat /\ t \in 1..L + 1
          BY <1>5, <2>3
        <5> HIDE DEF L
        <5>2. QED
          BY <2>7, <3>2, <5>1
      <4>2. U[t] = T[t] /\ U[t + 1] = T[t + 1] /\ Done(T, t)
        BY <2>1, <2>2, <4>1 DEF OneMore
      <4>3. <<>> \in Seq(Bodies!TurnItems) /\ KindIn(<<>>, "result") = {}
        <5>1. Range(<<>>) = {}
          BY DEF Range
        <5>2. QED
          BY <5>1 DEF KindIn
      <4>4. QED
        BY <1>1, <1>4, <2>3, <4>1, <4>2, <4>3, DoneStays
    <3>3. QED
      BY <3>1, <3>2
  <2>8. Returning(U, q)
    <3> DEFINE calls == Bodies!CallsIn(U[Len(U) - 1])
               last == U[Len(U)]
    <3>1. calls = p
      BY <2>1, <2>3
    <3>2. last.role = "user" /\ last.items = items /\ Bodies!ResultsIn(last) = {c}
      BY <2>3, <2>4
    <3>3. \A k \in 1..Len(items) : items[k].kind = "result"
      BY <1>2
    <3> HIDE DEF calls, last
    <3>4. /\ last.role = "user"
          /\ q \subseteq calls
          /\ Bodies!ResultsIn(last) = calls \ q
          /\ IsFiniteSet(calls \ q) /\ Cardinality(calls \ q) = Len(last.items)
          /\ \A k \in 1..Len(last.items) : last.items[k].kind = "result"
      BY <1>2, <2>5, <2>6, <3>1, <3>2, <3>3
    <3>5. \A t \in 1..Len(U) : t # Len(U) - 1 => Done(U, t)
      BY <2>3, <2>7
    <3>6. QED
      BY <2>3, <3>4, <3>5 DEF Returning, calls, last
  <2>9. CASE q = {}
    <3>1. \A t \in 1..Len(U) : Done(U, t)
      BY <1>4, <2>8, <2>9, AllReturned
    <3>2. QED
      BY <1>4, <2>9, <3>1 DEF TurnsInv, Callers, q
  <2>10. CASE q # {}
    BY <1>4, <2>8, <2>10 DEF TurnsInv, Callers, q
  <2>11. QED
    BY <2>9, <2>10
<1>7. CASE Returning(T, p)
  <2> DEFINE calls == Bodies!CallsIn(T[L - 1])
             before == T[L].items
             after == U[L].items
  <2>1. /\ L > 1 /\ T[L].role = "user"
        /\ p \subseteq calls
        /\ Bodies!ResultsIn(T[L]) = calls \ p
        /\ IsFiniteSet(calls \ p) /\ Cardinality(calls \ p) = Len(before)
        /\ \A k \in 1..Len(before) : before[k].kind = "result"
        /\ \A t \in 1..L : t # L - 1 => Done(T, t)
    BY <1>7 DEF Returning
  <2>2. GoesOn(T, U, "user", items)
    BY <1>3, <1>5, <2>1 DEF Pushed, OneMore
  <2>3. /\ Len(U) = L /\ L \in 1..L /\ L - 1 \in 1..L /\ U[L - 1] = T[L - 1]
    <3>1. L \in 1..L /\ L - 1 \in 1..L /\ L - 1 # L
      BY <1>5, <2>1
    <3>2. Len(U) = L /\ \A t \in 1..L : t # L => U[t] = T[t]
      BY <2>2 DEF GoesOn
    <3>3. QED
      BY <3>1, <3>2
  <2>4. /\ U[L].role = "user" /\ after = before \o items /\ before \in Seq(Bodies!TurnItems)
        /\ Bodies!CallsIn(U[L]) = Bodies!CallsIn(T[L]) \cup {}
        /\ Bodies!ResultsIn(U[L]) = (calls \ p) \cup {c}
    <3>1. /\ U[L].role = "user" /\ after = before \o items /\ before \in Seq(Bodies!TurnItems)
          /\ Bodies!CallsIn(U[L]) = Bodies!CallsIn(T[L]) \cup KindIn(items, "call")
          /\ Bodies!ResultsIn(U[L]) = Bodies!ResultsIn(T[L]) \cup KindIn(items, "result")
      BY <1>1, <1>2, <2>2, KindsGoOn
    <3> HIDE DEF calls, before, after, L
    <3>2. QED
      BY <1>2, <2>1, <3>1
  <2>5. /\ Len(after) = Len(before) + 1 /\ \A k \in 1..Len(after) : after[k].kind = "result"
    <3>1. /\ Len(before) \in Nat /\ Len(before \o items) = Len(before) + Len(items)
          /\ \A k \in 1..Len(before) : (before \o items)[k] = before[k]
          /\ \A k \in 1..Len(items) : (before \o items)[Len(before) + k] = items[k]
      <4>1. before \in Seq(Bodies!TurnItems) /\ items \in Seq(Bodies!TurnItems)
        BY <1>2, <2>4
      <4> HIDE DEF before
      <4>2. QED
        BY <4>1, BothElements
    <3> HIDE DEF before, after
    <3>2. (before \o items)[Len(before) + 1] = r
      BY <1>2, <3>1
    <3>3. ASSUME NEW k \in 1..Len(after) PROVE after[k].kind = "result"
      <4>1. k \in 1..Len(before) \/ k = Len(before) + 1
        BY <1>2, <2>4, <3>1
      <4>2. CASE k \in 1..Len(before)
        BY <2>1, <2>4, <3>1, <4>2 DEF before
      <4>3. CASE k = Len(before) + 1
        BY <2>4, <3>2, <4>3
      <4>4. QED
        BY <4>1, <4>2, <4>3
    <3>4. QED
      BY <1>2, <2>4, <3>1, <3>3
  <2>6. calls \ q = (calls \ p) \cup {c} /\ q \subseteq calls
    BY <2>1
  <2>7. IsFiniteSet(calls \ q) /\ Cardinality(calls \ q) = Len(after)
    <3> HIDE DEF calls, q, before, after
    <3>1. c \notin calls \ p
      OBVIOUS
    <3>2. IsFiniteSet((calls \ p) \cup {c}) /\ Cardinality((calls \ p) \cup {c}) = Cardinality(calls \ p) + 1
      BY <2>1, <3>1, FS_AddElement
    <3>3. QED
      BY <2>1, <2>5, <2>6, <3>2
  <2>8. ASSUME NEW t \in 1..Len(U), t # L - 1 PROVE Done(U, t)
    <3>1. t \in 1..L /\ Done(T, t)
      BY <2>1, <2>3, <2>8
    <3>2. CASE t = L
      <4>1. Bodies!CallsIn(T[L]) = {}
        <5>1. ~(L < L)
          BY <1>5
        <5>2. QED
          BY <3>1, <3>2, <5>1, LastIsDone
      <4>2. Bodies!CallsIn(U[t]) = {}
        BY <2>4, <3>2, <4>1
      <4>3. QED
        BY <4>2 DEF Done
    <3>3. CASE t # L
      <4>1. t + 1 \in 1..L /\ t + 1 # L /\ U[t] = T[t] /\ L <= Len(U)
        BY <1>5, <2>2, <2>3, <2>8, <3>1, <3>3 DEF GoesOn
      <4>2. U[t + 1] = T[t + 1]
        BY <2>2, <4>1 DEF GoesOn
      <4>3. <<>> \in Seq(Bodies!TurnItems) /\ KindIn(<<>>, "result") = {}
        <5>1. Range(<<>>) = {}
          BY DEF Range
        <5>2. QED
          BY <5>1 DEF KindIn
      <4>4. QED
        BY <1>1, <1>4, <3>1, <4>1, <4>2, <4>3, DoneStays
    <3>4. QED
      BY <3>2, <3>3
  <2> HIDE DEF q
  <2>9. Returning(U, q)
    <3> HIDE DEF calls, before
    <3>1. /\ Bodies!CallsIn(U[L - 1]) = calls /\ U[L].role = "user"
          /\ Bodies!ResultsIn(U[L]) = calls \ q
      BY <2>3, <2>4, <2>6 DEF calls
    <3>2. \A t \in 1..Len(U) : t # L - 1 => Done(U, t)
      BY <2>8
    <3>3. QED
      BY <2>1, <2>3, <2>5, <2>6, <2>7, <3>1, <3>2 DEF Returning, after
  <2>10. CASE q = {}
    <3>1. \A t \in 1..Len(U) : Done(U, t)
      BY <1>4, <2>9, <2>10, AllReturned
    <3>2. QED
      BY <1>4, <2>10, <3>1 DEF TurnsInv, Callers, q
  <2>11. CASE q # {}
    BY <1>4, <2>9, <2>11 DEF TurnsInv, Callers, q
  <2>12. QED
    BY <2>10, <2>11
<1>8. QED
  BY <1>1, <1>6, <1>7

-----------------------------------------------------------------------------
(* The messages.                                                           *)

\* No calls and no results.
Plain(items) ==
  /\ items \in Seq(Bodies!TurnItems)
  /\ \A k \in 1..Len(items) : items[k].kind \in {"text", "image", "blank"}

LEMMA PlainKinds ==
  ASSUME NEW items, Plain(items)
  PROVE  KindIn(items, "call") = {} /\ KindIn(items, "result") = {}
<1>1. \A k \in 1..Len(items) : items[k].kind # "call" /\ items[k].kind # "result"
  BY DEF Plain
<1>2. items \in Seq(Bodies!TurnItems)
  BY DEF Plain
<1>3. QED
  BY <1>1, <1>2, KindInNone

LEMMA PlainOne ==
  ASSUME NEW kind \in {"text", "image", "blank"}, NEW n \in Nat
  PROVE  Plain(<<Bodies!Item(kind, n)>>) /\ Bodies!Item(kind, n) \in Bodies!TurnItems
<1>1. Bodies!Item(kind, n) \in Bodies!TurnItems /\ Bodies!Item(kind, n).kind = kind
  BY DEF Bodies!Item, Bodies!TurnItems
<1>2. QED
  BY <1>1 DEF Plain

LEMMA PlainItems ==
  ASSUME NEW content, NEW n \in Nat
  PROVE  /\ Plain(Bodies!NormalizeContent(content, n))
         /\ Plain(Bodies!ContentParts(content, n))
         /\ Plain(Bodies!Said(content, n))
<1> DEFINE x == Bodies!Item("text", n)
           y == Bodies!Item("image", n)
<1>1. Plain(<<x>>) /\ Plain(<<Bodies!Item("blank", n)>>)
  BY PlainOne
<1>2. Plain(<<>>)
  BY DEF Plain
<1>3. Plain(<<x, y>>)
  <2>1. /\ x \in Bodies!TurnItems /\ y \in Bodies!TurnItems
        /\ x.kind = "text" /\ y.kind = "image"
    BY DEF Bodies!Item, Bodies!TurnItems
  <2> HIDE DEF x, y
  <2>2. <<x, y>> \in Seq(Bodies!TurnItems) /\ Len(<<x, y>>) = 2 /\ <<x, y>>[1] = x /\ <<x, y>>[2] = y
    BY <2>1
  <2>3. \A k \in 1..2 : k = 1 \/ k = 2
    OBVIOUS
  <2>4. \A k \in 1..Len(<<x, y>>) : <<x, y>>[k].kind \in {"text", "image", "blank"}
    BY <2>1, <2>2, <2>3
  <2>5. QED
    BY <2>2, <2>4 DEF Plain
<1> HIDE DEF x, y
<1>4. \/ Bodies!NormalizeContent(content, n) = <<x>>
      \/ Bodies!NormalizeContent(content, n) = <<x, y>>
      \/ Bodies!NormalizeContent(content, n) = <<>>
  BY DEF Bodies!NormalizeContent, x, y
<1>5. Plain(Bodies!NormalizeContent(content, n))
  BY <1>1, <1>2, <1>3, <1>4
<1>6. Plain(Bodies!ContentParts(content, n))
  BY <1>1, <1>5 DEF Bodies!ContentParts
<1>7. Plain(Bodies!Said(content, n))
  BY <1>1, <1>2 DEF Bodies!Said, x
<1>8. QED
  BY <1>5, <1>6, <1>7

\* The numbers of n new calls.
Numbered(from, n) == [k \in 1..n |-> from + k]

LEMMA NumberedCalls ==
  ASSUME NEW from \in Nat, NEW n \in Nat
  PROVE  /\ Numbered(from, n) \in Seq(Nat) /\ Len(Numbered(from, n)) = n
         /\ \A k \in 1..n : Numbered(from, n)[k] = from + k
         /\ n = 0 => Numbered(from, n) = <<>>
<1>1. \A k \in 1..n : from + k \in Nat
  OBVIOUS
<1>2. n = 0 => 1..n = {}
  OBVIOUS
<1>3. QED
  BY <1>1, <1>2 DEF Numbered

LEMMA CallItems ==
  ASSUME NEW from \in Nat, NEW n \in Nat
  PROVE  /\ Bodies!Calls(Numbered(from, n)) \in Seq(Bodies!TurnItems)
         /\ Len(Bodies!Calls(Numbered(from, n))) = n
         /\ \A k \in 1..n : Bodies!Calls(Numbered(from, n))[k] = Bodies!Item("call", from + k)
<1> DEFINE cs == Numbered(from, n)
<1>1. cs \in Seq(Nat) /\ Len(cs) = n /\ \A k \in 1..n : cs[k] = from + k
  BY NumberedCalls
<1> HIDE DEF cs
<1>2. \A k \in 1..n : Bodies!Item("call", cs[k]) \in Bodies!TurnItems
  BY <1>1 DEF Bodies!Item, Bodies!TurnItems
<1>3. /\ Bodies!Calls(cs) \in Seq(Bodies!TurnItems) /\ Len(Bodies!Calls(cs)) = n
      /\ \A k \in 1..n : Bodies!Calls(cs)[k] = Bodies!Item("call", cs[k])
  BY <1>1, <1>2 DEF Bodies!Calls
<1>4. \A k \in 1..n : Bodies!Calls(cs)[k] = Bodies!Item("call", from + k)
  BY <1>1, <1>3
<1>5. QED
  BY <1>3, <1>4 DEF cs

\* They are calls, and all of these.
LEMMA CallKinds ==
  ASSUME NEW from \in Nat, NEW n \in Nat
  PROVE  /\ KindIn(Bodies!Calls(Numbered(from, n)), "call") = from + 1..from + n
         /\ KindIn(Bodies!Calls(Numbered(from, n)), "result") = {}
<1> DEFINE items == Bodies!Calls(Numbered(from, n))
<1>1. items \in Seq(Bodies!TurnItems) /\ Len(items) = n
      /\ \A k \in 1..n : items[k] = Bodies!Item("call", from + k)
  BY CallItems
<1> HIDE DEF items
<1>2. \A k \in 1..n : items[k].kind = "call" /\ items[k].of = from + k
  BY <1>1 DEF Bodies!Item
<1>3. KindIn(items, "result") = {}
  <2>1. \A k \in 1..Len(items) : items[k].kind # "result"
    BY <1>1, <1>2
  <2>2. QED
    BY <1>1, <2>1, KindInNone
<1>4. ASSUME NEW x PROVE x \in KindIn(items, "call") <=> x \in from + 1..from + n
  <2>1. ASSUME x \in KindIn(items, "call") PROVE x \in from + 1..from + n
    <3>1. PICK k \in 1..Len(items) : items[k].kind = "call" /\ items[k].of = x
      BY <1>1, <2>1, KindMember
    <3>2. x = from + k /\ k \in 1..n
      BY <1>1, <1>2, <3>1
    <3>3. QED
      BY <3>2
  <2>2. ASSUME x \in from + 1..from + n PROVE x \in KindIn(items, "call")
    <3>1. x - from \in 1..n /\ from + (x - from) = x
      BY <2>2
    <3>2. \E k \in 1..Len(items) : items[k].kind = "call" /\ items[k].of = x
      <4>1. \A k \in 1..n : k = x - from => items[k].kind = "call" /\ items[k].of = x
        BY <1>2, <3>1
      <4>2. QED
        BY <1>1, <3>1, <4>1
    <3>3. QED
      BY <1>1, <3>2, KindMember
  <2>3. QED
    BY <2>1, <2>2
<1>5. KindIn(items, "call") = from + 1..from + n
  BY <1>4
<1>6. QED
  BY <1>3, <1>5 DEF items

LEMMA PushSpoke ==
  ASSUME NEW T \in Seq(Bodies!Turns), Spoke(T), NEW U, NEW role,
         NEW items \in Seq(Bodies!TurnItems), Pushed(T, U, role, items),
         role = "assistant" => items # <<>>
  PROVE  Spoke(U)
<1>1. CASE GoesOn(T, U, role, items)
  <2> SUFFICES ASSUME NEW t \in 1..Len(U), U[t].role = "assistant" PROVE U[t].items # <<>>
    BY DEF Spoke
  <2>1. t \in 1..Len(T)
    BY <1>1 DEF GoesOn
  <2>2. CASE t = Len(T)
    <3>1. /\ U[Len(T)].role = role /\ U[Len(T)].items = T[Len(T)].items \o items
          /\ T[Len(T)].items \in Seq(Bodies!TurnItems)
      BY <1>1, KindsGoOn
    <3>2. role = "assistant"
      BY <2>2, <3>1
    <3>3. items # <<>>
      BY <3>2
    <3>4. Len(items) > 0 /\ Len(T[Len(T)].items) \in Nat
      BY <3>1, <3>3, NoLength
    <3>5. Len(U[Len(T)].items) > 0
      <4> DEFINE a == T[Len(T)].items
      <4>1. a \in Seq(Bodies!TurnItems) /\ U[Len(T)].items = a \o items /\ Len(a) \in Nat
        BY <3>1, <3>4
      <4> HIDE DEF a
      <4>2. Len(a \o items) = Len(a) + Len(items)
        BY <4>1, BothElements
      <4>3. QED
        BY <3>4, <4>1, <4>2
    <3>6. QED
      BY <2>2, <3>5
  <2>3. CASE t # Len(T)
    BY <1>1, <2>1, <2>3 DEF GoesOn, Spoke
  <2>4. QED
    BY <2>2, <2>3
<1>2. CASE OneMore(T, U, role, items)
  <2> SUFFICES ASSUME NEW t \in 1..Len(U), U[t].role = "assistant" PROVE U[t].items # <<>>
    BY DEF Spoke
  <2>1. t \in 1..Len(T) \/ t = Len(T) + 1
    BY <1>2, NoLength DEF OneMore
  <2>2. CASE t = Len(T) + 1
    BY <1>2, <2>2, KindsOneMore
  <2>3. CASE t \in 1..Len(T)
    BY <1>2, <2>3 DEF OneMore, Spoke
  <2>4. QED
    BY <2>1, <2>2, <2>3
<1>3. QED
  BY <1>1, <1>2 DEF Pushed

-----------------------------------------------------------------------------
(* The conversation.                                                       *)

RequestTypes ==
  /\ messages \in Seq(Bodies!Messages)
  /\ called \in Nat
  /\ pending \subseteq 1..called
  /\ toolNames = 1..called
  /\ input \in Seq(Bodies!TurnItems)

\* Results come in the turn after their calls, ahead of all else.
RequestInv ==
  /\ RequestTypes
  /\ TurnsInv(claudeTurns, pending) /\ Spoke(claudeTurns)
  /\ TurnsInv(geminiTurns, pending)

LEMMA RequestInitially == Init => RequestInv
<1> SUFFICES ASSUME Init PROVE RequestInv
  OBVIOUS
<1>1. /\ messages = <<>> /\ called = 0 /\ pending = {} /\ toolNames = {} /\ input = <<>>
      /\ claudeTurns = <<>> /\ geminiTurns = <<>>
  BY DEF Init, Bodies!Init, Bodies!ChatInit
<1>2. /\ <<>> \in Seq(Bodies!Messages) /\ <<>> \in Seq(Bodies!TurnItems)
      /\ <<>> \in Seq(Bodies!Turns) /\ Len(<<>>) = 0
  OBVIOUS
<1>3. RequestTypes
  <2>1. 1..0 = {} /\ 0 \in Nat
    OBVIOUS
  <2>2. QED
    BY <1>1, <1>2, <2>1 DEF RequestTypes
<1>4. TurnsInv(<<>>, {}) /\ Spoke(<<>>)
  <2>1. 1..Len(<<>>) = {} /\ 1..Len(<<>>) - 1 = {}
    BY <1>2
  <2>2. QED
    BY <1>2, <2>1 DEF TurnsInv, Spoke, Bodies!Alternate
<1>5. QED
  BY <1>1, <1>3, <1>4 DEF RequestInv

\* Only a message of the client changes the conversation.
LEMMA RequestSteps ==
  ASSUME [Next]_vars
  PROVE  Bodies!ChatNext \/ UNCHANGED Bodies!chatVars
<1>1. CASE RequestIsMade
  <2>1. Bodies!Converse => Bodies!ChatNext
    BY DEF Bodies!Converse
  <2>2. (\E kind \in Bodies!Kinds : Bodies!Attempt(kind)) => UNCHANGED Bodies!chatVars
    BY DEF Bodies!Attempt
  <2>3. QED
    BY <1>1, <2>1, <2>2 DEF RequestIsMade, Bodies!Next
<1>2. CASE UNCHANGED bodyVars
  BY <1>2 DEF bodyVars, Bodies!chatVars, Bodies!client, Bodies!systems, Bodies!translators
<1>3. QED
  BY <1>1, <1>2 DEF Next, vars, CodexAnswers, ClaudeAnswers, GeminiAnswers, TextAnswers, StreamIsRead

\* The client's next message.
LEMMA MessageAdded ==
  ASSUME messages \in Seq(Bodies!Messages),
         NEW role \in Bodies!Roles, NEW content \in Bodies!Contents, NEW cs \in Seq(Nat),
         messages' = Append(messages, Bodies!Message(role, content, cs))
  PROVE  messages' \in Seq(Bodies!Messages) /\ Bodies!NextNumber \in Nat
<1>1. Bodies!Message(role, content, cs) \in Bodies!Messages
  BY DEF Bodies!Message, Bodies!Messages
<1>2. Len(messages) \in Nat
  BY NoLength
<1>3. QED
  BY <1>1, <1>2, ElementAdded DEF Bodies!NextNumber

\* What is said without calls, also when it is nothing.
LEMMA SayMerged ==
  ASSUME NEW T, TurnsInv(T, {}), NEW role \in {"user", "assistant"}, NEW items, Plain(items)
  PROVE  /\ TurnsInv(Bodies!Push(T, role, items), {})
         /\ TurnsInv(Bodies!PushMerged(T, role, items), {})
         /\ Spoke(T) => Spoke(Bodies!PushMerged(T, role, items))
<1>1. /\ T \in Seq(Bodies!Turns) /\ items \in Seq(Bodies!TurnItems)
      /\ KindIn(items, "call") = {} /\ KindIn(items, "result") = {}
  BY PlainKinds DEF TurnsInv, Plain
<1>2. Pushed(T, Bodies!Push(T, role, items), role, items)
  BY <1>1, PushIs
<1> DEFINE U == Bodies!Push(T, role, items)
<1> HIDE DEF U
<1>3. Pushed(T, U, role, items)
  BY <1>2 DEF U
<1>4. TurnsInv(U, {})
  BY <1>1, <1>3, SayKeeps
<1>5. \/ Bodies!PushMerged(T, role, items) = T
      \/ /\ role = "assistant" => items # <<>>
         /\ Bodies!PushMerged(T, role, items) = U
  BY DEF Bodies!PushMerged, U
<1>6. Spoke(T) /\ (role = "assistant" => items # <<>>) => Spoke(U)
  BY <1>1, <1>3, PushSpoke
<1>7. QED
  BY <1>4, <1>5, <1>6 DEF U

LEMMA SystemSaid ==
  ASSUME RequestInv, NEW role \in Bodies!SystemRoles, NEW content \in {"text", "parts"},
         Bodies!SystemMessage(role, content)
  PROVE  RequestInv'
<1>1. /\ messages' = Append(messages, Bodies!Message(role, content, <<>>))
      /\ called' = called /\ pending' = pending /\ UNCHANGED Bodies!translators
  BY DEF Bodies!SystemMessage, Bodies!Add
<1>2. messages' \in Seq(Bodies!Messages)
  <2>1. <<>> \in Seq(Nat) /\ role \in Bodies!Roles /\ content \in Bodies!Contents
    BY DEF Bodies!Roles, Bodies!Contents
  <2>2. QED
    BY <1>1, <2>1, MessageAdded DEF RequestInv, RequestTypes
<1>3. QED
  BY <1>1, <1>2 DEF RequestInv, RequestTypes, Bodies!translators

LEMMA UserSaid ==
  ASSUME RequestInv, NEW content \in Bodies!Contents, Bodies!UserMessage(content)
  PROVE  RequestInv'
<1> DEFINE n    == Bodies!NextNumber
           mine == Bodies!NormalizeContent(content, n)
           part == Bodies!ContentParts(content, n)
<1>1. /\ messages' = Append(messages, Bodies!Message("user", content, <<>>))
      /\ pending = {} /\ called' = called /\ pending' = pending /\ toolNames' = toolNames
      /\ claudeTurns' = Bodies!PushMerged(claudeTurns, "user", mine)
      /\ geminiTurns' = Bodies!Push(geminiTurns, "user", part)
      /\ input' = input \o part
  BY DEF Bodies!UserMessage, Bodies!Add
<1>2. messages' \in Seq(Bodies!Messages) /\ n \in Nat
  <2>1. <<>> \in Seq(Nat) /\ "user" \in Bodies!Roles
    BY DEF Bodies!Roles
  <2>2. QED
    BY <1>1, <2>1, MessageAdded DEF RequestInv, RequestTypes
<1> HIDE DEF n
<1>3. Plain(mine) /\ Plain(part)
  BY <1>2, PlainItems
<1> HIDE DEF mine, part
<1>4. input' \in Seq(Bodies!TurnItems)
  BY <1>1, <1>3, BothElements DEF Plain, RequestInv, RequestTypes
<1>5. RequestTypes'
  BY <1>1, <1>2, <1>4 DEF RequestInv, RequestTypes
<1>6. TurnsInv(claudeTurns, {}) /\ Spoke(claudeTurns) /\ TurnsInv(geminiTurns, {})
  BY <1>1 DEF RequestInv
<1>7. TurnsInv(claudeTurns', {}) /\ Spoke(claudeTurns')
  BY <1>1, <1>3, <1>6, SayMerged
<1>8. TurnsInv(geminiTurns', {})
  BY <1>1, <1>3, <1>6, SayMerged
<1>9. pending' = {}
  BY <1>1
<1>10. QED
  BY <1>5, <1>7, <1>8, <1>9 DEF RequestInv

LEMMA ResultSaid ==
  ASSUME RequestInv, NEW c \in pending, Bodies!ToolMessage(c)
  PROVE  RequestInv'
<1> DEFINE r == Bodies!Item("result", c)
<1>1. /\ messages' = Append(messages, Bodies!Message("tool", "text", <<c>>))
      /\ called' = called /\ pending' = pending \ {c} /\ toolNames' = toolNames
      /\ claudeTurns' = Bodies!PushMerged(claudeTurns, "user", <<r>>)
      /\ geminiTurns' = Bodies!Push(geminiTurns, "user", <<Bodies!Result(c, toolNames)>>)
      /\ input' = Append(input, r)
  BY DEF Bodies!ToolMessage, Bodies!Add
<1>2. c \in Nat /\ c \in toolNames
  BY DEF RequestInv, RequestTypes
<1>3. Bodies!Result(c, toolNames) = r
  BY <1>2 DEF Bodies!Result
<1>4. r \in Bodies!TurnItems /\ r.kind = "result" /\ r.of = c
  BY <1>2 DEF Bodies!Item, Bodies!TurnItems
<1> HIDE DEF r
<1>5. messages' \in Seq(Bodies!Messages)
  <2>1. <<c>> \in Seq(Nat) /\ "tool" \in Bodies!Roles /\ "text" \in Bodies!Contents
    BY <1>2 DEF Bodies!Roles, Bodies!Contents
  <2>2. QED
    BY <1>1, <2>1, MessageAdded DEF RequestInv, RequestTypes
<1>6. RequestTypes'
  <2>1. input' \in Seq(Bodies!TurnItems)
    BY <1>1, <1>4, ElementAdded DEF RequestInv, RequestTypes
  <2>2. QED
    BY <1>1, <1>5, <2>1 DEF RequestInv, RequestTypes
<1>7. /\ TurnsInv(claudeTurns, pending) /\ Spoke(claudeTurns) /\ TurnsInv(geminiTurns, pending)
      /\ claudeTurns \in Seq(Bodies!Turns) /\ geminiTurns \in Seq(Bodies!Turns)
  BY DEF RequestInv, TurnsInv
<1>8. <<r>> \in Seq(Bodies!TurnItems) /\ <<r>> # <<>>
  BY <1>4
<1>9. claudeTurns' = Bodies!Push(claudeTurns, "user", <<r>>)
  BY <1>1 DEF Bodies!PushMerged
<1>10. /\ Pushed(claudeTurns, claudeTurns', "user", <<r>>)
       /\ Pushed(geminiTurns, geminiTurns', "user", <<r>>)
  BY <1>1, <1>3, <1>7, <1>8, <1>9, PushIs
<1>11. TurnsInv(claudeTurns', pending') /\ TurnsInv(geminiTurns', pending')
  BY <1>1, <1>4, <1>7, <1>10, ReturnKeeps
<1>12. Spoke(claudeTurns')
  BY <1>7, <1>8, <1>10, PushSpoke
<1>13. QED
  BY <1>6, <1>11, <1>12 DEF RequestInv

\* An assistant that makes no call, with what Gemini has it say.
LEMMA NoCallsSaid ==
  ASSUME NEW said, Plain(said), NEW n \in Nat
  PROVE  /\ said \o Bodies!Calls(<<>>) = said
         /\ Plain(Bodies!OrBlank(said, n))
<1>1. said \in Seq(Bodies!TurnItems)
  BY DEF Plain
<1>2. Bodies!Calls(<<>>) = <<>>
  <2>1. Len(<<>>) = 0 /\ 1..0 = {}
    OBVIOUS
  <2>2. QED
    BY <2>1 DEF Bodies!Calls
<1>3. said \o <<>> = said
  BY <1>1
<1>4. Plain(<<Bodies!Item("blank", n)>>)
  BY PlainOne
<1>5. Plain(Bodies!OrBlank(said, n))
  BY <1>4 DEF Bodies!OrBlank
<1>6. QED
  BY <1>2, <1>3, <1>5

\* What an assistant says, whatever it is, with the calls it makes.
LEMMA AssistantTurn ==
  ASSUME NEW T, TurnsInv(T, {}), NEW said, Plain(said), NEW m \in Nat,
         NEW from \in Nat, NEW n \in Nat, NEW new, new = from + 1..from + n,
         NEW items, items = said \o Bodies!Calls(Numbered(from, n))
  PROVE  /\ items \in Seq(Bodies!TurnItems)
         /\ TurnsInv(Bodies!PushMerged(T, "assistant", items), new)
         /\ Spoke(T) => Spoke(Bodies!PushMerged(T, "assistant", items))
         /\ TurnsInv(Bodies!Push(T, "assistant", Bodies!OrBlank(items, m)), new)
<1> DEFINE last    == Bodies!Calls(Numbered(from, n))
           orBlank == Bodies!OrBlank(items, m)
<1>1. /\ last \in Seq(Bodies!TurnItems) /\ Len(last) = n
      /\ items = said \o last
      /\ KindIn(last, "call") = new /\ KindIn(last, "result") = {}
  <2>1. last \in Seq(Bodies!TurnItems) /\ Len(last) = n
    BY CallItems
  <2>2. KindIn(last, "call") = from + 1..from + n /\ KindIn(last, "result") = {}
    BY CallKinds
  <2> HIDE DEF last
  <2>3. QED
    BY <2>1, <2>2 DEF last
<1>2. /\ said \in Seq(Bodies!TurnItems) /\ T \in Seq(Bodies!Turns)
      /\ KindIn(said, "call") = {} /\ KindIn(said, "result") = {}
  BY PlainKinds DEF Plain, TurnsInv
<1>3. /\ items \in Seq(Bodies!TurnItems)
      /\ KindIn(items, "call") = new /\ KindIn(items, "result") = {}
  <2> HIDE DEF last, orBlank
  <2>1. KindIn(said \o last, "call") = KindIn(said, "call") \cup KindIn(last, "call")
    BY <1>1, <1>2, KindInBoth
  <2>2. KindIn(said \o last, "result") = KindIn(said, "result") \cup KindIn(last, "result")
    BY <1>1, <1>2, KindInBoth
  <2>3. said \o last \in Seq(Bodies!TurnItems)
    BY <1>1, <1>2, BothElements
  <2>4. QED
    BY <1>1, <1>2, <2>1, <2>2, <2>3
<1>4. CASE n = 0
  <2>1. Numbered(from, n) = <<>>
    BY <1>4, NumberedCalls
  <2>2. items = said /\ Plain(orBlank)
    BY <2>1, NoCallsSaid
  <2>3. new = {}
    BY <1>4
  <2> HIDE DEF last, orBlank
  <2>4. /\ TurnsInv(Bodies!PushMerged(T, "assistant", items), {})
        /\ Spoke(T) => Spoke(Bodies!PushMerged(T, "assistant", items))
    BY <2>2, SayMerged
  <2>5. TurnsInv(Bodies!Push(T, "assistant", orBlank), {})
    BY <2>2, SayMerged
  <2>6. QED
    BY <1>3, <2>3, <2>4, <2>5 DEF orBlank
<1>5. CASE n # 0
  <2> HIDE DEF last
  <2>1. items # <<>>
    <3>1. Len(items) = Len(said) + n /\ Len(said) \in Nat
      BY <1>1, <1>2, BothElements
    <3>2. Len(items) # 0
      BY <1>5, <3>1
    <3>3. QED
      BY <1>3, <3>2, NoLength
  <2> DEFINE U == Bodies!Push(T, "assistant", items)
  <2>2. Bodies!PushMerged(T, "assistant", items) = U /\ orBlank = items
    BY <2>1 DEF Bodies!PushMerged, Bodies!OrBlank
  <2>3. Pushed(T, U, "assistant", items)
    BY <1>2, <1>3, PushIs
  <2> HIDE DEF U, orBlank
  <2>4. KindIn(items, "call") # {}
    <3>1. from + 1 \in new
      BY <1>5
    <3>2. QED
      BY <1>3, <3>1
  <2>5. TurnsInv(U, new)
    BY <1>2, <1>3, <2>3, <2>4, CallKeeps
  <2>6. Spoke(T) => Spoke(U)
    BY <1>2, <1>3, <2>1, <2>3, PushSpoke
  <2>7. Bodies!Push(T, "assistant", orBlank) = U
    BY <2>2 DEF U
  <2>8. QED
    BY <1>3, <2>2, <2>5, <2>6, <2>7 DEF orBlank
<1>6. QED
  BY <1>4, <1>5

LEMMA AssistantSaid ==
  ASSUME RequestInv, NEW content \in Bodies!Contents, NEW n \in 0..2,
         Bodies!AssistantMessage(content, n)
  PROVE  RequestInv'
<1> DEFINE m      == Bodies!NextNumber
           calls  == Numbered(called, n)
           said   == Bodies!Said(content, m)
           heard  == Bodies!NormalizeContent(content, m)
           mine   == heard \o Bodies!Calls(calls)
           items  == said \o Bodies!Calls(calls)
           new    == called + 1..called + n
<1>1. /\ messages' = Append(messages, Bodies!Message("assistant", content, calls))
      /\ pending = {} /\ called' = called + n /\ pending' = new
      /\ toolNames' = toolNames \cup new
      /\ claudeTurns' = Bodies!PushMerged(claudeTurns, "assistant", mine)
      /\ geminiTurns' = Bodies!Push(geminiTurns, "assistant", Bodies!OrBlank(items, m))
      /\ input' = input \o said \o Bodies!Calls(calls)
  BY DEF Bodies!AssistantMessage, Bodies!Add, Numbered
<1>2. called \in Nat /\ n \in Nat /\ pending \subseteq 1..called /\ toolNames = 1..called
      /\ input \in Seq(Bodies!TurnItems)
  BY DEF RequestInv, RequestTypes
<1>3. calls \in Seq(Nat) /\ Bodies!Calls(calls) \in Seq(Bodies!TurnItems)
  BY <1>2, CallItems, NumberedCalls
<1>4. messages' \in Seq(Bodies!Messages) /\ m \in Nat
  <2>1. "assistant" \in Bodies!Roles
    BY DEF Bodies!Roles
  <2>2. QED
    BY <1>1, <1>3, <2>1, MessageAdded DEF RequestInv, RequestTypes
<1> HIDE DEF m
<1>5. Plain(said) /\ Plain(heard) /\ said \in Seq(Bodies!TurnItems)
  BY <1>4, PlainItems DEF Plain
<1>6. TurnsInv(claudeTurns, {}) /\ Spoke(claudeTurns) /\ TurnsInv(geminiTurns, {})
  BY <1>1 DEF RequestInv
<1> HIDE DEF said, heard
<1>7. RequestTypes'
  <2>1. called' \in Nat /\ pending' \subseteq 1..called' /\ toolNames' = 1..called'
    BY <1>1, <1>2
  <2> DEFINE first == input \o said
             last  == Bodies!Calls(calls)
  <2>2. first \in Seq(Bodies!TurnItems) /\ last \in Seq(Bodies!TurnItems) /\ input' = first \o last
    BY <1>1, <1>2, <1>3, <1>5, BothElements
  <2> HIDE DEF first, last
  <2>3. input' \in Seq(Bodies!TurnItems)
    BY <2>2, BothElements
  <2>4. QED
    BY <1>4, <2>1, <2>3 DEF RequestTypes
<1> HIDE DEF new
<1>8. TurnsInv(claudeTurns', pending') /\ Spoke(claudeTurns')
  <2>1. /\ TurnsInv(Bodies!PushMerged(claudeTurns, "assistant", mine), new)
        /\ Spoke(claudeTurns) => Spoke(Bodies!PushMerged(claudeTurns, "assistant", mine))
    BY <1>2, <1>4, <1>5, <1>6, AssistantTurn DEF new
  <2>2. QED
    BY <1>1, <1>6, <2>1
<1>9. TurnsInv(geminiTurns', pending')
  <2>1. TurnsInv(Bodies!Push(geminiTurns, "assistant", Bodies!OrBlank(items, m)), new)
    BY <1>2, <1>4, <1>5, <1>6, AssistantTurn DEF new
  <2>2. QED
    BY <1>1, <2>1
<1>10. QED
  BY <1>7, <1>8, <1>9 DEF RequestInv

LEMMA RequestStep == RequestInv /\ [Next]_vars => RequestInv'
<1> SUFFICES ASSUME RequestInv, [Next]_vars PROVE RequestInv'
  OBVIOUS
<1>1. CASE Bodies!ChatNext
  BY <1>1, SystemSaid, UserSaid, AssistantSaid, ResultSaid DEF Bodies!ChatNext
<1>2. CASE UNCHANGED Bodies!chatVars
  BY <1>2 DEF RequestInv, RequestTypes, Bodies!chatVars, Bodies!client, Bodies!systems,
              Bodies!translators
<1>3. QED
  BY <1>1, <1>2, RequestSteps

\* The translators' cardinality is the one of the invariant.
LEMMA SameCardinality == \A S : Bodies!Cardinality(S) = Cardinality(S)
BY DEF Bodies!Cardinality, Cardinality

\* Turns all of whose calls are done are answered.
LEMMA DoneIsAnswered ==
  ASSUME NEW T, TurnsInv(T, {})
  PROVE  Bodies!Answered(T)
<1>1. ASSUME NEW t \in 1..Len(T), Bodies!CallsIn(T[t]) # {}
      PROVE  /\ T[t].role = "assistant" /\ t < Len(T)
             /\ Bodies!ResultsIn(T[t + 1]) = Bodies!CallsIn(T[t])
             /\ \A k \in 1..Bodies!Cardinality(Bodies!CallsIn(T[t])) :
                  T[t + 1].items[k].kind = "result"
  <2>1. Done(T, t) /\ T[t].role = "assistant"
    BY <1>1 DEF TurnsInv
  <2>2. Bodies!Cardinality(Bodies!CallsIn(T[t])) = Cardinality(Bodies!CallsIn(T[t]))
    BY SameCardinality
  <2>3. QED
    BY <1>1, <2>1, <2>2 DEF Done
<1>2. QED
  BY <1>1 DEF Bodies!Answered

LEMMA RequestsHold == Spec => []RequestInv
BY RequestInitially, RequestStep, PTL DEF Spec

\* However long the conversation, and in whatever order its roles come, the
\* turns alternate, calls are answered by the turn after theirs, which opens
\* with all their results, and no assistant of Anthropic's is without content.
THEOREM TurnsAreAccepted == Spec => []TurnsAccepted
<1>1. RequestInv => TurnsAccepted
  <2> SUFFICES ASSUME RequestInv PROVE TurnsAccepted
    OBVIOUS
  <2>1. Bodies!TurnsAlternate
    BY DEF RequestInv, TurnsInv, Bodies!TurnsAlternate
  <2>2. Bodies!CallsAnswered
    <3>1. ASSUME pending = {} PROVE Bodies!Answered(claudeTurns) /\ Bodies!Answered(geminiTurns)
      BY <3>1, DoneIsAnswered DEF RequestInv
    <3>2. QED
      BY <3>1 DEF Bodies!CallsAnswered
  <2>3. Bodies!AssistantTurnsSaySomething
    BY DEF RequestInv, Spoke, Bodies!AssistantTurnsSaySomething
  <2>4. QED
    BY <2>1, <2>2, <2>3 DEF TurnsAccepted, Bodies!TurnsAccepted
<1>2. QED
  BY <1>1, RequestsHold, PTL

-----------------------------------------------------------------------------
(* The reader of server-sent events: what the frames of some lines are, of *)
(* any lines ls.                                                           *)

Held == Values \cup {Reader!NoValue}

\* The lines between the last blank one before n and n.
Block(ls, n) == {k \in 1..n : \A b \in 1..n - 1 : ls[b].field = "blank" => b < k}

Shown(ls, block, field) ==
  [n \in 1..Len(ls) |-> IF n \in block /\ ls[n].field = field THEN <<ls[n].value>> ELSE <<>>]

FieldOf(ls, block, field) == FlattenSeq(Shown(ls, block, field))

Framed(ls, block) ==
  [event |-> IF FieldOf(ls, block, "event") = <<>> THEN Reader!NoValue
             ELSE FieldOf(ls, block, "event")[Len(FieldOf(ls, block, "event"))],
   data  |-> FieldOf(ls, block, "data")]

\* The frame that is being read.
Opened(ls) == Framed(ls, Block(ls, Len(ls) + 1))

Yielded(f) == IF f.event = Reader!NoValue /\ f.data = <<>> THEN <<>> ELSE <<f>>

YieldAt(ls) ==
  [n \in 1..Len(ls) |-> IF ls[n].field = "blank" THEN Yielded(Framed(ls, Block(ls, n))) ELSE <<>>]

\* The frames that blank lines end.
Yield(ls) == FlattenSeq(YieldAt(ls))

LEMMA LineType ==
  ASSUME NEW l \in Reader!Lines
  PROVE  l.value \in Held
BY DEF Reader!Lines, Held

LEMMA ShownType ==
  ASSUME NEW ls \in Seq(Reader!Lines), NEW block, NEW field
  PROVE  /\ Shown(ls, block, field) \in Seq(Seq(Held))
         /\ Len(Shown(ls, block, field)) = Len(ls) /\ Len(ls) \in Nat
         /\ FieldOf(ls, block, field) \in Seq(Held)
<1>1. Len(ls) \in Nat
  BY NoLength
<1>2. ASSUME NEW n \in 1..Len(ls)
      PROVE  (IF n \in block /\ ls[n].field = field THEN <<ls[n].value>> ELSE <<>>) \in Seq(Held)
  <2>1. ls[n] \in Reader!Lines
    OBVIOUS
  <2>2. ls[n].value \in Held
    BY <2>1, LineType
  <2>3. <<ls[n].value>> \in Seq(Held) /\ <<>> \in Seq(Held)
    BY <2>2
  <2>4. QED
    BY <2>3
<1>3. Shown(ls, block, field) \in Seq(Seq(Held)) /\ Len(Shown(ls, block, field)) = Len(ls)
  BY <1>1, <1>2 DEF Shown
<1>4. QED
  BY <1>1, <1>3, FlattenType DEF FieldOf

LEMMA FramedType ==
  ASSUME NEW ls \in Seq(Reader!Lines), NEW block
  PROVE  Framed(ls, block) \in [event : Held, data : Seq(Held)]
<1> DEFINE s == FieldOf(ls, block, "event")
           d == FieldOf(ls, block, "data")
<1>1. s \in Seq(Held) /\ d \in Seq(Held)
  BY ShownType
<1>2. Framed(ls, block) = [event |-> IF s = <<>> THEN Reader!NoValue ELSE s[Len(s)], data |-> d]
  BY DEF Framed
<1> HIDE DEF s, d
<1>3. s # <<>> => s[Len(s)] \in Held
  BY <1>1, FrontAndLast
<1>4. Reader!NoValue \in Held
  BY DEF Held
<1>5. QED
  BY <1>1, <1>2, <1>3, <1>4

\* Only the lines of the block count, and those there are.
LEMMA SameBlock ==
  ASSUME NEW ls, NEW one, NEW other, \A k \in 1..Len(ls) : k \in one <=> k \in other, NEW field
  PROVE  FieldOf(ls, one, field) = FieldOf(ls, other, field)
<1>1. Shown(ls, one, field) = Shown(ls, other, field)
  BY DEF Shown
<1>2. QED
  BY <1>1 DEF FieldOf

LEMMA NothingShown ==
  ASSUME NEW ls \in Seq(Reader!Lines), NEW block, block \cap 1..Len(ls) = {}, NEW field
  PROVE  FieldOf(ls, block, field) = <<>>
<1> DEFINE sh == Shown(ls, block, field)
<1>1. sh \in Seq(Seq(Held)) /\ Len(sh) = Len(ls) /\ Len(ls) \in Nat
  BY ShownType
<1>2. \A n \in 1..Len(ls) : sh[n] = <<>>
  BY DEF Shown
<1> HIDE DEF sh
<1>3. PICK f : Sums(f, sh, Held)
  BY <1>1, SumsExist
<1>4. f[0] = <<>> /\ \A n \in 1..Len(ls) : f[n] = f[n - 1] \o sh[n] /\ f[n - 1] \in Seq(Held)
  <2>1. /\ f \in [0..Len(ls) -> Seq(Held)] /\ f[0] = <<>>
        /\ \A n \in 1..Len(ls) : f[n] = f[n - 1] \o sh[n]
    BY <1>1, <1>3 DEF Sums, Adds
  <2>2. \A n \in 1..Len(ls) : n - 1 \in 0..Len(ls)
    BY <1>1
  <2>3. \A n \in 1..Len(ls) : f[n - 1] \in Seq(Held)
    BY <2>1, <2>2
  <2>4. QED
    BY <2>1, <2>3
<1>5. \A n \in 1..Len(ls) : f[n] = f[n - 1]
  <2>1. ASSUME NEW n \in 1..Len(ls) PROVE f[n] = f[n - 1]
    <3>1. f[n] = f[n - 1] \o <<>> /\ f[n - 1] \in Seq(Held)
      BY <1>2, <1>4
    <3>2. QED
      BY <3>1
  <2>2. QED
    BY <2>1
<1>6. f[Len(ls)] = <<>>
  <2> SUFFICES ASSUME f[Len(ls)] # <<>> PROVE FALSE
    OBVIOUS
  <2> DEFINE S == {n \in 0..Len(ls) : f[n] # <<>>}
  <2>1. S \in SUBSET Nat /\ S # {}
    BY <1>1
  <2>2. PICK n \in S : \A m \in S : n <= m
    BY <2>1, Least
  <2>3. n # 0 /\ n \in 1..Len(ls) /\ n - 1 \in 0..Len(ls)
    BY <1>1, <1>4, <2>2
  <2>4. f[n] = f[n - 1] /\ n - 1 \notin S
    BY <1>5, <2>1, <2>2, <2>3
  <2>5. QED
    BY <2>2, <2>3, <2>4
<1>7. QED
  BY <1>1, <1>3, <1>6, FlattenIsTheSum DEF FieldOf, sh

\* mm is ls and a line more.
LineMore(ls, l, mm) ==
  /\ ls \in Seq(Reader!Lines) /\ mm \in Seq(Reader!Lines) /\ l \in Reader!Lines
  /\ Len(ls) \in Nat /\ Len(mm) = Len(ls) + 1 /\ mm[Len(ls) + 1] = l
  /\ \A n \in 1..Len(ls) : mm[n] = ls[n]

LEMMA AppendedLine ==
  ASSUME NEW ls \in Seq(Reader!Lines), NEW l \in Reader!Lines
  PROVE  LineMore(ls, l, Append(ls, l))
BY ElementAdded, NoLength DEF LineMore

LEMMA FieldGrows ==
  ASSUME NEW ls, NEW l, NEW mm, LineMore(ls, l, mm), NEW block, NEW field
  PROVE  /\ FieldOf(mm, block, field)
               = FieldOf(ls, block, field) \o Shown(mm, block, field)[Len(mm)]
         /\ FieldOf(ls, block, field) \in Seq(Held)
<1> DEFINE a == Shown(ls, block, field)
           b == Shown(mm, block, field)
<1>1. /\ mm \in Seq(Reader!Lines) /\ Len(mm) = Len(ls) + 1 /\ mm[Len(ls) + 1] = l
      /\ ls \in Seq(Reader!Lines) /\ l \in Reader!Lines
      /\ \A n \in 1..Len(ls) : mm[n] = ls[n]
  BY DEF LineMore
<1>2. /\ a \in Seq(Seq(Held)) /\ Len(a) = Len(ls) /\ Len(ls) \in Nat
      /\ b \in Seq(Seq(Held)) /\ Len(b) = Len(mm)
  <2>1. a \in Seq(Seq(Held)) /\ Len(a) = Len(ls) /\ Len(ls) \in Nat
    BY <1>1, ShownType
  <2>2. b \in Seq(Seq(Held)) /\ Len(b) = Len(mm)
    BY <1>1, ShownType
  <2>3. QED
    BY <2>1, <2>2
<1>3. ASSUME NEW n \in 1..Len(ls) PROVE b[n] = a[n]
  <2>1. n \in 1..Len(mm)
    BY <1>1, <1>2
  <2>2. QED
    BY <1>1, <2>1 DEF Shown
<1>4. Len(mm) = Len(a) + 1
  BY <1>1, <1>2
<1> HIDE DEF a, b
<1>5. FlattenSeq(b) = FlattenSeq(a) \o b[Len(a) + 1]
  BY <1>1, <1>2, <1>3, OneMoreText
<1>6. FlattenSeq(a) \in Seq(Held)
  BY <1>2, FlattenType
<1>7. QED
  BY <1>1, <1>2, <1>4, <1>5, <1>6 DEF FieldOf, a, b

LEMMA LastOfMore ==
  ASSUME NEW ls, NEW l, NEW mm, LineMore(ls, l, mm)
  PROVE  Len(mm) \in 1..Len(mm) /\ mm[Len(mm)] = l
<1>1. Len(ls) \in Nat /\ Len(mm) = Len(ls) + 1 /\ mm[Len(ls) + 1] = l
  BY DEF LineMore
<1>2. QED
  BY <1>1

LEMMA FieldStays ==
  ASSUME NEW ls, NEW l, NEW mm, LineMore(ls, l, mm), NEW block, NEW field,
         Len(mm) \notin block \/ l.field # field
  PROVE  FieldOf(mm, block, field) = FieldOf(ls, block, field)
<1> DEFINE e == Shown(mm, block, field)[Len(mm)]
<1>1. e = <<>>
  BY LastOfMore DEF Shown
<1> HIDE DEF e
<1>2. /\ FieldOf(mm, block, field) = FieldOf(ls, block, field) \o e
      /\ FieldOf(ls, block, field) \in Seq(Held)
  BY FieldGrows DEF e
<1>3. QED
  BY <1>1, <1>2

LEMMA FieldLonger ==
  ASSUME NEW ls, NEW l, NEW mm, LineMore(ls, l, mm), NEW block, NEW field,
         Len(mm) \in block, l.field = field
  PROVE  FieldOf(mm, block, field) = FieldOf(ls, block, field) \o <<l.value>>
<1> DEFINE e == Shown(mm, block, field)[Len(mm)]
<1>1. e = <<l.value>>
  BY LastOfMore DEF Shown
<1> HIDE DEF e
<1>2. FieldOf(mm, block, field) = FieldOf(ls, block, field) \o e
  BY FieldGrows DEF e
<1>3. QED
  BY <1>1, <1>2

LEMMA YieldType ==
  ASSUME NEW ls \in Seq(Reader!Lines)
  PROVE  /\ YieldAt(ls) \in Seq(Seq(Reader!Frames)) /\ Len(YieldAt(ls)) = Len(ls)
         /\ Len(ls) \in Nat /\ Yield(ls) \in Seq(Reader!Frames)
         /\ \A block : Yielded(Framed(ls, block)) \in Seq(Reader!Frames)
<1>1. ASSUME NEW block PROVE Yielded(Framed(ls, block)) \in Seq(Reader!Frames)
  <2> DEFINE f == Framed(ls, block)
  <2>1. f \in Reader!Frames
    BY FramedType DEF Reader!Frames, Held
  <2> HIDE DEF f
  <2>2. <<f>> \in Seq(Reader!Frames) /\ <<>> \in Seq(Reader!Frames)
    BY <2>1
  <2>3. QED
    BY <2>2 DEF Yielded, f
<1>2. ASSUME NEW n \in 1..Len(ls)
      PROVE  (IF ls[n].field = "blank" THEN Yielded(Framed(ls, Block(ls, n))) ELSE <<>>)
               \in Seq(Reader!Frames)
  <2>1. <<>> \in Seq(Reader!Frames)
    OBVIOUS
  <2>2. QED
    BY <1>1, <2>1
<1>3. Len(ls) \in Nat
  BY NoLength
<1>4. YieldAt(ls) \in Seq(Seq(Reader!Frames)) /\ Len(YieldAt(ls)) = Len(ls)
  BY <1>2, <1>3 DEF YieldAt
<1>5. QED
  BY <1>1, <1>3, <1>4, FlattenType DEF Yield

\* The blocks of the lines there were, and their frames, stay as they are.
LEMMA BlocksStay ==
  ASSUME NEW ls, NEW l, NEW mm, LineMore(ls, l, mm)
  PROVE  /\ \A n \in 1..Len(ls) + 1 : Block(mm, n) = Block(ls, n)
         /\ \A n \in 1..Len(ls) : Framed(mm, Block(mm, n)) = Framed(ls, Block(ls, n))
<1>1. /\ ls \in Seq(Reader!Lines) /\ l \in Reader!Lines
      /\ mm \in Seq(Reader!Lines) /\ Len(mm) = Len(ls) + 1 /\ Len(ls) \in Nat
      /\ \A n \in 1..Len(ls) : mm[n] = ls[n]
  BY DEF LineMore
<1>2. ASSUME NEW n \in 1..Len(ls) + 1 PROVE Block(mm, n) = Block(ls, n)
  <2>1. \A b \in 1..n - 1 : mm[b] = ls[b]
    BY <1>1
  <2>2. QED
    BY <2>1 DEF Block
<1>3. ASSUME NEW n \in 1..Len(ls) PROVE Framed(mm, Block(mm, n)) = Framed(ls, Block(ls, n))
  <2> DEFINE block == Block(ls, n)
  <2>1. Block(mm, n) = block /\ Len(ls) + 1 \notin block
    BY <1>1, <1>2 DEF Block
  <2> HIDE DEF block
  <2>2. ASSUME NEW field PROVE FieldOf(mm, block, field) = FieldOf(ls, block, field)
    BY <1>1, <2>1, FieldStays
  <2>3. /\ FieldOf(mm, block, "event") = FieldOf(ls, block, "event")
        /\ FieldOf(mm, block, "data") = FieldOf(ls, block, "data")
    BY <2>2
  <2>4. Framed(mm, block) = Framed(ls, block)
    BY <2>3 DEF Framed
  <2>5. QED
    BY <2>1, <2>4 DEF block
<1>4. QED
  BY <1>2, <1>3

\* A blank line yields the frame that is being read, if it is one; the others
\* yield nothing.
LEMMA YieldGrows ==
  ASSUME NEW ls, NEW l, NEW mm, LineMore(ls, l, mm)
  PROVE  Yield(mm) = IF l.field = "blank" THEN Yield(ls) \o Yielded(Opened(ls)) ELSE Yield(ls)
<1> DEFINE a == YieldAt(ls)
           b == YieldAt(mm)
           N == Len(ls)
<1>1. /\ ls \in Seq(Reader!Lines) /\ l \in Reader!Lines
      /\ mm \in Seq(Reader!Lines) /\ Len(mm) = N + 1 /\ mm[N + 1] = l /\ N \in Nat
      /\ \A n \in 1..N : mm[n] = ls[n]
  BY DEF LineMore
<1>2. /\ a \in Seq(Seq(Reader!Frames)) /\ Len(a) = N
      /\ b \in Seq(Seq(Reader!Frames)) /\ Len(b) = N + 1
  <2>1. a \in Seq(Seq(Reader!Frames)) /\ Len(a) = N
    BY <1>1, YieldType
  <2>2. b \in Seq(Seq(Reader!Frames)) /\ Len(b) = Len(mm)
    BY <1>1, YieldType
  <2>3. QED
    BY <1>1, <2>1, <2>2
<1>3. ASSUME NEW n \in 1..N PROVE b[n] = a[n]
  <2>1. n \in 1..Len(mm) /\ mm[n] = ls[n]
    BY <1>1
  <2>2. Framed(mm, Block(mm, n)) = Framed(ls, Block(ls, n))
    BY BlocksStay
  <2>3. QED
    BY <2>1, <2>2 DEF YieldAt
<1>4. b[N + 1] = IF l.field = "blank" THEN Yielded(Framed(mm, Block(mm, N + 1))) ELSE <<>>
  <2>1. N + 1 \in 1..Len(mm)
    BY <1>1
  <2>2. QED
    BY <1>1, <2>1 DEF YieldAt
<1> HIDE DEF a, b
<1>5. FlattenSeq(b) = FlattenSeq(a) \o b[Len(a) + 1]
  BY <1>1, <1>2, <1>3, OneMoreText
<1>6. Yield(mm) = Yield(ls) \o b[N + 1] /\ Yield(ls) \in Seq(Reader!Frames)
  BY <1>1, <1>2, <1>5, YieldType DEF Yield, a, b
<1>7. CASE l.field = "blank"
  <2> DEFINE block == Block(ls, N + 1)
  <2>1. Block(mm, N + 1) = block
    <3>1. N + 1 \in 1..N + 1
      BY <1>1
    <3>2. QED
      BY <3>1, BlocksStay
  <2> HIDE DEF block
  <2>2. ASSUME NEW field \in {"event", "data"}
        PROVE  FieldOf(mm, block, field) = FieldOf(ls, block, field)
    <3>1. l.field # field
      BY <1>7
    <3>2. QED
      BY <3>1, FieldStays
  <2>3. Framed(mm, block) = Framed(ls, block)
    BY <2>2 DEF Framed
  <2>4. Framed(mm, Block(mm, N + 1)) = Opened(ls)
    BY <2>1, <2>3 DEF Opened, block
  <2>5. QED
    BY <1>4, <1>6, <1>7, <2>4
<1>8. CASE l.field # "blank"
  BY <1>4, <1>6, <1>8
<1>9. QED
  BY <1>7, <1>8

\* After a blank line nothing has been read of a frame.
LEMMA OpenedAnew ==
  ASSUME NEW ls, NEW l, NEW mm, LineMore(ls, l, mm),
         l.field = "blank"
  PROVE  Opened(mm) = [event |-> Reader!NoValue, data |-> <<>>]
<1>1. /\ ls \in Seq(Reader!Lines) /\ l \in Reader!Lines
      /\ mm \in Seq(Reader!Lines) /\ Len(mm) = Len(ls) + 1 /\ mm[Len(ls) + 1] = l
      /\ Len(ls) \in Nat
  BY DEF LineMore
<1> DEFINE block == Block(mm, Len(mm) + 1)
<1>2. block \cap 1..Len(mm) = {}
  <2>1. Len(mm) \in 1..Len(mm) + 1 - 1 /\ mm[Len(mm)].field = "blank"
    BY <1>1
  <2>2. \A k \in block : Len(mm) < k
    BY <2>1 DEF Block
  <2>3. QED
    BY <1>1, <2>2
<1> HIDE DEF block
<1>3. FieldOf(mm, block, "event") = <<>> /\ FieldOf(mm, block, "data") = <<>>
  BY <1>1, <1>2, NothingShown
<1>4. QED
  BY <1>3 DEF Opened, Framed, block

\* Any other line is one more of the frame.
LEMMA OpenedLonger ==
  ASSUME NEW ls, NEW l, NEW mm, LineMore(ls, l, mm),
         l.field # "blank"
  PROVE  Opened(mm) = Reader!Take(Opened(ls), l)
<1> DEFINE N    == Len(ls)
           was  == Block(ls, N + 1)
           is   == Block(mm, N + 2)
<1>1. /\ ls \in Seq(Reader!Lines) /\ l \in Reader!Lines
      /\ mm \in Seq(Reader!Lines) /\ Len(mm) = N + 1 /\ mm[N + 1] = l /\ N \in Nat
      /\ \A n \in 1..N : mm[n] = ls[n]
  BY DEF LineMore
<1>2. N + 1 \in is /\ \A k \in 1..N : k \in was <=> k \in is
  <2>1. N + 2 - 1 = N + 1 /\ N + 1 - 1 = N
    BY <1>1
  <2>2. \A b \in 1..N + 1 : mm[b].field = "blank" => b \in 1..N
    BY <1>1
  <2>3. N + 1 \in is
    BY <1>1, <2>1, <2>2 DEF Block
  <2>4. ASSUME NEW k \in 1..N PROVE k \in was <=> k \in is
    <3>1. k \in 1..N + 1 /\ k \in 1..N + 2
      BY <1>1
    <3>2. k \in was <=> \A b \in 1..N : ls[b].field = "blank" => b < k
      BY <2>1, <3>1 DEF Block
    <3>3. k \in is <=> \A b \in 1..N + 1 : mm[b].field = "blank" => b < k
      BY <2>1, <3>1 DEF Block
    <3>4. \A b \in 1..N : b \in 1..N + 1 /\ mm[b] = ls[b]
      BY <1>1
    <3>5. QED
      BY <2>2, <3>2, <3>3, <3>4
  <2>5. QED
    BY <2>3, <2>4
<1>3. N + 1 + 1 = N + 2
  BY <1>1
<1>4. Opened(ls) = Framed(ls, was) /\ Opened(mm) = Framed(mm, is)
  BY <1>1, <1>3 DEF Opened
<1> HIDE DEF was, is
<1> DEFINE names == FieldOf(ls, was, "event")
           told  == FieldOf(ls, was, "data")
<1>5. /\ l.field = "event" => FieldOf(mm, is, "event") = names \o <<l.value>>
      /\ l.field # "event" => FieldOf(mm, is, "event") = names
      /\ l.field = "data" => FieldOf(mm, is, "data") = told \o <<l.value>>
      /\ l.field # "data" => FieldOf(mm, is, "data") = told
  <2>1. /\ FieldOf(ls, was, "event") = FieldOf(ls, is, "event")
        /\ FieldOf(ls, was, "data") = FieldOf(ls, is, "data")
    BY <1>2, SameBlock
  <2>2. ASSUME NEW field
        PROVE  /\ l.field = field => FieldOf(mm, is, field) = FieldOf(ls, is, field) \o <<l.value>>
               /\ l.field # field => FieldOf(mm, is, field) = FieldOf(ls, is, field)
    <3>1. Len(mm) \in is
      BY <1>1, <1>2
    <3>2. CASE l.field = field
      BY <3>1, <3>2, FieldLonger
    <3>3. CASE l.field # field
      BY <3>3, FieldStays
    <3>4. QED
      BY <3>2, <3>3
  <2>3. QED
    BY <2>1, <2>2
<1>6. names \in Seq(Held) /\ told \in Seq(Held) /\ l.value \in Held
  BY <1>1, ShownType, LineType
<1>7. Opened(ls) = [event |-> IF names = <<>> THEN Reader!NoValue ELSE names[Len(names)],
                    data  |-> told]
  BY <1>4 DEF Framed
<1> HIDE DEF names, told
<1> DEFINE event1 == IF names = <<>> THEN Reader!NoValue ELSE names[Len(names)]
<1>8. CASE l.field = "event"
  <2> DEFINE more == names \o <<l.value>>
  <2>1. /\ more # <<>> /\ more[Len(more)] = l.value
    <3> DEFINE v == l.value
    <3>1. v \in Held
      BY <1>6
    <3> HIDE DEF v
    <3>2. <<v>> \in Seq(Held) /\ Len(<<v>>) = 1 /\ <<v>>[1] = v
      BY <3>1
    <3>3. /\ names \o <<v>> \in Seq(Held) /\ Len(names \o <<v>>) = Len(names) + 1
          /\ Len(names) \in Nat /\ (names \o <<v>>)[Len(names) + 1] = v
      BY <1>6, <3>2, BothElements
    <3>4. names \o <<v>> # <<>>
      BY <3>3, NoLength
    <3>5. QED
      BY <3>3, <3>4 DEF v
  <2>3. FieldOf(mm, is, "event") = more /\ FieldOf(mm, is, "data") = told
    BY <1>5, <1>8
  <2> HIDE DEF more
  <2>4. Opened(mm) = [event |-> l.value, data |-> told]
    BY <1>4, <2>1, <2>3 DEF Framed
  <2>5. Reader!Take(Opened(ls), l) = [Opened(ls) EXCEPT !.event = l.value]
    BY <1>8 DEF Reader!Take
  <2>6. QED
    BY <1>7, <2>4, <2>5
<1>9. CASE l.field = "data"
  <2>1. told \o <<l.value>> = Append(told, l.value)
    BY <1>6
  <2>2. FieldOf(mm, is, "event") = names /\ FieldOf(mm, is, "data") = Append(told, l.value)
    BY <1>5, <1>9, <2>1
  <2>3. Opened(mm) = [event |-> event1, data |-> Append(told, l.value)]
    BY <1>4, <2>2 DEF Framed
  <2>4. Reader!Take(Opened(ls), l) = [Opened(ls) EXCEPT !.data = Append(Opened(ls).data, l.value)]
    BY <1>9 DEF Reader!Take
  <2>5. Opened(ls) = [event |-> event1, data |-> told]
    BY <1>7
  <2> DEFINE d == Append(told, l.value)
  <2>6. Opened(ls).data = told
    BY <2>5
  <2>7. Reader!Take(Opened(ls), l) = [Opened(ls) EXCEPT !.data = d]
    BY <2>4, <2>6
  <2>8. Opened(mm) = [event |-> event1, data |-> d]
    BY <2>3
  <2> HIDE DEF event1, d
  <2>9. QED
    BY <2>5, <2>7, <2>8
<1>10. CASE l.field # "event" /\ l.field # "data"
  <2>2. FieldOf(mm, is, "event") = names /\ FieldOf(mm, is, "data") = told
    BY <1>5, <1>10
  <2>3. Opened(mm) = [event |-> event1, data |-> told]
    BY <1>4, <2>2 DEF Framed
  <2>4. Reader!Take(Opened(ls), l) = Opened(ls)
    BY <1>10 DEF Reader!Take
  <2>5. QED
    BY <1>7, <2>3, <2>4
<1>11. QED
  BY <1>8, <1>9, <1>10

\* While the stream goes on, the frames are those that blank lines have ended,
\* and what is held is the frame that is being read.
ReaderInv ==
  /\ lines \in Seq(Reader!Lines)
  /\ frames = IF atEnd THEN Yield(lines) \o Yielded(Opened(lines)) ELSE Yield(lines)
  /\ ~atEnd => event = Opened(lines).event /\ data = Opened(lines).data

LEMMA NothingRead == Yield(<<>>) = <<>> /\ Opened(<<>>) = [event |-> Reader!NoValue, data |-> <<>>]
<1> DEFINE ls == <<>>
<1>1. ls \in Seq(Reader!Lines) /\ Len(ls) = 0
  OBVIOUS
<1>2. Yield(ls) = <<>>
  <2>1. YieldAt(ls) = <<>>
    BY <1>1, YieldType, NoLength
  <2>2. QED
    BY <2>1, FlattenNothing DEF Yield
<1> DEFINE block == Block(ls, Len(ls) + 1)
<1> HIDE DEF ls, block
<1>3. block \cap 1..Len(ls) = {}
  <2>1. 1..Len(ls) = {}
    BY <1>1
  <2>2. QED
    BY <2>1
<1>4. FieldOf(ls, block, "event") = <<>> /\ FieldOf(ls, block, "data") = <<>>
  BY <1>1, <1>3, NothingShown
<1>5. Opened(ls) = [event |-> Reader!NoValue, data |-> <<>>]
  BY <1>4 DEF Opened, Framed, block
<1>6. QED
  BY <1>2, <1>5 DEF ls

LEMMA ReaderInitially == Init => ReaderInv
<1> SUFFICES ASSUME Init PROVE ReaderInv
  OBVIOUS
<1>1. lines = <<>> /\ ~atEnd /\ event = Reader!NoValue /\ data = <<>> /\ frames = <<>>
  BY DEF Init, Reader!Init
<1>2. lines \in Seq(Reader!Lines)
  <2>1. <<>> \in Seq(Reader!Lines)
    OBVIOUS
  <2>2. QED
    BY <1>1, <2>1
<1>3. Yield(lines) = <<>> /\ Opened(lines) = [event |-> Reader!NoValue, data |-> <<>>]
  BY <1>1, NothingRead
<1>4. QED
  BY <1>1, <1>2, <1>3 DEF ReaderInv

\* The frame that is read is the record of what is held.
LEMMA HeldIsOpened ==
  ASSUME ReaderInv, ~atEnd
  PROVE  [event |-> event, data |-> data] = Opened(lines)
<1>1. Opened(lines) \in [event : Held, data : Seq(Held)]
  BY FramedType DEF ReaderInv, Opened
<1> DEFINE o == Opened(lines)
<1>2. o \in [event : Held, data : Seq(Held)] /\ event = o.event /\ data = o.data
  BY <1>1 DEF ReaderInv
<1> HIDE DEF o
<1>3. [event |-> event, data |-> data] = o
  BY <1>2
<1>4. QED
  BY <1>3 DEF o

LEMMA FlushYields ==
  ASSUME NEW ev \in [event : Held, data : Seq(Held)], Reader!Flush(ev), frames \in Seq(Reader!Frames)
  PROVE  /\ frames' = frames \o Yielded(ev)
         /\ event' = Reader!NoValue /\ data' = <<>>
<1>1. frames' = IF ev.data = <<>> /\ ev.event = Reader!NoValue THEN frames ELSE Append(frames, ev)
  BY DEF Reader!Flush
<1>2. ev \in Reader!Frames
  BY DEF Reader!Frames, Held
<1>3. frames \o <<>> = frames /\ frames \o <<ev>> = Append(frames, ev)
  BY <1>2
<1>4. QED
  BY <1>1, <1>3 DEF Reader!Flush, Yielded

LEMMA LineRead ==
  ASSUME ReaderInv, NEW l \in Reader!Lines, Reader!ReadLine(l)
  PROVE  ReaderInv'
<1> DEFINE o == [event |-> event, data |-> data]
<1>1. ~atEnd /\ ~atEnd' /\ lines' = Append(lines, l)
  BY DEF Reader!ReadLine
<1>2. lines \in Seq(Reader!Lines) /\ LineMore(lines, l, lines')
  BY <1>1, AppendedLine DEF ReaderInv
<1>3. o = Opened(lines) /\ frames = Yield(lines) /\ frames \in Seq(Reader!Frames)
      /\ o \in [event : Held, data : Seq(Held)]
  BY <1>1, <1>2, HeldIsOpened, YieldType, FramedType DEF ReaderInv, Opened
<1>4. CASE l.field = "blank"
  <2>1. Reader!Take(o, l) = o
    BY <1>4 DEF Reader!Take
  <2>2. Reader!Flush(o)
    BY <1>4, <2>1 DEF Reader!ReadLine
  <2> HIDE DEF o
  <2>3. frames' = frames \o Yielded(o) /\ event' = Reader!NoValue /\ data' = <<>>
    BY <1>3, <2>2, FlushYields
  <2>4. Yield(lines') = Yield(lines) \o Yielded(Opened(lines))
    BY <1>2, <1>4, YieldGrows
  <2>5. Opened(lines') = [event |-> Reader!NoValue, data |-> <<>>]
    BY <1>2, <1>4, OpenedAnew
  <2>6. lines' \in Seq(Reader!Lines)
    BY <1>2 DEF LineMore
  <2>7. QED
    BY <1>1, <1>3, <2>3, <2>4, <2>5, <2>6 DEF ReaderInv
<1>5. CASE l.field # "blank"
  <2>1. /\ event' = Reader!Take(o, l).event /\ data' = Reader!Take(o, l).data
        /\ frames' = frames
    BY <1>5 DEF Reader!ReadLine
  <2> HIDE DEF o
  <2>2. Yield(lines') = Yield(lines)
    BY <1>2, <1>5, YieldGrows
  <2>3. Opened(lines') = Reader!Take(o, l)
    BY <1>2, <1>3, <1>5, OpenedLonger
  <2>4. lines' \in Seq(Reader!Lines)
    BY <1>2 DEF LineMore
  <2>5. QED
    BY <1>1, <1>3, <2>1, <2>2, <2>3, <2>4 DEF ReaderInv
<1>6. QED
  BY <1>4, <1>5

LEMMA EndRead ==
  ASSUME ReaderInv, NEW tail \in Reader!Tails, Reader!ReadEnd(tail)
  PROVE  ReaderInv'
<1> DEFINE o == [event |-> event, data |-> data]
<1>1. ~atEnd /\ atEnd' /\ lines' = lines \o tail
  BY DEF Reader!ReadEnd
<1>2. lines \in Seq(Reader!Lines) /\ o = Opened(lines) /\ frames = Yield(lines)
      /\ frames \in Seq(Reader!Frames) /\ o \in [event : Held, data : Seq(Held)]
  BY <1>1, HeldIsOpened, YieldType, FramedType DEF ReaderInv, Opened
<1>3. CASE tail = <<>>
  <2>1. Reader!Flush(o)
    BY <1>3 DEF Reader!ReadEnd
  <2>2. lines' = lines
    BY <1>1, <1>2, <1>3
  <2> HIDE DEF o
  <2>3. frames' = frames \o Yielded(o)
    BY <1>2, <2>1, FlushYields
  <2>4. QED
    BY <1>1, <1>2, <2>2, <2>3 DEF ReaderInv
<1>4. CASE tail # <<>>
  <2>1. PICK l \in Reader!Lines : l.field # "blank" /\ tail = <<l>>
    BY <1>4 DEF Reader!Tails
  <2>2. lines' = Append(lines, l) /\ tail[1] = l
    BY <1>1, <1>2, <2>1
  <2>3. LineMore(lines, l, lines')
    BY <1>2, <2>2, AppendedLine
  <2> DEFINE p == Reader!Take(o, l)
  <2>4. Reader!Flush(p)
    BY <1>4, <2>2 DEF Reader!ReadEnd
  <2>5. lines' \in Seq(Reader!Lines)
    BY <2>3 DEF LineMore
  <2>6. p = Opened(lines') /\ Yield(lines') = Yield(lines)
    <3> HIDE DEF o
    <3>1. Opened(lines') = Reader!Take(Opened(lines), l)
      BY <2>1, <2>3, OpenedLonger
    <3>2. QED
      BY <1>2, <2>1, <2>3, <3>1, YieldGrows
  <2> HIDE DEF p
  <2>7. p \in [event : Held, data : Seq(Held)]
    BY <2>5, <2>6, FramedType DEF Opened
  <2>8. frames' = frames \o Yielded(p)
    BY <1>2, <2>4, <2>7, FlushYields
  <2>9. QED
    BY <1>1, <1>2, <2>5, <2>6, <2>8 DEF ReaderInv
<1>5. QED
  BY <1>3, <1>4

LEMMA ReaderStep == ReaderInv /\ [Next]_vars => ReaderInv'
<1> SUFFICES ASSUME ReaderInv, [Next]_vars PROVE ReaderInv'
  OBVIOUS
<1>1. CASE StreamIsRead
  BY <1>1, LineRead, EndRead DEF StreamIsRead, Reader!Next
<1>2. CASE UNCHANGED readerVars
  BY <1>2 DEF ReaderInv, readerVars
<1>3. QED
  BY <1>1, <1>2 DEF Next, vars, CodexAnswers, ClaudeAnswers, GeminiAnswers, TextAnswers, RequestIsMade

\* The invariant says what the whole stream does.
LEMMA ReferenceIsYield ==
  ASSUME lines \in Seq(Reader!Lines)
  PROVE  Reader!Reference = IF atEnd THEN Yield(lines) \o Yielded(Opened(lines)) ELSE Yield(lines)
<1> DEFINE N    == Len(lines)
           ends == Reader!BlockEnds
           all  == [n \in 1..N + 1 |-> Reader!FrameAt(n)]
           e    == IF atEnd THEN Yielded(Opened(lines)) ELSE <<>>
<1>1. /\ N \in Nat /\ YieldAt(lines) \in Seq(Seq(Reader!Frames)) /\ Len(YieldAt(lines)) = N
      /\ Yield(lines) \in Seq(Reader!Frames)
  BY YieldType
<1>2. ASSUME NEW n \in 1..N + 1 PROVE Reader!Ending(ends, n) = Block(lines, n)
  <2>1. ASSUME NEW k \in 1..n
        PROVE  (\A b \in ends : b < k \/ b >= n)
                 <=> (\A b \in 1..n - 1 : lines[b].field = "blank" => b < k)
    <3>1. \A b \in ends : (b \in 1..N /\ lines[b].field = "blank") \/ b = N + 1
      BY DEF Reader!BlockEnds
    <3>2. \A b \in 1..N : lines[b].field = "blank" => b \in ends
      BY DEF Reader!BlockEnds
    <3> HIDE DEF ends
    <3>3. ASSUME \A b \in ends : b < k \/ b >= n, NEW b \in 1..n - 1, lines[b].field = "blank"
          PROVE  b < k
      <4>1. b \in 1..N /\ ~(b >= n)
        BY <1>1
      <4>2. QED
        BY <3>2, <3>3, <4>1
    <3>4. ASSUME \A b \in 1..n - 1 : lines[b].field = "blank" => b < k, NEW b \in ends
          PROVE  b < k \/ b >= n
      <4>1. CASE b = N + 1
        BY <1>1, <4>1
      <4>2. CASE b \in 1..N /\ lines[b].field = "blank"
        <5>1. b \in 1..n - 1 \/ b >= n
          BY <1>1, <4>2
        <5>2. QED
          BY <3>4, <4>2, <5>1
      <4>3. QED
        BY <3>1, <4>1, <4>2
    <3>5. QED
      BY <3>3, <3>4
  <2>2. QED
    BY <2>1 DEF Reader!Ending, Block
<1>3. ASSUME NEW block PROVE Reader!FrameOf(block) = Framed(lines, block)
  <2>1. ASSUME NEW field PROVE Reader!ValuesOf(block, field) = FieldOf(lines, block, field)
    <3>1. \A s : Reader!FlattenSeq(s) = FlattenSeq(s)
      BY DEF FlattenSeq, Reader!FlattenSeq
    <3>2. QED
      BY <3>1 DEF Reader!ValuesOf, FieldOf, Shown
  <2>2. QED
    BY <2>1 DEF Reader!FrameOf, Framed, Last, Reader!Last
<1>4. ASSUME NEW n \in 1..N + 1
      PROVE  Reader!FrameAt(n) = IF n \in ends THEN Yielded(Framed(lines, Block(lines, n))) ELSE <<>>
  BY <1>2, <1>3 DEF Reader!FrameAt, Yielded
<1>5. /\ \A n \in 1..N : n \in ends <=> lines[n].field = "blank"
      /\ N + 1 \in ends <=> atEnd
  BY <1>1 DEF Reader!BlockEnds
<1> HIDE DEF ends
<1>6. ASSUME NEW n \in 1..N PROVE all[n] = YieldAt(lines)[n]
  <2>1. n \in 1..N + 1
    BY <1>1
  <2>2. QED
    BY <1>4, <1>5, <2>1 DEF YieldAt
<1>7. all[N + 1] = e
  <2>1. N + 1 \in 1..N + 1
    BY <1>1
  <2>2. QED
    BY <1>4, <1>5, <2>1 DEF Opened
<1>8. e \in Seq(Reader!Frames)
  <2>1. <<>> \in Seq(Reader!Frames)
    OBVIOUS
  <2>2. Yielded(Opened(lines)) \in Seq(Reader!Frames)
    BY YieldType DEF Opened
  <2>3. QED
    BY <2>1, <2>2
<1>9. all \in Seq(Seq(Reader!Frames)) /\ Len(all) = N + 1
  <2> DEFINE A(n) == Reader!FrameAt(n)
  <2>1. \A n \in 1..N + 1 : A(n) \in Seq(Reader!Frames)
    <3>1. ASSUME NEW n \in 1..N + 1 PROVE A(n) \in Seq(Reader!Frames)
      <4>1. <<>> \in Seq(Reader!Frames)
        OBVIOUS
      <4>2. Yielded(Framed(lines, Block(lines, n))) \in Seq(Reader!Frames)
        BY YieldType
      <4>3. QED
        BY <1>4, <4>1, <4>2
    <3>2. QED
      BY <3>1
  <2>2. all = [n \in 1..N + 1 |-> A(n)]
    OBVIOUS
  <2> HIDE DEF A, all
  <2>3. QED
    BY <1>1, <2>1, <2>2
<1>10. Reader!Reference = FlattenSeq(all)
  <2>1. \A s : Reader!FlattenSeq(s) = FlattenSeq(s)
    BY DEF FlattenSeq, Reader!FlattenSeq
  <2>2. QED
    BY <2>1 DEF Reader!Reference
<1> HIDE DEF all
<1>11. FlattenSeq(all) = Yield(lines) \o e
  <2> DEFINE a == YieldAt(lines)
  <2>1. /\ a \in Seq(Seq(Reader!Frames)) /\ Len(all) = Len(a) + 1 /\ Len(a) = N
        /\ \A n \in 1..Len(a) : all[n] = a[n]
    BY <1>1, <1>6, <1>9
  <2> HIDE DEF a
  <2>2. FlattenSeq(all) = FlattenSeq(a) \o all[Len(a) + 1]
    BY <1>9, <2>1, OneMoreText
  <2>3. QED
    BY <1>7, <2>1, <2>2 DEF Yield, a
<1>12. Yield(lines) \o <<>> = Yield(lines)
  BY <1>1
<1>13. QED
  BY <1>10, <1>11, <1>12

\* However many lines a stream has and wherever they are blank, the frames are
\* those of the stream, and the last one is not lost.
THEOREM FramesAreTheStreams == Spec => []FramesOfTheStream
<1>1. ReaderInv => FramesOfTheStream
  BY ReferenceIsYield DEF ReaderInv, FramesOfTheStream, Reader!FramesOfTheStream
<1>2. Spec => []ReaderInv
  BY ReaderInitially, ReaderStep, PTL DEF Spec
<1>3. QED
  BY <1>1, <1>2, PTL

-----------------------------------------------------------------------------
(* What is said.                                                           *)

LEMMA BodiesFlatten == \A s : Bodies!FlattenSeq(s) = FlattenSeq(s)
BY DEF FlattenSeq, Bodies!FlattenSeq

\* The items that are not blank, each a sequence of its own.
Voiced(items) ==
  [k \in 1..Len(items) |-> IF items[k].kind = "blank" THEN <<>> ELSE <<items[k]>>]

LEMMA SpokenIs ==
  \A items : Bodies!Spoken(items) = FlattenSeq(Voiced(items))
BY BodiesFlatten DEF Bodies!Spoken, Voiced

LEMMA SpokenType ==
  ASSUME NEW items \in Seq(Bodies!TurnItems)
  PROVE  /\ Voiced(items) \in Seq(Seq(Bodies!TurnItems)) /\ Len(Voiced(items)) = Len(items)
         /\ Len(items) \in Nat /\ Bodies!Spoken(items) \in Seq(Bodies!TurnItems)
<1>1. ASSUME NEW k \in 1..Len(items)
      PROVE  (IF items[k].kind = "blank" THEN <<>> ELSE <<items[k]>>) \in Seq(Bodies!TurnItems)
  <2>1. items[k] \in Bodies!TurnItems
    OBVIOUS
  <2>2. <<items[k]>> \in Seq(Bodies!TurnItems) /\ <<>> \in Seq(Bodies!TurnItems)
    BY <2>1
  <2>3. QED
    BY <2>2
<1>2. Len(items) \in Nat
  BY NoLength
<1>3. Voiced(items) \in Seq(Seq(Bodies!TurnItems)) /\ Len(Voiced(items)) = Len(items)
  BY <1>1, <1>2 DEF Voiced
<1>4. QED
  BY <1>2, <1>3, FlattenType, SpokenIs

LEMMA SpokenBoth ==
  ASSUME NEW s \in Seq(Bodies!TurnItems), NEW t \in Seq(Bodies!TurnItems)
  PROVE  Bodies!Spoken(s \o t) = Bodies!Spoken(s) \o Bodies!Spoken(t)
<1> DEFINE u == s \o t
           a == Voiced(s)
           b == Voiced(t)
           c == Voiced(u)
<1>1. /\ u \in Seq(Bodies!TurnItems) /\ Len(u) = Len(s) + Len(t)
      /\ Len(s) \in Nat /\ Len(t) \in Nat
      /\ \A n \in 1..Len(s) : u[n] = s[n]
      /\ \A n \in 1..Len(t) : u[Len(s) + n] = t[n]
  BY BothElements
<1> HIDE DEF u
<1>2. /\ a \in Seq(Seq(Bodies!TurnItems)) /\ Len(a) = Len(s)
      /\ b \in Seq(Seq(Bodies!TurnItems)) /\ Len(b) = Len(t)
      /\ c \in Seq(Seq(Bodies!TurnItems)) /\ Len(c) = Len(u)
  BY <1>1, SpokenType
<1>3. ASSUME NEW n \in 1..Len(s) PROVE c[n] = a[n]
  <2>1. n \in 1..Len(u) /\ u[n] = s[n]
    BY <1>1
  <2>2. QED
    BY <2>1 DEF Voiced
<1>4. ASSUME NEW n \in 1..Len(t) PROVE c[Len(s) + n] = b[n]
  <2>1. Len(s) + n \in 1..Len(u) /\ u[Len(s) + n] = t[n]
    BY <1>1
  <2> DEFINE m == Len(s) + n
  <2>2. m \in 1..Len(u) /\ u[m] = t[n]
    BY <2>1
  <2> HIDE DEF m
  <2>3. c[m] = b[n]
    BY <2>2 DEF Voiced
  <2>4. QED
    BY <2>3 DEF m
<1> HIDE DEF a, b, c
<1>5. c = a \o b
  <2>1. Len(c) = Len(a) + Len(b)
    BY <1>1, <1>2
  <2>2. \A n \in 1..Len(a) : c[n] = a[n]
    BY <1>2, <1>3
  <2>3. \A n \in 1..Len(b) : c[Len(a) + n] = b[n]
    BY <1>2, <1>4
  <2>4. QED
    BY <1>2, <2>1, <2>2, <2>3, SameAsBoth
<1>6. FlattenSeq(c) = FlattenSeq(a) \o FlattenSeq(b)
  BY <1>2, <1>5, FlattenBoth
<1>7. QED
  BY <1>6, SpokenIs DEF a, b, c, u

\* What has nothing blank in it is spoken as it is.
LEMMA SpokenWhole ==
  ASSUME NEW s \in Seq(Bodies!TurnItems), \A k \in 1..Len(s) : s[k].kind # "blank"
  PROVE  Bodies!Spoken(s) = s
<1> DEFINE a == Voiced(s)
           N == Len(s)
           g == [i \in 0..N |-> [k \in 1..i |-> s[k]]]
<1>1. a \in Seq(Seq(Bodies!TurnItems)) /\ Len(a) = N /\ N \in Nat
  BY SpokenType
<1>2. \A k \in 1..N : a[k] = <<s[k]>> /\ s[k] \in Bodies!TurnItems
  BY DEF Voiced
<1> HIDE DEF a
<1>3. PICK f : Sums(f, a, Bodies!TurnItems)
  BY <1>1, SumsExist
<1>4. Adds(g, a)
  <2>1. g[0] = <<>>
    <3>1. 0 \in 0..N /\ 1..0 = {}
      BY <1>1
    <3>2. [k \in 1..0 |-> s[k]] = <<>>
      BY <3>1
    <3>3. QED
      BY <3>1, <3>2
  <2>2. ASSUME NEW i \in 1..N PROVE g[i] = g[i - 1] \o a[i]
    <3> DEFINE p == [k \in 1..i - 1 |-> s[k]]
               q == [k \in 1..i |-> s[k]]
               v == s[i]
    <3>1. g[i] = q /\ g[i - 1] = p
      <4>1. i \in 0..N /\ i - 1 \in 0..N
        BY <1>1
      <4>2. QED
        BY <4>1
    <3>2. /\ p \in Seq(Bodies!TurnItems) /\ Len(p) = i - 1
          /\ q \in Seq(Bodies!TurnItems) /\ Len(q) = i
          /\ v \in Bodies!TurnItems
      <4>1. i \in Nat /\ i - 1 \in Nat
        BY <1>1
      <4>2. \A k \in 1..i : s[k] \in Bodies!TurnItems
        BY <1>1
      <4>3. \A k \in 1..i - 1 : s[k] \in Bodies!TurnItems
        BY <1>1
      <4>4. QED
        BY <4>1, <4>2, <4>3
    <3>3. q = p \o <<v>>
      <4>1. <<v>> \in Seq(Bodies!TurnItems) /\ Len(<<v>>) = 1 /\ <<v>>[1] = v
        BY <3>2
      <4>2. \A k \in 1..Len(p) : q[k] = p[k]
        BY <1>1, <3>2
      <4>3. q[Len(p) + 1] = v
        BY <1>1, <3>2
      <4>4. \A k \in 1..1 : q[Len(p) + k] = <<v>>[k]
        BY <4>1, <4>3
      <4>5. Len(q) = Len(p) + 1
        BY <1>1, <3>2
      <4> HIDE DEF p, q, v
      <4>6. QED
        BY <3>2, <4>1, <4>2, <4>4, <4>5, SameAsBoth
    <3>4. a[i] = <<v>>
      BY <1>2
    <3> HIDE DEF p, q, v, g
    <3>5. QED
      BY <3>1, <3>3, <3>4
  <2> HIDE DEF g
  <2>3. QED
    BY <1>1, <2>1, <2>2 DEF Adds
<1>5. g[N] = s
  <2>1. N \in 0..N
    BY <1>1
  <2>2. QED
    BY <2>1
<1> HIDE DEF g
<1>6. f[N] = g[N]
  <2>1. \A i \in 0..Len(a) : g[i] = f[i]
    BY <1>1, <1>3, <1>4, SumsAreOne
  <2>2. N \in 0..Len(a)
    BY <1>1
  <2>3. QED
    BY <2>1, <2>2
<1>7. FlattenSeq(a) = f[N]
  BY <1>1, <1>3, FlattenIsTheSum
<1>8. QED
  BY <1>5, <1>6, <1>7, SpokenIs DEF a

\* A blank is not spoken.
LEMMA SpokenBlank ==
  ASSUME NEW n
  PROVE  Bodies!Spoken(<<Bodies!Item("blank", n)>>) = <<>>
<1> DEFINE i == Bodies!Item("blank", n)
<1>1. i.kind = "blank"
  BY DEF Bodies!Item
<1> HIDE DEF i
<1>2. Voiced(<<i>>) = <<<<>>>>
  <2>1. Len(<<i>>) = 1 /\ <<i>>[1] = i
    OBVIOUS
  <2>2. Voiced(<<i>>) = [k \in 1..1 |-> <<>>]
    <3>1. \A k \in 1..1 : <<i>>[k].kind = "blank"
      BY <1>1, <2>1
    <3>2. QED
      BY <2>1, <3>1 DEF Voiced
  <2>3. [k \in 1..1 |-> <<>>] = <<<<>>>>
    OBVIOUS
  <2>4. QED
    BY <2>2, <2>3
<1>3. FlattenSeq(<<<<>>>>) = <<>>
  <2>1. <<>> \in Seq(Nat)
    OBVIOUS
  <2>2. QED
    BY <2>1, FlattenOne
<1>4. QED
  BY <1>2, <1>3, SpokenIs DEF i

\* A message pushed to the turns is said after all there was.
ItemsOf(T) == [t \in 1..Len(T) |-> T[t].items]
AllItems(T) == FlattenSeq(ItemsOf(T))

LEMMA ItemsType ==
  ASSUME NEW T \in Seq(Bodies!Turns)
  PROVE  /\ ItemsOf(T) \in Seq(Seq(Bodies!TurnItems)) /\ Len(ItemsOf(T)) = Len(T)
         /\ Len(T) \in Nat /\ AllItems(T) \in Seq(Bodies!TurnItems)
<1>1. \A t \in 1..Len(T) : T[t].items \in Seq(Bodies!TurnItems)
  BY TurnType
<1>2. Len(T) \in Nat
  BY NoLength
<1>3. ItemsOf(T) \in Seq(Seq(Bodies!TurnItems)) /\ Len(ItemsOf(T)) = Len(T)
  BY <1>1, <1>2 DEF ItemsOf
<1>4. QED
  BY <1>2, <1>3, FlattenType DEF AllItems

LEMMA FlatPushed ==
  ASSUME NEW T \in Seq(Bodies!Turns), NEW U, NEW role, NEW items \in Seq(Bodies!TurnItems),
         Pushed(T, U, role, items)
  PROVE  Bodies!Flat(U) = Bodies!Flat(T) \o Bodies!Spoken(items)
<1> DEFINE a == ItemsOf(T)
           b == ItemsOf(U)
<1>1. U \in Seq(Bodies!Turns)
  BY DEF Pushed, GoesOn, OneMore
<1>2. /\ a \in Seq(Seq(Bodies!TurnItems)) /\ Len(a) = Len(T) /\ Len(T) \in Nat
      /\ b \in Seq(Seq(Bodies!TurnItems)) /\ Len(b) = Len(U) /\ Len(U) \in Nat
      /\ AllItems(T) \in Seq(Bodies!TurnItems)
  BY <1>1, ItemsType
<1>3. \A t \in 1..Len(T) : a[t] = T[t].items
  BY DEF ItemsOf
<1>4. \A t \in 1..Len(U) : b[t] = U[t].items
  BY DEF ItemsOf
<1> HIDE DEF a, b
<1>5. AllItems(U) = AllItems(T) \o items
  <2>1. CASE GoesOn(T, U, role, items)
    <3>1. /\ Len(T) \in 1..Len(T) /\ U[Len(T)].items = T[Len(T)].items \o items
          /\ Len(U) = Len(T) /\ \A t \in 1..Len(T) : t # Len(T) => U[t] = T[t]
      BY <2>1, KindsGoOn DEF GoesOn
    <3>2. /\ a # <<>> /\ Len(b) = Len(a) /\ b[Len(a)] = a[Len(a)] \o items
          /\ \A t \in 1..Len(a) : t # Len(a) => b[t] = a[t]
      <4>1. a # <<>>
        BY <1>2, <3>1, NoLength
      <4>2. Len(b) = Len(a)
        BY <1>2, <3>1
      <4>3. b[Len(T)] = a[Len(T)] \o items
        BY <1>3, <1>4, <3>1
      <4>4. ASSUME NEW t \in 1..Len(T), t # Len(T) PROVE b[t] = a[t]
        BY <1>3, <1>4, <3>1, <4>4
      <4>5. QED
        BY <1>2, <4>1, <4>2, <4>3, <4>4
    <3>3. FlattenSeq(b) = FlattenSeq(a) \o items
      BY <1>2, <3>2, LastTextLonger
    <3>4. QED
      BY <3>3 DEF AllItems, a, b
  <2>2. CASE OneMore(T, U, role, items)
    <3>1. /\ Len(U) = Len(T) + 1 /\ U[Len(T) + 1].items = items
          /\ \A t \in 1..Len(T) : U[t] = T[t]
      BY <2>2 DEF OneMore
    <3>2. /\ Len(b) = Len(a) + 1 /\ b[Len(a) + 1] = items
          /\ \A t \in 1..Len(a) : b[t] = a[t]
      <4>1. Len(b) = Len(T) + 1 /\ Len(T) + 1 \in 1..Len(U)
        BY <1>2, <3>1
      <4>2. b[Len(T) + 1] = items
        BY <1>4, <3>1, <4>1
      <4>3. ASSUME NEW t \in 1..Len(T) PROVE b[t] = a[t]
        <5>1. t \in 1..Len(U)
          BY <1>2, <4>1
        <5>2. QED
          BY <1>3, <1>4, <3>1, <5>1
      <4>4. QED
        BY <1>2, <4>1, <4>2, <4>3
    <3>3. FlattenSeq(b) = FlattenSeq(a) \o b[Len(a) + 1]
      BY <1>2, <3>2, OneMoreText
    <3>4. QED
      BY <3>2, <3>3 DEF AllItems, a, b
  <2>3. QED
    BY <2>1, <2>2 DEF Pushed
<1>6. \A S : Bodies!Flat(S) = Bodies!Spoken(AllItems(S))
  BY BodiesFlatten DEF Bodies!Flat, AllItems, ItemsOf
<1> DEFINE all == AllItems(T)
<1>7. all \in Seq(Bodies!TurnItems) /\ AllItems(U) = all \o items /\ all = AllItems(T)
  BY <1>2, <1>5
<1> HIDE DEF all
<1>8. Bodies!Spoken(all \o items) = Bodies!Spoken(all) \o Bodies!Spoken(items)
  BY <1>7, SpokenBoth
<1>9. QED
  BY <1>6, <1>7, <1>8

-----------------------------------------------------------------------------
(* The places of the messages of a kind.                                   *)

Marked(S, L) == [n \in 1..L |-> IF n \in S THEN <<n>> ELSE <<>>]
Places(S, L) == FlattenSeq(Marked(S, L))

LEMMA PlacesType ==
  ASSUME NEW S, NEW L \in Nat
  PROVE  /\ Marked(S, L) \in Seq(Seq(Nat)) /\ Len(Marked(S, L)) = L
         /\ Places(S, L) \in Seq(Nat)
<1>1. ASSUME NEW n \in 1..L PROVE (IF n \in S THEN <<n>> ELSE <<>>) \in Seq(Nat)
  <2>1. <<n>> \in Seq(Nat) /\ <<>> \in Seq(Nat)
    OBVIOUS
  <2>2. QED
    BY <2>1
<1>2. Marked(S, L) \in Seq(Seq(Nat)) /\ Len(Marked(S, L)) = L
  BY <1>1 DEF Marked
<1>3. QED
  BY <1>2, FlattenType DEF Places

\* Only the places up to L count.
LEMMA SamePlaces ==
  ASSUME NEW S, NEW R, NEW L, \A n \in 1..L : n \in S <=> n \in R
  PROVE  Places(S, L) = Places(R, L)
<1>1. Marked(S, L) = Marked(R, L)
  BY DEF Marked
<1>2. QED
  BY <1>1 DEF Places

LEMMA OnePlaceMore ==
  ASSUME NEW S, NEW L \in Nat
  PROVE  Places(S, L + 1) = IF L + 1 \in S THEN Append(Places(S, L), L + 1) ELSE Places(S, L)
<1> DEFINE M == L + 1
           a == Marked(S, L)
           b == Marked(S, M)
           p == Places(S, L)
<1>1. M \in Nat /\ M \in 1..M
  OBVIOUS
<1>2. /\ a \in Seq(Seq(Nat)) /\ Len(a) = L /\ b \in Seq(Seq(Nat)) /\ Len(b) = M
      /\ p \in Seq(Nat)
  BY <1>1, PlacesType
<1>3. ASSUME NEW n \in 1..L PROVE b[n] = a[n]
  <2>1. n \in 1..M
    OBVIOUS
  <2>2. QED
    BY <2>1 DEF Marked
<1>4. b[M] = IF M \in S THEN <<M>> ELSE <<>>
  BY <1>1 DEF Marked
<1>5. Len(b) = Len(a) + 1 /\ M = Len(a) + 1
  BY <1>2
<1> HIDE DEF a, b
<1>6. FlattenSeq(b) = FlattenSeq(a) \o b[Len(a) + 1]
  BY <1>2, <1>3, <1>5, OneMoreText
<1>7. Places(S, M) = p \o b[M]
  BY <1>5, <1>6 DEF Places, a, b
<1> HIDE DEF p
<1>8. p \o <<>> = p /\ p \o <<M>> = Append(p, M)
  BY <1>1, <1>2
<1>9. Places(S, M) = IF M \in S THEN Append(p, M) ELSE p
  BY <1>4, <1>7, <1>8
<1>10. QED
  BY <1>9 DEF p

\* The messages of the system, and the others.
OfSystem(ms) == {n \in 1..Len(ms) : Bodies!IsSystem(ms[n])}
OfOthers(ms) == {n \in 1..Len(ms) : ~Bodies!IsSystem(ms[n])}

LEMMA WhereAre ==
  /\ Bodies!SystemTexts = Places(OfSystem(messages), Len(messages))
  /\ DOMAIN Bodies!CursorMessages = 1..Len(Places(OfOthers(messages), Len(messages)))
<1> DEFINE L == Len(messages)
<1>1. Bodies!SystemTexts
        = FlattenSeq([n \in 1..L |-> IF Bodies!IsSystem(messages[n]) THEN <<n>> ELSE <<>>])
  BY BodiesFlatten DEF Bodies!SystemTexts, Bodies!Where
<1>2. Marked(OfSystem(messages), L)
        = [n \in 1..L |-> IF Bodies!IsSystem(messages[n]) THEN <<n>> ELSE <<>>]
  BY DEF Marked, OfSystem
<1>3. Marked(OfOthers(messages), L)
        = [n \in 1..L |-> IF ~Bodies!IsSystem(messages[n]) THEN <<n>> ELSE <<>>]
  BY DEF Marked, OfOthers
<1>4. DOMAIN Bodies!CursorMessages
        = 1..Len(FlattenSeq([n \in 1..L |-> IF ~Bodies!IsSystem(messages[n]) THEN <<n>> ELSE <<>>]))
  BY BodiesFlatten DEF Bodies!CursorMessages, Bodies!Where
<1>5. QED
  BY <1>1, <1>2, <1>3, <1>4 DEF Places

LEMMA CursorAre ==
  ASSUME NEW ns, ns = Places(OfOthers(messages), Len(messages)), NEW k \in 1..Len(ns)
  PROVE  /\ Bodies!CursorMessages[k].role
              = IF messages[ns[k]].role = "assistant" THEN "assistant" ELSE "user"
         /\ Bodies!CursorMessages[k].system <=>
              /\ Bodies!SystemTexts # <<>>
              /\ messages[ns[k]].role # "assistant"
              /\ \A j \in 1..k - 1 : messages[ns[j]].role = "assistant"
<1> DEFINE L  == Len(messages)
           os == FlattenSeq([n \in 1..L |-> IF ~Bodies!IsSystem(messages[n]) THEN <<n>> ELSE <<>>])
<1>1. ns = os
  <2>1. Marked(OfOthers(messages), L)
          = [n \in 1..L |-> IF ~Bodies!IsSystem(messages[n]) THEN <<n>> ELSE <<>>]
    BY DEF Marked, OfOthers
  <2>2. QED
    BY <2>1 DEF Places
<1>2. Bodies!CursorMessages
        = [j \in 1..Len(os) |->
             [role   |-> IF messages[os[j]].role = "assistant" THEN "assistant" ELSE "user",
              text   |-> Bodies!Said(messages[os[j]].content, os[j]),
              system |-> Bodies!Injected(os, j)]]
  BY BodiesFlatten DEF Bodies!CursorMessages, Bodies!Where
<1> HIDE DEF os
<1>3. Bodies!CursorMessages[k]
        = [role   |-> IF messages[ns[k]].role = "assistant" THEN "assistant" ELSE "user",
           text   |-> Bodies!Said(messages[ns[k]].content, ns[k]),
           system |-> Bodies!Injected(ns, k)]
  BY <1>1, <1>2
<1>4. QED
  BY <1>3 DEF Bodies!Injected

-----------------------------------------------------------------------------
(* The conversation the upstream is told.                                  *)

\* A result is the result of a call.
RealMessages == {m \in Bodies!Messages : m.role = "tool" => m.calls # <<>>}

\* What the n-th message m says, and what some messages do, where what is not a
\* text is shown of some roles.
Content(m, n, shown) ==
  CASE Bodies!IsSystem(m) -> <<>>
    [] m.role = "tool"    -> <<Bodies!Item("result", m.calls[1])>>
    [] m.role \in shown   -> Bodies!NormalizeContent(m.content, n) \o Bodies!Calls(m.calls)
    [] OTHER              -> Bodies!Said(m.content, n) \o Bodies!Calls(m.calls)

Contented(ms, shown) == [n \in 1..Len(ms) |-> Content(ms[n], n, shown)]
SaidBy(ms, shown)    == FlattenSeq(Contented(ms, shown))

\* Whose images the upstreams are shown.
OfBoth  == {"user", "assistant"}
OfUsers == {"user"}
Imaged  == {OfBoth, OfUsers}

LEMMA CallsAreItems ==
  ASSUME NEW cs \in Seq(Nat)
  PROVE  /\ Bodies!Calls(cs) \in Seq(Bodies!TurnItems)
         /\ \A k \in 1..Len(Bodies!Calls(cs)) : Bodies!Calls(cs)[k].kind # "blank"
<1>1. Len(cs) \in Nat
  BY NoLength
<1>2. \A k \in 1..Len(cs) : /\ Bodies!Item("call", cs[k]) \in Bodies!TurnItems
                            /\ Bodies!Item("call", cs[k]).kind # "blank"
  BY DEF Bodies!Item, Bodies!TurnItems
<1>3. /\ Bodies!Calls(cs) \in Seq(Bodies!TurnItems) /\ Len(Bodies!Calls(cs)) = Len(cs)
      /\ \A k \in 1..Len(cs) : Bodies!Calls(cs)[k] = Bodies!Item("call", cs[k])
  BY <1>1, <1>2 DEF Bodies!Calls
<1>4. QED
  BY <1>2, <1>3

\* The text and the parts are not blank.
LEMMA SaidAloud ==
  ASSUME NEW content, NEW n \in Nat,
         NEW s, s \in {Bodies!NormalizeContent(content, n), Bodies!Said(content, n)}
  PROVE  s \in Seq(Bodies!TurnItems) /\ Bodies!Spoken(s) = s
<1> DEFINE x == Bodies!Item("text", n)
           y == Bodies!Item("image", n)
<1>1. x.kind = "text" /\ y.kind = "image"
  BY DEF Bodies!Item
<1>2. s = <<x>> \/ s = <<x, y>> \/ s = <<>>
  BY DEF Bodies!NormalizeContent, Bodies!Said
<1>3. s \in Seq(Bodies!TurnItems)
  BY PlainItems DEF Plain
<1> HIDE DEF x, y
<1>4. \A k \in 1..Len(s) : s[k].kind # "blank"
  <2>1. CASE s = <<x>>
    BY <1>1, <2>1
  <2>2. CASE s = <<x, y>>
    <3>1. Len(s) = 2 /\ s[1] = x /\ s[2] = y
      BY <2>2
    <3>2. \A k \in 1..2 : k = 1 \/ k = 2
      OBVIOUS
    <3>3. QED
      BY <1>1, <3>1, <3>2
  <2>3. CASE s = <<>>
    BY <2>3
  <2>4. QED
    BY <1>2, <2>1, <2>2, <2>3
<1>5. Bodies!Spoken(s) = s
  BY <1>3, <1>4, SpokenWhole
<1>6. QED
  BY <1>3, <1>5

LEMMA ContentCases ==
  ASSUME NEW m, NEW n, NEW shown \in Imaged
  PROVE  /\ Bodies!IsSystem(m) => Content(m, n, shown) = <<>>
         /\ m.role = "tool" => Content(m, n, shown) = <<Bodies!Item("result", m.calls[1])>>
         /\ ~Bodies!IsSystem(m) /\ m.role # "tool" =>
              \E s \in {Bodies!NormalizeContent(m.content, n), Bodies!Said(m.content, n)} :
                Content(m, n, shown) = s \o Bodies!Calls(m.calls)
<1> DEFINE i == <<Bodies!Item("result", m.calls[1])>>
           x == Bodies!NormalizeContent(m.content, n)
           y == Bodies!Said(m.content, n)
           a == x \o Bodies!Calls(m.calls)
           b == y \o Bodies!Calls(m.calls)
<1>1. Content(m, n, shown) = CASE Bodies!IsSystem(m) -> <<>>
                               [] m.role = "tool"   -> i
                               [] m.role \in shown  -> a
                               [] OTHER             -> b
  BY DEF Content
<1>2. /\ Bodies!IsSystem(m) <=> m.role \in {"system", "developer"}
      /\ m.role \in shown => m.role \in {"user", "assistant"}
  BY DEF Bodies!IsSystem, Bodies!SystemRoles, Imaged, OfBoth, OfUsers
<1>3. a = x \o Bodies!Calls(m.calls) /\ b = y \o Bodies!Calls(m.calls)
  OBVIOUS
<1> HIDE DEF i, a, b
<1>4. Bodies!IsSystem(m) => Content(m, n, shown) = <<>>
  BY <1>1, <1>2
<1>5. m.role = "tool" => Content(m, n, shown) = i
  BY <1>1, <1>2
<1>6. ~Bodies!IsSystem(m) /\ m.role # "tool" => Content(m, n, shown) \in {a, b}
  BY <1>1
<1>7. QED
  BY <1>3, <1>4, <1>5, <1>6 DEF i

LEMMA ContentType ==
  ASSUME NEW m \in RealMessages, NEW n \in Nat, NEW shown \in Imaged
  PROVE  Content(m, n, shown) \in Seq(Bodies!TurnItems)
<1>1. /\ m.role \in Bodies!Roles /\ m.calls \in Seq(Nat)
      /\ m.role = "tool" => m.calls # <<>>
  BY DEF RealMessages, Bodies!Messages
<1>2. CASE Bodies!IsSystem(m)
  <2>1. Content(m, n, shown) = <<>>
    BY <1>2, ContentCases
  <2>2. QED
    BY <2>1
<1>3. CASE m.role = "tool"
  <2> DEFINE i == Bodies!Item("result", m.calls[1])
  <2>1. Len(m.calls) \in Nat \ {0}
    BY <1>1, <1>3, NoLength
  <2>2. m.calls[1] \in Nat
    BY <1>1, <2>1
  <2>3. i \in Bodies!TurnItems
    BY <2>2 DEF Bodies!Item, Bodies!TurnItems
  <2>4. Content(m, n, shown) = <<i>>
    BY <1>3, ContentCases
  <2> HIDE DEF i
  <2>5. <<i>> \in Seq(Bodies!TurnItems)
    BY <2>3
  <2>6. QED
    BY <2>4, <2>5
<1>4. CASE ~Bodies!IsSystem(m) /\ m.role # "tool"
  <2> DEFINE b == Bodies!Calls(m.calls)
  <2>1. PICK a \in {Bodies!NormalizeContent(m.content, n), Bodies!Said(m.content, n)} :
          Content(m, n, shown) = a \o b
    BY <1>4, ContentCases
  <2>2. a \in Seq(Bodies!TurnItems) /\ b \in Seq(Bodies!TurnItems)
    BY <1>1, SaidAloud, CallsAreItems
  <2> HIDE DEF b
  <2>3. a \o b \in Seq(Bodies!TurnItems)
    BY <2>2, BothElements
  <2>4. QED
    BY <2>1, <2>3
<1>5. QED
  BY <1>2, <1>3, <1>4

LEMMA SaidByType ==
  ASSUME NEW ms \in Seq(RealMessages), NEW shown \in Imaged
  PROVE  /\ Contented(ms, shown) \in Seq(Seq(Bodies!TurnItems))
         /\ Len(Contented(ms, shown)) = Len(ms) /\ Len(ms) \in Nat
         /\ SaidBy(ms, shown) \in Seq(Bodies!TurnItems)
<1>1. Len(ms) \in Nat
  BY NoLength
<1>2. ASSUME NEW n \in 1..Len(ms) PROVE Content(ms[n], n, shown) \in Seq(Bodies!TurnItems)
  <2>1. ms[n] \in RealMessages /\ n \in Nat
    BY <1>1
  <2>2. QED
    BY <2>1, ContentType
<1>3. /\ Contented(ms, shown) \in Seq(Seq(Bodies!TurnItems))
      /\ Len(Contented(ms, shown)) = Len(ms)
  BY <1>1, <1>2 DEF Contented
<1>4. QED
  BY <1>1, <1>3, FlattenType DEF SaidBy

\* mm is ms and a message more.
MessageMore(ms, m, mm) ==
  /\ ms \in Seq(RealMessages) /\ mm \in Seq(RealMessages) /\ m \in RealMessages
  /\ Len(ms) \in Nat /\ Len(mm) = Len(ms) + 1 /\ mm[Len(ms) + 1] = m
  /\ \A n \in 1..Len(ms) : mm[n] = ms[n]

LEMMA AppendedMessage ==
  ASSUME NEW ms \in Seq(RealMessages), NEW m \in RealMessages
  PROVE  MessageMore(ms, m, Append(ms, m))
BY ElementAdded, NoLength DEF MessageMore

LEMMA SaidGrows ==
  ASSUME NEW ms, NEW m, NEW mm, NEW shown \in Imaged, MessageMore(ms, m, mm)
  PROVE  SaidBy(mm, shown) = SaidBy(ms, shown) \o Content(m, Len(ms) + 1, shown)
<1> DEFINE a == Contented(ms, shown)
           b == Contented(mm, shown)
           N == Len(ms)
<1>1. /\ ms \in Seq(RealMessages) /\ mm \in Seq(RealMessages)
      /\ N \in Nat /\ Len(mm) = N + 1 /\ mm[N + 1] = m
      /\ \A n \in 1..N : mm[n] = ms[n]
  BY DEF MessageMore
<1>2. /\ a \in Seq(Seq(Bodies!TurnItems)) /\ Len(a) = N
      /\ b \in Seq(Seq(Bodies!TurnItems)) /\ Len(b) = Len(mm)
  BY <1>1, SaidByType
<1>3. ASSUME NEW n \in 1..N PROVE b[n] = a[n]
  <2>1. n \in 1..Len(mm) /\ mm[n] = ms[n]
    BY <1>1
  <2>2. QED
    BY <2>1 DEF Contented
<1>4. b[N + 1] = Content(m, N + 1, shown)
  <2>1. N + 1 \in 1..Len(mm)
    BY <1>1
  <2>2. QED
    BY <1>1, <2>1 DEF Contented
<1> HIDE DEF a, b
<1>5. Len(b) = Len(a) + 1 /\ \A n \in 1..Len(a) : b[n] = a[n]
  BY <1>1, <1>2, <1>3
<1>6. FlattenSeq(b) = FlattenSeq(a) \o b[Len(a) + 1]
  BY <1>2, <1>5, OneMoreText
<1>7. QED
  BY <1>2, <1>4, <1>6 DEF SaidBy, a, b

LEMMA SystemsGrow ==
  ASSUME NEW ms, NEW m, NEW mm, MessageMore(ms, m, mm)
  PROVE  Places(OfSystem(mm), Len(mm))
           = IF Bodies!IsSystem(m) THEN Append(Places(OfSystem(ms), Len(ms)), Len(ms) + 1)
             ELSE Places(OfSystem(ms), Len(ms))
<1> DEFINE N == Len(ms)
           S == OfSystem(mm)
           R == OfSystem(ms)
<1>1. N \in Nat /\ Len(mm) = N + 1 /\ mm[N + 1] = m /\ \A n \in 1..N : mm[n] = ms[n]
  BY DEF MessageMore
<1>2. \A n \in 1..N : n \in S <=> n \in R
  BY <1>1 DEF OfSystem
<1>3. N + 1 \in S <=> Bodies!IsSystem(m)
  BY <1>1 DEF OfSystem
<1> HIDE DEF S, R
<1>4. Places(S, N) = Places(R, N)
  BY <1>2, SamePlaces
<1>5. Places(S, N + 1) = IF N + 1 \in S THEN Append(Places(S, N), N + 1) ELSE Places(S, N)
  BY <1>1, OnePlaceMore
<1>6. QED
  BY <1>1, <1>3, <1>4, <1>5 DEF S, R

\* What has been told is what was said.
ToldInvs ==
  /\ Bodies!Flat(claudeTurns) = SaidBy(messages, OfBoth)
  /\ Bodies!Flat(geminiTurns) = SaidBy(messages, OfUsers)
  /\ Bodies!Spoken(input)     = SaidBy(messages, OfUsers)
  /\ instructions = Places(OfSystem(messages), Len(messages))
  /\ geminiSystem = Places(OfSystem(messages), Len(messages))

ConversationInv ==
  /\ RequestInv
  /\ messages \in Seq(RealMessages)
  /\ ToldInvs

LEMMA ConversationInitially == Init => ConversationInv
<1> SUFFICES ASSUME Init PROVE ConversationInv
  OBVIOUS
<1>1. /\ messages = <<>> /\ claudeTurns = <<>> /\ geminiTurns = <<>> /\ input = <<>>
      /\ instructions = <<>> /\ geminiSystem = <<>>
  BY DEF Init, Bodies!Init, Bodies!ChatInit
<1>2. /\ <<>> \in Seq(RealMessages) /\ <<>> \in Seq(Bodies!TurnItems)
      /\ Len(<<>>) = 0 /\ 1..0 = {}
  OBVIOUS
<1>3. (\A shown : Contented(<<>>, shown) = <<>>) /\ ItemsOf(<<>>) = <<>> /\ Voiced(<<>>) = <<>>
  BY <1>2 DEF Contented, ItemsOf, Voiced
<1>4. /\ \A shown : SaidBy(<<>>, shown) = <<>>
      /\ AllItems(<<>>) = <<>> /\ Bodies!Spoken(<<>>) = <<>>
  BY <1>3, FlattenNothing, SpokenIs DEF SaidBy, AllItems
<1>5. Bodies!Flat(<<>>) = <<>>
  BY <1>4, BodiesFlatten DEF Bodies!Flat, AllItems, ItemsOf
<1>6. Places(OfSystem(<<>>), Len(<<>>)) = <<>>
  <2>1. Marked(OfSystem(<<>>), 0) = <<>>
    BY <1>2 DEF Marked
  <2>2. QED
    BY <1>2, <2>1, FlattenNothing DEF Places
<1>7. QED
  BY <1>1, <1>2, <1>4, <1>5, <1>6, RequestInitially DEF ConversationInv, ToldInvs

LEMMA FlatMerged ==
  ASSUME NEW T \in Seq(Bodies!Turns), NEW role \in {"user", "assistant"},
         NEW items \in Seq(Bodies!TurnItems)
  PROVE  /\ Bodies!Flat(Bodies!Push(T, role, items)) = Bodies!Flat(T) \o Bodies!Spoken(items)
         /\ Bodies!Flat(Bodies!PushMerged(T, role, items)) = Bodies!Flat(T) \o Bodies!Spoken(items)
<1> DEFINE U == Bodies!Push(T, role, items)
<1>1. Pushed(T, U, role, items)
  BY PushIs
<1> HIDE DEF U
<1>2. Bodies!Flat(U) = Bodies!Flat(T) \o Bodies!Spoken(items)
  BY <1>1, FlatPushed
<1>3. CASE items = <<>>
  <2>1. Voiced(<<>>) = <<>>
    <3>1. Len(<<>>) = 0 /\ 1..0 = {}
      OBVIOUS
    <3>2. QED
      BY <3>1 DEF Voiced
  <2>2. Bodies!Spoken(items) = <<>>
    BY <1>3, <2>1, FlattenNothing, SpokenIs
  <2> DEFINE all == AllItems(T)
  <2>3. all \in Seq(Bodies!TurnItems)
    BY ItemsType
  <2>4. Bodies!Flat(T) = Bodies!Spoken(all)
    BY BodiesFlatten DEF Bodies!Flat, AllItems, ItemsOf
  <2> HIDE DEF all
  <2>5. Bodies!Flat(T) \in Seq(Bodies!TurnItems)
    BY <2>3, <2>4, SpokenType
  <2>6. Bodies!Flat(T) \o Bodies!Spoken(items) = Bodies!Flat(T)
    BY <2>2, <2>5
  <2>7. Bodies!PushMerged(T, role, items) = T \/ Bodies!PushMerged(T, role, items) = U
    BY DEF Bodies!PushMerged, U
  <2>8. QED
    BY <1>2, <2>6, <2>7 DEF U
<1>4. CASE items # <<>>
  <2>1. Bodies!PushMerged(T, role, items) = U
    BY <1>4 DEF Bodies!PushMerged, U
  <2>2. QED
    BY <1>2, <2>1 DEF U
<1>5. QED
  BY <1>3, <1>4

\* A message is told when each of the translators says what it does.
LEMMA MessageTold ==
  ASSUME ConversationInv, NEW m \in RealMessages, messages' = Append(messages, m),
         NEW all,  all  = Content(m, Len(messages) + 1, OfBoth),
         NEW said, said = Content(m, Len(messages) + 1, OfUsers),
         Bodies!Flat(claudeTurns') = Bodies!Flat(claudeTurns) \o all,
         Bodies!Flat(geminiTurns') = Bodies!Flat(geminiTurns) \o said,
         Bodies!Spoken(input') = Bodies!Spoken(input) \o said,
         Bodies!IsSystem(m) => /\ instructions' = Append(instructions, Len(messages) + 1)
                              /\ geminiSystem' = Append(geminiSystem, Len(messages) + 1),
         ~Bodies!IsSystem(m) => instructions' = instructions /\ geminiSystem' = geminiSystem
  PROVE  messages' \in Seq(RealMessages) /\ ToldInvs'
<1>1. MessageMore(messages, m, messages') /\ ToldInvs /\ OfBoth \in Imaged /\ OfUsers \in Imaged
  BY AppendedMessage DEF ConversationInv, Imaged
<1>2. /\ SaidBy(messages', OfBoth)  = SaidBy(messages, OfBoth) \o all
      /\ SaidBy(messages', OfUsers) = SaidBy(messages, OfUsers) \o said
  BY <1>1, SaidGrows
<1>3. Places(OfSystem(messages'), Len(messages'))
        = IF Bodies!IsSystem(m) THEN Append(Places(OfSystem(messages), Len(messages)), Len(messages) + 1)
          ELSE Places(OfSystem(messages), Len(messages))
  BY <1>1, SystemsGrow
<1>4. messages' \in Seq(RealMessages)
  BY <1>1 DEF MessageMore
<1>5. QED
  BY <1>1, <1>2, <1>3, <1>4 DEF ToldInvs

LEMMA ToldTypes ==
  ASSUME ConversationInv
  PROVE  /\ claudeTurns \in Seq(Bodies!Turns) /\ geminiTurns \in Seq(Bodies!Turns)
         /\ input \in Seq(Bodies!TurnItems) /\ called \in Nat
         /\ pending \subseteq 1..called /\ toolNames = 1..called
         /\ Len(messages) \in Nat /\ Bodies!NextNumber = Len(messages) + 1
         /\ \A shown \in Imaged : SaidBy(messages, shown) \in Seq(Bodies!TurnItems)
         /\ ToldInvs
BY SaidByType DEF ConversationInv, RequestInv, RequestTypes, TurnsInv, Bodies!NextNumber

LEMMA NoCalls == Bodies!Calls(<<>>) = <<>>
<1>1. Len(<<>>) = 0 /\ 1..0 = {}
  OBVIOUS
<1>2. QED
  BY <1>1 DEF Bodies!Calls

LEMMA SystemTold ==
  ASSUME ConversationInv, NEW role \in Bodies!SystemRoles, NEW content \in {"text", "parts"},
         Bodies!SystemMessage(role, content)
  PROVE  messages' \in Seq(RealMessages) /\ ToldInvs'
<1> DEFINE m == Bodies!Message(role, content, <<>>)
           n == Len(messages) + 1
<1>1. /\ messages' = Append(messages, m)
      /\ geminiSystem' = Append(geminiSystem, n)
      /\ instructions' = Append(instructions, n)
      /\ claudeTurns' = claudeTurns /\ geminiTurns' = geminiTurns /\ input' = input
  BY DEF Bodies!SystemMessage, Bodies!Add, Bodies!NextNumber, Bodies!translators
<1>2. m \in RealMessages /\ Bodies!IsSystem(m)
  <2>1. <<>> \in Seq(Nat)
    OBVIOUS
  <2>2. m.role = role /\ role \in Bodies!Roles /\ role # "tool" /\ content \in Bodies!Contents
    BY DEF Bodies!Message, Bodies!Roles, Bodies!SystemRoles, Bodies!Contents
  <2>3. QED
    BY <2>1, <2>2 DEF Bodies!Message, RealMessages, Bodies!Messages, Bodies!IsSystem
<1> HIDE DEF m
<1>3. \A shown \in Imaged : Content(m, n, shown) = <<>>
  BY <1>2, ContentCases
<1>4. \A shown \in Imaged : SaidBy(messages, shown) \o <<>> = SaidBy(messages, shown)
  BY ToldTypes
<1> DEFINE all  == Content(m, n, OfBoth)
           said == Content(m, n, OfUsers)
<1>5. /\ Bodies!Flat(claudeTurns') = Bodies!Flat(claudeTurns) \o all
      /\ Bodies!Flat(geminiTurns') = Bodies!Flat(geminiTurns) \o said
      /\ Bodies!Spoken(input') = Bodies!Spoken(input) \o said
  BY <1>1, <1>3, <1>4, ToldTypes DEF ToldInvs, Imaged
<1> HIDE DEF all, said
<1>6. QED
  BY <1>1, <1>2, <1>5, MessageTold DEF all, said

LEMMA UserTold ==
  ASSUME ConversationInv, NEW content \in Bodies!Contents, Bodies!UserMessage(content)
  PROVE  messages' \in Seq(RealMessages) /\ ToldInvs'
<1> DEFINE m    == Bodies!Message("user", content, <<>>)
           n    == Len(messages) + 1
           mine == Bodies!NormalizeContent(content, n)
           part == Bodies!ContentParts(content, n)
           all  == Content(m, n, OfBoth)
           said == Content(m, n, OfUsers)
<1>1. /\ messages' = Append(messages, m)
      /\ geminiSystem' = geminiSystem /\ instructions' = instructions
      /\ claudeTurns' = Bodies!PushMerged(claudeTurns, "user", mine)
      /\ geminiTurns' = Bodies!Push(geminiTurns, "user", part)
      /\ input' = input \o part
  BY DEF Bodies!UserMessage, Bodies!Add, Bodies!NextNumber, Bodies!systems
<1>2. m \in RealMessages /\ m.role = "user" /\ m.content = content /\ m.calls = <<>>
  <2>1. <<>> \in Seq(Nat)
    OBVIOUS
  <2>2. QED
    BY <2>1 DEF Bodies!Message, RealMessages, Bodies!Messages, Bodies!Roles
<1>3. n \in Nat
  BY ToldTypes
<1> HIDE DEF m, n
<1>4. mine \in Seq(Bodies!TurnItems) /\ part \in Seq(Bodies!TurnItems) /\ Bodies!Spoken(mine) = mine
  BY <1>3, SaidAloud, PlainItems DEF Plain
<1>5. all = mine /\ said = mine
  <2>1. all = mine \o <<>> /\ said = mine \o <<>>
    BY <1>2, NoCalls DEF Content, Bodies!IsSystem, Bodies!SystemRoles, OfBoth, OfUsers
  <2> HIDE DEF all, said, mine
  <2>2. QED
    BY <1>4, <2>1
<1>6. Bodies!Spoken(part) = mine
  <2>1. CASE content = "empty"
    <3>1. part = <<Bodies!Item("blank", n)>> /\ mine = <<>>
      BY <2>1 DEF Bodies!ContentParts, Bodies!NormalizeContent
    <3>2. QED
      BY <3>1, SpokenBlank
  <2>2. CASE content # "empty"
    <3>1. part = mine
      BY <2>2 DEF Bodies!ContentParts
    <3>2. QED
      BY <1>4, <3>1
  <2>3. QED
    BY <2>1, <2>2
<1> HIDE DEF mine, part, all, said
<1>7. Bodies!Flat(claudeTurns') = Bodies!Flat(claudeTurns) \o all
  <2>1. Bodies!Flat(Bodies!PushMerged(claudeTurns, "user", mine))
          = Bodies!Flat(claudeTurns) \o Bodies!Spoken(mine)
    BY <1>4, ToldTypes, FlatMerged
  <2>2. QED
    BY <1>1, <1>4, <1>5, <2>1
<1>8. Bodies!Flat(geminiTurns') = Bodies!Flat(geminiTurns) \o said
  <2>1. Bodies!Flat(Bodies!Push(geminiTurns, "user", part))
          = Bodies!Flat(geminiTurns) \o Bodies!Spoken(part)
    BY <1>4, ToldTypes, FlatMerged
  <2>2. QED
    BY <1>1, <1>5, <1>6, <2>1
<1>9. Bodies!Spoken(input') = Bodies!Spoken(input) \o said
  <2>1. Bodies!Spoken(input \o part) = Bodies!Spoken(input) \o Bodies!Spoken(part)
    BY <1>4, ToldTypes, SpokenBoth
  <2>2. QED
    BY <1>1, <1>5, <1>6, <2>1
<1>10. ~Bodies!IsSystem(m)
  BY <1>2 DEF Bodies!IsSystem, Bodies!SystemRoles
<1>11. QED
  BY <1>1, <1>2, <1>7, <1>8, <1>9, <1>10, MessageTold DEF all, said, n

LEMMA ResultTold ==
  ASSUME ConversationInv, NEW c \in pending, Bodies!ToolMessage(c)
  PROVE  messages' \in Seq(RealMessages) /\ ToldInvs'
<1> DEFINE m    == Bodies!Message("tool", "text", <<c>>)
           r    == Bodies!Item("result", c)
           all  == Content(m, Len(messages) + 1, OfBoth)
           said == Content(m, Len(messages) + 1, OfUsers)
<1>1. /\ messages' = Append(messages, m)
      /\ geminiSystem' = geminiSystem /\ instructions' = instructions
      /\ claudeTurns' = Bodies!PushMerged(claudeTurns, "user", <<r>>)
      /\ geminiTurns' = Bodies!Push(geminiTurns, "user", <<Bodies!Result(c, toolNames)>>)
      /\ input' = Append(input, r)
  BY DEF Bodies!ToolMessage, Bodies!Add, Bodies!systems
<1>2. c \in Nat /\ c \in toolNames
  BY ToldTypes
<1>3. m \in RealMessages /\ m.role = "tool" /\ m.calls = <<c>>
  <2>1. <<c>> \in Seq(Nat) /\ <<c>> # <<>>
    BY <1>2
  <2>2. QED
    BY <2>1 DEF Bodies!Message, RealMessages, Bodies!Messages, Bodies!Roles, Bodies!Contents
<1> HIDE DEF m
<1>4. Bodies!Result(c, toolNames) = r
  BY <1>2 DEF Bodies!Result
<1>5. r \in Bodies!TurnItems /\ r.kind # "blank"
  BY <1>2 DEF Bodies!Item, Bodies!TurnItems
<1>6. ~Bodies!IsSystem(m) /\ all = <<r>> /\ said = <<r>>
  <2>1. m.calls[1] = c
    BY <1>3
  <2>2. ~Bodies!IsSystem(m)
    BY <1>3 DEF Bodies!IsSystem, Bodies!SystemRoles
  <2>3. QED
    BY <1>3, <2>1, <2>2, ContentCases DEF Imaged
<1> HIDE DEF r, all, said
<1>7. <<r>> \in Seq(Bodies!TurnItems) /\ Bodies!Spoken(<<r>>) = <<r>>
  <2>1. <<r>> \in Seq(Bodies!TurnItems) /\ \A k \in 1..Len(<<r>>) : <<r>>[k].kind # "blank"
    BY <1>5
  <2> DEFINE s == <<r>>
  <2> HIDE DEF s
  <2>2. Bodies!Spoken(s) = s
    BY <2>1, SpokenWhole DEF s
  <2>3. QED
    BY <2>1, <2>2 DEF s
<1>8. Bodies!Flat(claudeTurns') = Bodies!Flat(claudeTurns) \o all
  <2>1. Bodies!Flat(Bodies!PushMerged(claudeTurns, "user", <<r>>))
          = Bodies!Flat(claudeTurns) \o Bodies!Spoken(<<r>>)
    BY <1>7, ToldTypes, FlatMerged
  <2>2. QED
    BY <1>1, <1>6, <1>7, <2>1
<1>9. Bodies!Flat(geminiTurns') = Bodies!Flat(geminiTurns) \o said
  <2>1. Bodies!Flat(Bodies!Push(geminiTurns, "user", <<r>>))
          = Bodies!Flat(geminiTurns) \o Bodies!Spoken(<<r>>)
    BY <1>7, ToldTypes, FlatMerged
  <2>2. QED
    BY <1>1, <1>4, <1>6, <1>7, <2>1
<1>10. Bodies!Spoken(input') = Bodies!Spoken(input) \o said
  <2>1. Bodies!Spoken(input \o <<r>>) = Bodies!Spoken(input) \o Bodies!Spoken(<<r>>)
    BY <1>7, ToldTypes, SpokenBoth
  <2>2. input' = input \o <<r>>
    BY <1>1, <1>5, ToldTypes
  <2>3. QED
    BY <1>6, <1>7, <2>1, <2>2
<1>11. QED
  BY <1>1, <1>3, <1>6, <1>8, <1>9, <1>10, MessageTold DEF all, said

\* What an assistant says, and then its calls, is told as it is.
LEMMA WordsTold ==
  ASSUME NEW content, NEW n \in Nat, NEW cs \in Seq(Nat),
         NEW words, words \in {Bodies!NormalizeContent(content, n), Bodies!Said(content, n)},
         NEW items, items = words \o Bodies!Calls(cs)
  PROVE  items \in Seq(Bodies!TurnItems) /\ Bodies!Spoken(items) = items
<1> DEFINE calls == Bodies!Calls(cs)
<1>1. words \in Seq(Bodies!TurnItems) /\ Bodies!Spoken(words) = words
  BY SaidAloud
<1>2. calls \in Seq(Bodies!TurnItems) /\ \A j \in 1..Len(calls) : calls[j].kind # "blank"
  BY CallsAreItems
<1>3. items = words \o calls
  OBVIOUS
<1> HIDE DEF calls
<1>4. Bodies!Spoken(calls) = calls
  BY <1>2, SpokenWhole
<1>5. Bodies!Spoken(words \o calls) = Bodies!Spoken(words) \o Bodies!Spoken(calls)
  BY <1>1, <1>2, SpokenBoth
<1>6. words \o calls \in Seq(Bodies!TurnItems)
  BY <1>1, <1>2, BothElements
<1>7. QED
  BY <1>1, <1>3, <1>4, <1>5, <1>6

LEMMA AssistantTold ==
  ASSUME ConversationInv, NEW content \in Bodies!Contents, NEW k \in 0..2,
         Bodies!AssistantMessage(content, k)
  PROVE  messages' \in Seq(RealMessages) /\ ToldInvs'
<1> DEFINE cs     == Numbered(called, k)
           m      == Bodies!Message("assistant", content, cs)
           n      == Len(messages) + 1
           words  == Bodies!Said(content, n)
           heard  == Bodies!NormalizeContent(content, n)
           calls  == Bodies!Calls(cs)
           items  == words \o calls
           mine   == heard \o calls
           all    == Content(m, n, OfBoth)
           said   == Content(m, n, OfUsers)
<1>1. /\ messages' = Append(messages, m)
      /\ geminiSystem' = geminiSystem /\ instructions' = instructions
      /\ claudeTurns' = Bodies!PushMerged(claudeTurns, "assistant", mine)
      /\ geminiTurns' = Bodies!Push(geminiTurns, "assistant", Bodies!OrBlank(items, n))
      /\ input' = input \o words \o calls
  BY DEF Bodies!AssistantMessage, Bodies!Add, Bodies!NextNumber, Bodies!systems, Numbered
<1>2. cs \in Seq(Nat)
  <2>1. called \in Nat /\ k \in Nat
    BY ToldTypes
  <2>2. QED
    BY <2>1, NumberedCalls
<1>3. n \in Nat
  BY ToldTypes
<1> HIDE DEF cs, n
<1>4. m \in RealMessages /\ m.role = "assistant" /\ m.content = content /\ m.calls = cs
  BY <1>2 DEF Bodies!Message, RealMessages, Bodies!Messages, Bodies!Roles
<1> HIDE DEF m
<1>5. ~Bodies!IsSystem(m) /\ all = mine /\ said = items
  BY <1>4 DEF Content, Bodies!IsSystem, Bodies!SystemRoles, OfBoth, OfUsers
<1>6. words \in Seq(Bodies!TurnItems) /\ calls \in Seq(Bodies!TurnItems)
  BY <1>2, <1>3, SaidAloud, CallsAreItems
<1>7. /\ items \in Seq(Bodies!TurnItems) /\ Bodies!Spoken(items) = items
      /\ mine \in Seq(Bodies!TurnItems) /\ Bodies!Spoken(mine) = mine
  BY <1>2, <1>3, WordsTold
<1> HIDE DEF words, heard, calls
<1>8. input' = input \o items
  <2>1. (input \o words) \o calls = input \o (words \o calls)
    <3>1. \A s, t, u \in Seq(Bodies!TurnItems) : (s \o t) \o u = s \o (t \o u)
      BY TextsInARow
    <3>2. input \in Seq(Bodies!TurnItems)
      BY ToldTypes
    <3>3. QED
      BY <1>6, <3>1, <3>2
  <2>2. QED
    BY <1>1, <2>1
<1> HIDE DEF items, mine, all, said
<1>9. Bodies!Flat(claudeTurns') = Bodies!Flat(claudeTurns) \o all
  <2>1. Bodies!Flat(Bodies!PushMerged(claudeTurns, "assistant", mine))
          = Bodies!Flat(claudeTurns) \o Bodies!Spoken(mine)
    BY <1>7, ToldTypes, FlatMerged
  <2>2. QED
    BY <1>1, <1>5, <1>7, <2>1
<1> DEFINE orBlank == Bodies!OrBlank(items, n)
<1>10. orBlank \in Seq(Bodies!TurnItems) /\ Bodies!Spoken(orBlank) = items
  <2>1. CASE items = <<>>
    <3>1. orBlank = <<Bodies!Item("blank", n)>>
      BY <2>1 DEF Bodies!OrBlank
    <3>2. <<Bodies!Item("blank", n)>> \in Seq(Bodies!TurnItems)
      BY <1>3, PlainOne DEF Plain
    <3>3. QED
      BY <2>1, <3>1, <3>2, SpokenBlank
  <2>2. CASE items # <<>>
    <3>1. orBlank = items
      BY <2>2 DEF Bodies!OrBlank
    <3>2. QED
      BY <1>7, <3>1
  <2>3. QED
    BY <2>1, <2>2
<1>11. geminiTurns' = Bodies!Push(geminiTurns, "assistant", orBlank)
  BY <1>1
<1> HIDE DEF orBlank
<1>12. Bodies!Flat(geminiTurns') = Bodies!Flat(geminiTurns) \o said
  <2>1. Bodies!Flat(Bodies!Push(geminiTurns, "assistant", orBlank))
          = Bodies!Flat(geminiTurns) \o Bodies!Spoken(orBlank)
    BY <1>10, ToldTypes, FlatMerged
  <2>2. QED
    BY <1>5, <1>10, <1>11, <2>1
<1>13. Bodies!Spoken(input') = Bodies!Spoken(input) \o said
  <2>1. Bodies!Spoken(input \o items) = Bodies!Spoken(input) \o Bodies!Spoken(items)
    BY <1>7, ToldTypes, SpokenBoth
  <2>2. QED
    BY <1>5, <1>7, <1>8, <2>1
<1>14. QED
  BY <1>1, <1>4, <1>5, <1>9, <1>12, <1>13, MessageTold DEF all, said, n

LEMMA ConversationStep == ConversationInv /\ [Next]_vars => ConversationInv'
<1> SUFFICES ASSUME ConversationInv, [Next]_vars PROVE ConversationInv'
  OBVIOUS
<1>1. RequestInv'
  BY RequestStep DEF ConversationInv
<1>2. CASE Bodies!ChatNext
  <2>1. messages' \in Seq(RealMessages) /\ ToldInvs'
    BY <1>2, SystemTold, UserTold, AssistantTold, ResultTold DEF Bodies!ChatNext
  <2>2. QED
    BY <1>1, <2>1 DEF ConversationInv
<1>3. CASE UNCHANGED Bodies!chatVars
  BY <1>1, <1>3 DEF ConversationInv, ToldInvs, Bodies!chatVars, Bodies!client, Bodies!systems,
                    Bodies!translators
<1>4. QED
  BY <1>2, <1>3, RequestSteps

-----------------------------------------------------------------------------
(* What Cursor makes of all the messages at once.                          *)

\* Only the first message of the user has the instructions.
LEMMA CursorInstructed ==
  ASSUME messages \in Seq(RealMessages),
         NEW told, told = {k \in DOMAIN Bodies!CursorMessages : Bodies!CursorMessages[k].system}
  PROVE  IF /\ Bodies!SystemTexts # <<>>
            /\ \E k \in DOMAIN Bodies!CursorMessages : Bodies!CursorMessages[k].role = "user"
         THEN \E k : told = {k}
         ELSE told = {}
<1> DEFINE ns == Places(OfOthers(messages), Len(messages))
           c  == Bodies!CursorMessages
           Mine(k) == messages[ns[k]].role # "assistant"
<1>1. DOMAIN c = 1..Len(ns) /\ Len(ns) \in Nat
  <2>1. Len(messages) \in Nat
    BY NoLength
  <2>2. ns \in Seq(Nat)
    BY <2>1, PlacesType
  <2> HIDE DEF ns
  <2>3. Len(ns) \in Nat
    BY <2>2, NoLength
  <2>4. QED
    BY <2>3, WhereAre DEF ns
<1>2. ASSUME NEW k \in 1..Len(ns)
      PROVE  /\ c[k].role = "user" <=> Mine(k)
             /\ c[k].system <=> /\ Bodies!SystemTexts # <<>> /\ Mine(k)
                                /\ \A j \in 1..k - 1 : ~Mine(j)
  BY CursorAre
<1>3. told = {k \in 1..Len(ns) : c[k].system}
  BY <1>1
<1> HIDE DEF ns, c, Mine
<1>4. CASE Bodies!SystemTexts # <<>> /\ \E k \in DOMAIN c : c[k].role = "user"
  <2> DEFINE S == {k \in 1..Len(ns) : Mine(k)}
  <2>1. S \in SUBSET Nat /\ S # {}
    BY <1>1, <1>2, <1>4
  <2>2. PICK k \in S : \A m \in S : k <= m
    BY <2>1, Least
  <2>3. ASSUME NEW m \in 1..Len(ns) PROVE c[m].system <=> m = k
    <3>1. ASSUME c[m].system PROVE m = k
      <4>1. Mine(m) /\ \A j \in 1..m - 1 : ~Mine(j)
        BY <1>2, <3>1
      <4>2. k <= m /\ k \in 1..Len(ns) /\ Mine(k)
        BY <2>2, <4>1
      <4>3. k \notin 1..m - 1
        BY <4>1, <4>2
      <4>4. QED
        BY <1>1, <4>2, <4>3
    <3>2. ASSUME m = k PROVE c[m].system
      <4>1. Mine(m)
        BY <2>2, <3>2
      <4>2. ASSUME NEW j \in 1..m - 1, Mine(j) PROVE FALSE
        <5>1. j \in 1..Len(ns) /\ j < m
          BY <1>1
        <5>2. m <= j
          BY <2>2, <3>2, <4>2, <5>1
        <5>3. QED
          BY <1>1, <5>1, <5>2
      <4>3. QED
        BY <1>2, <1>4, <4>1, <4>2
    <3>3. QED
      BY <3>1, <3>2
  <2>4. told = {k}
    BY <1>3, <2>2, <2>3
  <2>5. QED
    BY <1>4, <2>4 DEF c
<1>5. CASE ~(Bodies!SystemTexts # <<>> /\ \E k \in DOMAIN c : c[k].role = "user")
  <2>1. ASSUME NEW k \in 1..Len(ns) PROVE ~c[k].system
    BY <1>1, <1>2, <1>5
  <2>2. told = {}
    BY <1>3, <2>1
  <2>3. QED
    BY <1>5, <2>2 DEF c
<1>6. QED
  BY <1>4, <1>5

LEMMA InstructionsTold ==
  ASSUME ConversationInv
  PROVE  Bodies!InstructionsKept
<1> DEFINE told == {k \in DOMAIN Bodies!CursorMessages : Bodies!CursorMessages[k].system}
           Asks == /\ Bodies!SystemTexts # <<>>
                   /\ \E k \in DOMAIN Bodies!CursorMessages : Bodies!CursorMessages[k].role = "user"
<1>1. instructions = Bodies!SystemTexts /\ geminiSystem = Bodies!SystemTexts
  BY WhereAre DEF ConversationInv, ToldInvs
<1>2. IF Asks THEN \E k : told = {k} ELSE told = {}
  BY CursorInstructed DEF ConversationInv
<1> HIDE DEF told, Asks
<1>3. IF Asks THEN Bodies!Cardinality(told) = 1 ELSE told = {}
  <2>1. ASSUME NEW k, told = {k} PROVE Bodies!Cardinality(told) = 1
    <3>1. Cardinality({k}) = 1
      BY FS_Singleton
    <3>2. QED
      BY <2>1, <3>1, SameCardinality
  <2>2. QED
    BY <1>2, <2>1
<1>4. QED
  BY <1>1, <1>3 DEF Bodies!InstructionsKept, told, Asks

\* The messages' contents are those the translators tell.
LEMMA ContentIs ==
  ASSUME messages \in Seq(RealMessages), NEW shown
  PROVE  Bodies!Conversation(shown) = SaidBy(messages, shown)
<1>1. ASSUME NEW n \in 1..Len(messages)
      PROVE  Bodies!ContentOf(n, shown) = Content(messages[n], n, shown)
  BY DEF Bodies!ContentOf, Content
<1>2. [n \in 1..Len(messages) |-> Bodies!ContentOf(n, shown)] = Contented(messages, shown)
  BY <1>1 DEF Contented
<1>3. QED
  BY <1>2, BodiesFlatten DEF Bodies!Conversation, SaidBy

\* However long the conversation is, Claude, Gemini and Codex are told all of it,
\* nothing twice and in the client's order; Gemini, Codex and Cursor are told the
\* instructions, once.
THEOREM ConversationsAreKept == Spec => []ConversationKept
<1>1. ConversationInv => ConversationKept
  <2> SUFFICES ASSUME ConversationInv PROVE ConversationKept
    OBVIOUS
  <2>1. Bodies!ConversationKept
    BY ContentIs DEF ConversationInv, ToldInvs, OfBoth, OfUsers, Bodies!ConversationKept
  <2>2. QED
    BY <2>1, InstructionsTold DEF ConversationKept
<1>2. Spec => []ConversationInv
  BY ConversationInitially, ConversationStep, PTL DEF Spec
<1>3. QED
  BY <1>1, <1>2, PTL
=============================================================================
