---------------------------- MODULE GatewayProofs ----------------------------
(***************************************************************************)
(* Theorems about the server: the request limit, the start, the routing,   *)
(* and the body of an answer on its way to the client, for every number of *)
(* requests under way, every limit and every length of the minute, every   *)
(* deployment, and every number of frames.                                 *)
(***************************************************************************)
EXTENDS Gateway, StartupProofs

-----------------------------------------------------------------------------
(* Which parts of the state a step can disturb.                            *)

LEMMA StartupSteps ==
  ASSUME [Next]_vars
  PROVE  StartupNext \/ UNCHANGED startupVars
BY DEF Next, vars, Start, Tick, Arrive, Handle, Authenticate, Limit, ReadBody, Route, CallFails,
       CallRefused, CallSucceeds, Written, Forget, Leave, Others

LEMMA LimiterSteps ==
  ASSUME [Next]_vars
  PROVE  \/ UNCHANGED limiterVars
         \/ Tick
         \/ \E r \in Requests : Limit(r)
BY DEF Next, vars, Start, Arrive, Handle, Authenticate, ReadBody, Route, CallFails,
       CallRefused, CallSucceeds, Written, Forget, Leave, Others

LEMMA RequestSteps ==
  ASSUME [Next]_vars
  PROVE  UNCHANGED requestVars \/ \E r \in Requests : Arrive(r) \/ Handle(r)
BY DEF Next, vars, Start, Tick, Leave, Others

LEMMA BodySteps ==
  ASSUME [Next]_vars
  PROVE  \/ UNCHANGED <<pipeVars, slot, gone>>
         \/ \E r \in Requests :
              \/ CallRefused(r) \/ CallSucceeds(r) \/ Forget(r) \/ Leave(r)
              \/ PipeStep(r) \/ OutsideStep(r)
BY DEF Next, vars, Start, Tick, Arrive, Handle, Authenticate, Limit, ReadBody, Route, CallFails,
       Written

-----------------------------------------------------------------------------
(* The request limit.                                                      *)

LEMMA CappedIs ==
  ASSUME NEW n \in Nat
  PROVE  /\ Capped(n) \in 0..(Rpm + 1)
         /\ n <= Rpm => Capped(n) = n
         /\ n > Rpm => Capped(n) = Rpm + 1
BY LimiterAssumption DEF Capped

LEMMA LimiterTypeInit == LimiterInit => LimiterTypeOK
BY LimiterAssumption DEF LimiterInit, LimiterTypeOK, Ages

LEMMA TickKeepsLimiterType ==
  ASSUME LimiterTypeOK, LimiterTick
  PROVE  LimiterTypeOK'
<1>1. \A a \in Ages : a # 0 => a - 1 \in Ages
  BY LimiterAssumption DEF Ages
<1>2. windowAge' \in 0..Minute
  BY LimiterAssumption DEF LimiterTypeOK, LimiterTick
<1>3. Older(asked) \in [Keys -> [Ages -> 0..(Rpm + 1)]]
  BY <1>1, LimiterAssumption DEF LimiterTypeOK, Older
<1>4. Older(passed) \in [Keys -> [Ages -> Nat]]
  BY <1>1 DEF LimiterTypeOK, Older
<1>5. QED
  BY <1>2, <1>3, <1>4 DEF LimiterTypeOK, LimiterTick

LEMMA NthType ==
  ASSUME LimiterTypeOK, NEW k \in Keys
  PROVE  Nth(k) \in 0..(Rpm + 1)
BY CappedIs, LimiterAssumption DEF Nth, LimiterTypeOK

\* What allow does where there is a limit.
LEMMA AllowIs ==
  ASSUME LimiterTypeOK, NEW k \in Keys, NEW ok \in BOOLEAN, allow(k, ok), Rpm # 0
  PROVE  /\ LimiterTypeOK'
         /\ ok <=> Nth(k) <= Rpm
         /\ windowAge' = IF WindowOver THEN 0 ELSE windowAge
         /\ \A j \in Keys :
              /\ counts'[j] = IF j = k THEN Nth(k) ELSE IF WindowOver THEN 0 ELSE counts[j]
              /\ \A a \in Ages :
                   /\ asked'[j][a] = IF j = k THEN Capped(asked[j][a] + 1) ELSE asked[j][a]
                   /\ passed'[j][a] = IF j = k /\ ok THEN passed[j][a] + 1 ELSE passed[j][a]
<1> DEFINE A == [a \in Ages |-> Capped(asked[k][a] + 1)]
           P == [a \in Ages |-> passed[k][a] + (IF ok THEN 1 ELSE 0)]
<1>1. \A a \in Ages : asked[k][a] \in Nat /\ passed[k][a] \in Nat
  BY LimiterAssumption DEF LimiterTypeOK
<1>2. A \in [Ages -> 0..(Rpm + 1)] /\ P \in [Ages -> Nat]
  BY <1>1, CappedIs
<1>3. asked' = [asked EXCEPT ![k] = A] /\ passed' = [passed EXCEPT ![k] = P]
  BY DEF allow
<1>4. \A a \in Ages : A[a] = Capped(asked[k][a] + 1) /\ P[a] = IF ok THEN passed[k][a] + 1 ELSE passed[k][a]
  BY <1>1
<1> HIDE DEF A, P
<1>5. asked' \in [Keys -> [Ages -> 0..(Rpm + 1)]] /\ passed' \in [Keys -> [Ages -> Nat]]
  BY <1>2, <1>3 DEF LimiterTypeOK
<1>6. /\ counts' \in [Keys -> 0..(Rpm + 1)] /\ windowAge' \in 0..Minute
      /\ windowAge' = IF WindowOver THEN 0 ELSE windowAge
      /\ \A j \in Keys :
           counts'[j] = IF j = k THEN Nth(k) ELSE IF WindowOver THEN 0 ELSE counts[j]
  BY NthType, LimiterAssumption DEF allow, Count, LimiterTypeOK
<1>7. \A j \in Keys : /\ asked'[j] = IF j = k THEN A ELSE asked[j]
                      /\ passed'[j] = IF j = k THEN P ELSE passed[j]
  BY <1>3 DEF LimiterTypeOK
<1>8. ok <=> Nth(k) <= Rpm
  BY DEF allow, Within
<1>9. QED
  BY <1>4, <1>5, <1>6, <1>7, <1>8 DEF LimiterTypeOK

LEMMA AllowKeepsLimiterType ==
  ASSUME LimiterTypeOK, NEW k \in Keys, NEW ok \in BOOLEAN, allow(k, ok)
  PROVE  LimiterTypeOK'
<1>1. CASE Rpm = 0
  BY <1>1 DEF allow, limiterVars, LimiterTypeOK
<1>2. CASE Rpm # 0
  BY <1>2, AllowIs
<1>3. QED
  BY <1>1, <1>2

\* What has passed since the window began is within its counter and the limit; what has
\* passed before that, within another limit; and a counter counts nothing that has not
\* been asked in the window.
LimitInv ==
  /\ LimiterTypeOK
  /\ windowAge = Minute => \A k \in Keys : passed[k][0] = 0
  /\ \A k \in Keys : \A a \in Ages :
       /\ a <= windowAge => passed[k][a] <= counts[k] /\ passed[k][a] <= Rpm
       /\ passed[k][a] <= counts[k] + Rpm /\ passed[k][a] <= 2 * Rpm
       /\ windowAge < Minute /\ a >= windowAge => counts[k] <= asked[k][a]

LEMMA LimitInit == LimiterInit => LimitInv
BY LimiterTypeInit, LimiterAssumption DEF LimiterInit, LimitInv, Ages

LEMMA AllowKeepsLimit ==
  ASSUME LimitInv, Rpm # 0, NEW k \in Keys, NEW ok \in BOOLEAN, allow(k, ok)
  PROVE  LimitInv'
<1>1. LimiterTypeOK
  BY DEF LimitInv
<1>2. /\ Rpm \in Nat /\ Rpm > 0 /\ Minute \in Nat /\ Minute > 0
      /\ windowAge \in 0..Minute /\ windowAge' \in 0..Minute
      /\ WindowOver <=> windowAge = Minute
      /\ windowAge' < Minute
      /\ \A a \in Ages : a \in Nat /\ a < Minute
  <2>1. Rpm \in Nat /\ Rpm > 0 /\ Minute \in Nat /\ Minute > 0
    BY LimiterAssumption
  <2>2. windowAge \in 0..Minute
    BY <1>1 DEF LimiterTypeOK
  <2>3. windowAge' = IF WindowOver THEN 0 ELSE windowAge
    BY <1>1, AllowIs
  <2>4. WindowOver <=> windowAge = Minute
    BY <2>1, <2>2 DEF WindowOver
  <2>5. \A a \in Ages : a \in Nat /\ a < Minute
    BY <2>1 DEF Ages
  <2>6. QED
    BY <2>1, <2>2, <2>3, <2>4, <2>5
<1>3. SUFFICES ASSUME NEW j \in Keys, NEW a \in Ages
               PROVE  /\ a <= windowAge' => passed'[j][a] <= counts'[j] /\ passed'[j][a] <= Rpm
                      /\ passed'[j][a] <= counts'[j] + Rpm /\ passed'[j][a] <= 2 * Rpm
                      /\ a >= windowAge' => counts'[j] <= asked'[j][a]
  BY <1>1, <1>2, AllowIs DEF LimitInv
<1>4. /\ counts[j] \in Nat /\ counts[j] <= Rpm + 1
      /\ asked[j][a] \in Nat /\ asked[j][a] <= Rpm + 1 /\ passed[j][a] \in Nat
  BY <1>1, LimiterAssumption DEF LimiterTypeOK
<1>5. /\ a <= windowAge => passed[j][a] <= counts[j] /\ passed[j][a] <= Rpm
      /\ passed[j][a] <= counts[j] + Rpm /\ passed[j][a] <= 2 * Rpm
      /\ windowAge < Minute /\ a >= windowAge => counts[j] <= asked[j][a]
      /\ windowAge = Minute => passed[j][0] = 0
  BY DEF LimitInv
<1>6. /\ counts'[j] = IF j = k THEN Nth(k) ELSE IF WindowOver THEN 0 ELSE counts[j]
      /\ asked'[j][a] = IF j = k THEN Capped(asked[j][a] + 1) ELSE asked[j][a]
      /\ passed'[j][a] = IF j = k /\ ok THEN passed[j][a] + 1 ELSE passed[j][a]
      /\ windowAge' = IF WindowOver THEN 0 ELSE windowAge
      /\ ok <=> Nth(k) <= Rpm
  BY <1>1, AllowIs
<1>7. Capped(asked[j][a] + 1) = IF asked[j][a] < Rpm THEN asked[j][a] + 1 ELSE Rpm + 1
  BY <1>2, <1>4, CappedIs
<1>8. j = k => Nth(k) = IF WindowOver THEN 1
                        ELSE IF counts[j] < Rpm THEN counts[j] + 1 ELSE Rpm + 1
  BY <1>2, <1>4, CappedIs DEF Nth
<1>9. CASE WindowOver
  <2>1. a <= windowAge /\ windowAge' = 0 /\ (a <= windowAge' => a = 0)
    BY <1>2, <1>6, <1>9
  <2>2. passed[j][a] <= Rpm /\ (a = 0 => passed[j][a] = 0)
    BY <1>2, <1>5, <1>9, <2>1
  <2>3. CASE j = k
    <3>1. counts'[j] = 1 /\ passed'[j][a] = passed[j][a] + 1 /\ asked'[j][a] >= 1
      BY <1>2, <1>4, <1>6, <1>7, <1>8, <1>9, <2>3
    <3>2. QED
      BY <1>2, <1>4, <2>1, <2>2, <3>1
  <2>4. CASE j # k
    BY <1>2, <1>4, <1>6, <1>9, <2>1, <2>2, <2>4
  <2>5. QED
    BY <2>3, <2>4
<1>10. CASE ~WindowOver
  <2>1. windowAge' = windowAge /\ windowAge < Minute
    BY <1>2, <1>6, <1>10
  <2>2. CASE j = k /\ counts[j] < Rpm
    <3>1. ok /\ counts'[j] = counts[j] + 1 /\ passed'[j][a] = passed[j][a] + 1
      BY <1>2, <1>4, <1>6, <1>8, <1>10, <2>2
    <3>2. QED
      BY <1>2, <1>4, <1>5, <1>6, <1>7, <2>1, <2>2, <3>1
  <2>3. CASE j = k /\ counts[j] >= Rpm
    <3>1. ~ok /\ counts'[j] = Rpm + 1 /\ passed'[j][a] = passed[j][a]
      BY <1>2, <1>4, <1>6, <1>8, <1>10, <2>3
    <3>2. QED
      BY <1>2, <1>4, <1>5, <1>6, <1>7, <2>1, <2>3, <3>1
  <2>4. CASE j # k
    BY <1>2, <1>4, <1>5, <1>6, <1>10, <2>1, <2>4
  <2>5. QED
    BY <1>2, <1>4, <2>2, <2>3, <2>4
<1>11. QED
  BY <1>9, <1>10

LEMMA TickKeepsLimit ==
  ASSUME LimitInv, LimiterTick
  PROVE  LimitInv'
<1>1. LimiterTypeOK /\ LimiterTypeOK'
  BY TickKeepsLimiterType DEF LimitInv
<1>2. /\ Rpm \in Nat /\ Minute \in Nat /\ Minute > 0 /\ windowAge \in 0..Minute
      /\ windowAge' = IF windowAge < Minute THEN windowAge + 1 ELSE Minute
      /\ counts' = counts
      /\ \A a \in Ages : a \in Nat /\ a < Minute /\ (a # 0 => a - 1 \in Ages)
  BY <1>1, LimiterAssumption DEF LimiterTypeOK, LimiterTick, Ages
<1>3. \A j \in Keys : \A a \in Ages :
        /\ asked'[j][a]  = IF a = 0 THEN 0 ELSE asked[j][a - 1]
        /\ passed'[j][a] = IF a = 0 THEN 0 ELSE passed[j][a - 1]
  BY DEF LimiterTick, Older
<1>4. 0 \in Ages
  BY LimiterAssumption DEF Ages
<1>5. ASSUME NEW j \in Keys, NEW a \in Ages
      PROVE  /\ a <= windowAge' => passed'[j][a] <= counts'[j] /\ passed'[j][a] <= Rpm
             /\ passed'[j][a] <= counts'[j] + Rpm /\ passed'[j][a] <= 2 * Rpm
             /\ windowAge' < Minute /\ a >= windowAge' => counts'[j] <= asked'[j][a]
  <2>1. counts[j] \in Nat
    BY <1>1, LimiterAssumption DEF LimiterTypeOK
  <2>2. CASE a = 0
    BY <1>2, <1>3, <2>1, <2>2
  <2>3. CASE a # 0
    <3>1. a - 1 \in Ages /\ asked'[j][a] = asked[j][a - 1] /\ passed'[j][a] = passed[j][a - 1]
      BY <1>2, <1>3, <2>3
    <3>2. passed[j][a - 1] \in Nat /\ asked[j][a - 1] \in Nat
      BY <1>1, <3>1, LimiterAssumption DEF LimiterTypeOK
    <3>3. /\ a - 1 <= windowAge => passed[j][a - 1] <= counts[j] /\ passed[j][a - 1] <= Rpm
          /\ passed[j][a - 1] <= counts[j] + Rpm /\ passed[j][a - 1] <= 2 * Rpm
          /\ windowAge < Minute /\ a - 1 >= windowAge => counts[j] <= asked[j][a - 1]
      BY <3>1 DEF LimitInv
    <3>4. QED
      BY <1>2, <2>1, <3>1, <3>2, <3>3
  <2>4. QED
    BY <2>2, <2>3
<1>6. QED
  BY <1>1, <1>3, <1>4, <1>5 DEF LimitInv

-----------------------------------------------------------------------------
(* Type correctness.                                                       *)

\* Nothing is served before the process listens.
TypeInv ==
  /\ TypeOK /\ PhasesInv
  /\ phase # "serving" => \A r \in Requests : pc[r] = "idle" /\ provider[r] = NoProvider

LEMMA LimitKeyType ==
  ASSUME TypeOK, NEW r \in Requests
  PROVE  LimitKey(r) \in Keys
BY GatewayAssumption DEF TypeOK, LimitKey, NoAsk

LEMMA FindByModelType ==
  ASSUME PhasesInv, NEW m
  PROVE  FindByModel(m) \in Providers \cup {NoProvider}
<1> DEFINE owners == {p \in Providers : ready[p] /\ m \in providers[p].owns}
<1>1. owners \in SUBSET Nat /\ owners \subseteq Providers
  BY DEF PhasesInv, StartupTypeOK, RegistryTypeOK, Providers
<1>2. CASE owners = {}
  BY <1>2 DEF FindByModel
<1>3. CASE owners # {}
  <2>1. FindByModel(m) = First(owners)
    BY <1>3 DEF FindByModel
  <2> HIDE DEF owners
  <2>2. QED
    BY <1>1, <1>3, <2>1, FirstIsLeast
<1>4. QED
  BY <1>2, <1>3

LEMMA TypeInit == Init => TypeInv
<1> SUFFICES ASSUME Init PROVE TypeInv
  OBVIOUS
<1>1. LimiterTypeOK
  BY LimiterTypeInit DEF Init
<1>2. PhasesInv
  BY PhasesInit DEF Init
<1>3. PipeTypeOK
  BY PipeAssumption DEF Init, PipeInit, PipeTypeOK
<1>4. QED
  BY <1>1, <1>2, <1>3 DEF Init, TypeInv, TypeOK, PhasesInv, Points, Statuses

LEMMA LimiterTypeStep ==
  ASSUME TypeInv, [Next]_vars
  PROVE  LimiterTypeOK'
<1>1. CASE UNCHANGED limiterVars
  BY <1>1 DEF limiterVars, TypeInv, TypeOK, LimiterTypeOK
<1>2. CASE Tick
  BY <1>2, TickKeepsLimiterType DEF Tick, TypeInv, TypeOK
<1>3. ASSUME NEW r \in Requests, Limit(r)
      PROVE  LimiterTypeOK'
  BY <1>3, LimitKeyType, AllowKeepsLimiterType DEF Limit, TypeInv, TypeOK
<1>4. QED
  BY <1>1, <1>2, <1>3, LimiterSteps

\* The routed provider is one of the list, which is what it was when the process
\* began to listen.
LEMMA RequestTypeStep ==
  ASSUME TypeInv, [Next]_vars, PhasesInv'
  PROVE  /\ pc'       \in [Requests -> Points]
         /\ ask'      \in [Requests -> Asks \cup {NoAsk}]
         /\ provider' \in [Requests -> Providers' \cup {NoProvider}]
         /\ status'   \in [Requests -> Statuses]
         /\ phase' # "serving" => \A r \in Requests : pc'[r] = "idle" /\ provider'[r] = NoProvider
<1>1. /\ pc       \in [Requests -> Points]
      /\ ask      \in [Requests -> Asks \cup {NoAsk}]
      /\ provider \in [Requests -> Providers \cup {NoProvider}]
      /\ status   \in [Requests -> Statuses]
      /\ phase # "serving" => \A r \in Requests : pc[r] = "idle" /\ provider[r] = NoProvider
  BY DEF TypeInv, TypeOK
<1>2. CASE UNCHANGED requestVars
  <2>1. phase = "serving" => phase' = "serving" /\ UNCHANGED registryVars
    BY StartupSteps DEF StartupNext, startupVars, LoadFile, LoadFails, Refuse, AllLoaded, LoadConfig,
                        RegisterAll, InitProvider, Listen, StartAgain
  <2>2. CASE phase = "serving"
    BY <1>1, <1>2, <2>1, <2>2 DEF requestVars, registryVars, Providers
  <2>3. CASE phase # "serving"
    <3>1. \A r \in Requests : pc'[r] = "idle" /\ provider'[r] = NoProvider
      BY <1>1, <1>2, <2>3 DEF requestVars
    <3>2. provider' \in [Requests -> {NoProvider}]
      BY <1>1, <1>2, <3>1 DEF requestVars
    <3>3. QED
      BY <1>1, <1>2, <3>1, <3>2 DEF requestVars
  <2>4. QED
    BY <2>2, <2>3
<1>3. ASSUME NEW r \in Requests, Arrive(r) \/ Handle(r), phase = "serving",
             UNCHANGED startupVars
      PROVE  /\ pc'       \in [Requests -> Points]
             /\ ask'      \in [Requests -> Asks \cup {NoAsk}]
             /\ provider' \in [Requests -> Providers \cup {NoProvider}]
             /\ status'   \in [Requests -> Statuses]
  <2> USE <1>1 DEF Points, Statuses, Goto, Pass, Reject
  <2>1. CASE Arrive(r)
    BY <2>1 DEF Arrive
  <2>2. CASE Authenticate(r) \/ Limit(r) \/ ReadBody(r) \/ CallFails(r) \/ Written(r)
    BY <2>2 DEF Authenticate, Limit, ReadBody, CallFails, Written
  <2>3. CASE Route(r)
    <3>1. FindByModel(ModelOf(r)) \in Providers \cup {NoProvider}
      BY FindByModelType DEF TypeInv
    <3>2. QED
      BY <2>3, <3>1 DEF Route
  <2>4. CASE CallRefused(r) \/ CallSucceeds(r)
    BY <2>4 DEF CallRefused, CallSucceeds
  <2>5. CASE Forget(r)
    BY <2>5 DEF Forget
  <2>6. QED
    BY <1>3, <2>1, <2>2, <2>3, <2>4, <2>5 DEF Handle
<1>4. ASSUME NEW r \in Requests, Arrive(r) \/ Handle(r)
      PROVE  phase = "serving" /\ UNCHANGED startupVars
  <2>1. phase = "serving"
    BY <1>1, <1>4 DEF Arrive, Handle, Authenticate, Limit, ReadBody, Route, CallFails, CallRefused,
                      CallSucceeds, Written, Forget, Goto, Pass, Reject
  <2>2. UNCHANGED startupVars
    BY <1>4 DEF Arrive, Handle, Authenticate, Limit, ReadBody, Route, CallFails, CallRefused,
                CallSucceeds, Written, Forget
  <2>3. QED
    BY <2>1, <2>2
<1>5. CASE \E r \in Requests : Arrive(r) \/ Handle(r)
  <2>1. phase' = "serving" /\ Providers' = Providers
    BY <1>4, <1>5 DEF startupVars, registryVars, Providers
  <2>2. QED
    BY <1>3, <1>4, <1>5, <2>1
<1>6. QED
  BY <1>2, <1>5, RequestSteps

-----------------------------------------------------------------------------
(* The body of an answer.                                                  *)

Fresh(r) ==
  /\ body[r] = "none" /\ upstream[r] = "none" /\ frames[r] = 0 /\ producer[r] = "none"
  /\ wrote[r] = "open" /\ reader[r] = "none" /\ ~rclosed[r] /\ sent[r] = 0

\* writeUpstream has left its loop.
Leaving(r) == reader[r] \in {"release", "close", "done"}

\* Who holds which end of what, at which point.
EndsInv(r) ==
  /\ pc[r] \notin {"write", "answered"} \/ body[r] = "none" => Fresh(r)
  /\ reader[r] = "none" => body[r] = "none"
  /\ body[r] = "whole" => upstream[r] = "closed" /\ frames[r] = 0
  /\ body[r] # "piped" => producer[r] = "none" /\ wrote[r] = "open" /\ ~rclosed[r]
  /\ body[r] = "piped" => (producer[r] = "none" <=> wrote[r] # "open")
  /\ producer[r] = "shut" \/ wrote[r] # "open" => upstream[r] = "closed"
  /\ rclosed[r] => reader[r] = "done"
  /\ Leaving(r) /\ ~gone[r] => upstream[r] # "open"
  /\ status[r] = 200 /\ ~slot[r] => upstream[r] # "open" \/ reader[r] \in {"close", "done"}

\* What has come out of the pipe, or of the body: sent, or about to be.
Taken(r) == IF reader[r] = "send" THEN sent[r] + 1 ELSE sent[r]

\* What the producer has put into the pipe, as long as its end is not closed.
PutIn(r) ==
  CASE producer[r] = "write"            -> frames[r]
    [] producer[r] \in {"read", "last"} -> frames[r] + 1
    [] OTHER                            -> frames[r] + 2

\* Nothing is lost on the way, and nothing doubled.
CountInv(r) ==
  /\ body[r] = "whole"   => Taken(r) <= 1
  /\ body[r] = "relayed" => Taken(r) <= frames[r]
  /\ body[r] = "piped"   => Taken(r) <= frames[r] + 2
  /\ reader[r] \in {"read", "send"} =>
       /\ body[r] = "relayed" => Taken(r) = frames[r]
       /\ body[r] = "piped" /\ wrote[r] # "error" => Taken(r) = PutIn(r)
  /\ Leaving(r) /\ ~gone[r] /\ wrote[r] # "error" =>
       /\ body[r] = "whole"   => sent[r] = 1
       /\ body[r] = "relayed" => sent[r] = frames[r]
       /\ body[r] = "piped"   => sent[r] = frames[r] + 2

BodyInv ==
  /\ PipeTypeOK
  /\ \A r \in Requests : EndsInv(r) /\ CountInv(r)

\* PipeTypeOK but for the bound of sent, which needs CountInv.
PipeTypes ==
  /\ body     \in [Requests -> {"none", "whole", "relayed", "piped"}]
  /\ upstream \in [Requests -> {"none", "open", "ended", "closed"}]
  /\ frames   \in [Requests -> 0..MaxFrames]
  /\ producer \in [Requests -> {"none", "read", "write", "last", "exit", "shut"}]
  /\ wrote    \in [Requests -> {"open", "eof", "error"}]
  /\ reader   \in [Requests -> {"none", "read", "send", "release", "close", "done"}]
  /\ rclosed  \in [Requests -> BOOLEAN]
  /\ sent     \in [Requests -> Nat]
  /\ slot     \in [Requests -> BOOLEAN]
  /\ gone     \in [Requests -> BOOLEAN]

StateAt(r) ==
  <<pc[r], status[r], body[r], upstream[r], frames[r], producer[r], wrote[r], reader[r],
    rclosed[r], sent[r], slot[r], gone[r]>>

LEMMA KeptElsewhere ==
  ASSUME NEW q \in Requests, EndsInv(q), CountInv(q), UNCHANGED StateAt(q)
  PROVE  EndsInv(q)' /\ CountInv(q)'
BY DEF StateAt, EndsInv, CountInv, Fresh, Leaving, Taken, PutIn

LEMMA SentBound ==
  ASSUME PipeTypes', \A r \in Requests : EndsInv(r)' /\ CountInv(r)'
  PROVE  PipeTypeOK'
<1>1. ASSUME NEW r \in Requests PROVE sent'[r] \in 0..(MaxFrames + 2)
  <2>1. sent'[r] \in Nat /\ frames'[r] \in 0..MaxFrames /\ MaxFrames \in Nat
    BY PipeAssumption DEF PipeTypes
  <2>2. sent'[r] <= Taken(r)'
    BY <2>1 DEF Taken
  <2>3. body'[r] \in {"none", "whole", "relayed", "piped"} /\ Taken(r)' \in Nat
    BY <2>1 DEF PipeTypes, Taken
  <2>4. CASE body'[r] = "none"
    BY <2>1, <2>4 DEF EndsInv, Fresh
  <2>5. CASE body'[r] # "none"
    BY <2>1, <2>2, <2>3, <2>5 DEF CountInv
  <2>6. QED
    BY <2>4, <2>5
<1>2. QED
  BY <1>1 DEF PipeTypes, PipeTypeOK

LEMMA BodyTypes == PipeTypeOK => PipeTypes
<1>1. 0..(MaxFrames + 2) \subseteq Nat
  BY PipeAssumption
<1>2. QED
  BY <1>1 DEF PipeTypeOK, PipeTypes

LEMMA BodyInit == Init => BodyInv
BY PipeAssumption
   DEF Init, PipeInit, BodyInv, PipeTypeOK, EndsInv, CountInv, Fresh, Leaving, Taken, PutIn

\* A step of the request itself: what it leaves of the body.
LEMMA HandlerKeepsBody ==
  ASSUME BodyInv, TypeOK, NEW r \in Requests,
         Arrive(r) \/ Handle(r) \/ Leave(r)
  PROVE  PipeTypes' /\ EndsInv(r)' /\ CountInv(r)'
<1>0. /\ PipeTypes /\ EndsInv(r) /\ CountInv(r)
      /\ pc \in [Requests -> Points] /\ status \in [Requests -> Statuses]
  BY BodyTypes DEF BodyInv, TypeOK
<1> USE <1>0 DEF EndsInv, CountInv, Fresh, Leaving, Taken, PutIn, Goto, Pass, Reject
<1>1. CASE Arrive(r)
  BY <1>1 DEF Arrive, pipeVars, PipeTypes
<1>2. CASE Authenticate(r) \/ Limit(r) \/ ReadBody(r) \/ Route(r) \/ CallFails(r)
  BY <1>2 DEF Authenticate, Limit, ReadBody, Route, CallFails, pipeVars, PipeTypes
<1>3. CASE Written(r)
  BY <1>3 DEF Written, pipeVars, PipeTypes
<1>4. CASE CallRefused(r)
  BY <1>4 DEF CallRefused, StartBody, PipeTypes
<1>5. CASE CallSucceeds(r)
  <2>1. PICK b \in Bodies : (ask[r].surface = "images" => b = "whole") /\ StartBody(r, b)
    BY <1>5 DEF CallSucceeds
  <2>2. b \in {"whole", "relayed", "piped"}
    BY PipeAssumption
  <2>3. Fresh(r)
    BY <1>5 DEF CallSucceeds
  <2>4. PipeTypes'
    BY <1>5, <2>1, <2>2 DEF CallSucceeds, StartBody, PipeTypes
  <2>5. /\ pc'[r] = "write" /\ body'[r] = b /\ reader'[r] = "read"
        /\ upstream'[r] = IF b = "whole" THEN "closed" ELSE "open"
        /\ producer'[r] = IF b = "piped" THEN "write" ELSE "none"
        /\ slot'[r] = (ask[r].surface # "images")
        /\ UNCHANGED <<frames, wrote, rclosed, sent>>
    BY <1>5, <2>1 DEF CallSucceeds, StartBody, PipeTypes
  <2>6. slot'[r] \/ b = "whole"
    BY <2>1, <2>5
  <2>7. QED
    BY <2>2, <2>3, <2>4, <2>5, <2>6
<1>6. CASE Forget(r)
  BY <1>6, PipeAssumption DEF Forget, NoBody, PipeTypes
<1>7. CASE Leave(r)
  BY <1>7 DEF Leave, pipeVars, requestVars, PipeTypes
<1>8. QED
  BY <1>1, <1>2, <1>3, <1>4, <1>5, <1>6, <1>7 DEF Handle

\* A step of the client or of the upstream.
LEMMA OutsideKeepsBody ==
  ASSUME BodyInv, TypeOK, NEW r \in Requests, OutsideStep(r), UNCHANGED Others
  PROVE  PipeTypes' /\ EndsInv(r)' /\ CountInv(r)'
<1>0. PipeTypes /\ EndsInv(r) /\ CountInv(r) /\ MaxFrames \in Nat
  BY BodyTypes, PipeAssumption DEF BodyInv
<1> USE <1>0 DEF EndsInv, CountInv, Fresh, Leaving, Taken, PutIn, Others, requestVars
<1>1. CASE UpstreamSends(r)
  BY <1>1 DEF UpstreamSends, PipeTypes
<1>2. CASE FinalEvent(r)
  BY <1>2 DEF FinalEvent, PipeTypes
<1>3. CASE UpstreamEnds(r)
  BY <1>3 DEF UpstreamEnds, FindsEnd, PipeTypes
<1>4. CASE ProducePanics(r)
  BY <1>4 DEF ProducePanics, PipeTypes
<1>5. CASE Send(r)
  BY <1>5 DEF Send, PipeTypes
<1>6. QED
  BY <1>1, <1>2, <1>3, <1>4, <1>5 DEF OutsideStep

\* A step of one of the two goroutines.
LEMMA PipeKeepsBody ==
  ASSUME BodyInv, TypeOK, NEW r \in Requests, PipeStep(r), UNCHANGED Others
  PROVE  PipeTypes' /\ EndsInv(r)' /\ CountInv(r)'
<1>0. PipeTypes /\ EndsInv(r) /\ CountInv(r)
  BY BodyTypes DEF BodyInv
<1> USE <1>0 DEF EndsInv, CountInv, Fresh, Leaving, Taken, PutIn, Others, requestVars
<1>1. CASE ReadCancelled(r)
  BY <1>1 DEF ReadCancelled, FindsEnd, PipeTypes
<1>2. CASE Write(r)
  BY <1>2 DEF Write, PipeTypes
<1>3. CASE ProduceReturns(r)
  BY <1>3 DEF ProduceReturns, PipeTypes
<1>4. CASE PipeCloses(r)
  BY <1>4 DEF PipeCloses, PipeTypes
<1>5. CASE ReadWhole(r)
  BY <1>5 DEF ReadWhole, PipeTypes
<1>6. CASE ReadEnds(r)
  BY <1>6 DEF ReadEnds, PipeTypes
<1>7. CASE SendFails(r)
  BY <1>7 DEF SendFails, PipeTypes
<1>8. CASE ReleaseSlot(r)
  BY <1>8 DEF ReleaseSlot, PipeTypes
<1>9. CASE CloseBody(r)
  BY <1>9 DEF CloseBody, PipeTypes
<1>10. QED
  BY <1>1, <1>2, <1>3, <1>4, <1>5, <1>6, <1>7, <1>8, <1>9 DEF PipeStep

\* A step about r leaves the body of every other request alone.
LEMMA OnlyItsOwn ==
  ASSUME BodyInv, TypeOK, NEW r \in Requests, NEW q \in Requests \ {r},
         \/ Arrive(r) \/ Handle(r) \/ Leave(r)
         \/ PipeStep(r) /\ UNCHANGED Others
         \/ OutsideStep(r) /\ UNCHANGED Others
  PROVE  UNCHANGED StateAt(q)
<1>0. /\ PipeTypes
      /\ pc \in [Requests -> Points] /\ status \in [Requests -> Statuses]
  BY BodyTypes DEF BodyInv, TypeOK
<1> USE <1>0 DEF PipeTypes, StateAt
<1>1. CASE Arrive(r) \/ Leave(r)
  BY <1>1 DEF Arrive, Leave, Goto, pipeVars, requestVars
<1>2. CASE Handle(r)
  <2>1. CASE Authenticate(r) \/ Limit(r) \/ ReadBody(r) \/ Route(r) \/ CallFails(r) \/ Written(r)
    BY <2>1 DEF Authenticate, Limit, ReadBody, Route, CallFails, Written, Goto, Pass, Reject, pipeVars
  <2>2. CASE CallRefused(r)
    BY <2>2 DEF CallRefused, Goto, StartBody
  <2>3. CASE CallSucceeds(r)
    BY <2>3 DEF CallSucceeds, Goto, StartBody
  <2>4. CASE Forget(r)
    BY <2>4 DEF Forget, Goto, NoBody
  <2>5. QED
    BY <1>2, <2>1, <2>2, <2>3, <2>4 DEF Handle
<1>3. CASE PipeStep(r) /\ UNCHANGED Others
  BY <1>3 DEF Others, requestVars, PipeStep, ReadCancelled, FindsEnd, Write, ProduceReturns,
              PipeCloses, ReadWhole, ReadEnds, SendFails, ReleaseSlot, CloseBody
<1>4. CASE OutsideStep(r) /\ UNCHANGED Others
  BY <1>4 DEF Others, requestVars, OutsideStep, Send, UpstreamSends, FinalEvent, UpstreamEnds,
              FindsEnd, ProducePanics
<1>5. QED
  BY <1>1, <1>2, <1>3, <1>4

LEMMA BodyStep ==
  ASSUME BodyInv, TypeOK, [Next]_vars
  PROVE  BodyInv'
<1>1. ASSUME NEW r \in Requests,
             \/ Arrive(r) \/ Handle(r) \/ Leave(r)
             \/ PipeStep(r) /\ UNCHANGED Others
             \/ OutsideStep(r) /\ UNCHANGED Others
      PROVE  BodyInv'
  <2>1. PipeTypes' /\ EndsInv(r)' /\ CountInv(r)'
    BY <1>1, HandlerKeepsBody, PipeKeepsBody, OutsideKeepsBody
  <2>2. ASSUME NEW q \in Requests PROVE EndsInv(q)' /\ CountInv(q)'
    <3>1. CASE q = r
      BY <2>1, <3>1
    <3>2. CASE q # r
      <4>1. UNCHANGED StateAt(q)
        BY <1>1, <3>2, OnlyItsOwn
      <4>2. QED
        BY <4>1, KeptElsewhere DEF BodyInv
    <3>3. QED
      BY <3>1, <3>2
  <2>3. PipeTypeOK'
    BY <2>1, <2>2, SentBound
  <2>4. QED
    BY <2>2, <2>3 DEF BodyInv
<1>2. CASE UNCHANGED <<pipeVars, slot, gone, pc, status>>
  <2>1. \A q \in Requests : UNCHANGED StateAt(q)
    BY <1>2 DEF pipeVars, StateAt
  <2>2. PipeTypeOK'
    BY <1>2 DEF BodyInv, PipeTypeOK, pipeVars
  <2>3. QED
    BY <2>1, <2>2, KeptElsewhere DEF BodyInv
<1>3. Start \/ Tick \/ UNCHANGED vars => UNCHANGED <<pipeVars, slot, gone, pc, status>>
  BY DEF Start, Tick, vars, requestVars
<1>4. QED
  BY <1>1, <1>2, <1>3 DEF Next

-----------------------------------------------------------------------------
(* The theorems.                                                           *)

LEMMA TypeStep ==
  ASSUME TypeInv, BodyInv, [Next]_vars
  PROVE  TypeInv' /\ BodyInv'
<1>1. PhasesInv'
  BY StartupSteps, PhasesStep DEF TypeInv
<1>2. LimiterTypeOK'
  BY LimiterTypeStep
<1>3. BodyInv'
  BY BodyStep DEF TypeInv
<1>4. StartupTypeOK' /\ PipeTypeOK'
  BY <1>1, <1>3 DEF PhasesInv, BodyInv
<1>5. TypeOK'
  BY <1>1, <1>2, <1>4, RequestTypeStep DEF TypeOK
<1>6. QED
  BY <1>1, <1>3, <1>5, RequestTypeStep DEF TypeInv

LEMMA TypesAlways == Spec => [](TypeInv /\ BodyInv)
<1>1. Init => TypeInv /\ BodyInv
  BY TypeInit, BodyInit
<1>2. TypeInv /\ BodyInv /\ [Next]_vars => TypeInv' /\ BodyInv'
  BY TypeStep
<1>3. QED
  BY <1>1, <1>2, PTL DEF Spec

\* Every variable of the server keeps its type: what is routed is routed to a
\* provider of the list, and no client is sent more than the frames of its upstream
\* and what opens and ends the stream.
THEOREM TypeCorrect == Spec => []TypeOK
BY TypesAlways, PTL DEF TypeInv

\* The account's slot outlives its upstream, unless the client leaves.
THEOREM SlotsOutliveUpstreams == Spec => []SlotOutlivesUpstream
<1>1. BodyInv => SlotOutlivesUpstream
  BY DEF BodyInv, EndsInv, Leaving, SlotOutlivesUpstream
<1>2. QED
  BY <1>1, TypesAlways, PTL

\* A client that stays gets every frame once.
THEOREM EveryFrameOnce == Spec => []NothingLost
<1>1. BodyInv => NothingLost
  <2> SUFFICES ASSUME BodyInv, NEW r \in Requests, Leaving(r), ~gone[r], wrote[r] # "error"
               PROVE  sent[r] = CASE body[r] = "whole"   -> 1
                                  [] body[r] = "relayed" -> frames[r]
                                  [] body[r] = "piped"   -> frames[r] + 2
    BY DEF NothingLost, Leaving
  <2>1. EndsInv(r) /\ CountInv(r) /\ body[r] \in {"none", "whole", "relayed", "piped"}
    BY DEF BodyInv, PipeTypeOK
  <2>2. body[r] # "none"
    BY <2>1 DEF EndsInv, Fresh, Leaving
  <2>3. QED
    BY <2>1, <2>2 DEF CountInv
<1>2. QED
  BY <1>1, TypesAlways, PTL

LEMMA LimitStep ==
  ASSUME Rpm > 0, LimitInv, TypeInv, [Next]_vars
  PROVE  LimitInv'
<1>1. CASE UNCHANGED limiterVars
  BY <1>1 DEF limiterVars, LimitInv, LimiterTypeOK
<1>2. CASE Tick
  BY <1>2, TickKeepsLimit DEF Tick
<1>3. ASSUME NEW r \in Requests, Limit(r) PROVE LimitInv'
  <2>1. PICK ok \in BOOLEAN : allow(LimitKey(r), ok)
    BY <1>3 DEF Limit
  <2>2. LimitKey(r) \in Keys /\ Rpm # 0
    BY LimitKeyType, LimiterAssumption DEF TypeInv
  <2>3. QED
    BY <2>1, <2>2, AllowKeepsLimit
<1>4. QED
  BY <1>1, <1>2, <1>3, LimiterSteps

LEMMA LimitAlways ==
  ASSUME Rpm > 0
  PROVE  Spec => []LimitInv
<1>1. Init => LimitInv
  BY LimitInit DEF Init
<1>2. LimitInv /\ TypeInv /\ [Next]_vars => LimitInv'
  BY LimitStep
<1>3. QED
  BY <1>1, <1>2, TypesAlways, PTL DEF Spec

\* No minute sees more than twice the limit pass.
THEOREM TwiceTheLimit == Spec => []AtMostTwiceTheLimit
<1>1. CASE Rpm > 0
  <2>1. LimitInv => AtMostTwiceTheLimit
    BY LimiterAssumption DEF LimitInv, AtMostTwiceTheLimit, LastMinute, Ages
  <2>2. QED
    BY <1>1, <2>1, LimitAlways, PTL
<1>2. CASE ~(Rpm > 0)
  <2>1. AtMostTwiceTheLimit
    BY <1>2 DEF AtMostTwiceTheLimit
  <2>2. QED
    BY <2>1, PTL
<1>3. QED
  BY <1>1, <1>2

\* Without a limit nobody is limited.
LEMMA LimitedStep ==
  ASSUME Rpm > 0 => LimitInv, TypeInv, [Next]_vars, NEW r \in Requests, Limited(r)
  PROVE  LastMinute(asked', LimitKey(r)) > Rpm
<1>1. Limit(r) /\ LimitKey(r) \in Keys
  <2>1. pc \in [Requests -> Points]
    BY DEF TypeInv, TypeOK
  <2>2. Limit(r)
    <3>1. PICK q \in Requests : Arrive(q) \/ Handle(q)
      BY RequestSteps DEF Limited, requestVars
    <3>2. \E to \in Points : pc' = [pc EXCEPT ![q] = to]
      BY <3>1 DEF Arrive, Handle, Authenticate, Limit, ReadBody, Route, CallFails, CallRefused,
                  CallSucceeds, Written, Forget, Goto, Pass, Reject, Points
    <3>3. q = r
      BY <2>1, <3>2 DEF Limited
    <3>4. QED
      BY <3>1, <3>3 DEF Limited, Arrive, Handle, Authenticate, ReadBody, Route, CallFails,
                        CallRefused, CallSucceeds, Written, Forget, Goto, Pass, Reject
  <2>3. QED
    BY <2>2, LimitKeyType DEF TypeInv
<1> DEFINE k == LimitKey(r)
<1>2. allow(k, FALSE)
  BY <1>1 DEF Limit, Limited, Pass, Goto, TypeInv, TypeOK
<1>3. Rpm # 0
  BY <1>2 DEF allow
<1>4. LimitInv /\ LimiterTypeOK /\ Rpm \in Nat /\ Minute \in Nat /\ Minute > 0
  BY <1>3, LimiterAssumption DEF LimitInv
<1> HIDE DEF k
<1>5. k \in Keys
  BY <1>1 DEF k
<1>6. Minute - 1 \in Ages
  BY <1>4 DEF Ages
<1>7. /\ ~(Nth(k) <= Rpm)
      /\ asked'[k][Minute - 1] = Capped(asked[k][Minute - 1] + 1)
  BY <1>2, <1>3, <1>4, <1>5, <1>6, AllowIs
<1>8. /\ asked[k][Minute - 1] \in Nat /\ counts[k] \in Nat
      /\ windowAge \in 0..Minute
  BY <1>4, <1>5, <1>6 DEF LimiterTypeOK
<1>9. ~WindowOver /\ counts[k] >= Rpm
  <2>1. Rpm >= 1 /\ (1 <= Rpm => Capped(1) = 1)
    BY <1>3, <1>4, CappedIs
  <2>2. counts[k] + 1 <= Rpm => Capped(counts[k] + 1) = counts[k] + 1
    BY <1>8, CappedIs
  <2>3. Nth(k) = IF WindowOver THEN Capped(0 + 1) ELSE Capped(counts[k] + 1)
    BY DEF Nth
  <2>4. ~WindowOver
    BY <1>4, <1>7, <2>1, <2>3
  <2>5. ~(counts[k] + 1 <= Rpm)
    BY <1>7, <2>2, <2>3, <2>4
  <2>6. QED
    BY <1>4, <1>8, <2>4, <2>5
<1>10. asked[k][Minute - 1] >= Rpm
  <2>1. windowAge < Minute /\ Minute - 1 >= windowAge
    BY <1>4, <1>8, <1>9 DEF WindowOver
  <2>2. counts[k] <= asked[k][Minute - 1]
    BY <1>4, <1>5, <1>6, <2>1 DEF LimitInv
  <2>3. QED
    BY <1>4, <1>8, <1>9, <2>2
<1>11. asked'[k][Minute - 1] = Rpm + 1
  BY <1>4, <1>7, <1>8, <1>10, CappedIs
<1>12. QED
  BY <1>4, <1>11 DEF LastMinute, k

\* Only a caller that is itself busy is limited.
THEOREM LimitedAreBusy == Spec => OnlyTheBusyAreLimited
<1> DEFINE Busy == \A r \in Requests : Limited(r) => LastMinute(asked', LimitKey(r)) > Rpm
<1>1. (Rpm > 0 => LimitInv) /\ TypeInv /\ [Next]_vars => [Busy]_vars
  BY LimitedStep
<1>2. Spec => [](Rpm > 0 => LimitInv)
  <2>1. CASE Rpm > 0
    BY <2>1, LimitAlways, PTL
  <2>2. CASE ~(Rpm > 0)
    <3>1. Rpm > 0 => LimitInv
      BY <2>2
    <3>2. QED
      BY <3>1, PTL
  <2>3. QED
    BY <2>1, <2>2
<1>3. QED
  BY <1>1, <1>2, TypesAlways, PTL DEF Spec, OnlyTheBusyAreLimited

LEMMA GuardAlways == Spec => []GuardInv
<1>1. Init => GuardInv
  BY GuardInit DEF Init
<1>2. GuardInv /\ [Next]_vars => GuardInv'
  BY StartupSteps, GuardStep
<1>3. QED
  BY <1>1, <1>2, PTL DEF Spec

\* However the settings come about, an open gateway does not listen on a public
\* address unless that is allowed, and the keys that win are the keys that count.
THEOREM GuardedBeforeListening == Spec => ListensGuarded
<1> DEFINE Guarded == Listening =>
             /\ (apiKeys = APIKeys) = (Wins("API_KEYS") = "on")
             /\ Wins("API_KEYS") = "on" \/ Wins("HOST") # "on"
                \/ Wins("ALLOW_UNAUTHENTICATED") = "on"
<1>1. GuardInv /\ [Next]_vars => Guarded
  BY StartupSteps, ListensGuardedStep, GatewayAssumption
<1>2. GuardInv /\ [Next]_vars => [Guarded]_<<phase, apiKeys>>
  BY <1>1
<1>3. QED
  BY <1>2, GuardAlways, PTL DEF Spec, ListensGuarded

LEMMA ReadyAlways == Spec => []ReadyInv
<1>1. Init => ReadyInv
  BY ReadyInit DEF Init
<1>2. ReadyInv /\ [Next]_vars => ReadyInv'
  BY StartupSteps, ReadyStep
<1>3. QED
  BY <1>1, <1>2, PTL DEF Spec

\* A provider that cannot start disables itself and no other.
THEOREM FailuresStayIsolated == Spec => FailuresIsolated
<1> DEFINE Isolated == Listening => \A p \in Providers : ready[p] = CanStart(providers[p])
<1>1. ReadyInv /\ [Next]_vars => Isolated
  BY StartupSteps, FailuresIsolatedStep
<1>2. ReadyInv /\ [Next]_vars => [Isolated]_<<phase, ready>>
  BY <1>1
<1>3. QED
  BY <1>2, ReadyAlways, PTL DEF Spec, FailuresIsolated

\* Where nobody lists what he does not own, what is advertised is routed to the
\* provider it is advertised under.
THEOREM AdvertisedRouted ==
  ASSUME \A d \in Deployments : OwnersApart(d)
  PROVE  Spec => []AdvertisedIsRouted
<1>1. Init => RoutesInv
  BY RoutesInit DEF Init
<1>2. RoutesInv /\ [Next]_vars => RoutesInv'
  BY StartupSteps, RoutesStep
<1>3. RoutesInv => AdvertisedIsRouted
  BY ListedIsOwned DEF AdvertisedIsRouted
<1>4. QED
  BY <1>1, <1>2, <1>3, PTL DEF Spec
=============================================================================
