---------------------------- MODULE StartupProofs ----------------------------
(***************************************************************************)
(* Theorems about the registry and the start of the process, for every set *)
(* of models and providers, every number of config files and every list of *)
(* relays.  They are lemmas about StartupNext: GatewayProofs makes them    *)
(* theorems about the server.                                              *)
(***************************************************************************)
EXTENDS Startup, FiniteSetTheorems, WellFoundedInduction, TLAPS

-----------------------------------------------------------------------------
(* The registry's operators.                                               *)

LEMMA LeastOf ==
  ASSUME NEW S \in SUBSET Nat, S # {}
  PROVE  \E n \in S : \A m \in S : n <= m
<1>1. PICK n \in S : \A m \in S : <<m, n>> \notin OpToRel(<, Nat)
  BY NatLessThanWellFounded, WFMin
<1>2. \A m \in S : ~(m < n)
  BY <1>1 DEF OpToRel
<1>3. QED
  BY <1>2

\* The first of some providers is one of them, and before the others.
LEMMA FirstIsLeast ==
  ASSUME NEW S \in SUBSET Nat, S # {}
  PROVE  First(S) \in S /\ \A q \in S : First(S) <= q
BY LeastOf DEF First

\* The relays that are built are among those that are specified.  (The loop is a
\* recursive function: that there is one, and what it yields, is shown by looking at
\* the first place where it would not be so.)
LEMMA RelaysBuilt ==
  ASSUME NEW specs \in Seq(Provider)
  PROVE  BuildCustomProviders(specs) \in Seq({specs[j] : j \in DOMAIN specs})
<1> DEFINE n == Len(specs)
           R == {specs[j] : j \in DOMAIN specs}
           Step(g, i) == IF i = 0 THEN <<>>
                         ELSE IF specs[i].keys THEN Append(g[i - 1], specs[i])
                         ELSE g[i - 1]
           Runs(g, k) == g \in [0..k -> Seq(R)] /\ \A i \in 0..k : g[i] = Step(g, i)
           out == CHOOSE f : f = [i \in 0..n |-> Step(f, i)]
<1>1. n \in Nat /\ DOMAIN specs = 1..n
  OBVIOUS
<1>2. \A i \in 1..n : specs[i] \in R
  BY <1>1
<1>3. <<>> \in Seq(R) /\ \A s \in Seq(R), e \in R : Append(s, e) \in Seq(R)
  OBVIOUS
<1>4. BuildCustomProviders(specs) = out[n]
  BY DEF BuildCustomProviders
<1> HIDE DEF n, R
<1>5. ASSUME NEW k \in 0..n PROVE \E g : Runs(g, k)
  <2> DEFINE Bad == {j \in 0..n : ~\E g : Runs(g, j)}
  <2>1. SUFFICES ASSUME Bad # {} PROVE FALSE
    BY <1>5
  <2>2. Bad \in SUBSET Nat
    BY <1>1
  <2> HIDE DEF Bad
  <2>3. PICK j \in Bad : \A i \in Bad : j <= i
    BY <2>1, <2>2, LeastOf
  <2>4. j \in 0..n /\ ~\E g : Runs(g, j)
    BY <2>3 DEF Bad
  <2>5. CASE j = 0
    <3>1. Runs([i \in 0..0 |-> <<>>], 0)
      BY <1>3
    <3>2. QED
      BY <2>5, <2>4, <3>1
  <2>6. CASE j > 0
    <3>1. j - 1 \in 0..n /\ j - 1 \notin Bad /\ j \in 1..n
      BY <1>1, <2>3, <2>6, <2>4
    <3>2. PICK g : Runs(g, j - 1)
      BY <3>1 DEF Bad
    <3> DEFINE h == [i \in 0..j |-> IF i < j THEN g[i] ELSE Step(g, j)]
    <3>3. Step(g, j) \in Seq(R)
      BY <1>1, <1>2, <1>3, <3>1, <3>2
    <3>4. h \in [0..j -> Seq(R)]
      BY <1>1, <3>1, <3>2, <3>3
    <3>5. ASSUME NEW i \in 0..j PROVE h[i] = Step(h, i)
      <4>1. CASE i < j
        <5>1. i \in 0..(j - 1)
          BY <1>1, <3>1, <4>1
        <5>2. h[i] = g[i] /\ (i # 0 => h[i - 1] = g[i - 1])
          BY <1>1, <3>1, <4>1
        <5>3. g[i] = Step(g, i)
          BY <3>2, <5>1
        <5>4. QED
          BY <5>2, <5>3
      <4>2. CASE i = j
        BY <1>1, <3>1, <3>2, <4>2
      <4>3. QED
        BY <1>1, <3>1, <4>1, <4>2
    <3>6. QED
      BY <2>4, <3>4, <3>5
  <2>7. QED
    BY <1>1, <2>5, <2>6, <2>4
<1>6. PICK g : Runs(g, n)
  <2>1. n \in 0..n
    BY <1>1
  <2> HIDE DEF Runs
  <2>2. QED
    BY <1>5, <2>1
<1>7. g = [i \in 0..n |-> Step(g, i)]
  BY <1>6
<1>8. out = [i \in 0..n |-> Step(out, i)]
  BY <1>7
<1> HIDE DEF out
<1>9. ASSUME NEW k \in 0..n PROVE out[k] \in Seq(R)
  <2> DEFINE Bad == {j \in 0..n : out[j] \notin Seq(R)}
  <2>1. SUFFICES ASSUME Bad # {} PROVE FALSE
    BY <1>9
  <2>2. Bad \in SUBSET Nat
    BY <1>1
  <2> HIDE DEF Bad
  <2>3. PICK j \in Bad : \A i \in Bad : j <= i
    BY <2>1, <2>2, LeastOf
  <2>4. j \in 0..n /\ out[j] \notin Seq(R)
    BY <2>3 DEF Bad
  <2>5. out[j] = Step(out, j)
    BY <1>8, <2>4
  <2>6. CASE j = 0
    BY <1>3, <2>5, <2>6, <2>4
  <2>7. CASE j > 0
    <3>1. j - 1 \in 0..n /\ j - 1 \notin Bad /\ j \in 1..n
      BY <1>1, <2>3, <2>7, <2>4 DEF Bad
    <3>2. QED
      BY <1>2, <1>3, <2>5, <2>7, <2>4, <3>1 DEF Bad
  <2>8. QED
    BY <1>1, <2>6, <2>7, <2>4
<1>10. QED
  BY <1>1, <1>4, <1>9 DEF R

\* The last of some places.
LEMMA LastOf ==
  ASSUME NEW n \in Nat, NEW S \in SUBSET (1..n), S # {}
  PROVE  Max(S) \in S /\ \A i \in S : i <= Max(S)
<1> DEFINE T == {n - i : i \in S}
<1>1. T \in SUBSET Nat /\ T # {}
  <2>1. \A i \in S : n - i \in Nat
    OBVIOUS
  <2>2. QED
    BY <2>1
<1> HIDE DEF T
<1>2. PICK t \in T : \A u \in T : t <= u
  BY <1>1, LeastOf
<1>3. PICK m \in S : t = n - m
  BY <1>2 DEF T
<1>4. ASSUME NEW i \in S PROVE m >= i
  <2>1. n - i \in T
    BY DEF T
  <2>2. n - m <= n - i
    BY <1>2, <1>3, <2>1
  <2>3. QED
    BY <2>2
<1>5. \A i \in S : Max(S) >= i
  BY <1>4 DEF Max
<1>6. Max(S) \in S
  BY <1>4 DEF Max
<1>7. QED
  BY <1>5, <1>6

-----------------------------------------------------------------------------
(* What the process is while it starts.                                    *)

Starting == phase \in {"load", "register", "init"}

\* Before the providers there are none; a process that has exited has read nothing.
PhasesInv ==
  /\ StartupTypeOK
  /\ phase \in {"load", "exited"} => providers = <<>>
  /\ Starting => deployment \in Deployments
  /\ phase = "exited" => read = 0

LEMMA RegisteredType ==
  ASSUME deployment \in Deployments, NEW specs \in LoadCustomSpecs
  PROVE  LET ps == BuildCustomProviders(specs)
         IN  /\ ps \in Seq(Provider)
             /\ ps \o deployment.subs \in Seq(Provider)
             /\ \A i \in DOMAIN ps :
                  \/ \E j \in DOMAIN deployment.inline : ps[i] = deployment.inline[j]
                  \/ \E j \in DOMAIN deployment.file : ps[i] = deployment.file[j]
<1>1. /\ deployment.inline \in Seq(Provider)
      /\ deployment.file \in Seq(Provider)
      /\ deployment.subs \in Seq(Provider)
  BY StartupAssumption
<1>2. specs \in Seq(Provider)
  <2>1. \A s, t \in Seq(Provider) : s \o t \in Seq(Provider)
    OBVIOUS
  <2>2. QED
    BY <1>1, <2>1 DEF LoadCustomSpecs
<1>3. \A j \in DOMAIN specs :
        \/ \E i \in DOMAIN deployment.inline : specs[j] = deployment.inline[i]
        \/ \E i \in DOMAIN deployment.file : specs[j] = deployment.file[i]
  <2>1. ASSUME NEW s \in Seq(Provider), NEW t \in Seq(Provider), NEW j \in DOMAIN (s \o t)
        PROVE  \/ \E i \in DOMAIN s : (s \o t)[j] = s[i]
               \/ \E i \in DOMAIN t : (s \o t)[j] = t[i]
    <3>1. CASE j <= Len(s)
      BY <3>1
    <3>2. CASE j > Len(s)
      <4>1. j - Len(s) \in DOMAIN t /\ (s \o t)[j] = t[j - Len(s)]
        BY <3>2
      <4>2. QED
        BY <4>1
    <3>3. QED
      BY <3>1, <3>2
  <2> DEFINE s == deployment.inline
             t == deployment.file
  <2>2. CASE specs = deployment.inline \o deployment.file
    <3>1. \A j \in DOMAIN (s \o t) : \/ \E i \in DOMAIN s : (s \o t)[j] = s[i]
                                    \/ \E i \in DOMAIN t : (s \o t)[j] = t[i]
      BY <1>1, <2>1
    <3>2. QED
      BY <2>2, <3>1
  <2>3. CASE specs = deployment.file \o deployment.inline
    <3>1. \A j \in DOMAIN (t \o s) : \/ \E i \in DOMAIN t : (t \o s)[j] = t[i]
                                    \/ \E i \in DOMAIN s : (t \o s)[j] = s[i]
      BY <1>1, <2>1
    <3>2. QED
      BY <2>3, <3>1
  <2>4. QED
    BY <2>2, <2>3 DEF LoadCustomSpecs
<1> DEFINE ps == BuildCustomProviders(specs)
<1>4. ps \in Seq({specs[j] : j \in DOMAIN specs})
  BY <1>2, RelaysBuilt
<1> HIDE DEF ps
<1>5. \A i \in DOMAIN ps : ps[i] \in {specs[j] : j \in DOMAIN specs}
  BY <1>4
<1>6. {specs[j] : j \in DOMAIN specs} \subseteq Provider
  BY <1>2
<1>7. ps \in Seq(Provider)
  <2>1. ps \in [1..Len(ps) -> {specs[j] : j \in DOMAIN specs}] /\ Len(ps) \in Nat
    BY <1>4
  <2>2. ps \in [1..Len(ps) -> Provider]
    BY <1>6, <2>1
  <2>3. QED
    BY <2>1, <2>2
<1>8. ps \o deployment.subs \in Seq(Provider)
  BY <1>1, <1>7
<1>9. \A i \in DOMAIN ps : \/ \E j \in DOMAIN deployment.inline : ps[i] = deployment.inline[j]
                           \/ \E j \in DOMAIN deployment.file : ps[i] = deployment.file[j]
  BY <1>3, <1>5
<1>10. QED
  BY <1>7, <1>8, <1>9 DEF ps

LEMMA PhasesInit == StartupInit => PhasesInv
<1> SUFFICES ASSUME StartupInit PROVE PhasesInv
  OBVIOUS
<1>1. deployment.env \in Given /\ Len(deployment.files) \in Nat
  BY StartupAssumption DEF StartupInit
<1>2. <<>> \in Seq(Provider) /\ Len(<<>>) = 0 /\ DOMAIN <<>> = {}
  OBVIOUS
<1>3. ready \in [Providers -> BOOLEAN]
  BY <1>2 DEF StartupInit, RegistryInit, Providers
<1>4. QED
  BY <1>1, <1>2, <1>3
     DEF StartupInit, RegistryInit, PhasesInv, StartupTypeOK, RegistryTypeOK, Starting

LEMMA LoadingStep ==
  ASSUME PhasesInv, LoadFile \/ LoadFails \/ Refuse \/ LoadConfig \/ StartAgain
  PROVE  PhasesInv'
<1> USE DEF PhasesInv, Starting, StartupTypeOK, RegistryTypeOK, Providers
<1>1. \A d \in Deployments : d.env \in Given /\ Len(d.files) \in Nat
                             /\ d.files \in Seq(Given \cup {Invalid})
  BY StartupAssumption
<1>2. Len(NoDeployment.files) = 0
  BY DEF NoDeployment
<1>3. Unset \in Given
  BY DEF Unset, Given
<1>4. CASE LoadFile
  <2>1. read + 1 \in 1..Len(deployment.files) /\ read + 1 \in 0..Len(deployment.files)
    BY <1>1, <1>2, <1>4 DEF LoadFile
  <2>2. deployment.files[read + 1] \in Given
    BY <1>1, <1>4, <2>1 DEF LoadFile
  <2>3. env' \in Given
    BY <1>4, <2>2 DEF LoadFile, WithFile, Given
  <2>4. QED
    BY <1>4, <2>1, <2>3 DEF LoadFile, registryVars
<1>5. CASE LoadFails \/ Refuse
  BY <1>2, <1>3, <1>5 DEF LoadFails, Refuse, AllLoaded, Exit, registryVars
<1>6. CASE LoadConfig
  BY <1>6 DEF LoadConfig, AllLoaded, registryVars
<1>7. CASE StartAgain
  BY <1>1, <1>7 DEF StartAgain, registryVars
<1>8. QED
  BY <1>4, <1>5, <1>6, <1>7

LEMMA RegisterStep ==
  ASSUME PhasesInv, RegisterAll
  PROVE  PhasesInv'
<1>1. PICK specs \in LoadCustomSpecs :
        Register(BuildCustomProviders(specs) \o deployment.subs)
  BY DEF RegisterAll
<1> DEFINE ps == BuildCustomProviders(specs) \o deployment.subs
<1>2. ps \in Seq(Provider)
  BY RegisteredType DEF RegisterAll, PhasesInv, Starting
<1> HIDE DEF ps
<1>3. RegistryTypeOK'
  BY <1>1, <1>2 DEF Register, RegistryTypeOK, Providers, ps
<1>4. QED
  BY <1>3 DEF RegisterAll, PhasesInv, StartupTypeOK, Starting

\* The provider that is initialised next, as it is then.
LEMMA InitedProvider ==
  ASSUME PhasesInv, InitProvider
  PROVE  /\ inited + 1 \in Providers
         /\ providers[inited + 1] \in Provider
         /\ \E p \in Provider :
              /\ \/ p = providers[inited + 1]
                 \/ /\ p = [providers[inited + 1] EXCEPT !.owns = providers[inited + 1].live,
                                                         !.lists = providers[inited + 1].live]
                    /\ IsRelay(providers[inited + 1])
              /\ inited' = inited + 1
              /\ ready' = [ready EXCEPT ![inited + 1] = CanStart(providers[inited + 1])]
              /\ providers' = [providers EXCEPT ![inited + 1] = p]
<1>1. providers \in Seq(Provider) /\ Len(providers) \in Nat /\ inited \in 0..Len(providers)
      /\ inited # Len(providers)
  BY DEF PhasesInv, StartupTypeOK, RegistryTypeOK, InitProvider, AllInited
<1>2. inited + 1 \in Providers
  BY <1>1 DEF Providers
<1> DEFINE q == providers[inited + 1]
<1>3. q \in Provider
  BY <1>1, <1>2 DEF Providers
<1> HIDE DEF q
<1>4. [q EXCEPT !.owns = q.live, !.lists = q.live] \in Provider
  BY <1>3 DEF Provider
<1>5. PICK live \in {{}, q.live} :
        InitNext(IF IsRelay(q) /\ live # {}
                 THEN [q EXCEPT !.owns = live, !.lists = live] ELSE q, CanStart(q))
  BY DEF InitProvider, q
<1>6. CASE IsRelay(q) /\ live # {}
  <2>1. live = q.live
    BY <1>5, <1>6
  <2>2. InitNext([q EXCEPT !.owns = q.live, !.lists = q.live], CanStart(q))
    BY <1>5, <1>6, <2>1
  <2>3. QED
    BY <1>2, <1>3, <1>4, <1>6, <2>2 DEF InitNext, q
<1>7. CASE ~(IsRelay(q) /\ live # {})
  <2>1. InitNext(q, CanStart(q))
    BY <1>5, <1>7
  <2>2. QED
    BY <1>2, <1>3, <2>1 DEF InitNext, q
<1>8. QED
  BY <1>6, <1>7

LEMMA InitStep ==
  ASSUME PhasesInv, InitProvider
  PROVE  PhasesInv'
<1>1. PICK p \in Provider :
        /\ inited' = inited + 1
        /\ ready' = [ready EXCEPT ![inited + 1] = CanStart(providers[inited + 1])]
        /\ providers' = [providers EXCEPT ![inited + 1] = p]
  BY InitedProvider
<1>2. inited + 1 \in Providers /\ providers[inited + 1] \in Provider
  BY InitedProvider
<1>3. CanStart(providers[inited + 1]) \in BOOLEAN
  BY DEF CanStart
<1>4. providers' \in Seq(Provider) /\ Len(providers') = Len(providers) /\ Providers' = Providers
  <2>1. \A s \in Seq(Provider) : \A i \in DOMAIN s :
          LET t == [s EXCEPT ![i] = p]
          IN  t \in Seq(Provider) /\ Len(t) = Len(s) /\ DOMAIN t = DOMAIN s
    OBVIOUS
  <2>2. providers \in Seq(Provider) /\ inited + 1 \in DOMAIN providers
    BY <1>2 DEF PhasesInv, StartupTypeOK, RegistryTypeOK, Providers
  <2>3. QED
    BY <1>1, <2>1, <2>2 DEF Providers
<1>5. ready' \in [Providers -> BOOLEAN]
  BY <1>1, <1>3 DEF PhasesInv, StartupTypeOK, RegistryTypeOK
<1>6. inited' \in 0..Len(providers')
  BY <1>1, <1>2, <1>4 DEF PhasesInv, StartupTypeOK, RegistryTypeOK, Providers
<1>7. QED
  BY <1>4, <1>5, <1>6 DEF PhasesInv, StartupTypeOK, RegistryTypeOK, InitProvider, Starting

LEMMA PhasesStep ==
  ASSUME PhasesInv, StartupNext \/ UNCHANGED startupVars
  PROVE  PhasesInv'
<1>1. CASE Listen
  <2>1. Len(NoDeployment.files) = 0 /\ Unset \in Given
    BY DEF NoDeployment, Unset, Given
  <2>2. QED
    BY <1>1, <2>1 DEF PhasesInv, Listen, StartupTypeOK, RegistryTypeOK, registryVars,
                      Starting, Providers
<1>2. CASE UNCHANGED startupVars
  BY <1>2 DEF PhasesInv, startupVars, StartupTypeOK, RegistryTypeOK, registryVars,
              Starting, Providers
<1>3. QED
  BY <1>1, <1>2, LoadingStep, RegisterStep, InitStep DEF StartupNext

-----------------------------------------------------------------------------
(* A failure disables that provider only.                                  *)

\* Of the providers that have been initialised: who is ready is who can start.
ReadyInv ==
  /\ PhasesInv
  /\ \A p \in Providers : p <= inited => ready[p] = CanStart(providers[p])

LEMMA ReadyInit == StartupInit => ReadyInv
BY PhasesInit DEF ReadyInv, StartupInit, RegistryInit, Providers

LEMMA ReadyStep ==
  ASSUME ReadyInv, StartupNext \/ UNCHANGED startupVars
  PROVE  ReadyInv'
<1>1. PhasesInv'
  BY PhasesStep DEF ReadyInv
<1>2. CASE RegisterAll
  <2>1. inited' = 0
    BY <1>2 DEF RegisterAll, Register
  <2>2. Providers' = 1..Len(providers')
    BY <1>1 DEF PhasesInv, StartupTypeOK, RegistryTypeOK, Providers
  <2>3. \A p \in Providers' : ~(p <= inited')
    BY <2>1, <2>2
  <2>4. QED
    BY <1>1, <2>3 DEF ReadyInv
<1>3. CASE InitProvider
  <2>1. PICK p \in Provider :
          /\ \/ p = providers[inited + 1]
             \/ /\ p = [providers[inited + 1] EXCEPT !.owns = providers[inited + 1].live,
                                                     !.lists = providers[inited + 1].live]
                /\ IsRelay(providers[inited + 1])
          /\ inited' = inited + 1
          /\ ready' = [ready EXCEPT ![inited + 1] = CanStart(providers[inited + 1])]
          /\ providers' = [providers EXCEPT ![inited + 1] = p]
    BY <1>3, InitedProvider DEF ReadyInv
  <2>2. inited + 1 \in Providers /\ providers[inited + 1] \in Provider
    BY <1>3, InitedProvider DEF ReadyInv
  <2>3. CanStart(p) = CanStart(providers[inited + 1])
    BY <2>1, <2>2 DEF CanStart, WarmsAny, WarmsFirst, Provider
  <2>4. Providers' = Providers /\ Providers \subseteq Int /\ inited \in Int
    <3>1. Providers = 1..Len(providers) /\ Len(providers) \in Nat /\ inited \in 0..Len(providers)
      BY DEF ReadyInv, PhasesInv, StartupTypeOK, RegistryTypeOK, Providers
    <3>2. Providers' = Providers
      BY <2>1 DEF Providers
    <3>3. QED
      BY <3>1, <3>2
  <2>5. ready \in [Providers -> BOOLEAN] /\ DOMAIN providers = Providers
    BY DEF ReadyInv, PhasesInv, StartupTypeOK, RegistryTypeOK, Providers
  <2>6. ASSUME NEW q \in Providers, q <= inited + 1
        PROVE  ready'[q] = CanStart(providers'[q])
    <3>1. CASE q = inited + 1
      BY <2>1, <2>3, <2>5, <2>6, <3>1
    <3>2. CASE q # inited + 1
      <4>1. q <= inited
        BY <2>4, <2>6, <3>2
      <4>2. ready'[q] = ready[q] /\ providers'[q] = providers[q]
        BY <2>1, <2>5, <2>6, <3>2
      <4>3. QED
        BY <4>1, <4>2 DEF ReadyInv
    <3>3. QED
      BY <3>1, <3>2
  <2>7. QED
    BY <1>1, <2>1, <2>4, <2>6 DEF ReadyInv
<1>4. CASE UNCHANGED registryVars
  BY <1>1, <1>4 DEF ReadyInv, registryVars, Providers
<1>5. UNCHANGED startupVars => UNCHANGED registryVars
  BY DEF startupVars
<1>6. LoadFile \/ LoadFails \/ Refuse \/ LoadConfig \/ Listen \/ StartAgain
      => UNCHANGED registryVars
  BY DEF LoadFile, LoadFails, Refuse, Exit, LoadConfig, Listen, StartAgain
<1>7. QED
  BY <1>2, <1>3, <1>4, <1>5, <1>6 DEF StartupNext

\* The server starts to listen: in one action only.
LEMMA ListeningIsListen ==
  ASSUME StartupNext \/ UNCHANGED startupVars, Listening
  PROVE  Listen
BY DEF Listening, StartupNext, startupVars, LoadFile, LoadFails, Refuse, Exit, LoadConfig,
       RegisterAll, InitProvider, StartAgain

LEMMA FailuresIsolatedStep ==
  ASSUME ReadyInv, StartupNext \/ UNCHANGED startupVars, Listening
  PROVE  \A p \in Providers : ready[p] = CanStart(providers[p])
<1>1. inited = Len(providers)
  BY ListeningIsListen DEF Listen, AllInited
<1>2. \A p \in Providers : p <= inited
  BY <1>1 DEF ReadyInv, PhasesInv, StartupTypeOK, RegistryTypeOK, Providers
<1>3. QED
  BY <1>2 DEF ReadyInv

-----------------------------------------------------------------------------
(* An open gateway does not listen on a public address.                    *)

\* The settings after the first files of the deployment: the environment wins, then
\* the last of these files that sets it.
InOrder(k) ==
  /\ deployment.env[k] # "unset" => env[k] = deployment.env[k]
  /\ deployment.env[k] = "unset" =>
       /\ (\A i \in 1..read : deployment.files[i][k] = "unset") => env[k] = "unset"
       /\ \A i \in 1..read :
            /\ deployment.files[i][k] # "unset"
            /\ \A j \in (i + 1)..read : deployment.files[j][k] = "unset"
            => env[k] = deployment.files[i][k]

GuardInv ==
  /\ PhasesInv
  /\ Starting => \A k \in Settings : InOrder(k)
  /\ phase \in {"register", "init"} =>
       /\ read = Len(deployment.files)
       /\ ~Open
       /\ apiKeys = IF env["API_KEYS"] = "on" THEN APIKeys ELSE {}

LEMMA GuardInit == StartupInit => GuardInv
<1> SUFFICES ASSUME StartupInit PROVE GuardInv
  OBVIOUS
<1>1. PhasesInv
  BY PhasesInit
<1>2. 1..read = {} /\ env = deployment.env
  BY DEF StartupInit
<1>3. QED
  BY <1>1, <1>2 DEF GuardInv, InOrder, StartupInit

LEMMA FileInOrder ==
  ASSUME GuardInv, LoadFile, NEW k \in Settings
  PROVE  InOrder(k)'
<1>1. /\ Starting /\ InOrder(k)
      /\ read' = read + 1 /\ deployment' = deployment
      /\ read \in Nat
      /\ env'[k] = IF deployment.env[k] # "unset" \/ deployment.files[read + 1][k] = "unset"
                   THEN env[k] ELSE deployment.files[read + 1][k]
  <2>1. Starting /\ InOrder(k)
    BY DEF LoadFile, GuardInv, Starting
  <2>2. Len(deployment.files) \in Nat
    BY <2>1, StartupAssumption DEF GuardInv, PhasesInv
  <2>3. read \in Nat
    BY <2>2 DEF GuardInv, PhasesInv, StartupTypeOK
  <2>4. QED
    BY <2>1, <2>3 DEF LoadFile, WithFile
<1>2. CASE deployment.env[k] # "unset"
  BY <1>1, <1>2 DEF InOrder
<1>3. CASE deployment.env[k] = "unset" /\ deployment.files[read + 1][k] = "unset"
  <2>1. env'[k] = env[k]
    BY <1>1, <1>3
  <2>2. ASSUME \A i \in 1..(read + 1) : deployment.files[i][k] = "unset"
        PROVE  env[k] = "unset"
    BY <1>1, <1>3, <2>2 DEF InOrder
  <2>3. ASSUME NEW i \in 1..(read + 1), deployment.files[i][k] # "unset",
               \A j \in (i + 1)..(read + 1) : deployment.files[j][k] = "unset"
        PROVE  env[k] = deployment.files[i][k]
    <3>1. i \in 1..read
      BY <1>1, <1>3, <2>3
    <3>2. \A j \in (i + 1)..read : deployment.files[j][k] = "unset"
      BY <1>1, <2>3
    <3>3. QED
      BY <1>1, <1>3, <2>3, <3>1, <3>2 DEF InOrder
  <2>4. QED
    BY <1>1, <1>3, <2>1, <2>2, <2>3 DEF InOrder
<1>4. CASE deployment.env[k] = "unset" /\ deployment.files[read + 1][k] # "unset"
  <2>1. env'[k] = deployment.files[read + 1][k] /\ read + 1 \in 1..(read + 1)
    BY <1>1, <1>4
  <2>2. ASSUME NEW i \in 1..(read + 1),
               \A j \in (i + 1)..(read + 1) : deployment.files[j][k] = "unset"
        PROVE  i = read + 1
    <3>1. read + 1 \notin (i + 1)..(read + 1)
      BY <1>4, <2>2
    <3>2. QED
      BY <1>1, <2>2, <3>1
  <2>3. QED
    BY <1>1, <1>4, <2>1, <2>2 DEF InOrder
<1>5. QED
  BY <1>2, <1>3, <1>4

LEMMA GuardStep ==
  ASSUME GuardInv, StartupNext \/ UNCHANGED startupVars
  PROVE  GuardInv'
<1>1. PhasesInv'
  BY PhasesStep DEF GuardInv
<1>2. CASE LoadFile
  BY <1>1, <1>2, FileInOrder DEF GuardInv, LoadFile
<1>3. CASE LoadFails \/ Refuse \/ Listen
  BY <1>1, <1>3 DEF GuardInv, LoadFails, Refuse, Exit, Listen, Starting
<1>4. CASE LoadConfig
  BY <1>1, <1>4 DEF GuardInv, LoadConfig, AllLoaded, Starting, InOrder, Open
<1>5. CASE RegisterAll \/ InitProvider
  <2>1. /\ phase \in {"register", "init"} /\ phase' \in {"register", "init"}
        /\ UNCHANGED <<deployment, env, read, apiKeys>>
    BY <1>5 DEF RegisterAll, InitProvider
  <2>2. QED
    BY <1>1, <2>1 DEF GuardInv, Starting, InOrder, Open
<1>6. CASE StartAgain
  <2>1. phase' = "load" /\ env' = deployment'.env /\ read' = 0
    BY <1>6 DEF StartAgain, GuardInv, PhasesInv
  <2>2. QED
    BY <1>1, <2>1 DEF GuardInv, InOrder
<1>7. CASE UNCHANGED startupVars
  BY <1>1, <1>7 DEF GuardInv, startupVars, Starting, InOrder, Open
<1>8. QED
  BY <1>2, <1>3, <1>4, <1>5, <1>6, <1>7 DEF StartupNext

\* When every file is read, the settings are what their precedence says.
LEMMA EnvWins ==
  ASSUME GuardInv, phase = "init", NEW k \in Settings
  PROVE  Wins(k) = env[k]
<1> DEFINE set == {i \in DOMAIN deployment.files : deployment.files[i][k] # "unset"}
<1>1. InOrder(k) /\ read = Len(deployment.files) /\ deployment \in Deployments
  BY DEF GuardInv, PhasesInv, Starting
<1>2. deployment.files \in Seq(Given \cup {Invalid})
  BY <1>1, StartupAssumption
<1>3. read \in Nat /\ DOMAIN deployment.files = 1..read
  BY <1>1, <1>2
<1>4. CASE deployment.env[k] # "unset"
  BY <1>1, <1>4 DEF Wins, InOrder
<1>5. CASE deployment.env[k] = "unset" /\ set = {}
  BY <1>1, <1>3, <1>5 DEF Wins, InOrder
<1>6. CASE deployment.env[k] = "unset" /\ set # {}
  <2>1. set \in SUBSET (1..read)
    BY <1>3
  <2> DEFINE m == Max(set)
  <2>2. m \in set /\ \A i \in set : i <= m
    <3> HIDE DEF set
    <3>1. QED
      BY <1>3, <1>6, <2>1, LastOf
  <2>3. Wins(k) = deployment.files[m][k]
    BY <1>6 DEF Wins
  <2> HIDE DEF m
  <2>4. m \in 1..read /\ deployment.files[m][k] # "unset"
    BY <1>3, <2>2
  <2>5. \A j \in (m + 1)..read : deployment.files[j][k] = "unset"
    BY <1>3, <2>2, <2>4
  <2>6. QED
    BY <1>1, <1>6, <2>3, <2>4, <2>5 DEF InOrder
<1>7. QED
  BY <1>4, <1>5, <1>6

LEMMA ListensGuardedStep ==
  ASSUME GuardInv, StartupNext \/ UNCHANGED startupVars, Listening, APIKeys # {}
  PROVE  /\ (apiKeys = APIKeys) = (Wins("API_KEYS") = "on")
         /\ Wins("API_KEYS") = "on" \/ Wins("HOST") # "on"
            \/ Wins("ALLOW_UNAUTHENTICATED") = "on"
<1>1. phase = "init"
  BY ListeningIsListen DEF Listen
<1>2. \A k \in Settings : Wins(k) = env[k]
  BY <1>1, EnvWins
<1>3. /\ "API_KEYS" \in Settings /\ "HOST" \in Settings
      /\ "ALLOW_UNAUTHENTICATED" \in Settings
  BY DEF Settings
<1>4. ~Open /\ apiKeys = IF env["API_KEYS"] = "on" THEN APIKeys ELSE {}
  BY <1>1 DEF GuardInv
<1>5. QED
  BY <1>2, <1>3, <1>4 DEF Open

-----------------------------------------------------------------------------
(* What is advertised is routed to whom it is advertised under.            *)

\* The relays come first and own what they list; the others list some of what they
\* own, and nothing is owned by two of them.
RoutesInv ==
  /\ PhasesInv
  /\ \A p \in Providers :
       /\ IsRelay(providers[p])  => providers[p].owns = providers[p].lists
       /\ ~IsRelay(providers[p]) => providers[p].lists \subseteq providers[p].owns
  /\ \A p, q \in Providers :
       /\ IsRelay(providers[p]) /\ ~IsRelay(providers[q]) => p < q
       /\ ~IsRelay(providers[p]) /\ ~IsRelay(providers[q]) /\ p # q
          => providers[p].owns \cap providers[q].owns = {}

LEMMA RoutesInit == StartupInit => RoutesInv
BY PhasesInit DEF RoutesInv, StartupInit, RegistryInit, Providers

LEMMA RoutesStep ==
  ASSUME \A d \in Deployments : OwnersApart(d),
         RoutesInv, StartupNext \/ UNCHANGED startupVars
  PROVE  RoutesInv'
<1>1. PhasesInv'
  BY PhasesStep DEF RoutesInv
<1>2. CASE RegisterAll
  <2>1. PICK specs \in LoadCustomSpecs :
          providers' = BuildCustomProviders(specs) \o deployment.subs
    BY <1>2 DEF RegisterAll, Register
  <2>2. deployment \in Deployments
    BY <1>2 DEF RegisterAll, RoutesInv, PhasesInv, Starting
  <2>3. OwnersApart(deployment) /\ deployment.subs \in Seq(Provider)
    BY <2>2, StartupAssumption
  <2> DEFINE ps == BuildCustomProviders(specs)
             subs == deployment.subs
  <2>4. ps \in Seq(Provider) /\ \A i \in DOMAIN ps : IsRelay(ps[i]) /\ ps[i].owns = ps[i].lists
    BY <2>2, <2>3, RegisteredType DEF OwnersApart
  <2>5. \A i \in DOMAIN subs : ~IsRelay(subs[i]) /\ subs[i].lists \subseteq subs[i].owns
    BY <2>3 DEF OwnersApart
  <2>6. \A i, j \in DOMAIN subs : i # j => subs[i].owns \cap subs[j].owns = {}
    BY <2>3 DEF OwnersApart
  <2>7. providers' = ps \o subs
    BY <2>1
  <2>8. subs \in Seq(Provider)
    BY <2>3
  <2> HIDE DEF ps, subs
  <2> DEFINE n == Len(ps)
  <2>9. /\ n \in Nat /\ Len(subs) \in Nat
        /\ DOMAIN ps = 1..n /\ DOMAIN subs = 1..Len(subs)
        /\ Providers' = 1..(n + Len(subs))
        /\ \A p \in Providers' : providers'[p] = IF p <= n THEN ps[p] ELSE subs[p - n]
    BY <2>4, <2>7, <2>8 DEF Providers
  <2> HIDE DEF n
  <2>10. ASSUME NEW p \in Providers'
         PROVE  \/ p <= n /\ p \in DOMAIN ps /\ providers'[p] = ps[p]
                \/ p > n /\ p - n \in DOMAIN subs /\ providers'[p] = subs[p - n]
    BY <2>9
  <2>11. ASSUME NEW p \in Providers'
         PROVE  /\ IsRelay(providers'[p])  => providers'[p].owns = providers'[p].lists
                /\ ~IsRelay(providers'[p]) => providers'[p].lists \subseteq providers'[p].owns
    BY <2>4, <2>5, <2>10
  <2>12. ASSUME NEW p \in Providers', NEW q \in Providers'
         PROVE  /\ IsRelay(providers'[p]) /\ ~IsRelay(providers'[q]) => p < q
                /\ ~IsRelay(providers'[p]) /\ ~IsRelay(providers'[q]) /\ p # q
                   => providers'[p].owns \cap providers'[q].owns = {}
    <3>1. p \in Int /\ q \in Int /\ n \in Int
      BY <2>9
    <3>2. IsRelay(providers'[p]) <=> p <= n
      BY <2>4, <2>5, <2>10, <3>1
    <3>3. IsRelay(providers'[q]) <=> q <= n
      BY <2>4, <2>5, <2>10, <3>1
    <3>4. ASSUME p > n, q > n, p # q
          PROVE  providers'[p].owns \cap providers'[q].owns = {}
      <4>1. /\ p - n \in DOMAIN subs /\ providers'[p] = subs[p - n]
            /\ q - n \in DOMAIN subs /\ providers'[q] = subs[q - n]
        BY <2>10, <3>1, <3>4
      <4>2. p - n # q - n
        BY <3>1, <3>4
      <4>3. QED
        BY <2>6, <4>1, <4>2
    <3>5. QED
      BY <3>1, <3>2, <3>3, <3>4
  <2>13. QED
    BY <1>1, <2>11, <2>12 DEF RoutesInv
<1>3. CASE InitProvider
  <2>1. PICK p \in Provider :
          /\ \/ p = providers[inited + 1]
             \/ /\ p = [providers[inited + 1] EXCEPT !.owns = providers[inited + 1].live,
                                                     !.lists = providers[inited + 1].live]
                /\ IsRelay(providers[inited + 1])
          /\ providers' = [providers EXCEPT ![inited + 1] = p]
    BY <1>3, InitedProvider DEF RoutesInv
  <2>2. inited + 1 \in Providers /\ providers[inited + 1] \in Provider
    BY <1>3, InitedProvider DEF RoutesInv
  <2> DEFINE i == inited + 1
  <2>3. /\ IsRelay(p) <=> IsRelay(providers[i])
        /\ IsRelay(p) => p.owns = p.lists
        /\ ~IsRelay(p) => p = providers[i]
    <3>1. \A q \in Provider :
            LET e == [q EXCEPT !.owns = q.live, !.lists = q.live]
            IN  (IsRelay(e) <=> IsRelay(q)) /\ e.owns = e.lists
      BY DEF IsRelay, Provider
    <3>2. IsRelay(providers[i]) => providers[i].owns = providers[i].lists
      BY <2>2 DEF RoutesInv
    <3> DEFINE q == providers[inited + 1]
    <3>3. q \in Provider /\ (IsRelay(q) => q.owns = q.lists)
      BY <2>2, <3>2
    <3>4. p = q \/ (p = [q EXCEPT !.owns = q.live, !.lists = q.live] /\ IsRelay(q))
      BY <2>1
    <3> HIDE DEF q
    <3>5. (IsRelay(p) <=> IsRelay(q)) /\ (IsRelay(p) => p.owns = p.lists) /\ (~IsRelay(p) => p = q)
      <4>1. CASE p = q
        BY <3>3, <4>1
      <4>2. CASE p = [q EXCEPT !.owns = q.live, !.lists = q.live] /\ IsRelay(q)
        BY <3>1, <3>3, <4>2
      <4>3. QED
        BY <3>4, <4>1, <4>2
    <3>6. QED
      BY <3>5 DEF q
  <2>4. /\ Providers' = Providers
        /\ \A q \in Providers : providers'[q] = IF q = i THEN p ELSE providers[q]
    BY <2>1, <2>2 DEF Providers
  <2> HIDE DEF i
  <2>5. \A q \in Providers :
          /\ IsRelay(providers'[q]) <=> IsRelay(providers[q])
          /\ ~IsRelay(providers'[q]) => providers'[q] = providers[q]
          /\ IsRelay(providers'[q]) => providers'[q].owns = providers'[q].lists
    BY <2>3, <2>4 DEF RoutesInv
  <2>6. QED
    BY <1>1, <2>4, <2>5 DEF RoutesInv
<1>4. CASE UNCHANGED registryVars
  BY <1>1, <1>4 DEF RoutesInv, registryVars, Providers
<1>5. UNCHANGED startupVars => UNCHANGED registryVars
  BY DEF startupVars
<1>6. LoadFile \/ LoadFails \/ Refuse \/ LoadConfig \/ Listen \/ StartAgain
      => UNCHANGED registryVars
  BY DEF LoadFile, LoadFails, Refuse, Exit, LoadConfig, Listen, StartAgain
<1>7. QED
  BY <1>2, <1>3, <1>4, <1>5, <1>6 DEF StartupNext

\* The first who lists a model is the first who owns it.
LEMMA ListedIsOwned ==
  ASSUME RoutesInv, NEW m \in Advertised
  PROVE  FindByModel(m) = AdvertisedBy(m)
<1> DEFINE owners  == {p \in Providers : ready[p] /\ m \in providers[p].owns}
           listers == {p \in Providers : ready[p] /\ m \in providers[p].lists}
<1>1. Providers \subseteq Nat
  BY DEF RoutesInv, PhasesInv, StartupTypeOK, RegistryTypeOK, Providers
<1>2. \A p \in Providers : providers[p].lists \subseteq providers[p].owns
  BY DEF RoutesInv
<1>3. listers \subseteq owners /\ owners \in SUBSET Nat /\ listers \in SUBSET Nat /\ listers # {}
  BY <1>1, <1>2 DEF Advertised
<1> DEFINE f == First(owners)
           g == First(listers)
<1>4. f \in owners /\ \A q \in owners : f <= q
  <2> HIDE DEF owners, listers
  <2>1. QED
    BY <1>3, FirstIsLeast
<1>5. g \in listers /\ \A q \in listers : g <= q
  <2> HIDE DEF owners, listers
  <2>1. QED
    BY <1>3, FirstIsLeast
<1>6. FindByModel(m) = f /\ AdvertisedBy(m) = g
  BY <1>3 DEF FindByModel, AdvertisedBy
<1> HIDE DEF f, g
<1>7. f \in Nat /\ g \in Nat /\ f <= g
  BY <1>3, <1>4, <1>5
<1>8. CASE IsRelay(providers[f])
  <2>1. f \in listers
    BY <1>4, <1>8 DEF RoutesInv
  <2>2. QED
    BY <1>5, <1>6, <1>7, <2>1
<1>9. CASE ~IsRelay(providers[f])
  <2>1. f \in Providers /\ g \in Providers /\ g \in owners
    BY <1>3, <1>4, <1>5
  <2>2. ~IsRelay(providers[g])
    BY <1>7, <1>9, <2>1 DEF RoutesInv
  <2>3. m \in providers[f].owns \cap providers[g].owns
    BY <1>4, <2>1
  <2>4. f = g
    BY <1>9, <2>1, <2>2, <2>3 DEF RoutesInv
  <2>5. QED
    BY <1>6, <2>4
<1>10. QED
  BY <1>8, <1>9
=============================================================================
