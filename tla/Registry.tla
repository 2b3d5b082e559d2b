------------------------------- MODULE Registry -------------------------------
(***************************************************************************)
(* The set of providers (internal/registry): registered in some order,     *)
(* initialised one after the other, and read-only from then on.  A model   *)
(* is routed to the first ready provider that owns it.                     *)
(*                                                                         *)
(* A provider is a record: the models it owns and those it lists, what it  *)
(* can do besides chat (caps), and what its Init goes by (see Startup).    *)
(***************************************************************************)
EXTENDS Integers, Sequences, FiniteSets

CONSTANTS
  Models,          \* model ids
  NoModel          \* the empty one

ASSUME RegistryAssumption ==
  /\ IsFiniteSet(Models)
  /\ NoModel \notin Models

Capabilities == {"responses", "anthropic", "images"}

Provider == [owns : SUBSET Models, lists : SUBSET Models, caps : SUBSET Capabilities,
             starts : {"compat", "any", "first", "none"}, works : SUBSET Nat,
             keys : BOOLEAN, live : SUBSET Models]

VARIABLES
  providers,   \* r.providers, in the order of Register
  ready,       \* p.ready of each
  inited       \* how many InitAll has been through

registryVars == <<providers, ready, inited>>

Providers  == DOMAIN providers
NoProvider == 0

RegistryTypeOK ==
  /\ providers \in Seq(Provider)
  /\ ready  \in [Providers -> BOOLEAN]
  /\ inited \in 0..Len(providers)

RegistryInit == providers = <<>> /\ ready = <<>> /\ inited = 0

\* Register, for each of ps in turn.
Register(ps) ==
  /\ providers' = ps
  /\ ready'     = [p \in DOMAIN ps |-> FALSE]
  /\ inited'    = 0

AllInited == inited = Len(providers)

\* Mutant: the first failure ends the loop.
InitNextStops(p, ok) ==
  /\ ~AllInited
  /\ inited'    = IF ok THEN inited + 1 ELSE Len(providers)
  /\ ready'     = [ready EXCEPT ![inited + 1] = ok]
  /\ providers' = [providers EXCEPT ![inited + 1] = p]

\* InitAll: the next provider's Init, which may change what it owns and lists;
\* an error disables this provider only.
InitNext(p, ok) ==
  /\ ~AllInited
  /\ inited'    = inited + 1
  /\ ready'     = [ready EXCEPT ![inited + 1] = ok]
  /\ providers' = [providers EXCEPT ![inited + 1] = p]

First(S) == CHOOSE p \in S : \A q \in S : p <= q

\* Mutant: the last one that owns it.
FindByModelLast(m) ==
  LET owners == {p \in Providers : ready[p] /\ m \in providers[p].owns}
  IN  IF owners = {} THEN NoProvider ELSE CHOOSE p \in owners : \A q \in owners : q <= p

FindByModel(m) ==
  LET owners == {p \in Providers : ready[p] /\ m \in providers[p].owns}
  IN  IF owners = {} THEN NoProvider ELSE First(owners)

\* Models(): the listed models of the ready providers, each once, under the
\* first that lists it.
Advertised == UNION {providers[p].lists : p \in {q \in Providers : ready[q]}}

AdvertisedBy(m) == First({p \in Providers : ready[p] /\ m \in providers[p].lists})
=============================================================================
