-------------------------------- MODULE Startup --------------------------------
(***************************************************************************)
(* From the start of the process to the moment it listens                  *)
(* (cmd/apiforge/main.go, internal/config, provider/register.go and the    *)
(* Init of every provider): the config files, the environment they are     *)
(* loaded into, the check that refuses an open gateway on a public         *)
(* address, and the providers.                                             *)
(*                                                                         *)
(* A setting that is a yes or a no is "on", "off" (given, but empty or     *)
(* without effect) or "unset".  The three that decide whether the gateway  *)
(* is open: API_KEYS (there is one), HOST (it is not a loopback address),  *)
(* ALLOW_UNAUTHENTICATED.                                                  *)
(*                                                                         *)
(* phase: load (the config files, in order), register, init, serving; or   *)
(* exited (os.Exit), until something starts the process again.             *)
(*                                                                         *)
(* Of a provider: starts, how Init decides; works, which of its logins, by *)
(* their place, give a token; keys, whether it has API keys as well, or,   *)
(* of a relay, whether its spec is valid and comes to a key; live, the     *)
(* models it names when it is asked for them, or {}.                       *)
(***************************************************************************)
EXTENDS Registry, FiniteSetsExt

CONSTANTS
  APIKeys,         \* the keys of API_KEYS when there are any
  Deployments      \* what the process finds when it starts (see Deployment)

Settings == {"API_KEYS", "HOST", "ALLOW_UNAUTHENTICATED"}
Given    == [Settings -> {"unset", "off", "on"}]

Unset   == [k \in Settings |-> "unset"]
Invalid == [k \in Settings |-> "invalid"]   \* a file with a line that is none

\* What there is: the real environment; the config files in their order; the
\* relays of CUSTOM_PROVIDERS (or a vendor) and of CUSTOM_PROVIDERS_FILE; and the
\* subscriptions.
NoDeployment ==
  [env |-> Unset, files |-> <<>>, inline |-> <<>>, file |-> <<>>, subs |-> <<>>]

ASSUME StartupAssumption ==
  \A d \in Deployments :
    /\ DOMAIN d = DOMAIN NoDeployment
    /\ d.env \in Given
    /\ d.files \in Seq(Given \cup {Invalid})
    /\ d.inline \in Seq(Provider) /\ d.file \in Seq(Provider) /\ d.subs \in Seq(Provider)

\* Relays and vendors own what they list; a subscription owns what begins with its
\* prefixes, which no two share, and lists some of it.  This is so in every deployment
\* but one where CODEX_MODELS, CLAUDE_MODELS or GEMINI_CLI_MODELS list other models.
IsRelay(p) == p.starts = "compat"

OwnersApart(d) ==
  /\ \A i \in DOMAIN d.inline : IsRelay(d.inline[i]) /\ d.inline[i].owns = d.inline[i].lists
  /\ \A i \in DOMAIN d.file   : IsRelay(d.file[i])   /\ d.file[i].owns = d.file[i].lists
  /\ \A i \in DOMAIN d.subs   : ~IsRelay(d.subs[i])  /\ d.subs[i].lists \subseteq d.subs[i].owns
  /\ \A i, j \in DOMAIN d.subs : i # j => d.subs[i].owns \cap d.subs[j].owns = {}

VARIABLES
  phase,
  deployment,  \* what the process has found; forgotten when it listens
  env,         \* the settings as they are now
  read,        \* how many files have been loaded
  apiKeys      \* cfg.APIKeys

startupVars == <<registryVars, phase, deployment, env, read, apiKeys>>

StartupTypeOK ==
  /\ RegistryTypeOK
  /\ phase \in {"load", "register", "init", "serving", "exited"}
  /\ deployment = NoDeployment \/ deployment \in Deployments
  /\ env \in Given
  /\ read \in 0..Len(deployment.files)
  /\ apiKeys \in {{}, APIKeys}

StartupInit ==
  /\ RegistryInit
  /\ phase = "load"
  /\ deployment \in Deployments
  /\ env = deployment.env
  /\ read = 0
  /\ apiKeys = {}

Exit ==
  /\ phase' = "exited"
  /\ deployment' = NoDeployment
  /\ env' = Unset
  /\ read' = 0
  /\ UNCHANGED <<registryVars, apiKeys>>

-----------------------------------------------------------------------------
\* Mutant: what an earlier file has set is left alone, like the environment.
WithFileFirst(f) ==
  [k \in Settings |-> IF env[k] # "unset" \/ f[k] = "unset" THEN env[k] ELSE f[k]]

\* LoadEnvFile: a later file overrides an earlier one, but none the environment.
WithFile(f) ==
  [k \in Settings |->
     IF deployment.env[k] # "unset" \/ f[k] = "unset" THEN env[k] ELSE f[k]]

LoadFile ==
  /\ phase = "load" /\ read < Len(deployment.files)
  /\ deployment.files[read + 1] # Invalid
  /\ env'  = WithFile(deployment.files[read + 1])
  /\ read' = read + 1
  /\ UNCHANGED <<registryVars, phase, deployment, apiKeys>>

\* A file that cannot be read, or has a line that is no setting, ends the process.
LoadFails ==
  /\ phase = "load" /\ read < Len(deployment.files)
  /\ deployment.files[read + 1] = Invalid
  /\ Exit

AllLoaded == phase = "load" /\ read = Len(deployment.files)

\* Without keys, on a public address, and not allowed.
Open == env["API_KEYS"] # "on" /\ env["HOST"] = "on"
        /\ env["ALLOW_UNAUTHENTICATED"] # "on"

Refuse == AllLoaded /\ Open /\ Exit

LoadConfig ==
  /\ AllLoaded /\ ~Open
  /\ phase'   = "register"
  /\ apiKeys' = IF env["API_KEYS"] = "on" THEN APIKeys ELSE {}
  /\ UNCHANGED <<registryVars, deployment, env, read>>

\* loadCustomSpecs: the two sources of relays come out of a map, in either order.
LoadCustomSpecs ==
  {deployment.inline \o deployment.file, deployment.file \o deployment.inline}

\* buildCustomProviders: a spec that is invalid or has no key is passed over.
BuildCustomProviders(specs) ==
  LET out[i \in 0..Len(specs)] ==
        IF i = 0 THEN <<>>
        ELSE IF specs[i].keys THEN Append(out[i - 1], specs[i])
        ELSE out[i - 1]
  IN  out[Len(specs)]

\* RegisterAll: vendors and relays, which own the models they list, before the
\* subscriptions, which own prefixes.
RegisterAll ==
  /\ phase = "register"
  /\ phase' = "init"
  /\ \E specs \in LoadCustomSpecs :
       Register(BuildCustomProviders(specs) \o deployment.subs)
  /\ UNCHANGED <<deployment, env, read, apiKeys>>

\* codex, claude: a key is there (which is not tried), or any login works.
WarmsAny(p) == p.keys \/ p.works # {}

\* gemini, qwen, copilot: only the first login is tried.
WarmsFirst(p) == 1 \in p.works

\* Relays and vendors, cursor and grok start in any case.
CanStart(p) ==
  /\ p.starts = "any"   => WarmsAny(p)
  /\ p.starts = "first" => WarmsFirst(p)

\* A relay or a vendor asks what models there are: if it is told, these are the
\* ones it owns and lists from now on.
InitProvider ==
  /\ phase = "init"
  /\ ~AllInited
  /\ LET p == providers[inited + 1]
     IN  \E live \in {{}, p.live} :
           InitNext(IF IsRelay(p) /\ live # {}
                    THEN [p EXCEPT !.owns = live, !.lists = live] ELSE p,
                    CanStart(p))
  /\ UNCHANGED <<phase, deployment, env, read, apiKeys>>

\* The server listens; of what was found only cfg is left.
Listen ==
  /\ phase = "init" /\ AllInited
  /\ phase' = "serving"
  /\ deployment' = NoDeployment
  /\ env' = Unset
  /\ read' = 0
  /\ UNCHANGED <<registryVars, apiKeys>>

\* The supervisor, or the operator, starts the process again.
StartAgain ==
  /\ phase = "exited"
  /\ phase' = "load"
  /\ \E d \in Deployments : deployment' = d /\ env' = d.env
  /\ UNCHANGED <<registryVars, read, apiKeys>>

StartupNext ==
  \/ LoadFile \/ LoadFails \/ Refuse \/ LoadConfig \/ RegisterAll
  \/ InitProvider \/ Listen \/ StartAgain

-----------------------------------------------------------------------------
(* Properties.                                                             *)

\* "Precedence: real env > later file (drop-in) > earlier file" (main.go:32).
Wins(k) ==
  LET set == {i \in DOMAIN deployment.files : deployment.files[i][k] # "unset"}
  IN  IF deployment.env[k] # "unset" THEN deployment.env[k]
      ELSE IF set = {} THEN "unset"
      ELSE deployment.files[Max(set)][k]

Listening == phase # "serving" /\ phase' = "serving"

\* "Fail closed: refuse to run an unauthenticated gateway on a non-loopback bind"
\* (main.go:64), by what the settings are in their order of precedence, and with
\* the keys that win.
ListensGuarded ==
  [][Listening =>
       /\ (apiKeys = APIKeys) = (Wins("API_KEYS") = "on")
       /\ Wins("API_KEYS") = "on" \/ Wins("HOST") # "on"
          \/ Wins("ALLOW_UNAUTHENTICATED") = "on"]_<<phase, apiKeys>>

\* "A failure disables that provider only" (registry.go:41): when the server
\* listens, every provider that could start is ready, and no other, whatever
\* happened to those before it.
FailuresIsolated ==
  [][Listening => \A p \in Providers : ready[p] = CanStart(providers[p])]_<<phase, ready>>
=============================================================================
