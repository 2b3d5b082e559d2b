------------------------------ MODULE MCGateway ------------------------------
\* The bounded instance of Gateway that TLC checks.
EXTENDS Gateway

CONSTANTS k1, addr, m1, m2, m3

\* A relay that may have a new list of models when it is asked, one whose spec is
\* passed over, Codex with two logins, and Gemini with two.
Compat(models, live) ==
  [owns |-> models, lists |-> models, caps |-> {}, starts |-> "compat",
   works |-> {}, keys |-> TRUE, live |-> live]

Keyless(models) == [Compat(models, {}) EXCEPT !.keys = FALSE]

MCCodex(works) ==
  [owns |-> {m1, m2}, lists |-> {m2}, caps |-> {"responses", "images"},
   starts |-> "any", works |-> works, keys |-> FALSE, live |-> {}]

MCGemini(works) ==
  [owns |-> {m3}, lists |-> {m3}, caps |-> {}, starts |-> "first",
   works |-> works, keys |-> FALSE, live |-> {}]

Found(e, fs, inline, file, codex, gemini) ==
  [env |-> e, files |-> fs, inline |-> inline, file |-> file,
   subs |-> <<MCCodex(codex), MCGemini(gemini)>>]

Set(keys, host, unguarded) ==
  [k \in Settings |-> CASE k = "API_KEYS" -> keys
                        [] k = "HOST"     -> host
                        [] OTHER          -> unguarded]

\* What is set where, with one relay; and, with keys, which logins work and whether
\* there are two relays.
MCFiles ==
  {Invalid, Set("on", "unset", "unset"), Set("off", "on", "unset"),
   Set("unset", "on", "on")}

MCDeployments ==
  {Found(e, fs, <<Compat({m1}, {})>>, <<>>, {1}, {1}) :
     e \in [Settings -> {"unset", "off", "on"}],
     fs \in {<<f>> : f \in MCFiles} \cup {<<f, g>> : f, g \in MCFiles}}
  \cup
  {Found(Set("on", "on", "unset"), <<>>, rs[1], rs[2], w[1], w[2]) :
     w \in {<<{}, {1}>>, <<{2}, {2}>>, <<{}, {}>>},
     rs \in { <<<<>>, <<>>>>,
              <<<<Keyless({m3}), Compat({m1}, {m1, m3})>>, <<Compat({m1, m2}, {})>>>> }}

\* Nobody lists what he does not own.
ASSUME ListsFit == \A d \in Deployments : OwnersApart(d)

MCKeys    == {k1, addr}
MCAPIKeys == {k1}
MCModels  == {m1, m2, m3}

Ask(s, k, m) == [surface |-> s, key |-> k, model |-> m]

MCAsks ==
  { Ask("chat", k1, m1), Ask("responses", k1, m2), Ask("images", k1, NoModel),
    Ask("chat", k1, NoModel), Ask("messages", k1, m3), Ask("chat", NoKey, m1) }
==============================================================================
