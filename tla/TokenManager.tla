----------------------------- MODULE TokenManager -----------------------------
(***************************************************************************)
(* One OAuth login shared by the gateway and the vendor's own CLI: the     *)
(* token manager (internal/token/token.go) over the file-backed credential *)
(* sources of Codex, Claude, Qwen and Gemini (provider/*/creds.go).        *)
(*                                                                         *)
(* Callers are request goroutines in AccessToken.  The authorization       *)
(* server numbers the token pairs it issues: a credential is the number of *)
(* its access token and the number of its refresh token.  Tokens go stale  *)
(* (refreshSkewMs before they end) in the order in which they were issued. *)
(*                                                                         *)
(* pc[c]: idle; load (ensureLoaded); check (Fresh); take (Token); join     *)
(* (sf.Do); follow (waits for the leader).  The leader of the flight:      *)
(* reread (Read); recheck (Fresh, Token or Refresh); sent (the request is  *)
(* on its way to the server); reply (the server has issued the new pair);  *)
(* store (the file is written, memory is not); done (AccessToken returns). *)
(* CopilotExchange adds state, exchange and renew, of an account without a *)
(* file.                                                                   *)
(***************************************************************************)
EXTENDS Integers, FiniteSets

CONSTANTS
  Callers,         \* request goroutines that use this login
  Nobody,          \* no leader
  NoCred,          \* nothing loaded; no file
  Sources,         \* whose creds.go it may be, out of AllSources
  Rotates,         \* the server replaces the refresh token at every refresh
  OmitsExpiry,     \* a response may lack expires_in, a Codex token its exp
  Faults,          \* what else goes wrong, out of AllFaults
  CliActs,         \* what the CLI does beside the gateway
  MaxIssued        \* bound: pairs the server issues; then it is unreachable

AllFaults == {"cancel", "network", "restart", "disk"}

\* "gemini_unset": without GEMINI_OAUTH_CLIENT_ID and _SECRET.
AllSources == {"codex", "claude", "qwen", "gemini", "gemini_unset", "copilot"}

ASSUME TokenAssumption ==
  /\ IsFiniteSet(Callers)
  /\ Nobody \notin Callers
  /\ Sources \subseteq AllSources
  /\ Rotates \in BOOLEAN /\ OmitsExpiry \in BOOLEAN
  /\ Sources \cap {"gemini", "gemini_unset"} # {} => ~Rotates  \* gemini/creds.go:44
  /\ Faults \subseteq AllFaults
  /\ CliActs \subseteq {"refresh", "login", "logout"}
  /\ MaxIssued \in Nat \ {0}
  /\ NoCred \notin [at : 1..MaxIssued, rt : 1..MaxIssued]

VARIABLES
  source,      \* m.src: it never changes
  pc,          \* control point of each caller
  cancelled,   \* the caller's ctx is done
  answer,      \* what AccessToken returned: a token's number (and for which
               \* endpoint it is meant, CopilotExchange), or an error
  loaded,      \* m.loaded
  leader,      \* who runs m.sf's call
  mem,         \* the source's atomic pointer
  file,        \* the credential file
  cur,         \* Refresh's cur, the credential it was entered with
  next,        \* the pair of the server's response
  cli,         \* a rotated credential that the CLI has not written yet
  issued,      \* pairs issued so far
  accepted,    \* refresh tokens the server accepts
  undated,     \* access tokens that came without an expiry
  stale,       \* access tokens up to this number are stale
  began,       \* stale when the caller's call began
  alone        \* history: no CLI has touched the login so far

callVars   == <<pc, answer, began>>
flightVars == <<leader, cur, next>>
serverVars == <<issued, accepted, undated>>
worldVars  == <<serverVars, stale, source, alone>>
storeVars  == <<loaded, mem, file, cli>>
vars == <<callVars, cancelled, flightVars, storeVars, worldVars>>

Numbers == 1..MaxIssued
Creds   == [at : Numbers, rt : Numbers]
Errors  == {"none", "unreadable", "refused", "unset", "cancelled", "network"}
Answers == [tok : Numbers] \cup [tok : Numbers, base : 0..MaxIssued]
           \cup [err : Errors]

CallPoints   == {"idle", "load", "check", "take", "join", "follow", "done",
                 "state"}
FlightPoints == {"reread", "recheck", "sent", "reply", "store", "exchange",
                 "renew"}

TypeOK ==
  /\ source    \in Sources
  /\ pc        \in [Callers -> CallPoints \cup FlightPoints]
  /\ cancelled \in [Callers -> BOOLEAN]
  /\ answer    \in [Callers -> Answers]
  /\ loaded    \in BOOLEAN
  /\ leader    \in Callers \cup {Nobody}
  /\ mem  \in Creds \cup {NoCred}
  /\ file \in Creds \cup {NoCred}
  /\ cur  \in Creds \cup {NoCred}
  /\ next \in Creds \cup {NoCred}
  /\ cli  \in Creds \cup {NoCred}
  /\ issued    \in Numbers
  /\ accepted  \subseteq Numbers
  /\ undated   \subseteq Numbers
  /\ stale     \in 0..MaxIssued
  /\ began     \in [Callers -> 0..MaxIssued]
  /\ alone     \in BOOLEAN

Token(n)   == [tok |-> n]
Failed(e)  == [err |-> e]
Pending    == Failed("none")
IsToken(a) == "tok" \in DOMAIN a

\* The token manager over a credential file, for all but Copilot.
FileBacked == source # "copilot"

\* The login has been made once, and this is what memory holds of it.
Started(held) ==
  /\ source    \in Sources
  /\ pc        = [c \in Callers |-> "idle"]
  /\ cancelled = [c \in Callers |-> FALSE]
  /\ answer    = [c \in Callers |-> Pending]
  /\ loaded    = FALSE
  /\ leader    = Nobody
  /\ mem       = held
  /\ file      \in {[at |-> 1, rt |-> 1], NoCred}
  /\ cur       = NoCred
  /\ next      = NoCred
  /\ cli       = NoCred
  /\ issued    = 1
  /\ accepted  = {1}
  /\ undated   \in IF OmitsExpiry THEN {{}, {1}} ELSE {{}}
  /\ stale     = 0
  /\ began     = [c \in Callers |-> 0]
  /\ alone     = TRUE

\* The gateway has just been started.
Init == Started(NoCred) /\ FileBacked

-----------------------------------------------------------------------------
(* The credential sources.                                                 *)

\* Codex takes the expiry from the token itself; an opaque token is fresh.
CodexFresh(k) == k.at \in undated \/ k.at > stale

\* Claude and Gemini: a response without expires_in expires on arrival.
DatedFresh(k) == k.at \notin undated /\ k.at > stale

\* Mutant: no hour is assumed for a response without expires_in.
QwenFreshNoDefault(k) == k.at \notin undated /\ k.at > stale

\* Qwen assumes an hour for a response without expires_in.
QwenFresh(k) == k.at > stale

Fresh(k) ==
  /\ k # NoCred
  /\ \/ source = "codex" /\ CodexFresh(k)
     \/ source = "qwen" /\ QwenFresh(k)
     \/ source \in {"claude", "gemini", "gemini_unset"} /\ DatedFresh(k)

\* Mutant: the rotated refresh token of the response is not taken over.
RotatedKeepsOld(k, n) == [at |-> n.at, rt |-> k.rt]

\* The pair that replaces cur: a refresh token in the response is taken over.
Rotated(k, n) == [at |-> n.at, rt |-> n.rt]

\* Gemini has no field for one.
Renewed(k, n) == [at |-> n.at, rt |-> k.rt]

NextCred(k, n) == IF source = "gemini" THEN Renewed(k, n) ELSE Rotated(k, n)

-----------------------------------------------------------------------------
(* AccessToken.                                                            *)

Goto(c, from, to) ==
  /\ pc[c] = from
  /\ pc' = [pc EXCEPT ![c] = to]

Begin(c) ==
  /\ FileBacked
  /\ Goto(c, "idle", "load")
  /\ began' = [began EXCEPT ![c] = stale]
  /\ UNCHANGED <<answer, cancelled, flightVars, storeVars, worldVars>>

\* Under m.mu, for the first caller only.
EnsureLoaded(c) ==
  /\ loaded \/ file # NoCred
  /\ Goto(c, "load", "check")
  /\ loaded' = TRUE
  /\ mem' = IF loaded THEN mem ELSE file
  /\ UNCHANGED <<answer, began, cancelled, flightVars, file, cli, worldVars>>

LoadFails(c) ==
  /\ ~loaded /\ file = NoCred
  /\ Goto(c, "load", "done")
  /\ answer' = [answer EXCEPT ![c] = Failed("unreadable")]
  /\ UNCHANGED <<began, cancelled, flightVars, storeVars, worldVars>>

\* m.src.Fresh()
CheckFresh(c) ==
  /\ Goto(c, "check", IF Fresh(mem) THEN "take" ELSE "join")
  /\ UNCHANGED <<answer, began, cancelled, flightVars, storeVars, worldVars>>

\* m.src.Token(): a second load of the pointer.
TakeToken(c) ==
  /\ Goto(c, "take", "done")
  /\ answer' = [answer EXCEPT ![c] = Token(mem.at)]
  /\ UNCHANGED <<began, cancelled, flightVars, storeVars, worldVars>>

\* Mutant: there is no single flight.
JoinAlways(c) ==
  /\ Goto(c, "join", "reread")
  /\ leader' = c
  /\ UNCHANGED <<answer, began, cancelled, cur, next, storeVars, worldVars>>

\* m.sf.Do: the first caller leads, the others share its result.
Join(c) ==
  /\ IF leader = Nobody
     THEN Goto(c, "join", "reread") /\ leader' = c
     ELSE Goto(c, "join", "follow") /\ UNCHANGED leader
  /\ UNCHANGED <<answer, began, cancelled, cur, next, storeVars, worldVars>>

Sharers(c) == {c} \cup {d \in Callers : pc[d] = "follow"}

\* Mutant: the followers are not told.
LandAlone(c, a) ==
  /\ pc'     = [pc EXCEPT ![c] = "done"]
  /\ answer' = [answer EXCEPT ![c] = a]
  /\ leader' = Nobody
  /\ cur' = NoCred /\ next' = NoCred

\* The leader's function returns: its result is everybody's.
Land(c, a) ==
  /\ pc'     = [d \in Callers |-> IF d \in Sharers(c) THEN "done" ELSE pc[d]]
  /\ answer' = [d \in Callers |-> IF d \in Sharers(c) THEN a ELSE answer[d]]
  /\ leader' = Nobody
  /\ cur' = NoCred /\ next' = NoCred

\* The CLI may have rotated the login: memory becomes what the file holds.
Reread(c) ==
  /\ FileBacked /\ file # NoCred
  /\ Goto(c, "reread", "recheck")
  /\ mem' = file
  /\ UNCHANGED <<answer, began, cancelled, flightVars, loaded, file, cli,
                 worldVars>>

RereadFails(c) ==
  /\ FileBacked
  /\ pc[c] = "reread"
  /\ file = NoCred
  /\ Land(c, Failed("unreadable"))
  /\ UNCHANGED <<began, cancelled, storeVars, worldVars>>

\* Mutant: what the file holds is returned without another look at its expiry.
RecheckTrusts(c) ==
  /\ pc[c] = "recheck"
  /\ Land(c, Token(mem.at))
  /\ UNCHANGED <<began, cancelled, storeVars, worldVars>>

RecheckFresh(c) ==
  /\ pc[c] = "recheck"
  /\ Fresh(mem)
  /\ Land(c, Token(mem.at))
  /\ UNCHANGED <<began, cancelled, storeVars, worldVars>>

\* Refresh: cur is loaded and its refresh token posted.
Send(c) ==
  /\ ~Fresh(mem)
  /\ source # "gemini_unset"
  /\ Goto(c, "recheck", "sent")
  /\ cur' = mem
  /\ UNCHANGED <<answer, began, cancelled, leader, next, storeVars, worldVars>>

\* Gemini without its client id and secret does not refresh.
SendUnset(c) ==
  /\ pc[c] = "recheck"
  /\ ~Fresh(mem)
  /\ source = "gemini_unset"
  /\ Land(c, Failed("unset"))
  /\ UNCHANGED <<began, cancelled, storeVars, worldVars>>

\* The request fails by itself (unreachable, 30 s), or because the leader's
\* client has gone: before the server saw it, or with the answer on its way.
SendFails(c) ==
  /\ pc[c] \in {"sent", "reply"}
  /\ \/ cancelled[c] /\ Land(c, Failed("cancelled"))
     \/ /\ "network" \in Faults \/ (pc[c] = "sent" /\ issued = MaxIssued)
        /\ Land(c, Failed("network"))
  /\ UNCHANGED <<began, cancelled, storeVars, worldVars>>

\* A status other than 200.
SendRefused(c) ==
  /\ pc[c] = "sent"
  /\ cur.rt \notin accepted
  /\ Land(c, Failed("refused"))
  /\ UNCHANGED <<began, cancelled, storeVars, worldVars>>

\* Mutant: the response is not written to the file.
PersistNothing(c) ==
  /\ Goto(c, "reply", "store")
  /\ UNCHANGED <<answer, began, cancelled, flightVars, storeVars, worldVars>>

\* The response is decoded and written back; a failure is only logged.
Persist(c) ==
  /\ Goto(c, "reply", "store")
  /\ file' \in {NextCred(cur, next)} \cup (IF "disk" \in Faults THEN {file} ELSE {})
  /\ UNCHANGED <<answer, began, cancelled, flightVars, loaded, mem, cli,
                 worldVars>>

\* Memory follows the file, and the flight lands with the new token.
Store(c) ==
  /\ pc[c] = "store"
  /\ mem' = NextCred(cur, next)
  /\ Land(c, Token(next.at))
  /\ UNCHANGED <<began, cancelled, loaded, file, cli, worldVars>>

\* The provider function uses the token.  Should the upstream answer 401, that
\* cools the account (Relay) and tells the source nothing.
Return(c) ==
  /\ FileBacked \/ ~IsToken(answer[c]) \/ "base" \in DOMAIN answer[c]
  /\ Goto(c, "done", "idle")
  /\ answer'    = [answer EXCEPT ![c] = Pending]
  /\ cancelled' = [cancelled EXCEPT ![c] = FALSE]
  /\ began'     = [began EXCEPT ![c] = 0]
  /\ UNCHANGED <<flightVars, storeVars, worldVars>>

-----------------------------------------------------------------------------
(* The environment.                                                        *)

\* The server issues a pair for a refresh token or a login.
Issue(used) ==
  /\ issued < MaxIssued
  /\ issued' = issued + 1
  /\ accepted' = IF Rotates THEN (accepted \ used) \cup {issued + 1} ELSE accepted
  /\ undated' \in {undated} \cup (IF OmitsExpiry THEN {undated \cup {issued + 1}}
                                                 ELSE {})

Pair(rt) == [at |-> issued + 1, rt |-> IF Rotates THEN issued + 1 ELSE rt]

ServerRotates(c) ==
  /\ Goto(c, "sent", "reply")
  /\ cur.rt \in accepted
  /\ Issue({cur.rt})
  /\ next' = Pair(cur.rt)
  /\ UNCHANGED <<answer, began, cancelled, leader, cur, stale, source, alone,
                 storeVars>>

\* The CLI refreshes with what it reads in the file ...
CliRefresh ==
  /\ "refresh" \in CliActs
  /\ cli = NoCred /\ file # NoCred
  /\ file.rt \in accepted
  /\ Issue({file.rt})
  /\ cli' = Pair(file.rt)
  /\ alone' = FALSE
  /\ UNCHANGED <<callVars, cancelled, flightVars, stale, source, loaded, mem,
                 file>>

\* ... or its user logs in anew, which ends no older login ...
CliLogin ==
  /\ FileBacked /\ "login" \in CliActs
  /\ cli = NoCred
  /\ Issue({})
  /\ cli' = Pair(1)
  /\ alone' = FALSE
  /\ UNCHANGED <<callVars, cancelled, flightVars, stale, source, loaded, mem,
                 file>>

\* ... and it writes what it got.
CliWrite ==
  /\ cli # NoCred
  /\ file' = cli
  /\ cli' = NoCred
  /\ UNCHANGED <<callVars, cancelled, flightVars, loaded, mem, worldVars>>

\* The user logs out: the file is gone.
CliLogout ==
  /\ "logout" \in CliActs
  /\ cli = NoCred /\ file # NoCred
  /\ file' = NoCred
  /\ alone' = FALSE
  /\ UNCHANGED <<callVars, cancelled, flightVars, loaded, mem, cli, serverVars,
                 stale, source>>

Cancel(c) ==
  /\ "cancel" \in Faults
  /\ pc[c] \notin {"idle", "done"}
  /\ ~cancelled[c]
  /\ cancelled' = [cancelled EXCEPT ![c] = TRUE]
  /\ UNCHANGED <<callVars, flightVars, storeVars, worldVars>>

\* The gateway dies and is started again; the file is what it was.
Restart ==
  /\ "restart" \in Faults
  /\ pc'        = [c \in Callers |-> "idle"]
  /\ answer'    = [c \in Callers |-> Pending]
  /\ cancelled' = [c \in Callers |-> FALSE]
  /\ loaded' = FALSE
  /\ mem' = NoCred
  /\ began' = [c \in Callers |-> 0]
  /\ leader' = Nobody /\ cur' = NoCred /\ next' = NoCred
  /\ UNCHANGED <<file, cli, worldVars>>

\* The oldest token that is not yet stale comes within refreshSkewMs of its end.
\* Tokens live for hours: longer than a goroutine needs from one local step to
\* the next, than the request that fetches a token, than the CLI's write.
GoStale ==
  /\ stale < issued
  /\ \A k \in {next, cli} \ {NoCred} : k.at # stale + 1
  /\ \A c \in Callers : pc[c] \notin {"take", "join", "reread", "recheck", "store"}
  /\ stale' = stale + 1
  /\ UNCHANGED <<callVars, cancelled, flightVars, serverVars, storeVars,
                 source, alone>>

-----------------------------------------------------------------------------
Lead(c) ==
  \/ Reread(c) \/ RereadFails(c) \/ RecheckFresh(c) \/ Send(c) \/ SendUnset(c)
  \/ SendRefused(c) \/ ServerRotates(c) \/ Persist(c) \/ Store(c)

Call(c) ==
  \/ EnsureLoaded(c) \/ LoadFails(c) \/ CheckFresh(c) \/ TakeToken(c)
  \/ Join(c) \/ Lead(c) \/ Return(c)

Next ==
  \/ \E c \in Callers : Begin(c) \/ Call(c) \/ SendFails(c) \/ Cancel(c)
  \/ CliRefresh \/ CliLogin \/ CliWrite \/ CliLogout \/ Restart \/ GoStale

Spec == Init /\ [][Next]_vars

\* Ready goroutines run and the server answers, or the 30 s of the request end.
Fairness ==
  \A c \in Callers : WF_vars(Call(c) \/ SendFails(c))

FairSpec == Spec /\ Fairness

-----------------------------------------------------------------------------
(* Properties.                                                             *)

Leads(c) == pc[c] \in FlightPoints

\* At most one caller refreshes, the one the flight belongs to, and nobody
\* waits for a flight that is over (token.go:51-52, 60).
OneFlight ==
  /\ \A c \in Callers : Leads(c) <=> leader = c
  /\ \A c \in Callers : pc[c] = "follow" => leader # Nobody

\* The login is not lost: of the refresh tokens the server still accepts, one
\* is in the file or with somebody who is about to write it there
\* (ARCHITECTURE.md:98-99, claude/creds.go:34).
RotationKept ==
  LET held == {file, cli} \cup
              (IF \E c \in Callers : pc[c] = "reply" THEN {next} ELSE {})
  IN  file # NoCred => \E k \in held \ {NoCred} : k.rt \in accepted

\* Alone with the file, the gateway never posts a refresh token that it has
\* used up: one refresh at a time, from what the last one wrote.
NeverRefusedAlone ==
  alone => \A c \in Callers : answer[c] # Failed("refused")

\* No caller is given a token that was stale when it asked, though Fresh and
\* Token are two loads and a re-read replaces memory between them
\* (token.go:51, 57-58, 62).
HandsOutFresh ==
  \A c \in Callers : IsToken(answer[c]) =>
    answer[c].tok > began[c] \/ answer[c].tok \in undated

\* The server is asked for a new token only when the old one is about to end
\* (qwen/creds.go:175: no "token refresh on every request").
RefreshOnlyWhenStale ==
  \A c \in Callers : pc[c] = "sent" => cur.at <= stale

\* Every call of AccessToken returns, the followers' too (or the gateway dies).
EveryCallReturns ==
  \A c \in Callers : pc[c] \in {"load", "state"} ~> pc[c] = "idle"
=============================================================================
