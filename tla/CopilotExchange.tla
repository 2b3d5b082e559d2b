--------------------------- MODULE CopilotExchange ---------------------------
(***************************************************************************)
(* How an account of any provider comes by its token: the token manager    *)
(* over a file (TokenManager), or, for Copilot, the exchange of a GitHub   *)
(* token for a short-lived one that is kept in memory only                 *)
(* (provider/copilot/creds.go).  Copilot's state is mem: the number of the *)
(* exchange stands for its token and for the endpoint that came with it.   *)
(* Callers, the single flight, the server and the clock are TokenManager's.*)
(*                                                                         *)
(* pc[c] of a Copilot caller: state (the first load of c.state); join and  *)
(* follow; reread (the leader's second load); exchange (the request is on  *)
(* its way); renew (answered, c.state is not set yet); done.               *)
(***************************************************************************)
EXTENDS TokenManager

Default == 0     \* defaultAPIBase, an endpoint older than every exchange

\* Provider.Init has exchanged for the first account, not for the others.
LoginInit ==
  \/ Init
  \/ /\ \E held \in {NoCred, [at |-> 1, rt |-> 1]} : Started(held)
     /\ ~FileBacked /\ file = NoCred

\* Without expires_at, 25 minutes are assumed.
StateFresh == mem # NoCred /\ mem.at > stale

-----------------------------------------------------------------------------
(* copilotToken and the call that uses the token.                          *)

BeginExchange(c) ==
  /\ ~FileBacked
  /\ Goto(c, "idle", "state")
  /\ began' = [began EXCEPT ![c] = stale]
  /\ UNCHANGED <<answer, cancelled, flightVars, storeVars, worldVars>>

\* One load of c.state says whether it is fresh and what the token is.
LoadState(c) ==
  /\ IF StateFresh
     THEN /\ Goto(c, "state", "done")
          /\ answer' = [answer EXCEPT ![c] = Token(mem.at)]
     ELSE Goto(c, "state", "join") /\ UNCHANGED answer
  /\ UNCHANGED <<began, cancelled, flightVars, storeVars, worldVars>>

\* Mutant: the leader does not look again.
ReloadStateNever(c) ==
  /\ ~FileBacked
  /\ Goto(c, "reread", "exchange")
  /\ cur' = mem
  /\ UNCHANGED <<answer, began, cancelled, leader, next, storeVars, worldVars>>

\* The leader looks again: an earlier flight may have brought a token.
ReloadState(c) ==
  /\ ~FileBacked
  /\ pc[c] = "reread"
  /\ IF StateFresh
     THEN Land(c, Token(mem.at))
     ELSE /\ Goto(c, "reread", "exchange")
          /\ cur' = mem
          /\ UNCHANGED <<answer, leader, next>>
  /\ UNCHANGED <<began, cancelled, storeVars, worldVars>>

\* The exchange fails: the leader's client has gone, no answer, another status.
ExchangeFails(c) ==
  /\ pc[c] = "exchange"
  /\ \/ cancelled[c] /\ Land(c, Failed("cancelled"))
     \/ /\ "network" \in Faults \/ issued = MaxIssued
        /\ Land(c, Failed("network"))
     \/ "network" \in Faults /\ Land(c, Failed("refused"))
  /\ UNCHANGED <<began, cancelled, storeVars, worldVars>>

Exchanged(c) ==
  /\ Goto(c, "exchange", "renew")
  /\ Issue({})
  /\ next' = [at |-> issued + 1, rt |-> 1]
  /\ UNCHANGED <<answer, began, cancelled, leader, cur, stale, source, alone,
                 storeVars>>

StoreState(c) ==
  /\ pc[c] = "renew"
  /\ mem' = next
  /\ Land(c, Token(next.at))
  /\ UNCHANGED <<began, cancelled, loaded, file, cli, worldVars>>

\* apiBaseURL: another load of c.state, for the request that carries the token.
ReadBase(c) ==
  /\ ~FileBacked
  /\ pc[c] = "done" /\ answer[c] \in [tok : Numbers]
  /\ answer' = [answer EXCEPT ![c] =
                  [tok  |-> answer[c].tok,
                   base |-> IF mem = NoCred THEN Default ELSE mem.at]]
  /\ UNCHANGED <<pc, began, cancelled, flightVars, storeVars, worldVars>>

-----------------------------------------------------------------------------
CopilotCall(c) ==
  \/ LoadState(c) \/ ReloadState(c) \/ Exchanged(c) \/ StoreState(c)
  \/ ReadBase(c)

LoginNext ==
  \/ Next
  \/ \E c \in Callers : BeginExchange(c) \/ CopilotCall(c) \/ ExchangeFails(c)

LoginSpec == LoginInit /\ [][LoginNext]_vars

\* As in TokenManager, for both kinds of account.
LoginFairness ==
  \A c \in Callers :
    WF_vars(Call(c) \/ SendFails(c) \/ CopilotCall(c) \/ ExchangeFails(c))

LoginFairSpec == LoginSpec /\ LoginFairness

-----------------------------------------------------------------------------
(* Properties (OneFlight and EveryCallReturns hold of both kinds as well).  *)

\* The token and the endpoint it is sent to are two loads of c.state, with other
\* callers' exchanges between them: the endpoint is never older than the token,
\* nor the default of an account that has exchanged (copilot.go:92-96).
EndpointFits ==
  \A c \in Callers : "base" \in DOMAIN answer[c] => answer[c].base >= answer[c].tok

\* A token is exchanged only when the last one is about to end, whoever waited
\* for the flight before and whatever expires_at says ("would ... force a token
\* exchange on every request, self-inflicting GitHub rate limits",
\* copilot/creds.go:121-123).
ExchangeOnlyWhenStale ==
  \A c \in Callers : pc[c] = "exchange" /\ cur # NoCred => cur.at <= stale

\* Both, of an account of Copilot and all its callers.
ExchangesFit == EndpointFits /\ ExchangeOnlyWhenStale
=============================================================================
