----------------------------- MODULE LoginProofs -----------------------------
(***************************************************************************)
(* Theorems about what callers are given and what becomes of a login, for  *)
(* any number of callers, any number of token pairs, and whatever the CLI  *)
(* does to the file: what TokenProofs says of the flight, put to use.      *)
(***************************************************************************)
EXTENDS TokenProofs

-----------------------------------------------------------------------------
(* The invariants.                                                         *)

\* Not known to have ended, whatever the source makes of it.
Alive(k) == k.at > stale \/ k.at \in undated

FileAlive == file = NoCred \/ Alive(file)

\* About to lead, or to look at the file as the leader.
Waiting(c) == pc[c] \in {"join", "reread"}

\* What is on its way outlives the clock (GoStale), and nothing is newer than
\* the last pair that was issued.
NumbersInv ==
  /\ stale <= issued
  /\ mem  # NoCred => mem.at <= issued
  /\ file # NoCred => file.at <= issued
  /\ cli  # NoCred => cli.at <= issued /\ cli.at > stale
  /\ next # NoCred => next.at <= issued /\ next.at > stale

CallsInv ==
  \A c \in Callers : /\ began[c] <= stale
                     /\ IsToken(answer[c]) => pc[c] = "done"

\* A re-read that could come between Fresh and Token finds no token that has
\* ended: whoever waits to re-read saw memory when it was no longer fresh, and
\* what was written into the file since is new.
ReadsInv ==
  \A c \in Callers :
    /\ pc[c] = "take" => Alive(mem) /\ (~Fresh(mem) => FileAlive)
    /\ Waiting(c) /\ Fresh(mem) => FileAlive
    /\ pc[c] = "store" => FileAlive

FreshInv == NumbersInv /\ CallsInv /\ ReadsInv /\ HandsOutFresh

-----------------------------------------------------------------------------
(* What any step may do.                                                   *)

LEMMA LoginNumbers ==
  ASSUME TypeOK
  PROVE  /\ issued \in Nat /\ stale \in Nat /\ NoCred \notin Creds
         /\ \A k \in Creds : k.at \in Nat /\ k.rt \in Nat
         /\ \A c \in Callers : began[c] \in Nat
         /\ \A c \in Callers : IsToken(answer[c]) => answer[c].tok \in Nat
         /\ MaxIssued \in Nat
BY TokenAssumption DEF TypeOK, Creds, Numbers, Answers, IsToken

\* The server's numbers grow.
LEMMA IssueGrows ==
  ASSUME TypeOK, NEW used, Issue(used)
  PROVE  /\ issued' = issued + 1
         /\ undated \subseteq undated' /\ undated' \subseteq undated \cup {issued + 1}
BY DEF Issue

\* Where the flight lands, a caller has its result or is left alone.
LEMMA LandParts ==
  ASSUME TypeOK, NEW c \in Callers, NEW a, Land(c, a), NEW d \in Callers
  PROVE  /\ cur' = NoCred /\ next' = NoCred /\ leader' = Nobody
         /\ \/ d \in Sharers(c) /\ pc'[d] = "done" /\ answer'[d] = a
            \/ d \notin Sharers(c) /\ pc'[d] = pc[d] /\ answer'[d] = answer[d]
BY DEF Land, TypeOK

\* The leader is alone at the points of the flight.
LEMMA OneLeads ==
  ASSUME OneFlight, NEW c \in Callers, NEW d \in Callers, Leads(c), Leads(d)
  PROVE  c = d
BY DEF OneFlight

-----------------------------------------------------------------------------
(* Nobody is given a token that was stale when it asked.                   *)

LEMMA FreshStart == LoginInit => FreshInv
<1> SUFFICES ASSUME LoginInit PROVE FreshInv
  OBVIOUS
<1>1. PICK held \in {NoCred, [at |-> 1, rt |-> 1]} : Started(held)
  BY DEF LoginInit, Init
<1>2. \A c \in Callers : ~IsToken(answer[c])
  BY <1>1 DEF Started, Pending, Failed, IsToken
<1>3. NumbersInv
  BY <1>1 DEF Started, NumbersInv
<1>4. QED
  BY <1>1, <1>2, <1>3 DEF Started, FreshInv, CallsInv, ReadsInv, HandsOutFresh, Waiting

LEMMA FreshStep ==
  ASSUME FlightInv, FlightInv', FreshInv, [LoginNext]_vars, "disk" \notin Faults
  PROVE  FreshInv'
<1> DEFINE Goal == FreshInv'
<1> USE LoginNumbers DEF FlightInv, FreshInv, NumbersInv, CallsInv, ReadsInv,
                         HandsOutFresh, Waiting, FileAlive
<1> USE DEF Alive, Fresh, CodexFresh, QwenFresh, DatedFresh, TypeOK
<1>1. ASSUME NEW c \in Callers, Begin(c) PROVE Goal
  BY <1>1 DEF Begin, Goto, flightVars, storeVars, worldVars, serverVars
<1>2. ASSUME NEW c \in Callers, EnsureLoaded(c) PROVE Goal
  BY <1>2 DEF EnsureLoaded, Goto, FlightData, FileBacked, flightVars, worldVars, serverVars
<1>3. ASSUME NEW c \in Callers, LoadFails(c) PROVE Goal
  BY <1>3 DEF LoadFails, Goto, flightVars, storeVars, worldVars, serverVars, Failed, IsToken
<1>4. ASSUME NEW c \in Callers, CheckFresh(c) PROVE Goal
  BY <1>4 DEF CheckFresh, Goto, flightVars, storeVars, worldVars, serverVars
<1>5. ASSUME NEW c \in Callers, TakeToken(c) PROVE Goal
  BY <1>5 DEF TakeToken, Goto, FlightData, FileBacked, flightVars, storeVars, worldVars, serverVars, Token, IsToken
<1>6. ASSUME NEW c \in Callers, Join(c) PROVE Goal
  BY <1>6 DEF Join, Goto, storeVars, worldVars, serverVars
<1>7. ASSUME NEW c \in Callers, Reread(c) PROVE Goal
  BY <1>7 DEF Reread, Goto, flightVars, worldVars, serverVars
<1>8. ASSUME NEW c \in Callers, NEW a, Land(c, a), ~IsToken(a),
             UNCHANGED <<began, cancelled, storeVars, worldVars>>
      PROVE  Goal
  BY <1>8, LandParts DEF storeVars, worldVars, serverVars
<1>9. ASSUME NEW c \in Callers, NEW n \in Nat, Land(c, Token(n)), n > stale \/ n \in undated, UNCHANGED <<began, cancelled, storeVars, worldVars>>
      PROVE  Goal
  BY <1>9, LandParts DEF storeVars, worldVars, serverVars, Token, IsToken
<1>10. ASSUME NEW e PROVE ~IsToken(Failed(e))
  BY DEF Failed, IsToken
<1>11. ASSUME NEW c \in Callers, RereadFails(c) \/ SendUnset(c) \/ SendRefused(c) \/ SendFails(c) \/ ExchangeFails(c) PROVE Goal
  BY <1>8, <1>10, <1>11 DEF RereadFails, SendUnset, SendRefused, SendFails, ExchangeFails
<1>12. ASSUME NEW c \in Callers, RecheckFresh(c) PROVE Goal
  BY <1>9, <1>12 DEF RecheckFresh
<1>13. ASSUME NEW c \in Callers, Send(c) PROVE Goal
  BY <1>13 DEF Send, Goto, storeVars, worldVars, serverVars
<1>14. ASSUME NEW c \in Callers, ServerRotates(c) PROVE Goal
  BY <1>14, IssueGrows DEF ServerRotates, Goto, Pair, storeVars
<1>15. ASSUME NEW c \in Callers, Persist(c) PROVE Goal
  BY <1>15 DEF Persist, Goto, FlightData, NextCred, Rotated, Renewed, flightVars, worldVars, serverVars
<1>16. ASSUME NEW c \in Callers, Store(c) PROVE Goal
  BY <1>16, LandParts DEF Store, FlightData, NextCred, Rotated, Renewed, worldVars, serverVars, Token, IsToken
<1>17. ASSUME NEW c \in Callers, Return(c) PROVE Goal
  BY <1>17 DEF Return, Goto, flightVars, storeVars, worldVars, serverVars, Pending, Failed, IsToken
<1>18. CASE CliRefresh \/ CliLogin
  BY <1>18, IssueGrows DEF CliRefresh, CliLogin, Pair, callVars, flightVars
<1>19. CASE CliWrite \/ CliLogout
  BY <1>19 DEF CliWrite, CliLogout, callVars, flightVars, worldVars, serverVars
<1>20. ASSUME NEW c \in Callers, Cancel(c) PROVE Goal
  BY <1>20 DEF Cancel, callVars, flightVars, storeVars, worldVars, serverVars
<1>21. CASE Restart
  BY <1>21 DEF Restart, worldVars, serverVars, Pending, Failed, IsToken
<1>22. CASE GoStale
  BY <1>22 DEF GoStale, callVars, flightVars, storeVars, serverVars
<1>23. ASSUME NEW c \in Callers, BeginExchange(c) PROVE Goal
  BY <1>23 DEF BeginExchange, Goto, flightVars, storeVars, worldVars, serverVars
<1>24. ASSUME NEW c \in Callers, LoadState(c) PROVE Goal
  <2>1. ~FileBacked
    BY <1>24 DEF LoadState, Goto, FlightData
  <2>2. CASE StateFresh
    <3>1. mem.at \in Nat /\ mem.at > stale
      BY <2>2 DEF StateFresh
    <3>2. answer' = [answer EXCEPT ![c] = Token(mem.at)]
      BY <1>24, <2>2 DEF LoadState
    <3>3. answer'[c].tok = mem.at /\ \A d \in Callers : d # c => answer'[d] = answer[d]
      BY <3>1, <3>2 DEF Token
    <3>4. QED
      BY <1>24, <2>2, <3>1, <3>3 DEF LoadState, Goto, flightVars, storeVars, worldVars, serverVars
  <2>3. CASE ~StateFresh
    BY <1>24, <2>1, <2>3 DEF LoadState, Goto, FileBacked, flightVars, storeVars, worldVars, serverVars
  <2>4. QED
    BY <2>2, <2>3
<1>25. ASSUME NEW c \in Callers, ReloadState(c) PROVE Goal
  <2>1. CASE StateFresh
    <3>1. mem.at \in Nat /\ mem.at > stale
      BY <2>1 DEF StateFresh
    <3>2. QED
      BY <1>9, <1>25, <2>1, <3>1 DEF ReloadState
  <2>2. CASE ~StateFresh
    BY <1>25, <2>2 DEF ReloadState, Goto, storeVars, worldVars, serverVars
  <2>3. QED
    BY <2>1, <2>2
<1>26. ASSUME NEW c \in Callers, Exchanged(c) PROVE Goal
  BY <1>26, IssueGrows DEF Exchanged, Goto, storeVars
<1>27. ASSUME NEW c \in Callers, StoreState(c) PROVE Goal
  BY <1>27, LandParts DEF StoreState, FlightData, FileBacked, worldVars, serverVars, Token, IsToken
<1>28. ASSUME NEW c \in Callers, ReadBase(c) PROVE Goal
  BY <1>28 DEF ReadBase, flightVars, storeVars, worldVars, serverVars, IsToken
<1>29. CASE UNCHANGED vars
  BY <1>29 DEF vars, callVars, flightVars, storeVars, worldVars, serverVars
<1>30. CASE Next
  BY <1>1, <1>2, <1>3, <1>4, <1>5, <1>6, <1>7, <1>11, <1>12, <1>13, <1>14, <1>15, <1>16, <1>17, <1>18, <1>19, <1>20, <1>21, <1>22, <1>30 DEF Next, Call, Lead
<1>31. QED
  BY <1>11, <1>23, <1>24, <1>25, <1>26, <1>27, <1>28, <1>29, <1>30 DEF LoginNext, CopilotCall

\* As long as the file can be written, no caller of any kind of login is given a
\* token that was stale when it asked, though others re-read the file and the CLI
\* writes it between Fresh and Token, and whatever else fails.
THEOREM HandedOutFresh ==
  ASSUME "disk" \notin Faults
  PROVE  LoginSpec => []HandsOutFresh
<1>1. FlightInv /\ FlightInv' /\ FreshInv /\ [LoginNext]_vars => FreshInv'
  BY FreshStep
<1>2. FreshInv => HandsOutFresh
  BY DEF FreshInv
<1>3. QED
  BY FreshStart, FlightInvariant, <1>1, <1>2, PTL DEF LoginSpec

-----------------------------------------------------------------------------
(* A login with a file.                                                    *)

LEMMA FileBackedStays == Spec => []FileBacked
<1>1. Init => FileBacked
  BY DEF Init
<1>2. FileBacked /\ [Next]_vars => FileBacked'
  BY DEF FileBacked, Next, Call, Lead, Begin, EnsureLoaded, LoadFails, CheckFresh, TakeToken,
         Join, Reread, RereadFails, RecheckFresh, Send, SendUnset, SendFails, SendRefused,
         ServerRotates, Persist, Store, Return, CliRefresh, CliLogin, CliWrite, CliLogout,
         Cancel, Restart, GoStale, worldVars, vars
<1>3. QED
  BY <1>1, <1>2, PTL DEF Spec

LEMMA FileInvariant == Spec => [](FlightInv /\ FileBacked)
BY FileLogin, FlightInvariant, FileBackedStays, PTL

-----------------------------------------------------------------------------
(* What becomes of the login.                                              *)

Replied == \E c \in Callers : pc[c] = "reply"

\* With rotation and nothing else going wrong: what the server has just issued
\* is accepted until it is used, and nobody else holds it; a file that holds a
\* refresh token already used up is about to be written.
HandedOnInv ==
  /\ \A c \in Callers : ~cancelled[c]
  /\ \A k \in {file, mem, cur, next, cli} \ {NoCred} : k.rt <= issued
  /\ cli # NoCred => /\ cli.rt \in accepted
                     /\ \A k \in {file, mem, cur, next} \ {NoCred} : k.rt # cli.rt
  /\ Replied => next.rt \in accepted /\ (file # NoCred => file.rt # next.rt)
  /\ file # NoCred => file.rt \in accepted \/ cli # NoCred \/ Replied

\* Alone, the leader posts what the file holds.
PostsTheFileInv ==
  alone => /\ cli = NoCred
           /\ \A c \in Callers : /\ pc[c] = "recheck" => mem = file
                                 /\ pc[c] = "sent" => cur = file
                                 /\ answer[c] # Failed("refused")

\* Without rotation there is one refresh token for good.
OneTokenInv ==
  /\ 1 \in accepted
  /\ \A k \in {file, mem, cur, next, cli} \ {NoCred} : k.rt = 1
  /\ \A c \in Callers : answer[c] # Failed("refused")

LEMMA RotatedHere ==
  ASSUME Rotates, TypeOK, NEW k, NEW n
  PROVE  NextCred(k, n).rt = n.rt
BY TokenAssumption DEF TypeOK, NextCred, Rotated

LEMMA HandedOnStart == Init => HandedOnInv
BY TokenAssumption DEF Init, Started, HandedOnInv, Replied

LEMMA HandedOnStep ==
  ASSUME FlightInv, FlightInv', FileBacked, HandedOnInv, [Next]_vars, Faults = {}, Rotates
  PROVE  HandedOnInv'
<1> DEFINE Goal == HandedOnInv'
<1> USE LoginNumbers DEF FlightInv, HandedOnInv, Replied, TypeOK
<1>1. ASSUME UNCHANGED <<cancelled, storeVars, issued, accepted, next>>,
             \A c \in Callers : pc[c] = "reply" <=> pc'[c] = "reply",
             cur' \in {cur, NoCred, mem}
      PROVE  Goal
  BY <1>1 DEF storeVars
<1>2. ASSUME NEW c \in Callers, NEW a, Land(c, a), pc[c] \in FlightPoints, pc[c] # "reply"
      PROVE  /\ \A d \in Callers : pc[d] # "reply" /\ pc'[d] # "reply"
             /\ cur' = NoCred /\ next' = NoCred
  BY <1>2, OneLeads, LandParts DEF Leads, FlightPoints, Sharers
<1>3. ASSUME NEW c \in Callers, NEW a, Land(c, a), pc[c] \in FlightPoints, pc[c] # "reply",
             UNCHANGED <<cancelled, storeVars, worldVars>>
      PROVE  Goal
  BY <1>2, <1>3 DEF storeVars, worldVars, serverVars
<1>4. ASSUME NEW c \in Callers, Begin(c) \/ LoadFails(c) \/ CheckFresh(c) \/ TakeToken(c) \/ Join(c) \/ Send(c)
      PROVE  Goal
  BY <1>1, <1>4 DEF Begin, LoadFails, CheckFresh, TakeToken, Join, Send, Goto, flightVars,
                    storeVars, worldVars, serverVars
<1>5. ASSUME NEW c \in Callers, EnsureLoaded(c) PROVE Goal
  BY <1>5 DEF EnsureLoaded, Goto, flightVars, worldVars, serverVars
<1>6. ASSUME NEW c \in Callers, Reread(c) PROVE Goal
  BY <1>6 DEF Reread, Goto, flightVars, worldVars, serverVars
<1>7. ASSUME NEW c \in Callers,
             \/ RereadFails(c) \/ RecheckFresh(c) \/ SendUnset(c) \/ SendRefused(c) \/ SendFails(c)
      PROVE  Goal
  BY <1>3, <1>7 DEF RereadFails, RecheckFresh, SendUnset, SendRefused, SendFails, FlightPoints
<1>8. ASSUME NEW c \in Callers, ServerRotates(c) PROVE Goal
  <2>1. cur \in Creds /\ cur # NoCred
    BY <1>8 DEF ServerRotates, Goto, FlightData
  <2>2. /\ issued' = issued + 1 /\ accepted' = (accepted \ {cur.rt}) \cup {issued + 1}
        /\ next'.rt = issued + 1
    BY <1>8 DEF ServerRotates, Issue, Pair
  <2>3. QED
    BY <1>8, <2>1, <2>2 DEF ServerRotates, Goto, storeVars
<1>9. ASSUME NEW c \in Callers, Persist(c) PROVE Goal
  <2>1. file' = NextCred(cur, next) /\ NextCred(cur, next).rt = next.rt
    BY <1>9, RotatedHere DEF Persist
  <2>2. next \in Creds /\ \A d \in Callers : pc'[d] # "reply"
    BY <1>9, OneLeads DEF Persist, Goto, FlightData, Leads, FlightPoints
  <2>3. QED
    BY <1>9, <2>1, <2>2 DEF Persist, Goto, flightVars, worldVars, serverVars
<1>10. ASSUME NEW c \in Callers, Store(c) PROVE Goal
  <2>1. mem' = NextCred(cur, next) /\ NextCred(cur, next).rt = next.rt
    BY <1>10, RotatedHere DEF Store
  <2>2. next \in Creds
    BY <1>10 DEF Store, FlightData
  <2>3. QED
    BY <1>2, <1>10, <2>1, <2>2 DEF Store, FlightPoints, worldVars, serverVars
<1>11. ASSUME NEW c \in Callers, Return(c) PROVE Goal
  BY <1>11 DEF Return, Goto, flightVars, storeVars, worldVars, serverVars
<1>12. CASE CliRefresh
  <2>1. /\ issued' = issued + 1 /\ accepted' = (accepted \ {file.rt}) \cup {issued + 1}
        /\ cli'.rt = issued + 1
    BY <1>12 DEF CliRefresh, Issue, Pair
  <2>2. cli' # NoCred /\ (Replied => next # NoCred)
    BY <1>12, PairType, CredFields DEF CliRefresh, Issue, FlightData
  <2>3. QED
    BY <1>12, <2>1, <2>2 DEF CliRefresh, callVars, flightVars
<1>13. CASE CliLogin
  <2>1. /\ issued' = issued + 1 /\ accepted' = (accepted \ {}) \cup {issued + 1}
        /\ cli'.rt = issued + 1
    BY <1>13 DEF CliLogin, Issue, Pair
  <2>2. cli' # NoCred /\ (Replied => next # NoCred)
    BY <1>13, PairType, TokenAssumption DEF CliLogin, Issue, FlightData, Numbers
  <2>3. QED
    BY <1>13, <2>1, <2>2 DEF CliLogin, callVars, flightVars
<1>14. CASE CliWrite
  <2>1. Replied => next # NoCred
    BY DEF FlightData
  <2>2. QED
    BY <1>14, <2>1 DEF CliWrite, callVars, flightVars, worldVars, serverVars
<1>15. CASE CliLogout
  BY <1>15 DEF CliLogout, callVars, flightVars, worldVars, serverVars
<1>16. (\E c \in Callers : Cancel(c)) \/ Restart => Goal
  BY DEF Cancel, Restart
<1>17. CASE GoStale \/ UNCHANGED vars
  BY <1>1, <1>17 DEF GoStale, vars, callVars, flightVars, storeVars, serverVars, worldVars
<1>18. QED
  BY <1>4, <1>5, <1>6, <1>7, <1>8, <1>9, <1>10, <1>11, <1>12, <1>13, <1>14, <1>15, <1>16, <1>17
     DEF Next, Call, Lead

LEMMA OneTokenStep ==
  ASSUME FlightInv, FlightInv', FileBacked, OneTokenInv, [Next]_vars, ~Rotates
  PROVE  OneTokenInv'
<1> DEFINE Goal == OneTokenInv'
<1> USE LoginNumbers DEF FlightInv, OneTokenInv, TypeOK
<1>1. ASSUME NEW e1, NEW e2, Failed(e1) = Failed(e2) PROVE e1 = e2
  BY <1>1 DEF Failed
<1>2. ASSUME NEW n, NEW e PROVE Token(n) # Failed(e)
  BY DEF Token, Failed
<1>3. ASSUME NEW c \in Callers, NEW a, Land(c, a), a # Failed("refused"),
             UNCHANGED <<storeVars, worldVars>>
      PROVE  Goal
  BY <1>3, LandParts DEF storeVars, worldVars, serverVars
<1>4. ASSUME NEW c \in Callers, Begin(c) \/ CheckFresh(c) \/ Join(c) \/ Send(c) PROVE Goal
  BY <1>4 DEF Begin, CheckFresh, Join, Send, Goto, flightVars, storeVars, worldVars, serverVars
<1>5. ASSUME NEW c \in Callers, LoadFails(c) \/ TakeToken(c) \/ Return(c) PROVE Goal
  BY <1>1, <1>2, <1>5 DEF LoadFails, TakeToken, Return, Pending, Goto, flightVars,
                          storeVars, worldVars, serverVars
<1>6. ASSUME NEW c \in Callers, EnsureLoaded(c) \/ Reread(c) PROVE Goal
  BY <1>6 DEF EnsureLoaded, Reread, Goto, flightVars, worldVars, serverVars
<1>7. ASSUME NEW c \in Callers, SendRefused(c) PROVE FALSE
  BY <1>7 DEF SendRefused, FlightData
<1>8. ASSUME NEW c \in Callers, RereadFails(c) \/ RecheckFresh(c) \/ SendUnset(c) \/ SendFails(c)
      PROVE  Goal
  <2>1. /\ Failed("unreadable") # Failed("refused") /\ Failed("unset") # Failed("refused")
        /\ Failed("cancelled") # Failed("refused") /\ Failed("network") # Failed("refused")
    BY <1>1
  <2>2. QED
    BY <1>2, <1>3, <1>8, <2>1 DEF RereadFails, RecheckFresh, SendUnset, SendFails
<1>9. ASSUME NEW used, Issue(used) PROVE accepted' = accepted
  BY <1>9 DEF Issue
<1>10. ASSUME NEW c \in Callers, ServerRotates(c) PROVE Goal
  BY <1>9, <1>10 DEF ServerRotates, Goto, Pair, FlightData, storeVars
<1>11. CASE CliRefresh \/ CliLogin
  BY <1>9, <1>11 DEF CliRefresh, CliLogin, Pair, callVars, flightVars
<1>12. ASSUME NEW c \in Callers, pc[c] \in {"reply", "store"}
       PROVE  NextCred(cur, next) # NoCred => NextCred(cur, next).rt = 1
  BY <1>12 DEF FlightData, NextCred, Rotated, Renewed
<1>13. ASSUME NEW c \in Callers, Persist(c) PROVE Goal
  BY <1>12, <1>13 DEF Persist, Goto, flightVars, worldVars, serverVars
<1>14. ASSUME NEW c \in Callers, Store(c) PROVE Goal
  BY <1>2, <1>12, <1>14, LandParts DEF Store, worldVars, serverVars
<1>15. CASE CliWrite \/ CliLogout
  BY <1>15 DEF CliWrite, CliLogout, callVars, flightVars, worldVars, serverVars
<1>16. CASE Restart
  BY <1>1, <1>16 DEF Restart, Pending, worldVars, serverVars
<1>17. ASSUME NEW c \in Callers, Cancel(c) PROVE Goal
  BY <1>17 DEF Cancel, callVars, flightVars, storeVars, worldVars, serverVars
<1>18. CASE GoStale \/ UNCHANGED vars
  BY <1>18 DEF GoStale, vars, callVars, flightVars, storeVars, serverVars, worldVars
<1>19. QED
  BY <1>4, <1>5, <1>6, <1>7, <1>8, <1>10, <1>11, <1>13, <1>14, <1>15, <1>16, <1>17, <1>18
     DEF Next, Call, Lead

LEMMA OneTokenStart == Init /\ ~Rotates => OneTokenInv
<1> SUFFICES ASSUME Init PROVE OneTokenInv
  OBVIOUS
<1>1. PICK held : Started(held) /\ held = NoCred
  BY DEF Init
<1>2. Pending # Failed("refused")
  BY DEF Pending, Failed
<1>3. \A k \in {file, mem, cur, next, cli} \ {NoCred} : k.rt = 1
  BY <1>1 DEF Started
<1>4. QED
  BY <1>1, <1>2, <1>3 DEF Started, OneTokenInv

LEMMA PostsTheFileStep ==
  ASSUME FlightInv, FileBacked, HandedOnInv, PostsTheFileInv, [Next]_vars, Faults = {}, Rotates
  PROVE  PostsTheFileInv'
<1> DEFINE Goal == PostsTheFileInv'
<1> USE DEF FlightInv, PostsTheFileInv, TypeOK
<1>1. ASSUME NEW e1, NEW e2, Failed(e1) = Failed(e2) PROVE e1 = e2
  BY <1>1 DEF Failed
<1>2. ASSUME NEW n, NEW e PROVE Token(n) # Failed(e)
  BY DEF Token, Failed
<1>3. ASSUME NEW c \in Callers, NEW a, Land(c, a), Leads(c), a # Failed("refused"),
             UNCHANGED <<file, cli, worldVars>>
      PROVE  Goal
  <2>1. \A d \in Callers : pc'[d] \notin {"recheck", "sent"}
    BY <1>3, OneLeads, LandParts DEF Leads, FlightPoints, Sharers
  <2>2. QED
    BY <1>3, <2>1, LandParts DEF worldVars
<1>4. ASSUME NEW c \in Callers, Begin(c) \/ CheckFresh(c) \/ Join(c) PROVE Goal
  BY <1>4 DEF Begin, CheckFresh, Join, Goto, flightVars, storeVars, worldVars
<1>5. ASSUME NEW c \in Callers, LoadFails(c) \/ TakeToken(c) \/ Return(c) PROVE Goal
  <2>1. Failed("unreadable") # Failed("refused") /\ Pending # Failed("refused")
    BY <1>1 DEF Pending
  <2>2. \A d \in Callers : answer'[d] = answer[d] \/ answer'[d] # Failed("refused")
    BY <1>2, <1>5, <2>1 DEF LoadFails, TakeToken, Return
  <2>3. QED
    BY <1>5, <2>2 DEF LoadFails, TakeToken, Return, Goto, flightVars, storeVars, worldVars
<1>6. ASSUME NEW c \in Callers, EnsureLoaded(c) PROVE Goal
  <2>1. ~loaded => \A d \in Callers : pc[d] # "recheck"
    BY DEF FlightData
  <2>2. QED
    BY <1>6, <2>1 DEF EnsureLoaded, Goto, flightVars, worldVars
<1>7. ASSUME NEW c \in Callers, Reread(c) PROVE Goal
  BY <1>7 DEF Reread, Goto, flightVars, worldVars
<1>8. ASSUME NEW c \in Callers, Send(c) PROVE Goal
  <2>1. \A d \in Callers : pc[d] # "sent"
    BY <1>8, OneLeads DEF Send, Goto, Leads, FlightPoints
  <2>2. QED
    BY <1>8, <2>1 DEF Send, Goto, storeVars, worldVars
<1>9. ASSUME NEW c \in Callers, SendRefused(c), alone PROVE FALSE
  <2>1. pc[c] = "sent" /\ cur.rt \notin accepted /\ cur \in Creds
    BY <1>9 DEF SendRefused, FlightData
  <2>2. cur = file /\ cli = NoCred /\ file # NoCred
    BY <1>9, <2>1, LoginNumbers
  <2>3. \A d \in Callers : pc[d] # "reply"
    BY <2>1, OneLeads DEF Leads, FlightPoints
  <2>4. QED
    BY <2>1, <2>2, <2>3 DEF HandedOnInv, Replied
<1>10. ASSUME NEW c \in Callers, SendRefused(c) PROVE Goal
  BY <1>9, <1>10 DEF SendRefused, worldVars
<1>11. ASSUME NEW c \in Callers,
              RereadFails(c) \/ RecheckFresh(c) \/ SendUnset(c) \/ SendFails(c) \/ Store(c)
       PROVE  Goal
  <2>1. /\ Failed("unreadable") # Failed("refused") /\ Failed("unset") # Failed("refused")
        /\ Failed("cancelled") # Failed("refused") /\ Failed("network") # Failed("refused")
    BY <1>1
  <2>2. QED
    BY <1>2, <1>3, <1>11, <2>1
       DEF RereadFails, RecheckFresh, SendUnset, SendFails, Store, storeVars, Leads, FlightPoints
<1>12. ASSUME NEW c \in Callers, ServerRotates(c) PROVE Goal
  BY <1>12 DEF ServerRotates, Goto, storeVars
<1>13. ASSUME NEW c \in Callers, Persist(c) PROVE Goal
  <2>1. \A d \in Callers : pc'[d] \notin {"recheck", "sent"}
    BY <1>13, OneLeads DEF Persist, Goto, Leads, FlightPoints
  <2>2. QED
    BY <1>13, <2>1 DEF Persist, Goto, flightVars, worldVars
<1>14. CASE CliRefresh \/ CliLogin \/ CliWrite \/ CliLogout
  BY <1>14 DEF CliRefresh, CliLogin, CliWrite, CliLogout, callVars, worldVars
<1>15. (\E c \in Callers : Cancel(c)) \/ Restart => Goal
  BY DEF Cancel, Restart
<1>16. CASE GoStale \/ UNCHANGED vars
  BY <1>16 DEF GoStale, vars, callVars, flightVars, storeVars, worldVars
<1>17. QED
  BY <1>4, <1>5, <1>6, <1>7, <1>8, <1>10, <1>11, <1>12, <1>13, <1>14, <1>15, <1>16
     DEF Next, Call, Lead

LEMMA HandedOnInvariant ==
  ASSUME Faults = {}, Rotates
  PROVE  Spec => [](HandedOnInv /\ PostsTheFileInv)
<1>1. FlightInv /\ FlightInv' /\ FileBacked /\ HandedOnInv /\ [Next]_vars => HandedOnInv'
  BY HandedOnStep
<1>2. FlightInv /\ FileBacked /\ HandedOnInv /\ PostsTheFileInv /\ [Next]_vars
      => PostsTheFileInv'
  BY PostsTheFileStep
<1>3. Init => PostsTheFileInv
  BY DEF Init, Started, PostsTheFileInv, Pending, Failed
<1>4. QED
  BY FileInvariant, HandedOnStart, <1>1, <1>2, <1>3, PTL DEF Spec

LEMMA OneTokenInvariant ==
  ASSUME ~Rotates
  PROVE  Spec => []OneTokenInv
<1>1. FlightInv /\ FlightInv' /\ FileBacked /\ OneTokenInv /\ [Next]_vars => OneTokenInv'
  BY OneTokenStep
<1>2. Init => OneTokenInv
  BY OneTokenStart
<1>3. QED
  BY FileInvariant, <1>1, <1>2, PTL DEF Spec

\* Whatever the CLI does beside it, the gateway does not lose the login: when
\* the server rotates nothing, whatever fails; when it rotates the refresh
\* token, as long as no client leaves, no request fails, the file can be written
\* and the gateway lives (MCTokenRotationLost shows what one client that leaves
\* can do).
THEOREM LoginKept ==
  ASSUME Faults = {} \/ ~Rotates
  PROVE  Spec => []RotationKept
<1>1. FlightInv /\ HandedOnInv => RotationKept
  <2> SUFFICES ASSUME FlightInv, HandedOnInv, file # NoCred
               PROVE  \E k \in ({file, cli} \cup (IF Replied THEN {next} ELSE {})) \ {NoCred} :
                        k.rt \in accepted
    BY DEF RotationKept, Replied
  <2>1. CASE Replied
    <3>1. next # NoCred /\ next.rt \in accepted
      BY <2>1, LoginNumbers DEF FlightInv, FlightData, HandedOnInv, Replied
    <3>2. QED
      BY <2>1, <3>1
  <2>2. CASE ~Replied
    BY <2>2 DEF HandedOnInv
  <2>3. QED
    BY <2>1, <2>2
<1>2. OneTokenInv => RotationKept
  BY DEF OneTokenInv, RotationKept
<1>3. CASE Rotates
  <2>1. Spec => [](HandedOnInv /\ PostsTheFileInv)
    BY <1>3, HandedOnInvariant
  <2>2. QED
    BY FileInvariant, <1>1, <2>1, PTL
<1>4. CASE ~Rotates
  <2>1. Spec => []OneTokenInv
    BY <1>4, OneTokenInvariant
  <2>2. QED
    BY <1>2, <2>1, PTL
<1>5. QED
  BY <1>3, <1>4

\* Under the same conditions the gateway, as long as it is alone with its file,
\* never posts a refresh token that has been used up.
THEOREM AloneNeverRefused ==
  ASSUME Faults = {} \/ ~Rotates
  PROVE  Spec => []NeverRefusedAlone
<1>1. PostsTheFileInv => NeverRefusedAlone
  BY DEF PostsTheFileInv, NeverRefusedAlone
<1>2. OneTokenInv => NeverRefusedAlone
  BY DEF OneTokenInv, NeverRefusedAlone
<1>3. CASE Rotates
  <2>1. Spec => [](HandedOnInv /\ PostsTheFileInv)
    BY <1>3, HandedOnInvariant
  <2>2. QED
    BY <1>1, <2>1, PTL
<1>4. CASE ~Rotates
  <2>1. Spec => []OneTokenInv
    BY <1>4, OneTokenInvariant
  <2>2. QED
    BY <1>2, <2>1, PTL
<1>5. QED
  BY <1>3, <1>4
=============================================================================
