----------------------------- MODULE TokenProofs -----------------------------
(***************************************************************************)
(* Theorems about TokenManager and CopilotExchange, for every provider,    *)
(* any number of callers, whatever the server and the CLI do, and every    *)
(* fault.                                                                  *)
(***************************************************************************)
EXTENDS CopilotExchange, TLAPS

-----------------------------------------------------------------------------
(* Types.                                                                  *)

LEMMA CredFields ==
  ASSUME NEW k \in Creds
  PROVE  k.at \in Numbers /\ k.rt \in Numbers
BY DEF Creds

LEMMA NextCredType ==
  ASSUME NEW k \in Creds, NEW n \in Creds
  PROVE  NextCred(k, n) \in Creds
BY DEF NextCred, Rotated, Renewed, Creds

LEMMA AnswerType ==
  /\ \A n \in Numbers : Token(n) \in Answers
  /\ \A n \in Numbers, b \in 0..MaxIssued : [tok |-> n, base |-> b] \in Answers
  /\ \A e \in Errors : Failed(e) \in Answers
  /\ Pending \in Answers
BY DEF Token, Failed, Pending, Answers, Errors

LEMMA BeganType == 0 \in 0..MaxIssued
BY TokenAssumption

LEMMA PairType ==
  ASSUME NEW rt \in Numbers, issued \in Numbers, issued < MaxIssued
  PROVE  Pair(rt) \in Creds
BY TokenAssumption DEF Pair, Creds, Numbers

\* The flight is over for c and everybody who shares its result.
LEMMA LandType ==
  ASSUME TypeOK, NEW c \in Callers, NEW a \in Answers, Land(c, a)
  PROVE  /\ pc' \in [Callers -> CallPoints \cup FlightPoints]
         /\ answer' \in [Callers -> Answers]
         /\ leader' \in Callers \cup {Nobody}
         /\ cur' \in Creds \cup {NoCred}
         /\ next' \in Creds \cup {NoCred}
BY DEF TypeOK, Land, CallPoints

\* Where a leader stands, what it works with is there; and an account with a
\* file and one of Copilot have points of their own.
FlightData ==
  /\ \A c \in Callers : pc[c] \in {"sent", "reply", "store"} => cur \in Creds
  /\ \A c \in Callers : pc[c] \in {"reply", "store", "renew"} => next \in Creds
  /\ FileBacked => \A c \in Callers :
       /\ pc[c] \notin {"idle", "load", "done"} => loaded
       /\ pc[c] \notin {"state", "exchange", "renew"}
  /\ ~FileBacked => \A c \in Callers :
       pc[c] \notin {"load", "check", "take", "recheck", "sent", "reply", "store"}
  /\ loaded => mem \in Creds

\* The inductive invariant.
FlightInv == TypeOK /\ OneFlight /\ FlightData

LEMMA FlightInit == LoginInit => FlightInv
<1> SUFFICES ASSUME LoginInit PROVE FlightInv
  OBVIOUS
<1>0. \E held \in {NoCred, [at |-> 1, rt |-> 1]} : Started(held)
  BY DEF LoginInit, Init
<1>1. [at |-> 1, rt |-> 1] \in Creds /\ 1 \in Numbers /\ 0 \in 0..MaxIssued
  BY TokenAssumption DEF Creds, Numbers
<1>2. TypeOK
  BY <1>0, <1>1, AnswerType DEF Started, TypeOK, CallPoints
<1>3. OneFlight /\ FlightData
  BY <1>0, TokenAssumption DEF Started, OneFlight, FlightData, Leads, FlightPoints
<1> QED BY <1>2, <1>3 DEF FlightInv

\* Every step keeps the types.
LEMMA TypeStep ==
  ASSUME FlightInv, [LoginNext]_vars
  PROVE  TypeOK'
<1> USE DEF FlightInv
<1>1. ASSUME NEW c \in Callers, Begin(c) PROVE TypeOK'
  BY <1>1 DEF Begin, TypeOK, Goto, CallPoints, flightVars, storeVars, worldVars, serverVars
<1>2. ASSUME NEW c \in Callers, EnsureLoaded(c) PROVE TypeOK'
  BY <1>2 DEF EnsureLoaded, TypeOK, Goto, CallPoints, flightVars, worldVars, serverVars
<1>3. ASSUME NEW c \in Callers, LoadFails(c) PROVE TypeOK'
  <2>1. Failed("unreadable") \in Answers
    BY AnswerType DEF Errors
  <2>2. QED
    BY <1>3, <2>1 DEF LoadFails, TypeOK, Goto, CallPoints, flightVars, storeVars, worldVars, serverVars
<1>4. ASSUME NEW c \in Callers, CheckFresh(c) PROVE TypeOK'
  BY <1>4 DEF CheckFresh, TypeOK, Goto, CallPoints, flightVars, storeVars, worldVars, serverVars
<1>5. ASSUME NEW c \in Callers, TakeToken(c) PROVE TypeOK'
  <2>1. Token(mem.at) \in Answers
    BY <1>5, AnswerType, CredFields DEF TakeToken, Goto, FlightData
  <2>2. QED
    BY <1>5, <2>1 DEF TakeToken, TypeOK, Goto, CallPoints, flightVars, storeVars, worldVars, serverVars
<1>6. ASSUME NEW c \in Callers, Join(c) PROVE TypeOK'
  BY <1>6 DEF Join, TypeOK, Goto, CallPoints, FlightPoints, storeVars, worldVars, serverVars
<1>7. ASSUME NEW c \in Callers, Reread(c) PROVE TypeOK'
  BY <1>7 DEF Reread, TypeOK, Goto, FlightPoints, flightVars, worldVars, serverVars
<1>8. ASSUME NEW c \in Callers, NEW a \in Answers, Land(c, a),
             UNCHANGED <<began, cancelled, storeVars, worldVars>>
      PROVE  TypeOK'
  <2>1. /\ pc' \in [Callers -> CallPoints \cup FlightPoints]
        /\ answer' \in [Callers -> Answers]
        /\ leader' \in Callers \cup {Nobody}
        /\ cur' \in Creds \cup {NoCred}
        /\ next' \in Creds \cup {NoCred}
    BY <1>8, LandType
  <2>2. QED
    BY <1>8, <2>1 DEF TypeOK, storeVars, worldVars, serverVars
<1>9. ASSUME NEW c \in Callers, RereadFails(c) PROVE TypeOK'
  BY <1>8, <1>9, AnswerType DEF RereadFails, Errors
<1>10. ASSUME NEW c \in Callers, RecheckFresh(c) PROVE TypeOK'
  <2>1. Token(mem.at) \in Answers
    BY <1>10, AnswerType, CredFields DEF RecheckFresh, FlightData
  <2>2. QED
    BY <1>8, <1>10, <2>1 DEF RecheckFresh
<1>11. ASSUME NEW c \in Callers, Send(c) PROVE TypeOK'
  BY <1>11 DEF Send, TypeOK, Goto, FlightPoints, storeVars, worldVars, serverVars
<1>12. ASSUME NEW c \in Callers, SendUnset(c) PROVE TypeOK'
  BY <1>8, <1>12, AnswerType DEF SendUnset, Errors
<1>13. ASSUME NEW c \in Callers, SendFails(c) PROVE TypeOK'
  <2>1. Failed("cancelled") \in Answers /\ Failed("network") \in Answers
    BY AnswerType DEF Errors
  <2>2. QED
    BY <1>8, <1>13, <2>1 DEF SendFails
<1>14. ASSUME NEW c \in Callers, SendRefused(c) PROVE TypeOK'
  BY <1>8, <1>14, AnswerType DEF SendRefused, Errors
<1>15. ASSUME NEW used, Issue(used)
       PROVE  issued' \in Numbers /\ accepted' \subseteq Numbers /\ undated' \subseteq Numbers
  <2>1. issued + 1 \in Numbers
    BY <1>15, TokenAssumption DEF Issue, TypeOK, Numbers
  <2>2. accepted' \subseteq Numbers
    BY <1>15, <2>1 DEF Issue, TypeOK
  <2>3. undated' = undated \/ undated' = undated \cup {issued + 1}
    BY <1>15 DEF Issue
  <2>4. QED
    BY <1>15, <2>1, <2>2, <2>3 DEF Issue, TypeOK
<1>16. ASSUME NEW c \in Callers, ServerRotates(c) PROVE TypeOK'
  <2>1. next' \in Creds
    BY <1>16, PairType, CredFields DEF ServerRotates, Issue, Goto, FlightData, TypeOK
  <2>2. QED
    BY <1>15, <1>16, <2>1 DEF ServerRotates, TypeOK, Goto, FlightPoints, storeVars
<1>17. ASSUME NEW c \in Callers, Persist(c) PROVE TypeOK'
  <2>1. NextCred(cur, next) \in Creds
    BY <1>17, NextCredType DEF Persist, Goto, FlightData
  <2>2. QED
    BY <1>17, <2>1 DEF Persist, TypeOK, Goto, FlightPoints, flightVars, worldVars, serverVars
<1>18. ASSUME NEW c \in Callers, Store(c) PROVE TypeOK'
  <2>1. NextCred(cur, next) \in Creds /\ Token(next.at) \in Answers
    BY <1>18, NextCredType, CredFields, AnswerType DEF Store, FlightData
  <2>2. /\ pc' \in [Callers -> CallPoints \cup FlightPoints]
        /\ answer' \in [Callers -> Answers]
        /\ leader' \in Callers \cup {Nobody}
        /\ cur' \in Creds \cup {NoCred}
        /\ next' \in Creds \cup {NoCred}
    BY <1>18, <2>1, LandType DEF Store
  <2>3. QED
    BY <1>18, <2>1, <2>2 DEF Store, TypeOK, worldVars, serverVars
<1>19. ASSUME NEW c \in Callers, Return(c) PROVE TypeOK'
  BY <1>19, AnswerType, BeganType DEF Return, TypeOK, Goto, CallPoints, flightVars, storeVars, worldVars, serverVars
<1>20. CASE CliRefresh
  <2>1. cli' \in Creds
    BY <1>20, PairType, CredFields DEF CliRefresh, Issue, TypeOK
  <2>2. QED
    BY <1>15, <1>20, <2>1 DEF CliRefresh, TypeOK, callVars, flightVars
<1>21. CASE CliLogin
  <2>1. cli' \in Creds
    BY <1>21, PairType, TokenAssumption DEF CliLogin, Issue, TypeOK, Numbers
  <2>2. QED
    BY <1>15, <1>21, <2>1 DEF CliLogin, TypeOK, callVars, flightVars
<1>22. CASE CliWrite
  BY <1>22 DEF CliWrite, TypeOK, callVars, flightVars, worldVars, serverVars
<1>23. CASE CliLogout
  BY <1>23 DEF CliLogout, TypeOK, callVars, flightVars, worldVars, serverVars
<1>24. ASSUME NEW c \in Callers, Cancel(c) PROVE TypeOK'
  BY <1>24 DEF Cancel, TypeOK, callVars, flightVars, storeVars, worldVars, serverVars
<1>25. CASE Restart
  BY <1>25, AnswerType, BeganType DEF Restart, TypeOK, CallPoints, serverVars, worldVars
<1>26. CASE GoStale
  BY <1>26, TokenAssumption DEF GoStale, TypeOK, Numbers, callVars, flightVars, storeVars, serverVars
<1>27. ASSUME NEW c \in Callers, BeginExchange(c) PROVE TypeOK'
  BY <1>27 DEF BeginExchange, TypeOK, Goto, CallPoints, flightVars, storeVars, worldVars, serverVars
<1>28. ASSUME NEW c \in Callers, StateFresh PROVE Token(mem.at) \in Answers
  BY <1>28, AnswerType, CredFields DEF StateFresh, TypeOK
<1>29. ASSUME NEW c \in Callers, LoadState(c) PROVE TypeOK'
  BY <1>28, <1>29 DEF LoadState, TypeOK, Goto, CallPoints, flightVars, storeVars, worldVars, serverVars
<1>30. ASSUME NEW c \in Callers, ReloadState(c) PROVE TypeOK'
  <2>1. CASE StateFresh
    BY <1>8, <1>28, <1>30, <2>1 DEF ReloadState
  <2>2. CASE ~StateFresh
    BY <1>30, <2>2 DEF ReloadState, TypeOK, Goto, FlightPoints, storeVars, worldVars, serverVars
  <2>3. QED
    BY <2>1, <2>2
<1>31. ASSUME NEW c \in Callers, ExchangeFails(c) PROVE TypeOK'
  <2>1. \A e \in {"cancelled", "network", "refused"} : Failed(e) \in Answers
    BY AnswerType DEF Errors
  <2>2. QED
    BY <1>8, <1>31, <2>1 DEF ExchangeFails
<1>32. ASSUME NEW c \in Callers, Exchanged(c) PROVE TypeOK'
  <2>1. next' \in Creds
    BY <1>32, TokenAssumption DEF Exchanged, Issue, TypeOK, Creds, Numbers
  <2>2. QED
    BY <1>15, <1>32, <2>1 DEF Exchanged, TypeOK, Goto, FlightPoints, storeVars
<1>33. ASSUME NEW c \in Callers, StoreState(c) PROVE TypeOK'
  <2>1. next \in Creds /\ Token(next.at) \in Answers
    BY <1>33, CredFields, AnswerType DEF StoreState, FlightData
  <2>2. /\ pc' \in [Callers -> CallPoints \cup FlightPoints]
        /\ answer' \in [Callers -> Answers]
        /\ leader' \in Callers \cup {Nobody}
        /\ cur' \in Creds \cup {NoCred}
        /\ next' \in Creds \cup {NoCred}
    BY <1>33, <2>1, LandType DEF StoreState
  <2>3. QED
    BY <1>33, <2>1, <2>2 DEF StoreState, TypeOK, worldVars, serverVars
<1>34. ASSUME NEW c \in Callers, ReadBase(c) PROVE TypeOK'
  <2> DEFINE base == IF mem = NoCred THEN Default ELSE mem.at
  <2>1. base \in 0..MaxIssued
    BY CredFields, TokenAssumption DEF TypeOK, Default, Numbers
  <2>2. answer[c].tok \in Numbers
    BY <1>34 DEF ReadBase
  <2>3. [tok |-> answer[c].tok, base |-> base] \in Answers
    BY <2>1, <2>2, AnswerType
  <2>4. QED
    BY <1>34, <2>3 DEF ReadBase, TypeOK, flightVars, storeVars, worldVars, serverVars
<1>35. CASE UNCHANGED vars
  BY <1>35 DEF vars, TypeOK, callVars, flightVars, storeVars, worldVars, serverVars
<1>36. CASE Next
  BY <1>1, <1>2, <1>3, <1>4, <1>5, <1>6, <1>7, <1>9, <1>10, <1>11, <1>12,
     <1>13, <1>14, <1>16, <1>17, <1>18, <1>19, <1>20, <1>21, <1>22, <1>23,
     <1>24, <1>25, <1>26, <1>36 DEF Next, Call, Lead
<1>37. QED
  BY <1>27, <1>29, <1>30, <1>31, <1>32, <1>33, <1>34, <1>35, <1>36
     DEF LoginNext, CopilotCall

\* Who joins, leads or leaves the flight, and with what in hand.
LEMMA LandKeeps ==
  ASSUME FlightInv, NEW c \in Callers, NEW a, Leads(c), Land(c, a),
         UNCHANGED <<loaded, source>>, loaded' => mem' \in Creds
  PROVE  OneFlight' /\ FlightData'
<1>1. /\ leader' = Nobody
      /\ \A d \in Callers : /\ pc'[d] = IF d \in Sharers(c) THEN "done" ELSE pc[d]
  BY DEF Land
<1>2. \A d \in Callers : Leads(d) => d = c
  BY DEF FlightInv, OneFlight
<1>3. \A d \in Callers : d # c /\ pc[d] # "follow" => d \notin Sharers(c)
  BY DEF Sharers
<1>4. \A d \in Callers : d = c \/ pc[d] = "follow" => d \in Sharers(c)
  BY DEF Sharers
<1>5. \A d \in Callers : pc'[d] \notin FlightPoints /\ pc'[d] # "follow"
  BY <1>1, <1>2, <1>3, <1>4 DEF Leads, FlightPoints
<1>6. OneFlight'
  BY <1>1, <1>5, TokenAssumption DEF OneFlight, Leads
<1>7. FlightData'
  BY <1>1, <1>5 DEF FlightInv, FlightData, FlightPoints, FileBacked
<1>8. QED
  BY <1>6, <1>7

LEMMA FlightStep ==
  ASSUME FlightInv, [LoginNext]_vars
  PROVE  OneFlight' /\ FlightData'
<1> DEFINE Goal == OneFlight' /\ FlightData'
<1> USE TokenAssumption DEF FlightInv, OneFlight, FlightData, TypeOK, Leads, FlightPoints, FileBacked, worldVars
<1>1. ASSUME NEW c \in Callers, Begin(c) PROVE Goal
  BY <1>1 DEF Begin, Goto, flightVars, storeVars
<1>2. ASSUME NEW c \in Callers, EnsureLoaded(c) PROVE Goal
  BY <1>2 DEF EnsureLoaded, Goto, flightVars
<1>3. ASSUME NEW c \in Callers, LoadFails(c) PROVE Goal
  BY <1>3 DEF LoadFails, Goto, flightVars, storeVars
<1>4. ASSUME NEW c \in Callers, CheckFresh(c) PROVE Goal
  BY <1>4 DEF CheckFresh, Goto, flightVars, storeVars
<1>5. ASSUME NEW c \in Callers, TakeToken(c) PROVE Goal
  BY <1>5 DEF TakeToken, Goto, flightVars, storeVars
<1>6. ASSUME NEW c \in Callers, Join(c) PROVE Goal
  BY <1>6 DEF Join, Goto, storeVars
<1>7. ASSUME NEW c \in Callers, Reread(c) PROVE Goal
  BY <1>7 DEF Reread, Goto, flightVars
<1>8. ASSUME NEW c \in Callers, RereadFails(c) PROVE Goal
  BY <1>8, LandKeeps DEF RereadFails, storeVars
<1>9. ASSUME NEW c \in Callers, RecheckFresh(c) PROVE Goal
  BY <1>9, LandKeeps DEF RecheckFresh, storeVars
<1>10. ASSUME NEW c \in Callers, Send(c) PROVE Goal
  BY <1>10 DEF Send, Goto, storeVars
<1>11. ASSUME NEW c \in Callers, SendUnset(c) PROVE Goal
  BY <1>11, LandKeeps DEF SendUnset, storeVars
<1>12. ASSUME NEW c \in Callers, SendFails(c) PROVE Goal
  BY <1>12, LandKeeps DEF SendFails, storeVars
<1>13. ASSUME NEW c \in Callers, SendRefused(c) PROVE Goal
  BY <1>13, LandKeeps DEF SendRefused, storeVars
<1>14. ASSUME NEW c \in Callers, ServerRotates(c) PROVE Goal
  <2>1. next' \in Creds
    BY <1>14, PairType, CredFields DEF ServerRotates, Issue, Goto
  <2>2. QED
    BY <1>14, <2>1 DEF ServerRotates, Goto, storeVars
<1>15. ASSUME NEW c \in Callers, Persist(c) PROVE Goal
  BY <1>15 DEF Persist, Goto, flightVars
<1>16. ASSUME NEW c \in Callers, Store(c) PROVE Goal
  <2>1. mem' \in Creds
    BY <1>16, NextCredType DEF Store
  <2>2. QED
    BY <1>16, <2>1, LandKeeps DEF Store
<1>17. ASSUME NEW c \in Callers, Return(c) PROVE Goal
  BY <1>17 DEF Return, Goto, flightVars, storeVars
<1>18. ASSUME CliRefresh \/ CliLogin \/ CliWrite \/ CliLogout PROVE Goal
  BY <1>18 DEF CliRefresh, CliLogin, CliWrite, CliLogout, callVars, flightVars
<1>19. ASSUME NEW c \in Callers, Cancel(c) PROVE Goal
  BY <1>19 DEF Cancel, callVars, flightVars, storeVars
<1>20. CASE Restart
  BY <1>20 DEF Restart
<1>21. CASE GoStale
  BY <1>21 DEF GoStale, callVars, flightVars, storeVars
<1>22. ASSUME NEW c \in Callers, BeginExchange(c) PROVE Goal
  BY <1>22 DEF BeginExchange, Goto, flightVars, storeVars
<1>23. ASSUME NEW c \in Callers, LoadState(c) PROVE Goal
  BY <1>23 DEF LoadState, Goto, flightVars, storeVars
<1>24. ASSUME NEW c \in Callers, ReloadState(c) PROVE Goal
  <2>1. CASE StateFresh
    BY <1>24, <2>1, LandKeeps DEF ReloadState, storeVars
  <2>2. CASE ~StateFresh
    BY <1>24, <2>2 DEF ReloadState, Goto, storeVars
  <2>3. QED
    BY <2>1, <2>2
<1>25. ASSUME NEW c \in Callers, ExchangeFails(c) PROVE Goal
  BY <1>25, LandKeeps DEF ExchangeFails, storeVars
<1>26. ASSUME NEW c \in Callers, Exchanged(c) PROVE Goal
  <2>1. next' \in Creds
    BY <1>26 DEF Exchanged, Issue, Creds, Numbers
  <2>2. QED
    BY <1>26, <2>1 DEF Exchanged, Goto, storeVars
<1>27. ASSUME NEW c \in Callers, StoreState(c) PROVE Goal
  BY <1>27, LandKeeps DEF StoreState
<1>28. ASSUME NEW c \in Callers, ReadBase(c) PROVE Goal
  BY <1>28 DEF ReadBase, flightVars, storeVars
<1>29. CASE UNCHANGED vars
  BY <1>29 DEF vars, callVars, flightVars, storeVars
<1>30. CASE Next
  BY <1>1, <1>2, <1>3, <1>4, <1>5, <1>6, <1>7, <1>8, <1>9, <1>10, <1>11,
     <1>12, <1>13, <1>14, <1>15, <1>16, <1>17, <1>18, <1>19, <1>20, <1>21,
     <1>30 DEF Next, Call, Lead
<1>31. QED
  BY <1>22, <1>23, <1>24, <1>25, <1>26, <1>27, <1>28, <1>29, <1>30
     DEF LoginNext, CopilotCall

LEMMA FlightInvariant == LoginSpec => []FlightInv
<1>1. FlightInv /\ [LoginNext]_vars => FlightInv'
  BY TypeStep, FlightStep DEF FlightInv
<1>2. QED
  BY FlightInit, <1>1, PTL DEF LoginSpec

\* An account with a file is one of the logins.
LEMMA FileLogin == Spec => LoginSpec
<1>1. Init => LoginInit
  BY DEF LoginInit
<1>2. [Next]_vars => [LoginNext]_vars
  BY DEF LoginNext
<1>3. QED
  BY <1>1, <1>2, PTL DEF Spec, LoginSpec

\* Types hold for every source, server and fault.
THEOREM TokenTypes == LoginSpec => []TypeOK
<1>1. FlightInv => TypeOK
  BY DEF FlightInv
<1>2. QED
  BY FlightInvariant, <1>1, PTL

\* However many callers find the token stale, one of them refreshes or exchanges,
\* and none waits for a flight that is over; so it is after cancellations,
\* failures, restarts and whatever the CLI does to the file.
THEOREM SingleFlight == LoginSpec => []OneFlight
<1>1. FlightInv => OneFlight
  BY DEF FlightInv
<1>2. QED
  BY FlightInvariant, <1>1, PTL

\* So it is with the token manager alone.
THEOREM SingleRefresh == Spec => []OneFlight
BY FileLogin, SingleFlight, PTL

-----------------------------------------------------------------------------
(* Copilot's token and endpoint.                                           *)

\* What memory holds is never newer than what was issued, nor older than a token
\* a caller was given; the answer that is about to be stored is the newest.
ExchangeInv ==
  /\ FileBacked => \A c \in Callers : "base" \notin DOMAIN answer[c]
  /\ ~FileBacked =>
       /\ mem # NoCred => mem.at <= issued
       /\ \A c \in Callers : pc[c] = "renew" =>
            next.at <= issued /\ (mem # NoCred => mem.at <= next.at)
       /\ \A c \in Callers : IsToken(answer[c]) =>
            mem # NoCred /\ answer[c].tok <= mem.at
  /\ ExchangesFit

\* The numbers of what is in memory and of what comes.
LEMMA ExchangeNumbers ==
  ASSUME TypeOK
  PROVE  /\ issued \in Nat /\ stale \in Nat
         /\ mem # NoCred => mem.at \in Nat
         /\ next \in Creds => next.at \in Nat
         /\ cur # NoCred => cur.at \in Nat
         /\ \A c \in Callers : IsToken(answer[c]) => answer[c].tok \in Nat
         /\ \A c \in Callers : "base" \in DOMAIN answer[c] => IsToken(answer[c])
BY TokenAssumption DEF TypeOK, Creds, Numbers, Answers, IsToken

LEMMA ExchangeInit == LoginInit => ExchangeInv
<1> SUFFICES ASSUME LoginInit PROVE ExchangeInv
  OBVIOUS
<1>1. PICK held \in {NoCred, [at |-> 1, rt |-> 1]} : Started(held)
  BY DEF LoginInit, Init
<1>2. \A c \in Callers : DOMAIN answer[c] = {"err"}
  BY <1>1 DEF Started, Pending, Failed
<1>3. mem # NoCred => mem.at <= issued
  BY <1>1 DEF Started
<1>4. QED
  BY <1>1, <1>2, <1>3 DEF Started, ExchangeInv, ExchangesFit, EndpointFits,
                          ExchangeOnlyWhenStale, IsToken

LEMMA AnswerFields ==
  /\ \A n : ~("base" \in DOMAIN Token(n)) /\ IsToken(Token(n)) /\ Token(n).tok = n
  /\ \A e : ~("base" \in DOMAIN Failed(e)) /\ ~IsToken(Failed(e))
  /\ ~("base" \in DOMAIN Pending) /\ ~IsToken(Pending)
BY DEF Token, Failed, Pending, IsToken

\* A login with a file never has an endpoint, nor an exchange.
LEMMA ExchangeStepFile ==
  ASSUME FlightInv, FlightInv', ExchangeInv, [LoginNext]_vars, FileBacked
  PROVE  ExchangeInv'
<1> DEFINE NoBase == \A c \in Callers : "base" \notin DOMAIN answer'[c]
<1> USE DEF FlightInv, TypeOK
<1>1. UNCHANGED source
  BY DEF LoginNext, Next, CopilotCall, Call, Lead, Begin, EnsureLoaded, LoadFails,
         CheckFresh, TakeToken, Join, Reread, RereadFails, RecheckFresh, Send,
         SendUnset, SendFails, SendRefused, ServerRotates, Persist, Store, Return,
         CliRefresh, CliLogin, CliWrite, CliLogout, Cancel, Restart, GoStale,
         BeginExchange, LoadState, ReloadState, ExchangeFails, Exchanged, StoreState,
         ReadBase, worldVars, vars
<1>2. ASSUME NEW c \in Callers, NEW a, "base" \notin DOMAIN a, Land(c, a) PROVE NoBase
  BY <1>2 DEF Land, ExchangeInv
<1>3. ASSUME UNCHANGED answer PROVE NoBase
  BY <1>3 DEF ExchangeInv
<1>4. ASSUME NEW c \in Callers, NEW a, "base" \notin DOMAIN a,
             answer' = [answer EXCEPT ![c] = a]
      PROVE  NoBase
  BY <1>4 DEF ExchangeInv
<1>5. ASSUME NEW c \in Callers, Call(c) \/ Begin(c) \/ SendFails(c) \/ Cancel(c) PROVE NoBase
  <2>1. CASE Begin(c) \/ EnsureLoaded(c) \/ CheckFresh(c) \/ Join(c) \/ Reread(c)
             \/ Send(c) \/ ServerRotates(c) \/ Persist(c) \/ Cancel(c)
    BY <1>3, <2>1 DEF Begin, EnsureLoaded, CheckFresh, Join, Reread, Send,
                      ServerRotates, Persist, Cancel, callVars
  <2>2. CASE LoadFails(c) \/ TakeToken(c) \/ Return(c)
    BY <1>4, <2>2, AnswerFields DEF LoadFails, TakeToken, Return
  <2>3. CASE RereadFails(c) \/ RecheckFresh(c) \/ SendUnset(c) \/ SendRefused(c)
             \/ Store(c) \/ SendFails(c)
    BY <1>2, <2>3, AnswerFields DEF RereadFails, RecheckFresh, SendUnset, SendRefused,
                                    Store, SendFails
  <2>4. QED
    BY <1>5, <2>1, <2>2, <2>3 DEF Call, Lead
<1>6. ASSUME NEW c \in Callers, CopilotCall(c) \/ ExchangeFails(c) \/ BeginExchange(c)
      PROVE  NoBase
  BY <1>6 DEF CopilotCall, LoadState, ReloadState, Exchanged, StoreState, ReadBase,
              ExchangeFails, BeginExchange, Goto, FlightData
<1>7. ASSUME CliRefresh \/ CliLogin \/ CliWrite \/ CliLogout \/ GoStale \/ UNCHANGED vars
      PROVE  NoBase
  BY <1>3, <1>7 DEF CliRefresh, CliLogin, CliWrite, CliLogout, GoStale, vars, callVars
<1>8. ASSUME Restart PROVE NoBase
  BY <1>8, AnswerFields DEF Restart
<1>9. NoBase
  BY <1>5, <1>6, <1>7, <1>8 DEF LoginNext, Next
<1>10. \A c \in Callers : pc'[c] # "exchange"
  BY <1>1 DEF FlightData, FileBacked
<1>11. QED
  BY <1>1, <1>9, <1>10 DEF ExchangeInv, ExchangesFit, EndpointFits, ExchangeOnlyWhenStale,
                           FileBacked

\* Copilot: memory only grows, until a restart, which ends every call.
LEMMA ExchangeStepCopilot ==
  ASSUME FlightInv, FlightInv', ExchangeInv, [LoginNext]_vars, ~FileBacked
  PROVE  ExchangeInv'
<1> USE ExchangeNumbers DEF FlightInv
<1> DEFINE Inv == /\ mem # NoCred => mem.at <= issued
                  /\ \A c \in Callers : pc[c] = "renew" =>
                       next.at <= issued /\ (mem # NoCred => mem.at <= next.at)
                  /\ \A c \in Callers : IsToken(answer[c]) =>
                       mem # NoCred /\ answer[c].tok <= mem.at
                  /\ EndpointFits /\ ExchangeOnlyWhenStale
<1>1. Inv
  BY DEF ExchangeInv, ExchangesFit
<1>2. SUFFICES Inv' /\ UNCHANGED source
  BY <1>2 DEF ExchangeInv, ExchangesFit, FileBacked
<1> HIDE DEF Inv
<1>3. \A c \in Callers :
        pc[c] \notin {"load", "check", "take", "recheck", "sent", "reply", "store"}
  BY DEF FlightData
<1>4. ASSUME NEW c \in Callers, NEW a, Leads(c), Land(c, a), ~IsToken(a),
             "base" \notin DOMAIN a,
             UNCHANGED <<began, cancelled, storeVars, worldVars>>
      PROVE  Inv' /\ UNCHANGED source
  <2>1. \A d \in Callers : pc'[d] = pc[d] \/ pc'[d] = "done"
    BY <1>4 DEF Land
  <2>2. \A d \in Callers : d # c => ~Leads(d)
    BY <1>4 DEF OneFlight
  <2>3. \A d \in Callers : pc'[d] \notin FlightPoints
    BY <1>4, <2>1, <2>2 DEF Land, Sharers, Leads, FlightPoints, TypeOK
  <2>4. \A d \in Callers : answer'[d] = answer[d] \/ answer'[d] = a
    BY <1>4 DEF Land
  <2>5. QED
    BY <1>1, <1>4, <2>3, <2>4 DEF Inv, EndpointFits, ExchangeOnlyWhenStale, FlightPoints,
                                  storeVars, worldVars, serverVars
<1>5. ASSUME NEW c \in Callers, NEW a, Leads(c), Land(c, a), IsToken(a),
             "base" \notin DOMAIN a, mem' # NoCred, mem'.at = a.tok, mem'.at <= issued,
             mem # NoCred => mem.at <= mem'.at,
             UNCHANGED <<began, cancelled, loaded, file, cli, worldVars>>
      PROVE  Inv' /\ UNCHANGED source
  <2>1. \A d \in Callers : pc'[d] = pc[d] \/ pc'[d] = "done"
    BY <1>5 DEF Land
  <2>2. \A d \in Callers : d # c => ~Leads(d)
    BY <1>5 DEF OneFlight
  <2>3. \A d \in Callers : pc'[d] \notin FlightPoints
    BY <1>5, <2>1, <2>2 DEF Land, Sharers, Leads, FlightPoints, TypeOK
  <2>4. \A d \in Callers : answer'[d] = answer[d] \/ answer'[d] = a
    BY <1>5 DEF Land
  <2>5. \A d \in Callers : IsToken(answer'[d]) => answer'[d].tok <= mem'.at
    BY <1>1, <1>5, <2>4 DEF Inv, TypeOK, Creds, Numbers
  <2>6. QED
    BY <1>1, <1>5, <2>3, <2>4, <2>5 DEF Inv, EndpointFits, ExchangeOnlyWhenStale,
                                         FlightPoints, worldVars, serverVars
<1>6. ASSUME NEW c \in Callers, BeginExchange(c) \/ Join(c) \/ Cancel(c)
      PROVE  Inv' /\ UNCHANGED source
  BY <1>1, <1>6 DEF Inv, EndpointFits, ExchangeOnlyWhenStale, BeginExchange, Join, Cancel,
                    Goto, TypeOK, flightVars, storeVars, worldVars, serverVars, callVars
<1>7. ASSUME NEW c \in Callers, LoadState(c) PROVE Inv' /\ UNCHANGED source
  BY <1>1, <1>7, AnswerFields
     DEF Inv, EndpointFits, ExchangeOnlyWhenStale, LoadState, StateFresh, Goto, TypeOK,
         Creds, Numbers, flightVars, storeVars, worldVars, serverVars
<1>8. ASSUME NEW c \in Callers, ReloadState(c) PROVE Inv' /\ UNCHANGED source
  <2>1. CASE StateFresh
    BY <1>1, <1>5, <1>8, <2>1, AnswerFields
       DEF Inv, ReloadState, StateFresh, Leads, FlightPoints, storeVars, TypeOK, Creds, Numbers
  <2>2. CASE ~StateFresh
    BY <1>1, <1>8, <2>2
       DEF Inv, EndpointFits, ExchangeOnlyWhenStale, ReloadState, StateFresh, Goto, TypeOK,
           FlightPoints, OneFlight, Leads, storeVars, worldVars, serverVars
  <2>3. QED
    BY <2>1, <2>2
<1>9. ASSUME NEW c \in Callers, ExchangeFails(c) PROVE Inv' /\ UNCHANGED source
  BY <1>4, <1>9, AnswerFields DEF ExchangeFails, Leads, FlightPoints
<1>10. ASSUME NEW c \in Callers, Exchanged(c) PROVE Inv' /\ UNCHANGED source
  BY <1>1, <1>10 DEF Inv, EndpointFits, ExchangeOnlyWhenStale, Exchanged, Issue, Goto,
                     TypeOK, OneFlight, Leads, FlightPoints, storeVars
<1>11. ASSUME NEW c \in Callers, StoreState(c) PROVE Inv' /\ UNCHANGED source
  <2>1. next \in Creds /\ NoCred \notin Creds
    BY <1>11, TokenAssumption DEF StoreState, FlightData, Creds, Numbers
  <2>2. QED
    BY <1>1, <1>5, <1>11, <2>1, AnswerFields DEF Inv, StoreState, Leads, FlightPoints
<1>12. ASSUME NEW c \in Callers, ReadBase(c) PROVE Inv' /\ UNCHANGED source
  <2> DEFINE given == [tok  |-> answer[c].tok,
                       base |-> IF mem = NoCred THEN Default ELSE mem.at]
  <2>1. IsToken(answer[c]) /\ given.tok = answer[c].tok /\ IsToken(given)
    BY <1>12 DEF ReadBase, IsToken
  <2>2. mem # NoCred /\ given.base = mem.at /\ answer[c].tok <= mem.at
    BY <1>1, <2>1 DEF Inv
  <2>3. answer' = [answer EXCEPT ![c] = given] /\ UNCHANGED <<pc, mem, issued, next, cur, stale, source>>
    BY <1>12 DEF ReadBase, flightVars, storeVars, worldVars, serverVars
  <2>4. \A d \in Callers : answer'[d] = IF d = c THEN given ELSE answer[d]
    BY <2>3 DEF TypeOK
  <2> HIDE DEF given
  <2>5. \A d \in Callers : IsToken(answer'[d]) => mem # NoCred /\ answer'[d].tok <= mem.at
    BY <1>1, <2>1, <2>2, <2>4 DEF Inv
  <2>6. EndpointFits'
    BY <1>1, <2>1, <2>2, <2>4 DEF Inv, EndpointFits
  <2>7. QED
    BY <1>1, <2>3, <2>5, <2>6 DEF Inv, ExchangeOnlyWhenStale
<1>13. ASSUME NEW c \in Callers, Return(c) PROVE Inv' /\ UNCHANGED source
  BY <1>1, <1>13, AnswerFields
     DEF Inv, EndpointFits, ExchangeOnlyWhenStale, Return, Goto, TypeOK, flightVars,
         storeVars, worldVars, serverVars
<1>14. CASE Restart
  BY <1>14, AnswerFields
     DEF Inv, EndpointFits, ExchangeOnlyWhenStale, Restart, worldVars, serverVars
<1>15. CASE GoStale
  BY <1>1, <1>15 DEF Inv, EndpointFits, ExchangeOnlyWhenStale, GoStale, TypeOK, Creds,
                     Numbers, callVars, flightVars, serverVars, storeVars
<1>16. CASE CliRefresh \/ CliLogin \/ CliWrite \/ CliLogout
  <2>1. UNCHANGED <<pc, answer, mem, next, cur, stale, source>>
    BY <1>16 DEF CliRefresh, CliLogin, CliWrite, CliLogout, callVars, flightVars,
                 worldVars, serverVars
  <2>2. issued' = issued \/ issued' = issued + 1
    BY <1>16 DEF CliRefresh, CliLogin, CliWrite, CliLogout, Issue, worldVars, serverVars
  <2>3. issued' >= issued /\ issued' \in Nat
    BY <2>2
  <2>4. mem # NoCred => mem.at <= issued'
    BY <1>1, <2>3 DEF Inv
  <2>5. \A c \in Callers : pc[c] = "renew" => next.at <= issued'
    BY <1>1, <2>3 DEF Inv, FlightData
  <2>6. QED
    BY <1>1, <2>1, <2>4, <2>5 DEF Inv, EndpointFits, ExchangeOnlyWhenStale
<1>17. CASE UNCHANGED vars
  BY <1>1, <1>17 DEF Inv, EndpointFits, ExchangeOnlyWhenStale, vars, callVars, flightVars,
                     storeVars, worldVars, serverVars
\* The steps of a login with a file.
<1>18. ASSUME NEW c \in Callers
       PROVE  ~(\/ Begin(c) \/ EnsureLoaded(c) \/ LoadFails(c) \/ CheckFresh(c) \/ TakeToken(c)
                \/ Reread(c) \/ RereadFails(c) \/ RecheckFresh(c) \/ Send(c) \/ SendUnset(c)
                \/ SendFails(c) \/ SendRefused(c) \/ ServerRotates(c) \/ Persist(c) \/ Store(c))
  BY <1>3 DEF Begin, EnsureLoaded, LoadFails, CheckFresh, TakeToken, Reread, RereadFails,
              RecheckFresh, Send, SendUnset, SendFails, SendRefused, ServerRotates, Persist,
              Store, Goto
<1>19. QED
  BY <1>6, <1>7, <1>8, <1>9, <1>10, <1>11, <1>12, <1>13, <1>14, <1>15, <1>16, <1>17, <1>18
     DEF LoginNext, Next, Call, Lead, CopilotCall

\* No request of any number of callers carries a token to an endpoint older than
\* it, and none is exchanged while the last one is good, whatever fails, whoever
\* leaves and however often the gateway is started again.
THEOREM ExchangesAlwaysFit == LoginSpec => []ExchangesFit
<1>1. FlightInv /\ FlightInv' /\ ExchangeInv /\ [LoginNext]_vars => ExchangeInv'
  BY ExchangeStepFile, ExchangeStepCopilot
<1>2. ExchangeInv => ExchangesFit
  BY DEF ExchangeInv
<1>3. QED
  BY ExchangeInit, FlightInvariant, <1>1, <1>2, PTL DEF LoginSpec

-----------------------------------------------------------------------------
(* When Codex and Qwen refresh.                                            *)

Dated == source \in {"codex", "qwen"}

DatedInv == Dated => RefreshOnlyWhenStale

LEMMA DatedStep ==
  ASSUME FlightInv, FlightInv', DatedInv, [LoginNext]_vars
  PROVE  DatedInv'
<1> SUFFICES ASSUME Dated', NEW d \in Callers, pc'[d] = "sent" PROVE cur'.at <= stale'
  BY DEF DatedInv, RefreshOnlyWhenStale
<1> USE DEF FlightInv, TypeOK
<1>1. UNCHANGED source /\ (stale' = stale \/ stale' = stale + 1)
  BY DEF LoginNext, Next, CopilotCall, Call, Lead, Begin, EnsureLoaded, LoadFails,
         CheckFresh, TakeToken, Join, Reread, RereadFails, RecheckFresh, Send,
         SendUnset, SendFails, SendRefused, ServerRotates, Persist, Store, Return,
         CliRefresh, CliLogin, CliWrite, CliLogout, Cancel, Restart, GoStale,
         BeginExchange, LoadState, ReloadState, ExchangeFails, Exchanged, StoreState,
         ReadBase, worldVars, vars
<1>2. ASSUME pc[d] = "sent", UNCHANGED cur PROVE cur'.at <= stale'
  <2>1. cur \in Creds /\ cur.at <= stale
    BY <1>1, <1>2 DEF DatedInv, Dated, RefreshOnlyWhenStale, FlightData
  <2>2. cur.at \in Nat /\ stale \in Nat
    BY <2>1, TokenAssumption DEF Creds, Numbers
  <2>3. QED
    BY <1>1, <1>2, <2>1, <2>2
\* The request is sent for a token that is no longer fresh.
<1>3. ASSUME pc[d] # "sent" PROVE cur'.at <= stale'
  <2>1. Send(d)
    BY <1>3 DEF LoginNext, Next, CopilotCall, Call, Lead, Begin, EnsureLoaded, LoadFails,
                CheckFresh, TakeToken, Join, Reread, RereadFails, RecheckFresh, Send,
                SendUnset, SendFails, SendRefused, ServerRotates, Persist, Store, Return,
                CliRefresh, CliLogin, CliWrite, CliLogout, Cancel, Restart, GoStale,
                BeginExchange, LoadState, ReloadState, ExchangeFails, Exchanged,
                StoreState, ReadBase, Land, Goto, callVars, vars
  <2>2. mem \in Creds /\ mem # NoCred
    BY <2>1, TokenAssumption DEF Send, Goto, FlightData, FileBacked, Creds, Numbers, Dated
  <2>3. ~(mem.at > stale)
    BY <1>1, <2>1, <2>2 DEF Send, Fresh, CodexFresh, QwenFresh, Dated
  <2>4. mem.at \in Nat /\ stale \in Nat
    BY <2>2, TokenAssumption DEF Creds, Numbers
  <2>5. QED
    BY <2>1, <2>3, <2>4 DEF Send, worldVars
<1>4. ASSUME pc[d] = "sent", cur' # cur PROVE FALSE
  <2>1. leader = d
    BY <1>4 DEF OneFlight, Leads, FlightPoints
  <2>2. \A c \in Callers : Leads(c) => c = d
    BY <2>1 DEF OneFlight
  <2>3. ASSUME NEW c \in Callers, NEW a, Land(c, a), Leads(c) PROVE FALSE
    BY <2>2, <2>3 DEF Land, Sharers
  <2>4. ASSUME NEW c \in Callers, Lead(c) \/ SendFails(c) PROVE FALSE
    BY <1>4, <2>2, <2>3, <2>4
       DEF Lead, Reread, RereadFails, RecheckFresh, Send, SendUnset, SendRefused,
           ServerRotates, Persist, Store, SendFails, Goto, Leads, FlightPoints, flightVars
  <2>5. ASSUME NEW c \in Callers, CopilotCall(c) \/ ExchangeFails(c) \/ BeginExchange(c)
        PROVE  FALSE
    BY <1>4, <2>2, <2>3, <2>5
       DEF CopilotCall, LoadState, ReloadState, Exchanged, StoreState, ReadBase,
           ExchangeFails, BeginExchange, Goto, Leads, FlightPoints, flightVars
  <2>6. QED
    BY <1>4, <2>4, <2>5
       DEF LoginNext, Next, Call, Begin, EnsureLoaded, LoadFails, CheckFresh, TakeToken, Join,
           Return, CliRefresh, CliLogin, CliWrite, CliLogout, Cancel, Restart, GoStale,
           flightVars, vars
<1>5. QED
  BY <1>2, <1>3, <1>4

\* Codex and Qwen refresh no token that is still good, whoever asks, whatever the
\* response said of its lifetime, and whatever the CLI puts in the file.
THEOREM NoNeedlessRefresh == LoginSpec => [](Dated => RefreshOnlyWhenStale)
<1>1. LoginInit => DatedInv
  BY DEF LoginInit, Init, Started, DatedInv, RefreshOnlyWhenStale
<1>2. FlightInv /\ FlightInv' /\ DatedInv /\ [LoginNext]_vars => DatedInv'
  BY DatedStep
<1>3. QED
  BY FlightInvariant, <1>1, <1>2, PTL DEF LoginSpec, DatedInv
=============================================================================
