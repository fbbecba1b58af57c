-------------------------- MODULE SessionsProofs ---------------------------
(* The safety of Sessions, for every number of calls, setting and time.     *)
EXTENDS Sessions, TLAPS

LEMMA TtlBelow ==
    ASSUME TypeOK
    PROVE  /\ Ttl \in Nat
           /\ Ttl <= expiresIn
           /\ expiresIn >= MsPerSecond => Ttl # 0
<1>1. \A a, b \in Nat \ {0} : /\ a \div b \in Nat
                              /\ a \div b <= a
                              /\ a >= b => a \div b # 0
    BY SMTT(30)
<1> QED BY <1>1, SessionsAssumption DEF TypeOK, Ttl

LEMMA InitIInv == Init => SessionsIInv
    BY SessionsAssumption DEF Init, SessionsIInv, TypeOK, ClockOrder, KeyAlive,
        AnswerWasSaved, HeldWasSaved, SavedIsHeld

\* A step that leaves Redis and the devices alone and signs nothing.
LEMMA QuietStep ==
    ASSUME SessionsIInv, [Next]_vars, UNCHANGED <<now, expiresIn, redisVars, tok, held>>,
           TypeOK', orphans \subseteq orphans',
           \A r \in Requests : pc'[r] = "answer" => pc[r] = "answer",
           \A r \in Requests : pc[r] = "answer" => pc'[r] = "answer" \/ tok[r] \in orphans'
    PROVE  SessionsIInv'
    BY DEF SessionsIInv, ClockOrder, KeyAlive, AnswerWasSaved,
        HeldWasSaved, SavedIsHeld, Ttl, redisVars

LEMMA TypeStep == TypeOK /\ ClockOrder /\ [Next]_vars => TypeOK'
<1> SUFFICES ASSUME TypeOK, ClockOrder, [Next]_vars PROVE TypeOK' OBVIOUS
<1> USE SessionsAssumption DEF TypeOK, Goto, Finish, Put, Save, Running, redisVars, clientVars
<1>1. CASE UNCHANGED vars BY <1>1 DEF vars
<1>2. ASSUME NEW r \in Requests, SignIn(r) PROVE TypeOK' BY <1>2 DEF SignIn
<1>3. ASSUME NEW r \in Requests, Refresh(r) \/ Logout(r) PROVE TypeOK'
    BY <1>3 DEF Refresh, Logout, Guarded
<1>4. ASSUME NEW r \in Requests, CheckIsLoggedIn(r) \/ FindUser(r) PROVE TypeOK'
    BY <1>4 DEF CheckIsLoggedIn, FindUser
<1>5. ASSUME NEW r \in Requests, GenerateTokens(r) PROVE TypeOK'
    BY <1>5 DEF GenerateTokens
<1>6. ASSUME NEW r \in Requests, SetRefreshToken(r) PROVE TypeOK'
    BY <1>6 DEF SetRefreshToken
<1>7. ASSUME NEW r \in Requests, Deliver(r) \/ DeleteRefreshToken(r) PROVE TypeOK'
    BY <1>7 DEF Deliver, DeleteRefreshToken
<1>8. ASSUME NEW r \in Requests, CallFails(r) \/ ReplyLost(r) \/ CrashRequest(r) PROVE TypeOK'
    BY <1>8 DEF CallFails, ReplyLost, CrashRequest
<1>9. CASE KeyExpires BY <1>9 DEF KeyExpires
<1>10. CASE Tick BY <1>10 DEF Tick
<1> QED BY <1>1, <1>2, <1>3, <1>4, <1>5, <1>6, <1>7, <1>8, <1>9, <1>10 DEF Next, Handler

LEMMA StepIInv == SessionsIInv /\ [Next]_vars => SessionsIInv'
<1> SUFFICES ASSUME SessionsIInv, [Next]_vars PROVE SessionsIInv' OBVIOUS
<1>t. TypeOK /\ TypeOK' BY TypeStep DEF SessionsIInv
<1>l. Ttl \in Nat BY <1>t, TtlBelow
<1> USE SessionsAssumption, <1>t DEF Goto, Finish, Put, Save, Running, redisVars, clientVars
<1>1. CASE UNCHANGED vars BY <1>1, QuietStep DEF vars
<1>2. ASSUME NEW r \in Requests, \/ SignIn(r) \/ Refresh(r) \/ Logout(r)
                                 \/ CheckIsLoggedIn(r) \/ FindUser(r) \/ CallFails(r)
                                 \/ CrashRequest(r)
      PROVE  SessionsIInv'
    BY <1>2, QuietStep DEF SignIn, Refresh, Logout, Guarded, CheckIsLoggedIn, FindUser,
        CallFails, CrashRequest, TypeOK
<1>3. ASSUME NEW r \in Requests, GenerateTokens(r) PROVE SessionsIInv'
    BY <1>3 DEF GenerateTokens, SessionsIInv, TypeOK, ClockOrder, KeyAlive,
        AnswerWasSaved, HeldWasSaved, SavedIsHeld, Ttl
<1>4. ASSUME NEW r \in Requests, SetRefreshToken(r) \/ ReplyLost(r) PROVE SessionsIInv'
    <2>1. ClockOrder' BY <1>4 DEF SetRefreshToken, ReplyLost, SessionsIInv, TypeOK, ClockOrder
    <2>a. Ttl' = Ttl BY <1>4 DEF SetRefreshToken, ReplyLost, Ttl
    <2>b. now' = now BY <1>4 DEF SetRefreshToken, ReplyLost
    <2>c. saved' = NoToken \/ savedAt' = now BY <1>4 DEF SetRefreshToken, ReplyLost
    <2>d. now \in Nat BY DEF TypeOK
    <2>2. KeyAlive' BY <1>l, <2>a, <2>b, <2>c, <2>d DEF KeyAlive
    <2>3. AnswerWasSaved' /\ HeldWasSaved'
        BY <1>4 DEF SetRefreshToken, ReplyLost, SessionsIInv, TypeOK, AnswerWasSaved, HeldWasSaved
    <2>4. SavedIsHeld'
        BY <1>4 DEF SetRefreshToken, ReplyLost, SessionsIInv, TypeOK, SavedIsHeld
    <2> QED BY <2>1, <2>2, <2>3, <2>4 DEF SessionsIInv
<1>5. ASSUME NEW r \in Requests, Deliver(r) PROVE SessionsIInv'
    BY <1>5 DEF Deliver, SessionsIInv, TypeOK, ClockOrder, KeyAlive,
        AnswerWasSaved, HeldWasSaved, SavedIsHeld, Ttl
<1>6. ASSUME NEW r \in Requests, DeleteRefreshToken(r) PROVE SessionsIInv'
    BY <1>6 DEF DeleteRefreshToken, SessionsIInv, TypeOK, ClockOrder, KeyAlive,
        AnswerWasSaved, HeldWasSaved, SavedIsHeld
<1>7. CASE KeyExpires
    BY <1>7 DEF KeyExpires, SessionsIInv, TypeOK, ClockOrder, KeyAlive,
        AnswerWasSaved, HeldWasSaved, SavedIsHeld
<1>8. CASE Tick
    BY <1>8, <1>l DEF Tick, Expired, SessionsIInv, TypeOK, ClockOrder, KeyAlive,
        AnswerWasSaved, HeldWasSaved, SavedIsHeld, Ttl
<1> QED BY <1>1, <1>2, <1>3, <1>4, <1>5, <1>6, <1>7, <1>8 DEF Next, Handler

THEOREM SessionsInvariant == Spec => []SessionsIInv
    BY InitIInv, StepIInv, PTL DEF Spec

\* The variables keep their types.
THEOREM SessionsTypeCorrect == Spec => []TypeOK
    BY SessionsInvariant, PTL DEF SessionsIInv

\* Whatever a device holds was in Redis first, and is there until another
\* call, a logout or the key's end (AuthService.login).
THEOREM SessionsHeldWasSaved == Spec => []HeldWasSaved
    BY SessionsInvariant, PTL DEF SessionsIInv

\* A saved token is held, about to be handed out, or lost with its handler.
THEOREM SessionsSavedIsHeld == Spec => []SavedIsHeld
    BY SessionsInvariant, PTL DEF SessionsIInv

\* Whatever the setting, if it is at least a second: a token is not kept for
\* longer after its save than a token lives from its signing.
THEOREM SessionsStoredIsValid == Spec => []StoredIsValid
<1>1. SessionsIInv => StoredIsValid
    BY TtlBelow, SessionsAssumption DEF SessionsIInv, KeyAlive, StoredIsValid, TypeOK
<1> QED BY <1>1, SessionsInvariant, PTL
=============================================================================
