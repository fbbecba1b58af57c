------------------------------ MODULE Sessions -----------------------------
(***************************************************************************)
(* The session of one user (auth.controller.ts, auth.service.ts and         *)
(* token.service.ts): signing in, refreshing and logging out, from several  *)
(* devices at once.  Redis keeps one refresh token under the user's id;     *)
(* every new pair of tokens replaces it.  Users share nothing, so there is  *)
(* one.                                                                     *)
(*                                                                         *)
(* A refresh token is a signed payload with the second at which it was      *)
(* signed, so it is represented by that second: two tokens of one second    *)
(* are the same string.  One unit of `now' is a second.                     *)
(***************************************************************************)
EXTENDS Integers

CONSTANTS Requests,        \* the calls of the user's devices
          NoToken,
          MsPerSecond,     \* SECONDS, by which redis.service.ts divides
          ExpirySettings,  \* values of JWT_REFRESH_EXPIRES_IN to look at
          MaxTime          \* where the clock stops; bounds the model only

ASSUME SessionsAssumption ==
    /\ MsPerSecond \in Nat \ {0} /\ MaxTime \in Nat
    /\ ExpirySettings \subseteq Nat \ {0}
    /\ NoToken \notin Nat

VARIABLES now,
          expiresIn,  \* the setting in force
          saved,      \* Redis: the refresh token under the user's id
          savedAt,    \* when it was put there
          pc,         \* the next call of each handler
          resp,       \* what the client was told
          tok,        \* the refresh token each handler has signed
          held,       \* the refresh tokens the user's devices were given
          orphans,    \* tokens whose handler did not live to hand them out
          ended       \* history: what Redis has kept, until it was replaced,
                      \* deleted or expired

redisVars  == <<saved, savedAt, ended>>
clientVars == <<held, orphans>>
vars == <<now, expiresIn, redisVars, pc, resp, tok, clientVars>>

Running == {"check", "user", "sign", "set", "answer", "del"}

TypeOK ==
    /\ now \in 0 .. MaxTime
    /\ expiresIn \in ExpirySettings
    /\ saved \in Nat \cup {NoToken}
    /\ savedAt \in 0 .. MaxTime
    /\ pc \in [Requests -> {"new", "done"} \cup Running]
    /\ resp \in [Requests -> {"none", "tokens", "success", "refused", "error"}]
    /\ tok \in [Requests -> Nat \cup {NoToken}]
    /\ \A r \in Requests : pc[r] \in {"set", "answer"} => tok[r] \in Nat
    /\ held \subseteq Nat
    /\ orphans \subseteq Nat
    /\ ended \subseteq Nat

Init ==
    /\ now = 0
    /\ expiresIn \in ExpirySettings
    /\ saved = NoToken
    /\ savedAt = 0
    /\ pc = [r \in Requests |-> "new"]
    /\ resp = [r \in Requests |-> "none"]
    /\ tok = [r \in Requests |-> NoToken]
    /\ held = {}
    /\ orphans = {}
    /\ ended = {}

---------------------------------------------------------------------------
\* The lifetime of the key.  `set' takes its argument for milliseconds; zero
\* is no lifetime at all, and the key stays.
Ttl == expiresIn \div MsPerSecond

\* The lifetime of the token: signAsync takes the same number for seconds.
Valid(t) == now < t + expiresIn

Goto(r, l) == pc' = [pc EXCEPT ![r] = l]

Finish(r, a) == Goto(r, "done") /\ resp' = [resp EXCEPT ![r] = a]

(* Arrivals.                                                               *)

SignIn(r) ==
    /\ pc[r] = "new"
    /\ Goto(r, "user")
    /\ UNCHANGED <<now, expiresIn, redisVars, resp, tok, clientVars>>

\* RefreshTokenGuard stands before refresh and logout and verifies the token
\* in the cookie; it does not ask Redis.
Guarded(r, l) ==
    /\ pc[r] = "new"
    /\ \E t \in held : IF Valid(t) THEN Goto(r, l) /\ UNCHANGED resp
                                   ELSE Finish(r, "refused")
    /\ UNCHANGED <<now, expiresIn, redisVars, tok, clientVars>>

Refresh(r) == Guarded(r, "check")

Logout(r) == Guarded(r, "del")

(* The handlers.                                                           *)

\* checkIsLoggedIn compares the token with the saved one; refreshTokens
\* awaits it and drops the answer.
CheckIsLoggedIn(r) ==
    /\ pc[r] = "check"
    /\ Goto(r, "user")
    /\ UNCHANGED <<now, expiresIn, redisVars, resp, tok, clientVars>>

\* validateUserPassword or findOneByIdAndThrow.
FindUser(r) ==
    /\ pc[r] = "user"
    /\ Goto(r, "sign")
    /\ UNCHANGED <<now, expiresIn, redisVars, resp, tok, clientVars>>

GenerateTokens(r) ==
    /\ pc[r] = "sign"
    /\ tok' = [tok EXCEPT ![r] = now]
    /\ Goto(r, "set")
    /\ UNCHANGED <<now, expiresIn, redisVars, resp, clientVars>>

\* What Redis kept until now is no longer kept.
Put(t) == saved' = t /\ ended' = ended \cup ({saved} \ {NoToken})

Save(r) == Put(tok[r]) /\ savedAt' = now

Mut_SetRefreshToken_Unawaited(r) ==
    /\ pc[r] = "set"
    /\ Save(r) \/ UNCHANGED redisVars
    /\ Goto(r, "answer")
    /\ UNCHANGED <<now, expiresIn, resp, tok, clientVars>>

SetRefreshToken(r) ==
    /\ pc[r] = "set"
    /\ Save(r)
    /\ Goto(r, "answer")
    /\ UNCHANGED <<now, expiresIn, resp, tok, clientVars>>

Mut_Deliver_SignedAgain(r) ==
    /\ pc[r] = "answer"
    /\ held' = held \cup {now}
    /\ Finish(r, "tokens")
    /\ UNCHANGED <<now, expiresIn, redisVars, tok, orphans>>

Deliver(r) ==
    /\ pc[r] = "answer"
    /\ held' = held \cup {tok[r]}
    /\ Finish(r, "tokens")
    /\ UNCHANGED <<now, expiresIn, redisVars, tok, orphans>>

\* The logout of one device deletes the user's only key.
DeleteRefreshToken(r) ==
    /\ pc[r] = "del"
    /\ Put(NoToken)
    /\ Finish(r, "success")
    /\ UNCHANGED <<now, expiresIn, savedAt, tok, clientVars>>

(* Failures.                                                               *)

\* An exception: a wrong password, or a call to MySQL, Redis or the signer
\* that fails without effect.
CallFails(r) ==
    /\ pc[r] \in Running
    /\ pc[r] # "answer"
    /\ Finish(r, "error")
    /\ UNCHANGED <<now, expiresIn, redisVars, tok, clientVars>>

\* The call took effect, and its reply is lost.
ReplyLost(r) ==
    /\ \/ pc[r] = "set" /\ Save(r) /\ orphans' = orphans \cup {tok[r]}
       \/ pc[r] = "del" /\ Put(NoToken) /\ UNCHANGED <<savedAt, orphans>>
    /\ Finish(r, "error")
    /\ UNCHANGED <<now, expiresIn, tok, held>>

\* The process dies, and the client hears nothing.
CrashRequest(r) ==
    /\ pc[r] \in Running
    /\ Goto(r, "done")
    /\ orphans' = IF pc[r] = "answer" THEN orphans \cup {tok[r]} ELSE orphans
    /\ UNCHANGED <<now, expiresIn, redisVars, resp, tok, held>>

(* Time.                                                                   *)

Expired == saved # NoToken /\ Ttl # 0 /\ now = savedAt + Ttl

KeyExpires ==
    /\ Expired
    /\ Put(NoToken)
    /\ UNCHANGED <<now, expiresIn, savedAt, pc, resp, tok, clientVars>>

Tick ==
    /\ now < MaxTime
    /\ ~Expired
    /\ now' = now + 1
    /\ UNCHANGED <<expiresIn, redisVars, pc, resp, tok, clientVars>>

Handler(r) ==
    \/ CheckIsLoggedIn(r) \/ FindUser(r) \/ GenerateTokens(r)
    \/ SetRefreshToken(r) \/ Deliver(r) \/ DeleteRefreshToken(r)
    \/ CallFails(r) \/ ReplyLost(r)

Next ==
    \/ \E r \in Requests : \/ SignIn(r) \/ Refresh(r) \/ Logout(r)
                           \/ Handler(r) \/ CrashRequest(r)
    \/ KeyExpires
    \/ Tick

Spec == Init /\ [][Next]_vars

---------------------------------------------------------------------------
(* Properties.                                                             *)

\* Every token a device holds was in Redis before the device got it: it is
\* still there, or it was, until another call replaced it, a logout deleted it
\* or its key expired.  (It may be younger than the one that is there: of two
\* calls, the one that signs first may save last.)
HeldWasSaved == held \subseteq {saved} \cup ended

\* The token Redis keeps is one that a device holds or is about to get, or
\* one whose handler failed or died between the save and the answer: a save
\* by one device never leaves a token that nobody has.
SavedIsHeld ==
    saved # NoToken =>
        \/ saved \in held \cup orphans
        \/ \E r \in Requests : pc[r] = "answer" /\ tok[r] = saved

\* Redis keeps no token for longer after its save than a token lives from its
\* signing, unless the setting is less than a second by redis.service.ts's
\* reading, when it is kept for ever.  (A save that comes late may put a token
\* that has expired already.)
StoredIsValid ==
    saved # NoToken /\ expiresIn >= MsPerSecond => now <= savedAt + expiresIn

(* The inductive invariant of the proofs.                                  *)

ClockOrder ==
    /\ savedAt <= now
    /\ \A r \in Requests : tok[r] # NoToken => tok[r] <= now

AnswerWasSaved == \A r \in Requests : pc[r] = "answer" => tok[r] \in {saved} \cup ended

KeyAlive == saved # NoToken /\ Ttl # 0 => now <= savedAt + Ttl

SessionsIInv ==
    /\ TypeOK /\ ClockOrder /\ KeyAlive
    /\ AnswerWasSaved /\ HeldWasSaved /\ SavedIsHeld
=============================================================================
