--------------------------- MODULE HttpPipeline ---------------------------
(***************************************************************************)
(* What happens around every handler of the API, in several processes.      *)
(*                                                                         *)
(* nginx gives a request to a process.  There it passes the guards, in the  *)
(* order Nest runs them: RolesGuard (APP_GUARD), AccessTokenGuard           *)
(* (useGlobalGuards), RefreshTokenGuard (on two routes); then the           *)
(* ValidationPipe and the handler.  What comes out is wrapped by            *)
(* TransformInterceptor or, when thrown, turned into an answer by one of    *)
(* three exception filters.  Two of them report to Slack without waiting,   *)
(* and so does, in every process, the listener of failed reservation jobs.  *)
(* Nothing handles a rejected report: an unhandled rejection ends the       *)
(* process, with the requests in it, and pm2 starts it again.               *)
(***************************************************************************)
EXTENDS Naturals

CONSTANTS Requests, Jobs,   \* HTTP requests, jobs of the reservation queue
          Servers,          \* the processes behind nginx
          Nowhere,          \* where a request is that nginx still has
          Asked,            \* what the requests ask for, in each case to look at
          Environments,     \* the values of NODE_ENV to look at
          MaxTries          \* how many upstreams nginx tries: those it lists

(* Routes by the guards they carry: @Public; @Public with RefreshTokenGuard *)
(* (logout, refresh); none (the reservations, a seller's application);      *)
(* @Roles (places, events, the admin's routes).  A "remove" is DELETE.      *)
Kinds == {<<"open", "read">>, <<"open", "write">>, <<"session", "write">>,
          <<"member", "write">>, <<"staff", "read">>, <<"staff", "write">>,
          <<"staff", "remove">>}

\* nginx lists at least one upstream.
ASSUME PipelineAssumption ==
    /\ Asked \subseteq [Requests -> Kinds] /\ Requests \cap Jobs = {}
    /\ Servers # {} /\ Nowhere \notin Servers /\ MaxTries \in Nat \ {0}

VARIABLES env,        \* process.env.NODE_ENV
          kind,       \* what each request asks for
          token,      \* the token its route needs, if it needs one
          role,       \* whether its user exists, with the role its route needs
          at,         \* the process that has, or had, the request
          tries,      \* how many processes had it
          pc,         \* where it is
          done,       \* whether its handler has changed anything
          answer,     \* what the client gets
          up,         \* whether each process is running
          failed,     \* the jobs that failed for good
          pending,    \* 'failed' events that a process has yet to handle
          sending,    \* reports on their way to Slack, and from which process
          delivered,  \* those that arrived
          killers     \* those that ended their process

client  == <<env, kind, role>>
alarms  == <<failed, pending, sending, delivered, killers>>
vars    == <<client, token, at, tries, pc, done, answer, up, alarms>>

Route(r) == kind[r][1]
Verb(r)  == kind[r][2]

(* What guards, pipe and handler may come to, and what the client is told.   *)
HttpErrors == {"unauthorized", "forbidden", "invalid", "client error", "server error"}
Failures == {"server error", "prisma error", "other error"}
Answers  == {"none", "success", "no success", "bare 500", "bad gateway"} \cup HttpErrors

(* "client" is with nginx or before; the rest before the part of the        *)
(* pipeline they name, and "changed" and "unchanged" are handlers that have *)
(* done their work, or not, and have yet to return.                         *)
PCs == {"client", "roles", "role", "access", "handler", "changed", "unchanged", "ended"}
Reports == (Requests \cup Jobs) \X Servers

TypeOK ==
    /\ env \in Environments
    /\ kind \in Asked
    /\ token \in [Requests -> {"valid", "expired", "absent"}]
    /\ role \in [Requests -> BOOLEAN]
    /\ at \in [Requests -> Servers \cup {Nowhere}]
    /\ tries \in [Requests -> 0 .. MaxTries]
    /\ pc \in [Requests -> PCs]
    /\ done \in [Requests -> BOOLEAN]
    /\ answer \in [Requests -> Answers]
    /\ up \in [Servers -> BOOLEAN]
    /\ failed \subseteq Jobs
    /\ pending \subseteq Jobs \X Servers
    /\ sending \subseteq Reports /\ delivered \subseteq Reports /\ killers \subseteq Reports
    /\ \A r \in Requests : answer[r] # "none" <=> pc[r] = "ended"

Init ==
    /\ env \in Environments
    /\ kind \in Asked
    /\ token \in [Requests -> {"valid", "absent"}]
    /\ \A r \in Requests : Route(r) = "open" => token[r] = "absent"
    /\ role \in [Requests -> BOOLEAN]
    /\ \A r \in Requests : Route(r) # "staff" => ~role[r]
    /\ at = [r \in Requests |-> Nowhere]
    /\ tries = [r \in Requests |-> 0]
    /\ pc = [r \in Requests |-> "client"]
    /\ done = [r \in Requests |-> FALSE]
    /\ answer = [r \in Requests |-> "none"]
    /\ up = [s \in Servers |-> TRUE]
    /\ failed = {} /\ pending = {} /\ sending = {} /\ delivered = {} /\ killers = {}

---------------------------------------------------------------------------
(* From a result to an answer.                                             *)

Goto(r, l) == pc' = [pc EXCEPT ![r] = l]

End(r, a) == Goto(r, "ended") /\ answer' = [answer EXCEPT ![r] = a]

\* TransformInterceptor: a value is wrapped, an object that carries success
\* keeps it.
Transform(r, o) ==
    /\ End(r, IF o = "value" THEN "success" ELSE "no success")
    /\ UNCHANGED alarms

\* slack.send, not awaited, unless isDevEnv().
Report(r) ==
    /\ sending' = IF env = "development" THEN sending ELSE sending \cup {<<r, at[r]>>}
    /\ UNCHANGED <<failed, pending, delivered, killers>>

Mut_HttpFilter_NoReport(r, o) == End(r, o) /\ UNCHANGED alarms

\* HttpExceptionFilter: only errors from 500 on are reported.
HttpFilter(r, o) ==
    /\ End(r, o)
    /\ IF o = "server error" THEN Report(r) ELSE UNCHANGED alarms

Mut_PrismaFilter_NoAnswer(r) == Report(r) /\ UNCHANGED <<pc, answer>>

\* PrismaClientExceptionFilter: always 500 to the client.
PrismaFilter(r) == End(r, "server error") /\ Report(r)

\* Any other error is left to Nest's own filter: no envelope, no report.
DefaultFilter(r) == End(r, "bare 500") /\ UNCHANGED alarms

Mut_Respond_ReportFirst(r, o) ==
    IF o \in Failures /\ env # "development" /\ <<r, at[r]>> \notin delivered
    THEN Report(r) /\ UNCHANGED <<pc, answer>>
    ELSE End(r, IF o \in Failures THEN "server error" ELSE o) /\ UNCHANGED alarms

\* r's way through the pipeline is over, with o.
Respond(r, o) ==
    CASE o \in {"value", "refusal"} -> Transform(r, o)
      [] o \in HttpErrors           -> HttpFilter(r, o)
      [] o = "prisma error"         -> PrismaFilter(r)
      [] OTHER                      -> DefaultFilter(r)

Proceed(r, l) == Goto(r, l) /\ UNCHANGED <<answer, alarms>>

---------------------------------------------------------------------------
(* nginx, the guards, the pipe and the handler.                            *)

\* nginx gives the request to a process, for the first time or again.  There,
\* RolesGuard lets a route without @Roles pass at once.
Forward(r, s) ==
    /\ pc[r] = "client" /\ up[s]
    /\ at' = [at EXCEPT ![r] = s]
    /\ tries' = [tries EXCEPT ![r] = @ + 1]
    /\ Proceed(r, IF Route(r) = "staff" THEN "roles" ELSE "access")
    /\ UNCHANGED <<client, token, done, up>>

NoUpstream(r) ==
    /\ pc[r] = "client" /\ \A s \in Servers : ~up[s]
    /\ End(r, "bad gateway")
    /\ UNCHANGED <<client, token, at, tries, done, up, alarms>>

TokenExpires(r) ==
    /\ token[r] = "valid" /\ pc[r] \in {"client", "roles", "role", "access"}
    /\ token' = [token EXCEPT ![r] = "expired"]
    /\ UNCHANGED <<client, at, tries, pc, done, answer, up, alarms>>

unmoved == <<client, token, at, tries, up>>

\* RolesGuard.canActivate, up to the token.
RolesGuard(r) ==
    /\ pc[r] = "roles"
    /\ IF token[r] = "valid" THEN Proceed(r, "role") ELSE Respond(r, "unauthorized")
    /\ UNCHANGED <<unmoved, done>>

\* The user's role is read from the database, not from the token.  The read may
\* fail; or there is no such user, and taking the role of none is a TypeError.
FindRole(r) ==
    /\ pc[r] = "role"
    /\ \/ IF role[r] THEN Proceed(r, "access") ELSE Respond(r, "forbidden")
       \/ Respond(r, "server error")
       \/ ~role[r] /\ Respond(r, "other error")
    /\ UNCHANGED <<unmoved, done>>

Mut_Admitted_PublicFree(r) == Route(r) \in {"open", "session"} \/ token[r] = "valid"

\* AccessTokenGuard, which @Public opens, and on the session routes, which are
\* public, RefreshTokenGuard.  A staff route's token is verified once more.
Admitted(r) == Route(r) = "open" \/ token[r] = "valid"

\* The guards, and behind them the ValidationPipe.
Admit(r) ==
    /\ pc[r] = "access"
    /\ IF Admitted(r) THEN Proceed(r, "handler") \/ Respond(r, "invalid")
                      ELSE Respond(r, "unauthorized")
    /\ UNCHANGED <<unmoved, done>>

\* The handler does what it does, or not; nothing is removed twice.
Work(r) ==
    /\ pc[r] = "handler"
    /\ \/ Proceed(r, "unchanged") /\ UNCHANGED done
       \/ /\ Verb(r) # "read" /\ ~done[r]
          /\ Proceed(r, "changed")
          /\ done' = [done EXCEPT ![r] = TRUE]
    /\ UNCHANGED unmoved

Mut_Return_LateRefusal(r) ==
    /\ \/ /\ pc[r] = "changed"
          /\ \E o \in {"value", "refusal", "client error"} \cup Failures : Respond(r, o)
       \/ /\ pc[r] = "unchanged"
          /\ \E o \in {"refusal", "client error"} \cup Failures : Respond(r, o)
    /\ UNCHANGED <<unmoved, done>>

\* It returns or throws.  One that refuses, by value or with an error below
\* 500, has changed nothing; one that fails otherwise may have.
Return(r) ==
    /\ \/ pc[r] = "changed" /\ \E o \in {"value"} \cup Failures : Respond(r, o)
       \/ pc[r] = "unchanged" /\ \E o \in {"refusal", "client error"} \cup Failures : Respond(r, o)
       \/ pc[r] = "unchanged" /\ Verb(r) = "read" /\ Respond(r, "value")
    /\ UNCHANGED <<unmoved, done>>

---------------------------------------------------------------------------
(* Reports, and what they do to their process.                             *)

\* A job has failed for good.  Every process that is running hears of it.
JobFails(j) ==
    /\ j \notin failed
    /\ failed' = failed \cup {j}
    /\ pending' = pending \cup {<<j, s>> : s \in {x \in Servers : up[x]}}
    /\ UNCHANGED <<client, token, at, tries, pc, done, answer, up, sending,
                   delivered, killers>>

Mut_OnFailed_LogOnly(j, s) ==
    /\ <<j, s>> \in pending
    /\ pending' = pending \ {<<j, s>>}
    /\ UNCHANGED <<client, token, at, tries, pc, done, answer, up, failed, sending,
                   delivered, killers>>

\* ReservationQueueListener.onFailed, whatever NODE_ENV is.
OnFailed(j, s) ==
    /\ <<j, s>> \in pending
    /\ pending' = pending \ {<<j, s>>}
    /\ sending' = sending \cup {<<j, s>>}
    /\ UNCHANGED <<client, token, at, tries, pc, done, answer, up, failed,
                   delivered, killers>>

Sent(c, s) ==
    /\ <<c, s>> \in sending
    /\ sending' = sending \ {<<c, s>>}
    /\ delivered' = delivered \cup {<<c, s>>}
    /\ UNCHANGED <<client, token, at, tries, pc, done, answer, up, failed,
                   pending, killers>>

InFlight(r, s) == at[r] = s /\ pc[r] \notin {"client", "ended"}

Mut_TriedAgain_Forever(r) == Verb(r) # "write"

\* nginx tries the next upstream, except for POST and PATCH.
TriedAgain(r) == Verb(r) # "write" /\ tries[r] < MaxTries

\* The process ends.  The reports, events and requests in it are gone.
Die(s) ==
    /\ up' = [up EXCEPT ![s] = FALSE]
    /\ pending' = {x \in pending : x[2] # s}
    /\ sending' = {x \in sending : x[2] # s}
    /\ pc' = [r \in Requests |-> IF ~InFlight(r, s) THEN pc[r]
                                 ELSE IF TriedAgain(r) THEN "client" ELSE "ended"]
    /\ answer' = [r \in Requests |-> IF InFlight(r, s) /\ ~TriedAgain(r)
                                     THEN "bad gateway" ELSE answer[r]]

\* Slack rejects, or cannot be reached: an unhandled rejection.
SendFails(c, s) ==
    /\ <<c, s>> \in sending
    /\ Die(s)
    /\ killers' = killers \cup {<<c, s>>}
    /\ UNCHANGED <<client, token, at, tries, done, failed, delivered>>

Restart(s) ==
    /\ ~up[s]
    /\ up' = [up EXCEPT ![s] = TRUE]
    /\ UNCHANGED <<client, token, at, tries, pc, done, answer, alarms>>

---------------------------------------------------------------------------
RequestStep(r) ==
    \/ \E s \in Servers : Forward(r, s)
    \/ NoUpstream(r) \/ RolesGuard(r) \/ FindRole(r) \/ Admit(r)
    \/ Work(r) \/ Return(r)

Next ==
    \/ \E r \in Requests : RequestStep(r) \/ TokenExpires(r)
    \/ \E j \in Jobs : JobFails(j)
    \/ \E j \in Jobs, s \in Servers : OnFailed(j, s)
    \/ \E c \in Requests \cup Jobs, s \in Servers : Sent(c, s) \/ SendFails(c, s)
    \/ \E s \in Servers : Restart(s)

\* Guards, handlers and filters return, events are handled, and a report is
\* accepted or not.  No job has to fail and no process has to come back.
Fairness ==
    /\ \A r \in Requests : WF_vars(RequestStep(r))
    /\ \A j \in Jobs, s \in Servers : WF_vars(OnFailed(j, s))
    /\ \A c \in Requests \cup Jobs, s \in Servers : WF_vars(Sent(c, s) \/ SendFails(c, s))

Spec == Init /\ [][Next]_vars /\ Fairness

---------------------------------------------------------------------------
(* Properties.                                                             *)

\* A handler that changed something was reached with the credentials its route
\* asks for, whichever guard asks for them: @Public lifts the access token
\* only, and a session route still needs its refresh token.
ChangedWithCredentials ==
    \A r \in Requests : done[r] =>
        /\ Route(r) # "open" => token[r] # "absent"
        /\ Route(r) = "staff" => role[r]

\* What the status tells: success means done, and a refusal (400, 401, 403, or
\* success: false) means not done, unless nginx had asked twice: a DELETE
\* whose first process died after removing the place may end in a refusal.
AnswerTellsEffect ==
    \A r \in Requests :
        /\ answer[r] = "success" /\ Verb(r) # "read" => done[r]
        /\ done[r] /\ answer[r] \in {"no success", "unauthorized", "forbidden", "invalid", "client error"}
              => Verb(r) = "remove" /\ tries[r] > 1

\* What a report stands for: a job that failed, or, outside development, a 5xx
\* that one of the API's own two filters has answered.
Reported(c, s) ==
    \/ c \in failed
    \/ c \in Requests /\ answer[c] = "server error" /\ at[c] = s /\ env # "development"

\* A true report was rejected, and has ended its process.
Cause(c, s) == <<c, s>> \in killers /\ Reported(c, s)

\* A process goes down, and a client gets no answer from it, only through a
\* report that failed: of another request that one of the API's filters had
\* answered with a 5xx outside development, or of a failed job.  No request is
\* lost to its own report.
LostForCause ==
    /\ \A s \in Servers : ~up[s] => \E c \in Requests \cup Jobs : Cause(c, s)
    /\ \A r \in Requests : answer[r] = "bad gateway" =>
          \E c \in (Requests \cup Jobs) \ {r} : \E s \in Servers : Cause(c, s)

\* Every request that nginx has taken is answered, by the API or by nginx,
\* although processes die under it.
EveryRequestEnds == \A r \in Requests : tries[r] > 0 ~> answer[r] # "none"

\* A job that fails for good is reported to Slack, by every process that was
\* running, unless a report that failed has ended a process.
FailedJobReported ==
    \A j \in Jobs : j \in failed ~> killers # {} \/ \A s \in Servers : <<j, s>> \in delivered

\* A 5xx that one of the API's own two filters answers, outside development, is
\* reported, or the process that gave it has gone down.  The 500 of Nest's own
\* filter ("bare 500": an error of a library, a TypeError) never is.
FailureReported ==
    \A r \in Requests : (answer[r] = "server error" /\ env # "development") ~>
        \/ <<r, at[r]>> \in delivered
        \/ \E c \in Requests \cup Jobs : <<c, at[r]>> \in killers
===========================================================================
