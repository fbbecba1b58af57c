------------------------ MODULE HttpPipelineProofs ------------------------
(***************************************************************************)
(* Proofs about HttpPipeline, for every set of requests, jobs and processes, *)
(* every assignment of routes and verbs, and any number of upstreams.       *)
(***************************************************************************)
EXTENDS HttpPipelineInvariant, TLAPS

\* The verbs of the routes.
LEMMA Verbs == \A k \in Kinds : k[2] \in {"read", "write", "remove"}
<1> SUFFICES ASSUME NEW k \in Kinds PROVE k[2] \in {"read", "write", "remove"}
  OBVIOUS
<1>1. \E c, v : v \in {"read", "write", "remove"} /\ k = <<c, v>>
  BY DEF Kinds
<1> QED
  BY <1>1

\* The answers that tell a client that nothing was done.
Refusals == {"no success", "unauthorized", "forbidden", "invalid", "client error"}

\* The request's way is over, with answer a, and a 5xx may be reported.
Ends(r, a) ==
    /\ pc' = [pc EXCEPT ![r] = "ended"]
    /\ answer' = [answer EXCEPT ![r] = a]
    /\ \/ sending' = sending
       \/ /\ a = "server error" /\ env # "development"
          /\ sending' = sending \cup {<<r, at[r]>>}
    /\ UNCHANGED <<failed, pending, delivered, killers>>

\* Interceptor and filters give every outcome an answer, and one that fits it:
\* success only for a value, a refusal only for a refusal.
LEMMA RespondEnds ==
    ASSUME NEW r \in Requests, NEW o \in {"value", "refusal"} \cup HttpErrors \cup Failures,
           Respond(r, o)
    PROVE  \E a \in Answers \ {"none", "bad gateway"} :
              /\ Ends(r, a)
              /\ a = "success" => o = "value"
              /\ a \in Refusals => o \in {"refusal"} \cup (HttpErrors \ {"server error"})
<1> USE DEF Ends, End, Goto, Report, alarms, Answers, HttpErrors, Failures, Refusals
<1>1. CASE o \in {"value", "refusal"}
  BY <1>1 DEF Respond, Transform
<1>2. CASE o \in HttpErrors
  BY <1>2 DEF Respond, HttpFilter
<1>3. CASE o = "prisma error"
  BY <1>3 DEF Respond, PrismaFilter
<1>4. CASE o = "other error"
  BY <1>4 DEF Respond, DefaultFilter
<1> QED
  BY <1>1, <1>2, <1>3, <1>4

\* An answer that fits what the request has done preserves the invariant.
LEMMA EndsOK ==
    ASSUME PipelineIInv, NEW r \in Requests, pc[r] \notin {"client", "ended"},
           NEW a \in Answers \ {"none", "bad gateway"}, Ends(r, a),
           UNCHANGED <<client, token, at, tries, up, done>>,
           a = "success" /\ Verb(r) # "read" => done[r],
           done[r] /\ a \in Refusals => Verb(r) = "remove" /\ tries[r] > 1
    PROVE  PipelineIInv'
<1> USE DEF PipelineIInv, Ends, client, Route, Verb
<1>0. at[r] \in Servers /\ answer[r] = "none"
  BY DEF TypeOK, Placed
<1>1. TypeOK'
  <2>1. pc' \in [Requests -> PCs] /\ answer' \in [Requests -> Answers]
    BY DEF TypeOK, PCs
  <2>2. <<r, at[r]>> \in Reports
    BY <1>0 DEF Reports
  <2>3. sending' \subseteq Reports
    BY <2>2 DEF TypeOK
  <2>4. \A x \in Requests : answer'[x] # "none" <=> pc'[x] = "ended"
    BY DEF TypeOK
  <2>5. UNCHANGED Reports
    BY DEF Reports
  <2> QED
    BY <2>1, <2>3, <2>4, <2>5 DEF TypeOK
<1>2. Placed'
  BY <1>0 DEF TypeOK, Placed
<1>3. ForwardedOnce'
  BY DEF TypeOK, ForwardedOnce
<1>4. Guarded'
  BY DEF TypeOK, Guarded
<1>5. Effects'
  BY DEF TypeOK, Effects
<1>6. ReportsTrue'
  <2>1. \A c \in Requests \cup Jobs, s \in Servers : Reported(c, s) => Reported(c, s)'
    BY <1>0 DEF TypeOK, Reported
  <2>2. sending' # sending => Reported(r, at[r])'
    BY DEF TypeOK, Reported
  <2> QED
    BY <2>1, <2>2 DEF ReportsTrue
<1>7. AnswerTellsEffect'
  BY DEF TypeOK, AnswerTellsEffect, Refusals
<1>8. LostForCause'
  <2>1. \A c \in Requests \cup Jobs, s \in Servers : Cause(c, s) => Cause(c, s)'
    BY <1>0 DEF TypeOK, Cause, Reported
  <2>2. \A x \in Requests : answer'[x] = "bad gateway" => answer[x] = "bad gateway"
    BY DEF TypeOK
  <2> QED
    BY <2>1, <2>2 DEF LostForCause
<1> QED
  BY <1>1, <1>2, <1>3, <1>4, <1>5, <1>6, <1>7, <1>8

\* Where a request may be once it has come past the parts before.
MayBeAt(r, l) ==
    /\ l \in {"roles", "role"} => Route(r) = "staff"
    /\ l \in {"access", "handler", "changed", "unchanged"} => (Route(r) = "staff" => role[r])
    /\ l \in {"handler", "changed", "unchanged"} => (Route(r) # "open" => token[r] # "absent")

\* A request that goes on to a part it may be at preserves the invariant,
\* whether its handler changes something on the way or not.
LEMMA ProceedOK ==
    ASSUME PipelineIInv, NEW r \in Requests, pc[r] \in {"roles", "role", "access", "handler"},
           NEW l \in PCs \ {"client", "ended"}, Proceed(r, l), UNCHANGED unmoved,
           MayBeAt(r, l),
           \/ l # "changed" /\ UNCHANGED done
           \/ l = "changed" /\ Verb(r) # "read" /\ done' = [done EXCEPT ![r] = TRUE]
    PROVE  PipelineIInv'
<1> USE DEF PipelineIInv, Proceed, Goto, unmoved, alarms, client, Route, Verb, MayBeAt
<1>1. TypeOK'
  <2>1. pc' \in [Requests -> PCs] /\ done' \in [Requests -> BOOLEAN]
    BY DEF TypeOK
  <2>2. \A x \in Requests : answer'[x] # "none" <=> pc'[x] = "ended"
    BY DEF TypeOK
  <2>3. UNCHANGED Reports
    BY DEF Reports
  <2> QED
    BY <2>1, <2>2, <2>3 DEF TypeOK
<1>2. Placed'
  BY DEF TypeOK, Placed
<1>3. ForwardedOnce'
  BY DEF TypeOK, ForwardedOnce
<1>4. Guarded'
  BY DEF TypeOK, Guarded
<1>5. Effects'
  BY DEF TypeOK, Effects, Placed
<1>6. ReportsTrue'
  BY DEF ReportsTrue, Reported
<1>7. AnswerTellsEffect'
  BY DEF TypeOK, AnswerTellsEffect
<1>8. LostForCause'
  <2>1. \A c \in Requests \cup Jobs, s \in Servers : Cause(c, s) <=> Cause(c, s)'
    BY DEF Cause, Reported
  <2> QED
    BY <2>1 DEF LostForCause
<1> QED
  BY <1>1, <1>2, <1>3, <1>4, <1>5, <1>6, <1>7, <1>8

\* An outcome that fits what the request has done preserves the invariant.
LEMMA RespondOK ==
    ASSUME PipelineIInv, NEW r \in Requests, pc[r] \notin {"client", "ended"},
           NEW o \in {"value", "refusal"} \cup HttpErrors \cup Failures, Respond(r, o),
           UNCHANGED <<unmoved, done>>,
           o = "value" /\ Verb(r) # "read" => done[r],
           done[r] /\ o \in {"refusal"} \cup (HttpErrors \ {"server error"}) =>
               Verb(r) = "remove" /\ tries[r] > 1
    PROVE  PipelineIInv'
<1>1. PICK a \in Answers \ {"none", "bad gateway"} :
         /\ Ends(r, a)
         /\ a = "success" => o = "value"
         /\ a \in Refusals => o \in {"refusal"} \cup (HttpErrors \ {"server error"})
  BY RespondEnds
<1> QED
  BY <1>1, EndsOK DEF unmoved

\* nginx hands the request to a process that runs; from then on a POST is not
\* handed on again.
LEMMA ForwardOK ==
    ASSUME PipelineIInv, NEW r \in Requests, NEW s \in Servers, Forward(r, s)
    PROVE  PipelineIInv'
<1> USE DEF PipelineIInv, Forward, Proceed, Goto, alarms, client, Route, Verb
<1>0. tries[r] \in Nat /\ tries[r] < MaxTries /\ answer[r] = "none"
  BY PipelineAssumption DEF TypeOK, ForwardedOnce
<1>1. TypeOK'
  <2>1. pc' \in [Requests -> PCs] /\ at' \in [Requests -> Servers \cup {Nowhere}]
    BY DEF TypeOK, PCs
  <2>2. tries' \in [Requests -> 0 .. MaxTries]
    BY <1>0, PipelineAssumption DEF TypeOK
  <2>3. \A x \in Requests : answer'[x] # "none" <=> pc'[x] = "ended"
    BY DEF TypeOK
  <2>4. UNCHANGED Reports
    BY DEF Reports
  <2> QED
    BY <2>1, <2>2, <2>3, <2>4 DEF TypeOK
<1>2. Placed'
  <2> SUFFICES ASSUME NEW x \in Requests
               PROVE  (/\ pc[x] \notin {"client", "ended"} =>
                             at[x] \in Servers /\ up[at[x]] /\ tries[x] > 0
                       /\ answer[x] = "server error" => at[x] \in Servers)'
    BY DEF Placed
  <2>1. CASE x = r
    BY <1>0, <2>1 DEF TypeOK
  <2>2. CASE x # r
    BY <2>2 DEF TypeOK, Placed
  <2> QED
    BY <2>1, <2>2
<1>3. ForwardedOnce'
  BY <1>0 DEF TypeOK, ForwardedOnce
<1>4. Guarded'
  BY DEF TypeOK, Guarded
<1>5. Effects'
  BY <1>0 DEF TypeOK, Effects
<1>6. ReportsTrue'
  BY <1>0 DEF TypeOK, ReportsTrue, Reported
<1>7. AnswerTellsEffect'
  BY <1>0 DEF TypeOK, AnswerTellsEffect
<1>8. LostForCause'
  <2>1. \A c \in Requests \cup Jobs, x \in Servers : Cause(c, x) => Cause(c, x)'
    BY <1>0 DEF TypeOK, Cause, Reported
  <2> QED
    BY <2>1 DEF LostForCause
<1> QED
  BY <1>1, <1>2, <1>3, <1>4, <1>5, <1>6, <1>7, <1>8

\* nginx gives up when no process runs: one of them has gone down for a cause,
\* and not for a report of this request, which has none.
LEMMA NoUpstreamOK ==
    ASSUME PipelineIInv, NEW r \in Requests, NoUpstream(r)
    PROVE  PipelineIInv'
<1> USE DEF PipelineIInv, NoUpstream, End, Goto, alarms, client, Route, Verb
<1>0. answer[r] = "none"
  BY DEF TypeOK
<1>1. TypeOK'
  <2>1. pc' \in [Requests -> PCs] /\ answer' \in [Requests -> Answers]
    BY DEF TypeOK, PCs, Answers
  <2>2. \A x \in Requests : answer'[x] # "none" <=> pc'[x] = "ended"
    BY DEF TypeOK
  <2>3. UNCHANGED Reports
    BY DEF Reports
  <2> QED
    BY <2>1, <2>2, <2>3 DEF TypeOK
<1>2. Placed'
  BY DEF TypeOK, Placed
<1>3. ForwardedOnce'
  BY DEF TypeOK, ForwardedOnce
<1>4. Guarded'
  BY DEF TypeOK, Guarded
<1>5. Effects'
  BY DEF TypeOK, Effects
<1>6. ReportsTrue'
  BY <1>0 DEF TypeOK, ReportsTrue, Reported
<1>7. AnswerTellsEffect'
  BY DEF TypeOK, AnswerTellsEffect
<1>8. LostForCause'
  <2>1. \A c \in Requests \cup Jobs, s \in Servers :
           Cause(c, s) => Cause(c, s)' /\ c # r
    BY <1>0, PipelineAssumption DEF TypeOK, Cause, Reported
  <2>2. \E c \in Requests \cup Jobs, s \in Servers : Cause(c, s)
    BY PipelineAssumption DEF LostForCause
  <2>3. \A x \in Requests : answer'[x] = "bad gateway" => x = r \/ answer[x] = "bad gateway"
    BY DEF TypeOK
  <2> QED
    BY <2>1, <2>2, <2>3 DEF LostForCause
<1> QED
  BY <1>1, <1>2, <1>3, <1>4, <1>5, <1>6, <1>7, <1>8

\* A token that runs out is not absent: what it was shown for stays so.
LEMMA TokenExpiresOK ==
    ASSUME PipelineIInv, NEW r \in Requests, TokenExpires(r)
    PROVE  PipelineIInv'
<1> USE DEF PipelineIInv, TokenExpires, alarms, client, Route, Verb
<1>1. TypeOK'
  BY DEF TypeOK, Reports
<1>2. Guarded'
  BY DEF TypeOK, Guarded
<1>3. Placed' /\ ForwardedOnce' /\ Effects' /\ AnswerTellsEffect'
  BY DEF Placed, ForwardedOnce, Effects, AnswerTellsEffect
<1>4. ReportsTrue' /\ LostForCause'
  <2>1. \A c \in Requests \cup Jobs, s \in Servers :
           (Reported(c, s) <=> Reported(c, s)') /\ (Cause(c, s) <=> Cause(c, s)')
    BY DEF Cause, Reported
  <2> QED
    BY <2>1 DEF ReportsTrue, LostForCause
<1> QED
  BY <1>1, <1>2, <1>3, <1>4

\* The guards let a request pass that has shown what the next part needs.
LEMMA GuardsOK ==
    ASSUME PipelineIInv, NEW r \in Requests, RolesGuard(r) \/ FindRole(r) \/ Admit(r)
    PROVE  PipelineIInv'
<1>1. pc[r] \in {"roles", "role", "access"} /\ UNCHANGED <<unmoved, done>>
  BY DEF RolesGuard, FindRole, Admit
<1>2. done[r] => Verb(r) = "remove" /\ tries[r] > 1
  BY <1>1 DEF PipelineIInv, Effects
<1>3. \A l \in {"role", "access", "handler"} : Proceed(r, l) /\ MayBeAt(r, l) => PipelineIInv'
  BY <1>1, ProceedOK DEF PCs
<1>4. \A o \in HttpErrors \cup {"other error"} : Respond(r, o) => PipelineIInv'
  BY <1>1, <1>2, RespondOK DEF HttpErrors, Failures
<1>5. CASE RolesGuard(r)
  <2>1. Proceed(r, "role") \/ Respond(r, "unauthorized")
    BY <1>5 DEF RolesGuard
  <2>2. MayBeAt(r, "role")
    BY <1>5 DEF RolesGuard, PipelineIInv, Guarded, MayBeAt
  <2> QED
    BY <1>3, <1>4, <2>1, <2>2 DEF HttpErrors
<1>6. CASE FindRole(r)
  <2>1. \/ role[r] /\ Proceed(r, "access")
        \/ Respond(r, "forbidden") \/ Respond(r, "server error") \/ Respond(r, "other error")
    BY <1>6 DEF FindRole
  <2>2. role[r] => MayBeAt(r, "access")
    BY DEF MayBeAt
  <2> QED
    BY <1>3, <1>4, <2>1, <2>2 DEF HttpErrors
<1>7. CASE Admit(r)
  <2>1. \/ Admitted(r) /\ Proceed(r, "handler")
        \/ Respond(r, "invalid") \/ Respond(r, "unauthorized")
    BY <1>7 DEF Admit
  <2>2. Admitted(r) => MayBeAt(r, "handler")
    BY <1>7 DEF Admit, Admitted, PipelineIInv, Guarded, MayBeAt
  <2> QED
    BY <1>3, <1>4, <2>1, <2>2 DEF HttpErrors
<1> QED
  BY <1>5, <1>6, <1>7

\* The handler changes something only where it may be.
LEMMA WorkOK ==
    ASSUME PipelineIInv, NEW r \in Requests, Work(r)
    PROVE  PipelineIInv'
<1>1. pc[r] = "handler" /\ UNCHANGED unmoved
  BY DEF Work
<1>2. MayBeAt(r, "unchanged") /\ MayBeAt(r, "changed")
  BY <1>1 DEF PipelineIInv, Guarded, MayBeAt
<1>3. \/ Proceed(r, "unchanged") /\ UNCHANGED done
      \/ Verb(r) # "read" /\ Proceed(r, "changed") /\ done' = [done EXCEPT ![r] = TRUE]
  BY DEF Work
<1> QED
  BY <1>1, <1>2, <1>3, ProceedOK DEF PCs

\* What the handler returns or throws fits what it has done, also when a first
\* process had done it.
LEMMA ReturnOK ==
    ASSUME PipelineIInv, NEW r \in Requests, Return(r)
    PROVE  PipelineIInv'
<1>1. pc[r] \in {"changed", "unchanged"} /\ UNCHANGED <<unmoved, done>>
  BY DEF Return
<1>2. CASE pc[r] = "changed"
  <2>1. PICK o \in {"value"} \cup Failures : Respond(r, o)
    BY <1>2 DEF Return
  <2>2. done[r]
    BY <1>2 DEF PipelineIInv, Effects
  <2> QED
    BY <1>1, <1>2, <2>1, <2>2, RespondOK DEF Failures, HttpErrors
<1>3. CASE pc[r] = "unchanged"
  <2>1. PICK o \in {"value", "refusal", "client error"} \cup Failures :
           Respond(r, o) /\ (o = "value" => Verb(r) = "read")
    BY <1>3 DEF Return, Failures
  <2>2. done[r] => Verb(r) = "remove" /\ tries[r] > 1
    BY <1>3 DEF PipelineIInv, Effects
  <2> QED
    BY <1>1, <1>3, <2>1, <2>2, RespondOK DEF Failures, HttpErrors
<1> QED
  BY <1>1, <1>2, <1>3

\* A job that fails, an event that is handled, a report that arrives
\* move reports only.
LEMMA AlarmsOK ==
    ASSUME PipelineIInv,
           NEW c \in Requests \cup Jobs, NEW s \in Servers,
           \/ c \in Jobs /\ (JobFails(c) \/ OnFailed(c, s))
           \/ Sent(c, s)
    PROVE  PipelineIInv'
<1> USE DEF PipelineIInv, JobFails, OnFailed, Sent, alarms, client, Route, Verb
<1>1. UNCHANGED <<env, kind, token, role, at, tries, pc, done, answer, killers>>
  OBVIOUS
<1>2. /\ failed \subseteq failed' /\ failed' \subseteq Jobs
      /\ \A x \in Servers : up[x] => up'[x]
      /\ up' \in [Servers -> BOOLEAN]
  BY DEF TypeOK
<1>3. TypeOK'
  <2>1. pending' \subseteq Jobs \X Servers
    BY DEF TypeOK
  <2>2. <<c, s>> \in Reports
    BY DEF Reports
  <2>3. sending' \subseteq Reports /\ delivered' \subseteq Reports
    BY <2>2 DEF TypeOK
  <2>4. UNCHANGED Reports
    BY DEF Reports
  <2> QED
    BY <1>1, <1>2, <2>1, <2>3, <2>4 DEF TypeOK
<1>4. Placed'
  BY <1>1, <1>2 DEF Placed
<1>5. ForwardedOnce' /\ Guarded' /\ Effects' /\ AnswerTellsEffect'
  BY <1>1 DEF ForwardedOnce, Guarded, Effects, AnswerTellsEffect
<1>6. ReportsTrue'
  BY DEF TypeOK, ReportsTrue, Reported
<1>7. LostForCause'
  <2>1. \A d \in Requests \cup Jobs, x \in Servers : Cause(d, x) => Cause(d, x)'
    BY <1>1, <1>2 DEF Cause, Reported
  <2> QED
    BY <1>1, <1>2, <2>1 DEF LostForCause
<1> QED
  BY <1>3, <1>4, <1>5, <1>6, <1>7

\* A process that comes back finds nothing to lose.
LEMMA RestartOK ==
    ASSUME PipelineIInv, NEW s \in Servers, Restart(s)
    PROVE  PipelineIInv'
<1> USE DEF PipelineIInv, Restart, alarms, client, Route, Verb
<1>1. \A x \in Servers : up[x] => up'[x]
  BY DEF TypeOK
<1>2. TypeOK'
  BY DEF TypeOK, Reports
<1>3. Placed' /\ ForwardedOnce' /\ Guarded' /\ Effects' /\ AnswerTellsEffect'
  BY <1>1 DEF Placed, ForwardedOnce, Guarded, Effects, AnswerTellsEffect
<1>4. ReportsTrue' /\ LostForCause'
  <2>1. \A c \in Requests \cup Jobs, x \in Servers :
           (Reported(c, x) <=> Reported(c, x)') /\ (Cause(c, x) <=> Cause(c, x)')
    BY DEF Cause, Reported
  <2> QED
    BY <1>1, <2>1 DEF ReportsTrue, LostForCause
<1> QED
  BY <1>2, <1>3, <1>4

\* A report that is rejected takes its process down, and the requests in it:
\* none of them is the one it reports, which has its answer.
LEMMA SendFailsOK ==
    ASSUME PipelineIInv, NEW c \in Requests \cup Jobs, NEW s \in Servers, SendFails(c, s)
    PROVE  PipelineIInv'
<1> USE DEF PipelineIInv, SendFails, Die, client, Route, Verb
<1> DEFINE Hit(r) == InFlight(r, s)
<1>1. Reported(c, s) /\ <<c, s>> \in Reports
  BY DEF ReportsTrue, Reports
<1>2. \A r \in Requests : Hit(r) => /\ c # r /\ answer[r] = "none" /\ tries[r] > 0
                                    /\ pc[r] \notin {"client", "ended"}
  BY <1>1, PipelineAssumption DEF TypeOK, Placed, InFlight, Reported
<1>3. \A r \in Requests :
         /\ ~Hit(r) => pc'[r] = pc[r] /\ answer'[r] = answer[r]
         /\ Hit(r) /\ TriedAgain(r) => pc'[r] = "client" /\ answer'[r] = answer[r]
         /\ Hit(r) /\ ~TriedAgain(r) => pc'[r] = "ended" /\ answer'[r] = "bad gateway"
  OBVIOUS
<1>4. TypeOK'
  <2>1. pc' \in [Requests -> PCs] /\ answer' \in [Requests -> Answers]
    BY DEF TypeOK, PCs, Answers
  <2>2. pending' \subseteq Jobs \X Servers /\ sending' \subseteq Reports
        /\ killers' \subseteq Reports /\ up' \in [Servers -> BOOLEAN]
    BY <1>1 DEF TypeOK
  <2>3. \A r \in Requests : answer'[r] # "none" <=> pc'[r] = "ended"
    BY <1>2, <1>3 DEF TypeOK
  <2>4. UNCHANGED Reports
    BY DEF Reports
  <2> QED
    BY <2>1, <2>2, <2>3, <2>4 DEF TypeOK
<1>5. Placed'
  BY <1>3 DEF TypeOK, Placed, InFlight
<1>6. ForwardedOnce'
  BY <1>2, <1>3 DEF TypeOK, ForwardedOnce, TriedAgain
<1>7. Guarded'
  BY <1>3 DEF Guarded
<1>8. Effects'
  <2>1. \A r \in Requests : Verb(r) \in {"read", "write", "remove"}
    BY Verbs, PipelineAssumption DEF TypeOK
  <2> QED
    BY <1>2, <1>3, <2>1 DEF Effects, TriedAgain
<1>9. AnswerTellsEffect'
  BY <1>3 DEF AnswerTellsEffect
<1>10. ReportsTrue' /\ LostForCause'
  <2>1. \A d \in Requests \cup Jobs, x \in Servers : Reported(d, x) => Reported(d, x)'
    BY <1>2, <1>3 DEF Reported
  <2>2. ReportsTrue'
    BY <1>1, <2>1 DEF ReportsTrue
  <2>3. Cause(c, s)' /\ \A d \in Requests \cup Jobs, x \in Servers : Cause(d, x) => Cause(d, x)'
    BY <1>1, <2>1 DEF Cause
  <2>4. \A x \in Servers : ~up'[x] => x = s \/ ~up[x]
    BY DEF TypeOK
  <2>5. \A r \in Requests : answer'[r] = "bad gateway" => answer[r] = "bad gateway" \/ c # r
    BY <1>2, <1>3
  <2> QED
    BY <2>2, <2>3, <2>4, <2>5 DEF LostForCause
<1> QED
  BY <1>4, <1>5, <1>6, <1>7, <1>8, <1>9, <1>10

\* Every step preserves the invariant.
LEMMA PipelineStepOK == PipelineIInv /\ [Next]_vars => PipelineIInv'
<1> SUFFICES ASSUME PipelineIInv, [Next]_vars PROVE PipelineIInv'
  OBVIOUS
<1>1. CASE UNCHANGED vars
  <2>1. \A c \in Requests \cup Jobs, s \in Servers :
           (Reported(c, s) <=> Reported(c, s)') /\ (Cause(c, s) <=> Cause(c, s)')
    BY <1>1 DEF vars, client, alarms, Cause, Reported
  <2>2. ReportsTrue' /\ LostForCause'
    BY <1>1, <2>1 DEF vars, client, alarms, PipelineIInv, ReportsTrue, LostForCause
  <2>3. TypeOK'
    BY <1>1 DEF vars, client, alarms, PipelineIInv, TypeOK, Reports
  <2>4. Placed' /\ ForwardedOnce' /\ Guarded' /\ Effects' /\ AnswerTellsEffect'
    BY <1>1 DEF vars, client, alarms, PipelineIInv, Placed, ForwardedOnce, Guarded, Effects,
       AnswerTellsEffect, Route, Verb
  <2> QED
    BY <2>2, <2>3, <2>4 DEF PipelineIInv
<1>2. ASSUME NEW r \in Requests, RequestStep(r) \/ TokenExpires(r)
      PROVE  PipelineIInv'
  BY <1>2, ForwardOK, NoUpstreamOK, TokenExpiresOK, GuardsOK, WorkOK, ReturnOK DEF RequestStep
<1>3. ASSUME NEW j \in Jobs, JobFails(j)
      PROVE  PipelineIInv'
  BY <1>3, AlarmsOK, PipelineAssumption
<1>4. ASSUME NEW j \in Jobs, NEW s \in Servers, OnFailed(j, s)
      PROVE  PipelineIInv'
  BY <1>4, AlarmsOK
<1>5. ASSUME NEW c \in Requests \cup Jobs, NEW s \in Servers, Sent(c, s) \/ SendFails(c, s)
      PROVE  PipelineIInv'
  BY <1>5, AlarmsOK, SendFailsOK
<1>6. ASSUME NEW s \in Servers, Restart(s)
      PROVE  PipelineIInv'
  BY <1>6, RestartOK
<1> QED
  BY <1>1, <1>2, <1>3, <1>4, <1>5, <1>6 DEF Next

\* The initial states satisfy the invariant.
LEMMA PipelineInitOK == Init => PipelineIInv
<1> SUFFICES ASSUME Init PROVE PipelineIInv
  OBVIOUS
<1> USE DEF Init, Route, Verb
<1>1. TypeOK
  BY PipelineAssumption DEF TypeOK, PCs, Answers
<1>2. Placed /\ ForwardedOnce /\ Guarded /\ Effects
  BY PipelineAssumption DEF Placed, ForwardedOnce, Guarded, Effects
<1>3. ReportsTrue /\ AnswerTellsEffect /\ LostForCause
  BY DEF ReportsTrue, AnswerTellsEffect, LostForCause
<1> QED
  BY <1>1, <1>2, <1>3 DEF PipelineIInv

---------------------------------------------------------------------------
(* The theorems.                                                           *)

\* The inductive invariant of the pipeline, for any number of requests, jobs,
\* processes and upstreams.
THEOREM PipelineInvariance == Spec => []PipelineIInv
BY PipelineInitOK, PipelineStepOK, PTL DEF Spec

\* Type correctness; no request goes to more processes than nginx lists.
THEOREM PipelineTypeCorrect == Spec => []TypeOK
<1>1. PipelineIInv => TypeOK
  BY DEF PipelineIInv
<1> QED
  BY <1>1, PipelineInvariance, PTL

\* Nothing is changed without the credentials the route asks for, whichever
\* guard asks for them, and whatever processes die on the way.
THEOREM ChangesNeedCredentials == Spec => []ChangedWithCredentials
<1>1. PipelineIInv => ChangedWithCredentials
  BY DEF PipelineIInv, Guarded, ChangedWithCredentials
<1> QED
  BY <1>1, PipelineInvariance, PTL

\* An answer tells whether anything was done, but for a DELETE that nginx had
\* repeated.
THEOREM AnswersTellEffects == Spec => []AnswerTellsEffect
<1>1. PipelineIInv => AnswerTellsEffect
  BY DEF PipelineIInv
<1> QED
  BY <1>1, PipelineInvariance, PTL

\* A process goes down, and a request is lost with it, only through a true
\* report of something else that Slack rejected.
THEOREM LossesHaveCause == Spec => []LostForCause
<1>1. PipelineIInv => LostForCause
  BY DEF PipelineIInv
<1> QED
  BY <1>1, PipelineInvariance, PTL

\* A POST or PATCH, a booking among them, is given to one process only: the
\* retries of nginx never carry it out twice.
THEOREM WritesGoOnce == Spec => [](\A r \in Requests : Verb(r) = "write" => tries[r] <= 1)
<1>1. PipelineIInv => \A r \in Requests : Verb(r) = "write" => tries[r] <= 1
  BY DEF PipelineIInv, ForwardedOnce
<1> QED
  BY <1>1, PipelineInvariance, PTL
===========================================================================
