------------------------------ MODULE Accounts -----------------------------
(***************************************************************************)
(* Signing up, applying to be a seller, and the decisions of the staff      *)
(* (users.service.ts and users.repository.ts, with the controllers that     *)
(* call them).  A sign-up looks for the e-mail before it inserts, in two     *)
(* calls of MySQL, so that two of them may both find it free; an            *)
(* application looks for its user only, never for an earlier application.   *)
(* The unique indexes on User.email and SellerApplication.userId are what   *)
(* is left.                                                                 *)
(*                                                                         *)
(* A row is named by the request that created it.                           *)
(***************************************************************************)
EXTENDS Integers

CONSTANTS SignUps, Applies, Decisions,  \* the requests, by route
          Emails,
          Body  \* what @Body() hands to applyToSeller: "text" or "object"

Requests == SignUps \cup Applies \cup Decisions

ASSUME AccountsAssumption ==
    /\ SignUps \cap Applies = {} /\ SignUps \cap Decisions = {}
    /\ Applies \cap Decisions = {}
    /\ Body \in {"text", "object"}

VARIABLES pc,      \* the next call of each handler
          resp,    \* what the client was told
          email,   \* the account a sign-up asks for, or an application is of
          asks,    \* the application a decision is about, and the verdict
          users,   \* MySQL: the rows of User
          rows,    \* MySQL: the rows of SellerApplication
          status,  \* MySQL: SellerApplication.status
          failed,  \* the requests that a failing call has hit
          before   \* history: <<d, e>> if d was answered before e arrived

inputs == <<email, asks>>
vars == <<pc, resp, inputs, users, rows, status, failed, before>>

Verdicts == {"APPROVED", "REJECTED"}
Statuses == Verdicts \cup {"PENDING"}
Refusals == {"exists", "notFound", "error"}

TypeOK ==
    /\ pc \in [Requests -> {"new", "find", "hash", "create", "login", "decide", "done"}]
    /\ resp \in [Requests -> {"none", "tokens"} \cup Refusals \cup Statuses]
    /\ email \in [SignUps \cup Applies -> Emails]
    /\ asks \in [Decisions -> [application : Applies, verdict : Verdicts]]
    /\ users \subseteq SignUps
    /\ rows \subseteq Applies
    /\ status \in [Applies -> Statuses]
    /\ failed \subseteq Requests
    /\ before \subseteq Decisions \X Decisions

Init ==
    /\ pc = [r \in Requests |-> "new"]
    /\ resp = [r \in Requests |-> "none"]
    /\ email \in [SignUps \cup Applies -> Emails]
    /\ asks \in [Decisions -> [application : Applies, verdict : Verdicts]]
    /\ users = {}
    /\ rows = {}
    /\ status = [a \in Applies |-> "PENDING"]
    /\ failed = {}
    /\ before = {}

---------------------------------------------------------------------------
Goto(r, l) == pc' = [pc EXCEPT ![r] = l] /\ UNCHANGED resp

Answer(r, a) == /\ pc' = [pc EXCEPT ![r] = "done"]
                /\ resp' = [resp EXCEPT ![r] = a]

HasAccount(e)     == \E u \in users : email[u] = e
HasApplication(e) == \E a \in rows : email[a] = e

(* The writes.  A new account is a customer's.                             *)
InsertUser(r)        == users' = users \cup {r}
InsertApplication(r) == rows' = rows \cup {r}
SetStatus(r) == status' = [status EXCEPT ![asks[r].application] = asks[r].verdict]

(* POST auth/local/sign-up.                                                *)

\* createUser: findOneByEmail and assertUserDoesNotExists.
FindByEmail(r) ==
    /\ r \in SignUps /\ pc[r] = "find"
    /\ IF HasAccount(email[r]) THEN Answer(r, "exists") ELSE Goto(r, "hash")
    /\ UNCHANGED <<inputs, users, rows, status, failed, before>>

HashPassword(r) ==
    /\ pc[r] = "hash"
    /\ Goto(r, "create")
    /\ UNCHANGED <<inputs, users, rows, status, failed, before>>

Mut_CreateUser_NoIndex(r) ==
    /\ r \in SignUps /\ pc[r] = "create"
    /\ InsertUser(r) /\ Goto(r, "login")
    /\ UNCHANGED <<inputs, rows, status, failed, before>>

Mut_CreateUser_Upsert(r) ==
    /\ r \in SignUps /\ pc[r] = "create"
    /\ users' = IF HasAccount(email[r]) THEN users ELSE users \cup {r}
    /\ Goto(r, "login")
    /\ UNCHANGED <<inputs, rows, status, failed, before>>

\* The insert; the unique index refuses the second row of an e-mail.
CreateUser(r) ==
    /\ r \in SignUps /\ pc[r] = "create"
    /\ IF HasAccount(email[r])
       THEN Answer(r, "error") /\ UNCHANGED users
       ELSE InsertUser(r) /\ Goto(r, "login")
    /\ UNCHANGED <<inputs, rows, status, failed, before>>

\* authService.login, the subject of Sessions: the account is there already.
Login(r) ==
    /\ pc[r] = "login"
    /\ Answer(r, "tokens")
    /\ UNCHANGED <<inputs, users, rows, status, failed, before>>

(* POST users/seller/application.                                          *)

\* applyToSeller: findOneById and assertUserExists.  (An access token may
\* name a user of another database, so that there may be none.)
FindUser(r) ==
    /\ r \in Applies /\ pc[r] = "find"
    /\ IF HasAccount(email[r]) THEN Goto(r, "create") ELSE Answer(r, "notFound")
    /\ UNCHANGED <<inputs, users, rows, status, failed, before>>

Mut_CreateApplication_NoIndex(r) ==
    /\ r \in Applies /\ pc[r] = "create"
    /\ InsertApplication(r) /\ Answer(r, "PENDING")
    /\ UNCHANGED <<inputs, users, status, failed, before>>

\* The insert.  Prisma refuses a description that is not a string; the unique
\* index refuses the second application of a user.
CreateApplication(r) ==
    /\ r \in Applies /\ pc[r] = "create"
    /\ IF Body # "text" \/ HasApplication(email[r])
       THEN Answer(r, "error") /\ UNCHANGED rows
       ELSE InsertApplication(r) /\ Answer(r, "PENDING")
    /\ UNCHANGED <<inputs, users, status, failed, before>>

(* PATCH users/seller/application/:id/approve and /reject.                 *)

Mut_Decide_Unawaited(r) ==
    /\ pc[r] = "decide"
    /\ SetStatus(r) \/ UNCHANGED status
    /\ Answer(r, asks[r].verdict)
    /\ UNCHANGED <<inputs, users, rows, failed, before>>

\* An update by id, whatever the status was; it fails if there is no row.
\* The answer is the row as updated.  The applicant's role stays.
Decide(r) ==
    /\ pc[r] = "decide"
    /\ IF asks[r].application \in rows
       THEN SetStatus(r) /\ Answer(r, asks[r].verdict)
       ELSE Answer(r, "error") /\ UNCHANGED status
    /\ UNCHANGED <<inputs, users, rows, failed, before>>

(* Failures: a call without effect, a lost reply, a process that dies.      *)

Arrive(r) ==
    /\ pc[r] = "new"
    /\ Goto(r, IF r \in Decisions THEN "decide" ELSE "find")
    /\ before' = before \cup ({d \in Decisions : pc[d] = "done"} \X ({r} \cap Decisions))
    /\ UNCHANGED <<inputs, users, rows, status, failed>>

Fails(r) ==
    /\ pc[r] \notin {"new", "done"}
    /\ Answer(r, "error")
    /\ failed' = failed \cup {r}
    /\ UNCHANGED <<inputs, users, rows, status, before>>

ReplyLost(r) ==
    /\ Answer(r, "error")
    /\ failed' = failed \cup {r}
    /\ \/ /\ r \in SignUps /\ pc[r] = "create" /\ ~HasAccount(email[r])
          /\ InsertUser(r)
          /\ UNCHANGED <<rows, status>>
       \/ /\ r \in Applies /\ pc[r] = "create" /\ Body = "text"
          /\ ~HasApplication(email[r])
          /\ InsertApplication(r)
          /\ UNCHANGED <<users, status>>
       \/ /\ pc[r] = "decide" /\ asks[r].application \in rows
          /\ SetStatus(r)
          /\ UNCHANGED <<users, rows>>
    /\ UNCHANGED <<inputs, before>>

Next == \E r \in Requests :
    \/ Arrive(r) \/ FindByEmail(r) \/ HashPassword(r) \/ CreateUser(r) \/ Login(r)
    \/ FindUser(r) \/ CreateApplication(r) \/ Decide(r) \/ Fails(r) \/ ReplyLost(r)

Spec == Init /\ [][Next]_vars

---------------------------------------------------------------------------
(* Properties.                                                             *)

\* One account for an e-mail, however many sign-ups have found it free at the
\* same time.
EmailUnique == \A r, s \in users : email[r] = email[s] => r = s

\* Tokens go to the sign-up whose account it is, and to no other; "already
\* exists" is said only of an e-mail that has an account.
SignUpAnswers ==
    \A r \in SignUps :
        /\ resp[r] = "tokens" => r \in users
        /\ resp[r] = "exists" => HasAccount(email[r])
        /\ r \in users => pc[r] = "login" \/ resp[r] = "tokens" \/ r \in failed

\* At most one application of a user, and of users only.
OneApplication ==
    \A a \in rows : /\ HasAccount(email[a])
                    /\ \A b \in rows : email[a] = email[b] => a = b

\* The decisions on an application, and those that were answered with their
\* verdict.
On(a)      == {d \in Decisions : asks[d].application = a}
Carried(d) == resp[d] = asks[d].verdict

\* No decision on a that was carried out arrived after d had ended.
IsLast(d, a) == \A e \in On(a) : Carried(e) => <<d, e>> \notin before

\* The status of an application is the last decision on it, as far as those
\* who decide can tell: if it is pending, none on it was carried out;
\* otherwise it is the verdict of one on this application, carried out or with
\* its answer lost, and none that was carried out came after that one.  No
\* confirmed decision is dropped, put on another application, or undone by an
\* earlier one.
StatusWasDecided ==
    \A a \in Applies :
        IF status[a] = "PENDING"
        THEN \A d \in On(a) : ~Carried(d)
        ELSE /\ a \in rows
             /\ \E d \in On(a) : /\ asks[d].verdict = status[a]
                                 /\ Carried(d) \/ d \in failed
                                 /\ IsLast(d, a)

\* Of a user who has an account, an application is refused only if there is
\* one already or MySQL has failed: users.controller.spec.ts:65 has it that
\* the route answers with the application.  The tests call the controller
\* with a string; over HTTP @Body() without a key is the parsed object.
RefusedForCause ==
    \A r \in Applies : resp[r] = "error" => HasApplication(email[r]) \/ r \in failed

(* The inductive invariant of the proofs.                                  *)

Progress ==
    /\ \A r \in Requests : resp[r] # "none" <=> pc[r] = "done"
    /\ \A r \in SignUps : /\ pc[r] = "login" => r \in users
                          /\ r \in users => pc[r] \in {"login", "done"}
    /\ \A a \in rows : pc[a] = "done"
    /\ \A a \in Applies : pc[a] = "create" => HasAccount(email[a])
    /\ \A r \in Requests : pc[r] = "decide" => r \in Decisions
    /\ \A d, e \in Decisions : <<d, e>> \in before => pc[d] = "done" /\ pc[e] # "new"
    /\ \A d \in failed : pc[d] = "done"
    /\ \A r \in Requests : pc[r] \in {"hash", "login"} => r \in SignUps

AccountsIInv ==
    /\ TypeOK /\ Progress
    /\ EmailUnique /\ SignUpAnswers /\ OneApplication /\ StatusWasDecided
    /\ Body = "text" => RefusedForCause
=============================================================================
