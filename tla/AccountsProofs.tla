-------------------------- MODULE AccountsProofs ---------------------------
(* The safety of Accounts, for any requests and e-mails.                    *)
EXTENDS Accounts, TLAPS

USE DEF InsertUser, InsertApplication, SetStatus, inputs

LEMMA InitIInv == Init => AccountsIInv
    BY AccountsAssumption DEF Init, AccountsIInv, TypeOK, Progress, EmailUnique, SignUpAnswers,
        OneApplication, StatusWasDecided, On, Carried, RefusedForCause, Requests, Statuses, Verdicts,
        Refusals

LEMMA TypeStep == TypeOK /\ Progress /\ [Next]_vars => TypeOK'
<1> SUFFICES ASSUME TypeOK, Progress, [Next]_vars PROVE TypeOK' OBVIOUS
<1> USE AccountsAssumption DEF TypeOK, Goto, Answer, Requests, Statuses, Verdicts, Refusals
<1>d. ASSUME NEW r \in Decisions, SetStatus(r) PROVE status' \in [Applies -> Statuses]
    <2>1. asks[r].application \in Applies /\ asks[r].verdict \in Statuses OBVIOUS
    <2> QED BY <1>d, <2>1
<1>1. CASE UNCHANGED vars BY <1>1 DEF vars
<1>2. ASSUME NEW r \in Requests, Arrive(r) \/ Fails(r) PROVE TypeOK' BY <1>2 DEF Arrive, Fails
<1>3. ASSUME NEW r \in Requests, FindByEmail(r) \/ HashPassword(r) \/ FindUser(r) PROVE TypeOK'
    BY <1>3 DEF FindByEmail, HashPassword, FindUser
<1>4. ASSUME NEW r \in Requests, CreateUser(r) \/ Login(r) PROVE TypeOK'
    BY <1>4 DEF CreateUser, Login
<1>5. ASSUME NEW r \in Requests, CreateApplication(r) PROVE TypeOK' BY <1>5 DEF CreateApplication
<1>6. ASSUME NEW r \in Requests, Decide(r) PROVE TypeOK'
    <2>1. r \in Decisions BY <1>6 DEF Decide, Progress
    <2>2. asks[r].verdict \in Verdicts BY <2>1
    <2>3. status' \in [Applies -> Statuses] BY <1>6, <1>d, <2>1 DEF Decide
    <2> QED BY <1>6, <2>2, <2>3 DEF Decide
<1>7. ASSUME NEW r \in Requests, ReplyLost(r) PROVE TypeOK'
    <2>1. status' \in [Applies -> Statuses]
        BY <1>7, <1>d DEF ReplyLost, Progress
    <2> QED BY <1>7, <2>1 DEF ReplyLost
<1> QED BY <1>1, <1>2, <1>3, <1>4, <1>5, <1>6, <1>7 DEF Next

\* The rows only grow, and an e-mail is asked for once and for all.
LEMMA Growth ==
    ASSUME AccountsIInv, [Next]_vars
    PROVE  /\ email' = email /\ asks' = asks /\ users \subseteq users' /\ rows \subseteq rows'
           /\ failed \subseteq failed'
    BY DEF Next, vars, Arrive, FindByEmail, HashPassword, CreateUser, Login, FindUser,
        CreateApplication, Decide, Fails, ReplyLost

LEMMA StepProgress == AccountsIInv /\ [Next]_vars => Progress'
<1> SUFFICES ASSUME AccountsIInv, [Next]_vars PROVE Progress' OBVIOUS
<1>t. TypeOK /\ TypeOK' BY TypeStep DEF AccountsIInv
<1>g. email' = email /\ users \subseteq users' BY Growth
<1>h. \A e : HasAccount(e) => HasAccount(e)' BY <1>g DEF HasAccount
<1> USE AccountsAssumption, <1>t, <1>g, <1>h DEF AccountsIInv, TypeOK, Progress, Goto, Answer, Requests, Refusals, Statuses, Verdicts
<1>1. CASE UNCHANGED vars BY <1>1 DEF vars
<1>2. ASSUME NEW r \in Requests, Arrive(r) \/ Fails(r) PROVE Progress' BY <1>2 DEF Arrive, Fails
<1>3. ASSUME NEW r \in Requests, FindByEmail(r) \/ HashPassword(r) \/ FindUser(r) PROVE Progress'
    BY <1>3 DEF FindByEmail, HashPassword, FindUser
<1>4. ASSUME NEW r \in Requests, CreateUser(r) \/ Login(r) PROVE Progress'
    BY <1>4 DEF CreateUser, Login
<1>5. ASSUME NEW r \in Requests, CreateApplication(r) PROVE Progress' BY <1>5 DEF CreateApplication
<1>6. ASSUME NEW r \in Requests, Decide(r) PROVE Progress' BY <1>6 DEF Decide
<1>7. ASSUME NEW r \in Requests, ReplyLost(r) PROVE Progress' BY <1>7 DEF ReplyLost
<1> QED BY <1>1, <1>2, <1>3, <1>4, <1>5, <1>6, <1>7 DEF Next

LEMMA StepUsers == AccountsIInv /\ [Next]_vars => EmailUnique' /\ SignUpAnswers'
<1> SUFFICES ASSUME AccountsIInv, [Next]_vars PROVE EmailUnique' /\ SignUpAnswers' OBVIOUS
<1>t. TypeOK /\ TypeOK' BY TypeStep DEF AccountsIInv
<1>g. email' = email /\ users \subseteq users' /\ failed \subseteq failed' BY Growth
<1>h. \A e : HasAccount(e) => HasAccount(e)' BY <1>g DEF HasAccount
<1>1. users' = users \/ \E r \in SignUps : /\ users' = users \cup {r} /\ ~HasAccount(email[r])
    BY DEF Next, vars, Arrive, FindByEmail, HashPassword, CreateUser, Login, FindUser,
        CreateApplication, Decide, Fails, ReplyLost
<1>2. EmailUnique' BY <1>1, <1>g DEF AccountsIInv, EmailUnique, HasAccount
<1> USE AccountsAssumption, <1>t, <1>g, <1>h DEF AccountsIInv, TypeOK, Progress, SignUpAnswers, Goto, Answer, Requests, Refusals, Statuses, Verdicts
<1>3. CASE UNCHANGED vars BY <1>2, <1>3 DEF vars, HasAccount
<1>4. ASSUME NEW r \in Requests, Arrive(r) \/ Fails(r) PROVE SignUpAnswers' BY <1>4 DEF Arrive, Fails
<1>5. ASSUME NEW r \in Requests, FindByEmail(r) \/ HashPassword(r) \/ FindUser(r) PROVE SignUpAnswers'
    BY <1>5 DEF FindByEmail, HashPassword, FindUser
<1>6. ASSUME NEW r \in Requests, CreateUser(r) PROVE SignUpAnswers'
    <2>1. CASE HasAccount(email[r]) BY <1>6, <2>1 DEF CreateUser
    <2>2. CASE ~HasAccount(email[r]) BY <1>6, <2>2 DEF CreateUser
    <2> QED BY <2>1, <2>2
<1>10. ASSUME NEW r \in Requests, Login(r) PROVE SignUpAnswers'
    <2>a. pc[r] = "login" /\ users' = users BY <1>10 DEF Login
    <2>b. r \in SignUps BY ONLY <1>10, <2>a, AccountsIInv DEF AccountsIInv, Progress
    <2>1. r \in users /\ users' = users BY ONLY <2>a, <2>b, AccountsIInv DEF AccountsIInv, Progress
    <2>2. resp' = [resp EXCEPT ![r] = "tokens"] /\ pc' = [pc EXCEPT ![r] = "done"]
        BY <1>10 DEF Login
    <2>3. SUFFICES ASSUME NEW s \in SignUps
                   PROVE /\ resp'[s] = "tokens" => s \in users
                         /\ resp'[s] = "exists" => HasAccount(email[s])
                         /\ s \in users => pc'[s] = "login" \/ resp'[s] = "tokens" \/ s \in failed'
        BY <2>1
    <2> QED BY <2>1, <2>2
<1>7. ASSUME NEW r \in Requests, CreateApplication(r) PROVE SignUpAnswers' BY <1>7 DEF CreateApplication
<1>8. ASSUME NEW r \in Requests, Decide(r) PROVE SignUpAnswers' BY <1>8 DEF Decide
<1>9. ASSUME NEW r \in Requests, ReplyLost(r) PROVE SignUpAnswers' BY <1>9 DEF ReplyLost
<1> QED BY <1>2, <1>3, <1>4, <1>5, <1>6, <1>7, <1>8, <1>9, <1>10 DEF Next

\* Answers are final; a decision that arrives comes after those that have
\* ended, and has not been answered.
LEMMA Answers ==
    ASSUME AccountsIInv, [Next]_vars
    PROVE  /\ \A d \in Decisions : resp[d] # "none" => resp'[d] = resp[d]
           /\ \A d, e \in Decisions : <<d, e>> \in before' =>
                  <<d, e>> \in before \/ (pc[d] = "done" /\ resp'[e] = "none")
<1>t. TypeOK /\ TypeOK' BY TypeStep DEF AccountsIInv
<1>1. \A d \in Decisions : resp[d] # "none" => resp'[d] = resp[d]
    BY <1>t DEF AccountsIInv, TypeOK, Progress, Next, vars, Arrive, FindByEmail, HashPassword,
        CreateUser, Login, FindUser, CreateApplication, Decide, Fails, ReplyLost, Goto,
        Answer, Requests
<1>2. CASE before' = before BY <1>1, <1>2
<1>3. ASSUME NEW r \in Requests, Arrive(r)
      PROVE  \A d, e \in Decisions : <<d, e>> \in before' =>
                 <<d, e>> \in before \/ (pc[d] = "done" /\ resp'[e] = "none")
    BY <1>3, <1>t DEF Arrive, Goto, AccountsIInv, TypeOK, Progress, Requests
<1> QED BY <1>1, <1>2, <1>3 DEF Next, vars, FindByEmail, HashPassword, CreateUser, Login,
            FindUser, CreateApplication, Decide, Fails, ReplyLost

\* A decision that ends now is the last one on its application.
LEMMA EndsLast ==
    ASSUME AccountsIInv, [Next]_vars, NEW r \in Decisions, pc[r] = "decide", pc'[r] = "done"
    PROVE  \A a \in Applies : IsLast(r, a)'
<1>1. \A e \in Decisions : <<r, e>> \notin before' \/ resp'[e] = "none"
    BY Answers DEF AccountsIInv, Progress
<1>2. \A e \in Decisions : asks'[e].verdict # "none"
    BY Growth DEF AccountsIInv, TypeOK, Verdicts
<1> QED BY <1>1, <1>2 DEF IsLast, On, Carried

LEMMA StepStatus == AccountsIInv /\ [Next]_vars => StatusWasDecided'
<1> SUFFICES ASSUME AccountsIInv, [Next]_vars PROVE StatusWasDecided' OBVIOUS
<1>t. TypeOK /\ TypeOK' BY TypeStep DEF AccountsIInv
<1>g. asks' = asks /\ rows \subseteq rows' /\ failed \subseteq failed' BY Growth
<1>v. \A d \in Decisions : asks[d].verdict \in Verdicts BY <1>t DEF TypeOK
<1>1. ASSUME NEW r \in Decisions, pc[r] = "decide", pc'[r] = "done",
             asks[r].application \in rows, SetStatus(r),
             resp'[r] = asks[r].verdict \/ r \in failed',
             \A d \in Decisions \ {r} : resp'[d] = resp[d]
      PROVE  StatusWasDecided'
    <2> SUFFICES ASSUME NEW a \in Applies
                 PROVE  IF status'[a] = "PENDING"
                        THEN \A d \in On(a)' : ~Carried(d)'
                        ELSE /\ a \in rows'
                             /\ \E d \in On(a)' : /\ asks[d].verdict = status'[a]
                                                  /\ Carried(d)' \/ d \in failed'
                                                  /\ IsLast(d, a)'
        BY <1>g DEF StatusWasDecided
    <2>1. On(a)' = On(a) /\ On(a) \subseteq Decisions BY <1>g DEF On
    <2>2. CASE asks[r].application = a
        <3>1. status'[a] = asks[r].verdict /\ r \in On(a)
            BY <1>1, <1>t, <2>2 DEF On, TypeOK
        <3>2. status'[a] # "PENDING" BY <3>1, <1>v DEF Verdicts
        <3>3. Carried(r)' \/ r \in failed' BY <1>1, <1>g DEF Carried
        <3>4. IsLast(r, a)' BY <1>1, EndsLast
        <3> QED BY <1>1, <1>g, <2>1, <2>2, <3>1, <3>2, <3>3, <3>4
    <2>3. CASE asks[r].application # a
        <3>1. status'[a] = status[a] BY <1>1, <1>t, <2>3 DEF TypeOK
        <3>2. \A d \in On(a) : Carried(d)' <=> Carried(d)
            BY <1>1, <1>g, <2>3 DEF On, Carried
        <3>3. \A d \in On(a) : Carried(d) \/ d \in failed => pc[d] = "done"
            BY <1>v, <2>1 DEF Carried, AccountsIInv, Progress, Verdicts, Requests
        <3>4. \A d \in On(a) : IsLast(d, a) => IsLast(d, a)'
            BY <1>v, <2>1, <3>2, Answers DEF IsLast, Carried, Verdicts
        <3> QED BY <1>g, <2>1, <3>1, <3>2, <3>4 DEF AccountsIInv, StatusWasDecided
    <2> QED BY <2>2, <2>3
<1>2. ASSUME status' = status,
             \A d \in Decisions : Carried(d)' => Carried(d)
      PROVE  StatusWasDecided'
    <2>1. \A a \in Applies : On(a)' = On(a) /\ On(a) \subseteq Decisions BY <1>g DEF On
    <2>2. \A d \in Decisions : Carried(d)' <=> Carried(d)
        BY <1>2, <1>g, <1>v, Answers DEF Carried, Verdicts
    <2>3. \A a \in Applies : \A d \in On(a) : IsLast(d, a) => IsLast(d, a)'
        <3> SUFFICES ASSUME NEW a \in Applies, NEW d \in On(a), IsLast(d, a),
                            NEW e \in On(a), Carried(e)'
                     PROVE  <<d, e>> \notin before'
            BY <2>1 DEF IsLast
        <3>1. resp'[e] # "none" BY <1>g, <1>v, <2>1 DEF Carried, Verdicts
        <3> QED BY <2>1, <2>2, <3>1, Answers DEF IsLast
    <2> QED BY <1>2, <1>g, <2>1, <2>2, <2>3 DEF AccountsIInv, StatusWasDecided
<1>3. ASSUME NEW r \in Requests, Decide(r) PROVE StatusWasDecided'
    <2>1. r \in Decisions BY <1>3 DEF Decide, AccountsIInv, Progress
    <2>2. \A d \in Decisions \ {r} : resp'[d] = resp[d]
        BY <1>3, <1>t DEF Decide, Answer, TypeOK, Requests
    <2>4. CASE asks[r].application \in rows
        <3>1. pc'[r] = "done" /\ resp'[r] = asks[r].verdict
            BY <1>3, <1>t, <2>4 DEF Decide, Answer, TypeOK
        <3> QED BY <1>1, <1>3, <2>1, <2>2, <2>4, <3>1 DEF Decide
    <2>5. CASE asks[r].application \notin rows
        <3>1. status' = status /\ resp'[r] = "error"
            BY <1>3, <1>t, <2>5 DEF Decide, Answer, TypeOK
        <3>2. \A d \in Decisions : Carried(d)' => Carried(d)
            BY <1>g, <1>v, <2>2, <3>1 DEF Carried, Verdicts
        <3> QED BY <1>2, <3>1, <3>2
    <2> QED BY <2>4, <2>5
<1>4. ASSUME NEW r \in Requests, ReplyLost(r) PROVE StatusWasDecided'
    <2>1. \A d \in Decisions \ {r} : resp'[d] = resp[d]
        BY <1>4, <1>t DEF ReplyLost, Answer, TypeOK, Requests
    <2>3. pc'[r] = "done" /\ resp'[r] = "error" /\ r \in failed'
        BY <1>4, <1>t DEF ReplyLost, Answer, TypeOK
    <2>4. CASE pc[r] = "decide"
        <3>1. r \in Decisions BY <2>4 DEF AccountsIInv, Progress
        <3>2. asks[r].application \in rows /\ SetStatus(r) BY <1>4, <2>4 DEF ReplyLost
        <3> QED BY <1>1, <2>1, <2>3, <2>4, <3>1, <3>2
    <2>5. CASE pc[r] # "decide"
        <3>1. status' = status BY <1>4, <2>5 DEF ReplyLost
        <3>2. \A d \in Decisions : Carried(d)' => Carried(d)
            BY <1>g, <1>v, <2>1, <2>3 DEF Carried, Verdicts
        <3> QED BY <1>2, <3>1, <3>2
    <2> QED BY <2>4, <2>5
<1>5. ASSUME NEW r \in Requests, \/ Arrive(r) \/ FindByEmail(r) \/ HashPassword(r)
                                 \/ CreateUser(r) \/ Login(r) \/ FindUser(r)
                                 \/ CreateApplication(r) \/ Fails(r)
      PROVE  StatusWasDecided'
    <2>1. status' = status
        BY <1>5 DEF Arrive, FindByEmail, HashPassword, CreateUser, Login, FindUser,
            CreateApplication, Fails
    <2>2. \A d \in Decisions : resp'[d] = resp[d] \/ resp'[d] = "error"
        BY <1>5, <1>t, AccountsAssumption DEF Arrive, FindByEmail, HashPassword, CreateUser,
            Login, FindUser, CreateApplication, Fails, Goto, Answer, AccountsIInv, Progress,
            TypeOK, Requests
    <2>3. \A d \in Decisions : Carried(d)' => Carried(d)
        BY <1>g, <1>v, <2>2 DEF Carried, Verdicts
    <2> QED BY <1>2, <2>1, <2>3
<1>6. CASE UNCHANGED vars
    BY <1>2, <1>6 DEF vars, Carried
<1> QED BY <1>3, <1>4, <1>5, <1>6 DEF Next

LEMMA StepApplications ==
    AccountsIInv /\ [Next]_vars => OneApplication' /\ StatusWasDecided'
<1> SUFFICES ASSUME AccountsIInv, [Next]_vars PROVE OneApplication' /\ StatusWasDecided' OBVIOUS
<1>t. TypeOK /\ TypeOK' BY TypeStep DEF AccountsIInv
<1>g. /\ email' = email /\ users \subseteq users' /\ rows \subseteq rows'
      /\ failed \subseteq failed'
    BY Growth
<1>h. \A e : HasAccount(e) => HasAccount(e)' BY <1>g DEF HasAccount
<1>1. rows' = rows \/ \E a \in Applies : /\ rows' = rows \cup {a} /\ pc[a] = "create"
                                         /\ ~HasApplication(email[a])
    BY DEF Next, vars, Arrive, FindByEmail, HashPassword, CreateUser, Login, FindUser,
        CreateApplication, Decide, Fails, ReplyLost
<1>2. OneApplication'
    BY <1>1, <1>g, <1>h DEF AccountsIInv, Progress, OneApplication, HasApplication
<1> QED BY <1>2, StepStatus

LEMMA StepRefusals ==
    ASSUME AccountsIInv, [Next]_vars, Body = "text" PROVE RefusedForCause'
<1>t. TypeOK /\ TypeOK' BY TypeStep DEF AccountsIInv
<1>g. /\ email' = email /\ rows \subseteq rows' /\ failed \subseteq failed'
    BY Growth
<1>h. \A e : HasApplication(e) => HasApplication(e)' BY <1>g DEF HasApplication
<1> SUFFICES ASSUME NEW r \in Applies, resp'[r] = "error"
             PROVE  HasApplication(email[r]) \/ HasApplication(email[r])' \/ r \in failed'
    BY <1>g, <1>h DEF RefusedForCause
<1> USE AccountsAssumption, <1>t, <1>g DEF AccountsIInv, TypeOK, RefusedForCause, Goto, Answer, Requests
<1>1. CASE UNCHANGED vars BY <1>1 DEF vars
<1>2. ASSUME NEW q \in Requests, Arrive(q) \/ Fails(q) PROVE HasApplication(email[r]) \/ r \in failed'
    BY <1>2 DEF Arrive, Fails
<1>3. ASSUME NEW q \in Requests, \/ FindByEmail(q) \/ HashPassword(q) \/ FindUser(q)
                                 \/ CreateUser(q) \/ Login(q)
      PROVE  HasApplication(email[r]) \/ r \in failed'
    BY <1>3 DEF FindByEmail, HashPassword, FindUser, CreateUser, Login, Progress
<1>4. ASSUME NEW q \in Requests, CreateApplication(q) \/ Decide(q)
      PROVE  HasApplication(email[r]) \/ r \in failed'
    BY <1>4 DEF CreateApplication, Decide, Progress, Statuses
<1>5. ASSUME NEW q \in Requests, ReplyLost(q) PROVE HasApplication(email[r]) \/ r \in failed'
    BY <1>5 DEF ReplyLost
<1> QED BY <1>1, <1>2, <1>3, <1>4, <1>5 DEF Next

THEOREM AccountsInvariant == Spec => []AccountsIInv
<1>1. AccountsIInv /\ [Next]_vars => AccountsIInv'
    BY TypeStep, StepProgress, StepUsers, StepApplications, StepRefusals DEF AccountsIInv
<1> QED BY InitIInv, <1>1, PTL DEF Spec

\* The variables keep their types.
THEOREM AccountsTypeCorrect == Spec => []TypeOK
    BY AccountsInvariant, PTL DEF AccountsIInv

\* One account for an e-mail, whoever signs up at the same time.
THEOREM AccountsEmailUnique == Spec => []EmailUnique
    BY AccountsInvariant, PTL DEF AccountsIInv

\* Tokens go to the account's own sign-up.
THEOREM AccountsSignUpAnswers == Spec => []SignUpAnswers
    BY AccountsInvariant, PTL DEF AccountsIInv

\* At most one application of a user.
THEOREM AccountsOneApplication == Spec => []OneApplication
    BY AccountsInvariant, PTL DEF AccountsIInv

\* An application's status is the last decision on it: none that was confirmed
\* is lost, misplaced, or undone by an earlier one.
THEOREM AccountsStatusWasDecided == Spec => []StatusWasDecided
    BY AccountsInvariant, PTL DEF AccountsIInv

\* If the description reaches the service as a string, as in the tests, an
\* application is refused only for cause.
THEOREM AccountsRefusedForCause == Body = "text" => (Spec => []RefusedForCause)
<1>1. AccountsIInv /\ Body = "text" => RefusedForCause BY DEF AccountsIInv
<1>2. SUFFICES ASSUME Body = "text" PROVE Spec => []RefusedForCause OBVIOUS
<1>3. AccountsIInv => RefusedForCause BY <1>1, <1>2
<1> QED BY <1>3, AccountsInvariant, PTL
=============================================================================
