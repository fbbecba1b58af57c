------------------------- MODULE ReservationQueue -------------------------
(***************************************************************************)
(* The 'reservation' job queue: QueueService.addReservationJob puts a job   *)
(* on it (queue.service.ts), ReservationConsumer takes jobs off it          *)
(* (reservation.processor.ts).  Every server process runs both, so there    *)
(* is one worker per process.  The queue itself is BullMQ on Redis; its     *)
(* behaviour is modelled from the options the code passes.                  *)
(*                                                                         *)
(* A request adds at most one job, so a job is named by its request.        *)
(* Waiting jobs are taken in any order (BullMQ's order is one of them).     *)
(***************************************************************************)
EXTENDS Integers

CONSTANTS Requests,         \* requests, and the jobs they add
          Workers,          \* one per server process
          MaxAttempts,      \* the job option attempts
          MaxStalledCount,  \* BullMQ's default maxStalledCount
          NoJob             \* an idle worker's job

ASSUME QueueAssumption == /\ MaxAttempts \in Nat \ {0}
                          /\ MaxStalledCount \in Nat
                          /\ NoJob \notin Requests

VARIABLES jobState,      \* where each job is
          attemptsMade,  \* runs of each job that ended in an error
          stalledCount,  \* runs of each job whose worker died
          running,       \* the job each worker is processing
          limiterOpen    \* may a job start in the current window?

queueVars == <<jobState, attemptsMade, stalledCount, running, limiterOpen>>

Live    == {"waiting", "active", "delayed"}
Settled == {"completed", "failed"}

QueueTypeOK ==
    /\ jobState \in [Requests -> {"absent"} \cup Live \cup Settled]
    /\ attemptsMade \in [Requests -> 0 .. MaxAttempts]
    /\ stalledCount \in [Requests -> 0 .. MaxStalledCount + 1]
    /\ running \in [Workers -> Requests \cup {NoJob}]
    /\ limiterOpen \in BOOLEAN

QueueInit ==
    /\ jobState = [r \in Requests |-> "absent"]
    /\ attemptsMade = [r \in Requests |-> 0]
    /\ stalledCount = [r \in Requests |-> 0]
    /\ running = [w \in Workers |-> NoJob]
    /\ limiterOpen = TRUE

---------------------------------------------------------------------------
(* The operations.                                                         *)

\* queue.add('reservation', data, options): the job waits for a worker.
AddJob(r) ==
    /\ jobState[r] = "absent"
    /\ jobState' = [jobState EXCEPT ![r] = "waiting"]
    /\ UNCHANGED <<attemptsMade, stalledCount, running, limiterOpen>>

Mut_TakeJob_Shared(w, r) ==
    /\ jobState[r] \in {"waiting", "active"}
    /\ running[w] = NoJob
    /\ limiterOpen
    /\ jobState' = [jobState EXCEPT ![r] = "active"]
    /\ running' = [running EXCEPT ![w] = r]
    /\ limiterOpen' = FALSE
    /\ UNCHANGED <<attemptsMade, stalledCount>>

\* An idle worker (concurrency 1) takes a job if the limiter lets one start.
TakeJob(w, r) ==
    /\ jobState[r] = "waiting"
    /\ running[w] = NoJob
    /\ limiterOpen
    /\ jobState' = [jobState EXCEPT ![r] = "active"]
    /\ running' = [running EXCEPT ![w] = r]
    /\ limiterOpen' = FALSE
    /\ UNCHANGED <<attemptsMade, stalledCount>>

\* The limiter's window (1 * SECONDS) is over: max 1 more job may start.
OpenLimiter ==
    /\ ~limiterOpen
    /\ limiterOpen' = TRUE
    /\ UNCHANGED <<jobState, attemptsMade, stalledCount, running>>

\* process() returned: the job is done and removed (removeOnComplete).
CompleteJob(w) ==
    /\ running[w] # NoJob
    /\ jobState' = [jobState EXCEPT ![running[w]] = "completed"]
    /\ running' = [running EXCEPT ![w] = NoJob]
    /\ UNCHANGED <<attemptsMade, stalledCount, limiterOpen>>

Mut_AfterError_OffByOne(r) ==
    IF attemptsMade[r] < MaxAttempts THEN "delayed" ELSE "failed"

\* Where a job goes whose run threw: back after the backoff, until its
\* attempts are used up; then it stays as a failed job (removeOnFail: 24 h).
AfterError(r) ==
    IF attemptsMade[r] + 1 < MaxAttempts THEN "delayed" ELSE "failed"

\* process() threw.
FailJob(w) ==
    LET r == running[w] IN
    /\ r # NoJob
    /\ jobState' = [jobState EXCEPT ![r] = AfterError(r)]
    /\ attemptsMade' = [attemptsMade EXCEPT ![r] = @ + 1]
    /\ running' = [running EXCEPT ![w] = NoJob]
    /\ UNCHANGED <<stalledCount, limiterOpen>>

\* The fixed backoff of 1 * SECONDS has passed.
PromoteJob(r) ==
    /\ jobState[r] = "delayed"
    /\ jobState' = [jobState EXCEPT ![r] = "waiting"]
    /\ UNCHANGED <<attemptsMade, stalledCount, running, limiterOpen>>

\* The worker's process dies and is started again by pm2: the job stays
\* active, with nobody processing it.
StopWorker(w) ==
    /\ running[w] # NoJob
    /\ running' = [running EXCEPT ![w] = NoJob]
    /\ UNCHANGED <<jobState, attemptsMade, stalledCount, limiterOpen>>

Mut_RecoverStalled_Lost(r) ==
    /\ jobState[r] = "active"
    /\ \A w \in Workers : running[w] # r
    /\ stalledCount[r] >= MaxStalledCount
    /\ jobState' = [jobState EXCEPT ![r] = "failed"]
    /\ stalledCount' = [stalledCount EXCEPT ![r] = @ + 1]
    /\ UNCHANGED <<attemptsMade, running, limiterOpen>>

\* BullMQ finds an active job that no live worker owns.
RecoverStalled(r) ==
    /\ jobState[r] = "active"
    /\ \A w \in Workers : running[w] # r
    /\ stalledCount' = [stalledCount EXCEPT ![r] = @ + 1]
    /\ jobState' = [jobState EXCEPT ![r] =
                      IF stalledCount[r] < MaxStalledCount THEN "waiting" ELSE "failed"]
    /\ UNCHANGED <<attemptsMade, running, limiterOpen>>

---------------------------------------------------------------------------
(* The queue on its own: the body of process() is a run that ends somehow.  *)

QueueNext ==
    \/ OpenLimiter
    \/ \E r \in Requests : AddJob(r) \/ PromoteJob(r) \/ RecoverStalled(r)
    \/ \E w \in Workers : CompleteJob(w) \/ FailJob(w) \/ StopWorker(w)
    \/ \E w \in Workers, r \in Requests : TakeJob(w, r)

\* Redis keeps serving (windows end, backoffs end, stalled jobs are found),
\* idle workers keep asking for jobs, and every run of process() ends: it
\* returns, or throws, or its process dies (Prisma bounds a transaction).
QueueFairness ==
    /\ WF_queueVars(OpenLimiter)
    /\ \A r \in Requests :
          /\ WF_queueVars(PromoteJob(r))
          /\ WF_queueVars(RecoverStalled(r))
          /\ SF_queueVars(\E w \in Workers : TakeJob(w, r))
    /\ \A w \in Workers : WF_queueVars(CompleteJob(w) \/ FailJob(w) \/ StopWorker(w))

QueueSpec == QueueInit /\ [][QueueNext]_queueVars

FairQueueSpec == QueueSpec /\ QueueFairness

---------------------------------------------------------------------------
(* Properties.                                                             *)

\* A job is never in the hands of two workers, and a worker's job is active:
\* the ownership that retries, stalls and restarts must not break.
OneWorkerPerJob ==
    /\ \A w \in Workers : running[w] # NoJob => jobState[running[w]] = "active"
    /\ \A v, w \in Workers : running[v] = running[w] /\ running[v] # NoJob => v = w

\* A job is given up only when its attempts or its stalls are used up, and
\* never runs again after MaxAttempts errors.
AttemptsAccounted ==
    \A r \in Requests :
       /\ jobState[r] \in Live => attemptsMade[r] < MaxAttempts /\ stalledCount[r] <= MaxStalledCount
       /\ jobState[r] = "failed" <=> attemptsMade[r] = MaxAttempts \/ stalledCount[r] > MaxStalledCount

\* The queue's inductive invariant: who owns a job and how often it has run
\* decide where it may go next.
QueueIInv == QueueTypeOK /\ OneWorkerPerJob /\ AttemptsAccounted

\* Every job that is added is eventually completed or given up, whatever
\* errors and process deaths it meets on the way.
JobsSettle == \A r \in Requests : jobState[r] \in Live ~> jobState[r] \in Settled
===========================================================================
