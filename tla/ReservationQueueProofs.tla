---------------------- MODULE ReservationQueueProofs ----------------------
(***************************************************************************)
(* Proofs about the job queue, for every number of jobs, workers, attempts  *)
(* and stalls.                                                             *)
(***************************************************************************)
EXTENDS ReservationQueue, TLAPS

\* An empty queue is in order.
LEMMA QueueInitOK == QueueInit => QueueIInv
BY QueueAssumption
DEF QueueInit, QueueIInv, QueueTypeOK, OneWorkerPerJob, AttemptsAccounted, Live, Settled

\* A worker that takes a waiting job becomes its only owner.
LEMMA TakeJobOK ==
    ASSUME NEW w \in Workers, NEW r \in Requests, QueueIInv, TakeJob(w, r)
    PROVE  QueueIInv'
<1> USE QueueAssumption DEF QueueIInv, Live, Settled
<1>1. QueueTypeOK'
  BY DEF QueueTypeOK, TakeJob
<1>2. OneWorkerPerJob'
  BY DEF QueueTypeOK, OneWorkerPerJob, TakeJob
<1>3. AttemptsAccounted'
  BY DEF QueueTypeOK, AttemptsAccounted, TakeJob
<1> QED BY <1>1, <1>2, <1>3

\* A run that throws costs the job one attempt; the last one settles it.
LEMMA FailJobOK ==
    ASSUME NEW w \in Workers, QueueIInv, FailJob(w)
    PROVE  QueueIInv'
<1> USE QueueAssumption DEF QueueIInv, Live, Settled
<1> DEFINE r == running[w]
<1>1. r \in Requests /\ jobState[r] = "active" /\ attemptsMade[r] \in 0 .. MaxAttempts - 1
  BY DEF QueueTypeOK, OneWorkerPerJob, AttemptsAccounted, FailJob
<1>2. QueueTypeOK'
  BY <1>1 DEF QueueTypeOK, FailJob, AfterError
<1>3. OneWorkerPerJob'
  BY <1>1 DEF QueueTypeOK, OneWorkerPerJob, FailJob
<1>4. AttemptsAccounted'
  BY <1>1 DEF QueueTypeOK, AttemptsAccounted, FailJob, AfterError
<1> QED BY <1>2, <1>3, <1>4

\* A run that returns settles its job and frees its worker.
LEMMA CompleteJobOK ==
    ASSUME NEW w \in Workers, QueueIInv, CompleteJob(w)
    PROVE  QueueIInv'
<1> USE QueueAssumption DEF QueueIInv, Live, Settled
<1>1. running[w] \in Requests /\ jobState[running[w]] = "active"
  BY DEF QueueTypeOK, OneWorkerPerJob, CompleteJob
<1>2. QueueTypeOK'
  BY <1>1 DEF QueueTypeOK, CompleteJob
<1>3. OneWorkerPerJob'
  BY <1>1 DEF QueueTypeOK, OneWorkerPerJob, CompleteJob
<1>4. AttemptsAccounted'
  BY <1>1 DEF QueueTypeOK, AttemptsAccounted, CompleteJob
<1> QED BY <1>2, <1>3, <1>4

\* A job that nobody owns any more runs again or is given up.
LEMMA RecoverStalledOK ==
    ASSUME NEW r \in Requests, QueueIInv, RecoverStalled(r)
    PROVE  QueueIInv'
<1> USE QueueAssumption DEF QueueIInv, Live, Settled
<1>1. stalledCount[r] \in 0 .. MaxStalledCount /\ attemptsMade[r] \in 0 .. MaxAttempts - 1
  BY DEF QueueTypeOK, AttemptsAccounted, RecoverStalled
<1>2. QueueTypeOK'
  BY <1>1 DEF QueueTypeOK, RecoverStalled
<1>3. OneWorkerPerJob'
  BY DEF QueueTypeOK, OneWorkerPerJob, RecoverStalled
<1>4. AttemptsAccounted'
  BY <1>1 DEF QueueTypeOK, AttemptsAccounted, RecoverStalled
<1> QED BY <1>2, <1>3, <1>4

\* Every step of the queue, and every step that leaves it alone, keeps it in
\* order.  The modules built on the queue use this for their own steps.
LEMMA QueueStepOK ==
    ASSUME QueueIInv, [QueueNext]_queueVars
    PROVE  QueueIInv'
<1> USE QueueAssumption DEF QueueIInv
<1>1. CASE OpenLimiter
  BY <1>1 DEF OpenLimiter, QueueTypeOK, OneWorkerPerJob, AttemptsAccounted
<1>2. CASE \E r \in Requests : AddJob(r) \/ PromoteJob(r)
  BY <1>2 DEF AddJob, PromoteJob, QueueTypeOK, OneWorkerPerJob, AttemptsAccounted, Live, Settled
<1>3. CASE \E r \in Requests : RecoverStalled(r)
  BY <1>3, RecoverStalledOK
<1>4. CASE \E w \in Workers : CompleteJob(w)
  BY <1>4, CompleteJobOK
<1>5. CASE \E w \in Workers : FailJob(w)
  BY <1>5, FailJobOK
<1>6. CASE \E w \in Workers : StopWorker(w)
  BY <1>6 DEF StopWorker, QueueTypeOK, OneWorkerPerJob, AttemptsAccounted
<1>7. CASE \E w \in Workers, r \in Requests : TakeJob(w, r)
  BY <1>7, TakeJobOK
<1>8. CASE UNCHANGED queueVars
  BY <1>8 DEF queueVars, QueueTypeOK, OneWorkerPerJob, AttemptsAccounted
<1> QED
  BY <1>1, <1>2, <1>3, <1>4, <1>5, <1>6, <1>7, <1>8 DEF QueueNext

\* The queue is always in order: types, ownership, and the attempts and
\* stalls that decide when a job is given up.
THEOREM QueueInOrder == QueueSpec => []QueueIInv
<1>1. QueueInit => QueueIInv
  BY QueueInitOK
<1>2. QueueIInv /\ [QueueNext]_queueVars => QueueIInv'
  BY QueueStepOK
<1> QED BY <1>1, <1>2, PTL DEF QueueSpec

\* The queue's variables keep their types, and no job has run more often than
\* its attempts and stalls allow (queue.service.ts).
THEOREM QueueTypeCorrect == QueueSpec => []QueueTypeOK
<1>1. QueueIInv => QueueTypeOK
  BY DEF QueueIInv
<1> QED BY <1>1, QueueInOrder, PTL

\* OneWorkerPerJob holds however many workers, errors and restarts there are
\* (reservation.processor.ts, queue.service.ts).
THEOREM QueueOwnership == QueueSpec => []OneWorkerPerJob
<1>1. QueueIInv => OneWorkerPerJob
  BY DEF QueueIInv
<1> QED BY <1>1, QueueInOrder, PTL

\* AttemptsAccounted holds for every value of the option attempts
\* (queue.service.ts).
THEOREM QueueAttempts == QueueSpec => []AttemptsAccounted
<1>1. QueueIInv => AttemptsAccounted
  BY DEF QueueIInv
<1> QED BY <1>1, QueueInOrder, PTL

\* A job's end is final: one that was completed or has failed never runs, fails
\* or is tried again, whatever worker stops or is found stalled.
THEOREM QueueEndIsFinal ==
    QueueSpec => [][\A r \in Requests : jobState[r] \in Settled =>
                        /\ jobState'[r] = jobState[r] /\ attemptsMade'[r] = attemptsMade[r]
                        /\ \A w \in Workers : running'[w] # r]_queueVars
<1>1. QueueIInv /\ [QueueNext]_queueVars =>
          [\A r \in Requests : jobState[r] \in Settled =>
              /\ jobState'[r] = jobState[r] /\ attemptsMade'[r] = attemptsMade[r]
              /\ \A w \in Workers : running'[w] # r]_queueVars
  <2> SUFFICES ASSUME QueueIInv, QueueNext, NEW r \in Requests, jobState[r] \in Settled
               PROVE  /\ jobState'[r] = jobState[r] /\ attemptsMade'[r] = attemptsMade[r]
                      /\ \A w \in Workers : running'[w] # r
    OBVIOUS
  <2> USE QueueAssumption DEF QueueIInv, QueueTypeOK, OneWorkerPerJob, Settled, Live
  <2>1. \A w \in Workers : running[w] # r
    OBVIOUS
  <2>2. CASE OpenLimiter
    BY <2>1, <2>2 DEF OpenLimiter
  <2>3. ASSUME NEW q \in Requests, AddJob(q) \/ PromoteJob(q) \/ RecoverStalled(q)
        PROVE  /\ jobState'[r] = jobState[r] /\ attemptsMade'[r] = attemptsMade[r]
               /\ \A w \in Workers : running'[w] # r
    BY <2>1, <2>3 DEF AddJob, PromoteJob, RecoverStalled
  <2>4. ASSUME NEW w \in Workers, CompleteJob(w) \/ FailJob(w) \/ StopWorker(w)
        PROVE  /\ jobState'[r] = jobState[r] /\ attemptsMade'[r] = attemptsMade[r]
               /\ \A v \in Workers : running'[v] # r
    BY <2>1, <2>4 DEF CompleteJob, FailJob, StopWorker, AfterError
  <2>5. ASSUME NEW w \in Workers, NEW q \in Requests, TakeJob(w, q)
        PROVE  /\ jobState'[r] = jobState[r] /\ attemptsMade'[r] = attemptsMade[r]
               /\ \A v \in Workers : running'[v] # r
    BY <2>1, <2>5 DEF TakeJob
  <2> QED
    BY <2>2, <2>3, <2>4, <2>5 DEF QueueNext
<1> QED
  BY <1>1, QueueInOrder, PTL DEF QueueSpec
===========================================================================
