--------------------- MODULE SeatingReservationProofs ---------------------
(***************************************************************************)
(* Proofs about SeatingReservation, for every set of requests, tickets and  *)
(* server processes, and every value of the queue's options.                *)
(***************************************************************************)
EXTENDS SeatingInvariant, SeatingRefinement, ReservationQueueProofs

\* Whatever the handlers, the workers or the environment do, the queue moves
\* by its own operations only.
LEMMA QueueUnderNext == [Next]_vars => [QueueNext]_queueVars
<1> SUFFICES ASSUME [Next]_vars PROVE [QueueNext]_queueVars
  OBVIOUS
<1>1. CASE UNCHANGED vars
  BY <1>1 DEF vars
<1>2. ASSUME NEW r \in Requests, Arrive(r) \/ RequestStep(r) \/ CrashRequest(r)
      PROVE  [QueueNext]_queueVars
  BY <1>2 DEF QueueNext, RequestStep, Arrive, CrashRequest, AcquireLock, LockFails, ReadSoldOut,
     FindTicket, MarkSoldOut, Enqueue, EnqueueFails, Unmark, CallFails, Unlock, UnlockFails
<1>3. ASSUME NEW t \in Tickets, LockExpires(t) \/ FlagExpires(t)
      PROVE  [QueueNext]_queueVars
  BY <1>3 DEF LockExpires, FlagExpires
<1>4. ASSUME NEW w \in Workers, WorkerStep(w) \/ CrashWorker(w)
      PROVE  [QueueNext]_queueVars
  BY <1>4 DEF QueueNext, WorkerStep, CrashWorker, CreateReservation, ReserveTicket, CommitTx,
     TxFails, CommitReplyLost, FinishJob
<1>5. ASSUME NEW w \in Workers, NEW r \in Requests, StartJob(w, r)
      PROVE  [QueueNext]_queueVars
  BY <1>5 DEF QueueNext, StartJob
<1>6. CASE QueueStep
  BY <1>6 DEF QueueNext, QueueStep
<1> QED
  BY <1>1, <1>2, <1>3, <1>4, <1>5, <1>6 DEF Next

\* The initial states satisfy the invariant.
LEMMA InitOK == Init => IInv
<1> SUFFICES ASSUME Init PROVE IInv
  OBVIOUS
<1>1. QueueIInv
  BY QueueInitOK DEF Init
<1>2. \A r \in Requests, t \in Tickets : ~Claim(r, t)
  BY DEF Init, QueueInit, Claim, Live
<1>3. TypeOK
  BY <1>1, QueueAssumption, SeatingAssumption
  DEF Init, QueueInit, QueueIInv, TypeOK, PCs, Answers, Steps
<1>4. HandlerStages /\ LockHeld /\ FreshReads /\ HonestAnswer
  BY DEF Init, QueueInit, HandlerStages, LockHeld, FreshReads, HonestAnswer, Critical
<1>5. FlagGuards /\ OneClaim
  BY <1>2, <1>3 DEF FlagGuards, OneClaim, TypeOK
<1>6. TxAtomic /\ CommittedRow /\ SoldOnce /\ JobOutcome
  BY DEF Init, QueueInit, TxAtomic, CommittedRow, SoldOnce, JobOutcome
<1> QED
  BY <1>1, <1>3, <1>4, <1>5, <1>6 DEF IInv

\* What the database and the queue say of each other outlives every step that
\* touches neither of them.
LEMMA DatabaseFrame ==
    ASSUME IInv, UNCHANGED <<want, databaseVars, step, jobState, running>>,
           disturbed \subseteq disturbed'
    PROVE  TxAtomic' /\ CommittedRow' /\ SoldOnce' /\ JobOutcome'
BY DEF IInv, databaseVars, TxAtomic, CommittedRow, SoldOnce, JobOutcome

---------------------------------------------------------------------------
(* The handler's steps.                                                    *)

\* Steps outside the critical section, and steps that leave it.
LEMMA OutsideOK ==
    ASSUME NEW r \in Requests, IInv, QueueIInv',
           \/ Arrive(r) \/ LockFails(r) \/ Unlock(r) \/ UnlockFails(r) \/ CrashRequest(r)
    PROVE  IInv'
<1> USE SeatingAssumption
    DEF IInv, Arrive, LockFails, Unlock, UnlockFails, CrashRequest, Goto, Clean, databaseVars, queueVars
<1>1. TypeOK'
  BY DEF TypeOK, PCs, Answers, QueueIInv
<1>2. HandlerStages' /\ HonestAnswer'
  BY DEF TypeOK, HandlerStages, HonestAnswer
<1>3. LockHeld'
  BY DEF TypeOK, LockHeld, Critical
<1>4. FreshReads'
  BY DEF TypeOK, FreshReads
<1>5. FlagGuards' /\ OneClaim'
  BY DEF TypeOK, FlagGuards, OneClaim, Claim
<1>6. TxAtomic' /\ CommittedRow' /\ SoldOnce' /\ JobOutcome'
  BY DatabaseFrame
<1> QED
  BY <1>1, <1>2, <1>3, <1>4, <1>5, <1>6

\* Entering the critical section needs a free lock, so nobody else is in it.
LEMMA AcquireLockOK ==
    ASSUME NEW r \in Requests, IInv, QueueIInv', AcquireLock(r)
    PROVE  IInv'
<1> USE SeatingAssumption DEF IInv, AcquireLock, Goto, Clean, databaseVars, queueVars
<1>1. TypeOK'
  BY DEF TypeOK, PCs, QueueIInv
<1>2. HandlerStages' /\ HonestAnswer'
  BY DEF TypeOK, HandlerStages, HonestAnswer
<1>3. LockHeld'
  BY DEF TypeOK, LockHeld, Critical
<1>4. FreshReads'
  BY DEF TypeOK, FreshReads
<1>5. FlagGuards' /\ OneClaim'
  BY DEF TypeOK, FlagGuards, OneClaim, Claim
<1>6. TxAtomic' /\ CommittedRow' /\ SoldOnce' /\ JobOutcome'
  BY DatabaseFrame
<1> QED
  BY <1>1, <1>2, <1>3, <1>4, <1>5, <1>6

\* The two reads: the flag is down, so no claim is open on an unsold ticket.
LEMMA ReadsOK ==
    ASSUME NEW r \in Requests, IInv, QueueIInv', ReadSoldOut(r) \/ FindTicket(r)
    PROVE  IInv'
<1> USE SeatingAssumption
    DEF IInv, ReadSoldOut, FindTicket, Answer, Goto, Clean, databaseVars, queueVars
<1>1. TypeOK'
  BY DEF TypeOK, PCs, Answers, QueueIInv
<1>2. HandlerStages' /\ HonestAnswer'
  BY DEF TypeOK, HandlerStages, HonestAnswer
<1>3. LockHeld'
  BY DEF TypeOK, LockHeld, Critical
<1>4. FreshReads'
  BY DEF TypeOK, FreshReads
<1>5. FlagGuards' /\ OneClaim'
  BY DEF TypeOK, FlagGuards, OneClaim, Claim
<1>6. TxAtomic' /\ CommittedRow' /\ SoldOnce' /\ JobOutcome'
  BY DatabaseFrame
<1> QED
  BY <1>1, <1>2, <1>3, <1>4, <1>5, <1>6

\* Raising the flag is what opens the claim: it is the ticket's only one,
\* since an older one would have had the flag up, or the ticket sold.
LEMMA MarkSoldOutOK ==
    ASSUME NEW r \in Requests, IInv, QueueIInv', MarkSoldOut(r)
    PROVE  IInv'
<1> USE SeatingAssumption DEF IInv, MarkSoldOut, Goto, Clean, databaseVars, queueVars
<1>1. TypeOK'
  BY DEF TypeOK, PCs, QueueIInv
<1>2. HandlerStages' /\ HonestAnswer'
  BY DEF TypeOK, HandlerStages, HonestAnswer
<1>3. LockHeld'
  BY DEF TypeOK, LockHeld, Critical
<1>4. FreshReads'
  BY DEF TypeOK, FreshReads, LockHeld, Critical
<1>5. FlagGuards'
  BY DEF TypeOK, FlagGuards, Claim
<1>6. OneClaim'
  <2>1. want[r] \notin disturbed =>
           available[want[r]] /\ \A s \in Requests : ~Claim(s, want[r])
    BY DEF TypeOK, FreshReads, FlagGuards, Claim
  <2> QED
    BY <2>1 DEF TypeOK, OneClaim, Claim
<1>7. TxAtomic' /\ CommittedRow' /\ SoldOnce' /\ JobOutcome'
  BY DatabaseFrame
<1> QED
  BY <1>1, <1>2, <1>3, <1>4, <1>5, <1>6, <1>7

\* The claim moves from the handler to its job, or, if the job is not added,
\* ends with the flag still up.
LEMMA EnqueueOK ==
    ASSUME NEW r \in Requests, IInv, QueueIInv', Enqueue(r) \/ EnqueueFails(r)
    PROVE  IInv'
<1> USE SeatingAssumption
    DEF IInv, Enqueue, EnqueueFails, AddJob, Answer, Goto, Clean, databaseVars, queueVars, Live
<1>1. TypeOK'
  BY DEF TypeOK, PCs, Answers, QueueIInv
<1>2. HandlerStages' /\ HonestAnswer'
  BY DEF TypeOK, QueueTypeOK, HandlerStages, HonestAnswer
<1>3. LockHeld'
  BY DEF TypeOK, LockHeld, Critical
<1>4. FreshReads'
  BY DEF TypeOK, FreshReads
<1>5. FlagGuards' /\ OneClaim'
  BY DEF TypeOK, QueueTypeOK, FlagGuards, OneClaim, Claim
<1>6. TxAtomic' /\ CommittedRow' /\ SoldOnce'
  BY DEF TxAtomic, CommittedRow, SoldOnce
<1>7. JobOutcome'
  BY DEF TypeOK, QueueTypeOK, JobOutcome
<1> QED
  BY <1>1, <1>2, <1>3, <1>4, <1>5, <1>6, <1>7

\* Taking the flag down is harmless without an open claim on an unsold
\* ticket, and disturbs the ticket with one.
LEMMA LosingFlagOK ==
    ASSUME IInv, QueueIInv', NEW t \in Tickets,
           soldOut' = [soldOut EXCEPT ![t] = FALSE],
           disturbed' = DisturbedByLosingFlag(t),
           UNCHANGED <<want, lock, databaseVars, step, queueVars>>,
           \/ UNCHANGED <<pc, resp>>
           \/ \E r \in Requests : pc[r] = "unmark" /\ Answer(r, "error")
    PROVE  IInv'
<1> USE SeatingAssumption DEF IInv, Answer, Goto, Clean, databaseVars, queueVars
<1>1. /\ disturbed \subseteq disturbed' /\ disturbed' \subseteq disturbed \cup {t}
      /\ t \notin disturbed' => ~available[t] \/ \A s \in Requests : ~Claim(s, t)
  BY DEF DisturbedByLosingFlag
<1>2. TypeOK'
  BY <1>1 DEF TypeOK, PCs, Answers, QueueIInv
<1>3. HandlerStages' /\ HonestAnswer'
  BY DEF TypeOK, HandlerStages, HonestAnswer
<1>4. LockHeld'
  BY <1>1 DEF TypeOK, LockHeld, Critical
<1>5. FreshReads'
  BY <1>1 DEF TypeOK, FreshReads
<1>6. FlagGuards'
  BY <1>1 DEF TypeOK, FlagGuards, Claim
<1>7. OneClaim'
  BY <1>1 DEF TypeOK, OneClaim, Claim
<1>8. TxAtomic' /\ CommittedRow' /\ SoldOnce' /\ JobOutcome'
  BY <1>1, DatabaseFrame
<1> QED
  BY <1>2, <1>3, <1>4, <1>5, <1>6, <1>7, <1>8

\* A failed call ends the handler; at most the flag is up, with no claim.
LEMMA CallFailsOK ==
    ASSUME NEW r \in Requests, IInv, QueueIInv', CallFails(r)
    PROVE  IInv'
<1> USE SeatingAssumption DEF IInv, CallFails, Answer, Goto, Clean, databaseVars, queueVars
<1>1. TypeOK'
  BY DEF TypeOK, PCs, Answers, QueueIInv
<1>2. HandlerStages' /\ HonestAnswer'
  BY DEF TypeOK, HandlerStages, HonestAnswer
<1>3. LockHeld'
  BY DEF TypeOK, LockHeld, Critical
<1>4. FreshReads'
  BY DEF TypeOK, FreshReads, LockHeld, Critical
<1>5. FlagGuards' /\ OneClaim'
  BY DEF TypeOK, FlagGuards, OneClaim, Claim
<1>6. TxAtomic' /\ CommittedRow' /\ SoldOnce' /\ JobOutcome'
  BY DatabaseFrame
<1> QED
  BY <1>1, <1>2, <1>3, <1>4, <1>5, <1>6

\* A lock that runs out under a handler in the critical section disturbs the
\* ticket; any other was no longer needed.
LEMMA LockExpiresOK ==
    ASSUME NEW t \in Tickets, IInv, QueueIInv', LockExpires(t)
    PROVE  IInv'
<1> USE SeatingAssumption DEF IInv, LockExpires, Clean, databaseVars, queueVars
<1>1. TypeOK'
  BY DEF TypeOK, QueueIInv
<1>2. HandlerStages' /\ HonestAnswer'
  BY DEF HandlerStages, HonestAnswer
<1>3. LockHeld'
  BY DEF TypeOK, LockHeld
<1>4. FreshReads' /\ FlagGuards' /\ OneClaim'
  BY DEF TypeOK, FreshReads, FlagGuards, OneClaim, Claim
<1>5. TxAtomic' /\ CommittedRow' /\ SoldOnce' /\ JobOutcome'
  BY DatabaseFrame
<1> QED
  BY <1>1, <1>2, <1>3, <1>4, <1>5

---------------------------------------------------------------------------
(* The worker's steps, and the queue's own.                                *)

\* A step of a worker or of the queue leaves the handlers where they are; if
\* it adds no job and disturbs tickets only, their part of the invariant
\* stays.
LEMMA HandlerFrame ==
    ASSUME IInv, UNCHANGED requestVars, disturbed \subseteq disturbed',
           \A t \in Tickets : available'[t] # available[t] =>
              \A r \in Requests : want[r] = t /\ t \notin disturbed' => pc[r] # "mark",
           \A r \in Requests : jobState'[r] # jobState[r] =>
              jobState[r] # "absent" /\ jobState'[r] # "absent"
    PROVE  HandlerStages' /\ LockHeld' /\ FreshReads' /\ HonestAnswer'
<1> USE DEF IInv, requestVars, Clean
<1>1. HandlerStages' /\ HonestAnswer'
  BY DEF HandlerStages, HonestAnswer
<1>2. LockHeld'
  BY DEF LockHeld
<1>3. FreshReads'
  BY DEF TypeOK, FreshReads
<1> QED
  BY <1>1, <1>2, <1>3

\* The worker of an uncommitted job has an active job, whose claim is open;
\* so its ticket, while undisturbed, is unsold and has no other claim.
LEMMA UncommittedClaim ==
    ASSUME IInv, NEW w \in Workers, step[w] \in Steps \ {"idle", "committed"}
    PROVE  /\ running[w] \in Requests
           /\ jobState[running[w]] = "active"
           /\ Clean(running[w]) => /\ available[want[running[w]]]
                                   /\ soldOut[want[running[w]]]
                                   /\ \A s \in Requests : Claim(s, want[running[w]]) => s = running[w]
<1> USE DEF IInv, Clean
<1>1. running[w] \in Requests /\ jobState[running[w]] = "active"
  BY DEF TypeOK, QueueIInv, QueueTypeOK, OneWorkerPerJob
<1>2. Claim(running[w], want[running[w]])
  BY <1>1 DEF Claim, Live
<1>3. \A v \in Workers : running[v] = running[w] => v = w
  BY <1>1, QueueAssumption DEF QueueIInv, OneWorkerPerJob
<1> QED
  BY <1>1, <1>2, <1>3 DEF TypeOK, OneClaim, FlagGuards

\* Starting a job, and the two statements of the open transaction.
LEMMA UncommittedOK ==
    ASSUME NEW w \in Workers, IInv, QueueIInv',
           \/ CreateReservation(w) \/ ReserveTicket(w)
           \/ \E r \in Requests : StartJob(w, r)
    PROVE  IInv'
<1> USE QueueAssumption
    DEF IInv, CreateReservation, ReserveTicket, StartJob, TakeJob, Advance, Clean,
        requestVars, databaseVars, queueVars
<1>1. TypeOK'
  BY DEF TypeOK, QueueIInv, QueueTypeOK, Steps
<1>2. HandlerStages' /\ LockHeld' /\ FreshReads' /\ HonestAnswer'
  BY HandlerFrame DEF Live, TypeOK, QueueTypeOK
<1>3. FlagGuards'
  BY DEF TypeOK, QueueTypeOK, FlagGuards, Claim, Live
<1>4. OneClaim'
  BY DEF TypeOK, QueueTypeOK, OneClaim, Claim, Live
<1>5. TxAtomic' /\ SoldOnce'
  BY DEF TxAtomic, SoldOnce
<1>6. CommittedRow'
  BY DEF TypeOK, QueueTypeOK, CommittedRow
<1>7. JobOutcome'
  BY DEF TypeOK, QueueTypeOK, JobOutcome
<1> QED
  BY <1>1, <1>2, <1>3, <1>4, <1>5, <1>6, <1>7

\* The commit sells an unsold ticket: the job's claim was the only one.
LEMMA CommitTxOK ==
    ASSUME NEW w \in Workers, IInv, QueueIInv', CommitTx(w)
    PROVE  IInv'
<1> USE QueueAssumption, SeatingAssumption
    DEF IInv, CommitTx, Commit, Advance, Clean, requestVars, databaseVars, queueVars
<1> DEFINE r == running[w]
<1>1. /\ r \in Requests /\ jobState[r] = "active" /\ want[r] \in Tickets
      /\ Clean(r) => available[want[r]] /\ soldOut[want[r]]
                     /\ \A s \in Requests : Claim(s, want[r]) => s = r
  BY UncommittedClaim DEF TypeOK, Steps
<1>2. TypeOK'
  BY <1>1 DEF TypeOK, QueueIInv, QueueTypeOK, Steps
<1>3. HandlerStages' /\ LockHeld' /\ FreshReads' /\ HonestAnswer'
  <2>1. \A s \in Requests : want[s] = want[r] /\ Clean(r) => pc[s] # "mark"
    BY <1>1 DEF FreshReads
  <2> QED
    BY <1>1, <2>1, HandlerFrame DEF TypeOK
<1>4. FlagGuards'
  BY <1>1 DEF TypeOK, FlagGuards, Claim
<1>5. OneClaim'
  BY <1>1 DEF TypeOK, OneClaim, Claim, Live
<1>6. TxAtomic'
  BY <1>1 DEF TypeOK, TxAtomic
<1>7. CommittedRow'
  BY <1>1 DEF TypeOK, QueueTypeOK, CommittedRow
<1>8. SoldOnce'
  BY <1>1 DEF TypeOK, TxAtomic, SoldOnce
<1>9. JobOutcome'
  BY <1>1 DEF TypeOK, JobOutcome
<1> QED
  BY <1>2, <1>3, <1>4, <1>5, <1>6, <1>7, <1>8, <1>9

\* A rollback leaves an undisturbed ticket unsold and its flag up, whether
\* the job runs again or is given up.
LEMMA TxFailsOK ==
    ASSUME NEW w \in Workers, IInv, QueueIInv', TxFails(w)
    PROVE  IInv'
<1> USE QueueAssumption
    DEF IInv, TxFails, FailJob, AfterError, Advance, Clean, requestVars, databaseVars
<1> DEFINE r == running[w]
<1>1. /\ r \in Requests /\ jobState[r] = "active" /\ want[r] \in Tickets
      /\ Clean(r) => available[want[r]] /\ soldOut[want[r]]
                     /\ \A s \in Requests : Claim(s, want[r]) => s = r
  BY UncommittedClaim DEF TypeOK, Steps
<1>2. TypeOK'
  BY <1>1 DEF TypeOK, QueueIInv, QueueTypeOK, Steps
<1>3. HandlerStages' /\ LockHeld' /\ FreshReads' /\ HonestAnswer'
  BY <1>1, HandlerFrame DEF TypeOK, QueueTypeOK, Live
<1>4. FlagGuards'
  BY <1>1 DEF TypeOK, QueueTypeOK, FlagGuards, Claim, Live
<1>5. OneClaim'
  BY <1>1 DEF TypeOK, QueueTypeOK, OneClaim, Claim, Live
<1>6. TxAtomic' /\ SoldOnce'
  BY DEF TxAtomic, SoldOnce
<1>7. CommittedRow'
  BY <1>1 DEF TypeOK, QueueTypeOK, CommittedRow
<1>8. JobOutcome'
  BY <1>1 DEF TypeOK, QueueTypeOK, TxAtomic, JobOutcome
<1> QED
  BY <1>2, <1>3, <1>4, <1>5, <1>6, <1>7, <1>8

\* A run that ends without saying so to the worker's process, or to the queue,
\* after its commit: the ticket is disturbed, the row is there.
LEMMA CommitReplyLostOK ==
    ASSUME NEW w \in Workers, IInv, QueueIInv', CommitReplyLost(w)
    PROVE  IInv'
<1> USE QueueAssumption, SeatingAssumption
    DEF IInv, CommitReplyLost, Commit, FailJob, AfterError, Advance, Clean, requestVars
<1> DEFINE r == running[w]
<1>1. r \in Requests /\ jobState[r] = "active" /\ want[r] \in Tickets
  BY UncommittedClaim DEF TypeOK, Steps
<1>2. TypeOK'
  BY <1>1 DEF TypeOK, QueueIInv, QueueTypeOK, Steps
<1>3. HandlerStages' /\ LockHeld' /\ FreshReads' /\ HonestAnswer'
  BY <1>1, HandlerFrame DEF TypeOK, QueueTypeOK
<1>4. FlagGuards'
  BY <1>1 DEF TypeOK, QueueTypeOK, FlagGuards, Claim
<1>5. OneClaim'
  BY <1>1 DEF TypeOK, QueueTypeOK, OneClaim, Claim
<1>6. TxAtomic'
  BY <1>1 DEF TypeOK, TxAtomic
<1>7. CommittedRow'
  BY <1>1 DEF TypeOK, QueueTypeOK, CommittedRow
<1>8. SoldOnce'
  BY <1>1 DEF TypeOK, SoldOnce
<1>9. JobOutcome'
  BY <1>1 DEF TypeOK, QueueTypeOK, JobOutcome
<1> QED
  BY <1>2, <1>3, <1>4, <1>5, <1>6, <1>7, <1>8, <1>9

\* The end of a committed run: the claim ends with the ticket sold.
LEMMA FinishJobOK ==
    ASSUME NEW w \in Workers, IInv, QueueIInv', FinishJob(w)
    PROVE  IInv'
<1> USE QueueAssumption
    DEF IInv, FinishJob, CompleteJob, Advance, Clean, requestVars, databaseVars
<1> DEFINE r == running[w]
<1>1. r \in Requests /\ jobState[r] = "active" /\ booked[r] > 0
  BY DEF TypeOK, QueueIInv, QueueTypeOK, OneWorkerPerJob, CommittedRow
<1>2. TypeOK'
  BY <1>1 DEF TypeOK, QueueIInv, QueueTypeOK, Steps
<1>3. HandlerStages' /\ LockHeld' /\ FreshReads' /\ HonestAnswer'
  BY <1>1, HandlerFrame DEF TypeOK, QueueTypeOK
<1>4. FlagGuards'
  BY <1>1 DEF TypeOK, QueueTypeOK, FlagGuards, Claim, Live
<1>5. OneClaim'
  <2>1. \A t \in Tickets, s \in Requests : Claim(s, t)' => s # r /\ Claim(s, t)
    BY <1>1 DEF TypeOK, QueueTypeOK, HandlerStages, Claim, Live
  <2>2. \A v \in Workers : running[v] # r => running'[v] = running[v] /\ step'[v] = step[v]
    BY DEF TypeOK, QueueTypeOK
  <2> QED
    BY <2>1, <2>2 DEF OneClaim
<1>6. TxAtomic' /\ SoldOnce'
  BY DEF TxAtomic, SoldOnce
<1>7. CommittedRow'
  BY <1>1 DEF TypeOK, QueueTypeOK, CommittedRow
<1>8. JobOutcome'
  BY <1>1 DEF TypeOK, QueueTypeOK, JobOutcome
<1> QED
  BY <1>2, <1>3, <1>4, <1>5, <1>6, <1>7, <1>8

\* A process that dies before its commit changes nothing but the worker; one
\* that dies after it disturbs the ticket, whose job will run again.
LEMMA CrashWorkerOK ==
    ASSUME NEW w \in Workers, IInv, QueueIInv', CrashWorker(w)
    PROVE  IInv'
<1> USE QueueAssumption
    DEF IInv, CrashWorker, StopWorker, Advance, Clean, requestVars, databaseVars
<1> DEFINE r == running[w]
<1>1. /\ r \in Requests /\ want[r] \in Tickets
      /\ disturbed \subseteq disturbed'
      /\ step[w] = "committed" => want[r] \in disturbed'
  BY DEF TypeOK, QueueIInv, QueueTypeOK
<1>2. TypeOK'
  BY <1>1 DEF TypeOK, QueueIInv, QueueTypeOK, Steps
<1>3. HandlerStages' /\ LockHeld' /\ FreshReads' /\ HonestAnswer'
  BY <1>1, HandlerFrame
<1>4. FlagGuards'
  BY <1>1 DEF FlagGuards, Claim
<1>5. OneClaim'
  BY <1>1 DEF TypeOK, QueueTypeOK, OneClaim, Claim
<1>6. TxAtomic' /\ SoldOnce'
  BY <1>1 DEF TxAtomic, SoldOnce
<1>7. CommittedRow'
  BY <1>1 DEF TypeOK, QueueTypeOK, CommittedRow
<1>8. JobOutcome'
  BY <1>1 DEF JobOutcome
<1> QED
  BY <1>2, <1>3, <1>4, <1>5, <1>6, <1>7, <1>8

\* The queue's own steps: a job that is given up there had no committed run,
\* or its ticket is disturbed.
LEMMA QueueStepInvOK ==
    ASSUME IInv, QueueIInv', QueueStep
    PROVE  IInv'
<1> USE QueueAssumption
    DEF IInv, QueueStep, OpenLimiter, PromoteJob, RecoverStalled, frontVars, Clean,
        requestVars, databaseVars
<1>1. TypeOK'
  BY DEF TypeOK, QueueIInv
<1>2. HandlerStages' /\ LockHeld' /\ FreshReads' /\ HonestAnswer'
  BY HandlerFrame DEF TypeOK, QueueTypeOK
<1>3. FlagGuards'
  BY DEF TypeOK, QueueTypeOK, FlagGuards, Claim, Live
<1>4. OneClaim'
  BY DEF TypeOK, QueueTypeOK, OneClaim, Claim, Live
<1>5. TxAtomic' /\ CommittedRow' /\ SoldOnce'
  BY DEF TxAtomic, CommittedRow, SoldOnce
<1>6. JobOutcome'
  <2>1. \A r \in Requests :
           jobState[r] = "active" /\ (\A w \in Workers : running[w] # r) /\ Clean(r)
           => booked[r] = 0
    BY DEF TypeOK, QueueTypeOK, OneClaim, Claim, Live, TxAtomic
  <2> QED
    BY <2>1 DEF TypeOK, QueueTypeOK, JobOutcome
<1> QED
  BY <1>1, <1>2, <1>3, <1>4, <1>5, <1>6

---------------------------------------------------------------------------
(* The theorems.                                                           *)

\* Every step keeps the invariant.
LEMMA StepOK ==
    ASSUME IInv, [Next]_vars
    PROVE  IInv'
<1>1. QueueIInv'
  BY QueueUnderNext, QueueStepOK DEF IInv
<1>2. ASSUME NEW r \in Requests, Arrive(r) \/ RequestStep(r) \/ CrashRequest(r)
      PROVE  IInv'
  <2>1. CASE Arrive(r) \/ LockFails(r) \/ Unlock(r) \/ UnlockFails(r) \/ CrashRequest(r)
    BY <1>1, <2>1, OutsideOK
  <2>2. CASE AcquireLock(r)
    BY <1>1, <2>2, AcquireLockOK
  <2>3. CASE ReadSoldOut(r) \/ FindTicket(r)
    BY <1>1, <2>3, ReadsOK
  <2>4. CASE MarkSoldOut(r)
    BY <1>1, <2>4, MarkSoldOutOK
  <2>5. CASE Enqueue(r) \/ EnqueueFails(r)
    BY <1>1, <2>5, EnqueueOK
  <2>6. CASE Unmark(r)
    <3>1. want[r] \in Tickets
      BY DEF IInv, TypeOK
    <3> QED
      BY <1>1, <2>6, <3>1, LosingFlagOK DEF Unmark, Answer, queueVars
  <2>7. CASE CallFails(r)
    BY <1>1, <2>7, CallFailsOK
  <2> QED
    BY <1>2, <2>1, <2>2, <2>3, <2>4, <2>5, <2>6, <2>7 DEF RequestStep
<1>3. ASSUME NEW t \in Tickets, LockExpires(t) \/ FlagExpires(t)
      PROVE  IInv'
  <2>1. CASE LockExpires(t)
    BY <1>1, <2>1, LockExpiresOK
  <2>2. CASE FlagExpires(t)
    BY <1>1, <2>2, LosingFlagOK DEF FlagExpires
  <2> QED
    BY <1>3, <2>1, <2>2
<1>4. ASSUME NEW w \in Workers, WorkerStep(w) \/ CrashWorker(w)
      PROVE  IInv'
  BY <1>1, <1>4, UncommittedOK, CommitTxOK, TxFailsOK, CommitReplyLostOK, FinishJobOK,
     CrashWorkerOK DEF WorkerStep
<1>5. ASSUME NEW w \in Workers, NEW r \in Requests, StartJob(w, r)
      PROVE  IInv'
  BY <1>1, <1>5, UncommittedOK
<1>6. CASE QueueStep
  BY <1>1, <1>6, QueueStepInvOK
<1>7. CASE UNCHANGED vars
  BY <1>7
  DEF vars, databaseVars, queueVars, IInv, TypeOK, QueueIInv, QueueTypeOK, OneWorkerPerJob,
      AttemptsAccounted, HandlerStages, LockHeld, FreshReads, FlagGuards, OneClaim, TxAtomic,
      CommittedRow, SoldOnce, JobOutcome, HonestAnswer, Clean, Claim
<1> QED
  BY <1>2, <1>3, <1>4, <1>5, <1>6, <1>7 DEF Next

\* Under handlers, workers and crashes the queue keeps to its own
\* specification: what ReservationQueue shows of jobs holds in the system, too.
THEOREM SeatingUsesQueue == Spec => QueueSpec
<1>1. Init => QueueInit
  BY DEF Init
<1> QED
  BY <1>1, QueueUnderNext, PTL DEF Spec, QueueSpec

\* The invariant holds throughout.
THEOREM Invariant == Spec => []IInv
<1>1. Init => IInv
  BY InitOK
<1>2. IInv /\ [Next]_vars => IInv'
  BY StepOK
<1> QED BY <1>1, <1>2, PTL DEF Spec

\* Type correctness of handlers, stores, queue and workers.
THEOREM TypeCorrect == Spec => []TypeOK
<1>1. IInv => TypeOK
  BY DEF IInv
<1> QED BY <1>1, Invariant, PTL

\* A seat whose ticket is undisturbed is sold once, however many clients want
\* it and however many server processes take jobs (reservations.service.ts,
\* reservation.processor.ts).
THEOREM SeatSoldOnce == Spec => []SoldOnce
<1>1. IInv => SoldOnce
  BY DEF IInv
<1> QED BY <1>1, Invariant, PTL

\* Ticket and reservation rows appear together, mishaps or not
\* (reservation.processor.ts).
THEOREM SaleIsAtomic == Spec => []TxAtomic
<1>1. IInv => TxAtomic
  BY DEF IInv
<1> QED BY <1>1, Invariant, PTL

\* There is one claim at a time on an undisturbed ticket, which is what lets
\* the worker book without looking (tickets.service.ts, queue.service.ts).
THEOREM ClaimsExclude == Spec => []OneClaim
<1>1. IInv => OneClaim
  BY DEF IInv
<1> QED BY <1>1, Invariant, PTL

\* Refused means no job, "reserved" means a job (reservations.service.ts).
THEOREM AnswersAreHonest == Spec => []HonestAnswer
<1>1. IInv => HonestAnswer
  BY DEF IInv
<1> QED BY <1>1, Invariant, PTL

\* A job's final state tells what is in the database (reservation.processor.ts).
THEOREM OutcomesAreTrue == Spec => []JobOutcome
<1>1. IInv => JobOutcome
  BY DEF IInv
<1> QED BY <1>1, Invariant, PTL

\* Of two promises for one seat, one was broken by a failed job: two open
\* jobs would be two claims, and a completed job has sold the ticket, so that
\* no other job can be open or complete.
THEOREM PromisesExclude == Spec => []OnePromise
<1>1. IInv => OnePromise
  <2> SUFFICES ASSUME IInv, NEW r \in Requests, NEW s \in Requests,
                      r # s, want[r] = want[s], want[r] \notin disturbed,
                      resp[r] = "reserved", resp[s] = "reserved"
               PROVE  jobState[r] = "failed" \/ jobState[s] = "failed"
    BY DEF OnePromise
  <2> USE DEF IInv
  <2>1. \A q \in {r, s} : jobState[q] \in Live \cup {"completed", "failed"}
    BY DEF HonestAnswer, TypeOK, QueueTypeOK, Settled
  <2>2. ~(jobState[r] \in Live /\ jobState[s] \in Live)
    BY DEF OneClaim, Claim, TypeOK
  <2>3. ASSUME NEW q \in {r, s}, NEW p \in {r, s}, p # q, jobState[q] = "completed"
        PROVE  jobState[p] \notin Live \cup {"completed"}
    <3>1. booked[q] > 0 /\ want[q] \in Tickets /\ want[p] = want[q]
      BY <2>3 DEF JobOutcome, TypeOK
    <3>2. owner[want[q]] # Nobody /\ ~available[want[q]] /\ booked[owner[want[q]]] > 0
          /\ want[owner[want[q]]] = want[q] /\ owner[want[q]] \in Requests
      BY <3>1 DEF TxAtomic, TypeOK
    <3>3. owner[want[q]] = q
      BY <3>1, <3>2 DEF SoldOnce
    <3>4. jobState[p] \notin Live
      BY <2>3, <3>1, <3>2, <3>3 DEF OneClaim, Claim
    <3>5. jobState[p] # "completed"
      BY <2>3, <3>1 DEF SoldOnce, JobOutcome
    <3> QED
      BY <3>4, <3>5
  <2> QED
    BY <2>1, <2>2, <2>3
<1> QED BY <1>1, Invariant, PTL

\* The buyer of an undisturbed ticket keeps it: only a commit changes the
\* owner, and it finds the ticket unsold (tickets.repository.ts:59).
THEOREM SalesAreFinal == Spec => SaleIsFinal
<1>1. ASSUME IInv, [Next]_vars, NEW t \in Tickets, t \notin disturbed', owner[t] # Nobody
      PROVE  owner'[t] = owner[t]
  <2>1. CASE UNCHANGED owner
    BY <2>1
  <2>2. CASE \E w \in Workers : CommitTx(w)
    <3>1. PICK w \in Workers : CommitTx(w)
      BY <2>2
    <3>2. Clean(running[w]) => available[want[running[w]]]
      BY <1>1, <3>1, UncommittedClaim DEF CommitTx, Steps
    <3>3. ~available[t] /\ t \notin disturbed
      BY <1>1, <3>1 DEF IInv, TxAtomic, CommitTx
    <3> QED
      BY <1>1, <3>1, <3>2, <3>3 DEF IInv, TypeOK, CommitTx, Commit, Clean
  <2>3. CASE \E w \in Workers : CommitReplyLost(w)
    BY <1>1, <2>3 DEF IInv, TypeOK, CommitReplyLost, Commit
  <2>4. UNCHANGED owner \/ \E w \in Workers : CommitTx(w) \/ CommitReplyLost(w)
    BY <1>1 DEF Next, vars, RequestStep, WorkerStep, QueueStep, frontVars, databaseVars, Arrive,
       AcquireLock, LockFails, ReadSoldOut, FindTicket, MarkSoldOut, Enqueue, EnqueueFails, Unmark,
       CallFails, Unlock, UnlockFails, CrashRequest, LockExpires, FlagExpires, StartJob,
       CreateReservation, ReserveTicket, TxFails, FinishJob, CrashWorker
  <2> QED
    BY <2>1, <2>2, <2>3, <2>4
<1>2. IInv /\ [Next]_vars =>
        [\A t \in Tickets :
           t \notin disturbed' /\ owner[t] # Nobody => owner'[t] = owner[t]]_vars
  BY <1>1
<1> QED BY <1>2, Invariant, PTL DEF Spec, SaleIsFinal

---------------------------------------------------------------------------
(* SeatingReservation implements TicketSale.                               *)

\* Nobody is after the ticket.
Unclaimed(t) == \A r \in Requests : ~Claim(r, t)

\* The status of a ticket, without the choice of a claimant: an undisturbed
\* ticket has at most one.
StatusCases ==
    \A t \in Tickets :
       /\ t \in disturbed => Status(t) = Sale!Void
       /\ t \notin disturbed /\ ~available[t] => Status(t) = Sale!SoldTo(owner[t])
       /\ t \notin disturbed /\ available[t] =>
             /\ \A r \in Requests : Claim(r, t) => Status(t) = Sale!HeldFor(r)
             /\ Unclaimed(t) /\ soldOut[t] => Status(t) = Sale!Withheld
             /\ Unclaimed(t) /\ ~soldOut[t] => Status(t) = Sale!OnSale

\* The cases hold wherever the invariant does.
LEMMA StatusByCases == IInv => StatusCases
<1> SUFFICES ASSUME IInv, NEW t \in Tickets
             PROVE  /\ t \in disturbed => Status(t) = Sale!Void
                    /\ t \notin disturbed /\ ~available[t] => Status(t) = Sale!SoldTo(owner[t])
                    /\ t \notin disturbed /\ available[t] =>
                          /\ \A r \in Requests : Claim(r, t) => Status(t) = Sale!HeldFor(r)
                          /\ Unclaimed(t) /\ soldOut[t] => Status(t) = Sale!Withheld
                          /\ Unclaimed(t) /\ ~soldOut[t] => Status(t) = Sale!OnSale
  BY DEF StatusCases
<1> USE DEF Status, Entry, Sale!Entry, Sale!Void, Sale!SoldTo, Sale!HeldFor, Sale!Withheld,
        Sale!OnSale, Unclaimed
<1>1. ASSUME NEW r \in Requests, Claim(r, t), t \notin disturbed
      PROVE  Claimant(t) = r
  <2>1. Claimant(t) \in Requests /\ Claim(Claimant(t), t)
    BY <1>1 DEF Claimant
  <2> QED
    BY <1>1, <2>1 DEF IInv, OneClaim
<1> QED
  BY <1>1

\* What the abstract sale allows a ticket to do in one step.
Allowed(t) ==
    \/ Status(t)' = Status(t)
    \/ Status(t) = Sale!OnSale /\ \E b \in Requests : Status(t)' = Sale!HeldFor(b)
    \/ \E b \in Requests : Status(t) = Sale!HeldFor(b) /\ Status(t)' = Sale!SoldTo(b)
    \/ Status(t) = Sale!OnSale /\ Status(t)' = Sale!Withheld
    \/ (\E b \in Requests : Status(t) = Sale!HeldFor(b)) /\ Status(t)' = Sale!Withheld
    \/ Status(t) = Sale!Withheld /\ Status(t)' = Sale!OnSale
    \/ Status(t)' = Sale!Void

\* One ticket that moves as it may, while the others stay, is a step of the sale.
LEMMA AllowedIsStep ==
    ASSUME NEW t \in Tickets, Allowed(t), \A u \in Tickets \ {t} : Status(u)' = Status(u)
    PROVE  [Sale!SaleNext]_Sale!saleVars
<1> DEFINE sale == [u \in Tickets |-> Status(u)]
<1>1. \A s : Status(t)' = s => sale' = [sale EXCEPT ![t] = s]
  OBVIOUS
<1>2. CASE Status(t)' = Status(t)
  BY <1>2 DEF Sale!saleVars
<1>3. CASE Status(t)' # Status(t)
  BY <1>1, <1>3
  DEF Allowed, Sale!SaleNext, Sale!Hold, Sale!Sell, Sale!Withhold, Sale!Reopen, Sale!Spoil, Sale!Become
<1> QED
  BY <1>2, <1>3

\* A ticket whose rows, disturbance and claims stay, and whose flag stays
\* where it matters, keeps its status.
LEMMA SameStatus ==
    ASSUME StatusCases, StatusCases', TypeOK, NEW t \in Tickets,
           t \in disturbed' <=> t \in disturbed,
           available'[t] = available[t], owner'[t] = owner[t],
           \A r \in Requests : Claim(r, t)' <=> Claim(r, t),
           soldOut'[t] = soldOut[t] \/ ~available[t] \/ ~Unclaimed(t)
    PROVE  Status(t)' = Status(t)
BY DEF StatusCases, Unclaimed, TypeOK

\* A step on one ticket leaves the status of the others.
LEMMA OthersStay ==
    ASSUME StatusCases, StatusCases', TypeOK, UNCHANGED want, NEW t \in Tickets,
           \A u \in Tickets \ {t} :
              /\ u \in disturbed' <=> u \in disturbed
              /\ available'[u] = available[u] /\ owner'[u] = owner[u] /\ soldOut'[u] = soldOut[u],
           \A r \in Requests : want[r] # t =>
              /\ pc'[r] = "enqueue" <=> pc[r] = "enqueue"
              /\ jobState'[r] \in Live <=> jobState[r] \in Live
    PROVE  \A u \in Tickets \ {t} : Status(u)' = Status(u)
<1> SUFFICES ASSUME NEW u \in Tickets \ {t} PROVE Status(u)' = Status(u)
  OBVIOUS
<1>1. \A r \in Requests : Claim(r, u)' <=> Claim(r, u)
  BY DEF Claim
<1> QED
  BY <1>1, SameStatus

---------------------------------------------------------------------------
(* Every step, as a step of the sale.                                      *)

SaleStep == [Sale!SaleNext]_Sale!saleVars

\* Handler steps that open or close no claim and leave the flag.
LEMMA QuietHandlerSale ==
    ASSUME IInv, StatusCases, StatusCases', NEW r \in Requests,
           \/ Arrive(r) \/ AcquireLock(r) \/ LockFails(r) \/ ReadSoldOut(r) \/ FindTicket(r)
           \/ Enqueue(r) \/ Unlock(r) \/ UnlockFails(r)
    PROVE  SaleStep
<1> USE DEF Arrive, AcquireLock, LockFails, ReadSoldOut, FindTicket, Enqueue, AddJob, Unlock,
        UnlockFails, Answer, Goto, databaseVars, queueVars
<1>1. TypeOK /\ want[r] \in Tickets
  BY DEF IInv, TypeOK
<1>2. \A q \in Requests, u \in Tickets : Claim(q, u)' <=> Claim(q, u)
  BY <1>1 DEF TypeOK, QueueTypeOK, Claim, Live
<1>3. \A u \in Tickets : Status(u)' = Status(u)
  BY <1>1, <1>2, SameStatus
<1> QED
  BY <1>1, <1>3, AllowedIsStep DEF Allowed, SaleStep

\* MarkSoldOut holds a ticket that is on sale, or whose guarantee is void.
LEMMA MarkSoldOutSale ==
    ASSUME IInv, IInv', StatusCases, StatusCases', NEW r \in Requests, MarkSoldOut(r)
    PROVE  SaleStep
<1> USE DEF MarkSoldOut, Goto, databaseVars, queueVars
<1> DEFINE t == want[r]
<1>1. TypeOK /\ t \in Tickets
  BY DEF IInv, TypeOK
<1>2. \A u \in Tickets \ {t} : Status(u)' = Status(u)
  BY <1>1, OthersStay DEF TypeOK
<1>3. Allowed(t)
  <2>1. CASE t \in disturbed
    BY <1>1, <2>1 DEF Allowed, StatusCases
  <2>2. CASE t \notin disturbed
    <3>1. available[t] /\ ~soldOut[t] /\ Unclaimed(t)
      BY <2>2 DEF IInv, TypeOK, FreshReads, FlagGuards, Clean, Unclaimed, Claim
    <3>2. Claim(r, t)'
      BY <1>1 DEF Claim, TypeOK
    <3>3. Status(t) = Sale!OnSale /\ Status(t)' = Sale!HeldFor(r)
      BY <1>1, <2>2, <3>1, <3>2 DEF StatusCases
    <3> QED
      BY <3>3 DEF Allowed
  <2> QED
    BY <2>1, <2>2
<1> QED
  BY <1>1, <1>2, <1>3, AllowedIsStep DEF SaleStep

\* Steps at which a handler gives up: its claim, if it had one and its job is
\* not added, leaves the ticket withheld; a flag set in vain withholds it.
LEMMA GivingUpSale ==
    ASSUME IInv, IInv', StatusCases, StatusCases', NEW r \in Requests,
           EnqueueFails(r) \/ CallFails(r) \/ CrashRequest(r)
    PROVE  SaleStep
<1> USE DEF EnqueueFails, AddJob, CallFails, CrashRequest, Answer, Goto, databaseVars, queueVars
<1> DEFINE t == want[r]
<1>1. TypeOK /\ QueueTypeOK /\ t \in Tickets
  BY DEF IInv, TypeOK
<1>2. \A u \in Tickets \ {t} : Status(u)' = Status(u)
  BY <1>1, OthersStay DEF TypeOK, QueueTypeOK
<1>3. Allowed(t)
  <2>1. CASE t \in disturbed
    BY <1>1, <2>1 DEF Allowed, StatusCases
  <2>2. CASE t \notin disturbed /\ ~available[t]
    BY <1>1, <2>2 DEF Allowed, StatusCases
  <2>3. CASE t \notin disturbed /\ available[t]
    <3>1. CASE pc[r] = "enqueue" /\ jobState'[r] = "waiting"
      <4>1. Claim(r, t) /\ Claim(r, t)'
        BY <1>1, <3>1 DEF Claim, Live, TypeOK
      <4> QED
        BY <1>1, <2>3, <4>1 DEF Allowed, StatusCases
    <3>2. CASE pc[r] = "enqueue" /\ jobState'[r] # "waiting"
      <4>1. Claim(r, t) /\ soldOut[t]
        BY <1>1, <2>3, <3>2 DEF Claim, IInv, FlagGuards, Clean
      <4>2. Unclaimed(t)' /\ soldOut'[t]
        <5>1. \A s \in Requests : Claim(s, t)' => Claim(s, t) /\ s # r
          BY <1>1, <3>2 DEF Claim, TypeOK, QueueTypeOK, IInv, HandlerStages, Live
        <5>2. \A s \in Requests : Claim(s, t) => s = r
          BY <1>1, <2>3, <4>1 DEF IInv, OneClaim
        <5> QED
          BY <3>2, <4>1, <5>1, <5>2 DEF Unclaimed
      <4> QED
        BY <1>1, <2>3, <4>1, <4>2 DEF Allowed, StatusCases
    <3>3. CASE pc[r] # "enqueue"
      <4>1. \A s \in Requests : Claim(s, t)' <=> Claim(s, t)
        BY <1>1, <3>3 DEF Claim, TypeOK
      <4>2. CASE soldOut'[t] = soldOut[t] \/ ~Unclaimed(t)
        BY <1>1, <2>3, <4>1, <4>2, SameStatus DEF Allowed
      <4>3. CASE soldOut'[t] # soldOut[t] /\ Unclaimed(t)
        <5>1. soldOut' = [soldOut EXCEPT ![t] = TRUE]
          BY <4>3
        <5>2. soldOut[t] = FALSE /\ soldOut'[t] = TRUE
          BY <1>1, <4>3, <5>1 DEF TypeOK
        <5>3. Unclaimed(t)'
          BY <4>1, <4>3 DEF Unclaimed
        <5> QED
          BY <1>1, <2>3, <4>3, <5>2, <5>3 DEF Allowed, StatusCases
      <4> QED
        BY <4>2, <4>3
    <3> QED
      BY <3>1, <3>2, <3>3
  <2> QED
    BY <2>1, <2>2, <2>3
<1> QED
  BY <1>1, <1>2, <1>3, AllowedIsStep DEF SaleStep

\* Taking the flag down reopens a withheld ticket, or voids the guarantee of
\* a held one.
LEMMA LosingFlagSale ==
    ASSUME IInv, StatusCases, StatusCases', NEW t \in Tickets,
           soldOut' = [soldOut EXCEPT ![t] = FALSE],
           disturbed' = DisturbedByLosingFlag(t),
           UNCHANGED <<want, databaseVars, queueVars>>,
           \/ UNCHANGED pc
           \/ \E r \in Requests : pc[r] = "unmark" /\ Answer(r, "error")
    PROVE  SaleStep
<1> USE DEF Answer, Goto, databaseVars, queueVars
<1>1. TypeOK
  BY DEF IInv
<1>2. /\ disturbed \subseteq disturbed' /\ disturbed' \subseteq disturbed \cup {t}
      /\ t \notin disturbed' => ~available[t] \/ Unclaimed(t)
  BY DEF DisturbedByLosingFlag, Unclaimed
<1>3. \A u \in Tickets \ {t} : Status(u)' = Status(u)
  BY <1>1, <1>2, OthersStay DEF TypeOK
<1>4. \A s \in Requests : Claim(s, t)' <=> Claim(s, t)
  BY <1>1 DEF Claim, TypeOK
<1>5. Allowed(t)
  <2>1. CASE t \in disturbed'
    BY <2>1 DEF Allowed, StatusCases
  <2>2. CASE t \notin disturbed' /\ ~available[t]
    BY <1>2, <2>2 DEF Allowed, StatusCases
  <2>3. CASE t \notin disturbed' /\ available[t]
    <3>1. Unclaimed(t) /\ Unclaimed(t)'
      BY <1>2, <1>4, <2>3 DEF Unclaimed
    <3>2. Status(t)' = Sale!OnSale
      BY <1>1, <2>3, <3>1 DEF StatusCases, TypeOK
    <3>3. Status(t) = Sale!Withheld \/ Status(t) = Sale!OnSale
      BY <1>2, <2>3, <3>1 DEF StatusCases
    <3> QED
      BY <3>2, <3>3 DEF Allowed
  <2> QED
    BY <2>1, <2>2, <2>3
<1> QED
  BY <1>3, <1>5, AllowedIsStep DEF SaleStep

\* A lock that expires voids a guarantee or changes nothing.
LEMMA LockExpiresSale ==
    ASSUME IInv, StatusCases, StatusCases', NEW t \in Tickets, LockExpires(t)
    PROVE  SaleStep
<1> USE DEF LockExpires, databaseVars, queueVars
<1>1. TypeOK
  BY DEF IInv
<1>2. \A u \in Tickets \ {t} : Status(u)' = Status(u)
  BY <1>1, OthersStay
<1>3. Allowed(t)
  <2>1. CASE t \in disturbed'
    BY <2>1 DEF Allowed, StatusCases
  <2>2. CASE t \notin disturbed'
    <3>1. \A r \in Requests : Claim(r, t)' <=> Claim(r, t)
      BY DEF Claim
    <3> QED
      BY <1>1, <2>2, <3>1, SameStatus DEF Allowed
  <2> QED
    BY <2>1, <2>2
<1> QED
  BY <1>2, <1>3, AllowedIsStep DEF SaleStep

\* The worker's steps inside the transaction do not show.
LEMMA QuietWorkerSale ==
    ASSUME IInv, StatusCases, StatusCases', NEW w \in Workers,
           \/ CreateReservation(w) \/ ReserveTicket(w)
           \/ \E r \in Requests : StartJob(w, r)
    PROVE  SaleStep
<1> USE DEF CreateReservation, ReserveTicket, StartJob, TakeJob, requestVars, databaseVars, queueVars
<1>1. TypeOK /\ QueueTypeOK
  BY DEF IInv, TypeOK
<1>2. \A q \in Requests, u \in Tickets : Claim(q, u)' <=> Claim(q, u)
  BY <1>1 DEF QueueTypeOK, Claim, Live
<1>3. \A u \in Tickets : Status(u)' = Status(u)
  BY <1>1, <1>2, SameStatus
<1> QED
  BY <1>3 DEF SaleStep, Sale!saleVars

\* The commit sells the ticket to whom it is held for.
LEMMA CommitSale ==
    ASSUME IInv, StatusCases, StatusCases', NEW w \in Workers, CommitTx(w) \/ CommitReplyLost(w)
    PROVE  SaleStep
<1> USE QueueAssumption
    DEF CommitTx, CommitReplyLost, Commit, FailJob, AfterError, requestVars, queueVars
<1>0. PICK r \in Requests, t \in Tickets : r = running[w] /\ t = want[r]
  BY UncommittedClaim DEF IInv, TypeOK, Steps
<1>1. /\ TypeOK /\ QueueTypeOK /\ r = running[w] /\ t = want[r] /\ jobState[r] = "active"
      /\ t \notin disturbed => available[t]
  BY <1>0, UncommittedClaim DEF IInv, TypeOK, Steps, Clean
<1>2. \A u \in Tickets \ {t} : Status(u)' = Status(u)
  <2>1. \A q \in Requests : q # r => jobState'[q] = jobState[q]
    BY <1>1 DEF QueueTypeOK
  <2> QED
    BY <1>1, <2>1, OthersStay DEF TypeOK
<1>3. Allowed(t)
  <2>1. CASE t \in disturbed'
    BY <1>1, <2>1 DEF Allowed, StatusCases
  <2>2. CASE t \notin disturbed'
    <3>1. CommitTx(w) /\ t \notin disturbed
      BY <1>1, <2>2
    <3>2. Status(t) = Sale!HeldFor(r)
      BY <1>1, <3>1 DEF StatusCases, Claim, Live
    <3>3. Status(t)' = Sale!SoldTo(r)
      BY <1>1, <2>2, <3>1 DEF StatusCases, TypeOK
    <3> QED
      BY <1>1, <3>2, <3>3 DEF Allowed
  <2> QED
    BY <2>1, <2>2
<1> QED
  BY <1>1, <1>2, <1>3, AllowedIsStep DEF SaleStep

\* A claim whose job is given up leaves its ticket withheld: if the ticket is
\* undisturbed, the job was its only claim, and the flag is still up.
LEMMA GivenUpSale ==
    ASSUME IInv, StatusCases, StatusCases', NEW r \in Requests,
           UNCHANGED <<requestVars, databaseVars, disturbed>>,
           jobState[r] = "active", jobState' = [jobState EXCEPT ![r] = "failed"],
           Clean(r) => available[want[r]]
    PROVE  SaleStep
<1> USE DEF requestVars, databaseVars, Clean
<1> DEFINE t == want[r]
<1>1. TypeOK /\ QueueTypeOK /\ t \in Tickets /\ Claim(r, t) /\ pc[r] # "enqueue"
  BY DEF IInv, TypeOK, HandlerStages, Claim, Live
<1>2. \A u \in Tickets \ {t} : Status(u)' = Status(u)
  BY <1>1, OthersStay DEF QueueTypeOK
<1>3. Allowed(t)
  <2>1. CASE t \in disturbed
    BY <1>1, <2>1 DEF Allowed, StatusCases
  <2>2. CASE t \notin disturbed
    <3>1. soldOut[t] /\ \A s \in Requests : Claim(s, t) => s = r
      BY <1>1, <2>2 DEF IInv, FlagGuards, OneClaim
    <3>2. Unclaimed(t)'
      BY <1>1, <3>1 DEF Unclaimed, Claim, QueueTypeOK, Live
    <3> QED
      BY <1>1, <2>2, <3>1, <3>2 DEF Allowed, StatusCases
  <2> QED
    BY <2>1, <2>2
<1> QED
  BY <1>1, <1>2, <1>3, AllowedIsStep DEF SaleStep

\* A job that goes from one live state to another does not show.
LEMMA StillLiveSale ==
    ASSUME IInv, StatusCases, StatusCases', NEW r \in Requests, NEW s \in Live,
           UNCHANGED <<requestVars, databaseVars, disturbed>>,
           jobState[r] \in Live, jobState' = [jobState EXCEPT ![r] = s]
    PROVE  SaleStep
<1>1. TypeOK /\ QueueTypeOK
  BY DEF IInv, TypeOK
<1>2. \A q \in Requests, u \in Tickets : Claim(q, u)' <=> Claim(q, u)
  BY <1>1 DEF QueueTypeOK, Claim, requestVars
<1>3. \A u \in Tickets : Status(u)' = Status(u)
  BY <1>1, <1>2, SameStatus DEF requestVars, databaseVars
<1> QED
  BY <1>3 DEF SaleStep, Sale!saleVars

\* A rolled-back run is tried again or given up.
LEMMA TxFailsSale ==
    ASSUME IInv, StatusCases, StatusCases', NEW w \in Workers, TxFails(w)
    PROVE  SaleStep
<1>1. /\ running[w] \in Requests /\ jobState[running[w]] = "active"
      /\ Clean(running[w]) => available[want[running[w]]]
  BY UncommittedClaim DEF TxFails, Steps
<1>2. CASE jobState' = [jobState EXCEPT ![running[w]] = "delayed"]
  BY <1>1, <1>2, StillLiveSale DEF TxFails, Live
<1>3. CASE jobState' = [jobState EXCEPT ![running[w]] = "failed"]
  BY <1>1, <1>3, GivenUpSale DEF TxFails
<1> QED
  BY <1>2, <1>3 DEF TxFails, FailJob, AfterError

\* Reporting a committed job ends a claim on a ticket that is sold already.
LEMMA FinishJobSale ==
    ASSUME IInv, StatusCases, StatusCases', NEW w \in Workers, FinishJob(w)
    PROVE  SaleStep
<1> USE DEF FinishJob, CompleteJob, requestVars, databaseVars
<1>0. PICK r \in Requests, t \in Tickets : r = running[w] /\ t = want[r]
  BY DEF IInv, TypeOK, QueueTypeOK
<1>1. TypeOK /\ QueueTypeOK /\ r = running[w] /\ t = want[r]
  BY <1>0 DEF IInv, TypeOK
<1>2. ~available[t]
  BY <1>1 DEF IInv, CommittedRow, TxAtomic
<1>3. \A u \in Tickets \ {t} : Status(u)' = Status(u)
  BY <1>1, OthersStay DEF QueueTypeOK
<1>4. Status(t)' = Status(t)
  BY <1>1, <1>2 DEF StatusCases
<1> QED
  BY <1>1, <1>3, <1>4, AllowedIsStep DEF Allowed, SaleStep

\* A worker's death voids a guarantee or changes nothing.
LEMMA CrashWorkerSale ==
    ASSUME IInv, StatusCases, StatusCases', NEW w \in Workers, CrashWorker(w)
    PROVE  SaleStep
<1> USE DEF CrashWorker, StopWorker, requestVars, databaseVars
<1>0. PICK t \in Tickets : t = want[running[w]]
  BY DEF IInv, TypeOK, QueueTypeOK
<1>1. TypeOK /\ t = want[running[w]]
  BY <1>0 DEF IInv
<1>2. \A u \in Tickets \ {t} : Status(u)' = Status(u)
  BY <1>1, OthersStay
<1>3. Allowed(t)
  <2>1. CASE t \in disturbed'
    BY <1>1, <2>1 DEF Allowed, StatusCases
  <2>2. CASE t \notin disturbed'
    <3>1. \A r \in Requests : Claim(r, t)' <=> Claim(r, t)
      BY DEF Claim
    <3> QED
      BY <1>1, <2>2, <3>1, SameStatus DEF Allowed
  <2> QED
    BY <2>1, <2>2
<1> QED
  BY <1>1, <1>2, <1>3, AllowedIsStep DEF SaleStep

\* The queue's own steps: only a job given up after its stalls shows.
LEMMA QueueStepSale ==
    ASSUME IInv, StatusCases, StatusCases', QueueStep
    PROVE  SaleStep
<1> USE DEF QueueStep, frontVars
<1>1. CASE OpenLimiter
  <2>1. TypeOK /\ \A q \in Requests, u \in Tickets : Claim(q, u)' <=> Claim(q, u)
    BY <1>1 DEF IInv, Claim, OpenLimiter, requestVars
  <2>2. \A u \in Tickets : Status(u)' = Status(u)
    BY <2>1, SameStatus DEF requestVars, databaseVars
  <2> QED
    BY <2>2 DEF SaleStep, Sale!saleVars
<1>2. ASSUME NEW r \in Requests, PromoteJob(r)
      PROVE  SaleStep
  BY <1>2, StillLiveSale DEF PromoteJob, Live
<1>3. ASSUME NEW r \in Requests, RecoverStalled(r)
      PROVE  SaleStep
  <2>1. jobState[r] = "active" /\ (Clean(r) => available[want[r]])
    BY <1>3 DEF RecoverStalled, IInv, TypeOK, OneClaim, Claim, Live, Clean
  <2>2. CASE jobState' = [jobState EXCEPT ![r] = "waiting"]
    BY <2>1, <2>2, StillLiveSale DEF Live
  <2>3. CASE jobState' = [jobState EXCEPT ![r] = "failed"]
    BY <2>1, <2>3, GivenUpSale
  <2> QED
    BY <1>3, <2>2, <2>3 DEF RecoverStalled
<1> QED
  BY <1>1, <1>2, <1>3

---------------------------------------------------------------------------
(* The theorem.                                                            *)

\* Every step of the system is a step of the sale of one ticket, or none.
LEMMA StepIsSaleStep ==
    ASSUME IInv, IInv', StatusCases, StatusCases', [Next]_vars
    PROVE  SaleStep
<1>1. ASSUME NEW r \in Requests, Arrive(r) \/ RequestStep(r) \/ CrashRequest(r)
      PROVE  SaleStep
  <2>1. CASE MarkSoldOut(r)
    BY <2>1, MarkSoldOutSale
  <2>2. CASE EnqueueFails(r) \/ CallFails(r) \/ CrashRequest(r)
    BY <2>2, GivingUpSale
  <2>3. CASE Unmark(r)
    <3>1. want[r] \in Tickets
      BY DEF IInv, TypeOK
    <3> QED
      BY <2>3, <3>1, LosingFlagSale DEF Unmark, queueVars
  <2> QED
    BY <1>1, <2>1, <2>2, <2>3, QuietHandlerSale DEF RequestStep
<1>2. ASSUME NEW t \in Tickets, LockExpires(t) \/ FlagExpires(t)
      PROVE  SaleStep
  <2>1. CASE LockExpires(t)
    BY <2>1, LockExpiresSale
  <2>2. CASE FlagExpires(t)
    BY <2>2, LosingFlagSale DEF FlagExpires, queueVars
  <2> QED
    BY <1>2, <2>1, <2>2
<1>3. ASSUME NEW w \in Workers, WorkerStep(w) \/ CrashWorker(w)
      PROVE  SaleStep
  BY <1>3, QuietWorkerSale, CommitSale, TxFailsSale, FinishJobSale, CrashWorkerSale DEF WorkerStep
<1>4. ASSUME NEW w \in Workers, NEW r \in Requests, StartJob(w, r)
      PROVE  SaleStep
  BY <1>4, QuietWorkerSale
<1>5. CASE QueueStep
  BY <1>5, QueueStepSale
<1>6. CASE UNCHANGED vars
  <2>1. TypeOK /\ \A q \in Requests, u \in Tickets : Claim(q, u)' <=> Claim(q, u)
    BY <1>6 DEF IInv, Claim, vars, queueVars
  <2>2. \A u \in Tickets : Status(u)' = Status(u)
    BY <1>6, <2>1, SameStatus DEF vars, databaseVars
  <2> QED
    BY <2>2 DEF SaleStep, Sale!saleVars
<1> QED
  BY <1>1, <1>2, <1>3, <1>4, <1>5, <1>6 DEF Next

\* All tickets are on sale at first.
LEMMA InitIsSaleInit == Init => Sale!SaleInit
<1> SUFFICES ASSUME Init, NEW t \in Tickets PROVE Status(t) = Sale!OnSale
  BY DEF Sale!SaleInit
<1>1. StatusCases
  BY InitOK, StatusByCases
<1>2. Unclaimed(t)
  BY DEF Init, QueueInit, Unclaimed, Claim, Live
<1> QED
  BY <1>1, <1>2 DEF Init, StatusCases

\* Booking seats with lock, flag, queue and transactions implements the sale
\* of tickets one holder at a time (reservations.service.ts,
\* reservation.processor.ts).
THEOREM Refinement == Spec => ImplementsTicketSale
<1>1. Init => Sale!SaleInit
  BY InitIsSaleInit
<1>2. IInv => StatusCases
  BY StatusByCases
<1>3. IInv /\ IInv' /\ StatusCases /\ StatusCases' /\ [Next]_vars
      => [Sale!SaleNext]_Sale!saleVars
  BY StepIsSaleStep DEF SaleStep
<1> QED
  BY <1>1, <1>2, <1>3, Invariant, PTL DEF Spec, ImplementsTicketSale, Sale!SaleSpec
===========================================================================
