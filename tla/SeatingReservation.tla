------------------------ MODULE SeatingReservation ------------------------
(***************************************************************************)
(* Booking a numbered seat, from the HTTP handler to the database row.      *)
(*                                                                         *)
(* A request takes the Redis lock of its ticket (MurLock), looks at the     *)
(* ticket's sold-out flag in the cache, then at the ticket in MySQL, sets   *)
(* the flag, puts a job on the 'reservation' queue, and frees the lock      *)
(* (ReservationsService.createSeating).  A worker of some server process    *)
(* takes the job and, in one transaction, creates the reservation and       *)
(* marks the ticket as taken (ReservationConsumer.process).  The worker     *)
(* checks nothing: lock, flag and queue together are what keeps a seat from *)
(* being sold twice.                                                       *)
(*                                                                         *)
(* Every await of the handler is a step of its own, so that requests,       *)
(* workers, time-outs and crashes interleave there.  Time is not modelled:  *)
(* a TTL may run out at any moment.  A ticket to which one of the mishaps    *)
(* happens that the code has no defence against is remembered in disturbed; *)
(* what is promised about a ticket is promised until then.                  *)
(***************************************************************************)
EXTENDS ReservationQueue

CONSTANTS Tickets,   \* the ticket ids that requests name
          Issued,    \* those that exist in the database
          Nobody     \* the owner of a free lock, the buyer of an unsold ticket

ASSUME SeatingAssumption == Issued \subseteq Tickets /\ Nobody \notin Requests

VARIABLES want,       \* the ticketId in each request's body
          pc,         \* where each request's handler is
          resp,       \* what it answers, or is about to answer
          lock,       \* Redis: who holds each ticket's lock
          soldOut,    \* Redis: each ticket's sold-out flag
          available,  \* MySQL: Ticket.isAvailable (of the issued tickets)
          owner,      \* MySQL: whose reservation Ticket.reservation is
          booked,     \* MySQL: how many Reservation rows each request has
          step,       \* where each worker is in process()
          disturbed   \* the tickets an undefended mishap has happened to

requestVars  == <<want, pc, resp, lock, soldOut>>
databaseVars == <<available, owner, booked>>
vars == <<want, pc, resp, lock, soldOut, available, owner, booked, step,
          disturbed, queueVars>>

(* Where a handler is: before the call named; "unlock" is the finally of    *)
(* the lock decorator, "crashed" a request whose process died.              *)
PCs == {"new", "lock", "cache", "db", "mark", "enqueue", "unmark", "unlock",
        "done", "crashed"}
Answers == {"none", "refused", "reserved", "error"}
Steps == {"idle", "reservation", "ticket", "commit", "committed"}

TypeOK ==
    /\ QueueTypeOK
    /\ want \in [Requests -> Tickets]
    /\ pc \in [Requests -> PCs]
    /\ resp \in [Requests -> Answers]
    /\ lock \in [Tickets -> Requests \cup {Nobody}]
    /\ soldOut \in [Tickets -> BOOLEAN]
    /\ available \in [Tickets -> BOOLEAN]
    /\ owner \in [Tickets -> Requests \cup {Nobody}]
    /\ booked \in [Requests -> Nat]
    /\ step \in [Workers -> Steps]
    /\ \A w \in Workers : step[w] = "idle" <=> running[w] = NoJob
    /\ disturbed \subseteq Tickets

Init ==
    /\ QueueInit
    /\ want \in [Requests -> Tickets]
    /\ pc = [r \in Requests |-> "new"]
    /\ resp = [r \in Requests |-> "none"]
    /\ lock = [t \in Tickets |-> Nobody]
    /\ soldOut = [t \in Tickets |-> FALSE]
    /\ available = [t \in Tickets |-> TRUE]
    /\ owner = [t \in Tickets |-> Nobody]
    /\ booked = [r \in Requests |-> 0]
    /\ step = [w \in Workers |-> "idle"]
    /\ disturbed = {}

---------------------------------------------------------------------------
(* What the two guards of a ticket, the lock and the flag, have to cover.   *)

\* Between reading the flag and putting the job on the queue.
Critical == {"cache", "db", "mark", "enqueue"}

\* r is about to put, or has, a job that will sell ticket t.
Claim(r, t) == want[r] = t /\ (pc[r] = "enqueue" \/ jobState[r] \in Live)

\* The ticket is disturbed if the flag goes while a claim still needs it.
DisturbedByLosingFlag(t) ==
    IF available[t] /\ \E r \in Requests : Claim(r, t)
    THEN disturbed \cup {t} ELSE disturbed

---------------------------------------------------------------------------
(* The handler of POST /reservations/seating.                              *)

Goto(r, l) == pc' = [pc EXCEPT ![r] = l]

\* Leave findTicketByTicketId or the queue with an answer; unlock comes next.
Answer(r, a) == Goto(r, "unlock") /\ resp' = [resp EXCEPT ![r] = a]

Arrive(r) ==
    /\ pc[r] = "new"
    /\ Goto(r, "lock")
    /\ UNCHANGED <<want, resp, lock, soldOut, databaseVars, step, disturbed, queueVars>>

\* @MurLock(5 * SECONDS, 'createSeatingDto.ticketId')
AcquireLock(r) ==
    /\ pc[r] = "lock"
    /\ lock[want[r]] = Nobody
    /\ lock' = [lock EXCEPT ![want[r]] = r]
    /\ Goto(r, "cache")
    /\ UNCHANGED <<want, resp, soldOut, databaseVars, step, disturbed, queueVars>>

\* The lock's attempts are used up, or Redis fails: the handler is not entered.
LockFails(r) ==
    /\ pc[r] = "lock"
    /\ Goto(r, "done")
    /\ resp' = [resp EXCEPT ![r] = "error"]
    /\ UNCHANGED <<want, lock, soldOut, databaseVars, step, disturbed, queueVars>>

Mut_ReadSoldOut_Ignored(r) ==
    /\ pc[r] = "cache"
    /\ Goto(r, "db")
    /\ UNCHANGED <<want, resp, lock, soldOut, databaseVars, step, disturbed, queueVars>>

\* cacheService.getTicketSoldOut
ReadSoldOut(r) ==
    /\ pc[r] = "cache"
    /\ IF soldOut[want[r]]
       THEN Answer(r, "refused")
       ELSE Goto(r, "db") /\ UNCHANGED resp
    /\ UNCHANGED <<want, lock, soldOut, databaseVars, step, disturbed, queueVars>>

Mut_FindTicket_Unchecked(r) ==
    /\ pc[r] = "db"
    /\ IF want[r] \in Issued
       THEN Goto(r, "mark") /\ UNCHANGED resp
       ELSE Answer(r, "refused")
    /\ UNCHANGED <<want, lock, soldOut, databaseVars, step, disturbed, queueVars>>

\* ticketsRepository.findTicketByTicketId: not found, not available, or go on.
FindTicket(r) ==
    /\ pc[r] = "db"
    /\ IF want[r] \in Issued /\ available[want[r]]
       THEN Goto(r, "mark") /\ UNCHANGED resp
       ELSE Answer(r, "refused")
    /\ UNCHANGED <<want, lock, soldOut, databaseVars, step, disturbed, queueVars>>

Mut_MarkSoldOut_Forgotten(r) ==
    /\ pc[r] = "mark"
    /\ Goto(r, "enqueue")
    /\ UNCHANGED <<want, resp, lock, soldOut, databaseVars, step, disturbed, queueVars>>

\* cacheService.setTicketSoldOut
MarkSoldOut(r) ==
    /\ pc[r] = "mark"
    /\ soldOut' = [soldOut EXCEPT ![want[r]] = TRUE]
    /\ Goto(r, "enqueue")
    /\ UNCHANGED <<want, resp, lock, databaseVars, step, disturbed, queueVars>>

Mut_Enqueue_Unawaited(r) ==
    /\ pc[r] = "enqueue"
    /\ AddJob(r) \/ UNCHANGED queueVars
    /\ Answer(r, "reserved")
    /\ UNCHANGED <<want, lock, soldOut, databaseVars, step, disturbed>>

\* queueService.addReservationJob
Enqueue(r) ==
    /\ pc[r] = "enqueue"
    /\ AddJob(r)
    /\ Answer(r, "reserved")
    /\ UNCHANGED <<want, lock, soldOut, databaseVars, step, disturbed>>

\* queue.add rejects.  The job may be on the queue all the same: the command
\* was carried out and its reply was lost.
EnqueueFails(r) ==
    /\ pc[r] = "enqueue"
    /\ AddJob(r) \/ UNCHANGED queueVars
    /\ Goto(r, "unmark")
    /\ UNCHANGED <<want, resp, lock, soldOut, databaseVars, step, disturbed>>

\* The catch of addReservationJob: deleteTicketSoldOut, then FailedToAddQueue.
Unmark(r) ==
    /\ pc[r] = "unmark"
    /\ soldOut' = [soldOut EXCEPT ![want[r]] = FALSE]
    /\ disturbed' = DisturbedByLosingFlag(want[r])
    /\ Answer(r, "error")
    /\ UNCHANGED <<want, lock, databaseVars, step, queueVars>>

Mut_CallFails_Retried(r) ==
    /\ pc[r] \in {"cache", "db", "mark", "unmark"}
    /\ Goto(r, "cache")
    /\ UNCHANGED <<want, resp, lock, soldOut, databaseVars, step, disturbed, queueVars>>

\* A call to Redis or MySQL fails and the error leaves the handler.  A failed
\* set of the flag may have set it; a failed delete that did delete it is
\* Unmark, which answers the same.
CallFails(r) ==
    /\ pc[r] \in {"cache", "db", "mark", "unmark"}
    /\ \/ UNCHANGED soldOut
       \/ pc[r] = "mark" /\ soldOut' = [soldOut EXCEPT ![want[r]] = TRUE]
    /\ Answer(r, "error")
    /\ UNCHANGED <<want, lock, databaseVars, step, disturbed, queueVars>>

\* The decorator frees the lock if it is still its own, and fails if not.
Unlock(r) ==
    /\ pc[r] = "unlock"
    /\ Goto(r, "done")
    /\ IF lock[want[r]] = r
       THEN lock' = [lock EXCEPT ![want[r]] = Nobody] /\ UNCHANGED resp
       ELSE resp' = [resp EXCEPT ![r] = "error"] /\ UNCHANGED lock
    /\ UNCHANGED <<want, soldOut, databaseVars, step, disturbed, queueVars>>

\* Redis fails while the lock is freed: the answer is lost to an error.
UnlockFails(r) ==
    /\ pc[r] = "unlock"
    /\ Goto(r, "done")
    /\ resp' = [resp EXCEPT ![r] = "error"]
    /\ UNCHANGED <<want, lock, soldOut, databaseVars, step, disturbed, queueVars>>

\* The process dies under the handler: no answer, and the lock stays.
CrashRequest(r) ==
    /\ pc[r] \notin {"new", "done", "crashed"}
    /\ Goto(r, "crashed")
    /\ UNCHANGED <<want, resp, lock, soldOut, databaseVars, step, disturbed, queueVars>>

\* The lock's 5 seconds are over.
LockExpires(t) ==
    /\ lock[t] # Nobody
    /\ lock' = [lock EXCEPT ![t] = Nobody]
    /\ disturbed' = IF pc[lock[t]] \in Critical THEN disturbed \cup {t} ELSE disturbed
    /\ UNCHANGED <<want, pc, resp, soldOut, databaseVars, step, queueVars>>

Mut_FlagExpires_NoTtl(t) ==
    /\ soldOut[t] /\ ~soldOut[t]
    /\ soldOut' = [soldOut EXCEPT ![t] = FALSE]
    /\ UNCHANGED <<want, pc, resp, lock, disturbed, databaseVars, step, queueVars>>

\* The flag's 24 hours are over.
FlagExpires(t) ==
    /\ soldOut[t]
    /\ soldOut' = [soldOut EXCEPT ![t] = FALSE]
    /\ disturbed' = DisturbedByLosingFlag(t)
    /\ UNCHANGED <<want, pc, resp, lock, databaseVars, step, queueVars>>

---------------------------------------------------------------------------
(* The worker: ReservationConsumer.process.                                *)

Advance(w, s) == step' = [step EXCEPT ![w] = s]

\* The worker takes a job and opens the transaction.
StartJob(w, r) ==
    /\ TakeJob(w, r)
    /\ Advance(w, "reservation")
    /\ UNCHANGED <<requestVars, databaseVars, disturbed>>

Mut_CreateReservation_NoTx(w) ==
    /\ step[w] = "reservation"
    /\ Advance(w, "ticket")
    /\ booked' = [booked EXCEPT ![running[w]] = @ + 1]
    /\ UNCHANGED <<requestVars, available, owner, disturbed, queueVars>>

\* createSeatingReservationTX: the row exists in the transaction only.
CreateReservation(w) ==
    /\ step[w] = "reservation"
    /\ Advance(w, "ticket")
    /\ UNCHANGED <<requestVars, databaseVars, disturbed, queueVars>>

\* reserveSeatingTicketTX: an update of the ticket, whatever it holds.
ReserveTicket(w) ==
    /\ step[w] = "ticket"
    /\ Advance(w, "commit")
    /\ UNCHANGED <<requestVars, databaseVars, disturbed, queueVars>>

\* The transaction's two writes take effect together.
Commit(r) ==
    /\ booked' = [booked EXCEPT ![r] = @ + 1]
    /\ available' = [available EXCEPT ![want[r]] = FALSE]
    /\ owner' = [owner EXCEPT ![want[r]] = r]

Mut_CommitTx_StillAvailable(w) ==
    /\ step[w] = "commit"
    /\ booked' = [booked EXCEPT ![running[w]] = @ + 1]
    /\ owner' = [owner EXCEPT ![want[running[w]]] = running[w]]
    /\ Advance(w, "committed")
    /\ UNCHANGED <<requestVars, available, disturbed, queueVars>>

CommitTx(w) ==
    /\ step[w] = "commit"
    /\ Commit(running[w])
    /\ Advance(w, "committed")
    /\ UNCHANGED <<requestVars, disturbed, queueVars>>

\* A statement or the commit fails, or the transaction times out: rollback,
\* and process() throws.
TxFails(w) ==
    /\ step[w] \in {"reservation", "ticket", "commit"}
    /\ FailJob(w)
    /\ Advance(w, "idle")
    /\ UNCHANGED <<requestVars, databaseVars, disturbed>>

\* The commit took effect but its reply was lost: process() throws.
CommitReplyLost(w) ==
    /\ step[w] = "commit"
    /\ Commit(running[w])
    /\ FailJob(w)
    /\ Advance(w, "idle")
    /\ disturbed' = disturbed \cup {want[running[w]]}
    /\ UNCHANGED requestVars

Mut_FinishJob_Unawaited(w) ==
    /\ step[w] \in {"commit", "committed"}
    /\ CompleteJob(w)
    /\ Advance(w, "idle")
    /\ UNCHANGED <<requestVars, databaseVars, disturbed>>

\* process() returns.
FinishJob(w) ==
    /\ step[w] = "committed"
    /\ CompleteJob(w)
    /\ Advance(w, "idle")
    /\ UNCHANGED <<requestVars, databaseVars, disturbed>>

\* The process dies, or cannot tell Redis how its job ended: an open
\* transaction is rolled back, the job stays active.
CrashWorker(w) ==
    /\ StopWorker(w)
    /\ Advance(w, "idle")
    /\ disturbed' = IF step[w] = "committed" THEN disturbed \cup {want[running[w]]}
                                             ELSE disturbed
    /\ UNCHANGED <<requestVars, databaseVars>>

frontVars == <<requestVars, databaseVars, step, disturbed>>

---------------------------------------------------------------------------
RequestStep(r) ==
    \/ AcquireLock(r) \/ LockFails(r) \/ ReadSoldOut(r) \/ FindTicket(r)
    \/ MarkSoldOut(r) \/ Enqueue(r) \/ EnqueueFails(r) \/ Unmark(r)
    \/ CallFails(r) \/ Unlock(r) \/ UnlockFails(r)

\* What ends a worker's step in process(), one way or another.
WorkerStep(w) ==
    \/ CreateReservation(w) \/ ReserveTicket(w) \/ CommitTx(w) \/ TxFails(w)
    \/ CommitReplyLost(w) \/ FinishJob(w)

QueueStep ==
    /\ OpenLimiter \/ \E r \in Requests : PromoteJob(r) \/ RecoverStalled(r)
    /\ UNCHANGED frontVars

Next ==
    \/ \E r \in Requests : Arrive(r) \/ RequestStep(r) \/ CrashRequest(r)
    \/ \E t \in Tickets : LockExpires(t) \/ FlagExpires(t)
    \/ \E w \in Workers : WorkerStep(w) \/ CrashWorker(w)
    \/ \E w \in Workers, r \in Requests : StartJob(w, r)
    \/ QueueStep

Spec == Init /\ [][Next]_vars

\* A handler that was entered goes on (every call in it returns or fails),
\* Redis expires keys, and the queue and the workers are served as in
\* ReservationQueue.  No request has to arrive and no process has to die.
Fairness ==
    /\ \A r \in Requests :
          /\ WF_vars(RequestStep(r))
          /\ WF_vars(PromoteJob(r) /\ UNCHANGED frontVars)
          /\ WF_vars(RecoverStalled(r) /\ UNCHANGED frontVars)
          /\ SF_vars(\E w \in Workers : StartJob(w, r))
    /\ WF_vars(OpenLimiter /\ UNCHANGED frontVars)
    /\ \A w \in Workers : WF_vars(WorkerStep(w))
    /\ \A t \in Tickets : WF_vars(LockExpires(t)) /\ WF_vars(FlagExpires(t))

FairSpec == Spec /\ Fairness

---------------------------------------------------------------------------
(* Properties.                                                             *)

\* A seat is sold once: of all the jobs that were ever added for an
\* undisturbed ticket, at most one has made a reservation, and made it once,
\* although the worker books without looking (reservation.processor.ts).
SoldOnce ==
    \A r, s \in Requests :
       want[r] = want[s] /\ want[r] \notin disturbed /\ booked[r] > 0 /\ booked[s] > 0
       => r = s /\ booked[r] = 1

\* The transaction is atomic, mishaps or not: a ticket is unavailable, names
\* a reservation, and has reservation rows, all or none of these, and the
\* reservation it names is one of the rows.
TxAtomic ==
    \A t \in Tickets :
       /\ available[t] <=> owner[t] = Nobody
       /\ owner[t] = Nobody => \A r \in Requests : want[r] = t => booked[r] = 0
       /\ owner[t] # Nobody => want[owner[t]] = t /\ booked[owner[t]] > 0

\* At most one job, or handler about to add one, is after an undisturbed
\* ticket, and none is once the ticket is sold except the job that sold it
\* and has yet to report it.
OneClaim ==
    \A t \in Tickets \ disturbed : \A r \in Requests : Claim(r, t) =>
       /\ \A s \in Requests : Claim(s, t) => s = r
       /\ ~available[t] =>
             owner[t] = r /\ \E w \in Workers : running[w] = r /\ step[w] = "committed"

\* Two clients are told "reserved" for the same undisturbed seat only if the
\* first one's job has failed for good; a third only if the second's has.
OnePromise ==
    \A r, s \in Requests :
       /\ r # s /\ want[r] = want[s] /\ want[r] \notin disturbed
       /\ resp[r] = "reserved" /\ resp[s] = "reserved"
       => jobState[r] = "failed" \/ jobState[s] = "failed"

\* The answer and the queue agree: who was refused has no job, who was told
\* "reserved" has one.
HonestAnswer ==
    \A r \in Requests :
       /\ resp[r] = "refused"  => jobState[r] = "absent"
       /\ resp[r] = "reserved" => jobState[r] # "absent"

\* What the queue reports is what is in the database: a completed job has its
\* reservation row, a failed job of an undisturbed ticket left no trace.
JobOutcome ==
    \A r \in Requests :
       /\ jobState[r] = "completed" => booked[r] > 0
       /\ jobState[r] = "failed" /\ want[r] \notin disturbed => booked[r] = 0

\* A sold seat is never taken from its buyer while the ticket is undisturbed.
SaleIsFinal ==
    [][\A t \in Tickets :
          t \notin disturbed' /\ owner[t] # Nobody => owner'[t] = owner[t]]_vars

\* Every handler that is entered answers or dies with its process.
AllAnswered ==
    \A r \in Requests : pc[r] = "lock" ~> pc[r] \in {"done", "crashed"}

\* A claim never hangs: the seat is sold, or it is on sale again, with no
\* claim and no sold-out flag left over from a handler or job that failed.
ClaimResolves ==
    \A t \in Tickets : (\E r \in Requests : Claim(r, t)) ~>
       \/ ~available[t]
       \/ ~soldOut[t] /\ \A r \in Requests : ~Claim(r, t)
===========================================================================
