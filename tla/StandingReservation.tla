----------------------- MODULE StandingReservation ------------------------
(***************************************************************************)
(* Booking a standing place of one event (createStanding in                 *)
(* reservations.service.ts).  The handler takes the Redis lock of the event *)
(* and, in one interactive transaction, creates a reservation, finds any    *)
(* ticket of the event that is available, and takes it, without looking     *)
(* again.  Only the lock keeps two handlers from finding the same ticket.   *)
(*                                                                         *)
(* Three clocks run meanwhile: the lock's TTL, Prisma's limit on waiting    *)
(* for a connection (maxWait) and its limit on a transaction (timeout),     *)
(* both left at their defaults.  One unit of Tick is one second.            *)
(***************************************************************************)
EXTENDS Integers

CONSTANTS Requests, Tickets,  \* the requests for one event, and its tickets
          Nobody,             \* the owner of a free lock, of an unsold ticket
          NoTicket,           \* what has been found before anything is found
          LockTtls,           \* TTLs to look at; @MurLock(5 * SECONDS, ...)
          MaxWait,            \* Prisma's default maxWait
          TxTimeout           \* Prisma's default timeout

ASSUME StandingAssumption ==
    /\ Nobody \notin Requests /\ NoTicket \notin Tickets
    /\ LockTtls \subseteq Nat /\ MaxWait \in Nat /\ TxTimeout \in Nat

VARIABLES lockTtl,    \* the TTL in force
          pc,         \* where each request's handler is
          resp,       \* what it answers, or is about to answer
          lock,       \* Redis: who holds the event's lock
          lockLeft,   \* for how long it is still held
          left,       \* for how long each handler may still wait, or work
          view,       \* the tickets each transaction sees as available
          found,      \* the ticket each transaction has picked
          available,  \* MySQL: Ticket.isAvailable
          owner,      \* MySQL: whose reservation Ticket.reservation is
          rows,       \* MySQL: the requests that have a Reservation row
          late        \* the requests whose lock ran out under their transaction

txVars       == <<view, found>>
databaseVars == <<available, owner, rows>>
clockVars    == <<lockTtl, lockLeft, left>>
vars == <<pc, resp, lock, clockVars, txVars, databaseVars, late>>

(* "begin" waits for a connection; "create" to "commit" are inside the      *)
(* transaction, before the call they name.                                  *)
InTx   == {"create", "find", "update", "commit"}
Inside == {"begin"} \cup InTx
PCs    == {"new", "lock", "unlock", "done", "crashed"} \cup Inside

TypeOK ==
    /\ pc \in [Requests -> PCs]
    /\ resp \in [Requests -> {"none", "reserved", "error"}]
    /\ lock \in Requests \cup {Nobody}
    /\ lockTtl \in LockTtls
    /\ lockLeft \in 0 .. lockTtl
    /\ left \in [Requests -> Nat]
    /\ view \in [Requests -> SUBSET Tickets]
    /\ found \in [Requests -> Tickets \cup {NoTicket}]
    /\ \A r \in Requests : pc[r] \in {"update", "commit"} => found[r] # NoTicket
    /\ available \in [Tickets -> BOOLEAN]
    /\ owner \in [Tickets -> Requests \cup {Nobody}]
    /\ rows \subseteq Requests
    /\ late \subseteq Requests

Init ==
    /\ lockTtl \in LockTtls
    /\ pc = [r \in Requests |-> "new"]
    /\ resp = [r \in Requests |-> "none"]
    /\ lock = Nobody
    /\ lockLeft = 0
    /\ left = [r \in Requests |-> 0]
    /\ view = [r \in Requests |-> {}]
    /\ found = [r \in Requests |-> NoTicket]
    /\ available = [t \in Tickets |-> TRUE]
    /\ owner = [t \in Tickets |-> Nobody]
    /\ rows = {}
    /\ late = {}

---------------------------------------------------------------------------
(* The handler.                                                            *)

Goto(r, l) == pc' = [pc EXCEPT ![r] = l]

\* The handler's body is over, with an answer; the lock is freed next.
Answer(r, a) == Goto(r, "unlock") /\ resp' = [resp EXCEPT ![r] = a]

Arrive(r) ==
    /\ pc[r] = "new"
    /\ Goto(r, "lock")
    /\ UNCHANGED <<resp, lock, clockVars, txVars, databaseVars, late>>

Mut_AcquireLock_Free(r) ==
    /\ pc[r] = "lock"
    /\ lock' = r
    /\ lockLeft' = lockTtl
    /\ left' = [left EXCEPT ![r] = MaxWait]
    /\ Goto(r, "begin")
    /\ UNCHANGED <<lockTtl, resp, txVars, databaseVars, late>>

\* @MurLock(5 * SECONDS, 'createStandingDto.eventId'), then $transaction.
AcquireLock(r) ==
    /\ pc[r] = "lock"
    /\ lock = Nobody
    /\ lock' = r
    /\ lockLeft' = lockTtl
    /\ left' = [left EXCEPT ![r] = MaxWait]
    /\ Goto(r, "begin")
    /\ UNCHANGED <<lockTtl, resp, txVars, databaseVars, late>>

LockFails(r) ==
    /\ pc[r] = "lock"
    /\ Goto(r, "done")
    /\ resp' = [resp EXCEPT ![r] = "error"]
    /\ UNCHANGED <<lock, clockVars, txVars, databaseVars, late>>

Mut_BeginTx_NoTimeout(r) ==
    /\ pc[r] = "begin"
    /\ left' = [left EXCEPT ![r] = lockTtl + TxTimeout]
    /\ Goto(r, "create")
    /\ UNCHANGED <<lockTtl, resp, lock, lockLeft, txVars, databaseVars, late>>

\* A connection is there, and the transaction's own limit begins to run.
BeginTx(r) ==
    /\ pc[r] = "begin"
    /\ left' = [left EXCEPT ![r] = TxTimeout]
    /\ Goto(r, "create")
    /\ UNCHANGED <<lockTtl, resp, lock, lockLeft, txVars, databaseVars, late>>

\* createStandingReservationTX.  Prisma reads the new row back, which fixes
\* what the transaction sees from now on (repeatable read).
CreateReservation(r) ==
    /\ pc[r] = "create"
    /\ view' = [view EXCEPT ![r] = {t \in Tickets : available[t]}]
    /\ Goto(r, "find")
    /\ UNCHANGED <<resp, lock, clockVars, found, databaseVars, late>>

\* findStandingTicketTX: some available ticket, or TicketNotFoundError and
\* a rollback.  (TicketNotAvailableError cannot occur: the query asks for
\* available tickets.)
FindTicket(r) ==
    /\ pc[r] = "find"
    /\ \/ \E t \in view[r] :
             /\ found' = [found EXCEPT ![r] = t]
             /\ Goto(r, "update")
             /\ UNCHANGED resp
       \/ view[r] = {} /\ Answer(r, "error") /\ UNCHANGED found
    /\ UNCHANGED <<lock, clockVars, view, databaseVars, late>>

\* reserveStandingTicketTX: an update by the ticket's id, whatever the ticket
\* holds by now.  It waits while another transaction has the row's lock.
ReserveTicket(r) ==
    /\ pc[r] = "update"
    /\ \A s \in Requests : pc[s] = "commit" => found[s] # found[r]
    /\ Goto(r, "commit")
    /\ UNCHANGED <<resp, lock, clockVars, txVars, databaseVars, late>>

Mut_Commit_TicketOnly(r) ==
    /\ available' = [available EXCEPT ![found[r]] = FALSE]
    /\ owner' = [owner EXCEPT ![found[r]] = r]
    /\ UNCHANGED rows

\* Both writes take effect together.
Commit(r) ==
    /\ available' = [available EXCEPT ![found[r]] = FALSE]
    /\ owner' = [owner EXCEPT ![found[r]] = r]
    /\ rows' = rows \cup {r}

\* The commit succeeds, or its reply is lost.
CommitTx(r) ==
    /\ pc[r] = "commit"
    /\ Commit(r)
    /\ Answer(r, "reserved") \/ Answer(r, "error")
    /\ UNCHANGED <<lock, clockVars, txVars, late>>

Mut_TxFails_Swallowed(r) ==
    /\ pc[r] \in Inside
    /\ Answer(r, "reserved")
    /\ UNCHANGED <<lock, clockVars, txVars, databaseVars, late>>

\* No connection in time, a failed statement, the transaction's time-out:
\* nothing remains.
TxFails(r) ==
    /\ pc[r] \in Inside
    /\ Answer(r, "error")
    /\ UNCHANGED <<lock, clockVars, txVars, databaseVars, late>>

\* The decorator frees the lock if it is still its own, and fails if not.
Unlock(r) ==
    /\ pc[r] = "unlock"
    /\ Goto(r, "done")
    /\ IF lock = r
       THEN lock' = Nobody /\ lockLeft' = 0 /\ UNCHANGED resp
       ELSE resp' = [resp EXCEPT ![r] = "error"] /\ UNCHANGED <<lock, lockLeft>>
    /\ UNCHANGED <<lockTtl, left, txVars, databaseVars, late>>

UnlockFails(r) ==
    /\ pc[r] = "unlock"
    /\ Goto(r, "done")
    /\ resp' = [resp EXCEPT ![r] = "error"]
    /\ UNCHANGED <<lock, clockVars, txVars, databaseVars, late>>

\* The process dies; MySQL rolls its open transaction back.
CrashRequest(r) ==
    /\ pc[r] \notin {"new", "done", "crashed"}
    /\ Goto(r, "crashed")
    /\ UNCHANGED <<resp, lock, clockVars, txVars, databaseVars, late>>

---------------------------------------------------------------------------
(* The clocks.                                                             *)

\* The lock's TTL is over.
LockExpires ==
    /\ lock # Nobody
    /\ lockLeft = 0
    /\ lock' = Nobody
    /\ late' = IF pc[lock] \in Inside THEN late \cup {lock} ELSE late
    /\ UNCHANGED <<pc, resp, clockVars, txVars, databaseVars>>

\* A second passes: not past the TTL, nor past a limit of Prisma's, at which
\* it gives up.  (Time matters only while the lock is held or a handler is
\* inside.)
Tick ==
    /\ lock # Nobody => lockLeft > 0
    /\ \A r \in Requests : pc[r] \in Inside => left[r] > 0
    /\ lock # Nobody \/ \E r \in Requests : pc[r] \in Inside
    /\ lockLeft' = IF lockLeft > 0 THEN lockLeft - 1 ELSE 0
    /\ left' = [r \in Requests |-> IF left[r] > 0 THEN left[r] - 1 ELSE 0]
    /\ UNCHANGED <<lockTtl, pc, resp, lock, txVars, databaseVars, late>>

RequestStep(r) ==
    \/ AcquireLock(r) \/ LockFails(r)
    \/ BeginTx(r) \/ CreateReservation(r) \/ FindTicket(r) \/ ReserveTicket(r)
    \/ CommitTx(r) \/ TxFails(r)
    \/ Unlock(r) \/ UnlockFails(r)

Next ==
    \/ \E r \in Requests : Arrive(r) \/ RequestStep(r) \/ CrashRequest(r)
    \/ LockExpires
    \/ Tick

Spec == Init /\ [][Next]_vars

---------------------------------------------------------------------------
(* Properties.                                                             *)

\* A reservation row and the sale of its ticket appear together or not at
\* all, and no sold ticket is on sale, however a transaction ends (the
\* $transaction of createStanding), late or not.
AllOrNothing ==
    /\ \A t \in Tickets : available[t] <=> owner[t] = Nobody
    /\ \A t \in Tickets : owner[t] # Nobody => owner[t] \in rows /\ found[owner[t]] = t
    /\ \A r \in rows : found[r] \in Tickets /\ ~available[found[r]]

\* Of two handlers that booked the same ticket, the lock of one ran out under
\* its transaction: a transaction that looks for a ticket and takes it without
\* another look is safe for as long as the event's lock lasts, and each double
\* sale costs an expired lock.
OnTimeApart ==
    \A r, s \in rows \ late : r # s => found[r] # found[s]

\* A client who was told "reserved" has a reservation; and it owns a ticket,
\* as long as no lock has run out.
PromiseKept ==
    \A r \in Requests : resp[r] = "reserved" =>
        r \in rows /\ (late = {} => owner[found[r]] = r)

\* A lock that outlives both of Prisma's limits never runs out under a
\* transaction.  (It must be longer than their sum, not as long.)
NeverLate == lockTtl > MaxWait + TxTimeout => late = {}

\* What the comment on the transaction says (reservations.service.ts:70): it
\* is used "to create reservation and ticket atomically", so that each
\* reservation has its ticket.  The lock of 5 s does not cover the 2 s + 5 s
\* the transaction may take, and a second buyer takes over the same ticket.
ReservationHasTicket == \A r \in rows : \E t \in Tickets : owner[t] = r
===========================================================================
