---------------------------- MODULE JointSales ----------------------------
(***************************************************************************)
(* Seats and standing places sold side by side, by several server           *)
(* processes.  POST /reservations/seating names a ticket and an event that  *)
(* is not looked at; POST /reservations/standing names any event and is     *)
(* given any ticket of it that is available.  Both end in a transaction     *)
(* that updates the ticket by its id whatever it holds.  What is to keep    *)
(* two of them apart is a lock in the Redis of LOCK_URL, a flag in the      *)
(* Redis of CACHE_URL, and the ticket's isAvailable in MySQL.               *)
(*                                                                         *)
(* The lock's Redis is a setting of each process: in docker-compose.yml     *)
(* app-1 and app-2 lock in redis_lock, app-3 and app-4 in redis_cache,      *)
(* while nginx hands requests to all four in turn.  A handler that dies, or *)
(* does not get the lock, is one that takes no further step.  Attempts and  *)
(* TTLs are those of ReservationQueue and StandingReservation, not counted   *)
(* here.                                                                   *)
(***************************************************************************)
CONSTANTS Requests,           \* POSTs to seating or standing, by what they name
          Tickets, Events,    \* the tickets and events in the database
          Apps, LockServers,  \* the server processes, the Redis servers for locks
          Nobody, NoTicket,   \* a free lock or ticket, no ticket chosen
          EventOf,            \* Ticket.eventId
          LockUrl             \* LOCK_URL of each process

Keys == Tickets \cup Events

ASSUME JointAssumption ==
    /\ Tickets \cap Events = {} /\ Nobody \notin Requests /\ NoTicket \notin Tickets
    /\ EventOf \in [Tickets -> Events] /\ LockUrl \in [Apps -> LockServers]

VARIABLES key,        \* what each request's body names: a ticket, or an event
          app,        \* the process nginx gave each request to
          pc,         \* where each handler is
          lock,       \* Redis: who holds which key, on each server
          soldOut,    \* Redis: the sold-out flags
          tx,         \* the transaction each request leads to
          view,       \* the tickets a standing request's transaction sees
          found,      \* the ticket each transaction takes
          available,  \* MySQL: Ticket.isAvailable
          owner,      \* MySQL: whose reservation Ticket.reservation is
          lapsed,     \* the requests whose lock ran out while they needed it
          exposed,    \* the tickets whose flag went while a sale needed it
          before      \* the requests that had booked when each one looked

requestVars  == <<key, app, pc>>
txVars       == <<tx, view, found>>
databaseVars == <<available, owner>>
history      == <<lapsed, exposed, before>>
vars == <<requestVars, lock, soldOut, txVars, databaseVars, history>>

PCs == {"lock", "flag", "ticket", "mark", "enqueue", "unmark",
        "sale", "unlock", "done"}
TxStates == {"none", "queued", "open", "wrote", "committed", "failed"}

\* A request for a seat names a ticket, one for a standing place an event.
Seats  == {r \in Requests : key[r] \in Tickets}
Stands == Requests \ Seats

\* The part of a handler its lock is there for.
Critical == {"flag", "ticket", "mark", "enqueue", "sale"}

\* The transaction has not ended, and may yet commit.
Pending(r) == tx[r] \in {"queued", "open", "wrote"}

Booked == {r \in Requests : tx[r] = "committed"}

TypeOK ==
    /\ key \in [Requests -> Keys]
    /\ app \in [Requests -> Apps]
    /\ pc \in [Requests -> PCs]
    /\ lock \in [LockServers -> [Keys -> Requests \cup {Nobody}]]
    /\ soldOut \in [Tickets -> BOOLEAN]
    /\ tx \in [Requests -> TxStates]
    /\ view \in [Requests -> SUBSET Tickets]
    /\ found \in [Requests -> Tickets \cup {NoTicket}]
    /\ available \in [Tickets -> BOOLEAN]
    /\ owner \in [Tickets -> Requests \cup {Nobody}]
    /\ lapsed \subseteq Requests
    /\ exposed \subseteq Tickets
    /\ before \in [Requests -> SUBSET Requests]

Init ==
    /\ key \in [Requests -> Keys]
    /\ app \in [Requests -> Apps]
    /\ pc = [r \in Requests |-> "lock"]
    /\ lock = [s \in LockServers |-> [k \in Keys |-> Nobody]]
    /\ soldOut = [t \in Tickets |-> FALSE]
    /\ tx = [r \in Requests |-> "none"]
    /\ view = [r \in Requests |-> {}]
    /\ found = [r \in Requests |-> NoTicket]
    /\ available = [t \in Tickets |-> TRUE]
    /\ owner = [t \in Tickets |-> Nobody]
    /\ lapsed = {}
    /\ exposed = {}
    /\ before = [r \in Requests |-> {}]

---------------------------------------------------------------------------
(* The lock around both handlers.                                          *)

Goto(r, l) == pc' = [pc EXCEPT ![r] = l]

\* The Redis that r's process takes its locks in.
Server(r) == LockUrl[app[r]]

Holder(r) == lock[Server(r)][key[r]]
SetLock(r, h) == lock' = [lock EXCEPT ![Server(r)][key[r]] = h]

Mut_AcquireLock_NoWait(r) ==
    /\ pc[r] = "lock"
    /\ SetLock(r, r)
    /\ Goto(r, IF r \in Seats THEN "flag" ELSE "sale")
    /\ UNCHANGED <<key, app, soldOut, txVars, databaseVars, history>>

\* @MurLock(5 * SECONDS, 'createSeatingDto.ticketId' / 'createStandingDto.eventId')
AcquireLock(r) ==
    /\ pc[r] = "lock"
    /\ Holder(r) = Nobody
    /\ SetLock(r, r)
    /\ Goto(r, IF r \in Seats THEN "flag" ELSE "sale")
    /\ UNCHANGED <<key, app, soldOut, txVars, databaseVars, history>>

\* The decorator frees the lock if it is still its own.
Unlock(r) ==
    /\ pc[r] = "unlock"
    /\ Goto(r, "done")
    /\ IF Holder(r) = r THEN SetLock(r, Nobody) ELSE UNCHANGED lock
    /\ UNCHANGED <<key, app, soldOut, txVars, databaseVars, history>>

\* The lock's TTL is over.
LockExpires(r) ==
    /\ Holder(r) = r
    /\ SetLock(r, Nobody)
    /\ lapsed' = IF pc[r] \in Critical THEN lapsed \cup {r} ELSE lapsed
    /\ UNCHANGED <<requestVars, soldOut, txVars, databaseVars, exposed, before>>

---------------------------------------------------------------------------
(* createSeating: the flag, the ticket, the flag again, the queue.          *)

\* Someone is about to sell, or is selling, seat t.
Claimed(t) ==
    \E r \in Seats : key[r] = t /\ (pc[r] = "enqueue" \/ Pending(r))

Mut_ReadFlag_Ignored(r) ==
    /\ pc[r] = "flag"
    /\ Goto(r, "ticket")
    /\ UNCHANGED <<key, app, lock, soldOut, txVars, databaseVars, history>>

ReadFlag(r) ==
    /\ pc[r] = "flag"
    /\ Goto(r, IF soldOut[key[r]] THEN "unlock" ELSE "ticket")
    /\ UNCHANGED <<key, app, lock, soldOut, txVars, databaseVars, history>>

Mut_ReadTicket_Unchecked(r) ==
    /\ pc[r] = "ticket"
    /\ Goto(r, "mark")
    /\ before' = [before EXCEPT ![r] = Booked]
    /\ UNCHANGED <<key, app, lock, soldOut, txVars, databaseVars, lapsed, exposed>>

ReadTicket(r) ==
    /\ pc[r] = "ticket"
    /\ Goto(r, IF available[key[r]] THEN "mark" ELSE "unlock")
    /\ before' = [before EXCEPT ![r] = Booked]
    /\ UNCHANGED <<key, app, lock, soldOut, txVars, databaseVars, lapsed, exposed>>

Mark(r) ==
    /\ pc[r] = "mark"
    /\ Goto(r, "enqueue")
    /\ soldOut' = [soldOut EXCEPT ![key[r]] = TRUE]
    /\ UNCHANGED <<key, app, lock, txVars, databaseVars, history>>

\* A call to Redis or MySQL fails and the error leaves the handler.
CallFails(r) ==
    /\ pc[r] \in {"flag", "ticket", "mark", "unmark"}
    /\ Goto(r, "unlock")
    /\ UNCHANGED <<key, app, lock, soldOut, txVars, databaseVars, history>>

\* addReservationJob
AddJob(r) ==
    /\ tx' = [tx EXCEPT ![r] = "queued"]
    /\ found' = [found EXCEPT ![r] = key[r]]
    /\ UNCHANGED view

Enqueue(r) ==
    /\ pc[r] = "enqueue"
    /\ Goto(r, "unlock")
    /\ AddJob(r)
    /\ UNCHANGED <<key, app, lock, soldOut, databaseVars, history>>

\* queue.add rejects, the job added or not.
EnqueueFails(r) ==
    /\ pc[r] = "enqueue"
    /\ Goto(r, "unmark")
    /\ AddJob(r) \/ UNCHANGED txVars
    /\ UNCHANGED <<key, app, lock, soldOut, databaseVars, history>>

\* The flag is no more, by deleteTicketSoldOut or by its TTL.
LoseFlag(t) ==
    /\ soldOut' = [soldOut EXCEPT ![t] = FALSE]
    /\ exposed' = IF available[t] /\ Claimed(t) THEN exposed \cup {t} ELSE exposed

Unmark(r) ==
    /\ pc[r] = "unmark"
    /\ Goto(r, "unlock")
    /\ LoseFlag(key[r])
    /\ UNCHANGED <<key, app, lock, txVars, databaseVars, lapsed, before>>

FlagExpires(t) ==
    /\ soldOut[t]
    /\ LoseFlag(t)
    /\ UNCHANGED <<requestVars, lock, txVars, databaseVars, lapsed, before>>

\* A worker takes the job, for the first time or again.
StartJob(r) ==
    /\ tx[r] = "queued"
    /\ tx' = [tx EXCEPT ![r] = "open"]
    /\ UNCHANGED <<requestVars, lock, soldOut, view, found, databaseVars, history>>

---------------------------------------------------------------------------
(* createStanding: the transaction's snapshot and its choice.               *)

Mut_Snapshot_AnyTicket(r) ==
    /\ pc[r] = "sale" /\ tx[r] = "none"
    /\ tx' = [tx EXCEPT ![r] = "open"]
    /\ view' = [view EXCEPT ![r] = {t \in Tickets : EventOf[t] = key[r]}]
    /\ before' = [before EXCEPT ![r] = Booked]
    /\ UNCHANGED <<requestVars, lock, soldOut, found, databaseVars, lapsed, exposed>>

\* createStandingReservationTX fixes what the transaction sees.
Snapshot(r) ==
    /\ pc[r] = "sale" /\ tx[r] = "none"
    /\ tx' = [tx EXCEPT ![r] = "open"]
    /\ view' = [view EXCEPT ![r] = {t \in Tickets : EventOf[t] = key[r] /\ available[t]}]
    /\ before' = [before EXCEPT ![r] = Booked]
    /\ UNCHANGED <<requestVars, lock, soldOut, found, databaseVars, lapsed, exposed>>

\* findStandingTicketTX, or TicketNotFoundError.
FindStanding(r) ==
    /\ pc[r] = "sale" /\ tx[r] = "open" /\ found[r] = NoTicket
    /\ view' = [view EXCEPT ![r] = {}]
    /\ \/ /\ \E t \in view[r] : found' = [found EXCEPT ![r] = t]
          /\ UNCHANGED <<pc, tx>>
       \/ /\ view[r] = {}
          /\ tx' = [tx EXCEPT ![r] = "failed"]
          /\ Goto(r, "unlock")
          /\ UNCHANGED found
    /\ UNCHANGED <<key, app, lock, soldOut, databaseVars, history>>

---------------------------------------------------------------------------
(* The end of both transactions.                                           *)

\* A standing request's handler is waiting for its transaction.
HandlerGoesOn(r) == IF r \in Stands THEN Goto(r, "unlock") ELSE UNCHANGED pc

\* reserveSeatingTicketTX, reserveStandingTicketTX: an update by id, which
\* waits for the row's lock.
TakeTicket(r) ==
    /\ tx[r] = "open" /\ found[r] # NoTicket
    /\ \A s \in Requests : tx[s] = "wrote" => found[s] # found[r]
    /\ tx' = [tx EXCEPT ![r] = "wrote"]
    /\ UNCHANGED <<requestVars, lock, soldOut, view, found, databaseVars, history>>

Mut_Commit_StillAvailable(r) ==
    /\ tx[r] = "wrote"
    /\ tx' = [tx EXCEPT ![r] = "committed"]
    /\ owner' = [owner EXCEPT ![found[r]] = r]
    /\ HandlerGoesOn(r)
    /\ UNCHANGED <<key, app, lock, soldOut, view, found, available, history>>

Commit(r) ==
    /\ tx[r] = "wrote"
    /\ tx' = [tx EXCEPT ![r] = "committed"]
    /\ available' = [available EXCEPT ![found[r]] = FALSE]
    /\ owner' = [owner EXCEPT ![found[r]] = r]
    /\ HandlerGoesOn(r)
    /\ UNCHANGED <<key, app, lock, soldOut, view, found, history>>

\* Rolled back.  A job may be tried again.
TxFails(r) ==
    /\ tx[r] \in {"open", "wrote"}
    /\ \/ tx' = [tx EXCEPT ![r] = "failed"]
       \/ r \in Seats /\ tx' = [tx EXCEPT ![r] = "queued"]
    /\ view' = [view EXCEPT ![r] = {}]
    /\ HandlerGoesOn(r)
    /\ UNCHANGED <<key, app, lock, soldOut, found, databaseVars, history>>

---------------------------------------------------------------------------
Next ==
    \/ \E r \in Requests :
          \/ AcquireLock(r) \/ Unlock(r) \/ LockExpires(r)
          \/ TakeTicket(r) \/ Commit(r) \/ TxFails(r)
    \/ \E r \in Seats :
          \/ ReadFlag(r) \/ ReadTicket(r) \/ Mark(r) \/ CallFails(r)
          \/ Enqueue(r) \/ EnqueueFails(r) \/ Unmark(r) \/ StartJob(r)
    \/ \E r \in Stands : Snapshot(r) \/ FindStanding(r)
    \/ \E t \in Tickets : FlagExpires(t)

Spec == Init /\ [][Next]_vars

---------------------------------------------------------------------------
(* Properties.                                                             *)

\* Two reservations of one ticket.
Share(r, s) == r # s /\ {r, s} \subseteq Booked /\ found[r] = found[s]

\* Two buyers share a ticket only for one of these reasons: a standing request
\* met a seat request, whose lock and flag it does not look at; their processes
\* lock in different Redis servers; a lock ran out under one of the two; or the
\* ticket's flag went while a seat was being sold.  Within one lock server, and
\* without mishap, each of the two handlers excludes its own kind.
SharedForCause ==
    \A r, s \in Requests : Share(r, s) =>
        \/ r \in Seats <=> s \in Stands
        \/ Server(r) # Server(s)
        \/ {r, s} \cap lapsed # {}
        \/ r \in Seats /\ found[r] \in exposed

\* Whatever locks do, a request that looked at the database after another one
\* had booked never takes the same ticket: to share one, each has to look
\* before the other commits.  The last line of defence, isAvailable, is
\* written with the reservation and never taken back.
OverlapOnly ==
    \A r, s \in Requests : Share(r, s) => s \notin before[r] /\ r \notin before[s]

\* The ticket belongs to one of those who booked it, and nobody who booked
\* a ticket finds it in other hands unless that buyer shared it: no sale is
\* undone by anything but a second sale.
OwnerBooked ==
    \A r \in Booked :
        /\ ~available[found[r]]
        /\ owner[found[r]] = r \/ Share(r, owner[found[r]])

\* What the README says (README.md:59): the distributed lock controls the
\* concurrency of bookings, so that a seat is sold once as long as no lock runs
\* out and no flag is lost.  It is not, between two processes that lock in
\* different Redis servers.
LockSellsOnce ==
    \A r, s \in Seats : Share(r, s) => lapsed # {} \/ exposed # {}
===========================================================================
