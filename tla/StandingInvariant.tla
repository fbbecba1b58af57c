------------------------- MODULE StandingInvariant -------------------------
(***************************************************************************)
(* The inductive invariant of StandingReservation.                          *)
(***************************************************************************)
EXTENDS StandingReservation

\* Who is between taking the lock and the end of its transaction holds the
\* lock, unless it ran out.
LockHeld == \A r \in Requests \ late : pc[r] \in Inside => lock = r

\* What a handler sees, or has picked, is not sold to anyone who was on time.
FreshView ==
    \A r \in Requests \ late, s \in rows \ late :
        /\ pc[r] = "find" => found[s] \notin view[r]
        /\ pc[r] \in {"update", "commit"} => found[s] # found[r]

\* A handler picks one ticket at most.
NothingPicked ==
    \A r \in Requests : pc[r] \in {"new", "lock", "begin", "create", "find"} => found[r] = NoTicket

\* A handler with a row has ended its transaction.
RowsAreFinal == \A r \in rows : pc[r] \in {"unlock", "done", "crashed"}

\* While no lock has run out, every buyer still has the ticket it took.
BuyersKeep == late = {} => \A r \in rows : owner[found[r]] = r

\* A lock that covers the transaction's limits has always more time left than
\* they have.
LockCovers ==
    lockTtl > MaxWait + TxTimeout =>
        /\ late = {}
        /\ \A r \in Requests :
              /\ pc[r] = "begin" => lockLeft > left[r] + TxTimeout
              /\ pc[r] \in InTx => lockLeft > left[r]

\* The parts together imply every safety property of StandingReservation, and
\* every step of a handler, of Redis and of the clock preserves them.
StandingIInv ==
    /\ TypeOK /\ AllOrNothing /\ OnTimeApart /\ PromiseKept
    /\ LockHeld /\ FreshView /\ NothingPicked /\ RowsAreFinal /\ BuyersKeep /\ LockCovers
===========================================================================
