------------------------- MODULE SeatingInvariant -------------------------
(***************************************************************************)
(* The inductive invariant of SeatingReservation: why the lock, the flag    *)
(* and the queue together sell an undisturbed ticket once.                  *)
(***************************************************************************)
EXTENDS SeatingReservation

Clean(r) == want[r] \notin disturbed

\* Whoever is between reading the flag and adding the job holds the lock.
LockHeld == \A r \in Requests : pc[r] \in Critical /\ Clean(r) => lock[want[r]] = r

\* What such a handler has read of the flag and of the ticket is still so.
FreshReads ==
    \A r \in Requests : Clean(r) =>
       /\ pc[r] \in {"db", "mark"} => ~soldOut[want[r]]
       /\ pc[r] = "mark" => available[want[r]]

\* A claim on an unsold ticket is shielded by the flag.
FlagGuards ==
    \A r \in Requests : Clean(r) /\ Claim(r, want[r]) => soldOut[want[r]] \/ ~available[want[r]]

\* A job exists only once its handler has got to the queue, an answer only
\* once the handler is past its last call.
HandlerStages ==
    \A r \in Requests :
       /\ jobState[r] # "absent" => pc[r] \in {"unmark", "unlock", "done", "crashed"}
       /\ resp[r] # "none" => pc[r] \in {"unlock", "done", "crashed"}

\* A worker that has committed has left a row.
CommittedRow == \A w \in Workers : step[w] = "committed" => booked[running[w]] > 0

\* The inductive invariant.  SoldOnce, OneClaim and the rest hold because a
\* claim is only made under the lock, on reads that are still true, and is
\* then shielded by the flag until the ticket is sold.
IInv ==
    /\ TypeOK
    /\ QueueIInv
    /\ HandlerStages
    /\ LockHeld
    /\ FreshReads
    /\ FlagGuards
    /\ OneClaim
    /\ TxAtomic
    /\ CommittedRow
    /\ SoldOnce
    /\ JobOutcome
    /\ HonestAnswer
===========================================================================
