-------------------------- MODULE JointInvariant --------------------------
(* The inductive invariant behind the properties of JointSales.             *)
EXTENDS JointSales

\* A handler in its critical part whose lock has not run out still holds it.
LockHeld ==
    \A r \in Requests : pc[r] \in Critical /\ r \notin lapsed => Holder(r) = r

\* How far a request is, and what its transaction may hold.
Progress ==
    /\ \A r \in Requests : pc[r] \in {"lock", "flag", "ticket", "mark"} => tx[r] = "none"
    /\ \A r \in Seats :
          /\ pc[r] # "sale"
          /\ pc[r] = "enqueue" => tx[r] = "none"
          /\ tx[r] # "none" => found[r] = key[r]
    /\ \A r \in Stands :
          /\ pc[r] \in {"lock", "sale", "unlock", "done"}
          /\ Pending(r) => pc[r] = "sale"
          /\ tx[r] # "queued"
          /\ \A t \in view[r] : EventOf[t] = key[r]
          /\ found[r] # NoTicket => EventOf[found[r]] = key[r]
          /\ tx[r] = "none" => found[r] = NoTicket /\ view[r] = {}
    /\ \A r \in Requests : tx[r] \in {"wrote", "committed"} => found[r] \in Tickets

\* A sold ticket has a buyer who booked it, and a booked ticket is sold.
SoldToBuyer ==
    /\ \A t \in Tickets :
          ~available[t] => owner[t] \in Booked /\ found[owner[t]] = t
    /\ \A r \in Booked : ~available[found[r]]

\* The flag of a ticket on sale is up as long as a claim needs it.
FlagUp ==
    \A t \in Tickets : available[t] /\ Claimed(t) /\ t \notin exposed => soldOut[t]

\* What a request has seen sold, its transaction does not take.
Avoids(r, t) ==
    IF r \in Seats
    THEN pc[r] \in {"mark", "enqueue"} \/ tx[r] # "none" => key[r] # t
    ELSE t \notin view[r] /\ (tx[r] # "none" => found[r] # t)

SeenIsAvoided ==
    \A r \in Requests : before[r] \subseteq Booked /\ \A s \in before[r] : Avoids(r, found[s])

\* Past its checks, a seat request goes on to sell, or has sold.
Past(r) == pc[r] \in {"mark", "enqueue"} \/ Pending(r) \/ tx[r] = "committed"

\* Two requests that one lock server keeps apart.
Rivals(r, s) ==
    r # s /\ key[r] = key[s] /\ Server(r) = Server(s) /\ {r, s} \cap lapsed = {}

SeatsApart ==
    \A r, s \in Seats : Rivals(r, s) /\ key[r] \notin exposed /\ Past(s) =>
        ~Past(r) /\ (pc[r] = "ticket" => ~available[key[r]])

StandsApart ==
    \A r, s \in Stands : Rivals(r, s) /\ s \in Booked =>
        /\ pc[r] = "sale" => Avoids(r, found[s])
        /\ r \in Booked => found[r] # found[s]

\* The inductive invariant: who holds which lock, how far each transaction
\* is, and what the flag, the lock and the database each rule out.
JointIInv ==
    /\ TypeOK
    /\ LockHeld
    /\ Progress
    /\ SoldToBuyer
    /\ FlagUp
    /\ SeenIsAvoided
    /\ SeatsApart
    /\ StandsApart
===========================================================================
