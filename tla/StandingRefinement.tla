------------------------ MODULE StandingRefinement ------------------------
(***************************************************************************)
(* StandingReservation implements TicketSale, too, although it knows no     *)
(* sold-out flag.  A ticket is held for the holder of the event's lock that *)
(* has picked it, and withheld while that holder has failed and still keeps *)
(* the lock.  It is void once it was picked by a handler whose lock ran out *)
(* under its transaction.                                                  *)
(***************************************************************************)
EXTENDS StandingReservation

PickedLate(t) == \E r \in late : found[r] = t

PickedByHolder(t) == lock # Nobody /\ found[lock] = t

Entry(state, buyer) == [state |-> state, buyer |-> buyer]

Status(t) ==
    IF PickedLate(t) THEN Entry("void", Nobody)
    ELSE IF ~available[t] THEN Entry("sold", owner[t])
    ELSE IF ~PickedByHolder(t) THEN Entry("on sale", Nobody)
    ELSE IF pc[lock] \in {"update", "commit"} THEN Entry("held", lock)
    ELSE Entry("withheld", Nobody)

Sale == INSTANCE TicketSale WITH Buyers <- Requests, sale <- [t \in Tickets |-> Status(t)]

\* Every step of handlers, of Redis and of the clocks is a step of the sale of
\* one ticket, or invisible to it: a standing place that no late handler has
\* picked is held for one buyer at a time and sold to that buyer for good.
StandingImplementsSale == Sale!SaleSpec
===========================================================================
