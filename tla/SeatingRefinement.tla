------------------------ MODULE SeatingRefinement -------------------------
(***************************************************************************)
(* SeatingReservation implements TicketSale: where a ticket stands in the   *)
(* sale is read off the database, the queue, the handlers and the flag, in  *)
(* this order.  A ticket is void once it is disturbed.                      *)
(***************************************************************************)
EXTENDS SeatingReservation

Claimant(t) == CHOOSE r \in Requests : Claim(r, t)

Entry(state, buyer) == [state |-> state, buyer |-> buyer]

Status(t) ==
    IF t \in disturbed THEN Entry("void", Nobody)
    ELSE IF ~available[t] THEN Entry("sold", owner[t])
    ELSE IF \E r \in Requests : Claim(r, t) THEN Entry("held", Claimant(t))
    ELSE Entry(IF soldOut[t] THEN "withheld" ELSE "on sale", Nobody)

Sale == INSTANCE TicketSale WITH Buyers <- Requests, sale <- [t \in Tickets |-> Status(t)]

\* Every step of handlers, workers, queue, clocks and crashes is a step of the
\* sale of one ticket, or invisible to it.
ImplementsTicketSale == Sale!SaleSpec
===========================================================================
