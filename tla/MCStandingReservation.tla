----------------------- MODULE MCStandingReservation -----------------------
(* StandingReservation on small sets of requests and tickets.              *)
EXTENDS StandingInvariant, StandingRefinement, TLC

CONSTANTS r1, r2, t1, t2

TwoRequests   == {r1, r2}
TwoTickets    == {t1, t2}
InForce       == {5}
ShortAndLong  == {5, 8}
===========================================================================
