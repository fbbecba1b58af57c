----------------------- MODULE MCSeatingReservation -----------------------
(* SeatingReservation on small sets of requests, tickets and processes.    *)
EXTENDS SeatingRefinement, SeatingInvariant, TLC

CONSTANTS r1, r2, w1, w2, t1, t2

TwoRequests   == {r1, r2}
OneWorker     == {w1}
TwoWorkers    == {w1, w2}
OneTicket     == {t1}
TwoTickets    == {t1, t2}

\* Sound for the safety runs only: requests and workers are interchangeable.
Symmetry == Permutations(Requests) \cup Permutations(Workers)
===========================================================================
