------------------------ MODULE MCReservationQueue ------------------------
(* ReservationQueue on three jobs and two server processes.                *)
EXTENDS ReservationQueue

CONSTANTS r1, r2, r3, w1, w2

MCRequests == {r1, r2, r3}
MCWorkers  == {w1, w2}
===========================================================================
