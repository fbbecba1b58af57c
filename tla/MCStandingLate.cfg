SPECIFICATION Spec
CONSTANTS
    r1 = r1
    r2 = r2
    t1 = t1
    t2 = t2
    Nobody = Nobody
    NoTicket = NoTicket
    Requests <- TwoRequests
    Tickets <- TwoTickets
    LockTtls <- InForce
    MaxWait = 2
    TxTimeout = 5
CHECK_DEADLOCK FALSE
INVARIANT ReservationHasTicket
