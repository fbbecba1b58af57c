SPECIFICATION Spec
CONSTANTS
    r1 = r1
    r2 = r2
    w1 = w1
    w2 = w2
    t1 = t1
    t2 = t2
    NoJob = NoJob
    Nobody = Nobody
    Requests <- TwoRequests
    Workers <- TwoWorkers
    Tickets <- TwoTickets
    Issued <- OneTicket
    MaxAttempts = 2
    MaxStalledCount = 1
CHECK_DEADLOCK FALSE
SYMMETRY Symmetry
INVARIANTS SoldOnce TxAtomic HonestAnswer JobOutcome OnePromise IInv
PROPERTY SaleIsFinal
