SPECIFICATION FairSpec
CONSTANTS
    r1 = r1
    r2 = r2
    w1 = w1
    w2 = w2
    t1 = t1
    t2 = t2
    NoJob = NoJob
    Nobody = Nobody
    Requests <- TwoRequests
    Workers <- OneWorker
    Tickets <- OneTicket
    Issued <- OneTicket
    MaxAttempts = 1
    MaxStalledCount = 0
CHECK_DEADLOCK FALSE
PROPERTIES AllAnswered ClaimResolves ImplementsTicketSale
