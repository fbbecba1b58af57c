SPECIFICATION Spec
CONSTANTS
    q1 = q1
    q2 = q2
    q3 = q3
    t1 = t1
    e1 = e1
    app1 = app1
    app3 = app3
    redisLock = redisLock
    redisCache = redisCache
    Nobody = Nobody
    NoTicket = NoTicket
    Requests <- ThreeRequests
    Tickets <- OneTicket
    Events <- OneEvent
    Apps <- TwoApps
    LockServers <- TwoServers
    EventOf <- AllInOneEvent
    LockUrl <- ComposeFile
SYMMETRY Symmetry
CHECK_DEADLOCK FALSE
INVARIANTS
    SharedForCause
    OverlapOnly
    OwnerBooked
    JointIInv
