SPECIFICATION Spec
CONSTANTS
    r1 = r1
    r2 = r2
    r3 = r3
    NoToken = NoToken
    Requests <- ThreeRequests
    MsPerSecond = 2
    ExpirySettings <- Settings
    MaxTime = 7
CHECK_DEADLOCK FALSE
SYMMETRY Symmetry
INVARIANTS HeldWasSaved SavedIsHeld
