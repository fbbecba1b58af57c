SPECIFICATION Spec
CONSTANTS
    s1 = s1
    s2 = s2
    a1 = a1
    a2 = a2
    d1 = d1
    d2 = d2
    e1 = e1
    e2 = e2
    SignUps <- TheSignUps
    Applies <- TheApplies
    Decisions <- TheDecisions
    Emails <- TheEmails
    Body = "object"
CHECK_DEADLOCK FALSE
SYMMETRY Symmetry
INVARIANTS RefusedForCause
