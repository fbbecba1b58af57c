SPECIFICATION Spec
CONSTANTS
    q1 = q1
    q2 = q2
    j1 = j1
    a1 = a1
    a2 = a2
    Nowhere = Nowhere
    Requests <- TwoRequests
    Jobs <- OneJob
    Servers <- TwoServers
    Asked <- TwoCases
    Environments <- Both
    MaxTries = 2
CHECK_DEADLOCK FALSE
INVARIANTS
    PipelineIInv
    ChangedWithCredentials
    AnswerTellsEffect
    LostForCause
PROPERTIES
    EveryRequestEnds
    FailedJobReported
    FailureReported
