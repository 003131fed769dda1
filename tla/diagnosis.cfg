SPECIFICATION Spec
CONSTANTS
    Client = {c1, c2}
    Advice = {a1}
    NodeApproval = n1
    GateNames = {n1, n2}
    MaxRuns = 2
    MaxRequests = 3
    Workloads <- SixWorkloads
    None = None
SYMMETRY DiagnosisSymmetry
CHECK_DEADLOCK FALSE
INVARIANTS
    AdviceReachesRerun
    NamedIsBounded
    EscalationIsBacked
    AnswerIsTrue
    GateNotMissed
    PageStopsInTime
