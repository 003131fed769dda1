SPECIFICATION Spec
CONSTANTS
    None = None
    Client = {c1, c2}
    Domain = {app, db}
    SeedDomain = app
    SeedConfig = yaml
    Config = {v1, v2}
    Target = {t1, t2}
    Anomaly = {a, b}
    Cause = a
    Symptom = b
    ServiceOf <- TwoServices
    MinSamples = 2
    Threshold = 6000
    MaxEntries = 2
    MaxCalls = 4
    Workloads <- FourWorkloads
SYMMETRY ConfigurationSymmetry
CHECK_DEADLOCK FALSE
INVARIANTS
    RoundReadsCurrent
    NoVerdictLost
    GateReachesRound
