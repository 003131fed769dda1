SPECIFICATION Spec
CONSTANTS
    None = None
    Anomaly = {a, b}
    Services <- OneService
    Cause = None
    Symptom = None
    Loads <- AnyLoad
    PollSets <- PollAll
    Round = {r1, r2}
    MaxSamples = 1
    Persistence = 2
    ResolveAfter = 2
    MaxRecords = 1
    MayAbort = TRUE
    MayClose = TRUE
SYMMETRY FunnelSymmetry
INVARIANTS
    PersistenceGate
    LiveNotStale
