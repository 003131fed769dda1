SPECIFICATION FairSpec
CONSTANTS
    None = None
    Anomaly = {a, b, c}
    Cause = a
    Symptom = b
    Services <- TwoServices
    Loads <- Waves
    PollSets <- PollAll
    Round = {r1}
    MaxSamples = 1
    Persistence = 2
    ResolveAfter = 1
    MaxRecords = 3
    MayAbort = FALSE
    MayClose = FALSE
VIEW NoHistory
PROPERTIES
    RecoveredIsClosed
    LastingIsRecorded
