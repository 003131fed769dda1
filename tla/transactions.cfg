SPECIFICATION FairSpec
CONSTANTS
    None = None
    Creator = {c1, c2}
    Deleter = {d1}
    Home <- OneReplica
    MaxFaults = 1
    PoolSize = 2
    OldImage = m1
    NewImage = m2
    Runner = {m1, m2}
    Scripts <- TwoImages
    Seeds <- ThreeScripts
    Deployed <- EmptyOrFirst
CHECK_DEADLOCK FALSE
INVARIANTS
    LatestIsLargest
    NoCreateCollides
    PoolIsClean
    ScriptsOnce
PROPERTIES
    ReadyMeansMigrated
    EveryRequestEnds
