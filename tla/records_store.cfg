SPECIFICATION HistorySpec
CONSTANTS
    Anomaly = {a1, a2}
    Domain = {d1}
    Severity = {0, 1}
    Writer = {w1, w2}
    MaxSamples = 2
    MaxRecords = 3
SYMMETRY StoreSymmetry
INVARIANTS
    OneOpenPerKey
    KeyNamesAnomalies
    NeverOvercounted
PROPERTIES
    ImplementsAtomic
    OpenRecordGrows
    OnlyStaleMergeForgets
