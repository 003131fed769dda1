SPECIFICATION Spec
CONSTANTS
    None = None
    Sig = {e1, e2}
    Trace = {t1, t2}
    Signal <- TwoServices
    MaxSignals = 4
    RuleSets <- FewRules
    Detectors <- UnevenRules
    MinCount = 1
    Window = 1
SYMMETRY PipelineSymmetry
CHECK_DEADLOCK FALSE
INVARIANTS
    IncidentsAreComponents
    EverySignalOnce
    UpgradeHasItsPair
