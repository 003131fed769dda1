SPECIFICATION Spec
CONSTANTS
    None = None
    Scheduler = {s1}
    Manual = {}
    Event = {e1, e2, e3}
    PageSize = 2
    Interval = 1
    Tolerance = 1
    Faults = {"crash", "store", "source", "snapshot", "funnel", "recover"}
    MaxTime = 3
    MaxRounds = 3
SYMMETRY RoundsSymmetry
CHECK_DEADLOCK FALSE
INVARIANTS
    NoEventSkipped
    AtMostOneRunning
    StatusesAgree
PROPERTIES
    PageMovesOn
