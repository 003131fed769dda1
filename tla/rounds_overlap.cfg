SPECIFICATION Spec
CONSTANTS
    None = None
    Scheduler = {}
    Manual = {m1, m2}
    Event = {e1, e2, e3}
    PageSize = 2
    Interval = 1
    Tolerance = 1
    Faults = {"source"}
    MaxTime = 2
    MaxRounds = 3
SYMMETRY RoundsSymmetry
CHECK_DEADLOCK FALSE
INVARIANTS
    NoEventSkipped
