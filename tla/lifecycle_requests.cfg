SPECIFICATION Spec
CONSTANTS
    None = None
    Client = {c1, c2, c3}
    Ops <- AllOps
    Faults = {"abort", "lost"}
    MaxCalls = 5
CHECK_DEADLOCK FALSE
SYMMETRY ClientSymmetry
INVARIANTS
    EscalatedHoldsTicket
    ToldIsBounded
PROPERTIES
    TerminalNeverReopens
