SPECIFICATION LeaseSpec
CONSTANTS
    Replica = {r1, r2, r3}
    TTL = 10
    MaxSleep = 3
    MaxWork = 6
    TickMayRaise = FALSE
    NoLease = NoLease
    Gone = Gone
SYMMETRY ReplicaSymmetry
PROPERTIES
    HolderStable
    ImplementsExclusive
