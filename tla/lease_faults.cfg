SPECIFICATION FairLeaseSpec
CONSTANTS
    Replica = {r1, r2, r3}
    TTL = 3
    MaxSleep = 2
    MaxWork = 4
    TickMayRaise = TRUE
    NoLease = NoLease
    Gone = Gone
PROPERTIES
    DeadHolderReplaced
