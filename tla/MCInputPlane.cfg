\* Clients that use only the leases granted to them.
CONSTANTS
    Connections = {c1, c2}
    SharedLeases = FALSE
    MaxTyped = 2
    MaxRequests = 5
SPECIFICATION Spec
SYMMETRY Symmetry
INVARIANTS
    LeaseExclusion
    InjectionUnderLease
    NoOrphanLease
CHECK_DEADLOCK FALSE
