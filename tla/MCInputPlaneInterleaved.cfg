\* One lease used on two connections at the same time.
CONSTANTS
    Connections = {c1, c2}
    SharedLeases = TRUE
    MaxTyped = 1
    MaxRequests = 4
SPECIFICATION Spec
INVARIANT
    InjectionNotInterleaved
CHECK_DEADLOCK FALSE
