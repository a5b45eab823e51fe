\* Clients that may name any lease, as one lease used on two connections does.
CONSTANTS
    Connections = {c1, c2}
    SharedLeases = TRUE
    MaxTyped = 2
    MaxRequests = 3
SPECIFICATION Spec
INVARIANTS
    TypeOK
    KeyboardOrder
    KeyboardConserved
    HeldOnlyWhileClosed
PROPERTY
    RequestsEnd
CHECK_DEADLOCK FALSE
