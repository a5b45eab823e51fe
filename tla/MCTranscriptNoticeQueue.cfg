CONSTANTS
    Capacity = 2
    MaxPushes = 6
SPECIFICATION Spec
INVARIANTS
    TypeOK
    Bounded
    NoLostWakeup
    Accounted
    NewestRun
PROPERTY
    ImplementsLossyFifo
CHECK_DEADLOCK FALSE
