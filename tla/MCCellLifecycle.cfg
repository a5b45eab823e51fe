\* One cell, two CloseCell commands at once, and a stranger who may get a pid.
CONSTANTS
    Launches = {l1}
    Closers = {k1, k2}
    Strangers = {s1}
    Pids = {1, 2}
SPECIFICATION Spec
INVARIANTS
    TypeOK
    CloseTruthful
    LaunchedSelectable
PROPERTIES
    CommandsEnd
    CloseEndsCell
CHECK_DEADLOCK FALSE
