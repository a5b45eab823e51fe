\* Output, waits and subscriptions of two callers over a full scrollback, of a
\* session which may stop at any time.
CONSTANTS
    Callers = {c1, c2}
    Workers = {"ChildExitWatcher"}
    Restarting = {}
    Needles = {0, 2, 3}
    ChunkSizes = {1, 2}
    MailboxCapacity = 2
    BroadcastCapacity = 1
    ByteCapacity = 2
    MaxChunks = 2
    MaxStarts = 1
SPECIFICATION Spec
INVARIANTS
    TypeOK
    ScrollbackWindow
    NoWaiterForgotten
    WaitingCallersListed
    SubscriptionContiguous
PROPERTIES
    RequestsHandled
    SubscribersServed
CHECK_DEADLOCK FALSE
