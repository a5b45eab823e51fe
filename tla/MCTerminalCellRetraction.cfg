\* A lifecycle subscription and its retraction.
CONSTANTS
    Callers = {c1}
    Workers = {"ChildExitWatcher"}
    Restarting = {}
    Needles = {1}
    ChunkSizes = {1}
    MailboxCapacity = 1
    BroadcastCapacity = 1
    ByteCapacity = 1
    MaxChunks = 1
    MaxStarts = 1
SPECIFICATION Spec
PROPERTY
    RetractionEndsStream
CHECK_DEADLOCK FALSE
