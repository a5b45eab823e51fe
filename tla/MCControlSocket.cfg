\* One client of each kind and a viewer.
CONSTANTS
    Clients = {c1}
    Controllers = {p1}
    Viewer = viewer
    Chunks <- MCChunks
    Payloads <- MCPayloads
    Sizes <- MCSizes
    SignalSizes <- MCSignalSizes
    SignalInputs <- MCSignalInputs
    Patterns <- MCPatterns
    Identifiers = {1, 2}
    ByteCapacity = 3
    MaximumFrameLength = 3
    MaxEvents = 3
SPECIFICATION Spec
INVARIANTS
    TypeOK
    RequestFaithful
    AnswersTrue
    PatternsForLife
    PromptVerdict
PROPERTIES
    CallsEnd
    WatcherCatchesUp
CHECK_DEADLOCK FALSE
