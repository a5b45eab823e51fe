\* A Signal client that registers patterns and asks for the gate.
CONSTANTS
    Clients = {}
    Controllers = {p1}
    Viewer = viewer
    Chunks <- MCChunks
    Payloads = {}
    Sizes <- MCSizes
    SignalSizes = {}
    SignalInputs = {}
    Patterns <- MCPatterns
    Identifiers = {1}
    ByteCapacity = 3
    MaximumFrameLength = 3
    MaxEvents = 5
SPECIFICATION Spec
INVARIANT
    PromptSuffixCheck
CHECK_DEADLOCK FALSE
