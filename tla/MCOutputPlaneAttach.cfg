\* Two viewers that come, type and go while output flows.
CONSTANTS
    Viewers = {v1, v2}
    QueueCapacity = 1
    MailboxCapacity = 1
    MaxOutput = 1
    MaxKeys = 1
SPECIFICATION Spec
PROPERTIES
    NoEviction
    SlotFreed
CHECK_DEADLOCK FALSE
