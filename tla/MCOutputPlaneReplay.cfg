\* Queue and mailbox large enough that nothing is ever dropped.
CONSTANTS
    Viewers = {v1}
    QueueCapacity = 3
    MailboxCapacity = 9
    MaxOutput = 3
    MaxKeys = 0
SPECIFICATION Spec
INVARIANT
    ReplayMeetsLive
CHECK_DEADLOCK FALSE
