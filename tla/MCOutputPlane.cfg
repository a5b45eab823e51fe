\* Two viewers, every queue at its limit.
CONSTANTS
    Viewers = {v1, v2}
    QueueCapacity = 1
    MailboxCapacity = 1
    MaxOutput = 3
    MaxKeys = 0
SPECIFICATION Spec
SYMMETRY Symmetry
INVARIANTS
    TypeOK
    OutputConserved
    TranscriptAccounted
    ViewerInOrder
    ReservationKept
CHECK_DEADLOCK FALSE
