------------------------------ MODULE LossyFifo ------------------------------
(***************************************************************************)
(* What the transcript-notice queue promises, as two cursors over the      *)
(* stream of notices 1, 2, 3, ...: the writer never waits; the reader sees *)
(* an increasing stream, misses a notice only when Capacity newer ones     *)
(* were written before it came round, and never misses the last one.       *)
(***************************************************************************)
EXTENDS Naturals

CONSTANTS Capacity, MaxSent

VARIABLES
    sent,       \* notices written so far
    last,       \* the newest notice read so far
    closed,     \* the writer has finished
    finished    \* the reader was told so

vars == <<sent, last, closed, finished>>

Init == sent = 0 /\ last = 0 /\ closed = FALSE /\ finished = FALSE

Write ==
    /\ ~closed
    /\ sent < MaxSent
    /\ sent' = sent + 1
    /\ UNCHANGED <<last, closed, finished>>

\* The oldest notice still within the reader's reach.
Oldest == IF sent > last + Capacity THEN sent - Capacity + 1 ELSE last + 1

Read ==
    /\ ~finished
    /\ last < sent
    /\ last' = Oldest
    /\ UNCHANGED <<sent, closed, finished>>

Close ==
    /\ ~closed
    /\ closed' = TRUE
    /\ UNCHANGED <<sent, last, finished>>

Finish ==
    /\ closed
    /\ ~finished
    /\ last = sent
    /\ finished' = TRUE
    /\ UNCHANGED <<sent, last, closed>>

Next == Write \/ Read \/ Close \/ Finish

\* The promise without its fairness.
Safety == Init /\ [][Next]_vars

\* A reader that keeps coming back gets what is there, and learns of the end.
Spec == Init /\ [][Next]_vars /\ WF_vars(Read) /\ WF_vars(Finish)
=============================================================================
