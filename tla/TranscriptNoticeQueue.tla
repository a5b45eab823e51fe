----------------------- MODULE TranscriptNoticeQueue -----------------------
(***************************************************************************)
(* The bounded queue between ViewerFanout (the only producer) and          *)
(* TranscriptScriber (the only consumer).  Its state sits behind a mutex,  *)
(* and the consumer sleeps on a condition variable.  push_drop_oldest,     *)
(* close and each pass through pop_blocking's loop hold the mutex from end *)
(* to end, so each is one action; waiting gives up the mutex and, once     *)
(* woken, the consumer has to take it again before it looks at the queue.  *)
(***************************************************************************)
EXTENDS Integers, Sequences

CONSTANTS
    Capacity,   \* TRANSCRIPT_NOTICE_QUEUE_CAPACITY
    MaxPushes   \* bound: notices pushed

ASSUME QueueAssumption ==
    /\ Capacity \in Nat \ {0}
    /\ MaxPushes \in Nat

VARIABLES
    pending,    \* the notices in the queue
    closed,     \* the fanout has ended
    dropped,    \* dropped_oldest
    consumer,   \* where the scriber's thread is in pop_blocking
    pushed,     \* history: notices pushed so far
    popped      \* history: the notices handed to the scriber

queueVars == <<pending, closed, dropped, consumer, pushed, popped>>

(***************************************************************************)
(* "ready": about to take the mutex; "waiting": asleep on not_empty;       *)
(* "handling": pop_blocking has returned a notice; "stopped": it has       *)
(* returned None and the scriber's loop is over.                           *)
(***************************************************************************)
ConsumerStates == {"ready", "waiting", "handling", "stopped"}

Init ==
    /\ pending = <<>>
    /\ closed = FALSE
    /\ dropped = 0
    /\ consumer = "ready"
    /\ pushed = 0
    /\ popped = <<>>

\* notify_one and notify_all: there is a single consumer to wake.
Notify == IF consumer = "waiting" THEN "ready" ELSE consumer

\* Mutant of MakeRoom: room is made only once the queue is over its capacity.
MakeRoomLate ==
    IF Len(pending) > Capacity
    THEN SubSeq(pending, Len(pending) - Capacity + 2, Len(pending))
    ELSE pending

\* The loop that makes room: pop the front while the queue is not shorter than
\* its capacity.
MakeRoom ==
    IF Len(pending) >= Capacity
    THEN SubSeq(pending, Len(pending) - Capacity + 2, Len(pending))
    ELSE pending

\* Mutants of PushDropOldest: the sleeping scriber is not notified, the drop is
\* not counted, or is the length afterwards less the one before, or the new
\* notice is dropped.
PushWithoutNotify(notice) ==
    /\ pending' = Append(MakeRoom, notice)
    /\ dropped' = dropped + (Len(pending) - Len(MakeRoom))
    /\ pushed' = pushed + 1
    /\ UNCHANGED <<closed, consumer, popped>>

PushUncounted(notice) ==
    /\ pending' = Append(MakeRoom, notice)
    /\ consumer' = Notify
    /\ pushed' = pushed + 1
    /\ UNCHANGED <<closed, dropped, popped>>

PushCountsBackwards(notice) ==
    /\ pending' = Append(MakeRoom, notice)
    /\ dropped' = dropped + (Len(MakeRoom) - Len(pending))
    /\ consumer' = Notify
    /\ pushed' = pushed + 1
    /\ UNCHANGED <<closed, popped>>

PushDropNewest(notice) ==
    /\ pending' = IF Len(pending) >= Capacity THEN pending ELSE Append(pending, notice)
    /\ dropped' = IF Len(pending) >= Capacity THEN dropped + 1 ELSE dropped
    /\ consumer' = Notify
    /\ pushed' = pushed + 1
    /\ UNCHANGED <<closed, popped>>

\* push_drop_oldest.
PushDropOldest(notice) ==
    /\ pending' = Append(MakeRoom, notice)
    /\ dropped' = dropped + (Len(pending) - Len(MakeRoom))
    /\ consumer' = Notify
    /\ pushed' = pushed + 1
    /\ UNCHANGED <<closed, popped>>

\* pop_blocking finds a notice.
PopNotice ==
    /\ consumer = "ready"
    /\ pending # <<>>
    /\ popped' = Append(popped, Head(pending))
    /\ pending' = Tail(pending)
    /\ consumer' = "handling"
    /\ UNCHANGED <<closed, dropped, pushed>>

\* pop_blocking finds the queue closed and drained.
PopNone ==
    /\ consumer = "ready"
    /\ pending = <<>>
    /\ closed
    /\ consumer' = "stopped"
    /\ UNCHANGED <<pending, closed, dropped, pushed, popped>>

\* pop_blocking goes to sleep; the wait releases the mutex.
WaitNotEmpty ==
    /\ consumer = "ready"
    /\ pending = <<>>
    /\ ~closed
    /\ consumer' = "waiting"
    /\ UNCHANGED <<pending, closed, dropped, pushed, popped>>

\* A condition variable may wake its waiter for no reason.
SpuriousWakeup ==
    /\ consumer = "waiting"
    /\ consumer' = "ready"
    /\ UNCHANGED <<pending, closed, dropped, pushed, popped>>

\* The scriber is done with the notice and calls pop_blocking again.
NoticeHandled ==
    /\ consumer = "handling"
    /\ consumer' = "ready"
    /\ UNCHANGED <<pending, closed, dropped, pushed, popped>>

\* Mutant of CloseQueue: the sleeping scriber is not notified.
CloseWithoutNotify ==
    /\ ~closed
    /\ closed' = TRUE
    /\ UNCHANGED <<pending, dropped, consumer, pushed, popped>>

\* The fanout's run has returned; it pushes nothing afterwards.
CloseQueue ==
    /\ ~closed
    /\ closed' = TRUE
    /\ consumer' = Notify
    /\ UNCHANGED <<pending, dropped, pushed, popped>>

Producer == ~closed /\ pushed < MaxPushes /\ PushDropOldest(pushed + 1)

Consumer == PopNotice \/ PopNone \/ WaitNotEmpty \/ NoticeHandled

Next == Producer \/ Consumer \/ SpuriousWakeup \/ CloseQueue

\* The scriber's thread keeps running whenever it is not asleep.  No fairness
\* for the producer, for close, or for spurious wakeups.
Spec == Init /\ [][Next]_queueVars /\ WF_queueVars(Consumer)

-----------------------------------------------------------------------------
(* Properties.                                                             *)

TypeOK ==
    /\ pending \in Seq(Nat \ {0})
    /\ closed \in BOOLEAN
    /\ dropped \in Nat
    /\ consumer \in ConsumerStates
    /\ pushed \in Nat
    /\ popped \in Seq(Nat \ {0})

\* The queue is never longer than its capacity, so the fanout never needs more
\* than one drop to make room.
Bounded == Len(pending) <= Capacity

\* The scriber never sleeps on a queue that has something for it: a notice to
\* pop, or the news that the queue is closed.
NoLostWakeup == consumer = "waiting" => pending = <<>> /\ ~closed

\* Every notice is accounted for: handed over, dropped, or still pending.
Accounted == Len(popped) + dropped + Len(pending) = pushed

\* The newest notice handed to the scriber.
LastPopped == IF popped = <<>> THEN 0 ELSE popped[Len(popped)]

\* What is pending is the newest run of notices, and between it and the last
\* one handed over nothing is missing unless the queue is full.
NewestRun ==
    /\ \A i \in DOMAIN pending : pending[i] + Len(pending) = pushed + i
    /\ LastPopped + Len(pending) <= pushed
    /\ LastPopped + Len(pending) # pushed => Len(pending) = Capacity

\* The queue keeps the promise of LossyFifo.
Fifo == INSTANCE LossyFifo WITH
            MaxSent <- MaxPushes,
            sent <- pushed,
            last <- LastPopped,
            finished <- consumer = "stopped"

\* Safety and liveness of the abstract queue: the stream stays in order, gaps
\* only on overrun, the newest notice always arrives, and the scriber learns
\* of the end.
ImplementsLossyFifo == Fifo!Spec
=============================================================================
