-------------------- MODULE TranscriptNoticeQueueProofs ---------------------
(***************************************************************************)
(* Proofs about the transcript-notice queue, for every capacity of at      *)
(* least one and any number of pushes.                                     *)
(***************************************************************************)
EXTENDS TranscriptNoticeQueue, TLAPS

\* The inductive invariant: the parts TLC checks one by one.  NewestRun is the
\* strengthening that ties the contents of the queue to its history; without
\* it neither Accounted nor the refinement survives a push.
QueueInv ==
    /\ TypeOK
    /\ Bounded
    /\ NoLostWakeup
    /\ Accounted
    /\ NewestRun

\* Making room leaves a suffix of the queue that is shorter than the capacity.
LEMMA MakeRoomFacts ==
    ASSUME TypeOK, Bounded
    PROVE  /\ MakeRoom \in Seq(Nat \ {0})
           /\ Len(MakeRoom) = IF Len(pending) = Capacity
                              THEN Len(pending) - 1 ELSE Len(pending)
           /\ \A i \in 1 .. Len(MakeRoom) :
                MakeRoom[i] = pending[(Len(pending) - Len(MakeRoom)) + i]
<1>1. CASE Len(pending) >= Capacity
  <2>1. Len(pending) = Capacity /\ Len(pending) \in Nat
    BY <1>1, QueueAssumption DEF QueueAssumption, TypeOK, Bounded
  <2>2. MakeRoom = SubSeq(pending, 2, Len(pending))
    BY <2>1 DEF MakeRoom
  <2> QED BY <2>1, <2>2, QueueAssumption DEF QueueAssumption, TypeOK
<1>2. CASE ~(Len(pending) >= Capacity)
  BY <1>2, QueueAssumption DEF QueueAssumption, TypeOK, MakeRoom
<1> QED BY <1>1, <1>2

\* The initial state satisfies the invariant.
LEMMA InitInv == Init => QueueInv
<1> SUFFICES ASSUME Init PROVE QueueInv
  OBVIOUS
<1>1. pending = <<>> /\ Len(pending) = 0 /\ DOMAIN pending = {} /\ Len(popped) = 0
  BY DEF Init
<1>2. LastPopped = 0
  BY DEF Init, LastPopped
<1>3. NewestRun /\ Accounted /\ Bounded
  BY <1>1, <1>2, QueueAssumption
     DEF NewestRun, Accounted, Bounded, Init, QueueAssumption
<1>4. pending \in Seq(Nat \ {0}) /\ popped \in Seq(Nat \ {0})
  BY DEF Init
<1>5. closed \in BOOLEAN /\ consumer \in ConsumerStates
  BY DEF Init, ConsumerStates
<1>6. TypeOK
  BY <1>4, <1>5 DEF Init, TypeOK
<1>7. NoLostWakeup
  BY DEF Init, NoLostWakeup
<1> QED BY <1>3, <1>6, <1>7 DEF QueueInv

\* Every step of the producer and of the consumer preserves the invariant.
LEMMA NextInv == QueueInv /\ [Next]_queueVars => QueueInv'
<1> SUFFICES ASSUME QueueInv, [Next]_queueVars
             PROVE  QueueInv'
  OBVIOUS
<1> USE QueueAssumption DEF QueueAssumption
<1>a. TypeOK /\ Bounded /\ NoLostWakeup /\ Accounted /\ NewestRun
  BY DEF QueueInv
<1>n. /\ Len(pending) \in Nat /\ Len(popped) \in Nat /\ LastPopped \in Nat
      /\ pushed \in Nat /\ dropped \in Nat
  BY <1>a DEF TypeOK, LastPopped
<1>c. Len(popped) + dropped + Len(pending) = pushed
  BY <1>a DEF Accounted
<1>r. /\ LastPopped + Len(pending) <= pushed
      /\ LastPopped + Len(pending) # pushed => Len(pending) = Capacity
  BY <1>a DEF NewestRun
<1>1. CASE Producer
  <2>1. /\ pending' = Append(MakeRoom, pushed + 1)
        /\ dropped' = dropped + (Len(pending) - Len(MakeRoom))
        /\ pushed' = pushed + 1
        /\ popped' = popped
        /\ closed' = closed
        /\ consumer' = Notify
    BY <1>1 DEF Producer, PushDropOldest
  <2>2. /\ MakeRoom \in Seq(Nat \ {0})
        /\ Len(MakeRoom) \in Nat
        /\ Len(MakeRoom) = IF Len(pending) = Capacity
                           THEN Len(pending) - 1 ELSE Len(pending)
        /\ \A i \in 1 .. Len(MakeRoom) :
             MakeRoom[i] = pending[(Len(pending) - Len(MakeRoom)) + i]
    BY <1>a, MakeRoomFacts
  <2>3. /\ Len(pending') = Len(MakeRoom) + 1
        /\ \A i \in 1 .. Len(MakeRoom) : pending'[i] = MakeRoom[i]
        /\ pending'[Len(MakeRoom) + 1] = pushed + 1
        /\ pending' \in Seq(Nat \ {0})
    BY <2>1, <2>2, <1>a DEF TypeOK
  <2>4. Len(pending) \in Nat /\ Len(pending) <= Capacity /\ Len(popped) \in Nat
    BY <1>a DEF TypeOK, Bounded
  <2>5. TypeOK'
    BY <2>1, <2>2, <2>3, <2>4, <1>a DEF TypeOK, Notify, ConsumerStates
  <2>0. /\ Len(pending') = Len(MakeRoom) + 1
        /\ Len(MakeRoom) \in Nat
        /\ Len(MakeRoom) = IF Len(pending) = Capacity
                           THEN Len(pending) - 1 ELSE Len(pending)
    BY <2>2, <2>3
  <2>d. /\ Len(pending) = Capacity =>
              dropped' = dropped + 1 /\ Len(pending') = Len(pending)
        /\ Len(pending) # Capacity =>
              dropped' = dropped /\ Len(pending') = Len(pending) + 1
    <3>1. CASE Len(pending) = Capacity
      <4>1. Len(pending) - Len(MakeRoom) = 1
        BY <3>1, <2>0, <1>n
      <4> QED BY <4>1, <3>1, <2>0, <2>1, <1>n
    <3>2. CASE Len(pending) # Capacity
      <4>1. Len(pending) - Len(MakeRoom) = 0
        BY <3>2, <2>0, <1>n
      <4>2. dropped' = dropped
        BY <4>1, <2>1, <1>n
      <4>3. Len(pending') = Len(pending) + 1
        BY <3>2, <2>0
      <4> QED BY <4>2, <4>3, <3>2
    <3> QED BY <3>1, <3>2
  <2>6. Bounded' /\ Accounted'
    BY <2>d, <2>1, <2>4, <1>n, <1>c DEF Bounded, Accounted
  <2>7. NoLostWakeup'
    BY <2>1, <1>a DEF NoLostWakeup, Notify, TypeOK, ConsumerStates
  <2>8. \A i \in DOMAIN pending' : pending'[i] + Len(pending') = pushed' + i
    <3> SUFFICES ASSUME NEW i \in DOMAIN pending'
                 PROVE  pending'[i] + Len(pending') = pushed' + i
      OBVIOUS
    <3>1. i \in 1 .. Len(MakeRoom) + 1
      BY <2>3, <2>2
    <3>2. CASE i \in 1 .. Len(MakeRoom)
      <4>1. pending'[i] = pending[(Len(pending) - Len(MakeRoom)) + i]
        BY <3>2, <2>2, <2>3
      <4>2. (Len(pending) - Len(MakeRoom)) + i \in DOMAIN pending
        BY <3>2, <2>2, <2>4, <1>a DEF TypeOK
      <4>3. pending'[i] + Len(pending) = pushed + ((Len(pending) - Len(MakeRoom)) + i)
        BY <4>1, <4>2, <1>a DEF NewestRun
      <4>4. pending'[i] \in Nat /\ i \in Nat
        BY <2>3, <3>2, <2>2
      <4>5. /\ Len(pending) = Capacity =>
                   pending'[i] + Len(pending) = pushed + (i + 1)
            /\ Len(pending) # Capacity =>
                   pending'[i] + Len(pending) = pushed + i
        BY <4>3, <4>4, <2>0, <2>4
      <4>6. pushed' = pushed + 1
        BY <2>1
      <4>7. CASE Len(pending) = Capacity
        <5>1. pending'[i] + Len(pending) = pushed + (i + 1) /\ Len(pending') = Len(pending)
          BY <4>5, <4>7, <2>d
        <5> QED BY <5>1, <4>4, <4>6, <1>n
      <4>8. CASE Len(pending) # Capacity
        <5>1. pending'[i] + Len(pending) = pushed + i /\ Len(pending') = Len(pending) + 1
          BY <4>5, <4>8, <2>d
        <5>2. PICK x \in Nat, l \in Nat : x = pending'[i] /\ l = Len(pending)
          BY <4>4, <1>n
        <5>3. x + (l + 1) = (pushed + 1) + i
          BY <5>1, <5>2, <4>4, <1>n
        <5> QED BY <5>1, <5>2, <5>3, <4>6
      <4> QED BY <4>7, <4>8
    <3>3. CASE i = Len(MakeRoom) + 1
      BY <3>3, <2>1, <2>2, <2>3, <1>a DEF TypeOK
    <3> QED BY <3>1, <3>2, <3>3, <2>2
  <2>9. LastPopped' = LastPopped /\ LastPopped \in Nat
    BY <2>1, <1>a DEF LastPopped, TypeOK
  <2>10. /\ LastPopped' + Len(pending') <= pushed'
         /\ LastPopped' + Len(pending') # pushed' => Len(pending') = Capacity
    BY <2>0, <2>1, <2>4, <2>9, <1>n, <1>r
  <2> QED BY <2>5, <2>6, <2>7, <2>8, <2>10 DEF QueueInv, NewestRun
<1>2. CASE PopNotice
  <2>1. /\ consumer = "ready" /\ consumer' = "handling"
        /\ pending # <<>>
        /\ popped' = Append(popped, Head(pending))
        /\ pending' = Tail(pending)
        /\ closed' = closed /\ dropped' = dropped /\ pushed' = pushed
    BY <1>2 DEF PopNotice
  <2>2. /\ Len(pending) \in Nat \ {0}
        /\ Head(pending) = pending[1]
        /\ pending[1] \in Nat \ {0}
        /\ pending' \in Seq(Nat \ {0})
        /\ Len(pending') = Len(pending) - 1
        /\ \A i \in 1 .. Len(pending') : pending'[i] = pending[i + 1]
    BY <2>1, <1>a DEF TypeOK
  <2>3. /\ popped' \in Seq(Nat \ {0})
        /\ Len(popped') = Len(popped) + 1
        /\ popped'[Len(popped')] = pending[1]
    BY <2>1, <2>2, <1>a DEF TypeOK
  <2>0. /\ Len(pending') = Len(pending) - 1
        /\ Len(popped') = Len(popped) + 1
        /\ Len(pending) # 0
    BY <2>2, <2>3
  <2>a. TypeOK' /\ NoLostWakeup'
    BY <2>1, <2>2, <2>3, <1>a DEF TypeOK, NoLostWakeup, ConsumerStates
  <2>b. Bounded
    BY <1>a
  <2>4. Bounded' /\ Accounted'
    BY <2>0, <2>1, <2>b, <1>n, <1>c DEF Bounded, Accounted
  <2>5. \A i \in DOMAIN pending' : pending'[i] + Len(pending') = pushed' + i
    <3> SUFFICES ASSUME NEW i \in 1 .. Len(pending')
                 PROVE  pending'[i] + Len(pending') = pushed' + i
      BY <2>2
    <3>1. i + 1 \in DOMAIN pending
      BY <2>2, <1>a DEF TypeOK
    <3>2. pending'[i] + Len(pending) = pushed + (i + 1)
      BY <3>1, <2>2, <1>a DEF NewestRun
    <3>3. pending'[i] \in Nat /\ i \in Nat
      BY <2>2
    <3>4. PICK x \in Nat, l \in Nat : x = pending'[i] /\ l = Len(pending)
      BY <3>3, <1>n
    <3>5. x + (l - 1) = pushed + i
      BY <3>2, <3>3, <3>4, <1>n
    <3> QED BY <3>4, <3>5, <2>0, <2>1
  <2>6. LastPopped' = pending[1]
    BY <2>3, <1>a DEF LastPopped, TypeOK
  <2>7. pending[1] + Len(pending) = pushed + 1
    <3>1. \A i \in DOMAIN pending : pending[i] + Len(pending) = pushed + i
      BY <1>a DEF NewestRun
    <3>2. 1 \in DOMAIN pending
      BY <2>1, <1>a DEF TypeOK
    <3> QED BY ONLY <3>1, <3>2
  <2>8. LastPopped' + Len(pending') = pushed'
    <3>1. pending[1] \in Nat
      BY <2>2
    <3> QED BY <3>1, <2>0, <2>1, <2>6, <2>7, <1>n
  <2>9. pushed' \in Nat
    BY <2>1, <1>a DEF TypeOK
  <2> QED BY <2>a, <2>4, <2>5, <2>8, <2>9 DEF QueueInv, NewestRun
<1>3. CASE PopNone
  BY <1>3, <1>a DEF PopNone, QueueInv, TypeOK, Bounded, NoLostWakeup, Accounted,
       NewestRun, LastPopped, ConsumerStates
<1>4. CASE WaitNotEmpty
  BY <1>4, <1>a DEF WaitNotEmpty, QueueInv, TypeOK, Bounded, NoLostWakeup,
       Accounted, NewestRun, LastPopped, ConsumerStates
<1>5. CASE NoticeHandled
  BY <1>5, <1>a DEF NoticeHandled, QueueInv, TypeOK, Bounded, NoLostWakeup,
       Accounted, NewestRun, LastPopped, ConsumerStates
<1>6. CASE SpuriousWakeup
  BY <1>6, <1>a DEF SpuriousWakeup, QueueInv, TypeOK, Bounded, NoLostWakeup,
       Accounted, NewestRun, LastPopped, ConsumerStates
<1>7. CASE CloseQueue
  BY <1>7, <1>a DEF CloseQueue, Notify, QueueInv, TypeOK, Bounded, NoLostWakeup,
       Accounted, NewestRun, LastPopped, ConsumerStates
<1>8. CASE UNCHANGED queueVars
  BY <1>8, <1>a DEF queueVars, QueueInv, TypeOK, Bounded, NoLostWakeup,
       Accounted, NewestRun, LastPopped
<1> QED
  BY <1>1, <1>2, <1>3, <1>4, <1>5, <1>6, <1>7, <1>8 DEF Next, Consumer

\* The queue stays within its capacity, drops only what it counts, keeps the
\* newest run of notices, and never leaves the scriber asleep on work.
THEOREM QueueSafe == Spec => [](Bounded /\ NoLostWakeup /\ Accounted /\ NewestRun)
<1>1. QueueInv => Bounded /\ NoLostWakeup /\ Accounted /\ NewestRun
  BY DEF QueueInv
<1> QED BY InitInv, NextInv, <1>1, PTL DEF Spec

\* push_drop_oldest never leaves more than the capacity in the queue.
COROLLARY QueueBounded == Spec => []Bounded
<1> QED BY QueueSafe, PTL

\* Every notice was popped, is in the queue or is in the drop counter.
COROLLARY QueueAccounts == Spec => []Accounted
<1> QED BY QueueSafe, PTL

\* The queue holds the newest notices, in order and without a gap.
COROLLARY QueueHoldsNewest == Spec => []NewestRun
<1> QED BY QueueSafe, PTL

\* The queue's state is well typed, for every capacity.
THEOREM QueueTypeOK == Spec => []TypeOK
<1>1. QueueInv => TypeOK
  BY DEF QueueInv
<1> QED BY InitInv, NextInv, <1>1, PTL DEF Spec

\* Every step of the queue is a step of the abstract lossy queue or changes
\* nothing that it can see.
LEMMA StepRefines == QueueInv /\ [Next]_queueVars => [Fifo!Next]_Fifo!vars
<1> SUFFICES ASSUME QueueInv, [Next]_queueVars
             PROVE  [Fifo!Next]_Fifo!vars
  OBVIOUS
<1> USE QueueAssumption DEF QueueAssumption
<1>a. TypeOK /\ Bounded /\ NoLostWakeup /\ Accounted /\ NewestRun
  BY DEF QueueInv
<1>n. LastPopped \in Nat /\ Len(pending) \in Nat /\ pushed \in Nat
  BY <1>a DEF TypeOK, LastPopped
<1>r. /\ LastPopped + Len(pending) <= pushed
      /\ LastPopped + Len(pending) # pushed => Len(pending) = Capacity
      /\ Len(pending) <= Capacity
  BY <1>a DEF NewestRun, Bounded
<1>1. CASE Producer
  <2>1. LastPopped' = LastPopped
    BY <1>1 DEF Producer, PushDropOldest, LastPopped
  <2>2. (consumer = "stopped") = (consumer = "stopped")'
    BY <1>1, <1>a DEF Producer, PushDropOldest, Notify, TypeOK, ConsumerStates
  <2>3. Fifo!Write
    BY <1>1, <2>1, <2>2 DEF Producer, PushDropOldest, Fifo!Write
  <2> QED BY <2>3 DEF Fifo!Next
<1>2. CASE PopNotice
  <2>1. pending # <<>> /\ Len(pending) \in Nat \ {0} /\ Head(pending) = pending[1]
    BY <1>2, <1>a DEF PopNotice, TypeOK
  <2>2. pending[1] + Len(pending) = pushed + 1
    <3>1. \A i \in DOMAIN pending : pending[i] + Len(pending) = pushed + i
      BY <1>a DEF NewestRun
    <3>2. 1 \in DOMAIN pending
      BY <2>1, <1>a DEF TypeOK
    <3> QED BY ONLY <3>1, <3>2
  <2>3. LastPopped' = pending[1]
    BY <1>2, <1>a, <2>1 DEF PopNotice, LastPopped, TypeOK
  <2>n. Len(pending) # 0 /\ pending[1] \in Nat
    BY <2>1, <1>a DEF TypeOK
  <2>4. Fifo!Oldest + Len(pending) = pushed + 1 /\ Fifo!Oldest \in Nat
    BY <2>n, <1>n, <1>r DEF Fifo!Oldest
  <2>5. LastPopped < pushed
    BY <2>n, <1>n, <1>r
  <2>o. LastPopped' = Fifo!Oldest
    BY <2>n, <2>2, <2>3, <2>4, <1>n
  <2>6. Fifo!Read
    BY <1>2, <2>o, <2>5 DEF PopNotice, Fifo!Read
  <2> QED BY <2>6 DEF Fifo!Next
<1>3. CASE PopNone
  <2>1. LastPopped = pushed
    BY <1>3, <1>n, <1>r DEF PopNone
  <2>2. Fifo!Finish
    BY <1>3, <2>1 DEF PopNone, Fifo!Finish, LastPopped
  <2> QED BY <2>2 DEF Fifo!Next
<1>4. CASE CloseQueue
  <2>1. (consumer = "stopped") = (consumer = "stopped")'
    BY <1>4, <1>a DEF CloseQueue, Notify, TypeOK, ConsumerStates
  <2>2. Fifo!Close
    BY <1>4, <2>1 DEF CloseQueue, Fifo!Close, LastPopped
  <2> QED BY <2>2 DEF Fifo!Next
<1>5. CASE WaitNotEmpty \/ NoticeHandled \/ SpuriousWakeup \/ UNCHANGED queueVars
  <2>1. /\ pushed' = pushed /\ popped' = popped /\ closed' = closed
        /\ (consumer = "stopped") = (consumer = "stopped")'
    BY <1>5 DEF WaitNotEmpty, NoticeHandled, SpuriousWakeup, queueVars
  <2> QED BY <2>1 DEF Fifo!vars, LastPopped
<1> QED BY <1>1, <1>2, <1>3, <1>4, <1>5 DEF Next, Consumer

\* The queue implements the safety part of the abstract lossy queue: in order,
\* gaps only on overrun, and no end before the newest notice was handed over.
THEOREM QueueImplementsLossyFifo == Spec => Fifo!Safety
<1>1. Init => Fifo!Init
  BY DEF Init, Fifo!Init, LastPopped
<1> QED BY <1>1, InitInv, NextInv, StepRefines, PTL DEF Spec, Fifo!Safety
=============================================================================
