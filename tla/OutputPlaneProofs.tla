------------------------- MODULE OutputPlaneProofs --------------------------
(***************************************************************************)
(* Proofs about the output plane, for any viewers, capacities and amount   *)
(* of output, and however viewers come, fail and go.                       *)
(***************************************************************************)
EXTENDS OutputPlane, FiniteSetTheorems, TLAPS

-----------------------------------------------------------------------------
(* The inductive invariants.  Each rests on the ones before it.            *)

\* The chunks that messages of one kind carry, and that they rise along a
\* queue of messages.
ChunksOf(q, op) == {q[i].chunk : i \in {j \in DOMAIN q : q[j].op = op}}
Rising(q, op) ==
    \A i, j \in DOMAIN q : i < j /\ q[i].op = op /\ q[j].op = op => q[i].chunk < q[j].chunk

\* A backlog is held only by a reservation or by the busy worker, and never by
\* both; a busy worker has emptied the slot.
BacklogHeld ==
    /\ slot.state # "Reserved" => slot.backlog = <<>>
    /\ fanout.pc = "idle" => fanout.backlog = <<>>
    /\ fanout.pc # "idle" => slot.state = "Empty"

\* The backlog continues what was pushed, the channel continues the backlog.
InFlight == pushed + Len(fanout.backlog) + Len(slot.backlog)
Numbered ==
    /\ \A i \in DOMAIN fanout.backlog : fanout.backlog[i] = pushed + i
    /\ \A i \in DOMAIN slot.backlog : slot.backlog[i] = pushed + i
    /\ ChunksOf(outbox, "Bytes") = (InFlight + 1) .. emitted
    /\ Rising(outbox, "Bytes")
    /\ InFlight <= emitted /\ emitted <= MaxOutput

\* What the queue promises of itself, and the fanout does not end.
QueueInv ==
    /\ Queue!TypeOK /\ Queue!Bounded /\ Queue!Accounted /\ Queue!NewestRun
    /\ consumer = "handling" => popped # <<>>
    /\ ~closed

\* Chunks go one way, each once: from the outbox through slot and queue.
FlowInv ==
    /\ TypeOK
    /\ BacklogHeld
    /\ Numbered
    /\ QueueInv

\* Leases are fresh and each belongs to one viewer.
Leased(v) == conn[v].pc \notin {"new", "reserving", "rejected"}

LeasesUnique ==
    /\ nextViewer # 0
    /\ \A v \in Viewers : conn[v].lease < nextViewer /\ (Leased(v) => conn[v].lease # 0)
    /\ \A u, v \in Viewers : conn[u].lease = conn[v].lease /\ conn[u].lease # 0 => u = v

\* The slot and the busy worker hold the lease of a viewer at that stage.
Leaving == {"failed", "done"}
SlotOwned ==
    /\ slot.state # "Empty" => slot.viewer \in Viewers /\ slot.lease = conn[slot.viewer].lease
    /\ slot.state = "Reserved" => conn[slot.viewer].pc \in Attaching \cup Leaving
    /\ slot.state = "Active" => conn[slot.viewer].pc \in {"active", "pumping"} \cup Leaving
    /\ fanout.pc \in {"activating", "aborting"} =>
          /\ fanout.viewer \in Viewers
          /\ conn[fanout.viewer].pc = "activating"
          /\ fanout.lease = conn[fanout.viewer].lease

\* A command in the channel is the one its sender waits for, or the detach of a
\* viewer that is leaving.
Awaited(command) ==
    /\ command.op = "ReserveViewer" => conn[command.viewer].pc = "reserving"
    /\ command.op = "ActivateViewer" =>
          /\ conn[command.viewer].pc = "activating"
          /\ conn[command.viewer].lease = command.lease
          /\ ~(fanout.pc \in {"activating", "aborting"} /\ fanout.viewer = command.viewer)
    /\ command.op = "Detach" =>
          \E v \in Viewers : conn[v].lease = command.lease /\ conn[v].pc \in Leaving
Alike(m, n) == m.op = n.op /\ m.op \in {"ReserveViewer", "ActivateViewer", "Snapshot"} /\ m.viewer = n.viewer
ChannelAwaited ==
    /\ \A i \in DOMAIN outbox : Awaited(outbox[i])
    /\ \A i, j \in DOMAIN outbox : Alike(outbox[i], outbox[j]) => i = j

Expected(message) == message.op = "Snapshot" => conn[message.viewer].pc = "asking"
MailboxAwaited ==
    /\ \A i \in DOMAIN mailbox : Expected(mailbox[i])
    /\ \A i, j \in DOMAIN mailbox : Alike(mailbox[i], mailbox[j]) => i = j

\* Who holds the slot, and who is waited for.
LeaseInv ==
    /\ LeasesUnique
    /\ SlotOwned
    /\ ChannelAwaited
    /\ MailboxAwaited
    /\ ReservationKept

\* The transcript, the mailbox and the scriber's hand follow one another, and
\* every notice handed over is in one of them or was shed.
Scribed == Elements(transcript) \cup ChunksOf(mailbox, "TerminalOutput") \cup shed

ScribeInv ==
    /\ Increasing(transcript)
    /\ Rising(mailbox, "TerminalOutput")
    /\ Below(Elements(transcript), ChunksOf(mailbox, "TerminalOutput"))
    /\ \A x \in Scribed :
          x # 0 /\ x <= Queue!LastPopped /\ (consumer = "handling" => x < Queue!LastPopped)
    /\ IsFiniteSet(shed) /\ IsFiniteSet(ChunksOf(mailbox, "TerminalOutput"))
    /\ Len(popped) = Len(transcript)
                     + Cardinality(ChunksOf(mailbox, "TerminalOutput") \cup HandledChunk)
                     + Cardinality(shed)

\* What a viewer was shown, or will be shown as a replay, was pushed before, and
\* it is shown nothing before its replay.
Shown(s) == Increasing(s) /\ \A x \in Elements(s) : x <= pushed
Unshown == {"new", "reserving", "rejected", "reserved", "accepted", "asking", "replaying"}

StreamInv ==
    /\ \A v \in Viewers : Shown(stream[v]) /\ Shown(conn[v].snapshot)
    /\ \A v \in Viewers : conn[v].pc \in Unshown => stream[v] = <<>>

-----------------------------------------------------------------------------
(* Queues of messages.                                                     *)

\* A message joins a queue.
LEMMA ChunksAppend ==
    ASSUME NEW S, NEW q \in Seq(S), NEW m \in S, NEW op
    PROVE  /\ Append(q, m) \in Seq(S)
           /\ m.op # op => ChunksOf(Append(q, m), op) = ChunksOf(q, op)
           /\ m.op = op => ChunksOf(Append(q, m), op) = ChunksOf(q, op) \cup {m.chunk}
           /\ Rising(q, op) /\ (m.op = op => \A x \in ChunksOf(q, op) : x < m.chunk)
                => Rising(Append(q, m), op)
<1> DEFINE n == Len(q)
           r == Append(q, m)
<1>1. /\ n \in Nat /\ DOMAIN q = 1 .. n /\ DOMAIN r = 1 .. (n + 1) /\ r \in Seq(S)
      /\ r[n + 1] = m /\ \A i \in 1 .. n : r[i] = q[i]
  OBVIOUS
<1> HIDE DEF n, r
<1>2. \A i \in DOMAIN r : (i \in DOMAIN q /\ r[i] = q[i]) \/ (i = n + 1 /\ r[i] = m)
  BY <1>1
<1>3. /\ \A i \in DOMAIN q : i \in DOMAIN r /\ r[i] = q[i] /\ i < n + 1
      /\ n + 1 \in DOMAIN r
  BY <1>1
<1>4. \A x : x \in ChunksOf(r, op) => x \in ChunksOf(q, op) \/ (m.op = op /\ x = m.chunk)
  BY <1>2 DEF ChunksOf
<1>5. \A x : x \in ChunksOf(q, op) => x \in ChunksOf(r, op)
  BY <1>3 DEF ChunksOf
<1>6. m.op = op => m.chunk \in ChunksOf(r, op)
  BY <1>1, <1>3 DEF ChunksOf
<1>7. ASSUME Rising(q, op), m.op = op => \A x \in ChunksOf(q, op) : x < m.chunk
      PROVE  Rising(r, op)
  <2> SUFFICES ASSUME NEW i \in DOMAIN r, NEW j \in DOMAIN r, i < j, r[i].op = op, r[j].op = op
               PROVE  r[i].chunk < r[j].chunk
    BY DEF Rising
  <2>1. i \in DOMAIN q /\ r[i] = q[i]
    BY <1>1
  <2>2. CASE j \in DOMAIN q
    BY <1>3, <1>7, <2>1, <2>2 DEF Rising
  <2>3. CASE j = n + 1
    <3>1. q[i].chunk \in ChunksOf(q, op)
      BY <2>1 DEF ChunksOf
    <3> QED BY <1>1, <1>7, <2>1, <2>3, <3>1
  <2> QED BY <1>2, <2>2, <2>3
<1> QED BY <1>1, <1>4, <1>5, <1>6, <1>7 DEF r

\* The first message leaves a queue.
LEMMA ChunksTail ==
    ASSUME NEW S, NEW q \in Seq(S), q # <<>>, NEW op, Rising(q, op),
           \A m \in S : m.op = op => m.chunk \in Nat
    PROVE  /\ Head(q) \in S /\ Tail(q) \in Seq(S)
           /\ Rising(Tail(q), op)
           /\ Head(q).op # op => ChunksOf(Tail(q), op) = ChunksOf(q, op)
           /\ Head(q).op = op =>
                /\ Head(q).chunk \in ChunksOf(q, op)
                /\ ChunksOf(Tail(q), op) = ChunksOf(q, op) \ {Head(q).chunk}
                /\ \A x \in ChunksOf(Tail(q), op) : Head(q).chunk < x
<1> DEFINE n == Len(q)
           r == Tail(q)
           h == Head(q)
<1>1. /\ n \in Nat \ {0} /\ DOMAIN q = 1 .. n /\ DOMAIN r = 1 .. (n - 1) /\ r \in Seq(S)
      /\ h = q[1] /\ \A i \in 1 .. (n - 1) : r[i] = q[i + 1]
      /\ \A i \in 1 .. n : q[i] \in S
  OBVIOUS
<1> HIDE DEF n, r, h
<1>2. \A i \in DOMAIN r : i \in Nat /\ i + 1 \in DOMAIN q /\ 1 < i + 1 /\ r[i] = q[i + 1]
  BY <1>1
<1>3. \A i \in DOMAIN q : i = 1 \/ (i - 1 \in DOMAIN r /\ r[i - 1] = q[i])
  BY <1>1
<1>4. 1 \in DOMAIN q /\ h = q[1] /\ h \in S
  BY <1>1
<1>5. Rising(r, op)
  <2> SUFFICES ASSUME NEW i \in DOMAIN r, NEW j \in DOMAIN r, i < j, r[i].op = op, r[j].op = op
               PROVE  r[i].chunk < r[j].chunk
    BY DEF Rising
  <2>1. i + 1 < j + 1
    BY <1>2
  <2> QED BY <1>2, <2>1 DEF Rising
<1>6. \A x : x \in ChunksOf(r, op) => x \in ChunksOf(q, op) /\ (h.op = op => h.chunk < x)
  <2> SUFFICES ASSUME NEW i \in DOMAIN r, r[i].op = op
               PROVE  r[i].chunk \in ChunksOf(q, op) /\ (h.op = op => h.chunk < r[i].chunk)
    BY DEF ChunksOf
  <2> QED BY <1>2, <1>4 DEF ChunksOf, Rising
<1>7. \A x : x \in ChunksOf(q, op) => x \in ChunksOf(r, op) \/ (h.op = op /\ x = h.chunk)
  BY <1>3, <1>4 DEF ChunksOf
<1>8. h.op = op => h.chunk \in ChunksOf(q, op) /\ h.chunk \in Nat
  BY <1>4 DEF ChunksOf
<1>9. h.op = op => h.chunk \notin ChunksOf(r, op)
  BY <1>6, <1>8
<1> QED BY <1>1, <1>4, <1>5, <1>6, <1>7, <1>8, <1>9 DEF r, h

-----------------------------------------------------------------------------
(* The notice queue.                                                       *)

\* The loop that makes room drops one notice if the queue is full, else none.
LEMMA RoomMade ==
    ASSUME Queue!TypeOK, Queue!Bounded, NEW full, full = IF Len(pending) = QueueCapacity THEN 1 ELSE 0
    PROVE  /\ Queue!MakeRoom \in Seq(Nat \ {0})
           /\ Len(Queue!MakeRoom) = Len(pending) - full
           /\ \A i \in 1 .. Len(Queue!MakeRoom) : Queue!MakeRoom[i] = pending[full + i]
<1>1. /\ pending \in Seq(Nat \ {0}) /\ Len(pending) \in Nat /\ Len(pending) <= QueueCapacity
      /\ QueueCapacity \in Nat \ {0}
  BY OutputPlaneAssumption DEF OutputPlaneAssumption, Queue!TypeOK, Queue!Bounded
<1>2. CASE Len(pending) = QueueCapacity
  <2>1. Queue!MakeRoom = SubSeq(pending, 2, Len(pending))
    BY <1>1, <1>2 DEF Queue!MakeRoom
  <2> QED BY <1>1, <1>2, <2>1
<1>3. CASE Len(pending) # QueueCapacity
  <2>1. Queue!MakeRoom = pending
    BY <1>1, <1>3 DEF Queue!MakeRoom
  <2> QED BY <1>1, <1>3, <2>1
<1> QED BY <1>2, <1>3

\* A push of the next chunk keeps the queue's promises.
LEMMA QueuePush ==
    ASSUME QueueInv, Queue!PushDropOldest(pushed + 1)
    PROVE  /\ QueueInv'
           /\ pushed' = pushed + 1 /\ popped' = popped
           /\ consumer = "handling" <=> consumer' = "handling"
<1>a. /\ Queue!TypeOK /\ Queue!Bounded /\ Queue!Accounted /\ Queue!NewestRun /\ ~closed
      /\ consumer = "handling" => popped # <<>>
  BY DEF QueueInv
<1> DEFINE full == IF Len(pending) = QueueCapacity THEN 1 ELSE 0
           n == Len(pending)
           p == Len(popped)
           k == Len(pending')
           last == Queue!LastPopped
<1>1. /\ n \in Nat /\ p \in Nat /\ full \in Nat /\ full \in {0, 1} /\ pushed \in Nat /\ dropped \in Nat
      /\ last \in Nat /\ n <= QueueCapacity /\ QueueCapacity \in Nat \ {0} /\ DOMAIN pending = 1 .. n
      /\ (full = 1 <=> n = QueueCapacity) /\ pending \in Seq(Nat \ {0}) /\ popped \in Seq(Nat \ {0})
  BY <1>a, OutputPlaneAssumption DEF OutputPlaneAssumption, Queue!TypeOK, Queue!Bounded, Queue!LastPopped
<1>l. Len(pending) = n /\ Len(popped) = p /\ Len(pending') = k
  OBVIOUS
<1>2. /\ Queue!MakeRoom \in Seq(Nat \ {0}) /\ Len(Queue!MakeRoom) = n - full
      /\ \A i \in 1 .. (n - full) : Queue!MakeRoom[i] = pending[full + i]
  <2>1. Queue!TypeOK /\ Queue!Bounded
    BY <1>a
  <2>2. full = IF Len(pending) = QueueCapacity THEN 1 ELSE 0
    OBVIOUS
  <2> HIDE DEF full
  <2> QED BY <2>1, <2>2, RoomMade
<1> HIDE DEF full, n, p, k, last
<1>3. /\ pending' = Append(Queue!MakeRoom, pushed + 1) /\ dropped' = dropped + full
      /\ pushed' = pushed + 1 /\ closed' = closed /\ popped' = popped
      /\ consumer' = Queue!Notify
  <2>1. n - (n - full) = full
    BY <1>1
  <2> QED BY <1>2, <1>l, <2>1 DEF Queue!PushDropOldest
<1>4. /\ k = n - full + 1 /\ DOMAIN pending' = 1 .. k /\ k \in Nat /\ pending' \in Seq(Nat \ {0})
      /\ \A i \in 1 .. (n - full) : pending'[i] = pending[full + i]
      /\ pending'[n - full + 1] = pushed + 1
  <2> DEFINE room == Queue!MakeRoom
             j == n - full
  <2>1. j \in Nat /\ Len(room) = j /\ room \in Seq(Nat \ {0}) /\ pushed + 1 \in Nat \ {0}
        /\ pending' = Append(room, pushed + 1) /\ \A i \in 1 .. j : room[i] = pending[full + i]
    BY <1>1, <1>2, <1>3
  <2> HIDE DEF room, j
  <2>2. /\ Len(pending') = j + 1 /\ DOMAIN pending' = 1 .. (j + 1) /\ pending' \in Seq(Nat \ {0})
        /\ \A i \in 1 .. j : pending'[i] = room[i]
        /\ pending'[j + 1] = pushed + 1
    BY <2>1
  <2> QED BY <1>l, <2>1, <2>2 DEF j
<1>5. /\ \A i \in 1 .. n : pending[i] \in Nat /\ pending[i] + n = pushed + i
      /\ last + n <= pushed /\ (last + n # pushed => n = QueueCapacity)
      /\ p + dropped + n = pushed
  <2>1. \A i \in 1 .. n : pending[i] \in Nat
    BY <1>1, <1>l
  <2> QED BY <1>a, <1>1, <1>l, <2>1 DEF Queue!NewestRun, Queue!Accounted, last
<1>6. Queue!LastPopped' = last
  BY <1>3 DEF Queue!LastPopped, last
<1>7. ASSUME NEW i \in 1 .. k PROVE pending'[i] + k = pushed' + i
  <2>1. CASE i \in 1 .. (n - full)
    <3>1. full + i \in 1 .. n
      BY <1>1, <2>1
    <3>2. pending'[i] \in Nat /\ pending'[i] + n = pushed + (full + i)
      BY <1>4, <1>5, <2>1, <3>1
    <3> DEFINE x == pending'[i]
    <3>3. x \in Nat /\ x + n = pushed + (full + i)
      BY <3>2
    <3> HIDE DEF x
    <3>4. x + k = pushed' + i
      BY <1>1, <1>3, <1>4, <3>3
    <3> QED BY <3>4 DEF x
  <2>2. CASE i = n - full + 1
    BY <1>1, <1>3, <1>4, <2>2
  <2> QED BY <1>1, <1>4, <2>1, <2>2
<1>8. k <= QueueCapacity /\ p + dropped' + k = pushed'
  BY <1>1, <1>3, <1>4, <1>5
<1>9. last + k <= pushed' /\ (last + k # pushed' => k = QueueCapacity)
  BY <1>1, <1>3, <1>4, <1>5
<1>10. Queue!TypeOK'
  <2>1. consumer' \in Queue!ConsumerStates /\ (consumer = "handling" <=> consumer' = "handling")
    BY <1>a, <1>3 DEF Queue!Notify, Queue!TypeOK, Queue!ConsumerStates
  <2>2. dropped' \in Nat /\ pushed' \in Nat
    BY <1>1, <1>3
  <2> QED BY <1>a, <1>3, <1>4, <2>1, <2>2 DEF Queue!TypeOK
<1>11. consumer = "handling" <=> consumer' = "handling"
  BY <1>3 DEF Queue!Notify
<1>12. Queue!NewestRun' /\ Queue!Bounded' /\ Queue!Accounted'
  BY <1>3, <1>4, <1>6, <1>7, <1>8, <1>9, <1>l DEF Queue!NewestRun, Queue!Bounded, Queue!Accounted
<1> QED BY <1>a, <1>3, <1>10, <1>11, <1>12 DEF QueueInv

\* The scriber takes the oldest notice, which is newer than any it took before.
LEMMA QueuePop ==
    ASSUME QueueInv, Queue!PopNotice
    PROVE  /\ QueueInv'
           /\ pushed' = pushed /\ popped' = Append(popped, Head(pending))
           /\ popped' # <<>> /\ Len(popped') = Len(popped) + 1
           /\ Queue!LastPopped' = Head(pending) /\ Last(popped') = Head(pending)
           /\ Queue!LastPopped < Head(pending)
           /\ consumer = "ready" /\ consumer' = "handling"
<1>a. /\ Queue!TypeOK /\ Queue!Bounded /\ Queue!Accounted /\ Queue!NewestRun /\ ~closed
      /\ consumer = "handling" => popped # <<>>
  BY DEF QueueInv
<1> DEFINE n == Len(pending)
           p == Len(popped)
           k == Len(pending')
           h == Head(pending)
           last == Queue!LastPopped
<1>1. /\ consumer = "ready" /\ consumer' = "handling" /\ pending # <<>>
      /\ popped' = Append(popped, h) /\ pending' = Tail(pending)
      /\ UNCHANGED <<closed, dropped, pushed>>
  BY DEF Queue!PopNotice
<1>2. /\ n \in Nat \ {0} /\ p \in Nat /\ pushed \in Nat /\ dropped \in Nat /\ n <= QueueCapacity
      /\ last \in Nat /\ QueueCapacity \in Nat \ {0} /\ DOMAIN pending = 1 .. n
      /\ h = pending[1] /\ h \in Nat \ {0} /\ pending' \in Seq(Nat \ {0})
      /\ popped' \in Seq(Nat \ {0}) /\ popped' # <<>> /\ Len(popped') = p + 1 /\ popped'[p + 1] = h
      /\ k = n - 1 /\ DOMAIN pending' = 1 .. k /\ k \in Nat
      /\ \A i \in 1 .. k : pending'[i] = pending[i + 1]
  BY <1>a, <1>1, OutputPlaneAssumption
     DEF OutputPlaneAssumption, Queue!TypeOK, Queue!Bounded, Queue!LastPopped
<1>l. Len(pending) = n /\ Len(popped) = p /\ Len(pending') = k
  OBVIOUS
<1>4. Queue!LastPopped' = h /\ Last(popped') = h
  BY <1>2 DEF Queue!LastPopped, Last
<1> HIDE DEF n, p, k, last, h
<1>3. /\ \A i \in 1 .. n : pending[i] \in Nat /\ pending[i] + n = pushed + i
      /\ last + n <= pushed /\ (last + n # pushed => n = QueueCapacity)
      /\ p + dropped + n = pushed
  <2>1. \A i \in 1 .. n : pending[i] \in Nat
    <3>1. pending \in Seq(Nat \ {0})
      BY <1>a DEF Queue!TypeOK
    <3> QED BY <1>l, <3>1
  <2> QED BY <1>a, <1>2, <1>l, <2>1 DEF Queue!NewestRun, Queue!Accounted, last
<1>5. h + n = pushed + 1 /\ last < h
  <2>1. h + n = pushed + 1
    BY <1>2, <1>3
  <2> QED BY <1>2, <1>3, <2>1
<1>6. \A i \in 1 .. k : pending'[i] + k = pushed + i
  <2> SUFFICES ASSUME NEW i \in 1 .. k PROVE pending'[i] + k = pushed + i
    OBVIOUS
  <2>1. i + 1 \in 1 .. n /\ pending'[i] = pending[i + 1]
    BY <1>2
  <2>2. pending'[i] \in Nat /\ pending'[i] + n = pushed + (i + 1)
    BY <1>3, <2>1
  <2> DEFINE x == pending'[i]
  <2>3. x \in Nat /\ x + n = pushed + (i + 1) /\ i \in Nat
    BY <1>2, <2>2
  <2> HIDE DEF x
  <2>4. x + k = pushed + i
    BY <1>2, <2>3
  <2> QED BY <2>4 DEF x
<1>7. h + k = pushed /\ k <= QueueCapacity /\ (p + 1) + dropped + k = pushed
  <2>1. k = n - 1 /\ n \in Nat \ {0} /\ h \in Nat /\ p \in Nat /\ dropped \in Nat /\ pushed \in Nat
    BY <1>2
  <2>2. h + n = pushed + 1 /\ p + dropped + n = pushed
    BY <1>3, <1>5
  <2>3. h + k = pushed /\ (p + 1) + dropped + k = pushed
    BY <2>1, <2>2
  <2>4. k <= QueueCapacity
    BY <1>2
  <2> QED BY <2>3, <2>4
<1>8. Queue!TypeOK'
  BY <1>a, <1>1, <1>2 DEF Queue!TypeOK, Queue!ConsumerStates
<1>9. Queue!NewestRun' /\ Queue!Bounded' /\ Queue!Accounted'
  <2>1. /\ k <= QueueCapacity /\ Len(pending') = k /\ Len(popped') = p + 1 /\ DOMAIN pending' = 1 .. k
        /\ h + k = pushed /\ (p + 1) + dropped + k = pushed
        /\ dropped' = dropped /\ pushed' = pushed
    BY <1>1, <1>2, <1>7, <1>l
  <2>2. Queue!Bounded' /\ Queue!Accounted'
    BY <2>1 DEF Queue!Bounded, Queue!Accounted
  <2>3. h + k <= pushed
    BY <1>2, <2>1
  <2> QED BY <1>4, <1>6, <2>1, <2>2, <2>3 DEF Queue!NewestRun
<1> QED BY <1>a, <1>1, <1>2, <1>4, <1>5, <1>8, <1>9 DEF QueueInv, h, p, last

\* Sleeping, waking and asking for the next notice leave the notices alone.
LEMMA QueueRest ==
    ASSUME QueueInv, UNCHANGED <<pending, closed, dropped, pushed, popped>>,
           consumer' \in Queue!ConsumerStates, consumer' = "handling" => consumer = "handling"
    PROVE  QueueInv' /\ Queue!LastPopped' = Queue!LastPopped
BY DEF QueueInv, Queue!TypeOK, Queue!Bounded, Queue!Accounted, Queue!NewestRun, Queue!LastPopped

\* Nothing of the queue changes.
LEMMA QueueKept ==
    ASSUME QueueInv, UNCHANGED queueVars
    PROVE  QueueInv' /\ Queue!LastPopped' = Queue!LastPopped
<1>1. UNCHANGED <<pending, closed, dropped, pushed, popped>> /\ consumer' = consumer
  BY DEF queueVars
<1> QED BY <1>1, QueueRest DEF QueueInv, Queue!TypeOK

-----------------------------------------------------------------------------
(* Every chunk is notified once, in order.                                 *)

ConnType == [pc: ConnStates, lease: Nat, snapshot: Seq(Nat)]

\* A connection's thread moves on; the others stay where they are.
LEMMA GotoFacts ==
    ASSUME TypeOK, NEW v, NEW pc \in ConnStates, Goto(v, pc)
    PROVE  /\ conn' \in [Viewers -> ConnType]
           /\ \A u \in Viewers : /\ conn'[u].pc = IF u = v THEN pc ELSE conn[u].pc
                                 /\ conn'[u].lease = conn[u].lease
                                 /\ conn'[u].snapshot = conn[u].snapshot
<1>1. conn \in [Viewers -> ConnType] /\ conn' = [conn EXCEPT ![v].pc = pc]
  BY DEF TypeOK, ConnType, Goto
<1>2. ASSUME NEW u \in Viewers
      PROVE  /\ conn'[u] \in ConnType
             /\ conn'[u].pc = IF u = v THEN pc ELSE conn[u].pc
             /\ conn'[u].lease = conn[u].lease
             /\ conn'[u].snapshot = conn[u].snapshot
  <2>1. conn[u] \in ConnType
    BY <1>1
  <2>2. conn'[u] = IF u = v THEN [conn[u] EXCEPT !.pc = pc] ELSE conn[u]
    BY <1>1
  <2> QED BY <2>1, <2>2 DEF ConnType
<1> QED BY <1>1, <1>2

\* try_send puts a message into the mailbox or does nothing.
LEMMA MailSent ==
    ASSUME TypeOK, NEW m \in Message, TrySend(m)
    PROVE  mailbox' \in Seq(Message) /\ (mailbox' = mailbox \/ mailbox' = Append(mailbox, m))
BY DEF TypeOK, TrySend

\* What the commands carry.
LEMMA CommandFields ==
    ASSUME NEW m \in Command
    PROVE  /\ m.op = "Bytes" => m.chunk \in Nat
           /\ m.op \in {"ReserveViewer", "ActivateViewer"} => m.viewer \in Viewers
           /\ m.op \in {"ActivateViewer", "Detach"} => m.lease \in Nat
BY DEF Command

\* What the messages to the actor carry.
LEMMA MessageFields ==
    ASSUME NEW m \in Message
    PROVE  /\ m.op = "TerminalOutput" => m.chunk \in Nat
           /\ m.op = "Snapshot" => m.viewer \in Viewers
BY DEF Message

\* Neither the channel nor a backlog changes.
LEMMA FlowKept ==
    ASSUME BacklogHeld, Numbered, UNCHANGED <<emitted, outbox, slot, fanout, pushed>>
    PROVE  BacklogHeld' /\ Numbered'
BY DEF BacklogHeld, Numbered, InFlight

\* What the flow's variables hold, as numbers.
LEMMA FlowTypes ==
    ASSUME FlowInv
    PROVE  /\ pushed \in Nat /\ emitted \in Nat /\ MaxOutput \in Nat
           /\ Len(fanout.backlog) \in Nat /\ Len(slot.backlog) \in Nat /\ InFlight \in Nat
           /\ fanout.backlog \in Seq(Nat) /\ slot.backlog \in Seq(Nat)
           /\ DOMAIN fanout.backlog = 1 .. Len(fanout.backlog)
           /\ DOMAIN slot.backlog = 1 .. Len(slot.backlog)
           /\ outbox \in Seq(Command)
<1>1. /\ pushed \in Nat /\ emitted \in Nat /\ MaxOutput \in Nat /\ outbox \in Seq(Command)
      /\ fanout.backlog \in Seq(Nat) /\ slot.backlog \in Seq(Nat)
  BY OutputPlaneAssumption DEF FlowInv, TypeOK, Queue!TypeOK, OutputPlaneAssumption
<1>2. /\ Len(fanout.backlog) \in Nat /\ Len(slot.backlog) \in Nat
      /\ DOMAIN fanout.backlog = 1 .. Len(fanout.backlog)
      /\ DOMAIN slot.backlog = 1 .. Len(slot.backlog)
  BY <1>1
<1>3. InFlight \in Nat
  <2> DEFINE f == Len(fanout.backlog)
             t == Len(slot.backlog)
  <2>1. f \in Nat /\ t \in Nat /\ InFlight = pushed + f + t
    BY <1>2 DEF InFlight
  <2> HIDE DEF f, t
  <2> QED BY <1>1, <2>1
<1> QED BY <1>1, <1>2, <1>3

\* A command is sent to the fanout: a chunk of output or something else.
LEMMA ChannelGrows ==
    ASSUME FlowInv, NEW m \in Command, outbox' = Append(outbox, m), UNCHANGED <<slot, fanout, pushed>>,
           \/ m.op = "Bytes" /\ m.chunk = emitted + 1 /\ emitted' = emitted + 1 /\ emitted < MaxOutput
           \/ m.op # "Bytes" /\ emitted' = emitted
    PROVE  BacklogHeld' /\ Numbered' /\ outbox' \in Seq(Command)
<1>a. BacklogHeld /\ Numbered
  BY DEF FlowInv
<1>t. /\ pushed \in Nat /\ emitted \in Nat /\ MaxOutput \in Nat /\ InFlight \in Nat /\ outbox \in Seq(Command)
      /\ InFlight' = InFlight
  BY FlowTypes DEF InFlight
<1>1. ChunksOf(outbox, "Bytes") = (InFlight + 1) .. emitted /\ Rising(outbox, "Bytes")
      /\ InFlight <= emitted /\ emitted <= MaxOutput
  BY <1>a DEF Numbered
<1>2. /\ outbox' \in Seq(Command)
      /\ m.op # "Bytes" => ChunksOf(outbox', "Bytes") = ChunksOf(outbox, "Bytes")
      /\ m.op = "Bytes" => ChunksOf(outbox', "Bytes") = ChunksOf(outbox, "Bytes") \cup {m.chunk}
      /\ (m.op = "Bytes" => \A x \in ChunksOf(outbox, "Bytes") : x < m.chunk) => Rising(outbox', "Bytes")
  <2>1. PICK q \in Seq(Command) : q = outbox
    BY <1>t
  <2>2. /\ Append(q, m) \in Seq(Command)
        /\ m.op # "Bytes" => ChunksOf(Append(q, m), "Bytes") = ChunksOf(q, "Bytes")
        /\ m.op = "Bytes" => ChunksOf(Append(q, m), "Bytes") = ChunksOf(q, "Bytes") \cup {m.chunk}
        /\ Rising(q, "Bytes") /\ (m.op = "Bytes" => \A x \in ChunksOf(q, "Bytes") : x < m.chunk)
             => Rising(Append(q, m), "Bytes")
    BY ChunksAppend
  <2> QED BY <1>1, <2>1, <2>2
<1>3. /\ ChunksOf(outbox', "Bytes") = (InFlight + 1) .. emitted' /\ Rising(outbox', "Bytes")
      /\ InFlight <= emitted' /\ emitted' <= MaxOutput
  <2>1. CASE m.op = "Bytes"
    <3>1. \A x \in (InFlight + 1) .. emitted : x < emitted + 1
      BY <1>t
    <3>2. (InFlight + 1) .. (emitted + 1) = ((InFlight + 1) .. emitted) \cup {emitted + 1}
      BY <1>t, <1>1
    <3>3. InFlight <= emitted + 1 /\ emitted + 1 <= MaxOutput
      BY <1>t, <1>1, <2>1
    <3> QED BY <1>1, <1>2, <2>1, <3>1, <3>2, <3>3
  <2>2. CASE m.op # "Bytes"
    BY <1>1, <1>2, <2>2
  <2> QED BY <2>1, <2>2
<1>4. BacklogHeld'
  BY <1>a DEF BacklogHeld
<1> QED BY <1>a, <1>t, <1>2, <1>3, <1>4 DEF Numbered

\* The backlog of a reservation is handed to the idle worker, or stays.
LEMMA BacklogMoves ==
    ASSUME FlowInv, UNCHANGED <<emitted, pushed>>,
           ChunksOf(outbox', "Bytes") = ChunksOf(outbox, "Bytes"), Rising(outbox', "Bytes"),
           \/ fanout'.backlog = fanout.backlog /\ slot'.backlog = slot.backlog
           \/ fanout.backlog = <<>> /\ fanout'.backlog = slot.backlog /\ slot'.backlog = <<>>
    PROVE  Numbered'
<1>a. Numbered
  BY DEF FlowInv
<1>1. CASE fanout'.backlog = fanout.backlog /\ slot'.backlog = slot.backlog
  BY <1>a, <1>1 DEF Numbered, InFlight
<1>2. CASE fanout.backlog = <<>> /\ fanout'.backlog = slot.backlog /\ slot'.backlog = <<>>
  <2>1. InFlight' = InFlight
    BY <1>2, FlowTypes DEF InFlight
  <2>2. \A i \in DOMAIN fanout'.backlog : fanout'.backlog[i] = pushed + i
    BY <1>a, <1>2 DEF Numbered
  <2>3. \A i \in DOMAIN slot'.backlog : slot'.backlog[i] = pushed + i
    BY <1>2
  <2> QED BY <1>a, <2>1, <2>2, <2>3 DEF Numbered
<1> QED BY <1>1, <1>2

\* The worker pushes the head of its backlog: that is the next chunk.
LEMMA BacklogPushed ==
    ASSUME FlowInv, fanout.backlog # <<>>
    PROVE  /\ Head(fanout.backlog) = pushed + 1
           /\ slot.state = "Empty" /\ slot.backlog = <<>>
           /\ Head(fanout.backlog) \in Nat /\ Tail(fanout.backlog) \in Seq(Nat)
           /\ UNCHANGED <<emitted, outbox, slot>> /\ pushed' = pushed + 1
                /\ fanout'.backlog = Tail(fanout.backlog) => Numbered'
<1>a. BacklogHeld /\ Numbered
  BY DEF FlowInv
<1> DEFINE b == fanout.backlog
           n == Len(b)
<1>t. /\ pushed \in Nat /\ emitted \in Nat /\ b \in Seq(Nat) /\ n \in Nat /\ DOMAIN b = 1 .. n
      /\ slot.state = "Empty" /\ slot.backlog = <<>> /\ b # <<>>
      /\ \A i \in 1 .. n : b[i] = pushed + i
  BY <1>a, FlowTypes DEF BacklogHeld, Numbered
<1> HIDE DEF b
<1>1. /\ n \in Nat \ {0} /\ Head(b) = b[1] /\ Head(b) \in Nat /\ Tail(b) \in Seq(Nat)
      /\ Len(Tail(b)) = n - 1 /\ DOMAIN Tail(b) = 1 .. (n - 1)
      /\ \A i \in 1 .. (n - 1) : Tail(b)[i] = b[i + 1]
  BY <1>t
<1> HIDE DEF n
<1>2. Head(b) = pushed + 1
  BY <1>t, <1>1
<1>3. ASSUME UNCHANGED <<emitted, outbox, slot>>, pushed' = pushed + 1, fanout'.backlog = Tail(b)
      PROVE  Numbered'
  <2>1. InFlight' = InFlight
    <3>1. InFlight = pushed + n + 0 /\ InFlight' = (pushed + 1) + (n - 1) + 0
      BY <1>t, <1>1, <1>3 DEF InFlight, b, n
    <3> QED BY <1>t, <1>1, <3>1
  <2>2. \A i \in 1 .. (n - 1) : Tail(b)[i] = (pushed + 1) + i
    BY <1>t, <1>1
  <2>3. \A i \in DOMAIN slot'.backlog : slot'.backlog[i] = pushed' + i
    BY <1>t, <1>3
  <2> QED BY <1>a, <1>1, <1>3, <2>1, <2>2, <2>3 DEF Numbered
<1> QED BY <1>t, <1>1, <1>2, <1>3 DEF b

\* The worker takes a chunk from the channel: it is the next one, after the
\* backlog of the reservation.
LEMMA ChunkTaken ==
    ASSUME FlowInv, Takes("Bytes")
    PROVE  /\ Head(outbox).chunk = InFlight + 1 /\ Head(outbox).chunk \in Nat
           /\ fanout.pc = "idle" /\ fanout.backlog = <<>> /\ outbox' \in Seq(Command)
           /\ InFlight = pushed + Len(slot.backlog) /\ InFlight < emitted
           /\ ChunksOf(outbox', "Bytes") = (InFlight + 2) .. emitted
           /\ Rising(outbox', "Bytes")
<1>a. BacklogHeld /\ Numbered
  BY DEF FlowInv
<1>1. fanout.pc = "idle" /\ outbox # <<>> /\ Head(outbox).op = "Bytes" /\ outbox' = Tail(outbox)
  BY DEF Takes
<1> DEFINE c == Head(outbox).chunk
           f == InFlight
<1>t. /\ outbox \in Seq(Command) /\ f \in Nat /\ emitted \in Nat /\ pushed \in Nat
      /\ Len(slot.backlog) \in Nat /\ fanout.backlog = <<>> /\ f <= emitted
      /\ ChunksOf(outbox, "Bytes") = (f + 1) .. emitted /\ Rising(outbox, "Bytes")
  BY <1>a, <1>1, FlowTypes DEF BacklogHeld, Numbered
<1>2. f = pushed + Len(slot.backlog)
  <2> DEFINE t == Len(slot.backlog)
  <2>1. f = pushed + 0 + t /\ t \in Nat
    BY <1>t DEF InFlight
  <2> HIDE DEF t, f
  <2>2. f = pushed + t
    BY <1>t, <2>1
  <2> QED BY <2>2 DEF t
<1>3. \A m \in Command : m.op = "Bytes" => m.chunk \in Nat
  BY CommandFields
<1>4. /\ Tail(outbox) \in Seq(Command) /\ Rising(Tail(outbox), "Bytes")
      /\ c \in ChunksOf(outbox, "Bytes")
      /\ ChunksOf(Tail(outbox), "Bytes") = ChunksOf(outbox, "Bytes") \ {c}
      /\ \A x \in ChunksOf(Tail(outbox), "Bytes") : c < x
  BY <1>1, <1>3, <1>t, ChunksTail
<1> HIDE DEF c, f
<1>5. c \in Nat /\ c >= f + 1 /\ c <= emitted
  BY <1>4, <1>t
<1>6. c = f + 1
  <2>1. ASSUME c # f + 1 PROVE FALSE
    <3>1. f + 1 \in ChunksOf(Tail(outbox), "Bytes")
      BY <1>4, <1>5, <1>t, <2>1
    <3>2. c < f + 1
      BY <1>4, <3>1
    <3> QED BY <1>5, <1>t, <3>2
  <2> QED BY <2>1
<1>7. ((f + 1) .. emitted) \ {f + 1} = (f + 2) .. emitted
  BY <1>t
<1>8. f < emitted
  BY <1>5, <1>6, <1>t
<1> QED BY <1>1, <1>2, <1>4, <1>5, <1>6, <1>7, <1>8, <1>t DEF c, f

\* A command that is no output is taken from the channel.
LEMMA CommandTaken ==
    ASSUME FlowInv, NEW op \in {"ReserveViewer", "ActivateViewer", "Detach"}, Takes(op)
    PROVE  /\ fanout.pc = "idle" /\ fanout.backlog = <<>>
           /\ Head(outbox) \in Command /\ outbox' \in Seq(Command)
           /\ ChunksOf(outbox', "Bytes") = ChunksOf(outbox, "Bytes")
           /\ Rising(outbox', "Bytes")
<1>1. fanout.pc = "idle" /\ outbox # <<>> /\ Head(outbox).op # "Bytes" /\ outbox' = Tail(outbox)
  BY DEF Takes
<1>2. fanout.backlog = <<>> /\ Rising(outbox, "Bytes") /\ outbox \in Seq(Command)
  BY <1>1, FlowTypes DEF FlowInv, BacklogHeld, Numbered
<1>3. \A m \in Command : m.op = "Bytes" => m.chunk \in Nat
  BY CommandFields
<1>4. /\ Head(outbox) \in Command /\ Tail(outbox) \in Seq(Command) /\ Rising(Tail(outbox), "Bytes")
      /\ ChunksOf(Tail(outbox), "Bytes") = ChunksOf(outbox, "Bytes")
  BY <1>1, <1>2, <1>3, ChunksTail
<1> QED BY <1>1, <1>2, <1>4

SlotType == [state: {"Empty", "Reserved", "Active"}, lease: Nat, viewer: ViewerOrNone, backlog: Seq(Nat)]
FanoutType == [pc: {"idle", "activating", "aborting", "draining"}, lease: Nat,
               viewer: ViewerOrNone, backlog: Seq(Nat)]

\* An empty slot and an idle worker.
LEMMA EmptyTypes ==
    /\ EmptySlot \in SlotType /\ EmptySlot.state = "Empty" /\ EmptySlot.backlog = <<>>
    /\ IdleFanout \in FanoutType /\ IdleFanout.pc = "idle" /\ IdleFanout.backlog = <<>>
BY DEF EmptySlot, IdleFanout, SlotType, FanoutType, NoLease, NoViewer, ViewerOrNone

\* write_bytes: the chunk goes on the reservation's backlog, or is pushed.
LEMMA WriteStep ==
    ASSUME FlowInv, FanoutWrite
    PROVE  FlowInv'
<1>a. TypeOK /\ BacklogHeld /\ Numbered /\ QueueInv
  BY DEF FlowInv
<1> DEFINE c == Head(outbox).chunk
           b == slot.backlog
           n == Len(b)
           f == InFlight
<1>1. /\ Takes("Bytes") /\ UNCHANGED <<emitted, nextViewer, fanout, actorVars, conn, viewerVars, inputUp>>
      /\ \/ /\ slot.state = "Reserved"
            /\ slot' = [slot EXCEPT !.backlog = Append(b, c)]
            /\ UNCHANGED <<stream, queueVars>>
         \/ /\ slot.state # "Reserved"
            /\ Queue!PushDropOldest(c)
            /\ \/ /\ stream' = [stream EXCEPT ![slot.viewer] = Append(@, c)]
                  /\ slot' = slot
               \/ slot' = EmptySlot /\ stream' = stream
  BY DEF FanoutWrite
<1>2. /\ c = f + 1 /\ c \in Nat /\ fanout.pc = "idle" /\ fanout.backlog = <<>> /\ outbox' \in Seq(Command)
      /\ f = pushed + n /\ f < emitted /\ ChunksOf(outbox', "Bytes") = (f + 2) .. emitted
      /\ Rising(outbox', "Bytes")
  BY <1>1, ChunkTaken
<1>3. /\ pushed \in Nat /\ emitted \in Nat /\ n \in Nat /\ f \in Nat /\ b \in Seq(Nat)
      /\ DOMAIN b = 1 .. n /\ \A i \in 1 .. n : b[i] = pushed + i
      /\ emitted <= MaxOutput /\ slot \in SlotType
  BY <1>a, FlowTypes DEF Numbered, TypeOK, SlotType
<1>i. InFlight' = pushed' + Len(fanout'.backlog) + Len(slot'.backlog)
  BY DEF InFlight
<1>n. Len(b) = n /\ b = slot.backlog
  OBVIOUS
<1> HIDE DEF c, b, n, f
<1>4. CASE /\ slot.state = "Reserved" /\ slot' = [slot EXCEPT !.backlog = Append(b, c)]
           /\ UNCHANGED <<stream, queueVars>>
  <2>1. /\ Append(b, c) \in Seq(Nat) /\ Len(Append(b, c)) = n + 1 /\ DOMAIN Append(b, c) = 1 .. (n + 1)
        /\ \A i \in 1 .. n : Append(b, c)[i] = b[i]
        /\ Append(b, c)[n + 1] = c
    BY <1>2, <1>3, <1>n
  <2>2. slot' \in SlotType /\ slot'.backlog = Append(b, c) /\ slot'.state = "Reserved"
    BY <1>3, <1>4, <2>1 DEF SlotType
  <2>3. pushed' = pushed /\ fanout' = fanout /\ emitted' = emitted
    BY <1>1, <1>4 DEF queueVars
  <2>4. InFlight' = f + 1
    <3>1. InFlight' = pushed + 0 + (n + 1)
      BY <1>2, <1>i, <2>1, <2>2, <2>3
    <3> QED BY <1>2, <1>3, <3>1
  <2>5. \A i \in 1 .. (n + 1) : Append(b, c)[i] = pushed + i
    <3>1. c = pushed + (n + 1)
      BY <1>2, <1>3
    <3>2. \A i \in 1 .. (n + 1) : i \in 1 .. n \/ i = n + 1
      BY <1>3
    <3> QED BY <1>3, <2>1, <3>1, <3>2
  <2>6. (f + 1) + 1 = f + 2 /\ f + 1 <= emitted
    BY <1>2, <1>3
  <2>7. Numbered'
    BY <1>2, <1>3, <2>1, <2>2, <2>3, <2>4, <2>5, <2>6 DEF Numbered
  <2>8. BacklogHeld'
    BY <1>2, <2>2, <2>3 DEF BacklogHeld
  <2>9. QueueInv'
    BY <1>a, <1>4, QueueKept
  <2>10. TypeOK'
    BY <1>a, <1>1, <1>2, <1>4, <2>2, <2>9 DEF TypeOK, QueueInv, SlotType, actorVars, viewerVars
  <2> QED BY <2>7, <2>8, <2>9, <2>10 DEF FlowInv
<1>5. CASE /\ slot.state # "Reserved" /\ Queue!PushDropOldest(c)
           /\ \/ /\ stream' = [stream EXCEPT ![slot.viewer] = Append(@, c)]
                 /\ slot' = slot
              \/ slot' = EmptySlot /\ stream' = stream
  <2>1. b = <<>> /\ n = 0
    BY <1>a, <1>5, <1>n DEF BacklogHeld
  <2>2. c = pushed + 1 /\ f = pushed
    BY <1>2, <1>3, <2>1
  <2>3. QueueInv' /\ pushed' = pushed + 1
    BY <1>a, <1>5, <2>2, QueuePush
  <2>4. slot' \in SlotType /\ slot'.backlog = <<>> /\ fanout' = fanout /\ emitted' = emitted
    BY <1>1, <1>3, <1>5, <1>n, <2>1, EmptyTypes
  <2>5. InFlight' = f + 1
    <3>1. InFlight' = (pushed + 1) + 0 + 0
      BY <1>2, <1>i, <2>3, <2>4
    <3> QED BY <1>3, <2>2, <3>1
  <2>6. (f + 1) + 1 = f + 2 /\ f + 1 <= emitted
    BY <1>2, <1>3
  <2>7. Numbered'
    BY <1>2, <1>3, <2>4, <2>5, <2>6 DEF Numbered
  <2>8. BacklogHeld'
    BY <1>2, <2>4 DEF BacklogHeld
  <2>9. stream' \in [Viewers -> Seq(Nat)]
    <3>1. stream \in [Viewers -> Seq(Nat)]
      BY <1>a DEF TypeOK
    <3>2. \A v \in Viewers : Append(stream[v], c) \in Seq(Nat)
      BY <1>2, <3>1
    <3> QED BY <1>5, <3>1, <3>2
  <2>10. TypeOK'
    BY <1>a, <1>1, <1>2, <2>3, <2>4, <2>9 DEF TypeOK, QueueInv, SlotType, actorVars, viewerVars
  <2> QED BY <2>3, <2>7, <2>8, <2>10 DEF FlowInv
<1> QED BY <1>1, <1>4, <1>5

\* reserve and activate: commands that may change the slot and the worker, and
\* answer a connection.
LEMMA SlotSteps ==
    ASSUME FlowInv, FanoutReserve \/ FanoutActivate
    PROVE  FlowInv'
<1>a. TypeOK /\ BacklogHeld /\ Numbered /\ QueueInv
  BY DEF FlowInv
<1>s. /\ slot \in SlotType /\ fanout \in FanoutType /\ nextViewer \in Nat
      /\ conn \in [Viewers -> ConnType]
  BY <1>a DEF TypeOK, SlotType, FanoutType, ConnType
<1>u. UNCHANGED <<emitted, queueVars, actorVars, stream, viewerVars, inputUp>>
  BY DEF FanoutReserve, FanoutActivate
<1>q. QueueInv' /\ pushed' = pushed
  BY <1>a, <1>u, QueueKept DEF queueVars
<1> DEFINE m == Head(outbox)
<1>1. CASE FanoutReserve
  <2>1. /\ fanout.pc = "idle" /\ fanout.backlog = <<>> /\ m \in Command /\ outbox' \in Seq(Command)
        /\ ChunksOf(outbox', "Bytes") = ChunksOf(outbox, "Bytes") /\ Rising(outbox', "Bytes")
        /\ m.op = "ReserveViewer"
    BY <1>1, CommandTaken DEF FanoutReserve, Takes
  <2>2. m.viewer \in Viewers
    BY <2>1, CommandFields
  <2> DEFINE v == m.viewer
             taken == [state |-> "Reserved", lease |-> nextViewer, viewer |-> v, backlog |-> <<>>]
  <2>3. /\ fanout' = fanout
        /\ \/ /\ slot.state = "Empty" /\ slot' = taken /\ nextViewer' = nextViewer + 1
              /\ conn' = [conn EXCEPT ![v].pc = "reserved", ![v].lease = nextViewer]
           \/ Goto(v, "rejected") /\ slot' = slot /\ nextViewer' = nextViewer
    BY <1>1 DEF FanoutReserve
  <2> HIDE DEF m
  <2>4. slot' \in SlotType /\ slot'.backlog = slot.backlog /\ nextViewer' \in Nat
        /\ (slot'.state # "Reserved" => slot' = slot)
    <3>1. taken \in SlotType /\ taken.backlog = <<>> /\ taken.state = "Reserved"
      BY <1>s, <2>2 DEF SlotType, ViewerOrNone
    <3> HIDE DEF taken
    <3>2. slot.state = "Empty" => slot.backlog = <<>>
      BY <1>a DEF BacklogHeld
    <3> QED BY <1>s, <2>3, <3>1, <3>2
  <2>5. conn' \in [Viewers -> ConnType]
    <3>1. CASE Goto(v, "rejected")
      BY <1>a, <3>1, GotoFacts DEF ConnStates
    <3>2. CASE conn' = [conn EXCEPT ![v].pc = "reserved", ![v].lease = nextViewer]
      BY <1>s, <3>2 DEF ConnType, ConnStates, Attaching
    <3> QED BY <2>3, <3>1, <3>2
  <2>6. Numbered'
    BY <1>u, <1>q, <2>1, <2>3, <2>4, BacklogMoves
  <2>7. BacklogHeld'
    BY <1>a, <2>1, <2>3, <2>4 DEF BacklogHeld
  <2>8. TypeOK'
    BY <1>a, <1>s, <1>u, <1>q, <2>1, <2>3, <2>4, <2>5
       DEF TypeOK, QueueInv, SlotType, FanoutType, ConnType, actorVars, viewerVars
  <2> QED BY <1>q, <2>6, <2>7, <2>8 DEF FlowInv
<1>2. CASE FanoutActivate
  <2>1. /\ fanout.pc = "idle" /\ fanout.backlog = <<>> /\ m \in Command /\ outbox' \in Seq(Command)
        /\ ChunksOf(outbox', "Bytes") = ChunksOf(outbox, "Bytes") /\ Rising(outbox', "Bytes")
        /\ m.op = "ActivateViewer"
    BY <1>2, CommandTaken DEF FanoutActivate, Takes
  <2>2. m.viewer \in Viewers
    BY <2>1, CommandFields
  <2> DEFINE v == m.viewer
             busy == [pc |-> "activating", lease |-> slot.lease, viewer |-> v, backlog |-> slot.backlog]
  <2>3. /\ nextViewer' = nextViewer
        /\ \/ slot.state = "Reserved" /\ fanout' = busy /\ slot' = EmptySlot /\ conn' = conn
           \/ Goto(v, "failed") /\ slot' = slot /\ fanout' = fanout
    BY <1>2 DEF FanoutActivate
  <2> HIDE DEF m
  <2>4. /\ slot' \in SlotType /\ fanout' \in FanoutType
        /\ \/ fanout' = fanout /\ slot' = slot
           \/ /\ fanout.backlog = <<>> /\ fanout'.backlog = slot.backlog /\ slot'.backlog = <<>>
              /\ slot'.state = "Empty" /\ fanout'.pc = "activating"
    <3>1. busy \in FanoutType /\ busy.backlog = slot.backlog /\ busy.pc = "activating"
      BY <1>s, <2>2 DEF SlotType, FanoutType, ViewerOrNone
    <3> HIDE DEF busy
    <3> QED BY <1>s, <2>1, <2>3, <3>1, EmptyTypes
  <2>5. conn' \in [Viewers -> ConnType]
    <3>1. CASE Goto(v, "failed")
      BY <1>a, <3>1, GotoFacts DEF ConnStates
    <3> QED BY <1>s, <2>3, <3>1
  <2>6. Numbered'
    BY <1>u, <1>q, <2>1, <2>4, BacklogMoves
  <2>7. BacklogHeld'
    BY <1>a, <2>4 DEF BacklogHeld
  <2>8. TypeOK'
    BY <1>a, <1>u, <1>q, <2>1, <2>3, <2>4, <2>5
       DEF TypeOK, QueueInv, SlotType, FanoutType, ConnType, actorVars, viewerVars
  <2> QED BY <1>q, <2>6, <2>7, <2>8 DEF FlowInv
<1> QED BY <1>1, <1>2

\* detach: the backlog of a reservation that is given up goes to the worker.
LEMMA DetachStep ==
    ASSUME FlowInv, FanoutDetach
    PROVE  FlowInv'
<1>a. TypeOK /\ BacklogHeld /\ Numbered /\ QueueInv
  BY DEF FlowInv
<1>s. slot \in SlotType /\ fanout \in FanoutType
  BY <1>a DEF TypeOK, SlotType, FanoutType
<1>u. UNCHANGED <<emitted, nextViewer, queueVars, actorVars, conn, stream, viewerVars, inputUp>>
  BY DEF FanoutDetach
<1>q. QueueInv' /\ pushed' = pushed
  BY <1>a, <1>u, QueueKept DEF queueVars
<1>1. /\ fanout.pc = "idle" /\ fanout.backlog = <<>> /\ outbox' \in Seq(Command)
      /\ ChunksOf(outbox', "Bytes") = ChunksOf(outbox, "Bytes") /\ Rising(outbox', "Bytes")
  BY CommandTaken DEF FanoutDetach
<1> DEFINE drain == [IdleFanout EXCEPT !.pc = "draining", !.backlog = slot.backlog]
<1>2. \/ fanout' = fanout /\ slot' = slot
      \/ slot.state # "Reserved" /\ fanout' = fanout /\ slot' = EmptySlot
      \/ slot.state = "Reserved" /\ fanout' = drain /\ slot' = EmptySlot
  BY DEF FanoutDetach
<1>3. drain \in FanoutType /\ drain.backlog = slot.backlog /\ drain.pc = "draining"
  BY <1>s DEF IdleFanout, SlotType, FanoutType, NoLease, NoViewer, ViewerOrNone
<1> HIDE DEF drain
<1>4. slot.state # "Reserved" => slot.backlog = <<>>
  BY <1>a DEF BacklogHeld
<1>5. /\ slot' \in SlotType /\ fanout' \in FanoutType
      /\ \/ fanout'.backlog = fanout.backlog /\ slot'.backlog = slot.backlog
         \/ fanout.backlog = <<>> /\ fanout'.backlog = slot.backlog /\ slot'.backlog = <<>>
  BY <1>s, <1>1, <1>2, <1>3, <1>4, EmptyTypes
<1>6. Numbered'
  BY <1>u, <1>q, <1>1, <1>5, BacklogMoves
<1>7. BacklogHeld'
  BY <1>a, <1>1, <1>2, <1>3, EmptyTypes DEF BacklogHeld
<1>8. TypeOK'
  BY <1>a, <1>u, <1>q, <1>1, <1>5 DEF TypeOK, QueueInv, SlotType, FanoutType, actorVars, viewerVars
<1> QED BY <1>q, <1>6, <1>7, <1>8 DEF FlowInv

\* One chunk of the worker's backlog is pushed.
LEMMA BacklogSteps ==
    ASSUME FlowInv, FanoutReplayBacklog \/ FanoutDrain
    PROVE  FlowInv'
<1>a. TypeOK /\ BacklogHeld /\ Numbered /\ QueueInv
  BY DEF FlowInv
<1>s. slot \in SlotType /\ fanout \in FanoutType /\ stream \in [Viewers -> Seq(Nat)]
  BY <1>a DEF TypeOK, SlotType, FanoutType
<1> DEFINE b == fanout.backlog
<1>1. /\ fanout.pc # "idle" /\ b # <<>> /\ Queue!PushDropOldest(Head(b))
      /\ UNCHANGED <<emitted, outbox, slot, nextViewer, actorVars, conn, viewerVars, inputUp>>
      /\ \/ fanout' = [fanout EXCEPT !.backlog = Tail(b), !.pc = fanout.pc]
         \/ fanout' = [fanout EXCEPT !.backlog = Tail(b), !.pc = "aborting"]
         \/ fanout' = [fanout EXCEPT !.backlog = Tail(b)]
      /\ stream' = stream \/ stream' = [stream EXCEPT ![fanout.viewer] = Append(@, Head(b))]
  BY DEF FanoutReplayBacklog, FanoutDrain
<1>2. /\ Head(b) = pushed + 1 /\ slot.state = "Empty" /\ Head(b) \in Nat /\ Tail(b) \in Seq(Nat)
  BY <1>1, BacklogPushed
<1>3. QueueInv' /\ pushed' = pushed + 1
  BY <1>a, <1>1, <1>2, QueuePush
<1>4. fanout' \in FanoutType /\ fanout'.backlog = Tail(b) /\ fanout'.pc # "idle"
  <2> DEFINE t == Tail(b)
  <2> HIDE DEF b, t
  <2>1. t \in Seq(Nat)
    BY <1>2 DEF t
  <2>2. \E pc \in {fanout.pc, "aborting"} : fanout' = [pc |-> pc, lease |-> fanout.lease, viewer |-> fanout.viewer, backlog |-> t]
    BY <1>s, <1>1 DEF FanoutType, t
  <2>3. fanout' \in FanoutType /\ fanout'.backlog = t /\ fanout'.pc # "idle"
    BY <1>s, <1>1, <2>1, <2>2 DEF FanoutType
  <2> QED BY <2>3 DEF t
<1>5. stream' \in [Viewers -> Seq(Nat)]
  <2>1. PICK x \in Nat : x = Head(b)
    BY <1>2
  <2>2. \A v \in Viewers : Append(stream[v], x) \in Seq(Nat)
    BY <1>s
  <2>3. stream' = stream \/ stream' = [stream EXCEPT ![fanout.viewer] = Append(@, x)]
    BY <1>1, <2>1
  <2> HIDE DEF b
  <2> QED BY <1>s, <2>2, <2>3
<1>6. Numbered'
  BY <1>1, <1>3, <1>4, BacklogPushed
<1>7. BacklogHeld'
  BY <1>a, <1>1, <1>2, <1>4 DEF BacklogHeld
<1>8. TypeOK'
  BY <1>a, <1>1, <1>3, <1>4, <1>5 DEF TypeOK, QueueInv, FanoutType, actorVars, viewerVars
<1> QED BY <1>3, <1>6, <1>7, <1>8 DEF FlowInv

\* The worker is done with its backlog.
LEMMA BacklogEnds ==
    ASSUME FlowInv, FanoutActivated \/ FanoutDrained
    PROVE  FlowInv'
<1>a. TypeOK /\ BacklogHeld /\ Numbered /\ QueueInv
  BY DEF FlowInv
<1>s. slot \in SlotType /\ fanout \in FanoutType /\ conn \in [Viewers -> ConnType]
  BY <1>a DEF TypeOK, SlotType, FanoutType, ConnType
<1> DEFINE active == [state |-> "Active", lease |-> fanout.lease, viewer |-> fanout.viewer, backlog |-> <<>>]
<1>1. /\ fanout.pc # "idle" /\ fanout.backlog = <<>> /\ fanout' = IdleFanout
      /\ UNCHANGED <<emitted, outbox, nextViewer, queueVars, actorVars, stream, viewerVars, inputUp>>
      /\ slot' = slot \/ slot' = active
      /\ conn' = conn \/ (\E pc \in {"active", "failed"} : Goto(fanout.viewer, pc))
  BY DEF FanoutActivated, FanoutDrained
<1>2. QueueInv' /\ pushed' = pushed
  BY <1>a, <1>1, QueueKept DEF queueVars
<1>3. active \in SlotType /\ active.backlog = <<>> /\ active.state = "Active"
  BY <1>s DEF SlotType, FanoutType
<1> HIDE DEF active
<1>4. slot' \in SlotType /\ slot'.backlog = slot.backlog /\ slot'.backlog = <<>> /\ slot.state = "Empty"
  BY <1>a, <1>s, <1>1, <1>3 DEF BacklogHeld
<1>5. conn' \in [Viewers -> ConnType]
  <2>1. ASSUME NEW pc \in {"active", "failed"}, Goto(fanout.viewer, pc) PROVE conn' \in [Viewers -> ConnType]
    BY <1>a, <2>1, GotoFacts DEF ConnStates
  <2> QED BY <1>s, <1>1, <2>1
<1>6. ChunksOf(outbox', "Bytes") = ChunksOf(outbox, "Bytes") /\ Rising(outbox', "Bytes")
  BY <1>a, <1>1 DEF Numbered
<1>7. Numbered'
  BY <1>1, <1>2, <1>4, <1>6, BacklogMoves, EmptyTypes
<1>8. BacklogHeld'
  BY <1>1, <1>4, EmptyTypes DEF BacklogHeld
<1>9. TypeOK'
  BY <1>a, <1>1, <1>2, <1>4, <1>5, EmptyTypes
     DEF TypeOK, QueueInv, SlotType, FanoutType, ConnType, actorVars, viewerVars
<1> QED BY <1>2, <1>7, <1>8, <1>9 DEF FlowInv

\* Steps that send the fanout a command.
LEMMA SendSteps ==
    ASSUME FlowInv,
           \/ ReadOutput
           \/ \E v \in Viewers : \/ ReserveViewer(v) \/ ReplaySnapshot(v) \/ PumpEnds(v)
                                 \/ PumpFails(v) \/ DetachAfterError(v)
    PROVE  FlowInv'
<1>a. TypeOK /\ BacklogHeld /\ Numbered /\ QueueInv
  BY DEF FlowInv
<1>s. conn \in [Viewers -> ConnType] /\ stream \in [Viewers -> Seq(Nat)] /\ emitted \in Nat
  BY <1>a DEF TypeOK, ConnType
<1>u. UNCHANGED <<slot, nextViewer, fanout, queueVars, transcript, shed, viewerVars, inputUp>>
  BY DEF ReadOutput, ReserveViewer, ReplaySnapshot, PumpEnds, PumpFails, DetachAfterError, actorVars
<1>q. QueueInv' /\ pushed' = pushed
  BY <1>a, <1>u, QueueKept DEF queueVars
<1>0. outbox \in Seq(Command)
  BY <1>a DEF TypeOK
<1>1. ASSUME \/ UNCHANGED <<emitted, outbox>>
             \/ \E m \in Command :
                   /\ outbox' = Append(outbox, m)
                   /\ \/ m.op = "Bytes" /\ m.chunk = emitted + 1 /\ emitted' = emitted + 1 /\ emitted < MaxOutput
                      \/ m.op # "Bytes" /\ emitted' = emitted,
             mailbox' \in Seq(Message), conn' \in [Viewers -> ConnType], stream' \in [Viewers -> Seq(Nat)]
      PROVE  FlowInv'
  <2>1. BacklogHeld' /\ Numbered' /\ outbox' \in Seq(Command)
    <3>1. CASE UNCHANGED <<emitted, outbox>>
      BY <1>a, <1>u, <1>q, <1>0, <3>1, FlowKept
    <3>2. CASE ~UNCHANGED <<emitted, outbox>>
      BY <1>1, <1>u, <1>q, <3>2, ChannelGrows
    <3> QED BY <3>1, <3>2
  <2>2. emitted' \in Nat
    BY <1>s, <1>1
  <2>3. TypeOK'
    BY <1>a, <1>u, <1>q, <1>1, <2>1, <2>2 DEF TypeOK, QueueInv, ConnType, viewerVars
  <2> QED BY <1>q, <2>1, <2>3 DEF FlowInv
<1>2. CASE ReadOutput
  <2>1. [op |-> "Bytes", chunk |-> emitted + 1] \in Command
    BY <1>s DEF Command
  <2>2. UNCHANGED <<mailbox, conn, stream>> /\ mailbox \in Seq(Message)
    BY <1>2, <1>a DEF ReadOutput, actorVars, TypeOK
  <2> QED BY <1>1, <1>2, <1>s, <2>1, <2>2 DEF ReadOutput
<1>3. ASSUME NEW v \in Viewers,
             \/ ReserveViewer(v) \/ ReplaySnapshot(v) \/ PumpEnds(v) \/ PumpFails(v) \/ DetachAfterError(v)
      PROVE  FlowInv'
  <2>1. emitted' = emitted
    BY <1>3 DEF ReserveViewer, ReplaySnapshot, PumpEnds, PumpFails, DetachAfterError
  <2>2. outbox' = outbox \/ \E m \in Command : m.op # "Bytes" /\ outbox' = Append(outbox, m)
    <3>1. conn[v].lease \in Nat
      BY <1>s DEF ConnType
    <3>2. /\ [op |-> "ReserveViewer", viewer |-> v] \in Command
          /\ [op |-> "ActivateViewer", viewer |-> v, lease |-> conn[v].lease] \in Command
          /\ Detach(v) \in Command
      BY <3>1 DEF Command, Detach
    <3>3. /\ [op |-> "ReserveViewer", viewer |-> v].op # "Bytes"
          /\ [op |-> "ActivateViewer", viewer |-> v, lease |-> conn[v].lease].op # "Bytes"
          /\ Detach(v).op # "Bytes"
      BY DEF Detach
    <3> QED BY <1>3, <3>2, <3>3 DEF ReserveViewer, ReplaySnapshot, PumpEnds, PumpFails, DetachAfterError
  <2>3. \E pc \in ConnStates : Goto(v, pc)
    BY <1>3 DEF ReserveViewer, ReplaySnapshot, PumpEnds, PumpFails, DetachAfterError, ConnStates, Attaching
  <2>4. conn' \in [Viewers -> ConnType]
    BY <1>a, <2>3, GotoFacts
  <2>5. mailbox' \in Seq(Message)
    <3>1. mailbox' = mailbox \/ TrySend([op |-> "WorkerLifecycle"])
      BY <1>3 DEF ReserveViewer, ReplaySnapshot, PumpEnds, PumpFails, DetachAfterError, actorVars
    <3>2. [op |-> "WorkerLifecycle"] \in Message /\ mailbox \in Seq(Message)
      BY <1>a DEF Message, TypeOK
    <3> QED BY <1>a, <3>1, <3>2, MailSent
  <2>6. stream' \in [Viewers -> Seq(Nat)]
    <3>1. stream' = stream \/ stream' = [stream EXCEPT ![v] = stream[v] \o conn[v].snapshot]
      BY <1>3 DEF ReserveViewer, ReplaySnapshot, PumpEnds, PumpFails, DetachAfterError
    <3>2. conn[v].snapshot \in Seq(Nat) /\ stream[v] \in Seq(Nat)
      BY <1>s DEF ConnType
    <3>3. stream[v] \o conn[v].snapshot \in Seq(Nat)
      BY <3>2
    <3> QED BY <1>s, <3>1, <3>3
  <2> QED BY <1>1, <2>1, <2>2, <2>4, <2>5, <2>6
<1> QED BY <1>2, <1>3

\* Steps of the viewers, the input plane and the connections that neither send
\* the fanout anything nor touch the queue.
LEMMA QuietSteps ==
    ASSUME FlowInv,
           \/ InputCloses
           \/ \E v \in Viewers : \/ Viewer(v) \/ WriteAttachAccepted(v) \/ AskSnapshot(v)
                                 \/ ReplayFails(v) \/ AskFails(v) \/ StartPump(v) \/ PumpViewerInput(v)
    PROVE  FlowInv' /\ UNCHANGED <<emitted, outbox, slot, nextViewer, fanout, queueVars, transcript, shed, stream>>
<1>a. TypeOK /\ BacklogHeld /\ Numbered /\ QueueInv
  BY DEF FlowInv
<1>u. UNCHANGED <<emitted, outbox, slot, nextViewer, fanout, queueVars, transcript, shed, stream>>
  BY DEF InputCloses, Viewer, ViewerTypes, ViewerCloses, WriteAttachAccepted, AskSnapshot, AskFails,
         ReplayFails, StartPump, PumpViewerInput, fanoutVars, actorVars
<1>q. QueueInv' /\ pushed' = pushed
  BY <1>a, <1>u, QueueKept DEF queueVars
<1>f. BacklogHeld' /\ Numbered'
  BY <1>a, <1>u, <1>q, FlowKept
<1>1. ASSUME mailbox' \in Seq(Message), conn' \in [Viewers -> ConnType], peer' \in [Viewers -> BOOLEAN],
             keys' \in [Viewers -> Nat], inputUp' \in BOOLEAN
      PROVE  FlowInv'
  BY <1>a, <1>u, <1>q, <1>f, <1>1 DEF FlowInv, TypeOK, QueueInv, ConnType
<1>s. /\ mailbox \in Seq(Message) /\ conn \in [Viewers -> ConnType] /\ peer \in [Viewers -> BOOLEAN]
      /\ keys \in [Viewers -> Nat] /\ inputUp \in BOOLEAN
  BY <1>a DEF TypeOK, ConnType
<1>2. CASE InputCloses
  <2>1. UNCHANGED <<mailbox, conn, peer, keys>> /\ inputUp' = FALSE
    BY <1>2 DEF InputCloses, actorVars, viewerVars
  <2>2. inputUp' \in BOOLEAN
    BY <2>1, Zenon
  <2>3. /\ mailbox' \in Seq(Message) /\ conn' \in [Viewers -> ConnType] /\ peer' \in [Viewers -> BOOLEAN]
        /\ keys' \in [Viewers -> Nat]
    BY <1>s, <2>1
  <2> QED BY <1>u, <1>1, <2>2, <2>3
<1>3. ASSUME NEW v \in Viewers, Viewer(v) \/ PumpViewerInput(v)
      PROVE  FlowInv'
  <2>1. UNCHANGED <<mailbox, conn, inputUp>>
    BY <1>3 DEF Viewer, ViewerTypes, ViewerCloses, PumpViewerInput, actorVars
  <2>2. peer' \in [Viewers -> BOOLEAN] /\ keys' \in [Viewers -> Nat]
    <3>1. \/ peer' = peer /\ keys' = [keys EXCEPT ![v] = keys[v] + 1]
          \/ peer' = peer /\ keys[v] > 0 /\ keys' = [keys EXCEPT ![v] = keys[v] - 1]
          \/ peer' = [peer EXCEPT ![v] = FALSE] /\ keys' = keys
      BY <1>3 DEF Viewer, ViewerTypes, ViewerCloses, PumpViewerInput
    <3>2. keys[v] \in Nat /\ keys[v] + 1 \in Nat /\ (keys[v] > 0 => keys[v] - 1 \in Nat)
      BY <1>s
    <3>3. [peer EXCEPT ![v] = FALSE] \in [Viewers -> BOOLEAN]
      BY <1>s, Zenon
    <3>4. keys' \in [Viewers -> Nat]
      BY <1>s, <3>1, <3>2
    <3> QED BY <1>s, <3>1, <3>3, <3>4
  <2> QED BY <1>s, <1>1, <2>1, <2>2
<1>4. ASSUME NEW v \in Viewers,
                             \/ WriteAttachAccepted(v) \/ AskSnapshot(v) \/ AskFails(v)
                             \/ ReplayFails(v) \/ StartPump(v)
      PROVE  FlowInv'
  <2>1. UNCHANGED <<peer, keys, inputUp>>
    BY <1>4 DEF WriteAttachAccepted, AskSnapshot, ReplayFails, AskFails, StartPump, viewerVars
  <2>2. \E pc \in ConnStates : Goto(v, pc)
    BY <1>4 DEF WriteAttachAccepted, AskSnapshot, ReplayFails, AskFails, StartPump, ConnStates, Attaching
  <2>3. conn' \in [Viewers -> ConnType]
    BY <1>a, <2>2, GotoFacts
  <2>4. mailbox' \in Seq(Message)
    <3>1. \/ mailbox' = mailbox \/ TrySend([op |-> "WorkerLifecycle"])
          \/ mailbox' = Append(mailbox, [op |-> "Snapshot", viewer |-> v])
      BY <1>4 DEF WriteAttachAccepted, AskSnapshot, ReplayFails, AskFails, StartPump, actorVars
    <3>2. [op |-> "WorkerLifecycle"] \in Message /\ [op |-> "Snapshot", viewer |-> v] \in Message
      BY DEF Message
    <3>3. Append(mailbox, [op |-> "Snapshot", viewer |-> v]) \in Seq(Message)
      BY <1>s, <3>2
    <3> QED BY <1>a, <1>s, <3>1, <3>2, <3>3, MailSent
  <2> QED BY <1>s, <1>1, <2>1, <2>3, <2>4
<1> QED BY <1>u, <1>2, <1>3, <1>4

\* Steps of the scriber and of the actor.
LEMMA ScribeSteps ==
    ASSUME FlowInv, Scriber \/ ActorHandles
    PROVE  /\ FlowInv'
           /\ UNCHANGED <<emitted, outbox, slot, nextViewer, fanout, pushed, stream, peer>>
<1>a. TypeOK /\ BacklogHeld /\ Numbered /\ QueueInv
  BY DEF FlowInv
<1>s. /\ mailbox \in Seq(Message) /\ conn \in [Viewers -> ConnType] /\ transcript \in Seq(Nat)
      /\ shed \in SUBSET Nat
  BY <1>a DEF TypeOK, ConnType
<1>u. UNCHANGED <<emitted, outbox, slot, nextViewer, fanout, stream, peer, keys, inputUp, pushed>>
  BY DEF Scriber, ScriberWaits, ScriberTells, ActorHandles, fanoutVars, viewerVars, queueVars,
         Queue!PopNotice, Queue!WaitNotEmpty, Queue!SpuriousWakeup, Queue!NoticeHandled
<1>f. BacklogHeld' /\ Numbered'
  BY <1>a, <1>u, FlowKept
<1>1. ASSUME QueueInv', mailbox' \in Seq(Message), conn' \in [Viewers -> ConnType],
             transcript' \in Seq(Nat), shed' \in SUBSET Nat
      PROVE  FlowInv'
  BY <1>a, <1>u, <1>f, <1>1 DEF FlowInv, TypeOK, QueueInv, ConnType
<1>2. CASE ScriberWaits
  <2>1. QueueInv'
    <3>1. CASE Queue!PopNotice
      BY <1>a, <3>1, QueuePop
    <3>2. CASE Queue!WaitNotEmpty \/ Queue!SpuriousWakeup
      BY <1>a, <3>2, QueueRest DEF Queue!WaitNotEmpty, Queue!SpuriousWakeup, Queue!ConsumerStates
    <3> QED BY <1>2, <3>1, <3>2 DEF ScriberWaits
  <2> QED BY <1>s, <1>u, <1>1, <1>2, <2>1 DEF ScriberWaits, actorVars
<1>3. CASE ScriberTells
  <2> DEFINE chunk == Last(popped)
             m == [op |-> "TerminalOutput", chunk |-> chunk]
  <2>1. /\ Queue!NoticeHandled /\ TrySend(m) /\ UNCHANGED <<transcript, conn>>
        /\ shed' = shed \/ shed' = shed \cup {chunk}
    BY <1>3 DEF ScriberTells
  <2>2. QueueInv'
    BY <1>a, <2>1, QueueRest DEF Queue!NoticeHandled, Queue!ConsumerStates
  <2>3. chunk \in Nat
    <3>1. popped \in Seq(Nat \ {0}) /\ popped # <<>>
      BY <1>a, <2>1 DEF QueueInv, Queue!TypeOK, Queue!NoticeHandled
    <3> QED BY <3>1 DEF Last
  <2> HIDE DEF chunk
  <2>4. m \in Message
    BY <2>3 DEF Message
  <2>5. mailbox' \in Seq(Message) /\ shed' \in SUBSET Nat
    BY <1>a, <1>s, <2>1, <2>3, <2>4, MailSent
  <2> QED BY <1>s, <1>u, <1>1, <2>1, <2>2, <2>5
<1>4. CASE ActorHandles
  <2> DEFINE m == Head(mailbox)
  <2>1. /\ mailbox # <<>> /\ mailbox' = Tail(mailbox) /\ UNCHANGED <<queueVars, shed>>
        /\ transcript' = IF m.op = "TerminalOutput" THEN Append(transcript, m.chunk) ELSE transcript
        /\ conn' = IF m.op = "Snapshot"
                   THEN [conn EXCEPT ![m.viewer].pc = "replaying", ![m.viewer].snapshot = transcript]
                   ELSE conn
    BY <1>4 DEF ActorHandles
  <2>2. m \in Message /\ mailbox' \in Seq(Message)
    BY <1>s, <2>1
  <2>3. m.op = "TerminalOutput" => m.chunk \in Nat
    BY <2>2, MessageFields
  <2> HIDE DEF m
  <2>4. transcript' \in Seq(Nat)
    BY <1>s, <2>1, <2>3
  <2>5. conn' \in [Viewers -> ConnType]
    BY <1>s, <2>1 DEF ConnType, ConnStates, Attaching
  <2>6. QueueInv' /\ shed' \in SUBSET Nat
    BY <1>a, <1>s, <2>1, QueueKept
  <2> QED BY <1>u, <1>1, <2>2, <2>4, <2>5, <2>6
<1> QED BY <1>2, <1>3, <1>4 DEF Scriber

\* Nothing has been read, nobody attached.
LEMMA InitFlow == Init => FlowInv
<1> SUFFICES ASSUME Init PROVE FlowInv
  OBVIOUS
<1>1. /\ slot = EmptySlot /\ fanout = IdleFanout /\ outbox = <<>> /\ emitted = 0 /\ pushed = 0
      /\ pending = <<>> /\ popped = <<>> /\ dropped = 0 /\ closed = FALSE /\ consumer = "ready"
      /\ QueueCapacity \in Nat \ {0} /\ MaxOutput \in Nat
  BY OutputPlaneAssumption DEF Init, Queue!Init, OutputPlaneAssumption
<1>2. QueueInv
  <2>1. Queue!LastPopped = 0
    BY <1>1 DEF Queue!LastPopped
  <2>2. Len(pending) = 0 /\ Len(popped) = 0 /\ DOMAIN pending = {}
    BY <1>1
  <2>3. Queue!TypeOK
    <3>1. pending \in Seq(Nat \ {0}) /\ popped \in Seq(Nat \ {0})
      BY <1>1
    <3>2. dropped \in Nat /\ pushed \in Nat /\ closed \in BOOLEAN /\ consumer \in Queue!ConsumerStates
      BY <1>1 DEF Queue!ConsumerStates
    <3> QED BY <3>1, <3>2 DEF Queue!TypeOK
  <2> QED BY <1>1, <2>1, <2>2, <2>3 DEF QueueInv, Queue!Bounded, Queue!Accounted, Queue!NewestRun
<1>3. BacklogHeld
  BY <1>1, EmptyTypes DEF BacklogHeld
<1>4. Numbered
  <2>1. fanout.backlog = <<>> /\ slot.backlog = <<>>
    BY <1>1, EmptyTypes
  <2>2. InFlight = 0
    BY <1>1, <2>1 DEF InFlight
  <2>3. ChunksOf(outbox, "Bytes") = {} /\ Rising(outbox, "Bytes") /\ (0 + 1) .. 0 = {}
    BY <1>1 DEF ChunksOf, Rising
  <2> QED BY <1>1, <2>1, <2>2, <2>3 DEF Numbered
<1>5. TypeOK
  <2>1. slot \in SlotType /\ fanout \in FanoutType
    BY <1>1, EmptyTypes
  <2>2. conn \in [Viewers -> ConnType]
    BY DEF Init, ConnType, ConnStates, NoLease
  <2>3. outbox \in Seq(Command) /\ mailbox \in Seq(Message) /\ transcript \in Seq(Nat)
    BY DEF Init
  <2>4. stream \in [Viewers -> Seq(Nat)]
    BY DEF Init
  <2>5. /\ emitted \in Nat /\ nextViewer \in Nat /\ inputUp \in BOOLEAN /\ shed \in SUBSET Nat
        /\ peer \in [Viewers -> BOOLEAN] /\ keys \in [Viewers -> Nat]
    BY DEF Init
  <2> QED BY <1>2, <2>1, <2>2, <2>3, <2>4, <2>5 DEF TypeOK, QueueInv, SlotType, FanoutType, ConnType
<1> QED BY <1>2, <1>3, <1>4, <1>5 DEF FlowInv

\* Every step preserves the flow's invariant.
LEMMA FlowSteps == FlowInv /\ [Next]_vars => FlowInv'
<1> SUFFICES ASSUME FlowInv, [Next]_vars PROVE FlowInv'
  OBVIOUS
<1>1. CASE UNCHANGED vars
  <2>1. UNCHANGED <<emitted, outbox, slot, nextViewer, fanout, queueVars, mailbox, transcript, shed, conn,
                    stream, peer, keys, inputUp>>
    BY <1>1 DEF vars, fanoutVars, actorVars, viewerVars
  <2>2. QueueInv' /\ pushed' = pushed
    BY <2>1, QueueKept DEF FlowInv, queueVars
  <2>3. BacklogHeld' /\ Numbered'
    BY <2>1, <2>2, FlowKept DEF FlowInv
  <2>4. TypeOK'
    BY <2>1, <2>2 DEF FlowInv, TypeOK, QueueInv
  <2> QED BY <2>2, <2>3, <2>4 DEF FlowInv
<1>2. CASE Next
  <2>1. CASE Fanout
    BY <2>1, WriteStep, SlotSteps, DetachStep, BacklogSteps, BacklogEnds DEF Fanout
  <2>2. CASE Scriber \/ ActorHandles
    BY <2>2, ScribeSteps
  <2>3. CASE ReadOutput
    BY <2>3, SendSteps
  <2>4. CASE InputCloses
    BY <2>4, QuietSteps
  <2>5. ASSUME NEW v \in Viewers, ReserveViewer(v) \/ Connection(v) \/ AskFails(v) \/ Viewer(v) PROVE FlowInv'
    BY <2>5, SendSteps, QuietSteps DEF Connection
  <2> QED BY <1>2, <2>1, <2>2, <2>3, <2>4, <2>5 DEF Next
<1> QED BY <1>1, <1>2

\* The flow's invariant holds throughout.
LEMMA FlowInvariant == Spec => []FlowInv
BY InitFlow, FlowSteps, PTL DEF Spec

\* Type correctness of the output plane.
THEOREM OutputTypeCorrect == Spec => []TypeOK
<1>1. FlowInv => TypeOK
  BY DEF FlowInv
<1> QED BY <1>1, FlowInvariant, PTL

\* Whatever viewers do to the slot, the fanout notifies the transcript of every
\* chunk exactly once and in order.
THEOREM OutputNotLost == Spec => []OutputConserved
<1>1. FlowInv => OutputConserved
  <2> SUFFICES ASSUME FlowInv PROVE OutputConserved
    OBVIOUS
  <2>a. BacklogHeld /\ Numbered
    BY DEF FlowInv
  <2> DEFINE b == fanout.backlog
             c == slot.backlog
             n == Len(b)
             k == Len(c)
             f == InFlight
  <2>1. /\ pushed \in Nat /\ emitted \in Nat /\ n \in Nat /\ k \in Nat /\ f = pushed + n + k
        /\ DOMAIN b = 1 .. n /\ DOMAIN c = 1 .. k /\ f <= emitted
        /\ n = 0 \/ k = 0
    BY <2>a, FlowTypes DEF InFlight, Numbered, BacklogHeld
  <2>2. QueuedChunks = (f + 1) .. emitted
    BY <2>a DEF Numbered, QueuedChunks, ChunksOf
  <2>3. (\A i \in 1 .. n : b[i] = pushed + i) /\ (\A i \in 1 .. k : c[i] = pushed + i)
    BY <2>a, <2>1 DEF Numbered
  <2>4. Elements(b) = {pushed + i : i \in 1 .. n} /\ Elements(c) = {pushed + i : i \in 1 .. k}
    BY <2>1, <2>3 DEF Elements
  <2>5. Increasing(b) /\ Increasing(c)
    <3> HIDE DEF b, c, n, k
    <3>1. \A i, j \in 1 .. n : i < j => b[i] < b[j]
      BY <2>1, <2>3
    <3>2. \A i, j \in 1 .. k : i < j => c[i] < c[j]
      BY <2>1, <2>3
    <3> QED BY <2>1, <3>1, <3>2 DEF Increasing
  <2> HIDE DEF b, c, n, k, f
  <2>6. {pushed + i : i \in 1 .. n} = (pushed + 1) .. (pushed + n) /\ {pushed + i : i \in 1 .. k} = (pushed + 1) .. (pushed + k)
    <3>1. \A m \in Nat : {pushed + i : i \in 1 .. m} = (pushed + 1) .. (pushed + m)
      <4> SUFFICES ASSUME NEW m \in Nat PROVE {pushed + i : i \in 1 .. m} = (pushed + 1) .. (pushed + m)
        OBVIOUS
      <4>1. \A i \in 1 .. m : pushed + i \in (pushed + 1) .. (pushed + m)
        BY <2>1
      <4>2. \A x \in (pushed + 1) .. (pushed + m) : x - pushed \in 1 .. m /\ pushed + (x - pushed) = x
        BY <2>1
      <4> QED BY <4>1, <4>2
    <3> QED BY <2>1, <3>1
  <2>7. Elements(b) = (pushed + 1) .. (pushed + n) /\ Elements(c) = (pushed + 1) .. (pushed + k)
    BY <2>4, <2>6
  <2>8. Elements(b) \cup Elements(c) \cup QueuedChunks = (pushed + 1) .. emitted
    BY <2>1, <2>2, <2>7
  <2>9. Below(Elements(b), Elements(c) \cup QueuedChunks) /\ Below(Elements(c), QueuedChunks)
    BY <2>1, <2>2, <2>7 DEF Below
  <2> QED BY <2>5, <2>8, <2>9 DEF OutputConserved, b, c
<1> QED BY <1>1, FlowInvariant, PTL

-----------------------------------------------------------------------------
(* The notice queue is used as its specification says.                     *)

\* What the fanout pushes is the next chunk, and the scriber's steps are the
\* consumer's.
LEMMA QueueSteps == FlowInv /\ [Next]_vars => [Queue!Next]_queueVars
<1> SUFFICES ASSUME FlowInv, [Next]_vars PROVE Queue!Next \/ UNCHANGED queueVars
  OBVIOUS
<1>a. /\ ~closed /\ BacklogHeld /\ pushed \in Nat /\ emitted \in Nat /\ MaxOutput \in Nat
      /\ InFlight \in Nat /\ emitted <= MaxOutput /\ InFlight <= emitted
  BY FlowTypes DEF FlowInv, QueueInv, Numbered
<1>1. ASSUME Queue!PushDropOldest(pushed + 1), pushed < MaxOutput PROVE Queue!Next
  BY <1>a, <1>1 DEF Queue!Next, Queue!Producer
<1>2. CASE FanoutWrite
  <2> DEFINE c == Head(outbox).chunk
             n == Len(slot.backlog)
  <2>1. /\ Takes("Bytes")
        /\ UNCHANGED queueVars \/ (slot.state # "Reserved" /\ Queue!PushDropOldest(c))
    BY <1>2 DEF FanoutWrite
  <2>2. c = InFlight + 1 /\ InFlight = pushed + n /\ InFlight < emitted
    BY <2>1, ChunkTaken
  <2>3. slot.state # "Reserved" => n = 0
    BY <1>a DEF BacklogHeld
  <2> HIDE DEF c, n
  <2>4. slot.state # "Reserved" => c = pushed + 1 /\ pushed < MaxOutput
    BY <1>a, <2>2, <2>3
  <2> QED BY <1>1, <2>1, <2>4
<1>3. CASE FanoutReplayBacklog \/ FanoutDrain
  <2>1. fanout.backlog # <<>> /\ Queue!PushDropOldest(Head(fanout.backlog))
    BY <1>3 DEF FanoutReplayBacklog, FanoutDrain
  <2>2. Head(fanout.backlog) = pushed + 1
    BY <2>1, BacklogPushed
  <2> DEFINE n == Len(fanout.backlog)
             k == Len(slot.backlog)
  <2>3. n \in Nat \ {0} /\ k \in Nat /\ InFlight = pushed + n + k
    BY <2>1, FlowTypes DEF InFlight
  <2> HIDE DEF n, k
  <2>4. pushed < MaxOutput
    BY <1>a, <2>3
  <2> QED BY <1>1, <2>1, <2>2, <2>4
<1>4. CASE Scriber
  BY <1>4 DEF Scriber, ScriberWaits, ScriberTells, Queue!Next, Queue!Consumer
<1>5. CASE FanoutReserve \/ FanoutActivate \/ FanoutActivated \/ FanoutDrained \/ FanoutDetach
           \/ ReadOutput \/ InputCloses \/ ActorHandles
  BY <1>5 DEF FanoutReserve, FanoutActivate, FanoutActivated, FanoutDrained, FanoutDetach, ReadOutput,
              InputCloses, ActorHandles
<1>6. ASSUME NEW v \in Viewers, ReserveViewer(v) \/ Connection(v) \/ AskFails(v) \/ Viewer(v)
      PROVE  UNCHANGED queueVars
  BY <1>6 DEF ReserveViewer, Connection, Viewer, WriteAttachAccepted, AskSnapshot, AskFails, ReplaySnapshot,
              ReplayFails, StartPump, PumpViewerInput, PumpEnds, PumpFails, DetachAfterError, ViewerTypes, ViewerCloses
<1>7. CASE UNCHANGED vars
  BY <1>7 DEF vars
<1> QED BY <1>2, <1>3, <1>4, <1>5, <1>6, <1>7 DEF Next, Fanout

\* Composed with the fanout, the scriber and any viewers, the notice queue takes
\* only the steps of its own specification: the fanout is a producer that pushes
\* 1, 2, 3, ... and never after the close.
THEOREM QueueComposed == Spec => Queue!Init /\ [][Queue!Next]_queueVars
<1>1. Init => Queue!Init
  BY DEF Init
<1> QED BY <1>1, QueueSteps, FlowInvariant, PTL DEF Spec

-----------------------------------------------------------------------------
(* Leases and the viewer slot.                                             *)

\* The moves of a connection's thread that involve neither slot nor worker.
Legal(p, q) ==
    \/ p = q
    \/ p = "new" /\ q = "reserving"
    \/ p \in {"reserved", "accepted", "replaying"} /\ q \in Attaching \cup {"failed"}
    \/ p = "asking" /\ q = "replaying"
    \/ p \in {"active", "pumping"} /\ q \in {"pumping"} \cup Leaving
    \/ p = "failed" /\ q = "done"
Moves == \A u \in Viewers : conn'[u].lease = conn[u].lease /\ Legal(conn[u].pc, conn'[u].pc)

\* Such moves touch no reservation and no command in the channel.
LEMMA MovesKeep ==
    ASSUME TypeOK, LeaseInv, UNCHANGED <<slot, fanout, nextViewer>>, Moves
    PROVE  /\ LeasesUnique' /\ SlotOwned' /\ ReservationKept'
           /\ \A m \in Command : Awaited(m) => Awaited(m)'
<1>a. LeasesUnique /\ SlotOwned /\ ReservationKept
  BY DEF LeaseInv
<1>m. \A u \in Viewers : conn'[u].lease = conn[u].lease /\ Legal(conn[u].pc, conn'[u].pc)
  BY DEF Moves
<1>1. \A u \in Viewers : Leased(u)' => Leased(u) 
  BY <1>m DEF Leased, Legal, Attaching, Leaving
<1>2. \A u \in Viewers :
         /\ conn'[u].pc \in Attaching => conn[u].pc \in Attaching
         /\ conn[u].pc \in Attaching \cup Leaving => conn'[u].pc \in Attaching \cup Leaving
         /\ conn[u].pc \in {"active", "pumping"} \cup Leaving => conn'[u].pc \in {"active", "pumping"} \cup Leaving
         /\ conn[u].pc = "activating" => conn'[u].pc = "activating"
         /\ conn[u].pc = "reserving" => conn'[u].pc = "reserving"
         /\ conn[u].pc \in Leaving => conn'[u].pc \in Leaving
  BY <1>m DEF Legal, Attaching, Leaving
<1>3. LeasesUnique'
  BY <1>a, <1>m, <1>1 DEF LeasesUnique
<1>4. SlotOwned'
  BY <1>a, <1>m, <1>2 DEF SlotOwned
<1>5. ReservationKept'
  BY <1>a, <1>m, <1>2 DEF ReservationKept
<1>6. ASSUME NEW m \in Command, Awaited(m) PROVE Awaited(m)'
  <2>1. /\ m.op \in {"ReserveViewer", "ActivateViewer"} => m.viewer \in Viewers
    BY CommandFields
  <2> QED BY <1>m, <1>2, <1>6, <2>1 DEF Awaited
<1> QED BY <1>3, <1>4, <1>5, <1>6

\* The channel gets one more command.
LEMMA ChannelSent ==
    ASSUME outbox \in Seq(Command), ChannelAwaited, NEW m \in Command, outbox' = Append(outbox, m),
           \A c \in Command : Awaited(c) => Awaited(c)',
           Awaited(m)', \A i \in DOMAIN outbox : ~Alike(outbox[i], m)
    PROVE  ChannelAwaited'
<1> DEFINE n == Len(outbox)
<1>1. /\ n \in Nat /\ DOMAIN outbox = 1 .. n /\ DOMAIN outbox' = 1 .. (n + 1) /\ outbox'[n + 1] = m
      /\ \A i \in 1 .. n : outbox'[i] = outbox[i] /\ outbox[i] \in Command
  OBVIOUS
<1> HIDE DEF n
<1>2. \A i \in DOMAIN outbox' : \/ i \in DOMAIN outbox /\ outbox'[i] = outbox[i] /\ outbox[i] \in Command
                                \/ i = n + 1 /\ outbox'[i] = m
  BY <1>1
<1>3. ASSUME NEW i \in DOMAIN outbox' PROVE Awaited(outbox[i])'
  <2>1. PICK c \in Command : outbox'[i] = c /\ Awaited(c)'
    BY <1>2 DEF ChannelAwaited
  <2> QED BY <2>1 DEF Awaited
<1>4. \A i, j \in DOMAIN outbox' : Alike(outbox'[i], outbox'[j]) => i = j
  BY <1>2 DEF ChannelAwaited, Alike
<1> QED BY <1>3, <1>4 DEF ChannelAwaited

\* The worker takes the first command; the others are still awaited.
LEMMA ChannelReceived ==
    ASSUME outbox \in Seq(Command), ChannelAwaited, outbox # <<>>, outbox' = Tail(outbox),
           \A c \in Command : Awaited(c) /\ ~Alike(c, Head(outbox)) => Awaited(c)'
    PROVE  ChannelAwaited'
<1> DEFINE n == Len(outbox)
           h == Head(outbox)
<1>1. /\ n \in Nat \ {0} /\ DOMAIN outbox = 1 .. n /\ DOMAIN outbox' = 1 .. (n - 1) /\ h = outbox[1]
      /\ \A i \in 1 .. (n - 1) : outbox'[i] = outbox[i + 1]
      /\ \A i \in 1 .. n : outbox[i] \in Command
  OBVIOUS
<1>h. \A c \in Command : Awaited(c) /\ ~Alike(c, h) => Awaited(c)'
  OBVIOUS
<1> HIDE DEF n, h
<1>2. \A i \in DOMAIN outbox' : /\ i \in Nat /\ i + 1 \in DOMAIN outbox /\ i + 1 # 1 /\ outbox'[i] = outbox[i + 1]
                                /\ outbox[i + 1] \in Command
  BY <1>1
<1>3. 1 \in DOMAIN outbox
  BY <1>1
<1>4. ASSUME NEW i \in DOMAIN outbox' PROVE Awaited(outbox[i])'
  <2>1. PICK c \in Command : outbox'[i] = c /\ Awaited(c)'
    BY <1>1, <1>2, <1>3, <1>h DEF ChannelAwaited
  <2> QED BY <2>1 DEF Awaited
<1>5. ASSUME NEW i \in DOMAIN outbox', NEW j \in DOMAIN outbox', Alike(outbox'[i], outbox'[j]) PROVE i = j
  <2>1. i + 1 = j + 1
    BY <1>2, <1>5 DEF ChannelAwaited
  <2> QED BY <1>2, <2>1
<1> QED BY <1>4, <1>5 DEF ChannelAwaited

\* The channel is as it was.
LEMMA ChannelStill ==
    ASSUME outbox \in Seq(Command), ChannelAwaited, outbox' = outbox,
           \A c \in Command : Awaited(c) => Awaited(c)'
    PROVE  ChannelAwaited'
<1>1. \A i \in DOMAIN outbox : outbox[i] \in Command
  OBVIOUS
<1> QED BY <1>1 DEF ChannelAwaited

\* The mailbox gets one more message, or none.
LEMMA MailboxSent ==
    ASSUME mailbox \in Seq(Message), MailboxAwaited,
           \A u \in Viewers : conn[u].pc = "asking" => conn'[u].pc = "asking",
           \/ mailbox' = mailbox
           \/ \E m \in Message :
                 /\ mailbox' = Append(mailbox, m)
                 /\ m.op = "Snapshot" => conn[m.viewer].pc # "asking" /\ conn'[m.viewer].pc = "asking"
    PROVE  MailboxAwaited'
<1>a. \A i \in DOMAIN mailbox : mailbox[i] \in Message
  OBVIOUS
<1>b. \A i \in DOMAIN mailbox : mailbox[i].op = "Snapshot" => conn'[mailbox[i].viewer].pc = "asking"
  BY <1>a, MessageFields DEF MailboxAwaited, Expected
<1>1. CASE mailbox' = mailbox
  BY <1>b, <1>1 DEF MailboxAwaited, Expected
<1>2. ASSUME NEW m \in Message, mailbox' = Append(mailbox, m),
             m.op = "Snapshot" => conn[m.viewer].pc # "asking" /\ conn'[m.viewer].pc = "asking"
      PROVE  MailboxAwaited'
  <2> DEFINE n == Len(mailbox)
  <2>1. /\ n \in Nat /\ DOMAIN mailbox = 1 .. n /\ DOMAIN mailbox' = 1 .. (n + 1) /\ mailbox'[n + 1] = m
        /\ \A i \in 1 .. n : mailbox'[i] = mailbox[i] /\ mailbox[i] \in Message
    BY <1>2
  <2> HIDE DEF n
  <2>2. \A i \in DOMAIN mailbox' : \/ i \in DOMAIN mailbox /\ mailbox'[i] = mailbox[i] /\ mailbox[i] \in Message
                                   \/ i = n + 1 /\ mailbox'[i] = m
    BY <2>1
  <2>3. \A i \in DOMAIN mailbox : ~Alike(mailbox[i], m)
    <3>1. m.op \notin {"ReserveViewer", "ActivateViewer"}
      BY DEF Message
    <3> QED BY <1>2, <3>1 DEF MailboxAwaited, Expected, Alike
  <2>4. \A i \in DOMAIN mailbox' : Expected(mailbox[i])'
    BY <1>b, <1>2, <2>2 DEF Expected
  <2>5. \A i, j \in DOMAIN mailbox' : Alike(mailbox'[i], mailbox'[j]) => i = j
    BY <2>2, <2>3 DEF MailboxAwaited, Alike
  <2> QED BY <2>4, <2>5 DEF MailboxAwaited
<1> QED BY <1>1, <1>2

\* The actor takes the first message; the others are still expected.
LEMMA MailboxReceived ==
    ASSUME mailbox \in Seq(Message), MailboxAwaited, mailbox # <<>>, mailbox' = Tail(mailbox),
           \A u \in Viewers : conn[u].pc = "asking" =>
               conn'[u].pc = "asking" \/ (Head(mailbox).op = "Snapshot" /\ u = Head(mailbox).viewer)
    PROVE  MailboxAwaited'
<1> DEFINE n == Len(mailbox)
           h == Head(mailbox)
<1>1. /\ n \in Nat \ {0} /\ DOMAIN mailbox = 1 .. n /\ DOMAIN mailbox' = 1 .. (n - 1) /\ h = mailbox[1]
      /\ \A i \in 1 .. (n - 1) : mailbox'[i] = mailbox[i + 1]
      /\ \A i \in 1 .. n : mailbox[i] \in Message
  OBVIOUS
<1>h. \A u \in Viewers : conn[u].pc = "asking" => conn'[u].pc = "asking" \/ (h.op = "Snapshot" /\ u = h.viewer)
  OBVIOUS
<1> HIDE DEF n, h
<1>2. \A i \in DOMAIN mailbox' : /\ i \in Nat /\ i + 1 \in DOMAIN mailbox /\ i + 1 # 1 /\ mailbox'[i] = mailbox[i + 1]
                                 /\ mailbox[i + 1] \in Message
  BY <1>1
<1>3. 1 \in DOMAIN mailbox
  BY <1>1
<1>4. ASSUME NEW i \in DOMAIN mailbox' PROVE Expected(mailbox[i])'
  <2>1. ~Alike(mailbox[i + 1], h) /\ Expected(mailbox[i + 1]) /\ mailbox[i + 1] \in Message
    BY <1>1, <1>2, <1>3 DEF MailboxAwaited
  <2>2. mailbox[i + 1].op = "Snapshot" => mailbox[i + 1].viewer \in Viewers
    BY <2>1, MessageFields
  <2> QED BY <1>2, <1>h, <2>1, <2>2 DEF Expected, Alike
<1>5. ASSUME NEW i \in DOMAIN mailbox', NEW j \in DOMAIN mailbox', Alike(mailbox'[i], mailbox'[j]) PROVE i = j
  <2>1. i + 1 = j + 1
    BY <1>2, <1>5 DEF MailboxAwaited
  <2> QED BY <1>2, <2>1
<1> QED BY <1>4, <1>5 DEF MailboxAwaited

\* Steps that leave slot, worker and connections as they are.
LEMMA LeaseStill ==
    ASSUME FlowInv, LeaseInv, UNCHANGED <<slot, fanout, nextViewer, conn>>,
           outbox' = outbox \/ (\E m \in Command : m.op = "Bytes" /\ outbox' = Append(outbox, m)),
           mailbox' = mailbox \/ (\E m \in Message : m.op # "Snapshot" /\ mailbox' = Append(mailbox, m))
    PROVE  LeaseInv'
<1>a. TypeOK /\ outbox \in Seq(Command) /\ mailbox \in Seq(Message) /\ ChannelAwaited /\ MailboxAwaited
  BY DEF FlowInv, TypeOK, LeaseInv
<1>1. Moves
  BY DEF Moves, Legal
<1>2. LeasesUnique' /\ SlotOwned' /\ ReservationKept' /\ \A c \in Command : Awaited(c) => Awaited(c)'
  BY <1>a, <1>1, MovesKeep
<1>3. ChannelAwaited'
  <2>1. ASSUME NEW m \in Command, m.op = "Bytes", outbox' = Append(outbox, m) PROVE ChannelAwaited'
    <3>1. Awaited(m)' /\ \A i \in DOMAIN outbox : ~Alike(outbox[i], m)
      BY <2>1 DEF Awaited, Alike
    <3> QED BY <1>a, <1>2, <2>1, <3>1, ChannelSent
  <2> QED BY <1>a, <1>2, <2>1, ChannelStill
<1>4. MailboxAwaited'
  BY <1>a, MailboxSent
<1> QED BY <1>2, <1>3, <1>4 DEF LeaseInv

\* The steps a connection's thread takes on its own, and the snapshot's answer.
LEMMA ConnectionLeases ==
    ASSUME FlowInv, LeaseInv, NEW v \in Viewers,
           \/ ReserveViewer(v) \/ WriteAttachAccepted(v) \/ AskSnapshot(v) \/ AskFails(v) \/ ReplaySnapshot(v)
           \/ ReplayFails(v) \/ StartPump(v) \/ PumpEnds(v) \/ PumpFails(v) \/ DetachAfterError(v)
    PROVE  LeaseInv'
<1>a. /\ TypeOK /\ outbox \in Seq(Command) /\ mailbox \in Seq(Message) /\ ChannelAwaited /\ MailboxAwaited
      /\ conn \in [Viewers -> ConnType] /\ LeasesUnique
  BY DEF FlowInv, TypeOK, LeaseInv, ConnType
<1> DEFINE p == conn[v].pc
           reserve == [op |-> "ReserveViewer", viewer |-> v]
           activate == [op |-> "ActivateViewer", viewer |-> v, lease |-> conn[v].lease]
           mail == [op |-> "WorkerLifecycle"]
           ask == [op |-> "Snapshot", viewer |-> v]
<1>c. conn[v].lease \in Nat /\ reserve \in Command /\ activate \in Command /\ Detach(v) \in Command
      /\ mail \in Message /\ ask \in Message
  <2>1. conn[v].lease \in Nat
    BY <1>a DEF ConnType
  <2> QED BY <2>1 DEF Command, Message, Detach
<1>1. UNCHANGED <<slot, fanout, nextViewer>>
  BY DEF ReserveViewer, WriteAttachAccepted, AskSnapshot, ReplaySnapshot, ReplayFails, AskFails, StartPump, PumpEnds,
         PumpFails, DetachAfterError, fanoutVars
<1>2. PICK q \in ConnStates :
         /\ Goto(v, q) /\ Legal(p, q) /\ p # "asking" /\ p # q
         /\ \/ outbox' = outbox
            \/ outbox' = Append(outbox, reserve) /\ p = "new" /\ q = "reserving"
            \/ outbox' = Append(outbox, activate) /\ p = "replaying" /\ q = "activating"
            \/ outbox' = Append(outbox, Detach(v)) /\ p \in {"pumping", "failed"} /\ q \in Leaving
         /\ \/ mailbox' = mailbox
            \/ mailbox' = Append(mailbox, mail)
            \/ mailbox' = Append(mailbox, ask) /\ q = "asking"
  <2> USE DEF ConnStates, Attaching, Leaving, Legal, fanoutVars, actorVars
  <2>1. ASSUME TrySend(mail) PROVE mailbox' = mailbox \/ mailbox' = Append(mailbox, mail)
    BY <1>a, <1>c, <2>1, MailSent
  <2>2. CASE ReserveViewer(v)
    BY <2>2 DEF ReserveViewer
  <2>3. CASE WriteAttachAccepted(v) \/ ReplayFails(v) \/ AskFails(v)
    BY <2>3 DEF WriteAttachAccepted, ReplayFails, AskFails
  <2>4. CASE AskSnapshot(v)
    BY <2>4 DEF AskSnapshot
  <2>5. CASE ReplaySnapshot(v)
    BY <2>5 DEF ReplaySnapshot
  <2>6. CASE StartPump(v)
    BY <2>1, <2>6 DEF StartPump
  <2>7. CASE PumpEnds(v)
    BY <2>1, <2>7 DEF PumpEnds
  <2>8. CASE PumpFails(v)
    BY <2>1, <2>8 DEF PumpFails
  <2>9. CASE DetachAfterError(v)
    BY <2>9 DEF DetachAfterError
  <2> QED BY <2>2, <2>3, <2>4, <2>5, <2>6, <2>7, <2>8, <2>9
<1>3. \A u \in Viewers : conn'[u].pc = (IF u = v THEN q ELSE conn[u].pc) /\ conn'[u].lease = conn[u].lease
  BY <1>a, <1>2, GotoFacts
<1>4. Moves
  BY <1>2, <1>3 DEF Moves, Legal
<1>5. LeasesUnique' /\ SlotOwned' /\ ReservationKept' /\ \A c \in Command : Awaited(c) => Awaited(c)'
  BY <1>a, <1>1, <1>4, MovesKeep
<1>6. ChannelAwaited'
  <2>1. CASE outbox' = outbox
    BY <1>a, <1>5, <2>1, ChannelStill
  <2>2. CASE outbox' = Append(outbox, reserve) /\ p = "new" /\ q = "reserving"
    <3>1. Awaited(reserve)'
      BY <1>3, <2>2 DEF Awaited
    <3>2. \A i \in DOMAIN outbox : ~Alike(outbox[i], reserve)
      BY <1>a, <2>2 DEF ChannelAwaited, Awaited, Alike
    <3> QED BY <1>a, <1>c, <1>5, <2>2, <3>1, <3>2, ChannelSent
  <2>3. CASE outbox' = Append(outbox, activate) /\ p = "replaying" /\ q = "activating"
    <3>0. LeaseInv => SlotOwned
      BY DEF LeaseInv
    <3>1. ~(fanout.pc \in {"activating", "aborting"} /\ fanout.viewer = v)
      BY <2>3, <3>0 DEF SlotOwned
    <3>2. PICK m \in Command : /\ m.op = "ActivateViewer" /\ m.viewer = v /\ m.lease = conn[v].lease
                               /\ outbox' = Append(outbox, m)
      BY <1>c, <2>3
    <3>3. Awaited(m)'
      BY <1>1, <1>3, <2>3, <3>1, <3>2 DEF Awaited
    <3>4. \A i \in DOMAIN outbox : ~Alike(outbox[i], m)
      BY <1>a, <2>3, <3>2 DEF ChannelAwaited, Awaited, Alike
    <3> QED BY <1>a, <1>5, <3>2, <3>3, <3>4, ChannelSent
  <2>4. CASE outbox' = Append(outbox, Detach(v)) /\ p \in {"pumping", "failed"} /\ q \in Leaving
    <3>1. PICK m \in Command : m.op = "Detach" /\ m.lease = conn[v].lease /\ outbox' = Append(outbox, m)
      BY <1>c, <2>4 DEF Detach
    <3>2. Awaited(m)'
      BY <1>3, <2>4, <3>1 DEF Awaited
    <3>3. \A i \in DOMAIN outbox : ~Alike(outbox[i], m)
      BY <3>1 DEF Alike
    <3> QED BY <1>a, <1>5, <3>1, <3>2, <3>3, ChannelSent
  <2> QED BY <1>2, <2>1, <2>2, <2>3, <2>4
<1>7. MailboxAwaited'
  <2>1. \A u \in Viewers : conn[u].pc = "asking" => conn'[u].pc = "asking"
    BY <1>2, <1>3
  <2>2. mail.op # "Snapshot" /\ ask.viewer = v /\ (q = "asking" => conn[ask.viewer].pc # "asking" /\ conn'[ask.viewer].pc = "asking")
    BY <1>2, <1>3
  <2> HIDE DEF mail, ask
  <2> QED BY <1>a, <1>c, <1>2, <2>1, <2>2, MailboxSent
<1> QED BY <1>5, <1>6, <1>7 DEF LeaseInv

\* The actor answers a request for the snapshot.
LEMMA ActorLeases ==
    ASSUME FlowInv, LeaseInv, ActorHandles
    PROVE  LeaseInv'
<1>a. /\ TypeOK /\ outbox \in Seq(Command) /\ mailbox \in Seq(Message) /\ ChannelAwaited /\ MailboxAwaited
      /\ conn \in [Viewers -> ConnType]
  BY DEF FlowInv, TypeOK, LeaseInv, ConnType
<1> DEFINE m == Head(mailbox)
<1>1. /\ mailbox # <<>> /\ mailbox' = Tail(mailbox) /\ UNCHANGED <<slot, fanout, nextViewer, outbox>>
      /\ conn' = IF m.op = "Snapshot"
                 THEN [conn EXCEPT ![m.viewer].pc = "replaying", ![m.viewer].snapshot = transcript]
                 ELSE conn
  BY DEF ActorHandles, fanoutVars
<1>2. m \in Message /\ Expected(m)
  <2>1. m = mailbox[1] /\ 1 \in DOMAIN mailbox /\ m \in Message
    BY <1>a, <1>1
  <2> QED BY <1>a, <2>1 DEF MailboxAwaited
<1>3. m.op = "Snapshot" => m.viewer \in Viewers /\ conn[m.viewer].pc = "asking"
  BY <1>2, MessageFields DEF Expected
<1>4. ASSUME NEW u \in Viewers
      PROVE  /\ conn'[u].lease = conn[u].lease
             /\ conn'[u].pc = IF m.op = "Snapshot" /\ u = m.viewer THEN "replaying" ELSE conn[u].pc
  <2> HIDE DEF m
  <2>1. CASE m.op = "Snapshot" /\ u = m.viewer
    <3>1. conn'[u] = [conn[u] EXCEPT !.pc = "replaying", !.snapshot = transcript] /\ conn[u] \in ConnType
      BY <1>a, <1>1, <2>1
    <3> QED BY <2>1, <3>1 DEF ConnType
  <2>2. CASE ~(m.op = "Snapshot" /\ u = m.viewer)
    BY <1>a, <1>1, <2>2
  <2> QED BY <2>1, <2>2
<1> HIDE DEF m
<1>5. Moves
  BY <1>3, <1>4 DEF Moves, Legal
<1>6. LeasesUnique' /\ SlotOwned' /\ ReservationKept' /\ \A c \in Command : Awaited(c) => Awaited(c)'
  BY <1>a, <1>1, <1>5, MovesKeep
<1>7. ChannelAwaited'
  BY <1>a, <1>1, <1>6, ChannelStill
<1>8. \A u \in Viewers : conn[u].pc = "asking" => conn'[u].pc = "asking" \/ (m.op = "Snapshot" /\ u = m.viewer)
  BY <1>4
<1>9. MailboxAwaited'
  BY <1>a, <1>1, <1>8, MailboxReceived DEF m
<1> QED BY <1>6, <1>7, <1>9 DEF LeaseInv

\* The worker is idle, and the command it takes was awaited.
LEMMA HeadAwaited ==
    ASSUME FlowInv, LeaseInv, NEW op, Takes(op)
    PROVE  /\ fanout.pc = "idle" /\ outbox # <<>> /\ outbox' = Tail(outbox)
           /\ \E m \in Command : m = Head(outbox) /\ m.op = op /\ Awaited(m)
<1>1. fanout.pc = "idle" /\ outbox # <<>> /\ Head(outbox).op = op /\ outbox' = Tail(outbox)
  BY DEF Takes
<1>2. outbox \in Seq(Command) /\ ChannelAwaited
  BY DEF FlowInv, TypeOK, LeaseInv
<1>3. Head(outbox) = outbox[1] /\ 1 \in DOMAIN outbox /\ Head(outbox) \in Command
  BY <1>1, <1>2
<1>4. Awaited(Head(outbox))
  BY <1>2, <1>3 DEF ChannelAwaited
<1> QED BY <1>1, <1>3, <1>4

\* write_bytes frees the slot only of an active viewer.
LEMMA WriteLeases ==
    ASSUME FlowInv, LeaseInv, FanoutWrite
    PROVE  LeaseInv'
<1>a. /\ TypeOK /\ outbox \in Seq(Command) /\ mailbox \in Seq(Message)
      /\ LeasesUnique /\ SlotOwned /\ ChannelAwaited /\ MailboxAwaited /\ ReservationKept
      /\ slot \in SlotType
  BY DEF FlowInv, TypeOK, LeaseInv, SlotType
<1>1. Takes("Bytes") /\ UNCHANGED <<fanout, nextViewer, conn, mailbox>>
  BY DEF FanoutWrite, actorVars
<1>2. /\ fanout.pc = "idle" /\ outbox # <<>> /\ outbox' = Tail(outbox)
  BY <1>1, HeadAwaited
<1>3. \/ slot'.state = slot.state /\ slot'.lease = slot.lease /\ slot'.viewer = slot.viewer
      \/ slot'.state = "Empty" /\ slot.state # "Reserved"
  <2>1. \/ slot' = [slot EXCEPT !.backlog = Append(slot.backlog, Head(outbox).chunk)]
        \/ slot' = slot \/ (slot' = EmptySlot /\ slot.state # "Reserved")
    BY DEF FanoutWrite
  <2> DEFINE b == Append(slot.backlog, Head(outbox).chunk)
  <2> HIDE DEF b
  <2>2. slot' = [slot EXCEPT !.backlog = b] => slot'.state = slot.state /\ slot'.lease = slot.lease /\ slot'.viewer = slot.viewer
    BY <1>a DEF SlotType
  <2> QED BY <2>1, <2>2, EmptyTypes DEF b
<1>4. LeasesUnique' /\ SlotOwned' /\ ReservationKept'
  BY <1>a, <1>1, <1>2, <1>3 DEF LeasesUnique, Leased, SlotOwned, ReservationKept
<1>5. \A c \in Command : Awaited(c) => Awaited(c)'
  BY <1>1 DEF Awaited
<1>6. ChannelAwaited' /\ MailboxAwaited'
  BY <1>a, <1>1, <1>2, <1>5, ChannelReceived, MailboxSent
<1> QED BY <1>4, <1>6 DEF LeaseInv

\* reserve gives a fresh lease, or turns the viewer away.
LEMMA ReserveLeases ==
    ASSUME FlowInv, LeaseInv, FanoutReserve
    PROVE  LeaseInv'
<1>a. /\ TypeOK /\ outbox \in Seq(Command) /\ mailbox \in Seq(Message)
      /\ LeasesUnique /\ SlotOwned /\ ChannelAwaited /\ MailboxAwaited /\ ReservationKept
      /\ conn \in [Viewers -> ConnType] /\ nextViewer \in Nat
  BY DEF FlowInv, TypeOK, LeaseInv, ConnType
<1>1. Takes("ReserveViewer") /\ UNCHANGED <<fanout, mailbox>>
  BY DEF FanoutReserve, actorVars
<1>2. /\ fanout.pc = "idle" /\ outbox # <<>> /\ outbox' = Tail(outbox)
      /\ \E m \in Command : m = Head(outbox) /\ m.op = "ReserveViewer" /\ Awaited(m)
  BY <1>1, HeadAwaited
<1>3. PICK m \in Command : m = Head(outbox) /\ m.op = "ReserveViewer" /\ Awaited(m)
  BY <1>2
<1>4. PICK v \in Viewers : v = m.viewer /\ conn[v].pc = "reserving"
  BY <1>3, CommandFields DEF Awaited
<1>5. \/ /\ slot.state = "Empty" /\ nextViewer' = nextViewer + 1
         /\ slot' = [state |-> "Reserved", lease |-> nextViewer, viewer |-> v, backlog |-> <<>>]
         /\ conn' = [conn EXCEPT ![v].pc = "reserved", ![v].lease = nextViewer]
      \/ Goto(v, "rejected") /\ UNCHANGED <<slot, nextViewer>>
  BY <1>3, <1>4 DEF FanoutReserve
<1>l. \A u \in Viewers : conn[u].lease \in Nat
  BY <1>a DEF ConnType
<1>6. ASSUME NEW q \in {"reserved", "rejected"},
             \A u \in Viewers : conn'[u].pc = (IF u = v THEN q ELSE conn[u].pc) /\ (u # v => conn'[u].lease = conn[u].lease)
      PROVE  ChannelAwaited' /\ MailboxAwaited'
  <2>1. \A c \in Command : Awaited(c) /\ ~Alike(c, m) => Awaited(c)'
    <3> SUFFICES ASSUME NEW c \in Command, Awaited(c), ~Alike(c, m) PROVE Awaited(c)'
      OBVIOUS
    <3>1. c.op \in {"ReserveViewer", "ActivateViewer"} => c.viewer \in Viewers
      BY CommandFields
    <3>2. (c.op = "ReserveViewer" => c.viewer # v) /\ (c.op = "ActivateViewer" => c.viewer # v)
      BY <1>3, <1>4 DEF Alike, Awaited
    <3> QED BY <1>1, <1>4, <1>6, <3>1, <3>2 DEF Awaited, Leaving
  <2>2. \A u \in Viewers : conn[u].pc = "asking" => conn'[u].pc = "asking"
    BY <1>4, <1>6
  <2> QED BY <1>a, <1>1, <1>2, <1>3, <2>1, <2>2, ChannelReceived, MailboxSent
<1>7. CASE /\ slot.state = "Empty" /\ nextViewer' = nextViewer + 1
           /\ slot' = [state |-> "Reserved", lease |-> nextViewer, viewer |-> v, backlog |-> <<>>]
           /\ conn' = [conn EXCEPT ![v].pc = "reserved", ![v].lease = nextViewer]
  <2>1. ASSUME NEW u \in Viewers
        PROVE  /\ conn'[u].pc = IF u = v THEN "reserved" ELSE conn[u].pc
               /\ conn'[u].lease = IF u = v THEN nextViewer ELSE conn[u].lease
    <3>1. conn[u] \in ConnType
      BY <1>a
    <3>2. conn'[u] = IF u = v THEN [conn[u] EXCEPT !.pc = "reserved", !.lease = nextViewer] ELSE conn[u]
      BY <1>a, <1>7
    <3> QED BY <3>1, <3>2 DEF ConnType
  <2>2. \A u \in Viewers : conn[u].lease < nextViewer /\ conn[u].lease # nextViewer
    BY <1>a, <1>l DEF LeasesUnique
  <2>3. LeasesUnique'
    <3>1. nextViewer' # 0 /\ \A u \in Viewers : conn'[u].lease < nextViewer'
      <4>1. \A u \in Viewers : conn[u].lease < nextViewer + 1
        BY <1>a, <1>l, <2>2
      <4>2. nextViewer < nextViewer + 1 /\ nextViewer + 1 # 0
        BY <1>a
      <4> QED BY <1>7, <2>1, <4>1, <4>2
    <3>2. \A u \in Viewers : Leased(u)' => conn'[u].lease # 0
      BY <1>a, <2>1 DEF Leased, LeasesUnique
    <3>3. \A u, w \in Viewers : conn'[u].lease = conn'[w].lease /\ conn'[u].lease # 0 => u = w
      BY <1>a, <2>1, <2>2 DEF LeasesUnique
    <3> QED BY <3>1, <3>2, <3>3 DEF LeasesUnique
  <2>4. \A u \in Viewers : conn[u].pc \notin Attaching
    BY <1>a, <1>2, <1>7 DEF ReservationKept
  <2>5. SlotOwned' /\ ReservationKept'
    <3>1. slot'.state = "Reserved" /\ slot'.lease = nextViewer /\ slot'.viewer = v
      BY <1>7
    <3>2. conn'[v].pc = "reserved" /\ conn'[v].lease = nextViewer
      BY <2>1
    <3>3. SlotOwned'
      BY <1>1, <1>2, <3>1, <3>2 DEF SlotOwned, Attaching
    <3>4. ReservationKept'
      BY <2>1, <2>4, <3>1, <3>2 DEF ReservationKept
    <3> QED BY <3>3, <3>4
  <2>6. ChannelAwaited' /\ MailboxAwaited'
    BY <1>6, <2>1
  <2> QED BY <2>3, <2>5, <2>6 DEF LeaseInv
<1>8. CASE Goto(v, "rejected") /\ UNCHANGED <<slot, nextViewer>>
  <2>1. \A u \in Viewers : conn'[u].pc = (IF u = v THEN "rejected" ELSE conn[u].pc) /\ conn'[u].lease = conn[u].lease
    BY <1>a, <1>8, GotoFacts DEF ConnStates
  <2>2. LeasesUnique'
    BY <1>a, <1>8, <2>1 DEF LeasesUnique, Leased
  <2>3. SlotOwned'
    BY <1>a, <1>1, <1>4, <1>8, <2>1 DEF SlotOwned, Attaching, Leaving
  <2>4. ReservationKept'
    BY <1>a, <1>1, <1>8, <2>1 DEF ReservationKept, Attaching
  <2>5. ChannelAwaited' /\ MailboxAwaited'
    BY <1>6, <2>1
  <2> QED BY <2>2, <2>3, <2>4, <2>5 DEF LeaseInv
<1> QED BY <1>5, <1>7, <1>8

\* activate finds the reservation of the viewer that asks.
LEMMA ActivateLeases ==
    ASSUME FlowInv, LeaseInv, FanoutActivate
    PROVE  /\ LeaseInv'
           /\ \E v \in Viewers : /\ slot.viewer = v /\ slot' = EmptySlot
                                 /\ fanout' = [pc |-> "activating", lease |-> slot.lease, viewer |-> v,
                                               backlog |-> slot.backlog]
<1>a. /\ TypeOK /\ outbox \in Seq(Command) /\ mailbox \in Seq(Message)
      /\ LeasesUnique /\ SlotOwned /\ ChannelAwaited /\ MailboxAwaited /\ ReservationKept
  BY DEF FlowInv, TypeOK, LeaseInv
<1>1. Takes("ActivateViewer") /\ UNCHANGED <<nextViewer, mailbox>>
  BY DEF FanoutActivate, actorVars
<1>2. /\ fanout.pc = "idle" /\ outbox # <<>> /\ outbox' = Tail(outbox)
      /\ \E m \in Command : m = Head(outbox) /\ m.op = "ActivateViewer" /\ Awaited(m)
  BY <1>1, HeadAwaited
<1>3. PICK m \in Command : m = Head(outbox) /\ m.op = "ActivateViewer" /\ Awaited(m)
  BY <1>2
<1>4. PICK v \in Viewers : v = m.viewer /\ conn[v].pc = "activating" /\ conn[v].lease = m.lease
  BY <1>3, CommandFields DEF Awaited
<1>5. slot.state = "Reserved" /\ slot.lease = m.lease
  BY <1>a, <1>2, <1>4 DEF ReservationKept, Attaching
<1>6. slot.viewer = v /\ \A u \in Viewers : conn[u].pc \in Attaching => u = v
  <2>1. slot.viewer \in Viewers /\ conn[slot.viewer].lease = conn[v].lease
    BY <1>a, <1>4, <1>5 DEF SlotOwned
  <2>2. conn[v].lease # 0
    BY <1>a, <1>4 DEF LeasesUnique, Leased
  <2>3. \A u \in Viewers : conn[u].pc \in Attaching => conn[u].lease = conn[v].lease
    BY <1>a, <1>2, <1>4, <1>5 DEF ReservationKept
  <2> QED BY <1>a, <2>1, <2>2, <2>3 DEF LeasesUnique
<1>7. /\ conn' = conn /\ slot' = EmptySlot
      /\ fanout' = [pc |-> "activating", lease |-> slot.lease, viewer |-> v, backlog |-> slot.backlog]
  BY <1>3, <1>4, <1>5 DEF FanoutActivate
<1>8. fanout'.pc = "activating" /\ fanout'.lease = conn[v].lease /\ fanout'.viewer = v /\ slot'.state = "Empty"
  BY <1>4, <1>5, <1>7, EmptyTypes
<1>9. LeasesUnique' /\ SlotOwned' /\ ReservationKept'
  BY <1>a, <1>1, <1>4, <1>6, <1>7, <1>8 DEF LeasesUnique, Leased, SlotOwned, ReservationKept
<1>10. \A c \in Command : Awaited(c) /\ ~Alike(c, m) => Awaited(c)'
  BY <1>3, <1>4, <1>7, <1>8 DEF Awaited, Alike
<1>11. ChannelAwaited' /\ MailboxAwaited'
  BY <1>a, <1>1, <1>2, <1>3, <1>7, <1>10, ChannelReceived, MailboxSent
<1> QED BY <1>6, <1>7, <1>9, <1>11 DEF LeaseInv

\* detach comes from a viewer that is leaving: no reservation still wanted is
\* lost.
LEMMA DetachLeases ==
    ASSUME FlowInv, LeaseInv, FanoutDetach
    PROVE  /\ LeaseInv'
           /\ \/ slot' = slot /\ fanout' = fanout
              \/ slot.state # "Empty" /\ conn[slot.viewer].pc \in Leaving
<1>a. /\ TypeOK /\ outbox \in Seq(Command) /\ mailbox \in Seq(Message)
      /\ LeasesUnique /\ SlotOwned /\ ChannelAwaited /\ MailboxAwaited /\ ReservationKept
  BY DEF FlowInv, TypeOK, LeaseInv
<1>1. Takes("Detach") /\ UNCHANGED <<nextViewer, mailbox, conn>>
  BY DEF FanoutDetach, actorVars
<1>2. /\ fanout.pc = "idle" /\ outbox # <<>> /\ outbox' = Tail(outbox)
      /\ \E m \in Command : m = Head(outbox) /\ m.op = "Detach" /\ Awaited(m)
  BY <1>1, HeadAwaited
<1>3. PICK m \in Command : m = Head(outbox) /\ m.op = "Detach" /\ Awaited(m)
  BY <1>2
<1>4. PICK v \in Viewers : conn[v].lease = m.lease /\ conn[v].pc \in Leaving
  BY <1>3 DEF Awaited
<1>5. conn[v].lease # 0
  BY <1>a, <1>4 DEF LeasesUnique, Leased, Leaving
<1>6. \/ slot' = slot /\ fanout' = fanout
      \/ /\ slot.state # "Empty" /\ slot.lease = m.lease /\ slot'.state = "Empty"
         /\ fanout'.pc \notin {"activating", "aborting"}
  <2> DEFINE drain == [IdleFanout EXCEPT !.pc = "draining", !.backlog = slot.backlog]
  <2>1. drain.pc = "draining"
    BY DEF IdleFanout
  <2> HIDE DEF drain
  <2>2. \/ slot' = slot /\ fanout' = fanout
        \/ slot.state # "Empty" /\ slot.lease = m.lease /\ slot' = EmptySlot /\ (fanout' = drain \/ fanout' = fanout)
    BY <1>3 DEF FanoutDetach, drain
  <2> QED BY <1>2, <2>1, <2>2, EmptyTypes
<1>7. \A c \in Command : Awaited(c) => Awaited(c)'
  BY <1>1, <1>6 DEF Awaited
<1>8. ChannelAwaited' /\ MailboxAwaited'
  BY <1>a, <1>1, <1>2, <1>7, ChannelReceived, MailboxSent
<1>9. CASE slot' = slot /\ fanout' = fanout
  <2>1. LeasesUnique' /\ SlotOwned' /\ ReservationKept'
    BY <1>a, <1>1, <1>9 DEF LeasesUnique, Leased, SlotOwned, ReservationKept
  <2> QED BY <1>8, <1>9, <2>1 DEF LeaseInv
<1>10. CASE /\ slot.state # "Empty" /\ slot.lease = m.lease /\ slot'.state = "Empty"
            /\ fanout'.pc \notin {"activating", "aborting"}
  <2>1. slot.viewer = v
    BY <1>a, <1>4, <1>5, <1>10 DEF SlotOwned, LeasesUnique
  <2>2. \A u \in Viewers : conn[u].pc \notin Attaching
    <3> SUFFICES ASSUME NEW u \in Viewers, conn[u].pc \in Attaching PROVE FALSE
      OBVIOUS
    <3>1. slot.lease = conn[u].lease
      BY <1>a, <1>2 DEF ReservationKept
    <3>2. u = v
      BY <1>a, <1>4, <1>5, <1>10, <3>1 DEF LeasesUnique
    <3> QED BY <1>4, <3>2 DEF Attaching, Leaving
  <2>3. LeasesUnique' /\ SlotOwned' /\ ReservationKept'
    BY <1>a, <1>1, <1>10, <2>2 DEF LeasesUnique, Leased, SlotOwned, ReservationKept
  <2> QED BY <1>4, <1>8, <1>10, <2>1, <2>3 DEF LeaseInv
<1> QED BY <1>6, <1>9, <1>10

\* The worker writes or drains its backlog.
LEMMA BacklogLeases ==
    ASSUME FlowInv, LeaseInv, FanoutReplayBacklog \/ FanoutDrain \/ FanoutActivated \/ FanoutDrained
    PROVE  LeaseInv'
<1>a. /\ TypeOK /\ outbox \in Seq(Command) /\ mailbox \in Seq(Message) /\ BacklogHeld
      /\ LeasesUnique /\ SlotOwned /\ ChannelAwaited /\ MailboxAwaited /\ ReservationKept
      /\ fanout \in FanoutType
  BY DEF FlowInv, TypeOK, LeaseInv, FanoutType
<1>1. UNCHANGED <<nextViewer, outbox, mailbox>>
  BY DEF FanoutReplayBacklog, FanoutDrain, FanoutActivated, FanoutDrained, actorVars
<1>2. fanout.pc # "idle" /\ slot.state = "Empty"
  BY <1>a DEF BacklogHeld, FanoutReplayBacklog, FanoutDrain, FanoutActivated, FanoutDrained
<1>3. \A u \in Viewers : conn[u].pc \in Attaching => fanout.pc \in {"activating", "aborting"} /\ fanout.viewer = u
  BY <1>a, <1>2 DEF ReservationKept
<1>4. CASE FanoutReplayBacklog \/ FanoutDrain
  <2>1. UNCHANGED <<slot, conn>>
    BY <1>4 DEF FanoutReplayBacklog, FanoutDrain
  <2>2. /\ fanout'.lease = fanout.lease /\ fanout'.viewer = fanout.viewer
        /\ fanout'.pc \in {"activating", "aborting"} <=> fanout.pc \in {"activating", "aborting"}
    <3> DEFINE t == Tail(fanout.backlog)
    <3>1. \/ fanout.pc = "activating" /\ fanout' = [fanout EXCEPT !.backlog = t, !.pc = fanout.pc]
          \/ fanout.pc = "activating" /\ fanout' = [fanout EXCEPT !.backlog = t, !.pc = "aborting"]
          \/ fanout' = [fanout EXCEPT !.backlog = t]
      BY <1>4 DEF FanoutReplayBacklog, FanoutDrain
    <3> HIDE DEF t
    <3> QED BY <1>a, <3>1 DEF FanoutType
  <2>3. LeasesUnique' /\ SlotOwned' /\ ReservationKept'
    BY <1>a, <1>1, <2>1, <2>2 DEF LeasesUnique, Leased, SlotOwned, ReservationKept
  <2>4. \A c \in Command : Awaited(c) => Awaited(c)'
    BY <2>1, <2>2 DEF Awaited
  <2>5. ChannelAwaited' /\ MailboxAwaited'
    BY <1>a, <1>1, <2>1, <2>4, ChannelStill, MailboxSent
  <2> QED BY <2>3, <2>5 DEF LeaseInv
<1>5. ASSUME fanout' = IdleFanout, NEW v \in Viewers, NEW q \in {"active", "failed"},
             fanout.pc \in {"activating", "aborting"}, fanout.viewer = v, Goto(v, q),
             \/ slot' = slot
             \/ /\ slot' = [state |-> "Active", lease |-> fanout.lease, viewer |-> v, backlog |-> <<>>]
                /\ q = "active"
      PROVE  LeaseInv'
  <2>1. /\ \A u \in Viewers : conn'[u].pc = (IF u = v THEN q ELSE conn[u].pc) /\ conn'[u].lease = conn[u].lease
    BY <1>a, <1>5, GotoFacts DEF ConnStates
  <2>2. conn[v].pc = "activating" /\ fanout.lease = conn[v].lease
    BY <1>a, <1>5 DEF SlotOwned
  <2>3. fanout'.pc = "idle"
    BY <1>5, EmptyTypes
  <2>4. LeasesUnique'
    BY <1>a, <1>1, <2>1, <2>2 DEF LeasesUnique, Leased
  <2>5. SlotOwned'
    <3>1. CASE slot' = slot
      BY <1>2, <2>3, <3>1 DEF SlotOwned
    <3>2. CASE slot' = [state |-> "Active", lease |-> fanout.lease, viewer |-> v, backlog |-> <<>>] /\ q = "active"
      BY <2>1, <2>2, <2>3, <3>2 DEF SlotOwned
    <3> QED BY <1>5, <3>1, <3>2
  <2>6. ReservationKept'
    <3>1. \A u \in Viewers : conn'[u].pc \notin Attaching
      BY <1>3, <1>5, <2>1 DEF Attaching
    <3> QED BY <3>1 DEF ReservationKept
  <2>7. \A c \in Command : Awaited(c) => Awaited(c)'
    <3> SUFFICES ASSUME NEW c \in Command, Awaited(c) PROVE Awaited(c)'
      OBVIOUS
    <3>1. c.op \in {"ReserveViewer", "ActivateViewer"} => c.viewer \in Viewers
      BY CommandFields
    <3> QED BY <1>5, <2>1, <2>2, <2>3, <3>1 DEF Awaited, Leaving
  <2>8. \A u \in Viewers : conn[u].pc = "asking" => conn'[u].pc = "asking"
    BY <2>1, <2>2
  <2>9. ChannelAwaited' /\ MailboxAwaited'
    BY <1>a, <1>1, <2>7, <2>8, ChannelStill, MailboxSent
  <2> QED BY <2>4, <2>5, <2>6, <2>9 DEF LeaseInv
<1>6. CASE FanoutActivated
  <2>1. PICK v \in Viewers : fanout.viewer = v
    BY <1>a, <1>6 DEF SlotOwned, FanoutActivated
  <2> QED BY <1>5, <1>6, <2>1 DEF FanoutActivated
<1>7. CASE FanoutDrained
  <2>1. CASE fanout.pc = "aborting"
    <3>1. PICK v \in Viewers : fanout.viewer = v
      BY <1>a, <2>1 DEF SlotOwned
    <3> QED BY <1>5, <1>7, <2>1, <3>1 DEF FanoutDrained
  <2>2. CASE fanout.pc # "aborting"
    <3>1. fanout.pc = "draining" /\ UNCHANGED <<conn, slot>> /\ fanout' = IdleFanout
      BY <1>7, <2>2 DEF FanoutDrained
    <3>2. fanout'.pc = "idle"
      BY <3>1, EmptyTypes
    <3>3. LeasesUnique' /\ SlotOwned' /\ ReservationKept'
      BY <1>a, <1>1, <1>2, <1>3, <3>1, <3>2 DEF LeasesUnique, Leased, SlotOwned, ReservationKept
    <3>4. \A c \in Command : Awaited(c) => Awaited(c)'
      BY <3>1, <3>2 DEF Awaited
    <3>5. ChannelAwaited' /\ MailboxAwaited'
      BY <1>a, <1>1, <3>1, <3>4, ChannelStill, MailboxSent
    <3> QED BY <3>3, <3>5 DEF LeaseInv
  <2> QED BY <2>1, <2>2
<1> QED BY <1>4, <1>6, <1>7

\* Every step preserves the leases' invariant.
LEMMA LeaseSteps == FlowInv /\ LeaseInv /\ [Next]_vars => LeaseInv'
<1> SUFFICES ASSUME FlowInv, LeaseInv, [Next]_vars PROVE LeaseInv'
  OBVIOUS
<1>1. CASE UNCHANGED vars
  BY <1>1, LeaseStill DEF vars, fanoutVars, actorVars
<1>2. CASE Fanout
  BY <1>2, WriteLeases, ReserveLeases, ActivateLeases, DetachLeases, BacklogLeases DEF Fanout
<1>3. CASE ReadOutput
  <2>1. [op |-> "Bytes", chunk |-> emitted + 1] \in Command
    BY DEF FlowInv, TypeOK, Command
  <2> QED BY <1>3, <2>1, LeaseStill DEF ReadOutput, actorVars
<1>4. CASE InputCloses
  BY <1>4, LeaseStill DEF InputCloses, fanoutVars, actorVars
<1>5. CASE ScriberWaits
  BY <1>5, LeaseStill DEF ScriberWaits, fanoutVars, actorVars
<1>6. CASE ScriberTells
  <2> DEFINE m == [op |-> "TerminalOutput", chunk |-> Last(popped)]
  <2>1. TrySend(m) /\ Queue!NoticeHandled /\ UNCHANGED <<fanoutVars, conn>>
    BY <1>6 DEF ScriberTells
  <2>2. popped \in Seq(Nat \ {0}) /\ popped # <<>>
    BY <2>1 DEF FlowInv, QueueInv, Queue!TypeOK, Queue!NoticeHandled
  <2>3. m \in Message /\ m.op # "Snapshot"
    BY <2>2 DEF Message, Last
  <2>4. mailbox' = mailbox \/ mailbox' = Append(mailbox, m)
    BY <2>1, <2>3, MailSent DEF FlowInv
  <2> HIDE DEF m
  <2> QED BY <2>1, <2>3, <2>4, LeaseStill DEF fanoutVars
<1>7. CASE ActorHandles
  BY <1>7, ActorLeases
<1>8. ASSUME NEW v \in Viewers, ReserveViewer(v) \/ Connection(v) \/ AskFails(v) \/ Viewer(v) PROVE LeaseInv'
  <2>1. CASE Viewer(v) \/ PumpViewerInput(v)
    BY <2>1, LeaseStill DEF Viewer, ViewerTypes, ViewerCloses, PumpViewerInput, fanoutVars, actorVars
  <2> QED BY <1>8, <2>1, ConnectionLeases DEF Connection
<1> QED BY <1>1, <1>2, <1>3, <1>4, <1>5, <1>6, <1>7, <1>8 DEF Next, Scriber

\* The leases' invariant holds throughout.
LEMMA LeaseInvariant == Spec => []LeaseInv
<1>1. Init => LeaseInv
  <2> SUFFICES ASSUME Init PROVE LeaseInv
    OBVIOUS
  <2>1. /\ slot.state = "Empty" /\ fanout.pc = "idle" /\ outbox = <<>> /\ mailbox = <<>> /\ nextViewer = 1
        /\ \A v \in Viewers : conn[v].pc = "new" /\ conn[v].lease = 0
    BY EmptyTypes DEF Init, NoLease
  <2>2. DOMAIN outbox = {} /\ DOMAIN mailbox = {}
    BY <2>1
  <2> QED BY <2>1, <2>2
          DEF LeaseInv, LeasesUnique, Leased, SlotOwned, ChannelAwaited, MailboxAwaited, ReservationKept, Attaching
<1> QED BY <1>1, LeaseSteps, FlowInvariant, PTL DEF Spec

\* The reservation a connection was given is still its own whenever the fanout
\* comes to activate it, for any number of viewers and any interleaving.
THEOREM ReservationsKept == Spec => []ReservationKept
<1>1. LeaseInv => ReservationKept
  BY DEF LeaseInv
<1> QED BY <1>1, LeaseInvariant, PTL

\* The step the action property speaks of.
EvictsNobody ==
    \A v \in Viewers :
        Occupies(v) /\ ~Occupies(v)' => ~peer[v] \/ conn[v].pc \in {"failed", "done"}

\* No step evicts a viewer.
LEMMA EvictionSteps == FlowInv /\ LeaseInv /\ [Next]_vars => EvictsNobody
<1> SUFFICES ASSUME FlowInv, LeaseInv, [Next]_vars, NEW v \in Viewers, Occupies(v), ~Occupies(v)'
             PROVE  ~peer[v] \/ conn[v].pc \in {"failed", "done"}
  BY DEF EvictsNobody
<1>a. BacklogHeld /\ SlotOwned /\ slot \in SlotType /\ fanout \in FanoutType
  BY DEF FlowInv, LeaseInv, TypeOK, SlotType, FanoutType
<1>1. ~(slot' = slot /\ fanout' = fanout)
  BY DEF Occupies
<1>2. CASE FanoutWrite
  <2>1. slot' = EmptySlot /\ ~(slot.state = "Active" /\ peer[slot.viewer]) /\ slot.state # "Reserved"
    <3> DEFINE b == Append(slot.backlog, Head(outbox).chunk)
    <3>1. \/ slot' = [slot EXCEPT !.backlog = b] \/ slot' = slot
          \/ slot' = EmptySlot /\ ~(slot.state = "Active" /\ peer[slot.viewer]) /\ slot.state # "Reserved"
      BY <1>2 DEF FanoutWrite
    <3> HIDE DEF b
    <3>2. slot' = [slot EXCEPT !.backlog = b] => slot'.state = slot.state /\ slot'.viewer = slot.viewer
      BY <1>a DEF SlotType
    <3>3. fanout' = fanout
      BY <1>2 DEF FanoutWrite
    <3> QED BY <1>1, <3>1, <3>2, <3>3 DEF Occupies
  <2>2. fanout.pc = "idle"
    BY <1>2 DEF FanoutWrite, Takes
  <2> QED BY <1>a, <2>1, <2>2 DEF Occupies, SlotType
<1>3. CASE FanoutReserve
  BY <1>1, <1>3 DEF FanoutReserve, Takes, Occupies
<1>4. CASE FanoutActivate
  <2>1. fanout.pc = "idle"
    BY <1>4 DEF FanoutActivate, Takes
  <2>2. PICK u \in Viewers : /\ slot.viewer = u
                             /\ fanout' = [pc |-> "activating", lease |-> slot.lease, viewer |-> u,
                                           backlog |-> slot.backlog]
    BY <1>4, ActivateLeases
  <2> QED BY <2>1, <2>2 DEF Occupies
<1>5. CASE FanoutReplayBacklog
  <2> DEFINE t == Tail(fanout.backlog)
  <2>1. /\ slot' = slot /\ fanout.pc = "activating"
        /\ fanout' = [fanout EXCEPT !.backlog = t, !.pc = IF peer[fanout.viewer] THEN fanout.pc ELSE "aborting"]
    BY <1>5 DEF FanoutReplayBacklog
  <2> HIDE DEF t
  <2>2. peer[fanout.viewer] => fanout'.pc = fanout.pc /\ fanout'.viewer = fanout.viewer
    BY <1>a, <2>1 DEF FanoutType
  <2> QED BY <1>a, <2>1, <2>2 DEF Occupies, BacklogHeld
<1>6. CASE FanoutActivated
  BY <1>a, <1>6 DEF FanoutActivated, Occupies, BacklogHeld
<1>7. CASE FanoutDrain \/ FanoutDrained
  BY <1>a, <1>7 DEF FanoutDrain, FanoutDrained, Occupies, BacklogHeld
<1>8. CASE FanoutDetach
  <2>1. slot.state # "Empty" /\ conn[slot.viewer].pc \in Leaving
    BY <1>1, <1>8, DetachLeases
  <2>2. fanout.pc = "idle"
    BY <1>8 DEF FanoutDetach, Takes
  <2> QED BY <2>1, <2>2 DEF Occupies, Leaving
<1>9. CASE ReadOutput \/ InputCloses \/ Scriber \/ ActorHandles \/ UNCHANGED vars
  BY <1>1, <1>9 DEF ReadOutput, InputCloses, Scriber, ScriberWaits, ScriberTells, ActorHandles, vars, fanoutVars
<1>10. ASSUME NEW u \in Viewers, ReserveViewer(u) \/ Connection(u) \/ AskFails(u) \/ Viewer(u)
       PROVE  slot' = slot /\ fanout' = fanout
  BY <1>10 DEF ReserveViewer, Connection, Viewer, WriteAttachAccepted, AskSnapshot, AskFails, ReplaySnapshot,
               ReplayFails, StartPump, PumpViewerInput, PumpEnds, PumpFails, DetachAfterError, ViewerTypes, ViewerCloses,
               fanoutVars
<1> QED BY <1>1, <1>2, <1>3, <1>4, <1>5, <1>6, <1>7, <1>8, <1>9, <1>10 DEF Next, Fanout

\* The slot is taken from a viewer only after it closed its end or its own pump
\* ended: no other viewer, stale detach or failed attach evicts it.
THEOREM NobodyEvicted == Spec => NoEviction
<1>1. FlowInv /\ LeaseInv /\ [Next]_vars => [EvictsNobody]_vars
  BY EvictionSteps
<1>2. Spec => [][EvictsNobody]_vars
  BY <1>1, FlowInvariant, LeaseInvariant, PTL DEF Spec
<1> QED BY <1>2, PTL DEF NoEviction, EvictsNobody

-----------------------------------------------------------------------------
(* Every chunk is in the transcript, on its way, dropped or shed.          *)

\* Nothing the scriber or the actor has in hand changes.
LEMMA ScribeKept ==
    ASSUME ScribeInv, UNCHANGED <<transcript, shed, popped>>,
           consumer = "handling" <=> consumer' = "handling",
           ChunksOf(mailbox', "TerminalOutput") = ChunksOf(mailbox, "TerminalOutput"),
           Rising(mailbox', "TerminalOutput")
    PROVE  ScribeInv'
<1>1. Queue!LastPopped' = Queue!LastPopped /\ Scribed' = Scribed /\ HandledChunk' = HandledChunk
  BY DEF Queue!LastPopped, Scribed, HandledChunk
<1> QED BY <1>1 DEF ScribeInv

\* What the fanout does changes neither what the scriber has in hand nor the
\* mailbox.
LEMMA FanoutAside ==
    ASSUME FlowInv, Fanout
    PROVE  /\ UNCHANGED <<mailbox, transcript, shed, popped>>
           /\ consumer = "handling" <=> consumer' = "handling"
<1>1. UNCHANGED <<mailbox, transcript, shed>>
  BY DEF Fanout, FanoutWrite, FanoutReserve, FanoutActivate, FanoutReplayBacklog, FanoutActivated,
         FanoutDrain, FanoutDrained, FanoutDetach, actorVars
<1>2. UNCHANGED <<consumer, popped>> \/ \E c : Queue!PushDropOldest(c)
  BY DEF Fanout, FanoutWrite, FanoutReserve, FanoutActivate, FanoutReplayBacklog, FanoutActivated,
         FanoutDrain, FanoutDrained, FanoutDetach, queueVars
<1>3. ASSUME NEW c, Queue!PushDropOldest(c)
      PROVE  popped' = popped /\ (consumer = "handling" <=> consumer' = "handling")
  BY <1>3 DEF Queue!PushDropOldest, Queue!Notify
<1> QED BY <1>1, <1>2, <1>3

\* The threads and viewers send the actor no output.
LEMMA OthersAside ==
    ASSUME FlowInv,
           \/ ReadOutput \/ InputCloses
           \/ \E v \in Viewers : ReserveViewer(v) \/ Connection(v) \/ AskFails(v) \/ Viewer(v)
    PROVE  /\ UNCHANGED <<queueVars, transcript, shed>>
           /\ mailbox' = mailbox
              \/ \E m \in Message : m.op # "TerminalOutput" /\ mailbox' = Append(mailbox, m)
<1>1. UNCHANGED <<queueVars, transcript, shed>>
  BY DEF ReadOutput, InputCloses, Connection, Viewer, ReserveViewer, ReplaySnapshot, PumpEnds, PumpFails,
         DetachAfterError, ViewerTypes, ViewerCloses, WriteAttachAccepted, AskSnapshot, AskFails,
         ReplayFails, StartPump, PumpViewerInput, actorVars
<1>2. \/ mailbox' = mailbox \/ TrySend([op |-> "WorkerLifecycle"])
      \/ \E v \in Viewers : mailbox' = Append(mailbox, [op |-> "Snapshot", viewer |-> v])
  BY DEF ReadOutput, InputCloses, Connection, Viewer, ReserveViewer, ReplaySnapshot, PumpEnds, PumpFails,
         DetachAfterError, ViewerTypes, ViewerCloses, WriteAttachAccepted, AskSnapshot, AskFails,
         ReplayFails, StartPump, PumpViewerInput, actorVars
<1>3. [op |-> "WorkerLifecycle"] \in Message /\ [op |-> "WorkerLifecycle"].op # "TerminalOutput"
  BY DEF Message
<1>4. \A v \in Viewers : /\ [op |-> "Snapshot", viewer |-> v] \in Message
                         /\ [op |-> "Snapshot", viewer |-> v].op # "TerminalOutput"
  BY DEF Message
<1>5. TypeOK
  BY DEF FlowInv
<1> QED BY <1>1, <1>2, <1>3, <1>4, <1>5, MailSent

\* What the scribed chunks are, as numbers and finite sets.
LEMMA ScribeTypes ==
    ASSUME FlowInv, ScribeInv
    PROVE  /\ mailbox \in Seq(Message) /\ transcript \in Seq(Nat) /\ shed \subseteq Nat
           /\ ChunksOf(mailbox, "TerminalOutput") \subseteq Nat
           /\ Elements(transcript) \subseteq Nat
           /\ Queue!LastPopped \in Nat /\ Len(popped) \in Nat /\ Len(transcript) \in Nat
           /\ IsFiniteSet(ChunksOf(mailbox, "TerminalOutput") \cup HandledChunk)
           /\ Cardinality(ChunksOf(mailbox, "TerminalOutput") \cup HandledChunk) \in Nat
           /\ IsFiniteSet(ChunksOf(mailbox, "TerminalOutput"))
           /\ Cardinality(ChunksOf(mailbox, "TerminalOutput")) \in Nat
           /\ IsFiniteSet(shed) /\ Cardinality(shed) \in Nat
<1>1. /\ mailbox \in Seq(Message) /\ transcript \in Seq(Nat) /\ shed \subseteq Nat
      /\ popped \in Seq(Nat \ {0})
  BY DEF FlowInv, TypeOK, QueueInv, Queue!TypeOK
<1>2. ChunksOf(mailbox, "TerminalOutput") \subseteq Nat
  <2>1. \A i \in DOMAIN mailbox : mailbox[i] \in Message
    BY <1>1
  <2> QED BY <2>1, MessageFields DEF ChunksOf
<1>3. Elements(transcript) \subseteq Nat
  BY <1>1 DEF Elements
<1>4. Queue!LastPopped \in Nat /\ Len(popped) \in Nat /\ Len(transcript) \in Nat
  BY <1>1 DEF Queue!LastPopped
<1>5. IsFiniteSet(shed) /\ IsFiniteSet(ChunksOf(mailbox, "TerminalOutput"))
  BY DEF ScribeInv
<1>6. IsFiniteSet(HandledChunk)
  BY FS_EmptySet, FS_Singleton DEF HandledChunk
<1>7. IsFiniteSet(ChunksOf(mailbox, "TerminalOutput") \cup HandledChunk)
  BY <1>5, <1>6, FS_Union
<1>8. \A S : IsFiniteSet(S) => Cardinality(S) \in Nat
  BY FS_CardinalityType
<1> QED BY <1>1, <1>2, <1>3, <1>4, <1>5, <1>7, <1>8

\* The scriber takes a notice: one more chunk is in hand.
LEMMA PopScribed ==
    ASSUME FlowInv, ScribeInv, Queue!PopNotice, UNCHANGED actorVars
    PROVE  ScribeInv'
<1> DEFINE M == ChunksOf(mailbox, "TerminalOutput")
           h == Head(pending)
           last == Queue!LastPopped
<1>1. /\ Len(popped') = Len(popped) + 1 /\ Queue!LastPopped' = h /\ Last(popped') = h /\ last < h
      /\ consumer = "ready" /\ consumer' = "handling"
  BY QueuePop DEF FlowInv
<1>2. mailbox' = mailbox /\ transcript' = transcript /\ shed' = shed
  BY DEF actorVars
<1>3. HandledChunk = {} /\ HandledChunk' = {h} /\ Scribed' = Scribed
  BY <1>1, <1>2 DEF HandledChunk, Scribed
<1>4. \A x \in Scribed : x # 0 /\ x <= last /\ x \in Nat
  BY ScribeTypes DEF ScribeInv, Scribed
<1>5. h \in Nat /\ last \in Nat
  <2>1. Head(pending) \in Nat
    <3>1. pending \in Seq(Nat \ {0}) /\ pending # <<>>
      BY DEF FlowInv, QueueInv, Queue!TypeOK, Queue!PopNotice
    <3> QED BY <3>1
  <2> QED BY <2>1, ScribeTypes
<1> HIDE DEF h, last
<1>6. \A x \in Scribed : x # 0 /\ x <= h /\ x < h
  BY <1>1, <1>4, <1>5
<1>7. h \notin M /\ IsFiniteSet(M)
  <2>1. h \notin Scribed
    BY <1>5, <1>6
  <2> QED BY <2>1, ScribeTypes DEF Scribed
<1>8. Cardinality(M \cup {h}) = Cardinality(M) + 1
  BY <1>7, FS_AddElement
<1>9. Len(popped) = Len(transcript) + Cardinality(M) + Cardinality(shed)
  <2>1. M \cup HandledChunk = M
    BY <1>3
  <2> QED BY <2>1 DEF ScribeInv
<1>10. Len(popped') = Len(transcript) + Cardinality(M \cup {h}) + Cardinality(shed)
  BY <1>1, <1>8, <1>9, ScribeTypes
<1>11. M' = M
  BY <1>2
<1> HIDE DEF M
<1>12. \A x \in Scribed' : x # 0 /\ x <= Queue!LastPopped' /\ (consumer' = "handling" => x < Queue!LastPopped')
  BY <1>1, <1>3, <1>6
<1> QED BY <1>2, <1>3, <1>10, <1>11, <1>12 DEF ScribeInv, M

\* The scriber passes its notice on, or sheds it.
LEMMA TellScribed ==
    ASSUME FlowInv, ScribeInv, ScriberTells
    PROVE  ScribeInv'
<1> DEFINE M == ChunksOf(mailbox, "TerminalOutput")
           c == Last(popped)
           m == [op |-> "TerminalOutput", chunk |-> c]
<1>1. /\ consumer = "handling" /\ consumer' = "ready" /\ popped' = popped /\ transcript' = transcript
      /\ TrySend(m) /\ shed' = IF mailbox' = mailbox THEN shed \cup {c} ELSE shed
  BY DEF ScriberTells, Queue!NoticeHandled
<1>2. c = Queue!LastPopped /\ Queue!LastPopped' = c /\ c \in Nat \ {0}
  <2>1. popped # <<>> /\ popped \in Seq(Nat \ {0})
    BY <1>1 DEF FlowInv, QueueInv, Queue!TypeOK
  <2> QED BY <1>1, <2>1 DEF Queue!LastPopped, Last
<1>3. HandledChunk = {c} /\ HandledChunk' = {}
  BY <1>1 DEF HandledChunk
<1> HIDE DEF c
<1>4. \A x \in Scribed : x \in Nat /\ x # 0 /\ x <= c /\ x < c
  <2>1. \A x \in Scribed : x # 0 /\ x <= c /\ x < c
    BY <1>1, <1>2 DEF ScribeInv
  <2> QED BY <2>1, ScribeTypes DEF Scribed
<1>5. c \notin M /\ c \notin shed /\ IsFiniteSet(M) /\ IsFiniteSet(shed)
  <2>1. c \notin Scribed
    BY <1>2, <1>4
  <2> QED BY <2>1, ScribeTypes DEF Scribed
<1>6. Cardinality(M \cup {c}) = Cardinality(M) + 1 /\ Cardinality(shed \cup {c}) = Cardinality(shed) + 1
  BY <1>5, FS_AddElement
<1>7. Len(popped) = Len(transcript) + Cardinality(M \cup {c}) + Cardinality(shed)
  BY <1>3 DEF ScribeInv
<1>8. m \in Message /\ m.op = "TerminalOutput" /\ m.chunk = c
  BY <1>2 DEF Message
<1>9. /\ mailbox \in Seq(Message) /\ Rising(mailbox, "TerminalOutput") /\ Increasing(transcript)
      /\ Below(Elements(transcript), M)
  BY ScribeTypes DEF ScribeInv
<1> HIDE DEF m, M
<1>10. CASE mailbox' = Append(mailbox, m)
  <2>1. mailbox' # mailbox
    <3>1. Len(mailbox) \in Nat /\ Len(Append(mailbox, m)) = Len(mailbox) + 1
      BY <1>8, <1>9
    <3> QED BY <1>10, <3>1
  <2>2. shed' = shed
    BY <1>1, <2>1
  <2>3. \A x \in ChunksOf(mailbox, "TerminalOutput") : x < m.chunk
    BY <1>4, <1>8 DEF Scribed
  <2>4. /\ ChunksOf(mailbox', "TerminalOutput") = M \cup {c}
        /\ Rising(mailbox', "TerminalOutput")
    BY <1>8, <1>9, <1>10, <2>3, ChunksAppend DEF M
  <2>5. IsFiniteSet(M \cup {c})
    BY <1>5, FS_AddElement
  <2>6. Scribed' = Scribed \cup {c}
    BY <1>1, <2>2, <2>4 DEF Scribed, M
  <2>7. \A x \in Scribed' : x # 0 /\ x <= Queue!LastPopped'
    BY <1>2, <1>4, <2>6
  <2>8. Below(Elements(transcript), M \cup {c})
    <3>1. \A x \in Elements(transcript) : x < c
      BY <1>4 DEF Scribed
    <3> QED BY <1>9, <3>1 DEF Below
  <2>9. (M \cup {c}) \cup {} = M \cup {c}
    OBVIOUS
  <2> QED BY <1>1, <1>3, <1>5, <1>7, <1>9, <2>2, <2>4, <2>5, <2>7, <2>8, <2>9 DEF ScribeInv
<1>11. CASE mailbox' = mailbox
  <2>1. shed' = shed \cup {c}
    BY <1>1, <1>11
  <2>2. ChunksOf(mailbox', "TerminalOutput") = M
    BY <1>11 DEF M
  <2>3. IsFiniteSet(shed \cup {c})
    BY <1>5, FS_AddElement
  <2>4. Scribed' = Scribed \cup {c}
    BY <1>1, <1>11, <2>1 DEF Scribed
  <2>5. \A x \in Scribed' : x # 0 /\ x <= Queue!LastPopped'
    BY <1>2, <1>4, <2>4
  <2>6. Len(popped) = Len(transcript) + Cardinality(M) + Cardinality(shed \cup {c})
    <3>1. Cardinality(M) \in Nat /\ Cardinality(shed) \in Nat /\ Len(transcript) \in Nat
      BY ScribeTypes DEF M
    <3> QED BY <1>6, <1>7, <3>1
  <2>7. M \cup {} = M
    OBVIOUS
  <2> QED BY <1>1, <1>3, <1>5, <1>9, <1>11, <2>1, <2>2, <2>3, <2>5, <2>6, <2>7 DEF ScribeInv
<1>12. mailbox' = Append(mailbox, m) \/ mailbox' = mailbox
  BY <1>1 DEF TrySend
<1> QED BY <1>10, <1>11, <1>12

\* A chunk joins a rising sequence at its end.
LEMMA IncreasingAppend ==
    ASSUME NEW s \in Seq(Nat), Increasing(s), NEW c \in Nat, \A x \in Elements(s) : x < c
    PROVE  /\ Append(s, c) \in Seq(Nat) /\ Len(Append(s, c)) = Len(s) + 1
           /\ Increasing(Append(s, c))
           /\ Elements(Append(s, c)) = Elements(s) \cup {c}
<1> DEFINE n == Len(s)
           r == Append(s, c)
<1>1. /\ n \in Nat /\ DOMAIN s = 1 .. n /\ DOMAIN r = 1 .. (n + 1) /\ r \in Seq(Nat) /\ Len(r) = n + 1
      /\ r[n + 1] = c /\ \A i \in 1 .. n : r[i] = s[i]
  OBVIOUS
<1> HIDE DEF n, r
<1>2. \A i \in DOMAIN r : (i \in DOMAIN s /\ r[i] = s[i]) \/ (i = n + 1 /\ r[i] = c)
  BY <1>1
<1>3. \A i \in DOMAIN s : i \in DOMAIN r /\ r[i] = s[i] /\ i < n + 1
  BY <1>1
<1>4. n + 1 \in DOMAIN r
  BY <1>1
<1>5. Elements(r) = Elements(s) \cup {c}
  BY <1>1, <1>2, <1>3, <1>4 DEF Elements
<1>6. Increasing(r)
  <2> SUFFICES ASSUME NEW i \in DOMAIN r, NEW j \in DOMAIN r, i < j PROVE r[i] < r[j]
    BY DEF Increasing
  <2>1. i \in DOMAIN s /\ r[i] = s[i]
    BY <1>1
  <2>2. s[i] \in Elements(s)
    BY <2>1 DEF Elements
  <2> QED BY <1>2, <2>1, <2>2 DEF Increasing
<1> QED BY <1>1, <1>5, <1>6 DEF n, r

\* The actor appends the oldest mailed chunk, or leaves the chunks alone.
LEMMA ActorScribed ==
    ASSUME FlowInv, ScribeInv, ActorHandles
    PROVE  ScribeInv'
<1> DEFINE M == ChunksOf(mailbox, "TerminalOutput")
           m == Head(mailbox)
<1>1. /\ mailbox # <<>> /\ mailbox' = Tail(mailbox) /\ UNCHANGED <<consumer, popped, shed>>
      /\ transcript' = IF m.op = "TerminalOutput" THEN Append(transcript, m.chunk) ELSE transcript
  BY DEF ActorHandles, queueVars
<1>2. mailbox \in Seq(Message) /\ Rising(mailbox, "TerminalOutput")
  BY ScribeTypes DEF ScribeInv
<1>3. \A x \in Message : x.op = "TerminalOutput" => x.chunk \in Nat
  BY MessageFields
<1>4. /\ m \in Message /\ Rising(mailbox', "TerminalOutput")
      /\ m.op # "TerminalOutput" => ChunksOf(mailbox', "TerminalOutput") = M
      /\ m.op = "TerminalOutput" =>
            /\ m.chunk \in M /\ ChunksOf(mailbox', "TerminalOutput") = M \ {m.chunk}
            /\ \A x \in ChunksOf(mailbox', "TerminalOutput") : m.chunk < x
  BY <1>1, <1>2, <1>3, ChunksTail
<1>5. CASE m.op # "TerminalOutput"
  <2>1. UNCHANGED <<transcript, shed, popped>> /\ (consumer = "handling" <=> consumer' = "handling")
    BY <1>1, <1>5
  <2> QED BY <1>4, <1>5, <2>1, ScribeKept
<1>6. CASE m.op = "TerminalOutput"
  <2> DEFINE c == m.chunk
             N == M \ {c}
             last == Queue!LastPopped
  <2>1. /\ transcript' = Append(transcript, c) /\ c \in M /\ ChunksOf(mailbox', "TerminalOutput") = N
        /\ \A x \in N : c < x
    BY <1>1, <1>4, <1>6
  <2>2. c \in Nat /\ transcript \in Seq(Nat) /\ Increasing(transcript)
    BY <1>3, <1>4, <1>6, ScribeTypes DEF ScribeInv
  <2>3. Below(Elements(transcript), M)
    BY DEF ScribeInv
  <2>4. \A x \in Elements(transcript) : x < c
    BY <2>1, <2>3 DEF Below
  <2> HIDE DEF c, M, N
  <2>5. /\ Len(transcript') = Len(transcript) + 1 /\ Increasing(transcript')
        /\ Elements(transcript') = Elements(transcript) \cup {c}
    BY <2>1, <2>2, <2>4, IncreasingAppend
  <2>6. M = N \cup {c} /\ N \subseteq M
    BY <2>1 DEF N
  <2>7. Scribed' = Scribed
    BY <1>1, <2>1, <2>5, <2>6 DEF Scribed, M
  <2>8. Below(Elements(transcript'), N)
    BY <2>1, <2>3, <2>5, <2>6 DEF Below
  <2>9. HandledChunk' = HandledChunk /\ Queue!LastPopped' = Queue!LastPopped
    BY <1>1 DEF HandledChunk, Queue!LastPopped
  <2>10. c \notin HandledChunk
    <3>1. CASE consumer = "handling"
      <4>1. Last(popped) = Queue!LastPopped
        <5>1. popped # <<>>
          BY <3>1 DEF FlowInv, QueueInv
        <5> QED BY <5>1 DEF Queue!LastPopped, Last
      <4>2. c < Queue!LastPopped
        BY <2>1, <3>1 DEF ScribeInv, Scribed, M
      <4>3. Queue!LastPopped \in Nat
        BY ScribeTypes
      <4> QED BY <2>2, <4>1, <4>2, <4>3 DEF HandledChunk
    <3>2. CASE consumer # "handling"
      BY <3>2 DEF HandledChunk
    <3> QED BY <3>1, <3>2
  <2>11. /\ IsFiniteSet(M \cup HandledChunk) /\ IsFiniteSet(M) /\ IsFiniteSet(N)
         /\ Cardinality((M \cup HandledChunk) \ {c}) = Cardinality(M \cup HandledChunk) - 1
         /\ Cardinality(M \cup HandledChunk) \in Nat
    <3>1. /\ IsFiniteSet(M \cup HandledChunk) /\ IsFiniteSet(M)
          /\ Cardinality(M \cup HandledChunk) \in Nat
      BY ScribeTypes DEF M
    <3>2. c \in M \cup HandledChunk
      BY <2>1
    <3> QED BY <2>6, <3>1, <3>2, FS_RemoveElement, FS_Subset
  <2>12. (M \cup HandledChunk) \ {c} = N \cup HandledChunk
    BY <2>10 DEF N
  <2>13. Len(popped) = Len(transcript) + Cardinality(M \cup HandledChunk) + Cardinality(shed)
    BY DEF ScribeInv, M
  <2>14. Len(popped) = Len(transcript') + Cardinality(N \cup HandledChunk) + Cardinality(shed)
    <3>1. Len(transcript) \in Nat /\ Cardinality(shed) \in Nat
      BY ScribeTypes
    <3>2. Cardinality(N \cup HandledChunk) = Cardinality(M \cup HandledChunk) - 1
      BY <2>11, <2>12
    <3> QED BY <2>5, <2>11, <2>13, <3>1, <3>2
  <2>15. \A x \in Scribed' : x # 0 /\ x <= Queue!LastPopped' /\ (consumer' = "handling" => x < Queue!LastPopped')
    BY <1>1, <2>7, <2>9 DEF ScribeInv
  <2>16. IsFiniteSet(shed)
    BY DEF ScribeInv
  <2> QED BY <1>1, <1>4, <2>1, <2>5, <2>8, <2>9, <2>11, <2>14, <2>15, <2>16 DEF ScribeInv
<1> QED BY <1>5, <1>6

\* Every step keeps the chunks accounted for.
LEMMA ScribeInvSteps == FlowInv /\ ScribeInv /\ [Next]_vars => ScribeInv'
<1> SUFFICES ASSUME FlowInv, ScribeInv, [Next]_vars PROVE ScribeInv'
  OBVIOUS
<1>a. Rising(mailbox, "TerminalOutput") /\ mailbox \in Seq(Message)
  BY ScribeTypes DEF ScribeInv
<1>1. CASE UNCHANGED vars
  <2>1. UNCHANGED <<mailbox, transcript, shed, popped, consumer>>
    BY <1>1 DEF vars, actorVars, queueVars
  <2> QED BY <1>a, <2>1, ScribeKept
<1>2. CASE Fanout
  BY <1>a, <1>2, FanoutAside, ScribeKept
<1>3. CASE \/ ReadOutput \/ InputCloses
           \/ \E v \in Viewers : ReserveViewer(v) \/ Connection(v) \/ AskFails(v) \/ Viewer(v)
  <2>1. /\ UNCHANGED <<transcript, shed, popped, consumer>>
        /\ mailbox' = mailbox
           \/ \E m \in Message : m.op # "TerminalOutput" /\ mailbox' = Append(mailbox, m)
    BY <1>3, OthersAside DEF queueVars
  <2>2. /\ ChunksOf(mailbox', "TerminalOutput") = ChunksOf(mailbox, "TerminalOutput")
        /\ Rising(mailbox', "TerminalOutput")
    <3>1. ASSUME NEW m \in Message, m.op # "TerminalOutput", mailbox' = Append(mailbox, m)
          PROVE  /\ ChunksOf(mailbox', "TerminalOutput") = ChunksOf(mailbox, "TerminalOutput")
                 /\ Rising(mailbox', "TerminalOutput")
      BY <1>a, <3>1, ChunksAppend
    <3> QED BY <1>a, <2>1, <3>1
  <2> QED BY <2>1, <2>2, ScribeKept
<1>4. CASE ScriberWaits
  <2>1. UNCHANGED actorVars
    BY <1>4 DEF ScriberWaits
  <2>2. CASE Queue!PopNotice
    BY <2>1, <2>2, PopScribed
  <2>3. CASE Queue!WaitNotEmpty \/ Queue!SpuriousWakeup
    <3>1. UNCHANGED <<mailbox, transcript, shed, popped>> /\ consumer # "handling" /\ consumer' # "handling"
      BY <2>1, <2>3 DEF Queue!WaitNotEmpty, Queue!SpuriousWakeup, actorVars
    <3> QED BY <1>a, <3>1, ScribeKept
  <2> QED BY <1>4, <2>2, <2>3 DEF ScriberWaits
<1>5. CASE ScriberTells
  BY <1>5, TellScribed
<1>6. CASE ActorHandles
  BY <1>6, ActorScribed
<1> QED BY <1>1, <1>2, <1>3, <1>4, <1>5, <1>6 DEF Next, Scriber

\* Nothing has been popped.
LEMMA InitScribe == Init => ScribeInv
<1> SUFFICES ASSUME Init PROVE ScribeInv
  OBVIOUS
<1>1. transcript = <<>> /\ mailbox = <<>> /\ shed = {} /\ popped = <<>> /\ consumer = "ready"
  BY DEF Init, Queue!Init
<1>2. /\ Elements(transcript) = {} /\ Increasing(transcript) /\ HandledChunk = {}
      /\ ChunksOf(mailbox, "TerminalOutput") = {} /\ Rising(mailbox, "TerminalOutput")
      /\ Len(popped) = 0 /\ Len(transcript) = 0
  BY <1>1 DEF Elements, Increasing, HandledChunk, ChunksOf, Rising
<1>3. IsFiniteSet({}) /\ Cardinality({}) = 0 /\ {} \cup {} = {}
  BY FS_EmptySet
<1>4. Scribed = {}
  BY <1>1, <1>2 DEF Scribed
<1>5. Below(Elements(transcript), ChunksOf(mailbox, "TerminalOutput"))
  BY <1>2 DEF Below
<1>6. /\ IsFiniteSet(shed) /\ IsFiniteSet(ChunksOf(mailbox, "TerminalOutput"))
      /\ Cardinality(ChunksOf(mailbox, "TerminalOutput") \cup HandledChunk) = 0 /\ Cardinality(shed) = 0
  BY <1>1, <1>2, <1>3
<1>7. Len(popped) = Len(transcript)
                    + Cardinality(ChunksOf(mailbox, "TerminalOutput") \cup HandledChunk)
                    + Cardinality(shed)
  BY <1>2, <1>6
<1> QED BY <1>2, <1>4, <1>5, <1>6, <1>7 DEF ScribeInv

\* The scriber's invariant holds throughout.
LEMMA ScribeInvariant == Spec => [](FlowInv /\ ScribeInv)
<1>1. Init => FlowInv /\ ScribeInv
  BY InitFlow, InitScribe
<1>2. (FlowInv /\ ScribeInv) /\ [Next]_vars => (FlowInv /\ ScribeInv)'
  BY FlowSteps, ScribeInvSteps
<1> QED BY <1>1, <1>2, PTL DEF Spec

\* The transcript is in PTY order, holds no chunk twice, and lacks only chunks
\* that are on their way, that the queue counted as dropped, or that the full
\* mailbox refused.
THEOREM TranscriptComplete == Spec => []TranscriptAccounted
<1>1. FlowInv /\ ScribeInv => TranscriptAccounted
  <2> SUFFICES ASSUME FlowInv, ScribeInv PROVE TranscriptAccounted
    OBVIOUS
  <2> DEFINE n == Len(pending)
             last == Queue!LastPopped
  <2>1. MailedChunks = ChunksOf(mailbox, "TerminalOutput")
    BY DEF MailedChunks, ChunksOf
  <2>2. /\ pushed \in Nat /\ dropped \in Nat /\ n \in Nat /\ last \in Nat /\ pending \in Seq(Nat \ {0})
        /\ DOMAIN pending = 1 .. n /\ last + n <= pushed /\ Len(popped) + dropped + n = pushed
        /\ \A i \in 1 .. n : pending[i] + n = pushed + i
    <3>1. pending \in Seq(Nat \ {0}) /\ pushed \in Nat /\ dropped \in Nat
      BY DEF FlowInv, QueueInv, Queue!TypeOK
    <3> QED BY <3>1, ScribeTypes DEF FlowInv, QueueInv, Queue!NewestRun, Queue!Accounted
  <2>3. \A x \in Scribed : x \in Nat /\ x # 0 /\ x <= last
    BY ScribeTypes DEF ScribeInv, Scribed
  <2>4. \A x \in HandledChunk : x = last /\ x # 0
    <3>1. CASE consumer = "handling"
      <4>1. popped # <<>> /\ popped \in Seq(Nat \ {0})
        BY <3>1 DEF FlowInv, QueueInv, Queue!TypeOK
      <4> QED BY <4>1 DEF HandledChunk, Queue!LastPopped, Last
    <3>2. CASE consumer # "handling"
      BY <3>2 DEF HandledChunk
    <3> QED BY <3>1, <3>2
  <2>5. \A i \in 1 .. n : pending[i] \in Nat \ {0}
    BY <2>2
  <2> HIDE DEF n, last
  <2>6. \A x \in Elements(pending) : x \in Nat /\ x # 0 /\ x <= pushed
    <3> SUFFICES ASSUME NEW i \in 1 .. n
                 PROVE  pending[i] \in Nat /\ pending[i] # 0 /\ pending[i] <= pushed
      BY <2>2 DEF Elements
    <3> DEFINE x == pending[i]
    <3>1. x \in Nat /\ x # 0 /\ x + n = pushed + i /\ i \in Nat /\ i <= n
      BY <2>2, <2>5
    <3> HIDE DEF x
    <3>2. x <= pushed
      BY <2>2, <3>1
    <3> QED BY <3>1, <3>2 DEF x
  <2>7. \A x \in Scribed \cup HandledChunk : x \in Nat /\ x # 0 /\ x <= pushed
    BY <2>2, <2>3, <2>4
  <2>8. \A x : x \in Nat /\ x # 0 /\ x <= pushed => x \in 1 .. pushed
    BY <2>2
  <2>9. Elements(transcript) \cup MailedChunks \cup HandledChunk \cup Elements(pending) \cup shed \subseteq 1 .. pushed
    BY <2>1, <2>6, <2>7, <2>8 DEF Scribed
  <2>10. pushed - dropped = Len(transcript) + Cardinality(MailedChunks \cup HandledChunk) + Len(pending)
                            + Cardinality(shed)
    <3> DEFINE t == Len(transcript)
               k == Cardinality(MailedChunks \cup HandledChunk)
               s == Cardinality(shed)
               p == Len(popped)
    <3>1. t \in Nat /\ k \in Nat /\ s \in Nat /\ p \in Nat /\ p = t + k + s /\ p + dropped + n = pushed
      BY <2>1, <2>2, ScribeTypes DEF ScribeInv
    <3> HIDE DEF t, k, s, p
    <3>2. pushed - dropped = t + k + n + s
      BY <2>2, <3>1
    <3> QED BY <3>2 DEF t, k, s, n
  <2> QED BY <2>9, <2>10 DEF TranscriptAccounted, ScribeInv
<1> QED BY <1>1, ScribeInvariant, PTL

-----------------------------------------------------------------------------
(* What a viewer is shown.                                                 *)

\* A step that shows a viewer something pushed before, or nothing.
LEMMA StreamStep ==
    ASSUME FlowInv, StreamInv, pushed' \in Nat, pushed <= pushed',
           \A u \in Viewers :
               /\ \/ conn'[u].snapshot = conn[u].snapshot
                  \/ Increasing(conn'[u].snapshot) /\ \A x \in Elements(conn'[u].snapshot) : x <= pushed'
               /\ \/ stream'[u] = stream[u] /\ (conn'[u].pc \in Unshown => conn[u].pc \in Unshown)
                  \/ /\ conn'[u].pc \notin Unshown /\ Increasing(stream'[u])
                     /\ \A x \in Elements(stream'[u]) : x <= pushed'
    PROVE  StreamInv'
<1>1. pushed \in Nat /\ conn \in [Viewers -> ConnType] /\ stream \in [Viewers -> Seq(Nat)]
  BY FlowTypes DEF FlowInv, TypeOK, ConnType
<1>2. ASSUME NEW u \in Viewers
      PROVE  /\ Increasing(stream[u]) /\ \A x \in Elements(stream[u]) : x <= pushed'
             /\ Increasing(conn[u].snapshot) /\ \A x \in Elements(conn[u].snapshot) : x <= pushed'
             /\ conn[u].pc \in Unshown => stream[u] = <<>>
  <2>1. stream[u] \in Seq(Nat) /\ conn[u].snapshot \in Seq(Nat)
    BY <1>1 DEF ConnType
  <2>2. (\A x \in Elements(stream[u]) : x \in Nat) /\ (\A x \in Elements(conn[u].snapshot) : x \in Nat)
    BY <2>1 DEF Elements
  <2>3. /\ Increasing(stream[u]) /\ \A x \in Elements(stream[u]) : x <= pushed
        /\ Increasing(conn[u].snapshot) /\ \A x \in Elements(conn[u].snapshot) : x <= pushed
        /\ conn[u].pc \in Unshown => stream[u] = <<>>
    BY DEF StreamInv, Shown
  <2> QED BY <1>1, <2>2, <2>3
<1>3. ASSUME NEW u \in Viewers
      PROVE  /\ Increasing(stream'[u]) /\ \A x \in Elements(stream'[u]) : x <= pushed'
             /\ Increasing(conn'[u].snapshot) /\ \A x \in Elements(conn'[u].snapshot) : x <= pushed'
             /\ conn'[u].pc \in Unshown => stream'[u] = <<>>
  BY <1>2
<1> QED BY <1>3 DEF StreamInv, Shown

\* Neither a viewer nor the queue's count changes, and no connection goes back.
LEMMA StreamKept ==
    ASSUME FlowInv, StreamInv, UNCHANGED <<stream, pushed>>,
           \A u \in Viewers : /\ conn'[u].snapshot = conn[u].snapshot
                              /\ conn'[u].pc \in Unshown => conn[u].pc \in Unshown
    PROVE  StreamInv'
<1>1. pushed' \in Nat /\ pushed <= pushed'
  BY FlowTypes
<1> QED BY <1>1, StreamStep

\* A chunk is pushed and shown to one viewer, which has had its replay.
LEMMA ChunkShown ==
    ASSUME FlowInv, StreamInv, NEW v \in Viewers, conn[v].pc \notin Unshown, conn' = conn,
           pushed' = pushed + 1, stream' = [stream EXCEPT ![v] = Append(stream[v], pushed + 1)]
    PROVE  StreamInv'
<1>1. pushed \in Nat /\ stream \in [Viewers -> Seq(Nat)]
  BY FlowTypes DEF FlowInv, TypeOK
<1>2. stream[v] \in Seq(Nat) /\ Increasing(stream[v]) /\ \A x \in Elements(stream[v]) : x <= pushed
  BY <1>1 DEF StreamInv, Shown
<1>3. \A x \in Elements(stream[v]) : x \in Nat /\ x < pushed + 1
  <2>1. \A x \in Elements(stream[v]) : x \in Nat
    BY <1>2 DEF Elements
  <2> QED BY <1>1, <1>2, <2>1
<1>4. /\ Increasing(Append(stream[v], pushed + 1))
      /\ Elements(Append(stream[v], pushed + 1)) = Elements(stream[v]) \cup {pushed + 1}
  BY <1>1, <1>2, <1>3, IncreasingAppend
<1>5. \A x \in Elements(Append(stream[v], pushed + 1)) : x <= pushed'
  BY <1>1, <1>3, <1>4
<1>6. stream'[v] = Append(stream[v], pushed + 1) /\ \A u \in Viewers : u # v => stream'[u] = stream[u]
  BY <1>1
<1>7. pushed' \in Nat /\ pushed <= pushed'
  BY <1>1
<1>8. ASSUME NEW u \in Viewers
      PROVE  /\ conn'[u].snapshot = conn[u].snapshot
             /\ \/ stream'[u] = stream[u] /\ (conn'[u].pc \in Unshown => conn[u].pc \in Unshown)
                \/ /\ conn'[u].pc \notin Unshown /\ Increasing(stream'[u])
                   /\ \A x \in Elements(stream'[u]) : x <= pushed'
  BY <1>4, <1>5, <1>6
<1> QED BY <1>7, <1>8, StreamStep

\* A chunk is pushed and shown to nobody.
LEMMA ChunkUnshown ==
    ASSUME FlowInv, StreamInv, UNCHANGED <<conn, stream>>, pushed' = pushed + 1
    PROVE  StreamInv'
<1>1. pushed' \in Nat /\ pushed <= pushed'
  BY FlowTypes
<1> QED BY <1>1, StreamStep

\* write_bytes shows the chunk to the active viewer.
LEMMA WriteShown ==
    ASSUME FlowInv, LeaseInv, StreamInv, FanoutWrite
    PROVE  StreamInv'
<1> DEFINE c == Head(outbox).chunk
<1>1. Takes("Bytes") /\ conn' = conn
  BY DEF FanoutWrite
<1>2. c = pushed + Len(slot.backlog) + 1 /\ pushed \in Nat /\ Len(slot.backlog) \in Nat
  BY <1>1, ChunkTaken, FlowTypes
<1> HIDE DEF c
<1>3. CASE slot.state = "Reserved"
  <2>1. UNCHANGED <<stream, pushed>>
    BY <1>3 DEF FanoutWrite, queueVars
  <2> QED BY <1>1, <2>1, StreamKept
<1>4. CASE slot.state # "Reserved"
  <2>1. slot.backlog = <<>> /\ c = pushed + 1
    <3>1. slot.backlog = <<>>
      BY <1>4 DEF FlowInv, BacklogHeld
    <3>2. Len(slot.backlog) = 0
      BY <3>1
    <3>3. c = pushed + 0 + 1
      BY <1>2, <3>2
    <3> QED BY <1>2, <3>1, <3>3
  <2>2. /\ Queue!PushDropOldest(c)
        /\ \/ slot.state = "Active" /\ stream' = [stream EXCEPT ![slot.viewer] = Append(stream[slot.viewer], c)]
           \/ stream' = stream
    BY <1>4 DEF FanoutWrite, c
  <2>3. pushed' = pushed + 1
    BY <2>2 DEF Queue!PushDropOldest
  <2>4. CASE /\ slot.state = "Active"
             /\ stream' = [stream EXCEPT ![slot.viewer] = Append(stream[slot.viewer], c)]
    <3>1. slot.viewer \in Viewers /\ conn[slot.viewer].pc \in {"active", "pumping"} \cup Leaving
      BY <2>4 DEF LeaseInv, SlotOwned
    <3>2. PICK v \in Viewers : v = slot.viewer
      BY <3>1
    <3>3. conn[v].pc \notin Unshown
      BY <3>1, <3>2 DEF Unshown, Leaving
    <3>4. stream' = [stream EXCEPT ![v] = Append(stream[v], pushed + 1)]
      BY <2>1, <2>4, <3>2
    <3> QED BY <1>1, <2>3, <3>3, <3>4, ChunkShown
  <2>5. CASE stream' = stream
    BY <1>1, <2>3, <2>5, ChunkUnshown
  <2> QED BY <2>2, <2>4, <2>5
<1> QED BY <1>3, <1>4

\* The backlog is shown to the viewer being activated, or to nobody.
LEMMA BacklogShown ==
    ASSUME FlowInv, LeaseInv, StreamInv, FanoutReplayBacklog \/ FanoutDrain
    PROVE  StreamInv'
<1>1. fanout.backlog # <<>> /\ Queue!PushDropOldest(Head(fanout.backlog)) /\ conn' = conn
  BY DEF FanoutReplayBacklog, FanoutDrain
<1>2. Head(fanout.backlog) = pushed + 1 /\ pushed' = pushed + 1
  BY <1>1, BacklogPushed DEF Queue!PushDropOldest
<1>3. CASE stream' = stream
  BY <1>1, <1>2, <1>3, ChunkUnshown
<1>4. CASE stream' # stream
  <2>1. /\ fanout.pc = "activating"
        /\ stream' = [stream EXCEPT ![fanout.viewer] = Append(stream[fanout.viewer], Head(fanout.backlog))]
    BY <1>4 DEF FanoutReplayBacklog, FanoutDrain
  <2>2. fanout.viewer \in Viewers /\ conn[fanout.viewer].pc = "activating"
    BY <2>1 DEF LeaseInv, SlotOwned
  <2>3. PICK v \in Viewers : v = fanout.viewer
    BY <2>2
  <2>4. conn[v].pc \notin Unshown
    BY <2>2, <2>3 DEF Unshown
  <2>5. stream' = [stream EXCEPT ![v] = Append(stream[v], pushed + 1)]
    BY <1>2, <2>1, <2>3
  <2> QED BY <1>1, <1>2, <2>4, <2>5, ChunkShown
<1> QED BY <1>3, <1>4

\* The other commands and the end of a backlog show nothing.
LEMMA FanoutShowsNothing ==
    ASSUME FlowInv, LeaseInv, StreamInv,
           FanoutReserve \/ FanoutActivate \/ FanoutActivated \/ FanoutDrained \/ FanoutDetach
    PROVE  StreamInv'
<1>1. UNCHANGED <<stream, pushed>>
  BY DEF FanoutReserve, FanoutActivate, FanoutActivated, FanoutDrained, FanoutDetach, queueVars
<1>2. TypeOK /\ conn \in [Viewers -> ConnType]
  BY DEF FlowInv, TypeOK, ConnType
<1>3. ASSUME NEW v, NEW q \in {"failed", "active"}, Goto(v, q) PROVE StreamInv'
  <2>1. \A u \in Viewers : /\ conn'[u].snapshot = conn[u].snapshot
                           /\ conn'[u].pc \in Unshown => conn[u].pc \in Unshown
    BY <1>2, <1>3, GotoFacts DEF ConnStates, Unshown
  <2> QED BY <1>1, <2>1, StreamKept
<1>4. CASE FanoutActivate \/ FanoutActivated \/ FanoutDrained \/ FanoutDetach
  <2>1. conn' = conn \/ \E v : Goto(v, "failed") \/ Goto(v, "active")
    BY <1>4 DEF FanoutActivate, FanoutActivated, FanoutDrained, FanoutDetach
  <2> QED BY <1>1, <1>3, <2>1, StreamKept
<1>5. CASE FanoutReserve
  <2>1. \E m \in Command : m = Head(outbox) /\ m.op = "ReserveViewer" /\ Awaited(m)
    BY <1>5, HeadAwaited DEF FanoutReserve
  <2>2. PICK m \in Command : m = Head(outbox) /\ m.op = "ReserveViewer" /\ Awaited(m)
    BY <2>1
  <2>3. PICK v \in Viewers : v = m.viewer /\ conn[v].pc = "reserving"
    BY <2>2, CommandFields DEF Awaited
  <2>4. \/ conn' = [conn EXCEPT ![v].pc = "reserved", ![v].lease = nextViewer]
        \/ conn' = [conn EXCEPT ![v].pc = "rejected"]
    BY <1>5, <2>2, <2>3 DEF FanoutReserve, Goto
  <2>5. ASSUME NEW u \in Viewers
        PROVE  /\ conn'[u].snapshot = conn[u].snapshot
               /\ conn'[u].pc \in Unshown => conn[u].pc \in Unshown
    <3>1. conn[u] \in ConnType
      BY <1>2
    <3>2. CASE u = v
      <4>1. \/ conn'[u] = [conn[u] EXCEPT !.pc = "reserved", !.lease = nextViewer]
            \/ conn'[u] = [conn[u] EXCEPT !.pc = "rejected"]
        BY <1>2, <2>4, <3>2
      <4> QED BY <2>3, <3>1, <3>2, <4>1 DEF ConnType, Unshown
    <3>3. CASE u # v
      BY <1>2, <2>4, <3>3
    <3> QED BY <3>2, <3>3
  <2> QED BY <1>1, <2>5, StreamKept
<1> QED BY <1>4, <1>5

\* A connection shows its viewer the snapshot, before anything else.
LEMMA ConnectionShows ==
    ASSUME FlowInv, StreamInv, NEW v \in Viewers,
           \/ ReserveViewer(v) \/ WriteAttachAccepted(v) \/ AskSnapshot(v) \/ AskFails(v) \/ ReplaySnapshot(v)
           \/ ReplayFails(v) \/ StartPump(v) \/ PumpEnds(v) \/ PumpFails(v) \/ DetachAfterError(v)
    PROVE  StreamInv'
<1>1. pushed' = pushed /\ pushed \in Nat
  BY FlowTypes
     DEF ReserveViewer, WriteAttachAccepted, AskSnapshot, ReplaySnapshot, ReplayFails, AskFails, StartPump, PumpEnds,
         PumpFails, DetachAfterError, queueVars
<1>2. TypeOK /\ conn \in [Viewers -> ConnType] /\ stream \in [Viewers -> Seq(Nat)]
  BY DEF FlowInv, TypeOK, ConnType
<1>3. CASE ReplaySnapshot(v)
  <2>1. PICK q \in {"activating", "failed"} :
           /\ conn[v].pc = "replaying" /\ Goto(v, q)
           /\ stream' = [stream EXCEPT ![v] = stream[v] \o conn[v].snapshot]
    BY <1>3 DEF ReplaySnapshot
  <2>2. stream[v] = <<>> /\ conn[v].snapshot \in Seq(Nat) /\ Shown(conn[v].snapshot)
    BY <1>2, <2>1 DEF StreamInv, Unshown, ConnType
  <2>3. <<>> \o conn[v].snapshot = conn[v].snapshot
    BY <2>2
  <2>4. \A u \in Viewers : stream'[u] = IF u = v THEN conn[v].snapshot ELSE stream[u]
    BY <1>2, <2>1, <2>2, <2>3
  <2>5. \A u \in Viewers : /\ conn'[u].snapshot = conn[u].snapshot
                           /\ conn'[u].pc = IF u = v THEN q ELSE conn[u].pc
    BY <1>2, <2>1, GotoFacts DEF ConnStates, Attaching
  <2>6. ASSUME NEW u \in Viewers
        PROVE  /\ conn'[u].snapshot = conn[u].snapshot
               /\ \/ stream'[u] = stream[u] /\ (conn'[u].pc \in Unshown => conn[u].pc \in Unshown)
                  \/ /\ conn'[u].pc \notin Unshown /\ Increasing(stream'[u])
                     /\ \A x \in Elements(stream'[u]) : x <= pushed'
    <3>1. CASE u = v
      <4>1. stream'[u] = conn[v].snapshot /\ conn'[u].pc \notin Unshown
        BY <2>4, <2>5, <3>1 DEF Unshown
      <4>2. Increasing(conn[v].snapshot) /\ \A x \in Elements(conn[v].snapshot) : x <= pushed'
        BY <1>1, <2>2 DEF Shown
      <4> QED BY <2>5, <4>1, <4>2
    <3>2. CASE u # v
      BY <2>4, <2>5, <3>2
    <3> QED BY <3>1, <3>2
  <2>7. pushed' \in Nat /\ pushed <= pushed'
    BY <1>1
  <2> QED BY <2>6, <2>7, StreamStep
<1>4. CASE ~ReplaySnapshot(v)
  <2>1. /\ stream' = stream
        /\ \E q \in ConnStates : Goto(v, q) /\ (q \in Unshown => conn[v].pc \in Unshown)
    BY <1>4 DEF ReserveViewer, WriteAttachAccepted, AskSnapshot, ReplayFails, AskFails, StartPump, PumpEnds,
                PumpFails, DetachAfterError, ConnStates, Attaching, Unshown
  <2>2. PICK q \in ConnStates : Goto(v, q) /\ (q \in Unshown => conn[v].pc \in Unshown)
    BY <2>1
  <2>3. \A u \in Viewers : /\ conn'[u].snapshot = conn[u].snapshot
                           /\ conn'[u].pc = IF u = v THEN q ELSE conn[u].pc
    BY <1>2, <2>2, GotoFacts
  <2>4. \A u \in Viewers : conn'[u].pc \in Unshown => conn[u].pc \in Unshown
    BY <2>2, <2>3
  <2> QED BY <1>1, <2>1, <2>3, <2>4, StreamKept
<1> QED BY <1>3, <1>4

\* The snapshot is the transcript, whose chunks were all pushed.
LEMMA SnapshotShown ==
    ASSUME FlowInv, LeaseInv, ScribeInv, StreamInv, ActorHandles
    PROVE  StreamInv'
<1>a. mailbox \in Seq(Message) /\ MailboxAwaited /\ conn \in [Viewers -> ConnType]
  BY DEF FlowInv, TypeOK, LeaseInv, ConnType
<1> DEFINE m == Head(mailbox)
<1>1. /\ mailbox # <<>> /\ UNCHANGED <<stream, queueVars>>
      /\ conn' = IF m.op = "Snapshot"
                 THEN [conn EXCEPT ![m.viewer].pc = "replaying", ![m.viewer].snapshot = transcript]
                 ELSE conn
  BY DEF ActorHandles
<1>2. m \in Message /\ Expected(m)
  <2>1. m = mailbox[1] /\ 1 \in DOMAIN mailbox /\ m \in Message
    BY <1>a, <1>1
  <2> QED BY <1>a, <2>1 DEF MailboxAwaited
<1>3. m.op = "Snapshot" => m.viewer \in Viewers /\ conn[m.viewer].pc = "asking"
  BY <1>2, MessageFields DEF Expected
<1>4. Increasing(transcript) /\ \A x \in Elements(transcript) : x <= pushed
  <2>1. Increasing(transcript) /\ \A x \in Elements(transcript) : x \in Nat /\ x <= Queue!LastPopped
    BY ScribeTypes DEF ScribeInv, Scribed
  <2>2. Queue!LastPopped \in Nat /\ pushed \in Nat /\ Queue!LastPopped <= pushed
    <3> DEFINE n == Len(pending)
               last == Queue!LastPopped
    <3>1. n \in Nat /\ last \in Nat /\ pushed \in Nat /\ last + n <= pushed
      BY ScribeTypes DEF FlowInv, QueueInv, Queue!TypeOK, Queue!NewestRun
    <3> HIDE DEF n, last
    <3>2. last <= pushed
      BY <3>1
    <3> QED BY <3>1, <3>2 DEF last
  <2> QED BY <2>1, <2>2
<1>5. pushed' = pushed /\ stream' = stream /\ pushed' \in Nat /\ pushed <= pushed'
  BY <1>1, FlowTypes DEF queueVars
<1> HIDE DEF m
<1>6. ASSUME NEW u \in Viewers
      PROVE  /\ \/ conn'[u].snapshot = conn[u].snapshot
                \/ Increasing(conn'[u].snapshot) /\ \A x \in Elements(conn'[u].snapshot) : x <= pushed'
             /\ conn'[u].pc \in Unshown => conn[u].pc \in Unshown
  <2>1. CASE m.op = "Snapshot" /\ u = m.viewer
    <3>1. conn'[u] = [conn[u] EXCEPT !.pc = "replaying", !.snapshot = transcript] /\ conn[u] \in ConnType
      BY <1>a, <1>1, <2>1
    <3>2. conn'[u].snapshot = transcript
      BY <3>1 DEF ConnType
    <3> QED BY <1>3, <1>4, <1>5, <2>1, <3>2 DEF Unshown
  <2>2. CASE ~(m.op = "Snapshot" /\ u = m.viewer)
    BY <1>a, <1>1, <2>2
  <2> QED BY <2>1, <2>2
<1> QED BY <1>5, <1>6, StreamStep

\* Every step keeps what the viewers were shown in order.
LEMMA StreamSteps == FlowInv /\ LeaseInv /\ ScribeInv /\ StreamInv /\ [Next]_vars => StreamInv'
<1> SUFFICES ASSUME FlowInv, LeaseInv, ScribeInv, StreamInv, [Next]_vars PROVE StreamInv'
  OBVIOUS
<1>1. CASE UNCHANGED vars
  BY <1>1, StreamKept DEF vars, queueVars
<1>2. CASE Fanout
  BY <1>2, WriteShown, BacklogShown, FanoutShowsNothing DEF Fanout
<1>3. CASE ReadOutput \/ InputCloses
  BY <1>3, StreamKept DEF ReadOutput, InputCloses, queueVars
<1>4. CASE Scriber
  <2>1. conn' = conn
    BY <1>4 DEF Scriber, ScriberWaits, ScriberTells
  <2> QED BY <1>4, <2>1, ScribeSteps, StreamKept
<1>5. CASE ActorHandles
  BY <1>5, SnapshotShown
<1>6. ASSUME NEW v \in Viewers, ReserveViewer(v) \/ Connection(v) \/ AskFails(v) \/ Viewer(v) PROVE StreamInv'
  <2>1. CASE Viewer(v) \/ PumpViewerInput(v)
    BY <2>1, StreamKept DEF Viewer, ViewerTypes, ViewerCloses, PumpViewerInput, queueVars
  <2> QED BY <1>6, <2>1, ConnectionShows DEF Connection
<1> QED BY <1>1, <1>2, <1>3, <1>4, <1>5, <1>6 DEF Next

\* A viewer never sees a chunk twice or out of order: what the snapshot replays
\* is older than the backlog, and that older than what is written live.
THEOREM ViewersInOrder == Spec => []ViewerInOrder
<1>1. Init => StreamInv
  <2> SUFFICES ASSUME Init PROVE StreamInv
    OBVIOUS
  <2>1. \A v \in Viewers : stream[v] = <<>> /\ conn[v].snapshot = <<>>
    BY DEF Init
  <2>2. Shown(<<>>)
    BY DEF Shown, Increasing, Elements
  <2> QED BY <2>1, <2>2 DEF StreamInv
<1>2. StreamInv => ViewerInOrder
  BY DEF StreamInv, Shown, ViewerInOrder
<1> QED BY <1>1, <1>2, StreamSteps, ScribeInvariant, LeaseInvariant, PTL DEF Spec

=============================================================================
