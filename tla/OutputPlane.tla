----------------------------- MODULE OutputPlane -----------------------------
(***************************************************************************)
(* The output plane of a terminal cell.  The PTY reader sends every chunk  *)
(* it reads through the mpsc channel of TerminalOutputPort to the          *)
(* ViewerFanout worker, which writes it to the attached viewer and pushes  *)
(* it to the transcript-notice queue; the TranscriptScriber worker hands   *)
(* notices to the TerminalCell actor through its bounded mailbox, and the  *)
(* actor appends them to the transcript.  A data connection attaches a     *)
(* viewer: it reserves the viewer slot, replays a transcript snapshot,     *)
(* activates the slot and then pumps the viewer's keyboard bytes.          *)
(*                                                                         *)
(* The queue is TranscriptNoticeQueue, composed here by INSTANCE.  Chunks  *)
(* are numbered 1, 2, 3, ... in the order the PTY delivers them.           *)
(***************************************************************************)
EXTENDS Integers, Sequences, SequencesExt, FiniteSets

CONSTANTS
    Viewers,            \* data connections; each attaches at most once
    QueueCapacity,      \* TRANSCRIPT_NOTICE_QUEUE_CAPACITY
    MailboxCapacity,    \* the actor's bounded mailbox
    MaxOutput,          \* bound: chunks the child writes
    MaxKeys             \* bound: keyboard chunks per viewer

ASSUME OutputPlaneAssumption ==
    /\ QueueCapacity \in Nat \ {0}
    /\ MailboxCapacity \in Nat \ {0}
    /\ MaxOutput \in Nat
    /\ MaxKeys \in Nat

VARIABLES
    emitted,    \* chunks the PTY reader has sent
    outbox,     \* the mpsc channel of TerminalOutputCommand
    slot,       \* TerminalViewerSlot
    nextViewer, \* next_viewer_sequence
    fanout,     \* the command the ViewerFanout worker is busy with
    pending, closed, dropped, consumer, pushed, popped, \* the notice queue
    mailbox,    \* messages waiting for the TerminalCell actor
    transcript, \* chunks the actor has appended
    shed,       \* history: chunks the scriber could not put into the mailbox
    conn,       \* the data connections' threads
    peer,       \* is the viewer's end of the connection open?
    stream,     \* history: the chunks written to each viewer
    keys,       \* keyboard chunks in the socket, not yet read by the pump
    inputUp     \* does the input plane accept bytes?

queueVars == <<pending, closed, dropped, consumer, pushed, popped>>
fanoutVars == <<outbox, slot, nextViewer, fanout>>
actorVars == <<mailbox, transcript, shed>>
viewerVars == <<peer, keys>>
vars == <<emitted, fanoutVars, queueVars, actorVars, conn, stream, viewerVars,
          inputUp>>

\* The notice queue; MaxPushes bounds only its stand-alone specification.
Queue == INSTANCE TranscriptNoticeQueue WITH
            Capacity <- QueueCapacity, MaxPushes <- MaxOutput

NoViewer == "none"
NoLease == 0
EmptySlot == [state |-> "Empty", lease |-> NoLease, viewer |-> NoViewer,
              backlog |-> <<>>]
IdleFanout == [pc |-> "idle", lease |-> NoLease, viewer |-> NoViewer,
               backlog |-> <<>>]

Init ==
    /\ emitted = 0
    /\ outbox = <<>>
    /\ slot = EmptySlot
    /\ nextViewer = 1
    /\ fanout = IdleFanout
    /\ Queue!Init
    /\ mailbox = <<>>
    /\ transcript = <<>>
    /\ shed = {}
    /\ conn = [v \in Viewers |-> [pc |-> "new", lease |-> NoLease, snapshot |-> <<>>]]
    /\ peer = [v \in Viewers |-> TRUE]
    /\ stream = [v \in Viewers |-> <<>>]
    /\ keys = [v \in Viewers |-> 0]
    /\ inputUp = TRUE

-----------------------------------------------------------------------------
(* The environment: the child, the viewers' ends, the input plane.         *)

\* The output reader thread passes on what it read from the PTY.
ReadOutput ==
    /\ emitted < MaxOutput
    /\ emitted' = emitted + 1
    /\ outbox' = Append(outbox, [op |-> "Bytes", chunk |-> emitted + 1])
    /\ UNCHANGED <<slot, nextViewer, fanout, queueVars, actorVars, conn, stream,
                   viewerVars, inputUp>>

ViewerTypes(v) ==
    /\ peer[v]
    /\ keys[v] < MaxKeys
    /\ keys' = [keys EXCEPT ![v] = @ + 1]
    /\ UNCHANGED <<emitted, fanoutVars, queueVars, actorVars, conn, stream, peer,
                   inputUp>>

\* The viewer closes its end; what it had typed stays readable.
ViewerCloses(v) ==
    /\ peer[v]
    /\ peer' = [peer EXCEPT ![v] = FALSE]
    /\ UNCHANGED <<emitted, fanoutVars, queueVars, actorVars, conn, stream, keys,
                   inputUp>>

\* The input writer dies (InputPlane!HandleWriteFails).
InputCloses ==
    /\ inputUp
    /\ inputUp' = FALSE
    /\ UNCHANGED <<emitted, fanoutVars, queueVars, actorVars, conn, stream,
                   viewerVars>>

-----------------------------------------------------------------------------
(* The data connections.                                                   *)

Goto(v, pc) == conn' = [conn EXCEPT ![v].pc = pc]

\* tell(..).try_send(): the message is gone when the mailbox is full.
TrySend(message) ==
    mailbox' = IF Len(mailbox) < MailboxCapacity
               THEN Append(mailbox, message) ELSE mailbox

\* attach_viewer: ask for the slot and wait for the fanout's answer.
ReserveViewer(v) ==
    /\ conn[v].pc = "new"
    /\ outbox' = Append(outbox, [op |-> "ReserveViewer", viewer |-> v])
    /\ Goto(v, "reserving")
    /\ UNCHANGED <<emitted, slot, nextViewer, fanout, queueVars, actorVars, stream,
                   viewerVars, inputUp>>

\* complete_viewer_attach: the attach-accepted reply, which fails when the
\* viewer is gone.
WriteAttachAccepted(v) ==
    /\ conn[v].pc = "reserved"
    /\ Goto(v, IF peer[v] THEN "accepted" ELSE "failed")
    /\ UNCHANGED <<emitted, fanoutVars, queueVars, actorVars, stream, viewerVars,
                   inputUp>>

\* ... then the snapshot is asked of the actor; ask waits for room.
AskSnapshot(v) ==
    /\ conn[v].pc = "accepted"
    /\ Len(mailbox) < MailboxCapacity
    /\ mailbox' = Append(mailbox, [op |-> "Snapshot", viewer |-> v])
    /\ Goto(v, "asking")
    /\ UNCHANGED <<emitted, fanoutVars, queueVars, transcript, shed, stream,
                   viewerVars, inputUp>>

\* ... or refused, or never answered: the actor has stopped.
AskFails(v) ==
    /\ conn[v].pc = "accepted"
    /\ Goto(v, "failed")
    /\ UNCHANGED <<emitted, fanoutVars, queueVars, actorVars, stream, viewerVars,
                   inputUp>>

\* ... then written to the viewer, if there is anything in it, and the fanout
\* is asked to activate the slot, unless the stream cannot be cloned.
ReplaySnapshot(v) ==
    /\ conn[v].pc = "replaying"
    /\ peer[v] \/ conn[v].snapshot = <<>>
    /\ stream' = [stream EXCEPT ![v] = @ \o conn[v].snapshot]
    /\ \/ /\ outbox' = Append(outbox, [op |-> "ActivateViewer", viewer |-> v,
                                       lease |-> conn[v].lease])
          /\ Goto(v, "activating")
       \/ /\ outbox' = outbox
          /\ Goto(v, "failed")
    /\ UNCHANGED <<emitted, slot, nextViewer, fanout, queueVars, actorVars,
                   viewerVars, inputUp>>

ReplayFails(v) ==
    /\ conn[v].pc = "replaying"
    /\ ~peer[v] /\ conn[v].snapshot # <<>>
    /\ Goto(v, "failed")
    /\ UNCHANGED <<emitted, fanoutVars, queueVars, actorVars, stream, viewerVars,
                   inputUp>>

\* The slot is ours: report the pump as started, then read keyboard bytes.
StartPump(v) ==
    /\ conn[v].pc = "active"
    /\ TrySend([op |-> "WorkerLifecycle"])
    /\ Goto(v, "pumping")
    /\ UNCHANGED <<emitted, fanoutVars, queueVars, transcript, shed, stream,
                   viewerVars, inputUp>>

\* pump_viewer_input: one read, accepted by the input port.
PumpViewerInput(v) ==
    /\ conn[v].pc = "pumping"
    /\ keys[v] > 0
    /\ inputUp
    /\ keys' = [keys EXCEPT ![v] = @ - 1]
    /\ UNCHANGED <<emitted, fanoutVars, queueVars, actorVars, conn, stream, peer,
                   inputUp>>

Detach(v) == [op |-> "Detach", lease |-> conn[v].lease]

\* Mutant of PumpEnds: the connection ends without a detach.
PumpEndsAttached(v) ==
    /\ conn[v].pc = "pumping"
    /\ ~peer[v] /\ keys[v] = 0
    /\ TrySend([op |-> "WorkerLifecycle"])
    /\ Goto(v, "done")
    /\ UNCHANGED <<emitted, fanoutVars, queueVars, transcript, shed, stream,
                   viewerVars, inputUp>>

\* The pump reads end of file: report it as stopped, detach.
PumpEnds(v) ==
    /\ conn[v].pc = "pumping"
    /\ ~peer[v] /\ keys[v] = 0
    /\ TrySend([op |-> "WorkerLifecycle"])
    /\ outbox' = Append(outbox, Detach(v))
    /\ Goto(v, "done")
    /\ UNCHANGED <<emitted, slot, nextViewer, fanout, queueVars, transcript, shed,
                   stream, viewerVars, inputUp>>

\* The input port refuses the bytes, or the read fails on a closed peer: the
\* same report and detach, and then attach_viewer detaches once more.
PumpFails(v) ==
    /\ conn[v].pc = "pumping"
    /\ ~peer[v] \/ (keys[v] > 0 /\ ~inputUp)
    /\ TrySend([op |-> "WorkerLifecycle"])
    /\ outbox' = Append(outbox, Detach(v))
    /\ Goto(v, "failed")
    /\ UNCHANGED <<emitted, slot, nextViewer, fanout, queueVars, transcript, shed,
                   stream, viewerVars, inputUp>>

\* attach_viewer on an error of complete_viewer_attach.
DetachAfterError(v) ==
    /\ conn[v].pc = "failed"
    /\ outbox' = Append(outbox, Detach(v))
    /\ Goto(v, "done")
    /\ UNCHANGED <<emitted, slot, nextViewer, fanout, queueVars, actorVars, stream,
                   viewerVars, inputUp>>

-----------------------------------------------------------------------------
(* The ViewerFanout worker: one command at a time, to its end.             *)

Takes(op) ==
    /\ fanout.pc = "idle"
    /\ outbox # <<>>
    /\ Head(outbox).op = op
    /\ outbox' = Tail(outbox)

\* Mutant of FanoutWrite: the backlog's chunks are notified on arrival, so a
\* snapshot taken before the activation may already hold them.
FanoutWriteNotifiesBacklog ==
    /\ Takes("Bytes")
    /\ LET chunk == Head(outbox).chunk IN
       /\ Queue!PushDropOldest(chunk)
       /\ IF slot.state = "Reserved"
          THEN /\ slot' = [slot EXCEPT !.backlog = Append(@, chunk)]
               /\ stream' = stream
          ELSE IF slot.state = "Active" /\ peer[slot.viewer]
          THEN /\ stream' = [stream EXCEPT ![slot.viewer] = Append(@, chunk)]
               /\ slot' = slot
          ELSE /\ slot' = EmptySlot
               /\ stream' = stream
    /\ UNCHANGED <<emitted, nextViewer, fanout, actorVars, conn, viewerVars,
                   inputUp>>

\* write_bytes: to the active viewer and the queue, into the backlog of a
\* reserved one, or only to the queue.  A failed write empties the slot.
FanoutWrite ==
    /\ Takes("Bytes")
    /\ LET chunk == Head(outbox).chunk IN
       IF slot.state = "Reserved"
       THEN /\ slot' = [slot EXCEPT !.backlog = Append(@, chunk)]
            /\ UNCHANGED <<stream, queueVars>>
       ELSE /\ Queue!PushDropOldest(chunk)
            /\ IF slot.state = "Active" /\ peer[slot.viewer]
               THEN /\ stream' = [stream EXCEPT ![slot.viewer] = Append(@, chunk)]
                    /\ slot' = slot
               ELSE /\ slot' = EmptySlot
                    /\ stream' = stream
    /\ UNCHANGED <<emitted, nextViewer, fanout, actorVars, conn, viewerVars,
                   inputUp>>

\* Mutant of FanoutReserve: the newest viewer takes the slot.
FanoutReserveAnyway ==
    /\ Takes("ReserveViewer")
    /\ LET v == Head(outbox).viewer IN
       /\ slot' = [state |-> "Reserved", lease |-> nextViewer, viewer |-> v,
                   backlog |-> <<>>]
       /\ nextViewer' = nextViewer + 1
       /\ conn' = [conn EXCEPT ![v].pc = "reserved", ![v].lease = nextViewer]
    /\ UNCHANGED <<emitted, fanout, queueVars, actorVars, stream, viewerVars,
                   inputUp>>

\* reserve: a fresh lease if the slot is empty, else ViewerAlreadyAttached.
FanoutReserve ==
    /\ Takes("ReserveViewer")
    /\ LET v == Head(outbox).viewer IN
       IF slot.state = "Empty"
       THEN /\ slot' = [state |-> "Reserved", lease |-> nextViewer, viewer |-> v,
                        backlog |-> <<>>]
            /\ nextViewer' = nextViewer + 1
            /\ conn' = [conn EXCEPT ![v].pc = "reserved", ![v].lease = nextViewer]
       ELSE /\ Goto(v, "rejected")
            /\ UNCHANGED <<slot, nextViewer>>
    /\ UNCHANGED <<emitted, fanout, queueVars, actorVars, stream, viewerVars,
                   inputUp>>

\* Mutant of FanoutActivate: the reservation stays in the slot, half activated.
FanoutActivateInPlace ==
    /\ Takes("ActivateViewer")
    /\ LET command == Head(outbox) IN
       IF slot.state = "Reserved" /\ slot.lease = command.lease
       THEN /\ fanout' = [pc |-> "activating", lease |-> slot.lease,
                          viewer |-> command.viewer, backlog |-> slot.backlog]
            /\ slot' = [slot EXCEPT !.state = "Activating"]
            /\ conn' = conn
       ELSE /\ Goto(command.viewer, "failed")
            /\ UNCHANGED <<fanout, slot>>
    /\ UNCHANGED <<emitted, nextViewer, queueVars, actorVars, stream, viewerVars,
                   inputUp>>

\* activate: the reservation is taken out of the slot and its backlog is about
\* to be written; without a matching reservation the caller gets an error.
FanoutActivate ==
    /\ Takes("ActivateViewer")
    /\ LET command == Head(outbox) IN
       IF slot.state = "Reserved" /\ slot.lease = command.lease
       THEN /\ fanout' = [pc |-> "activating", lease |-> slot.lease,
                          viewer |-> command.viewer, backlog |-> slot.backlog]
            /\ slot' = EmptySlot
            /\ conn' = conn
       ELSE /\ Goto(command.viewer, "failed")
            /\ UNCHANGED <<fanout, slot>>
    /\ UNCHANGED <<emitted, nextViewer, queueVars, actorVars, stream, viewerVars,
                   inputUp>>

\* activate_reserved_viewer, one backlog chunk: to the viewer, then to the
\* queue; when the write fails, this chunk and the rest go to the queue only.
FanoutReplayBacklog ==
    /\ fanout.pc = "activating"
    /\ fanout.backlog # <<>>
    /\ Queue!PushDropOldest(Head(fanout.backlog))
    /\ fanout' = [fanout EXCEPT !.backlog = Tail(@),
                                !.pc = IF peer[fanout.viewer] THEN @ ELSE "aborting"]
    /\ stream' = IF peer[fanout.viewer]
                 THEN [stream EXCEPT ![fanout.viewer] = Append(@, Head(fanout.backlog))]
                 ELSE stream
    /\ UNCHANGED <<emitted, outbox, slot, nextViewer, actorVars, conn, viewerVars,
                   inputUp>>

\* The backlog is written: the viewer is active.
FanoutActivated ==
    /\ fanout.pc = "activating"
    /\ fanout.backlog = <<>>
    /\ slot' = [state |-> "Active", lease |-> fanout.lease,
                viewer |-> fanout.viewer, backlog |-> <<>>]
    /\ Goto(fanout.viewer, "active")
    /\ fanout' = IdleFanout
    /\ UNCHANGED <<emitted, outbox, nextViewer, queueVars, actorVars, stream,
                   viewerVars, inputUp>>

\* notify_reserved_transcript, one chunk of a backlog nobody will see.
FanoutDrain ==
    /\ fanout.pc \in {"aborting", "draining"}
    /\ fanout.backlog # <<>>
    /\ Queue!PushDropOldest(Head(fanout.backlog))
    /\ fanout' = [fanout EXCEPT !.backlog = Tail(@)]
    /\ UNCHANGED <<emitted, outbox, slot, nextViewer, actorVars, conn, stream,
                   viewerVars, inputUp>>

\* ... and its end; an aborted activation answers its caller with the error.
FanoutDrained ==
    /\ fanout.pc \in {"aborting", "draining"}
    /\ fanout.backlog = <<>>
    /\ IF fanout.pc = "aborting" THEN Goto(fanout.viewer, "failed") ELSE conn' = conn
    /\ fanout' = IdleFanout
    /\ UNCHANGED <<emitted, outbox, slot, nextViewer, queueVars, actorVars, stream,
                   viewerVars, inputUp>>

\* Mutants of FanoutDetach: the backlog is thrown away, or any lease detaches.
FanoutDetachForgets ==
    /\ Takes("Detach")
    /\ slot' = IF slot.state # "Empty" /\ slot.lease = Head(outbox).lease
               THEN EmptySlot ELSE slot
    /\ UNCHANGED <<emitted, nextViewer, fanout, queueVars, actorVars, conn, stream,
                   viewerVars, inputUp>>

FanoutDetachUnchecked ==
    /\ Takes("Detach")
    /\ slot' = EmptySlot
    /\ fanout' = IF slot.state = "Reserved"
                 THEN [IdleFanout EXCEPT !.pc = "draining", !.backlog = slot.backlog]
                 ELSE fanout
    /\ UNCHANGED <<emitted, nextViewer, queueVars, actorVars, conn, stream,
                   viewerVars, inputUp>>

\* detach: only the lease that owns the slot frees it; a reservation's backlog
\* still goes to the queue.
FanoutDetach ==
    /\ Takes("Detach")
    /\ IF slot.state # "Empty" /\ slot.lease = Head(outbox).lease
       THEN /\ slot' = EmptySlot
            /\ fanout' = IF slot.state = "Reserved"
                         THEN [IdleFanout EXCEPT !.pc = "draining",
                                                 !.backlog = slot.backlog]
                         ELSE fanout
       ELSE UNCHANGED <<slot, fanout>>
    /\ UNCHANGED <<emitted, nextViewer, queueVars, actorVars, conn, stream,
                   viewerVars, inputUp>>

-----------------------------------------------------------------------------
(* The TranscriptScriber worker and the actor.                             *)

ScriberWaits ==
    /\ Queue!PopNotice \/ Queue!WaitNotEmpty \/ Queue!SpuriousWakeup
    /\ UNCHANGED <<emitted, fanoutVars, actorVars, conn, stream, viewerVars,
                   inputUp>>

\* TerminalOutput into the mailbox with try_send, whose result is ignored.
ScriberTells ==
    /\ Queue!NoticeHandled
    /\ LET chunk == Last(popped) IN
       /\ TrySend([op |-> "TerminalOutput", chunk |-> chunk])
       /\ shed' = IF mailbox' = mailbox THEN shed \cup {chunk} ELSE shed
    /\ UNCHANGED <<emitted, fanoutVars, transcript, conn, stream, viewerVars,
                   inputUp>>

\* The actor takes the next message: append an output chunk, answer a snapshot
\* request, or record a lifecycle event.
ActorHandles ==
    /\ mailbox # <<>>
    /\ mailbox' = Tail(mailbox)
    /\ LET message == Head(mailbox) IN
       /\ transcript' = IF message.op = "TerminalOutput"
                        THEN Append(transcript, message.chunk) ELSE transcript
       /\ conn' = IF message.op = "Snapshot"
                  THEN [conn EXCEPT ![message.viewer].pc = "replaying",
                                    ![message.viewer].snapshot = transcript]
                  ELSE conn
    /\ UNCHANGED <<emitted, fanoutVars, queueVars, shed, stream, viewerVars,
                   inputUp>>

-----------------------------------------------------------------------------
Fanout ==
    \/ FanoutWrite
    \/ FanoutReserve
    \/ FanoutActivate
    \/ FanoutReplayBacklog
    \/ FanoutActivated
    \/ FanoutDrain
    \/ FanoutDrained
    \/ FanoutDetach

Scriber == ScriberWaits \/ ScriberTells

\* The steps a connection's thread takes on its own.
Connection(v) ==
    \/ WriteAttachAccepted(v)
    \/ AskSnapshot(v)
    \/ ReplaySnapshot(v)
    \/ ReplayFails(v)
    \/ StartPump(v)
    \/ PumpViewerInput(v)
    \/ PumpEnds(v)
    \/ PumpFails(v)
    \/ DetachAfterError(v)

Viewer(v) == ViewerTypes(v) \/ ViewerCloses(v)

Next ==
    \/ ReadOutput
    \/ InputCloses
    \/ \E v \in Viewers : ReserveViewer(v) \/ Connection(v) \/ AskFails(v) \/ Viewer(v)
    \/ Fanout
    \/ Scriber
    \/ ActorHandles

\* Worker threads, connection threads and the actor's task keep running; for
\* the fanout this takes a viewer that reads what is written to it.  The child
\* and the viewers owe nothing.
Fairness ==
    /\ WF_vars(Fanout)
    /\ WF_vars(ActorHandles)
    /\ \A v \in Viewers : WF_vars(Connection(v))

Spec == Init /\ [][Next]_vars /\ Fairness

-----------------------------------------------------------------------------
(* Properties.                                                             *)

Attaching == {"reserved", "accepted", "asking", "replaying", "activating"}
ConnStates == Attaching \cup {"new", "reserving", "rejected", "active", "pumping",
                              "failed", "done"}
ViewerOrNone == Viewers \cup {NoViewer}

Command ==
    [op: {"Bytes"}, chunk: Nat]
        \cup [op: {"ReserveViewer"}, viewer: Viewers]
        \cup [op: {"ActivateViewer"}, viewer: Viewers, lease: Nat]
        \cup [op: {"Detach"}, lease: Nat]

Message ==
    [op: {"TerminalOutput"}, chunk: Nat]
        \cup [op: {"Snapshot"}, viewer: Viewers]
        \cup [op: {"WorkerLifecycle"}]

TypeOK ==
    /\ emitted \in Nat
    /\ outbox \in Seq(Command)
    /\ slot \in [state: {"Empty", "Reserved", "Active"}, lease: Nat,
                 viewer: ViewerOrNone, backlog: Seq(Nat)]
    /\ nextViewer \in Nat
    /\ fanout \in [pc: {"idle", "activating", "aborting", "draining"}, lease: Nat,
                   viewer: ViewerOrNone, backlog: Seq(Nat)]
    /\ Queue!TypeOK
    /\ mailbox \in Seq(Message)
    /\ transcript \in Seq(Nat)
    /\ shed \in SUBSET Nat
    /\ conn \in [Viewers -> [pc: ConnStates, lease: Nat, snapshot: Seq(Nat)]]
    /\ peer \in [Viewers -> BOOLEAN]
    /\ stream \in [Viewers -> Seq(Nat)]
    /\ keys \in [Viewers -> Nat]
    /\ inputUp \in BOOLEAN

Increasing(s) == \A i, j \in DOMAIN s : i < j => s[i] < s[j]
Elements(s) == {s[i] : i \in DOMAIN s}
Below(S, T) == \A x \in S, y \in T : x < y

QueuedChunks ==
    {outbox[i].chunk : i \in {j \in DOMAIN outbox : outbox[j].op = "Bytes"}}
MailedChunks ==
    {mailbox[i].chunk : i \in {j \in DOMAIN mailbox : mailbox[j].op = "TerminalOutput"}}
HandledChunk == IF consumer = "handling" THEN {Last(popped)} ELSE {}

\* Whatever viewers do to the slot, the fanout notifies the transcript of every
\* chunk exactly once and in order: what is not notified yet is the backlog the
\* worker holds, then the backlog of the reservation, then the channel.
OutputConserved ==
    /\ Elements(fanout.backlog) \cup Elements(slot.backlog) \cup QueuedChunks
            = (pushed + 1) .. emitted
    /\ Increasing(fanout.backlog) /\ Increasing(slot.backlog)
    /\ Below(Elements(fanout.backlog), Elements(slot.backlog) \cup QueuedChunks)
    /\ Below(Elements(slot.backlog), QueuedChunks)

\* What the transcript holds is in PTY order and holds no chunk twice, and each
\* chunk it lacks is on its way, was counted by the queue as dropped, or was
\* refused by the full mailbox.
TranscriptAccounted ==
    LET known == Elements(transcript) \cup MailedChunks \cup HandledChunk
                    \cup Elements(pending) \cup shed
    IN  /\ Increasing(transcript)
        /\ known \subseteq 1 .. pushed
        /\ pushed - dropped =
             Len(transcript)
             + Cardinality(MailedChunks \cup HandledChunk) + Len(pending)
             + Cardinality(shed)

\* A viewer never sees a chunk twice or out of order: what the snapshot replays
\* is older than the backlog, and that older than what is written live.
ViewerInOrder == \A v \in Viewers : Increasing(stream[v])

\* The reservation a connection was given is still its own whenever the fanout
\* comes to activate it, however many other attaches, failures and stale
\* detaches were handled in between.
ReservationKept ==
    \A v \in Viewers :
        conn[v].pc \in Attaching =>
            \/ slot.state = "Reserved" /\ slot.lease = conn[v].lease
            \/ fanout.pc \in {"activating", "aborting"} /\ fanout.viewer = v

\* The viewer slot belongs to v, or the fanout is about to give it to v.
Occupies(v) ==
    \/ slot.state # "Empty" /\ slot.viewer = v
    \/ fanout.pc = "activating" /\ fanout.viewer = v

\* Nobody but itself ends a viewer's attachment: the slot is taken from a viewer
\* only after it closed its end or its own pump ended.
NoEviction ==
    [][\A v \in Viewers :
          Occupies(v) /\ ~Occupies(v)' => ~peer[v] \/ conn[v].pc \in {"failed", "done"}]_vars

\* The slot of a viewer that disconnected, at whatever point of its attach, is
\* given up.
SlotFreed == \A v \in Viewers : Occupies(v) /\ ~peer[v] ~> ~Occupies(v)

\* What a viewer has seen has no hole in it: after the replay come exactly the
\* bytes that follow.
ReplayMeetsLive ==
    \A v \in Viewers : \A i \in 1 .. Len(stream[v]) - 1 :
        stream[v][i + 1] = stream[v][i] + 1
=============================================================================
