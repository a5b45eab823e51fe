----------------------------- MODULE InputPlane -----------------------------
(***************************************************************************)
(* The input plane of a terminal cell: the keyboard bytes of the attached  *)
(* viewer and the programmatic bytes of control clients share one mpsc     *)
(* channel (TerminalInputPort) into one blocking worker                    *)
(* (TerminalInputWriter), which owns the input gate and the PTY writer.    *)
(* Control connections close and open the gate, either with the byte-tag   *)
(* requests (kind "raw") or with the Signal requests (kind "signal"), whose *)
(* handlers also keep a table of leases under a mutex of their own.  Every *)
(* request is served by a thread of its own, so a handler is split where   *)
(* it sends on the channel, waits for the worker's reply, or takes and     *)
(* drops the mutex.  A connection slot c stands for one client that sends  *)
(* its requests one after the other, each on a fresh connection.           *)
(***************************************************************************)
EXTENDS Naturals, Sequences, FiniteSets

CONSTANTS
    Connections,    \* control clients
    SharedLeases,   \* may a client name a lease that was not granted to it?
    MaxTyped,       \* bound: chunks of keyboard bytes
    MaxRequests     \* bound: requests of all control clients together

ASSUME InputPlaneAssumption ==
    /\ SharedLeases \in BOOLEAN
    /\ MaxTyped \in Nat
    /\ MaxRequests \in Nat

VARIABLES
    inbox,          \* the mpsc channel of TerminalInputCommand
    gate,           \* NoLease when Open, the lease when Closed(lease)
    nextSequence,   \* next_sequence of the gate
    held,           \* held_human_input
    writer,         \* "up" while the worker thread owns the receiver
    pty,            \* history: chunks written to the child PTY
    signalLeases,   \* TerminalSignalControlState::signal_leases
    conn,           \* the request a control client has in flight
    holds,          \* the lease the client believes it holds
    typed,          \* number of keyboard chunks accepted so far
    requests,       \* number of control requests so far
    lost            \* history: keyboard chunks a failed write threw away

vars == <<inbox, gate, nextSequence, held, writer, pty, signalLeases, conn,
          holds, typed, requests, lost>>

\* What only the worker changes, and what only a client changes.
workerVars == <<gate, nextSequence, held, writer, pty, lost>>
clientVars == <<signalLeases, holds, typed, requests>>

NoLease == 0
PromptStates == {"NotChecked", "Clean", "Dirty"}
Sources == {"Viewer", "Programmatic"}
Kinds == {"raw", "signal"}

(***************************************************************************)
(* A chunk is the byte vector of one TerminalInput.  Keyboard chunks are   *)
(* numbered in the order they enter the channel; an injected chunk carries *)
(* the lease its WriteInjection named.                                     *)
(***************************************************************************)
Chunk == [source: Sources, id: Nat, lease: Nat]
WrittenChunk == [source: Sources, id: Nat, lease: Nat, under: Nat]

WriteCommand == [op: {"Write"}, input: Chunk]
CloseCommand == [op: {"CloseHumanInput"}, from: Connections]
OpenCommand == [op: {"OpenHumanInput"}, from: Connections, lease: Nat]
TerminalInputCommand == WriteCommand \cup CloseCommand \cup OpenCommand

(***************************************************************************)
(* A request in flight.  "prompted": the prompt state is known and the     *)
(* gate is not closed yet; "closing", "opening": blocked in recv on the    *)
(* reply channel; "granted", "opened", "stale": the worker has replied and *)
(* the handler has not finished; "checked", "admitted": the lease table    *)
(* was consulted and its mutex dropped again.                              *)
(***************************************************************************)
At(pc, kind, lease, prompt) ==
    [pc |-> pc, kind |-> kind, lease |-> lease, prompt |-> prompt]
Idle == At("idle", "raw", NoLease, "NotChecked")
Waiting == {"closing", "opening"}
Stages == {"idle", "prompted", "closing", "granted", "checked", "opening",
           "opened", "stale", "admitted"}
Conn == [pc: Stages, kind: Kinds, lease: Nat, prompt: PromptStates]

LeaseEntry == [lease: Nat, prompt: PromptStates]
Entries(l) == {e \in signalLeases : e.lease = l}

Init ==
    /\ inbox = <<>>
    /\ gate = NoLease
    /\ nextSequence = 1
    /\ held = <<>>
    /\ writer = "up"
    /\ pty = <<>>
    /\ signalLeases = {}
    /\ conn = [c \in Connections |-> Idle]
    /\ holds = [c \in Connections |-> NoLease]
    /\ typed = 0
    /\ requests = 0
    /\ lost = {}

-----------------------------------------------------------------------------
(* The clients and the connection threads that serve them.                 *)

NewRequest(c) ==
    /\ conn[c].pc = "idle"
    /\ requests < MaxRequests
    /\ requests' = requests + 1

\* The lease a client may put into a request.
Nameable(c) == IF SharedLeases THEN 1 .. MaxRequests ELSE {holds[c]} \ {NoLease}

\* Send on the channel and block on the reply; a send on a channel whose
\* receiver is gone is InputClosed, and ends the request.
Submit(c, command, request) ==
    IF writer = "up"
    THEN /\ inbox' = Append(inbox, command)
         /\ conn' = [conn EXCEPT ![c] = request]
    ELSE /\ inbox' = inbox
         /\ conn' = [conn EXCEPT ![c] = Idle]

KeyboardChunk == [source |-> "Viewer", id |-> typed + 1, lease |-> NoLease]

\* pump_viewer_input: one read of the attached viewer's stream goes into the
\* channel.
PumpViewerInput ==
    /\ writer = "up"
    /\ typed < MaxTyped
    /\ typed' = typed + 1
    /\ inbox' = Append(inbox, [op |-> "Write", input |-> KeyboardChunk])
    /\ UNCHANGED <<workerVars, signalLeases, conn, holds, requests>>

\* An Input request of either source on the control socket.
WriteInput(c, source) ==
    /\ NewRequest(c)
    /\ writer = "up"
    /\ \/ /\ source = "Viewer"
          /\ typed < MaxTyped
          /\ typed' = typed + 1
          /\ inbox' = Append(inbox, [op |-> "Write", input |-> KeyboardChunk])
       \/ /\ source = "Programmatic"
          /\ typed' = typed
          /\ inbox' = Append(inbox,
                [op |-> "Write",
                 input |-> [source |-> source, id |-> 0, lease |-> NoLease]])
    /\ UNCHANGED <<workerVars, signalLeases, conn, holds>>

\* CloseHumanInput on the control socket.
CloseHumanInput(c) ==
    /\ NewRequest(c)
    /\ Submit(c, [op |-> "CloseHumanInput", from |-> c],
                 At("closing", "raw", NoLease, "NotChecked"))
    /\ UNCHANGED <<workerVars, signalLeases, holds, typed>>

\* OpenHumanInput(lease) on the control socket: no look at the lease table.
OpenHumanInput(c, lease) ==
    /\ NewRequest(c)
    /\ Submit(c, [op |-> "OpenHumanInput", from |-> c, lease |-> lease],
                 At("opening", "raw", lease, "NotChecked"))
    /\ UNCHANGED <<workerVars, signalLeases, holds, typed>>

\* AcquireInputGate, first half: the prompt state is read from a transcript
\* snapshot while the gate is still open to the keyboard.
SignalPromptState(c, prompt) ==
    /\ NewRequest(c)
    /\ conn' = [conn EXCEPT ![c] = At("prompted", "signal", NoLease, prompt)]
    /\ UNCHANGED <<workerVars, inbox, signalLeases, holds, typed>>

\* AcquireInputGate, second half: ask the worker to close the gate.
AcquireSignalInputGate(c) ==
    /\ conn[c].pc = "prompted"
    /\ Submit(c, [op |-> "CloseHumanInput", from |-> c],
                 At("closing", "signal", NoLease, conn[c].prompt))
    /\ UNCHANGED <<workerVars, clientVars>>

\* The reply carries a lease.  The Signal handler records it in the lease
\* table before it answers; the raw one answers at once.
RecordLease(c) ==
    /\ conn[c].pc = "granted"
    /\ LET lease == conn[c].lease IN
       /\ signalLeases' =
            IF conn[c].kind = "signal"
            THEN (signalLeases \ Entries(lease))
                    \cup {[lease |-> lease, prompt |-> conn[c].prompt]}
            ELSE signalLeases
       /\ holds' = [holds EXCEPT ![c] = lease]
    /\ conn' = [conn EXCEPT ![c] = Idle]
    /\ UNCHANGED <<workerVars, inbox, typed, requests>>

\* ReleaseInputGate: a lease that is not in the table is UnknownLease.
ReleaseSignalInputGate(c, lease) ==
    /\ NewRequest(c)
    /\ conn' = IF Entries(lease) = {} THEN conn
               ELSE [conn EXCEPT ![c] = At("checked", "signal", lease, "NotChecked")]
    /\ UNCHANGED <<workerVars, inbox, signalLeases, holds, typed>>

\* ... and one that is there is sent to the worker, the mutex not held.
SendSignalRelease(c) ==
    /\ conn[c].pc = "checked"
    /\ Submit(c, [op |-> "OpenHumanInput", from |-> c, lease |-> conn[c].lease],
                 At("opening", "signal", conn[c].lease, "NotChecked"))
    /\ UNCHANGED <<workerVars, clientVars>>

\* Mutant of ForgetLease: a byte-tag release leaves the lease table alone.
ForgetLeaseSignalOnly(c) ==
    /\ conn[c].pc \in {"opened", "stale"}
    /\ LET lease == conn[c].lease IN
       /\ signalLeases' = IF conn[c].kind = "raw" THEN signalLeases
                          ELSE signalLeases \ Entries(lease)
       /\ holds' = [holds EXCEPT ![c] = IF @ = lease THEN NoLease ELSE @]
    /\ conn' = [conn EXCEPT ![c] = Idle]
    /\ UNCHANGED <<workerVars, inbox, typed, requests>>

\* The reply says the gate is open (GateReleased), or the lease was stale: the
\* Signal handler drops the table entry in both cases, the raw one only in
\* the first.
ForgetLease(c) ==
    /\ conn[c].pc \in {"opened", "stale"}
    /\ LET lease == conn[c].lease IN
       /\ signalLeases' = IF conn[c].pc = "stale" /\ conn[c].kind = "raw"
                          THEN signalLeases
                          ELSE signalLeases \ Entries(lease)
       /\ holds' = [holds EXCEPT ![c] = IF @ = lease THEN NoLease ELSE @]
    /\ conn' = [conn EXCEPT ![c] = Idle]
    /\ UNCHANGED <<workerVars, inbox, typed, requests>>

\* WriteInjection: the table must hold the lease, and not as Dirty.
WriteSignalInjection(c, lease) ==
    /\ NewRequest(c)
    /\ conn' = IF \E e \in Entries(lease) : e.prompt # "Dirty"
               THEN [conn EXCEPT ![c] = At("admitted", "signal", lease, "NotChecked")]
               ELSE conn
    /\ UNCHANGED <<workerVars, inbox, signalLeases, holds, typed>>

\* ... then the bytes enter the channel as programmatic input; the gate is
\* not asked whether it is still closed under that lease.  The reply waits for
\* a snapshot of the transcript, without a change here: an acknowledgement, or
\* an error when the actor has stopped, although the bytes were accepted.
AcceptInjection(c) ==
    /\ conn[c].pc = "admitted"
    /\ Submit(c, [op |-> "Write",
                  input |-> [source |-> "Programmatic", id |-> 0,
                             lease |-> conn[c].lease]],
                 Idle)
    /\ UNCHANGED <<workerVars, clientVars>>

-----------------------------------------------------------------------------
(* The worker: TerminalInputWriter::run takes one command at a time.       *)

KeyboardIds(s) == {s[i].id : i \in {j \in DOMAIN s : s[j].source = "Viewer"}}
QueuedKeyboardIds ==
    {inbox[i].input.id : i \in {j \in DOMAIN inbox :
        inbox[j].op = "Write" /\ inbox[j].input.source = "Viewer"}}

Written(chunk) == [source |-> chunk.source, id |-> chunk.id,
                   lease |-> chunk.lease, under |-> gate]

Taking(op) == writer = "up" /\ inbox # <<>> /\ Head(inbox).op = op

Holds(chunk) == gate # NoLease /\ chunk.source = "Viewer"

\* Mutant of HandleWrite: held bytes are pushed to the front.
HandleWriteHoldsInFront ==
    /\ Taking("Write")
    /\ LET chunk == Head(inbox).input IN
       IF Holds(chunk)
       THEN held' = <<chunk>> \o held /\ pty' = pty
       ELSE held' = held /\ pty' = Append(pty, Written(chunk))
    /\ inbox' = Tail(inbox)
    /\ UNCHANGED <<gate, nextSequence, writer, lost, conn, clientVars>>

\* write_input: keyboard bytes are held while the gate is closed; all other
\* bytes go to the PTY.
HandleWrite ==
    /\ Taking("Write")
    /\ LET chunk == Head(inbox).input IN
       IF Holds(chunk)
       THEN held' = Append(held, chunk) /\ pty' = pty
       ELSE held' = held /\ pty' = Append(pty, Written(chunk))
    /\ inbox' = Tail(inbox)
    /\ UNCHANGED <<gate, nextSequence, writer, lost, conn, clientVars>>

\* Mutant of HandleWriteFails: the reply channels outlive the worker.
HandleWriteFailsSilently ==
    /\ Taking("Write")
    /\ ~Holds(Head(inbox).input)
    /\ writer' = "down"
    /\ lost' = lost \cup KeyboardIds(held) \cup QueuedKeyboardIds
    /\ inbox' = <<>>
    /\ held' = <<>>
    /\ UNCHANGED <<gate, nextSequence, pty, conn, clientVars>>

\* A failed PTY write ends the worker: the receiver goes away with all that
\* is queued, and every caller blocked on a reply gets InputClosed.
HandleWriteFails ==
    /\ Taking("Write")
    /\ ~Holds(Head(inbox).input)
    /\ writer' = "down"
    /\ lost' = lost \cup KeyboardIds(held) \cup QueuedKeyboardIds
    /\ inbox' = <<>>
    /\ held' = <<>>
    /\ conn' = [c \in Connections |->
                    IF conn[c].pc \in Waiting THEN Idle ELSE conn[c]]
    /\ UNCHANGED <<gate, nextSequence, pty, clientVars>>

\* Mutant of HandleClose: a closed gate is closed again, under a new lease.
HandleCloseUnchecked ==
    /\ Taking("CloseHumanInput")
    /\ gate' = nextSequence
    /\ nextSequence' = nextSequence + 1
    /\ conn' = [conn EXCEPT ![Head(inbox).from] =
                    At("granted", @.kind, nextSequence, @.prompt)]
    /\ inbox' = Tail(inbox)
    /\ UNCHANGED <<held, writer, pty, lost, clientVars>>

\* Mutant of HandleClose: the lease counter wraps around to zero.
HandleCloseWraps ==
    /\ Taking("CloseHumanInput")
    /\ LET c == Head(inbox).from IN
       IF gate = NoLease
       THEN /\ gate' = nextSequence
            /\ nextSequence' = (nextSequence + 1) % 3
            /\ conn' = [conn EXCEPT ![c] = At("granted", @.kind, nextSequence, @.prompt)]
       ELSE /\ UNCHANGED <<gate, nextSequence>>
            /\ conn' = [conn EXCEPT ![c] = Idle]
    /\ inbox' = Tail(inbox)
    /\ UNCHANGED <<held, writer, pty, lost, clientVars>>

\* close_human_input: a new lease, or InputGateAlreadyClosed, which ends the
\* request (GateBusy, or an error on the raw path).
HandleClose ==
    /\ Taking("CloseHumanInput")
    /\ LET c == Head(inbox).from IN
       IF gate = NoLease
       THEN /\ gate' = nextSequence
            /\ nextSequence' = nextSequence + 1
            /\ conn' = [conn EXCEPT ![c] = At("granted", @.kind, nextSequence, @.prompt)]
       ELSE /\ UNCHANGED <<gate, nextSequence>>
            /\ conn' = [conn EXCEPT ![c] = Idle]
    /\ inbox' = Tail(inbox)
    /\ UNCHANGED <<held, writer, pty, lost, clientVars>>

\* Mutants of HandleOpen: the held bytes are thrown away, or stay held.
HandleOpenDiscards ==
    /\ Taking("OpenHumanInput")
    /\ gate # NoLease
    /\ Head(inbox).lease = gate
    /\ held' = <<>>
    /\ gate' = NoLease
    /\ conn' = [conn EXCEPT ![Head(inbox).from] = At("opened", @.kind, @.lease, @.prompt)]
    /\ inbox' = Tail(inbox)
    /\ UNCHANGED <<pty, nextSequence, writer, lost, clientVars>>

HandleOpenWithoutFlush ==
    /\ Taking("OpenHumanInput")
    /\ gate # NoLease
    /\ Head(inbox).lease = gate
    /\ gate' = NoLease
    /\ conn' = [conn EXCEPT ![Head(inbox).from] = At("opened", @.kind, @.lease, @.prompt)]
    /\ inbox' = Tail(inbox)
    /\ UNCHANGED <<held, pty, nextSequence, writer, lost, clientVars>>

\* open_human_input with the lease of the closed gate: every held chunk is
\* written in order, then the gate opens.
HandleOpen ==
    /\ Taking("OpenHumanInput")
    /\ gate # NoLease
    /\ Head(inbox).lease = gate
    /\ pty' = pty \o [i \in 1 .. Len(held) |-> Written(held[i])]
    /\ held' = <<>>
    /\ gate' = NoLease
    /\ conn' = [conn EXCEPT ![Head(inbox).from] = At("opened", @.kind, @.lease, @.prompt)]
    /\ inbox' = Tail(inbox)
    /\ UNCHANGED <<nextSequence, writer, lost, clientVars>>

\* ... with any other lease: StaleInputGateLease.
HandleOpenStale ==
    /\ Taking("OpenHumanInput")
    /\ gate = NoLease \/ Head(inbox).lease # gate
    /\ conn' = [conn EXCEPT ![Head(inbox).from] = At("stale", @.kind, @.lease, @.prompt)]
    /\ inbox' = Tail(inbox)
    /\ UNCHANGED <<workerVars, clientVars>>

\* Mutant of HandleOpenFlushFails: the gate is opened before the flush.
HandleOpenFirst(k) ==
    /\ Taking("OpenHumanInput")
    /\ gate # NoLease
    /\ Head(inbox).lease = gate
    /\ pty' = pty \o [i \in 1 .. (k - 1) |-> Written(held[i])]
    /\ lost' = lost \cup {held[k].id}
    /\ held' = SubSeq(held, k + 1, Len(held))
    /\ gate' = NoLease
    /\ conn' = [conn EXCEPT ![Head(inbox).from] = Idle]
    /\ inbox' = Tail(inbox)
    /\ UNCHANGED <<nextSequence, writer, clientVars>>

\* ... and when the k-th held chunk cannot be written: it has left the queue
\* already and is gone, the gate stays closed, the error ends the request
\* and the worker goes on.
HandleOpenFlushFails(k) ==
    /\ Taking("OpenHumanInput")
    /\ gate # NoLease
    /\ Head(inbox).lease = gate
    /\ pty' = pty \o [i \in 1 .. (k - 1) |-> Written(held[i])]
    /\ lost' = lost \cup {held[k].id}
    /\ held' = SubSeq(held, k + 1, Len(held))
    /\ conn' = [conn EXCEPT ![Head(inbox).from] = Idle]
    /\ inbox' = Tail(inbox)
    /\ UNCHANGED <<gate, nextSequence, writer, clientVars>>

-----------------------------------------------------------------------------
Request(c) ==
    \/ \E source \in Sources : WriteInput(c, source)
    \/ CloseHumanInput(c)
    \/ \E lease \in Nameable(c) : OpenHumanInput(c, lease)
    \/ \E prompt \in PromptStates : SignalPromptState(c, prompt)
    \/ \E lease \in Nameable(c) : ReleaseSignalInputGate(c, lease)
    \/ \E lease \in Nameable(c) : WriteSignalInjection(c, lease)

Serve(c) ==
    \/ AcquireSignalInputGate(c)
    \/ RecordLease(c)
    \/ SendSignalRelease(c)
    \/ ForgetLease(c)
    \/ AcceptInjection(c)

InputWriter ==
    \/ HandleWrite
    \/ HandleWriteFails
    \/ HandleClose
    \/ HandleOpen
    \/ HandleOpenStale
    \/ \E k \in DOMAIN held : HandleOpenFlushFails(k)

Next ==
    \/ PumpViewerInput
    \/ \E c \in Connections : Request(c) \/ Serve(c)
    \/ InputWriter

\* The worker and the connection threads keep running; nobody has to type or
\* to send a request.
Fairness ==
    /\ WF_vars(InputWriter)
    /\ \A c \in Connections : WF_vars(Serve(c))

Spec == Init /\ [][Next]_vars /\ Fairness

-----------------------------------------------------------------------------
(* Properties.                                                             *)

TypeOK ==
    /\ inbox \in Seq(TerminalInputCommand)
    /\ gate \in Nat
    /\ nextSequence \in Nat \ {0}
    /\ held \in Seq(Chunk)
    /\ writer \in {"up", "down"}
    /\ pty \in Seq(WrittenChunk)
    /\ signalLeases \in SUBSET LeaseEntry
    /\ conn \in [Connections -> Conn]
    /\ holds \in [Connections -> Nat]
    /\ typed \in Nat
    /\ requests \in Nat
    /\ lost \in SUBSET Nat

\* Keyboard chunks of a sequence are in the order in which they were typed.
InOrder(s) ==
    \A i, j \in DOMAIN s :
        i < j /\ s[i].source = "Viewer" /\ s[j].source = "Viewer"
            => s[i].id < s[j].id

\* Keyboard bytes reach the child in the order the port accepted them and none
\* twice, whatever the gate did in between: all that was written is older than
\* all that is held, and that older than all that is still in the channel.
KeyboardOrder ==
    /\ InOrder(pty)
    /\ InOrder(held)
    /\ \A i \in KeyboardIds(pty), j \in KeyboardIds(held) : i < j
    /\ \A i \in KeyboardIds(pty) \cup KeyboardIds(held), j \in QueuedKeyboardIds : i < j

\* No keyboard chunk disappears except through a failed PTY write: each one is
\* on the PTY, held by the gate, or in the channel.
KeyboardConserved ==
    KeyboardIds(pty) \cup KeyboardIds(held) \cup QueuedKeyboardIds \cup lost
        = 1 .. typed

\* The gate never keeps keyboard bytes back once it is open.
HeldOnlyWhileClosed == held # <<>> => gate # NoLease

\* The client holds a lease whose release the worker has not performed.
HoldsLease(c) == holds[c] # NoLease /\ conn[c].pc \notin {"opened", "stale"}

\* When no client uses a lease of another one, at most one client holds a
\* lease, and it is the lease the gate is closed under: of two concurrent
\* acquires the second is refused until the first lease is given back, and
\* nothing but its holder opens the gate.
LeaseExclusion ==
    ~SharedLeases =>
        \A c, d \in Connections :
            /\ HoldsLease(c) => gate = holds[c]
            /\ HoldsLease(c) /\ HoldsLease(d) => c = d

\* When no client uses a lease of another one, bytes injected under a lease
\* reach the PTY while the gate is closed under that very lease.
InjectionUnderLease ==
    ~SharedLeases =>
        \A i \in DOMAIN pty : pty[i].lease # NoLease => pty[i].under = pty[i].lease

\* When no client uses a lease of another one, the lease table lists a lease
\* only as long as the gate is closed under it or its release is being
\* answered: no released lease can still admit an injection.
NoOrphanLease ==
    ~SharedLeases =>
        \A e \in signalLeases :
            \/ gate = e.lease
            \/ \E c \in Connections : conn[c].pc = "opened" /\ conn[c].lease = e.lease

\* Bytes injected under one lease are not interleaved with keyboard bytes.
InjectionNotInterleaved ==
    \A i, j \in DOMAIN pty :
        pty[i].lease # NoLease /\ pty[j].lease = pty[i].lease =>
            \A k \in i .. j : pty[k].source # "Viewer"

\* Every control request ends, also when the worker dies while the request is
\* queued or waits for its reply.
RequestsEnd == \A c \in Connections : conn[c].pc # "idle" ~> conn[c].pc = "idle"
=============================================================================
