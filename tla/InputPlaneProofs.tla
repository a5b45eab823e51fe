-------------------------- MODULE InputPlaneProofs --------------------------
(***************************************************************************)
(* Proofs about the input plane, for any set of control clients, any       *)
(* number of requests and keystrokes, and every failure the model has.     *)
(***************************************************************************)
EXTENDS InputPlane, TLAPS

-----------------------------------------------------------------------------
(* The invariant behind LeaseExclusion, InjectionUnderLease and            *)
(* NoOrphanLease, for clients that name only their own leases.             *)

\* Client c owns the gate: its grant is on its way, or c believes it holds a
\* lease for which the worker has not opened the gate.
Granted(c) == conn[c].pc = "granted"
Holding(c) == holds[c] # NoLease /\ conn[c].pc # "opened"
Owning(c) == Granted(c) \/ Holding(c)

\* The owner's lease is the lease of the closed gate, and there is one owner.
OwnerHoldsGate ==
    /\ \A c \in Connections :
        /\ Granted(c) => gate = conn[c].lease /\ gate # NoLease
        /\ Holding(c) => gate = holds[c]
    /\ \A c, d \in Connections : Owning(c) /\ Owning(d) => c = d

\* A request that names a lease names the one its client holds, and none is
\* ever stale.
RequestsOwnLease ==
    \A c \in Connections :
        /\ conn[c].pc # "stale"
        /\ conn[c].pc \in {"checked", "opening", "opened", "admitted"} =>
               conn[c].lease = holds[c] /\ holds[c] # NoLease

\* A command with a reply channel belongs to the request its client waits in,
\* and a client waits for one command at a time.
CommandsMatchRequests ==
    /\ \A i \in DOMAIN inbox :
        /\ inbox[i].op = "CloseHumanInput" => conn[inbox[i].from].pc = "closing"
        /\ inbox[i].op = "OpenHumanInput" =>
               /\ conn[inbox[i].from].pc = "opening"
               /\ conn[inbox[i].from].lease = inbox[i].lease
    /\ \A i, j \in DOMAIN inbox :
        inbox[i].op # "Write" /\ inbox[j].op # "Write" /\ inbox[i].from = inbox[j].from
            => i = j

\* An injection in the channel finds the gate closed under its lease, with no
\* release ahead of it.
Injects(command) == command.op = "Write" /\ command.input.lease # NoLease
InjectionsAhead ==
    \A i \in DOMAIN inbox :
        Injects(inbox[i]) =>
            /\ gate = inbox[i].input.lease
            /\ \A j \in DOMAIN inbox : inbox[j].op = "OpenHumanInput" => i < j

\* What the gate may hold back was never injected under a lease.
KeyboardUnleased ==
    /\ \A i \in DOMAIN held : held[i].lease = NoLease
    /\ \A i \in DOMAIN inbox :
        inbox[i].op = "Write" /\ inbox[i].input.source = "Viewer"
            => inbox[i].input.lease = NoLease

\* The lease table lists real leases.
TableLeases == \A e \in signalLeases : e.lease # NoLease

LeaseInv ==
    /\ OwnerHoldsGate
    /\ RequestsOwnLease
    /\ CommandsMatchRequests
    /\ InjectionsAhead
    /\ KeyboardUnleased
    /\ TableLeases
    /\ InjectionUnderLease
    /\ NoOrphanLease

-----------------------------------------------------------------------------
(* Type correctness.                                                       *)

\* A request at any stage has the right shape.
LEMMA RequestType ==
    ASSUME NEW pc \in Stages, NEW kind \in Kinds, NEW lease \in Nat,
           NEW prompt \in PromptStates
    PROVE  At(pc, kind, lease, prompt) \in Conn
BY DEF At, Conn

\* So has a connection without a request.
LEMMA IdleType == Idle \in Conn
<1>1. "idle" \in Stages /\ "raw" \in Kinds /\ NoLease \in Nat /\ "NotChecked" \in PromptStates
  BY DEF Stages, Kinds, NoLease, PromptStates
<1> QED BY <1>1, RequestType DEF Idle

\* Sending on the channel keeps the types of the channel and of the requests.
LEMMA SubmitTypes ==
    ASSUME inbox \in Seq(TerminalInputCommand), conn \in [Connections -> Conn],
           NEW c \in Connections, NEW command \in TerminalInputCommand,
           NEW request \in Conn, Submit(c, command, request)
    PROVE  inbox' \in Seq(TerminalInputCommand) /\ conn' \in [Connections -> Conn]
<1>1. CASE writer = "up"
  <2>1. inbox' = Append(inbox, command) /\ conn' = [conn EXCEPT ![c] = request]
    BY <1>1 DEF Submit
  <2> QED BY <2>1
<1>2. CASE writer # "up"
  BY <1>2, IdleType DEF Submit
<1> QED BY <1>1, <1>2

\* A write keeps the type of a chunk.
LEMMA WrittenType ==
    ASSUME gate \in Nat, NEW chunk \in Chunk
    PROVE  Written(chunk) \in WrittenChunk
BY DEF Written, Chunk, WrittenChunk

\* The types of what the worker owns, and of what the clients own.
WorkerTypes ==
    /\ gate \in Nat
    /\ nextSequence \in Nat \ {0}
    /\ held \in Seq(Chunk)
    /\ writer \in {"up", "down"}
    /\ pty \in Seq(WrittenChunk)
    /\ lost \in SUBSET Nat

ClientTypes ==
    /\ signalLeases \in SUBSET LeaseEntry
    /\ holds \in [Connections -> Nat]
    /\ typed \in Nat
    /\ requests \in Nat

ChannelTypes == inbox \in Seq(TerminalInputCommand)
ConnTypes == conn \in [Connections -> Conn]

\* TypeOK by owner.
LEMMA TypeParts ==
    /\ TypeOK <=> WorkerTypes /\ ClientTypes /\ ChannelTypes /\ ConnTypes
    /\ TypeOK' <=> WorkerTypes' /\ ClientTypes' /\ ChannelTypes' /\ ConnTypes'
BY Zenon DEF TypeOK, WorkerTypes, ClientTypes, ChannelTypes, ConnTypes

\* What an action leaves alone keeps its types.
LEMMA WorkerUnchanged == WorkerTypes /\ UNCHANGED workerVars => WorkerTypes'
BY DEF WorkerTypes, workerVars

\* The same for what the clients hold.
LEMMA ClientUnchanged == ClientTypes /\ UNCHANGED clientVars => ClientTypes'
BY DEF ClientTypes, clientVars

\* The request in flight of a connection, part by part.
LEMMA ConnParts ==
    ASSUME ConnTypes, NEW c \in Connections
    PROVE  /\ conn[c].pc \in Stages
           /\ conn[c].kind \in Kinds
           /\ conn[c].lease \in Nat
           /\ conn[c].prompt \in PromptStates
<1>1. conn[c] \in Conn
  BY DEF ConnTypes
<1> QED BY <1>1 DEF Conn

\* A new state of one request keeps the types of all of them.
LEMMA ConnUpdate ==
    ASSUME ConnTypes, NEW c, NEW request \in Conn, conn' = [conn EXCEPT ![c] = request]
    PROVE  ConnTypes'
BY DEF ConnTypes

\* The initial state is well typed.
LEMMA InitTypeOK == Init => TypeOK
BY IdleType DEF Init, TypeOK, NoLease

\* Every step of a client or of the thread that serves it keeps the types.
LEMMA ClientTypeOK ==
    ASSUME TypeOK,
           \/ PumpViewerInput
           \/ \E c \in Connections : Request(c) \/ Serve(c)
    PROVE  TypeOK'
<1>a. WorkerTypes /\ ClientTypes /\ ChannelTypes /\ ConnTypes
  BY TypeParts
<1>b. /\ NoLease \in Nat /\ "raw" \in Kinds /\ "signal" \in Kinds
      /\ "NotChecked" \in PromptStates
      /\ "prompted" \in Stages /\ "closing" \in Stages /\ "checked" \in Stages
      /\ "opening" \in Stages /\ "admitted" \in Stages
  BY DEF NoLease, Kinds, PromptStates, Stages
<1>k. [op |-> "Write", input |-> KeyboardChunk] \in TerminalInputCommand
  <2>1. typed + 1 \in Nat
    BY <1>a DEF ClientTypes
  <2>2. KeyboardChunk \in Chunk
    BY <1>b, <2>1 DEF KeyboardChunk, Chunk, Sources
  <2> QED BY <2>2 DEF TerminalInputCommand, WriteCommand
<1>1. CASE PumpViewerInput
  <2>1. ChannelTypes'
    BY <1>1, <1>a, <1>k DEF PumpViewerInput, ChannelTypes
  <2>2. ClientTypes'
    BY <1>1, <1>a DEF PumpViewerInput, ClientTypes
  <2>3. WorkerTypes' /\ ConnTypes'
    BY <1>1, <1>a, WorkerUnchanged DEF PumpViewerInput, ConnTypes
  <2> QED BY <2>1, <2>2, <2>3, TypeParts
<1>2. ASSUME NEW c \in Connections, NEW source \in Sources, WriteInput(c, source)
      PROVE  TypeOK'
  <2>1. [source |-> source, id |-> 0, lease |-> NoLease] \in Chunk
    BY <1>b DEF Chunk
  <2>2. [op |-> "Write",
         input |-> [source |-> source, id |-> 0, lease |-> NoLease]]
            \in TerminalInputCommand
    BY <2>1 DEF TerminalInputCommand, WriteCommand
  <2>3. ChannelTypes'
    <3>1. \/ inbox' = Append(inbox, [op |-> "Write", input |-> KeyboardChunk])
          \/ inbox' = Append(inbox, [op |-> "Write", input |-> [source |-> source, id |-> 0, lease |-> NoLease]])
      BY <1>2 DEF WriteInput
    <3> QED BY <1>a, <1>k, <2>2, <3>1 DEF ChannelTypes
  <2>4. ClientTypes'
    BY <1>2, <1>a DEF WriteInput, NewRequest, ClientTypes
  <2>5. WorkerTypes' /\ ConnTypes'
    BY <1>2, <1>a, WorkerUnchanged DEF WriteInput, ConnTypes
  <2> QED BY <2>3, <2>4, <2>5, TypeParts
<1>3. ASSUME NEW c \in Connections, CloseHumanInput(c)
      PROVE  TypeOK'
  <2>1. [op |-> "CloseHumanInput", from |-> c] \in TerminalInputCommand
    BY DEF TerminalInputCommand, CloseCommand
  <2>2. At("closing", "raw", NoLease, "NotChecked") \in Conn
    BY <1>b, RequestType
  <2>3. ChannelTypes' /\ ConnTypes'
    BY <1>3, <1>a, <2>1, <2>2, SubmitTypes DEF CloseHumanInput, ChannelTypes, ConnTypes
  <2>4. ClientTypes'
    BY <1>3, <1>a DEF CloseHumanInput, NewRequest, ClientTypes
  <2> QED BY <1>3, <1>a, <2>3, <2>4, WorkerUnchanged, TypeParts DEF CloseHumanInput
<1>4. ASSUME NEW c \in Connections, NEW lease \in Nat, OpenHumanInput(c, lease)
      PROVE  TypeOK'
  <2>1. [op |-> "OpenHumanInput", from |-> c, lease |-> lease] \in TerminalInputCommand
    BY DEF TerminalInputCommand, OpenCommand
  <2>2. At("opening", "raw", lease, "NotChecked") \in Conn
    BY <1>b, RequestType
  <2>3. ChannelTypes' /\ ConnTypes'
    BY <1>4, <1>a, <2>1, <2>2, SubmitTypes DEF OpenHumanInput, ChannelTypes, ConnTypes
  <2>4. ClientTypes'
    BY <1>4, <1>a DEF OpenHumanInput, NewRequest, ClientTypes
  <2> QED BY <1>4, <1>a, <2>3, <2>4, WorkerUnchanged, TypeParts DEF OpenHumanInput
<1>5. ASSUME NEW c \in Connections, NEW prompt \in PromptStates,
             SignalPromptState(c, prompt)
      PROVE  TypeOK'
  <2>1. At("prompted", "signal", NoLease, prompt) \in Conn
    BY <1>b, RequestType
  <2>2. ConnTypes'
    BY <1>5, <1>a, <2>1, ConnUpdate DEF SignalPromptState
  <2>3. ChannelTypes' /\ ClientTypes'
    BY <1>5, <1>a DEF SignalPromptState, NewRequest, ClientTypes, ChannelTypes
  <2> QED BY <1>5, <1>a, <2>2, <2>3, WorkerUnchanged, TypeParts DEF SignalPromptState
<1>6. ASSUME NEW c \in Connections, NEW lease \in Nat, ReleaseSignalInputGate(c, lease)
      PROVE  TypeOK'
  <2>1. At("checked", "signal", lease, "NotChecked") \in Conn
    BY <1>b, RequestType
  <2>2. ConnTypes'
    BY <1>6, <1>a, <2>1 DEF ReleaseSignalInputGate, ConnTypes
  <2>3. ChannelTypes' /\ ClientTypes'
    BY <1>6, <1>a DEF ReleaseSignalInputGate, NewRequest, ClientTypes, ChannelTypes
  <2> QED BY <1>6, <1>a, <2>2, <2>3, WorkerUnchanged, TypeParts DEF ReleaseSignalInputGate
<1>7. ASSUME NEW c \in Connections, NEW lease \in Nat, WriteSignalInjection(c, lease)
      PROVE  TypeOK'
  <2>1. At("admitted", "signal", lease, "NotChecked") \in Conn
    BY <1>b, RequestType
  <2>2. ConnTypes'
    BY <1>7, <1>a, <2>1 DEF WriteSignalInjection, ConnTypes
  <2>3. ChannelTypes' /\ ClientTypes'
    BY <1>7, <1>a DEF WriteSignalInjection, NewRequest, ClientTypes, ChannelTypes
  <2> QED BY <1>7, <1>a, <2>2, <2>3, WorkerUnchanged, TypeParts DEF WriteSignalInjection
<1>8. ASSUME NEW c \in Connections, AcquireSignalInputGate(c)
      PROVE  TypeOK'
  <2>1. [op |-> "CloseHumanInput", from |-> c] \in TerminalInputCommand
    BY DEF TerminalInputCommand, CloseCommand
  <2>2. At("closing", "signal", NoLease, conn[c].prompt) \in Conn
    BY <1>a, <1>b, ConnParts, RequestType
  <2>3. ChannelTypes' /\ ConnTypes'
    BY <1>8, <1>a, <2>1, <2>2, SubmitTypes
       DEF AcquireSignalInputGate, ChannelTypes, ConnTypes
  <2> QED BY <1>8, <1>a, <2>3, WorkerUnchanged, ClientUnchanged, TypeParts
             DEF AcquireSignalInputGate
<1>9. ASSUME NEW c \in Connections, RecordLease(c)
      PROVE  TypeOK'
  <2>1. conn[c].lease \in Nat /\ conn[c].prompt \in PromptStates
    BY <1>a, ConnParts
  <2>2. [lease |-> conn[c].lease, prompt |-> conn[c].prompt] \in LeaseEntry
    BY <2>1 DEF LeaseEntry
  <2>3. signalLeases' \in SUBSET LeaseEntry
    BY <1>9, <1>a, <2>2 DEF RecordLease, ClientTypes, Entries
  <2>4. holds' \in [Connections -> Nat]
    BY <1>9, <1>a, <2>1 DEF RecordLease, ClientTypes
  <2>5. ClientTypes'
    BY <1>9, <1>a, <2>3, <2>4 DEF RecordLease, ClientTypes
  <2>6. ChannelTypes' /\ ConnTypes'
    BY <1>9, <1>a, IdleType, ConnUpdate DEF RecordLease, ChannelTypes
  <2> QED BY <1>9, <1>a, <2>5, <2>6, WorkerUnchanged, TypeParts DEF RecordLease
<1>10. ASSUME NEW c \in Connections, SendSignalRelease(c)
       PROVE  TypeOK'
  <2>1. conn[c].lease \in Nat
    BY <1>a, ConnParts
  <2>2. [op |-> "OpenHumanInput", from |-> c, lease |-> conn[c].lease]
            \in TerminalInputCommand
    BY <2>1 DEF TerminalInputCommand, OpenCommand
  <2>3. At("opening", "signal", conn[c].lease, "NotChecked") \in Conn
    BY <2>1, <1>b, RequestType
  <2>4. ChannelTypes' /\ ConnTypes'
    BY <1>10, <1>a, <2>2, <2>3, SubmitTypes DEF SendSignalRelease, ChannelTypes, ConnTypes
  <2> QED BY <1>10, <1>a, <2>4, WorkerUnchanged, ClientUnchanged, TypeParts
             DEF SendSignalRelease
<1>11. ASSUME NEW c \in Connections, ForgetLease(c)
       PROVE  TypeOK'
  <2>1. signalLeases' \in SUBSET LeaseEntry
    BY <1>11, <1>a DEF ForgetLease, ClientTypes, Entries
  <2>2. holds' \in [Connections -> Nat]
    BY <1>11, <1>a, <1>b DEF ForgetLease, ClientTypes
  <2>3. ClientTypes'
    BY <1>11, <1>a, <2>1, <2>2 DEF ForgetLease, ClientTypes
  <2>4. ChannelTypes' /\ ConnTypes'
    BY <1>11, <1>a, IdleType, ConnUpdate DEF ForgetLease, ChannelTypes
  <2> QED BY <1>11, <1>a, <2>3, <2>4, WorkerUnchanged, TypeParts DEF ForgetLease
<1>12. ASSUME NEW c \in Connections, AcceptInjection(c)
       PROVE  TypeOK'
  <2>1. [source |-> "Programmatic", id |-> 0, lease |-> conn[c].lease] \in Chunk
    BY <1>a, ConnParts DEF Chunk, Sources
  <2>2. [op |-> "Write", input |-> [source |-> "Programmatic", id |-> 0,
                                    lease |-> conn[c].lease]] \in TerminalInputCommand
    BY <2>1 DEF TerminalInputCommand, WriteCommand
  <2>3. ChannelTypes' /\ ConnTypes'
    BY <1>12, <1>a, <2>2, IdleType, SubmitTypes DEF AcceptInjection, ChannelTypes, ConnTypes
  <2> QED BY <1>12, <1>a, <2>3, WorkerUnchanged, ClientUnchanged, TypeParts
             DEF AcceptInjection
<1>13. ASSUME NEW c \in Connections PROVE Nameable(c) \subseteq Nat
  BY <1>a, InputPlaneAssumption DEF InputPlaneAssumption, Nameable, ClientTypes
<1> QED
  BY <1>1, <1>2, <1>3, <1>4, <1>5, <1>6, <1>7, <1>8, <1>9, <1>10, <1>11, <1>12, <1>13
     DEF Request, Serve

\* The command at the head of the channel and the rest of it.
LEMMA HeadCommand ==
    ASSUME TypeOK, NEW op, Taking(op)
    PROVE  /\ Head(inbox) \in TerminalInputCommand
           /\ Head(inbox).op = op
           /\ Head(inbox) = inbox[1]
           /\ 1 \in DOMAIN inbox
           /\ Tail(inbox) \in Seq(TerminalInputCommand)
           /\ op = "Write" => Head(inbox).input \in Chunk
           /\ op # "Write" => Head(inbox).from \in Connections
           /\ op = "OpenHumanInput" => Head(inbox).lease \in Nat
<1>1. /\ Head(inbox) \in TerminalInputCommand
      /\ Head(inbox).op = op
      /\ Head(inbox) = inbox[1]
      /\ 1 \in DOMAIN inbox
      /\ Tail(inbox) \in Seq(TerminalInputCommand)
  BY DEF TypeOK, Taking
<1> QED BY <1>1 DEF TerminalInputCommand, WriteCommand, CloseCommand, OpenCommand

\* Every step of the worker keeps the types.
LEMMA WorkerTypeOK ==
    ASSUME TypeOK, InputWriter
    PROVE  TypeOK'
<1>a. WorkerTypes /\ ClientTypes /\ ChannelTypes /\ ConnTypes
  BY TypeParts
<1>b. "granted" \in Stages /\ "opened" \in Stages /\ "stale" \in Stages
  BY DEF Stages
<1>c. gate \in Nat /\ held \in Seq(Chunk) /\ pty \in Seq(WrittenChunk) /\ lost \in SUBSET Nat
  BY <1>a DEF WorkerTypes
<1>d. Len(held) \in Nat /\ DOMAIN held = 1 .. Len(held) /\ \A i \in 1 .. Len(held) : held[i] \in Chunk
  BY <1>c
<1>e. \A i \in 1 .. Len(held) : Written(held[i]) \in WrittenChunk
  BY <1>c, <1>d, WrittenType
<1>1. CASE HandleWrite
  <2>1. Head(inbox).input \in Chunk /\ Tail(inbox) \in Seq(TerminalInputCommand)
    BY <1>1, HeadCommand DEF HandleWrite
  <2>2. Written(Head(inbox).input) \in WrittenChunk
    BY <1>c, <2>1, WrittenType
  <2>3. held' \in Seq(Chunk)
    <3>1. held' = Append(held, Head(inbox).input) \/ held' = held
      BY <1>1 DEF HandleWrite
    <3>2. PICK chunk \in Chunk : chunk = Head(inbox).input
      BY <2>1
    <3>3. Append(held, chunk) \in Seq(Chunk)
      BY <1>c
    <3> QED BY <1>c, <3>1, <3>2, <3>3
  <2>4. pty' \in Seq(WrittenChunk)
    BY <1>1, <1>c, <2>2 DEF HandleWrite
  <2>5. WorkerTypes'
    BY <1>1, <1>a, <2>3, <2>4 DEF WorkerTypes, HandleWrite
  <2>6. ChannelTypes' /\ ConnTypes'
    BY <1>1, <1>a, <2>1 DEF ChannelTypes, ConnTypes, HandleWrite
  <2> QED BY <1>1, <1>a, <2>5, <2>6, ClientUnchanged, TypeParts DEF HandleWrite
<1>2. CASE HandleWriteFails
  <2>1. KeyboardIds(held) \subseteq Nat
    <3> SUFFICES ASSUME NEW i \in DOMAIN held PROVE held[i].id \in Nat
      BY DEF KeyboardIds
    <3> QED BY <1>d DEF Chunk
  <2>2. QueuedKeyboardIds \subseteq Nat
    <3> SUFFICES ASSUME NEW i \in DOMAIN inbox, inbox[i].op = "Write"
                 PROVE  inbox[i].input.id \in Nat
      BY DEF QueuedKeyboardIds
    <3>1. inbox[i] \in TerminalInputCommand
      BY <1>a DEF ChannelTypes
    <3> QED BY <3>1 DEF TerminalInputCommand, WriteCommand, CloseCommand, OpenCommand,
                      Chunk
  <2>3. ConnTypes'
    BY <1>2, <1>a, IdleType DEF ConnTypes, HandleWriteFails
  <2>4. lost' \in SUBSET Nat
    BY <1>2, <1>c, <2>1, <2>2 DEF HandleWriteFails
  <2>5. WorkerTypes'
    BY <1>2, <1>a, <2>4 DEF HandleWriteFails, WorkerTypes
  <2>6. ChannelTypes'
    BY <1>2 DEF HandleWriteFails, ChannelTypes
  <2> QED BY <1>2, <1>a, <2>3, <2>5, <2>6, ClientUnchanged, TypeParts DEF HandleWriteFails
<1>3. CASE HandleClose
  <2> DEFINE c == Head(inbox).from
             granted == At("granted", conn[c].kind, nextSequence, conn[c].prompt)
  <2>1. c \in Connections /\ Tail(inbox) \in Seq(TerminalInputCommand)
    BY <1>3, HeadCommand DEF HandleClose
  <2>2. nextSequence \in Nat
    BY <1>a DEF WorkerTypes
  <2>3. granted \in Conn
    <3> HIDE DEF c
    <3> QED BY <1>a, <1>b, <2>1, <2>2, ConnParts, RequestType
  <2>4. conn' = [conn EXCEPT ![c] = granted] \/ conn' = [conn EXCEPT ![c] = Idle]
    BY <1>3, <2>1, <1>a DEF HandleClose, ConnTypes
  <2>5. ConnTypes'
    <3> HIDE DEF c, granted
    <3> QED BY <1>a, <2>3, <2>4, IdleType, ConnUpdate
  <2>6. gate' \in Nat /\ nextSequence' \in Nat \ {0}
    BY <1>3, <1>a DEF WorkerTypes, HandleClose
  <2>7. WorkerTypes'
    BY <1>3, <1>a, <2>6 DEF WorkerTypes, HandleClose
  <2>8. ChannelTypes'
    BY <1>3, <2>1 DEF ChannelTypes, HandleClose
  <2> QED BY <1>3, <1>a, <2>5, <2>7, <2>8, ClientUnchanged, TypeParts DEF HandleClose
<1>4. CASE HandleOpen
  <2> DEFINE c == Head(inbox).from
             opened == At("opened", conn[c].kind, conn[c].lease, conn[c].prompt)
  <2>1. c \in Connections /\ Tail(inbox) \in Seq(TerminalInputCommand)
    BY <1>4, HeadCommand DEF HandleOpen
  <2>2. [i \in 1 .. Len(held) |-> Written(held[i])] \in Seq(WrittenChunk)
    BY <1>d, <1>e
  <2>3. pty' \in Seq(WrittenChunk)
    BY <1>4, <1>c, <2>2 DEF HandleOpen
  <2>4. opened \in Conn
    <3> HIDE DEF c
    <3> QED BY <1>a, <1>b, <2>1, ConnParts, RequestType
  <2>5. conn' = [conn EXCEPT ![c] = opened]
    BY <1>4, <2>1, <1>a DEF HandleOpen, ConnTypes
  <2>6. ConnTypes'
    <3> HIDE DEF c, opened
    <3> QED BY <1>a, <2>4, <2>5, ConnUpdate
  <2>7. WorkerTypes'
    BY <1>4, <1>a, <2>3 DEF WorkerTypes, HandleOpen, NoLease
  <2>8. ChannelTypes'
    BY <1>4, <2>1 DEF ChannelTypes, HandleOpen
  <2> QED BY <1>4, <1>a, <2>6, <2>7, <2>8, ClientUnchanged, TypeParts DEF HandleOpen
<1>5. CASE HandleOpenStale
  <2> DEFINE c == Head(inbox).from
             stale == At("stale", conn[c].kind, conn[c].lease, conn[c].prompt)
  <2>1. c \in Connections /\ Tail(inbox) \in Seq(TerminalInputCommand)
    BY <1>5, HeadCommand DEF HandleOpenStale
  <2>2. stale \in Conn
    <3> HIDE DEF c
    <3> QED BY <1>a, <1>b, <2>1, ConnParts, RequestType
  <2>3. conn' = [conn EXCEPT ![c] = stale]
    BY <1>5, <2>1, <1>a DEF HandleOpenStale, ConnTypes
  <2>4. ConnTypes'
    <3> HIDE DEF c, stale
    <3> QED BY <1>a, <2>2, <2>3, ConnUpdate
  <2>5. ChannelTypes'
    BY <1>5, <2>1 DEF ChannelTypes, HandleOpenStale
  <2> QED BY <1>5, <1>a, <2>4, <2>5, WorkerUnchanged, ClientUnchanged, TypeParts
             DEF HandleOpenStale
<1>6. ASSUME NEW k \in DOMAIN held, HandleOpenFlushFails(k)
      PROVE  TypeOK'
  <2>1. Head(inbox).from \in Connections /\ Tail(inbox) \in Seq(TerminalInputCommand)
    BY <1>6, HeadCommand DEF HandleOpenFlushFails
  <2>2. k \in 1 .. Len(held)
    BY <1>d
  <2>3. held[k].id \in Nat
    BY <1>d, <2>2 DEF Chunk
  <2>4. [i \in 1 .. (k - 1) |-> Written(held[i])] \in Seq(WrittenChunk)
    <3>1. k - 1 \in Nat /\ \A i \in 1 .. (k - 1) : i \in 1 .. Len(held)
      BY <1>d, <2>2
    <3> QED BY <1>e, <3>1
  <2>5. pty' \in Seq(WrittenChunk)
    BY <1>6, <1>c, <2>4 DEF HandleOpenFlushFails
  <2>6. held' \in Seq(Chunk)
    BY <1>6, <1>c, <2>2 DEF HandleOpenFlushFails
  <2>7. lost' \in SUBSET Nat
    BY <1>6, <1>c, <2>3 DEF HandleOpenFlushFails
  <2>8. WorkerTypes'
    BY <1>6, <1>a, <2>5, <2>6, <2>7 DEF WorkerTypes, HandleOpenFlushFails
  <2>9. ConnTypes'
    BY <1>6, <1>a, IdleType, ConnUpdate DEF HandleOpenFlushFails
  <2>10. ChannelTypes'
    BY <1>6, <2>1 DEF ChannelTypes, HandleOpenFlushFails
  <2> QED BY <1>6, <1>a, <2>8, <2>9, <2>10, ClientUnchanged, TypeParts
             DEF HandleOpenFlushFails
<1> QED BY <1>1, <1>2, <1>3, <1>4, <1>5, <1>6 DEF InputWriter

\* The state of the input plane is always well typed.
THEOREM InputPlaneTypeOK == Spec => []TypeOK
<1>1. TypeOK /\ [Next]_vars => TypeOK'
  <2> SUFFICES ASSUME TypeOK, [Next]_vars PROVE TypeOK'
    OBVIOUS
  <2>1. CASE UNCHANGED vars
    BY <2>1 DEF TypeOK, vars
  <2> QED BY <2>1, ClientTypeOK, WorkerTypeOK DEF Next
<1> QED BY <1>1, InitTypeOK, PTL DEF Spec

-----------------------------------------------------------------------------
(* The lease invariant.                                                    *)

\* A step after which every grant and every release is answered as before
\* leaves the owner and the lease table as they were.
LEMMA QuietStep ==
    ASSUME ~SharedLeases, OwnerHoldsGate, NoOrphanLease, TableLeases,
           gate' = gate, holds' = holds, signalLeases' = signalLeases,
           \A d \in Connections :
               \/ conn'[d] = conn[d]
               \/ /\ conn[d].pc \notin {"granted", "opened"}
                  /\ conn'[d].pc \notin {"granted", "opened"}
    PROVE  OwnerHoldsGate' /\ NoOrphanLease' /\ TableLeases'
<1>1. \A d \in Connections :
        /\ Granted(d)' <=> Granted(d)
        /\ Holding(d)' <=> Holding(d)
        /\ Owning(d)' <=> Owning(d)
        /\ Granted(d) => conn'[d] = conn[d]
  BY DEF Granted, Holding, Owning
<1>2. OwnerHoldsGate'
  BY <1>1 DEF OwnerHoldsGate
<1>3. NoOrphanLease'
  BY DEF NoOrphanLease
<1> QED BY <1>2, <1>3 DEF TableLeases

\* The waiting requests stay with their commands.
LEMMA KeptChannel ==
    ASSUME ChannelTypes, CommandsMatchRequests, InjectionsAhead, KeyboardUnleased,
           inbox' = inbox, gate' = gate, held' = held,
           \A d \in Connections : conn'[d] = conn[d] \/ conn[d].pc \notin Waiting
    PROVE  CommandsMatchRequests' /\ InjectionsAhead' /\ KeyboardUnleased'
<1>1. \A i \in DOMAIN inbox :
        inbox[i].op # "Write" => inbox[i].from \in Connections /\ inbox[i].op \in {"CloseHumanInput", "OpenHumanInput"}
  BY DEF ChannelTypes, TerminalInputCommand, WriteCommand, CloseCommand, OpenCommand
<1>2. CommandsMatchRequests'
  BY <1>1 DEF CommandsMatchRequests, Waiting
<1> QED BY <1>2 DEF InjectionsAhead, KeyboardUnleased

\* A command that enters the channel belongs to a request that waited for
\* nothing; an injection enters while its lease closes the gate and no release
\* is queued.
LEMMA AppendedChannel ==
    ASSUME ChannelTypes, CommandsMatchRequests, InjectionsAhead, KeyboardUnleased,
           gate' = gate, held' = held,
           NEW command \in TerminalInputCommand, inbox' = Append(inbox, command),
           \A d \in Connections : conn'[d] = conn[d] \/ conn[d].pc \notin Waiting,
           command.op # "Write" => conn[command.from].pc \notin Waiting,
           command.op = "CloseHumanInput" => conn'[command.from].pc = "closing",
           command.op = "OpenHumanInput" =>
               conn'[command.from].pc = "opening" /\ conn'[command.from].lease = command.lease,
           Injects(command) =>
               /\ gate = command.input.lease
               /\ command.input.source # "Viewer"
               /\ \A j \in DOMAIN inbox : inbox[j].op # "OpenHumanInput"
    PROVE  CommandsMatchRequests' /\ InjectionsAhead' /\ KeyboardUnleased'
<1> DEFINE n == Len(inbox)
<1>1. /\ n \in Nat /\ DOMAIN inbox = 1 .. n /\ DOMAIN inbox' = 1 .. (n + 1)
      /\ inbox'[n + 1] = command
      /\ \A i \in 1 .. n : inbox'[i] = inbox[i]
  BY DEF ChannelTypes
<1> HIDE DEF n
<1>2. \A i \in 1 .. (n + 1) : i \in 1 .. n \/ i = n + 1
  BY <1>1
<1>3. \A i \in DOMAIN inbox :
        inbox[i].op # "Write" => inbox[i].from \in Connections /\ inbox[i].op \in {"CloseHumanInput", "OpenHumanInput"}
  BY DEF ChannelTypes, TerminalInputCommand, WriteCommand, CloseCommand, OpenCommand
<1>4. \A i \in 1 .. n : inbox[i].op # "Write" =>
          /\ conn[inbox[i].from].pc \in Waiting
          /\ conn'[inbox[i].from] = conn[inbox[i].from]
          /\ command.op # "Write" => command.from # inbox[i].from
  BY <1>1, <1>3 DEF CommandsMatchRequests, Waiting
<1>5. CommandsMatchRequests'
  <2>1. ASSUME NEW i \in DOMAIN inbox'
        PROVE  /\ inbox'[i].op = "CloseHumanInput" => conn'[inbox'[i].from].pc = "closing"
               /\ inbox'[i].op = "OpenHumanInput" =>
                     /\ conn'[inbox'[i].from].pc = "opening"
                     /\ conn'[inbox'[i].from].lease = inbox'[i].lease
    <3>1. CASE i = n + 1
      BY <3>1, <1>1
    <3>2. CASE i \in 1 .. n
      BY <3>2, <1>1, <1>4 DEF CommandsMatchRequests
    <3> QED BY <3>1, <3>2, <1>1, <1>2
  <2>2. ASSUME NEW i \in DOMAIN inbox', NEW j \in DOMAIN inbox',
               inbox'[i].op # "Write", inbox'[j].op # "Write",
               inbox'[i].from = inbox'[j].from
        PROVE  i = j
    <3>1. CASE i \in 1 .. n /\ j \in 1 .. n
      BY <2>2, <3>1, <1>1 DEF CommandsMatchRequests
    <3>2. CASE i = n + 1 /\ j \in 1 .. n
      BY <2>2, <3>2, <1>1, <1>4
    <3>3. CASE i \in 1 .. n /\ j = n + 1
      BY <2>2, <3>3, <1>1, <1>4
    <3> QED BY <3>1, <3>2, <3>3, <1>1, <1>2
  <2> QED BY <2>1, <2>2 DEF CommandsMatchRequests
<1>6. InjectionsAhead'
  <2> SUFFICES ASSUME NEW i \in DOMAIN inbox', Injects(inbox'[i])
               PROVE  /\ gate = inbox'[i].input.lease
                      /\ \A j \in DOMAIN inbox' : inbox'[j].op = "OpenHumanInput" => i < j
    BY DEF InjectionsAhead, Injects
  <2>1. CASE i = n + 1
    BY <2>1, <1>1, <1>2 DEF Injects
  <2>2. CASE i \in 1 .. n
    <3>1. /\ gate = inbox[i].input.lease
          /\ \A j \in 1 .. n : inbox[j].op = "OpenHumanInput" => i < j
      BY <2>2, <1>1 DEF InjectionsAhead
    <3>2. i < n + 1
      BY <2>2, <1>1
    <3> QED BY <2>2, <3>1, <3>2, <1>1, <1>2
  <2> QED BY <2>1, <2>2, <1>1, <1>2
<1>7. KeyboardUnleased'
  <2> SUFFICES ASSUME NEW i \in DOMAIN inbox', inbox'[i].op = "Write",
                      inbox'[i].input.source = "Viewer"
               PROVE  inbox'[i].input.lease = NoLease
    BY DEF KeyboardUnleased
  <2>1. CASE i = n + 1
    BY <2>1, <1>1 DEF Injects
  <2>2. CASE i \in 1 .. n
    BY <2>2, <1>1 DEF KeyboardUnleased
  <2> QED BY <2>1, <2>2, <1>1, <1>2
<1> QED BY <1>5, <1>6, <1>7

\* Taking the head of the channel leaves the other commands with their
\* requests, if only the request of the head moves.
LEMMA TakenChannel ==
    ASSUME ChannelTypes, CommandsMatchRequests, inbox # <<>>,
           inbox' = Tail(inbox),
           \A d \in Connections :
               conn'[d] = conn[d] \/ (inbox[1].op # "Write" /\ d = inbox[1].from)
    PROVE  /\ CommandsMatchRequests'
           /\ \A i \in DOMAIN inbox' : i + 1 \in DOMAIN inbox /\ inbox'[i] = inbox[i + 1]
<1> DEFINE n == Len(inbox)
<1>1. /\ n \in Nat \ {0} /\ DOMAIN inbox = 1 .. n /\ DOMAIN inbox' = 1 .. (n - 1)
      /\ \A i \in 1 .. (n - 1) : inbox'[i] = inbox[i + 1]
  BY DEF ChannelTypes
<1> HIDE DEF n
<1>2. \A i \in DOMAIN inbox' : i \in Nat /\ i + 1 \in 1 .. n /\ i + 1 # 1 /\ 1 \in 1 .. n
  BY <1>1
<1>3. \A i \in DOMAIN inbox' : i + 1 \in DOMAIN inbox /\ inbox'[i] = inbox[i + 1]
  BY <1>1, <1>2
<1>4. \A i \in DOMAIN inbox :
        inbox[i].op # "Write" => inbox[i].from \in Connections
  BY DEF ChannelTypes, TerminalInputCommand, WriteCommand, CloseCommand, OpenCommand
<1>5. ASSUME NEW i \in DOMAIN inbox', inbox'[i].op # "Write"
      PROVE  conn'[inbox'[i].from] = conn[inbox'[i].from]
  <2>1. i + 1 \in DOMAIN inbox /\ 1 \in DOMAIN inbox /\ i + 1 # 1
        /\ inbox[i + 1].op # "Write" /\ inbox'[i] = inbox[i + 1]
    BY <1>5, <1>1, <1>2, <1>3
  <2>2. inbox[1].op # "Write" => inbox[i + 1].from # inbox[1].from
    BY <2>1 DEF CommandsMatchRequests
  <2> QED BY <2>1, <2>2, <1>4
<1>6. CommandsMatchRequests'
  <2>1. ASSUME NEW i \in DOMAIN inbox'
        PROVE  /\ inbox'[i].op = "CloseHumanInput" => conn'[inbox'[i].from].pc = "closing"
               /\ inbox'[i].op = "OpenHumanInput" =>
                     /\ conn'[inbox'[i].from].pc = "opening"
                     /\ conn'[inbox'[i].from].lease = inbox'[i].lease
    BY <1>3, <1>5 DEF CommandsMatchRequests
  <2>2. ASSUME NEW i \in DOMAIN inbox', NEW j \in DOMAIN inbox',
               inbox'[i].op # "Write", inbox'[j].op # "Write",
               inbox'[i].from = inbox'[j].from
        PROVE  i = j
    <3>1. i + 1 = j + 1
      BY <2>2, <1>3 DEF CommandsMatchRequests
    <3> QED BY <3>1, <1>2
  <2> QED BY <2>1, <2>2 DEF CommandsMatchRequests
<1> QED BY <1>3, <1>6

\* Taking the head under an unchanged gate also keeps the injections ahead of
\* every release.
LEMMA TakenUnderGate ==
    ASSUME ChannelTypes, InjectionsAhead, inbox # <<>>, inbox' = Tail(inbox), gate' = gate,
           \A i \in DOMAIN inbox' : i + 1 \in DOMAIN inbox /\ inbox'[i] = inbox[i + 1]
    PROVE  InjectionsAhead'
<1>1. \A i \in DOMAIN inbox' : i \in Nat
  BY DEF ChannelTypes
<1> SUFFICES ASSUME NEW i \in DOMAIN inbox', Injects(inbox'[i])
             PROVE  /\ gate = inbox'[i].input.lease
                    /\ \A j \in DOMAIN inbox' : inbox'[j].op = "OpenHumanInput" => i < j
  BY DEF InjectionsAhead, Injects
<1>2. /\ gate = inbox'[i].input.lease
      /\ \A j \in DOMAIN inbox' : inbox'[j].op = "OpenHumanInput" => i + 1 < j + 1
  BY DEF InjectionsAhead
<1> QED BY <1>1, <1>2

\* Submit moves one request, and puts its command into the channel unless the
\* worker is gone.
LEMMA SubmitLeases ==
    ASSUME ~SharedLeases, TypeOK, LeaseInv, NEW c \in Connections,
           NEW command \in TerminalInputCommand, NEW request \in Conn,
           Submit(c, command, request),
           UNCHANGED workerVars, UNCHANGED signalLeases, UNCHANGED holds,
           conn[c].pc \notin {"closing", "opening", "granted", "opened"},
           request.pc \notin {"granted", "opened", "stale", "checked", "admitted"},
           request.pc = "opening" => request.lease = holds[c] /\ holds[c] # NoLease,
           command.op # "Write" => command.from = c,
           command.op = "CloseHumanInput" => request.pc = "closing",
           command.op = "OpenHumanInput" => request.pc = "opening" /\ request.lease = command.lease,
           Injects(command) =>
               /\ gate = command.input.lease
               /\ command.input.source # "Viewer"
               /\ \A j \in DOMAIN inbox : inbox[j].op # "OpenHumanInput"
    PROVE  LeaseInv'
<1>a. ChannelTypes /\ ConnTypes
  BY TypeParts
<1>b. /\ gate' = gate /\ held' = held /\ pty' = pty
      /\ holds' = holds /\ signalLeases' = signalLeases
  BY DEF workerVars
<1>c. Idle.pc = "idle"
  BY DEF Idle, At
<1>1. conn' = [conn EXCEPT ![c] = request] \/ conn' = [conn EXCEPT ![c] = Idle]
  BY DEF Submit
<1>2. /\ \A d \in Connections : d # c => conn'[d] = conn[d]
      /\ conn'[c] = request \/ conn'[c] = Idle
  BY <1>1, <1>a DEF ConnTypes
<1>3. OwnerHoldsGate' /\ NoOrphanLease' /\ TableLeases'
  <2>1. \A d \in Connections :
            \/ conn'[d] = conn[d]
            \/ /\ conn[d].pc \notin {"granted", "opened"}
               /\ conn'[d].pc \notin {"granted", "opened"}
    BY <1>2, <1>c
  <2> QED BY <1>b, <2>1, QuietStep DEF LeaseInv
<1>4. RequestsOwnLease'
  <2>1. RequestsOwnLease
    BY DEF LeaseInv
  <2> QED BY <1>2, <1>b, <1>c, <2>1 DEF RequestsOwnLease
<1>5. CommandsMatchRequests' /\ InjectionsAhead' /\ KeyboardUnleased'
  <2>0. CommandsMatchRequests /\ InjectionsAhead /\ KeyboardUnleased
    BY DEF LeaseInv
  <2>1. \A d \in Connections : conn'[d] = conn[d] \/ conn[d].pc \notin Waiting
    BY <1>2 DEF Waiting
  <2>2. CASE writer = "up"
    <3>1. inbox' = Append(inbox, command) /\ conn'[c] = request
      BY <2>2, <1>a DEF Submit, ConnTypes
    <3>2. command.op # "Write" => conn[command.from].pc \notin Waiting
      BY DEF Waiting
    <3>3. /\ command.op = "CloseHumanInput" => conn'[command.from].pc = "closing"
          /\ command.op = "OpenHumanInput" =>
               conn'[command.from].pc = "opening" /\ conn'[command.from].lease = command.lease
      BY <3>1
    <3> QED BY <1>a, <1>b, <2>0, <2>1, <3>1, <3>2, <3>3, AppendedChannel
  <2>3. CASE writer # "up"
    <3>1. inbox' = inbox
      BY <2>3 DEF Submit
    <3> QED BY <1>a, <1>b, <2>0, <2>1, <3>1, KeptChannel
  <2> QED BY <2>2, <2>3
<1>6. InjectionUnderLease'
  BY <1>b DEF LeaseInv, InjectionUnderLease
<1> QED BY <1>3, <1>4, <1>5, <1>6 DEF LeaseInv

\* A request that only looks at the lease table changes nothing but its stage.
LEMMA StageLeases ==
    ASSUME ~SharedLeases, TypeOK, LeaseInv, NEW c \in Connections, NEW request \in Conn,
           conn' = conn \/ conn' = [conn EXCEPT ![c] = request],
           UNCHANGED workerVars, UNCHANGED <<inbox, signalLeases, holds>>,
           conn[c].pc = "idle",
           request.pc \in {"prompted", "checked", "admitted"},
           request.pc # "prompted" => request.lease = holds[c] /\ holds[c] # NoLease
    PROVE  LeaseInv'
<1>a. ChannelTypes /\ ConnTypes
  BY TypeParts
<1>b. /\ gate' = gate /\ held' = held /\ pty' = pty /\ inbox' = inbox
      /\ holds' = holds /\ signalLeases' = signalLeases
  BY DEF workerVars
<1>1. /\ \A d \in Connections : d # c => conn'[d] = conn[d]
      /\ conn'[c] = request \/ conn'[c] = conn[c]
  BY <1>a DEF ConnTypes
<1>2. \A d \in Connections :
        \/ conn'[d] = conn[d]
        \/ /\ conn[d].pc \notin {"granted", "opened"}
           /\ conn'[d].pc \notin {"granted", "opened"}
  BY <1>1
<1>3. OwnerHoldsGate' /\ NoOrphanLease' /\ TableLeases'
  BY <1>b, <1>2, QuietStep DEF LeaseInv
<1>4. RequestsOwnLease'
  <2>1. RequestsOwnLease
    BY DEF LeaseInv
  <2> QED BY <1>1, <1>b, <2>1 DEF RequestsOwnLease
<1>5. CommandsMatchRequests' /\ InjectionsAhead' /\ KeyboardUnleased'
  <2>1. \A d \in Connections : conn'[d] = conn[d] \/ conn[d].pc \notin Waiting
    BY <1>1 DEF Waiting
  <2> QED BY <1>a, <1>b, <2>1, KeptChannel DEF LeaseInv
<1>6. InjectionUnderLease'
  BY <1>b DEF LeaseInv, InjectionUnderLease
<1> QED BY <1>3, <1>4, <1>5, <1>6 DEF LeaseInv

\* Plain writes, of either source, carry no lease.
LEMMA PlainWriteLeases ==
    ASSUME ~SharedLeases, TypeOK, LeaseInv, NEW input \in Chunk, input.lease = NoLease,
           inbox' = Append(inbox, [op |-> "Write", input |-> input]),
           UNCHANGED workerVars, UNCHANGED <<conn, signalLeases, holds>>
    PROVE  LeaseInv'
<1>a. ChannelTypes
  BY TypeParts
<1>b. /\ gate' = gate /\ held' = held /\ pty' = pty /\ conn' = conn
      /\ holds' = holds /\ signalLeases' = signalLeases
  BY DEF workerVars
<1>1. [op |-> "Write", input |-> input] \in TerminalInputCommand
  BY DEF TerminalInputCommand, WriteCommand
<1>2. ~Injects([op |-> "Write", input |-> input])
  BY DEF Injects
<1>3. CommandsMatchRequests' /\ InjectionsAhead' /\ KeyboardUnleased'
  <2> DEFINE command == [op |-> "Write", input |-> input]
  <2>1. command.op = "Write"
    OBVIOUS
  <2>2. CommandsMatchRequests /\ InjectionsAhead /\ KeyboardUnleased
    BY DEF LeaseInv
  <2>3. command \in TerminalInputCommand /\ ~Injects(command) /\ inbox' = Append(inbox, command)
    BY <1>1, <1>2
  <2> HIDE DEF command
  <2> QED BY <1>a, <1>b, <2>1, <2>2, <2>3, AppendedChannel
<1>4. OwnerHoldsGate' /\ NoOrphanLease' /\ TableLeases'
  BY <1>b, QuietStep DEF LeaseInv
<1>5. RequestsOwnLease'
  BY <1>b DEF LeaseInv, RequestsOwnLease
<1>6. InjectionUnderLease'
  BY <1>b DEF LeaseInv, InjectionUnderLease
<1> QED BY <1>3, <1>4, <1>5, <1>6 DEF LeaseInv

\* The handlers that write into the lease table: a grant is recorded, a
\* performed release is forgotten.
LEMMA RecordLeaseKeeps ==
    ASSUME ~SharedLeases, TypeOK, LeaseInv, NEW c \in Connections, RecordLease(c)
    PROVE  LeaseInv'
<1>a. ChannelTypes /\ ConnTypes /\ holds \in [Connections -> Nat]
  BY TypeParts DEF ClientTypes
<1>b. /\ gate' = gate /\ held' = held /\ pty' = pty /\ inbox' = inbox
      /\ conn' = [conn EXCEPT ![c] = Idle]
      /\ holds' = [holds EXCEPT ![c] = conn[c].lease]
      /\ conn[c].pc = "granted"
  BY DEF RecordLease, workerVars
<1>c. Idle.pc = "idle"
  BY DEF Idle, At
<1>d. OwnerHoldsGate
  BY DEF LeaseInv
<1>1. gate = conn[c].lease /\ gate # NoLease
  BY <1>b, <1>d DEF OwnerHoldsGate, Granted
<1>2. /\ conn'[c].pc = "idle" /\ holds'[c] = gate
      /\ \A d \in Connections : d # c => conn'[d] = conn[d] /\ holds'[d] = holds[d]
  BY <1>a, <1>b, <1>c, <1>1 DEF ConnTypes
<1>3. OwnerHoldsGate'
  <2>1. \A d \in Connections :
          /\ d # c => (Granted(d)' <=> Granted(d)) /\ (Holding(d)' <=> Holding(d))
          /\ Owning(d)' => Owning(d)
    BY <1>b, <1>2 DEF Granted, Holding, Owning
  <2>2. ~Granted(c)'
    BY <1>2 DEF Granted
  <2> QED BY <1>b, <1>d, <1>2, <2>1, <2>2 DEF OwnerHoldsGate
<1>4. RequestsOwnLease'
  <2>1. RequestsOwnLease
    BY DEF LeaseInv
  <2> QED BY <1>2, <2>1 DEF RequestsOwnLease
<1>5. CommandsMatchRequests' /\ InjectionsAhead' /\ KeyboardUnleased'
  <2>1. \A d \in Connections : conn'[d] = conn[d] \/ conn[d].pc \notin Waiting
    BY <1>b, <1>2 DEF Waiting
  <2> QED BY <1>a, <1>b, <2>1, KeptChannel DEF LeaseInv
<1>6. \A e \in signalLeases' : e \in signalLeases \/ e.lease = gate
  BY <1>1 DEF RecordLease
<1>7. TableLeases'
  BY <1>1, <1>6 DEF LeaseInv, TableLeases
<1>8. NoOrphanLease'
  <2>1. NoOrphanLease
    BY DEF LeaseInv
  <2> QED BY <1>b, <1>2, <1>6, <2>1 DEF NoOrphanLease
<1>9. InjectionUnderLease'
  BY <1>b DEF LeaseInv, InjectionUnderLease
<1> QED BY <1>3, <1>4, <1>5, <1>7, <1>8, <1>9 DEF LeaseInv

\* Forgetting a released lease preserves the invariant.
LEMMA ForgetLeaseKeeps ==
    ASSUME ~SharedLeases, TypeOK, LeaseInv, NEW c \in Connections, ForgetLease(c)
    PROVE  LeaseInv'
<1>a. ChannelTypes /\ ConnTypes /\ holds \in [Connections -> Nat]
  BY TypeParts DEF ClientTypes
<1>b. OwnerHoldsGate /\ RequestsOwnLease /\ NoOrphanLease
  BY DEF LeaseInv
<1>c. Idle.pc = "idle"
  BY DEF Idle, At
<1>1. conn[c].pc = "opened" /\ conn[c].lease = holds[c]
  BY <1>b DEF ForgetLease, RequestsOwnLease
<1>2. /\ gate' = gate /\ held' = held /\ pty' = pty /\ inbox' = inbox
      /\ conn' = [conn EXCEPT ![c] = Idle]
      /\ holds' = [holds EXCEPT ![c] = NoLease]
      /\ signalLeases' = signalLeases \ Entries(holds[c])
  BY <1>a, <1>1 DEF ForgetLease, workerVars
<1>3. /\ conn'[c].pc = "idle" /\ holds'[c] = NoLease
      /\ \A d \in Connections : d # c => conn'[d] = conn[d] /\ holds'[d] = holds[d]
  BY <1>a, <1>2, <1>c DEF ConnTypes
<1>4. OwnerHoldsGate'
  <2>1. \A d \in Connections :
          /\ d # c => (Granted(d)' <=> Granted(d)) /\ (Holding(d)' <=> Holding(d))
          /\ Owning(d)' => Owning(d)
    BY <1>3 DEF Granted, Holding, Owning
  <2>2. ~Granted(c)' /\ ~Holding(c)'
    BY <1>3 DEF Granted, Holding
  <2> QED BY <1>b, <1>2, <1>3, <2>1, <2>2 DEF OwnerHoldsGate
<1>5. RequestsOwnLease'
  BY <1>b, <1>3 DEF RequestsOwnLease
<1>6. CommandsMatchRequests' /\ InjectionsAhead' /\ KeyboardUnleased'
  <2>1. \A d \in Connections : conn'[d] = conn[d] \/ conn[d].pc \notin Waiting
    BY <1>1, <1>3 DEF Waiting
  <2> QED BY <1>a, <1>2, <2>1, KeptChannel DEF LeaseInv
<1>7. TableLeases'
  BY <1>2 DEF LeaseInv, TableLeases
<1>8. NoOrphanLease'
  <2> SUFFICES ASSUME NEW e \in signalLeases', gate # e.lease
               PROVE  \E d \in Connections : conn'[d].pc = "opened" /\ conn'[d].lease = e.lease
    BY <1>2 DEF NoOrphanLease
  <2>1. e \in signalLeases /\ e.lease # holds[c]
    BY <1>2 DEF Entries
  <2>2. PICK d \in Connections : conn[d].pc = "opened" /\ conn[d].lease = e.lease
    BY <1>b, <2>1 DEF NoOrphanLease
  <2> QED BY <1>1, <1>3, <2>1, <2>2
<1>9. InjectionUnderLease'
  BY <1>2 DEF LeaseInv, InjectionUnderLease
<1> QED BY <1>4, <1>5, <1>6, <1>7, <1>8, <1>9 DEF LeaseInv

\* Every step of a client or of the thread that serves it keeps the lease
\* invariant.
LEMMA ClientLeaseInv ==
    ASSUME ~SharedLeases, TypeOK, LeaseInv,
           \/ PumpViewerInput
           \/ \E c \in Connections : Request(c) \/ Serve(c)
    PROVE  LeaseInv'
<1>a. ClientTypes /\ ChannelTypes /\ ConnTypes
  BY TypeParts
<1>b. OwnerHoldsGate /\ RequestsOwnLease /\ CommandsMatchRequests
  BY DEF LeaseInv
<1>c. /\ NoLease \in Nat /\ "raw" \in Kinds /\ "signal" \in Kinds
      /\ "NotChecked" \in PromptStates
      /\ "prompted" \in Stages /\ "closing" \in Stages /\ "checked" \in Stages
      /\ "opening" \in Stages /\ "admitted" \in Stages
  BY DEF NoLease, Kinds, PromptStates, Stages
<1>k. KeyboardChunk \in Chunk /\ KeyboardChunk.lease = NoLease
  <2>1. typed + 1 \in Nat
    BY <1>a DEF ClientTypes
  <2> QED BY <1>c, <2>1 DEF KeyboardChunk, Chunk, Sources
<1>n. ASSUME NEW c \in Connections, NEW lease \in Nameable(c)
      PROVE  lease \in Nat /\ lease = holds[c] /\ holds[c] # NoLease
  BY <1>n, <1>a DEF Nameable, ClientTypes
<1>1. CASE PumpViewerInput
  BY <1>1, <1>k, PlainWriteLeases DEF PumpViewerInput
<1>2. ASSUME NEW c \in Connections, NEW source \in Sources, WriteInput(c, source)
      PROVE  LeaseInv'
  <2> DEFINE programmatic == [source |-> source, id |-> 0, lease |-> NoLease]
  <2>1. programmatic \in Chunk /\ programmatic.lease = NoLease
    BY <1>c DEF Chunk
  <2>2. \/ inbox' = Append(inbox, [op |-> "Write", input |-> KeyboardChunk])
        \/ inbox' = Append(inbox, [op |-> "Write", input |-> programmatic])
    BY <1>2 DEF WriteInput
  <2>3. UNCHANGED workerVars /\ UNCHANGED <<conn, signalLeases, holds>>
    BY <1>2 DEF WriteInput
  <2> HIDE DEF programmatic
  <2> QED BY <1>k, <2>1, <2>2, <2>3, PlainWriteLeases
<1>3. ASSUME NEW c \in Connections, CloseHumanInput(c)
      PROVE  LeaseInv'
  <2> DEFINE command == [op |-> "CloseHumanInput", from |-> c]
             request == At("closing", "raw", NoLease, "NotChecked")
  <2>1. command \in TerminalInputCommand /\ command.op = "CloseHumanInput" /\ command.from = c
    BY DEF TerminalInputCommand, CloseCommand
  <2>2. request \in Conn /\ request.pc = "closing"
    BY <1>c, RequestType DEF At
  <2>3. ~Injects(command)
    BY <2>1 DEF Injects
  <2>4. /\ Submit(c, command, request)
        /\ UNCHANGED workerVars /\ UNCHANGED signalLeases /\ UNCHANGED holds
        /\ conn[c].pc = "idle"
    BY <1>3 DEF CloseHumanInput, NewRequest
  <2> HIDE DEF command, request
  <2> QED BY <2>1, <2>2, <2>3, <2>4, SubmitLeases
<1>4. ASSUME NEW c \in Connections, NEW lease \in Nameable(c), OpenHumanInput(c, lease)
      PROVE  LeaseInv'
  <2> DEFINE command == [op |-> "OpenHumanInput", from |-> c, lease |-> lease]
             request == At("opening", "raw", lease, "NotChecked")
  <2>0. lease \in Nat /\ lease = holds[c] /\ holds[c] # NoLease
    BY <1>n
  <2>1. /\ command \in TerminalInputCommand /\ command.op = "OpenHumanInput"
        /\ command.from = c /\ command.lease = lease
    BY <2>0 DEF TerminalInputCommand, OpenCommand
  <2>2. request \in Conn /\ request.pc = "opening" /\ request.lease = lease
    BY <1>c, <2>0, RequestType DEF At
  <2>3. ~Injects(command)
    BY <2>1 DEF Injects
  <2>4. /\ Submit(c, command, request)
        /\ UNCHANGED workerVars /\ UNCHANGED signalLeases /\ UNCHANGED holds
        /\ conn[c].pc = "idle"
    BY <1>4 DEF OpenHumanInput, NewRequest
  <2> HIDE DEF command, request
  <2> QED BY <2>0, <2>1, <2>2, <2>3, <2>4, SubmitLeases
<1>5. ASSUME NEW c \in Connections, NEW prompt \in PromptStates,
             SignalPromptState(c, prompt)
      PROVE  LeaseInv'
  <2> DEFINE request == At("prompted", "signal", NoLease, prompt)
  <2>1. request \in Conn /\ request.pc = "prompted"
    BY <1>c, RequestType DEF At
  <2>2. /\ conn' = [conn EXCEPT ![c] = request] /\ conn[c].pc = "idle"
        /\ UNCHANGED workerVars /\ UNCHANGED <<inbox, signalLeases, holds>>
    BY <1>5 DEF SignalPromptState, NewRequest
  <2> HIDE DEF request
  <2> QED BY <2>1, <2>2, StageLeases
<1>6. ASSUME NEW c \in Connections, NEW lease \in Nameable(c),
             ReleaseSignalInputGate(c, lease)
      PROVE  LeaseInv'
  <2> DEFINE request == At("checked", "signal", lease, "NotChecked")
  <2>0. lease \in Nat /\ lease = holds[c] /\ holds[c] # NoLease
    BY <1>n
  <2>1. request \in Conn /\ request.pc = "checked" /\ request.lease = lease
    BY <1>c, <2>0, RequestType DEF At
  <2>2. /\ conn' = conn \/ conn' = [conn EXCEPT ![c] = request]
        /\ conn[c].pc = "idle"
        /\ UNCHANGED workerVars /\ UNCHANGED <<inbox, signalLeases, holds>>
    BY <1>6 DEF ReleaseSignalInputGate, NewRequest
  <2> HIDE DEF request
  <2> QED BY <2>0, <2>1, <2>2, StageLeases
<1>7. ASSUME NEW c \in Connections, NEW lease \in Nameable(c),
             WriteSignalInjection(c, lease)
      PROVE  LeaseInv'
  <2> DEFINE request == At("admitted", "signal", lease, "NotChecked")
  <2>0. lease \in Nat /\ lease = holds[c] /\ holds[c] # NoLease
    BY <1>n
  <2>1. request \in Conn /\ request.pc = "admitted" /\ request.lease = lease
    BY <1>c, <2>0, RequestType DEF At
  <2>2. /\ conn' = conn \/ conn' = [conn EXCEPT ![c] = request]
        /\ conn[c].pc = "idle"
        /\ UNCHANGED workerVars /\ UNCHANGED <<inbox, signalLeases, holds>>
    BY <1>7 DEF WriteSignalInjection, NewRequest
  <2> HIDE DEF request
  <2> QED BY <2>0, <2>1, <2>2, StageLeases
<1>8. ASSUME NEW c \in Connections, AcquireSignalInputGate(c)
      PROVE  LeaseInv'
  <2> DEFINE command == [op |-> "CloseHumanInput", from |-> c]
             request == At("closing", "signal", NoLease, conn[c].prompt)
  <2>1. command \in TerminalInputCommand /\ command.op = "CloseHumanInput" /\ command.from = c
    BY DEF TerminalInputCommand, CloseCommand
  <2>2. request \in Conn /\ request.pc = "closing"
    BY <1>a, <1>c, ConnParts, RequestType DEF At
  <2>3. ~Injects(command)
    BY <2>1 DEF Injects
  <2>4. /\ Submit(c, command, request)
        /\ UNCHANGED workerVars /\ UNCHANGED signalLeases /\ UNCHANGED holds
        /\ conn[c].pc = "prompted"
    BY <1>8 DEF AcquireSignalInputGate, clientVars
  <2> HIDE DEF command, request
  <2> QED BY <2>1, <2>2, <2>3, <2>4, SubmitLeases
<1>9. ASSUME NEW c \in Connections, SendSignalRelease(c)
      PROVE  LeaseInv'
  <2> DEFINE command == [op |-> "OpenHumanInput", from |-> c, lease |-> conn[c].lease]
             request == At("opening", "signal", conn[c].lease, "NotChecked")
  <2>0. conn[c].pc = "checked" /\ conn[c].lease = holds[c] /\ holds[c] # NoLease
    BY <1>9, <1>b DEF SendSignalRelease, RequestsOwnLease
  <2>1. /\ command \in TerminalInputCommand /\ command.op = "OpenHumanInput"
        /\ command.from = c /\ command.lease = conn[c].lease
    BY <1>a, ConnParts DEF TerminalInputCommand, OpenCommand
  <2>2. request \in Conn /\ request.pc = "opening" /\ request.lease = conn[c].lease
    BY <1>a, <1>c, ConnParts, RequestType DEF At
  <2>3. ~Injects(command)
    BY <2>1 DEF Injects
  <2>4. /\ Submit(c, command, request)
        /\ UNCHANGED workerVars /\ UNCHANGED signalLeases /\ UNCHANGED holds
    BY <1>9 DEF SendSignalRelease, clientVars
  <2> HIDE DEF command, request
  <2> QED BY <2>0, <2>1, <2>2, <2>3, <2>4, SubmitLeases
<1>10. ASSUME NEW c \in Connections, AcceptInjection(c)
       PROVE  LeaseInv'
  <2> DEFINE input == [source |-> "Programmatic", id |-> 0, lease |-> conn[c].lease]
             command == [op |-> "Write", input |-> input]
  <2>0. conn[c].pc = "admitted" /\ conn[c].lease = holds[c] /\ holds[c] # NoLease
    BY <1>10, <1>b DEF AcceptInjection, RequestsOwnLease
  <2>1. input \in Chunk /\ input.lease = conn[c].lease /\ input.source # "Viewer"
    BY <1>a, ConnParts DEF Chunk, Sources
  <2>2. command \in TerminalInputCommand /\ command.op = "Write" /\ command.input = input
    BY <2>1 DEF TerminalInputCommand, WriteCommand
  <2>3. gate = conn[c].lease /\ Owning(c)
    BY <1>b, <2>0 DEF OwnerHoldsGate, Holding, Owning
  <2>4. \A j \in DOMAIN inbox : inbox[j].op # "OpenHumanInput"
    <3> SUFFICES ASSUME NEW j \in DOMAIN inbox, inbox[j].op = "OpenHumanInput"
                 PROVE  FALSE
      OBVIOUS
    <3> DEFINE d == inbox[j].from
    <3>1. d \in Connections
      BY <1>a DEF ChannelTypes, TerminalInputCommand, WriteCommand, CloseCommand,
                  OpenCommand
    <3>2. conn[d].pc = "opening"
      BY <1>b DEF CommandsMatchRequests
    <3> HIDE DEF d
    <3>3. Owning(d)
      BY <1>b, <3>1, <3>2 DEF RequestsOwnLease, Owning, Holding
    <3>4. d = c
      BY <1>b, <2>3, <3>1, <3>3 DEF OwnerHoldsGate
    <3> QED BY <2>0, <3>2, <3>4
  <2>5. Idle \in Conn /\ Idle.pc = "idle"
    BY IdleType DEF Idle, At
  <2>6. /\ Submit(c, command, Idle)
        /\ UNCHANGED workerVars /\ UNCHANGED signalLeases /\ UNCHANGED holds
    BY <1>10 DEF AcceptInjection, clientVars
  <2> HIDE DEF command, input
  <2> QED BY <2>0, <2>1, <2>2, <2>3, <2>4, <2>5, <2>6, SubmitLeases
<1> QED
  BY <1>1, <1>2, <1>3, <1>4, <1>5, <1>6, <1>7, <1>8, <1>9, <1>10,
     RecordLeaseKeeps, ForgetLeaseKeeps DEF Request, Serve

\* Bytes that a step adds to the PTY without a lease, or under their own,
\* keep InjectionUnderLease.
LEMMA FlushedUnderLease ==
    ASSUME ~SharedLeases, InjectionUnderLease, pty \in Seq(WrittenChunk),
           NEW added \in Seq(WrittenChunk), pty' = pty \o added,
           \A i \in DOMAIN added : added[i].lease # NoLease => added[i].under = added[i].lease
    PROVE  InjectionUnderLease'
<1> DEFINE n == Len(pty)
           m == Len(added)
<1>1. n \in Nat /\ m \in Nat /\ DOMAIN pty = 1 .. n /\ DOMAIN added = 1 .. m
  OBVIOUS
<1>2. DOMAIN pty' = 1 .. (n + m)
  OBVIOUS
<1>3. \A i \in 1 .. (n + m) : pty'[i] = IF i <= n THEN pty[i] ELSE added[i - n]
  OBVIOUS
<1> HIDE DEF n, m
<1>4. \A i \in 1 .. (n + m) : i \in 1 .. n \/ (~(i <= n) /\ i - n \in 1 .. m)
  BY <1>1
<1> SUFFICES ASSUME NEW i \in 1 .. (n + m), pty'[i].lease # NoLease
             PROVE  pty'[i].under = pty'[i].lease
  BY <1>2 DEF InjectionUnderLease
<1>5. CASE i \in 1 .. n
  <2>1. pty'[i] = pty[i]
    BY <1>1, <1>3, <1>5
  <2> QED BY <1>1, <1>5, <2>1 DEF InjectionUnderLease
<1>6. CASE ~(i <= n) /\ i - n \in 1 .. m
  <2>1. pty'[i] = added[i - n]
    BY <1>3, <1>6
  <2> QED BY <1>1, <1>6, <2>1
<1> QED BY <1>4, <1>5, <1>6

\* Every step of the worker keeps the lease invariant.
LEMMA WorkerLeaseInv ==
    ASSUME ~SharedLeases, TypeOK, LeaseInv, InputWriter
    PROVE  LeaseInv'
<1>a. WorkerTypes /\ ClientTypes /\ ChannelTypes /\ ConnTypes
  BY TypeParts
<1>b. /\ OwnerHoldsGate /\ RequestsOwnLease /\ CommandsMatchRequests
      /\ InjectionsAhead /\ KeyboardUnleased /\ TableLeases
      /\ InjectionUnderLease /\ NoOrphanLease
  BY DEF LeaseInv
<1>c. gate \in Nat /\ held \in Seq(Chunk) /\ pty \in Seq(WrittenChunk)
  BY <1>a DEF WorkerTypes
<1>d. /\ Len(held) \in Nat /\ DOMAIN held = 1 .. Len(held)
      /\ \A i \in 1 .. Len(held) : held[i] \in Chunk /\ held[i].lease = NoLease
  BY <1>b, <1>c DEF KeyboardUnleased
<1>e. \A i \in 1 .. Len(held) :
        Written(held[i]) \in WrittenChunk /\ Written(held[i]).lease = NoLease
  BY <1>c, <1>d, WrittenType DEF Written
<1>f. Idle.pc = "idle"
  BY DEF Idle, At
\* The request whose release is at the head of the channel.
<1>g. ASSUME Taking("OpenHumanInput")
      PROVE  /\ Head(inbox) = inbox[1] /\ 1 \in DOMAIN inbox /\ inbox # <<>>
             /\ inbox[1].from \in Connections
             /\ inbox[1].op = "OpenHumanInput"
             /\ conn[inbox[1].from].pc = "opening"
             /\ conn[inbox[1].from].lease = inbox[1].lease
             /\ holds[inbox[1].from] = inbox[1].lease
             /\ Owning(inbox[1].from)
             /\ gate = inbox[1].lease
  <2>1. /\ Head(inbox) = inbox[1] /\ 1 \in DOMAIN inbox /\ inbox # <<>>
        /\ inbox[1].from \in Connections
        /\ inbox[1].op = "OpenHumanInput"
    BY <1>g, HeadCommand DEF Taking
  <2>2. conn[inbox[1].from].pc = "opening" /\ conn[inbox[1].from].lease = inbox[1].lease
    BY <1>b, <2>1 DEF CommandsMatchRequests
  <2>3. holds[inbox[1].from] = inbox[1].lease /\ holds[inbox[1].from] # NoLease
    BY <1>b, <2>1, <2>2 DEF RequestsOwnLease
  <2>4. Holding(inbox[1].from)
    BY <2>2, <2>3 DEF Holding
  <2> QED BY <1>b, <2>1, <2>2, <2>3, <2>4 DEF OwnerHoldsGate, Owning
<1>1. CASE HandleWrite
  <2>1. /\ Head(inbox) = inbox[1] /\ 1 \in DOMAIN inbox /\ inbox # <<>>
        /\ inbox[1].op = "Write" /\ inbox[1].input \in Chunk
    BY <1>1, HeadCommand DEF HandleWrite, Taking
  <2>2. /\ gate' = gate /\ conn' = conn /\ inbox' = Tail(inbox)
        /\ holds' = holds /\ signalLeases' = signalLeases
    BY <1>1 DEF HandleWrite, clientVars
  <2>3. OwnerHoldsGate' /\ NoOrphanLease' /\ TableLeases'
    BY <1>b, <2>2, QuietStep
  <2>4. RequestsOwnLease'
    BY <1>b, <2>2 DEF RequestsOwnLease
  <2>5. /\ CommandsMatchRequests'
        /\ \A i \in DOMAIN inbox' : i + 1 \in DOMAIN inbox /\ inbox'[i] = inbox[i + 1]
    BY <1>a, <1>b, <2>1, <2>2, TakenChannel
  <2>6. InjectionsAhead'
    BY <1>a, <1>b, <2>1, <2>2, <2>5, TakenUnderGate
  <2>7. CASE Holds(inbox[1].input)
    <3>1. held' = Append(held, inbox[1].input) /\ pty' = pty
      BY <1>1, <2>1, <2>7 DEF HandleWrite
    <3>2. inbox[1].input.lease = NoLease
      BY <1>b, <2>1, <2>7 DEF KeyboardUnleased, Holds
    <3>3. \A i \in DOMAIN held' : held'[i].lease = NoLease
      BY <1>c, <1>d, <2>1, <3>1, <3>2
    <3>4. KeyboardUnleased'
      BY <1>b, <2>5, <3>3 DEF KeyboardUnleased
    <3>5. InjectionUnderLease'
      BY <1>b, <3>1 DEF InjectionUnderLease
    <3> QED BY <2>3, <2>4, <2>5, <2>6, <3>4, <3>5 DEF LeaseInv
  <2>8. CASE ~Holds(inbox[1].input)
    <3> DEFINE written == Written(inbox[1].input)
    <3>1. held' = held /\ pty' = Append(pty, written)
      BY <1>1, <2>1, <2>8 DEF HandleWrite
    <3>2. written \in WrittenChunk
      BY <1>c, <2>1, WrittenType
    <3>3. written.lease = inbox[1].input.lease /\ written.under = gate
      BY DEF Written
    <3>4. written.lease # NoLease => written.under = written.lease
      BY <1>b, <2>1, <3>3 DEF InjectionsAhead, Injects
    <3> HIDE DEF written
    <3>5. /\ <<written>> \in Seq(WrittenChunk)
          /\ pty' = pty \o <<written>>
          /\ DOMAIN <<written>> = {1} /\ <<written>>[1] = written
      BY <1>c, <3>1, <3>2
    <3>6. InjectionUnderLease'
      BY <1>b, <1>c, <3>4, <3>5, FlushedUnderLease
    <3>7. KeyboardUnleased'
      BY <1>b, <2>5, <3>1 DEF KeyboardUnleased
    <3> QED BY <2>3, <2>4, <2>5, <2>6, <3>6, <3>7 DEF LeaseInv
  <2> QED BY <2>7, <2>8
<1>2. CASE HandleWriteFails
  <2>1. /\ gate' = gate /\ inbox' = <<>> /\ held' = <<>> /\ pty' = pty
        /\ holds' = holds /\ signalLeases' = signalLeases
    BY <1>2 DEF HandleWriteFails, clientVars
  <2>2. \A d \in Connections :
          conn'[d] = conn[d] \/ (conn[d].pc \in Waiting /\ conn'[d] = Idle)
    BY <1>2 DEF HandleWriteFails
  <2>3. OwnerHoldsGate' /\ NoOrphanLease' /\ TableLeases'
    <3>1. \A d \in Connections :
            \/ conn'[d] = conn[d]
            \/ /\ conn[d].pc \notin {"granted", "opened"}
               /\ conn'[d].pc \notin {"granted", "opened"}
      BY <1>f, <2>2 DEF Waiting
    <3> QED BY <1>b, <2>1, <3>1, QuietStep
  <2>4. RequestsOwnLease'
    BY <1>b, <1>f, <2>1, <2>2 DEF RequestsOwnLease
  <2>5. DOMAIN inbox' = {} /\ DOMAIN held' = {}
    BY <2>1
  <2>6. CommandsMatchRequests' /\ InjectionsAhead' /\ KeyboardUnleased'
    BY <2>5 DEF CommandsMatchRequests, InjectionsAhead, KeyboardUnleased
  <2>7. InjectionUnderLease'
    BY <1>b, <2>1 DEF InjectionUnderLease
  <2> QED BY <2>3, <2>4, <2>6, <2>7 DEF LeaseInv
<1>3. CASE HandleClose
  <2> DEFINE c == inbox[1].from
             granted == At("granted", conn[c].kind, nextSequence, conn[c].prompt)
  <2>1. /\ Head(inbox) = inbox[1] /\ 1 \in DOMAIN inbox /\ inbox # <<>>
        /\ inbox[1].op = "CloseHumanInput" /\ c \in Connections
    BY <1>3, HeadCommand DEF HandleClose, Taking
  <2>2. conn[c].pc = "closing"
    BY <1>b, <2>1 DEF CommandsMatchRequests
  <2>3. /\ inbox' = Tail(inbox) /\ held' = held /\ pty' = pty
        /\ holds' = holds /\ signalLeases' = signalLeases
    BY <1>3 DEF HandleClose, clientVars
  <2>4. \A d \in Connections : d # c => conn'[d] = conn[d]
    BY <1>3, <1>a, <2>1 DEF HandleClose, ConnTypes
  <2>5. /\ CommandsMatchRequests'
        /\ \A i \in DOMAIN inbox' : i + 1 \in DOMAIN inbox /\ inbox'[i] = inbox[i + 1]
    BY <1>a, <1>b, <2>1, <2>3, <2>4, TakenChannel
  <2>6. KeyboardUnleased'
    BY <1>b, <2>3, <2>5 DEF KeyboardUnleased
  <2>7. InjectionUnderLease'
    BY <1>b, <2>3 DEF InjectionUnderLease
  <2>8. CASE gate # NoLease
    <3>1. gate' = gate /\ conn'[c] = Idle
      BY <1>3, <1>a, <2>1, <2>8 DEF HandleClose, ConnTypes
    <3> HIDE DEF c
    <3>2. OwnerHoldsGate' /\ NoOrphanLease' /\ TableLeases'
      <4>1. \A d \in Connections :
              \/ conn'[d] = conn[d]
              \/ /\ conn[d].pc \notin {"granted", "opened"}
                 /\ conn'[d].pc \notin {"granted", "opened"}
        BY <1>f, <2>2, <2>4, <3>1
      <4> QED BY <1>b, <2>3, <3>1, <4>1, QuietStep
    <3>3. RequestsOwnLease'
      BY <1>b, <1>f, <2>3, <2>4, <3>1 DEF RequestsOwnLease
    <3>4. InjectionsAhead'
      BY <1>a, <1>b, <2>1, <2>3, <2>5, <3>1, TakenUnderGate
    <3> QED BY <2>5, <2>6, <2>7, <3>2, <3>3, <3>4 DEF LeaseInv
  <2>9. CASE gate = NoLease
    <3>1. gate' = nextSequence /\ conn'[c] = granted
      BY <1>3, <1>a, <2>1, <2>9 DEF HandleClose, ConnTypes
    <3>2. nextSequence # NoLease
      BY <1>a DEF WorkerTypes, NoLease
    <3>3. granted.pc = "granted" /\ granted.lease = nextSequence
      BY DEF At
    <3> HIDE DEF c, granted
    <3>4. \A d \in Connections : ~Owning(d) /\ ~Granted(d) /\ ~Holding(d)
      BY <1>b, <2>9 DEF OwnerHoldsGate, Owning, Holding
    <3>5. holds[c] = NoLease
      BY <2>1, <2>2, <3>4 DEF Holding
    <3>6. \A d \in Connections : d # c => ~Owning(d)' /\ ~Granted(d)' /\ ~Holding(d)'
      BY <2>3, <2>4, <3>4 DEF Owning, Granted, Holding
    <3>7. \A d \in Connections :
            d = c => ~Holding(d)' /\ gate' = conn'[d].lease /\ gate' # NoLease
      BY <2>3, <3>1, <3>2, <3>3, <3>5 DEF Holding
    <3>8. OwnerHoldsGate'
      BY <3>6, <3>7 DEF OwnerHoldsGate
    <3>9. RequestsOwnLease'
      BY <1>b, <2>3, <2>4, <3>1, <3>3 DEF RequestsOwnLease
    <3>10. InjectionsAhead'
      BY <1>b, <2>5, <2>9 DEF InjectionsAhead, Injects
    <3>11. TableLeases'
      BY <1>b, <2>3 DEF TableLeases
    <3>12. NoOrphanLease'
      BY <1>b, <2>2, <2>3, <2>4, <2>9 DEF NoOrphanLease, TableLeases
    <3> QED BY <2>5, <2>6, <2>7, <3>8, <3>9, <3>10, <3>11, <3>12 DEF LeaseInv
  <2> QED BY <2>8, <2>9
<1>4. CASE HandleOpen
  <2> DEFINE c == inbox[1].from
             opened == At("opened", conn[c].kind, conn[c].lease, conn[c].prompt)
             flushed == [i \in 1 .. Len(held) |-> Written(held[i])]
  <2>1. /\ Head(inbox) = inbox[1] /\ 1 \in DOMAIN inbox /\ inbox # <<>>
        /\ inbox[1].op = "OpenHumanInput"
        /\ c \in Connections /\ conn[c].pc = "opening" /\ conn[c].lease = gate
        /\ holds[c] = gate /\ gate # NoLease /\ Owning(c)
    BY <1>4, <1>g DEF HandleOpen
  <2>2. /\ inbox' = Tail(inbox) /\ held' = <<>> /\ pty' = pty \o flushed
        /\ gate' = NoLease /\ holds' = holds /\ signalLeases' = signalLeases
    BY <1>4 DEF HandleOpen, clientVars
  <2>3. conn'[c] = opened /\ \A d \in Connections : d # c => conn'[d] = conn[d]
    BY <1>4, <1>a, <2>1 DEF HandleOpen, ConnTypes
  <2>4. opened.pc = "opened" /\ opened.lease = gate
    BY <2>1 DEF At
  <2>5. flushed \in Seq(WrittenChunk) /\ DOMAIN flushed = 1 .. Len(held)
        /\ \A i \in 1 .. Len(held) : flushed[i].lease = NoLease
    BY <1>d, <1>e
  <2> HIDE DEF c, opened, flushed
  <2>6. InjectionUnderLease'
    BY <1>b, <1>c, <2>2, <2>5, FlushedUnderLease
  <2>7. /\ CommandsMatchRequests'
        /\ \A i \in DOMAIN inbox' : i + 1 \in DOMAIN inbox /\ inbox'[i] = inbox[i + 1]
    BY <1>a, <1>b, <2>1, <2>2, <2>3, TakenChannel DEF c
  <2>8. \A d \in Connections : d # c => ~Owning(d) /\ ~Granted(d) /\ ~Holding(d)
    BY <1>b, <2>1 DEF OwnerHoldsGate, Owning
  <2>9. \A d \in Connections : ~Owning(d)' /\ ~Granted(d)' /\ ~Holding(d)'
    BY <2>2, <2>3, <2>4, <2>8 DEF Owning, Granted, Holding
  <2>10. OwnerHoldsGate'
    BY <2>9 DEF OwnerHoldsGate
  <2>11. RequestsOwnLease'
    BY <1>b, <2>1, <2>2, <2>3, <2>4 DEF RequestsOwnLease
  <2>12. InjectionsAhead'
    <3> SUFFICES ASSUME NEW i \in DOMAIN inbox', Injects(inbox'[i]) PROVE FALSE
      BY DEF InjectionsAhead, Injects
    <3>1. i \in Nat \ {0}
      BY <1>a, <2>1, <2>2 DEF ChannelTypes
    <3>2. i + 1 < 1
      BY <1>b, <2>1, <2>7 DEF InjectionsAhead
    <3> QED BY <3>1, <3>2
  <2>13. KeyboardUnleased'
    <3>1. DOMAIN held' = {}
      BY <2>2
    <3> QED BY <1>b, <2>7, <3>1 DEF KeyboardUnleased
  <2>14. TableLeases'
    BY <1>b, <2>2 DEF TableLeases
  <2>15. NoOrphanLease'
    <3> SUFFICES ASSUME NEW e \in signalLeases
                 PROVE  \E d \in Connections : conn'[d].pc = "opened" /\ conn'[d].lease = e.lease
      BY <2>2 DEF NoOrphanLease
    <3>1. CASE gate = e.lease
      BY <2>1, <2>3, <2>4, <3>1
    <3>2. CASE gate # e.lease
      BY <1>b, <2>1, <2>3, <3>2 DEF NoOrphanLease
    <3> QED BY <3>1, <3>2
  <2> QED BY <2>6, <2>7, <2>10, <2>11, <2>12, <2>13, <2>14, <2>15 DEF LeaseInv
<1>5. CASE HandleOpenStale
  <2>1. Head(inbox).lease = gate /\ gate # NoLease
    <3>1. Taking("OpenHumanInput")
      BY <1>5 DEF HandleOpenStale
    <3>2. conn[inbox[1].from].lease = inbox[1].lease /\ inbox[1].from \in Connections
          /\ conn[inbox[1].from].pc = "opening" /\ Head(inbox) = inbox[1]
          /\ gate = inbox[1].lease
      BY <1>g, <3>1
    <3> QED BY <1>b, <3>2 DEF RequestsOwnLease
  <2> QED BY <1>5, <2>1 DEF HandleOpenStale
<1>6. ASSUME NEW k \in DOMAIN held, HandleOpenFlushFails(k)
      PROVE  LeaseInv'
  <2> DEFINE c == inbox[1].from
             flushed == [i \in 1 .. (k - 1) |-> Written(held[i])]
  <2>1. /\ Head(inbox) = inbox[1] /\ 1 \in DOMAIN inbox /\ inbox # <<>>
        /\ inbox[1].op = "OpenHumanInput"
        /\ c \in Connections /\ conn[c].pc = "opening"
    BY <1>6, <1>g DEF HandleOpenFlushFails
  <2>2. /\ inbox' = Tail(inbox) /\ held' = SubSeq(held, k + 1, Len(held))
        /\ pty' = pty \o flushed
        /\ gate' = gate /\ holds' = holds /\ signalLeases' = signalLeases
    BY <1>6 DEF HandleOpenFlushFails, clientVars
  <2>3. conn'[c] = Idle /\ \A d \in Connections : d # c => conn'[d] = conn[d]
    BY <1>6, <1>a, <2>1 DEF HandleOpenFlushFails, ConnTypes
  <2>4. k \in 1 .. Len(held)
    BY <1>d
  <2>5. flushed \in Seq(WrittenChunk) /\ DOMAIN flushed = 1 .. (k - 1)
        /\ \A i \in 1 .. (k - 1) : flushed[i].lease = NoLease
    <3>1. k - 1 \in Nat /\ \A i \in 1 .. (k - 1) : i \in 1 .. Len(held)
      BY <1>d, <2>4
    <3> QED BY <1>e, <3>1
  <2>6. \A i \in DOMAIN held' : held'[i].lease = NoLease
    <3>1. /\ DOMAIN held' = 1 .. (Len(held) - k)
          /\ \A i \in 1 .. (Len(held) - k) : held'[i] = held[i + k]
      BY <1>c, <1>d, <2>2, <2>4
    <3>2. \A i \in 1 .. (Len(held) - k) : i + k \in 1 .. Len(held)
      BY <1>d, <2>4
    <3> QED BY <1>d, <3>1, <3>2
  <2> HIDE DEF c, flushed
  <2>7. InjectionUnderLease'
    BY <1>b, <1>c, <2>2, <2>5, FlushedUnderLease
  <2>8. /\ CommandsMatchRequests'
        /\ \A i \in DOMAIN inbox' : i + 1 \in DOMAIN inbox /\ inbox'[i] = inbox[i + 1]
    BY <1>a, <1>b, <2>1, <2>2, <2>3, TakenChannel DEF c
  <2>9. InjectionsAhead'
    BY <1>a, <1>b, <2>1, <2>2, <2>8, TakenUnderGate
  <2>10. KeyboardUnleased'
    BY <1>b, <2>6, <2>8 DEF KeyboardUnleased
  <2>11. OwnerHoldsGate' /\ NoOrphanLease' /\ TableLeases'
    <3>1. \A d \in Connections :
            \/ conn'[d] = conn[d]
            \/ /\ conn[d].pc \notin {"granted", "opened"}
               /\ conn'[d].pc \notin {"granted", "opened"}
      BY <1>f, <2>1, <2>3
    <3> QED BY <1>b, <2>2, <3>1, QuietStep
  <2>12. RequestsOwnLease'
    BY <1>b, <1>f, <2>2, <2>3 DEF RequestsOwnLease
  <2> QED BY <2>7, <2>8, <2>9, <2>10, <2>11, <2>12 DEF LeaseInv
<1> QED BY <1>1, <1>2, <1>3, <1>4, <1>5, <1>6 DEF InputWriter

\* Initially nobody holds or asks for anything.
LEMMA InitLeaseInv == Init => LeaseInv
<1> SUFFICES ASSUME Init PROVE LeaseInv
  OBVIOUS
<1>1. /\ inbox = <<>> /\ held = <<>> /\ pty = <<>> /\ signalLeases = {}
      /\ \A c \in Connections : conn[c].pc = "idle" /\ holds[c] = NoLease
  BY DEF Init, Idle, At
<1>2. DOMAIN inbox = {} /\ DOMAIN held = {} /\ DOMAIN pty = {}
  BY <1>1
<1>3. OwnerHoldsGate /\ RequestsOwnLease
  BY <1>1 DEF OwnerHoldsGate, RequestsOwnLease, Granted, Holding, Owning
<1>4. CommandsMatchRequests /\ InjectionsAhead /\ KeyboardUnleased /\ InjectionUnderLease
  BY <1>2 DEF CommandsMatchRequests, InjectionsAhead, KeyboardUnleased, InjectionUnderLease
<1>5. TableLeases /\ NoOrphanLease
  BY <1>1 DEF TableLeases, NoOrphanLease
<1> QED BY <1>3, <1>4, <1>5 DEF LeaseInv

\* For any number of control clients that use only the leases granted to them:
\* at most one holds a lease, the gate is closed under it, bytes injected under
\* a lease reach the PTY while the gate is closed under that lease, and a
\* released lease cannot admit another injection.
THEOREM LeasesExclusive ==
    Spec => [](LeaseExclusion /\ InjectionUnderLease /\ NoOrphanLease)
<1> DEFINE Inv == TypeOK /\ (~SharedLeases => LeaseInv)
<1>1. Init => Inv
  BY InitTypeOK, InitLeaseInv
<1>2. Inv /\ [Next]_vars => Inv'
  <2> SUFFICES ASSUME Inv, [Next]_vars PROVE Inv'
    OBVIOUS
  <2>1. CASE UNCHANGED vars
    BY <2>1 DEF vars, TypeOK, LeaseInv, OwnerHoldsGate, RequestsOwnLease,
                CommandsMatchRequests, InjectionsAhead, KeyboardUnleased, TableLeases,
                InjectionUnderLease, NoOrphanLease, Granted, Holding, Owning, Injects
  <2>2. CASE PumpViewerInput \/ \E c \in Connections : Request(c) \/ Serve(c)
    BY <2>2, ClientTypeOK, ClientLeaseInv
  <2>3. CASE InputWriter
    BY <2>3, WorkerTypeOK, WorkerLeaseInv
  <2> QED BY <2>1, <2>2, <2>3 DEF Next
<1>3. Inv => LeaseExclusion /\ InjectionUnderLease /\ NoOrphanLease
  <2> SUFFICES ASSUME Inv PROVE LeaseExclusion /\ InjectionUnderLease /\ NoOrphanLease
    OBVIOUS
  <2>1. CASE SharedLeases
    BY <2>1 DEF LeaseExclusion, InjectionUnderLease, NoOrphanLease
  <2>2. CASE ~SharedLeases
    <3>1. OwnerHoldsGate /\ InjectionUnderLease /\ NoOrphanLease
      BY <2>2 DEF LeaseInv
    <3>2. \A c \in Connections : HoldsLease(c) => Holding(c) /\ Owning(c)
      BY DEF HoldsLease, Holding, Owning
    <3>3. LeaseExclusion
      BY <3>1, <3>2 DEF LeaseExclusion, OwnerHoldsGate
    <3> QED BY <3>1, <3>3
  <2> QED BY <2>1, <2>2
<1> QED BY <1>1, <1>2, <1>3, PTL DEF Spec

\* When no client uses a lease of another one, an injection reaches the PTY only
\* while the gate is closed under its own lease, though write_signal_injection
\* looks at the table and never at the gate.
COROLLARY InjectionsLeased == Spec => []InjectionUnderLease
<1> QED BY LeasesExclusive, PTL

\* When no client uses a lease of another one, the table of leases names none
\* that the gate has given up, but for one whose release is being answered.
COROLLARY TableNotStale == Spec => []NoOrphanLease
<1> QED BY LeasesExclusive, PTL
=============================================================================
