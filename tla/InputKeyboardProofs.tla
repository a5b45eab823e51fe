------------------------ MODULE InputKeyboardProofs ------------------------
(***************************************************************************)
(* Proofs about the keyboard bytes of the input plane: their order, their  *)
(* conservation, and what the gate holds back. They hold whatever leases   *)
(* the clients name.                                                       *)
(***************************************************************************)
EXTENDS InputPlaneProofs

\* A command that carries keyboard bytes.
Keyed(command) == command.op = "Write" /\ command.input.source = "Viewer"

\* The channel keeps the order of typing.
QueuedInOrder ==
    \A i, j \in DOMAIN inbox :
        i < j /\ Keyed(inbox[i]) /\ Keyed(inbox[j]) => inbox[i].input.id < inbox[j].input.id

\* The gate holds back nothing but keyboard bytes.
HeldFromKeyboard == \A i \in DOMAIN held : held[i].source = "Viewer"

\* Together these are inductive.
KeyboardInv ==
    /\ QueuedInOrder
    /\ HeldFromKeyboard
    /\ KeyboardOrder
    /\ KeyboardConserved
    /\ HeldOnlyWhileClosed

-----------------------------------------------------------------------------
(* Numbers of keyboard chunks.                                             *)

\* Membership in the sets of numbers, in terms of positions.
LEMMA IdsAt ==
    ASSUME NEW s, NEW x
    PROVE  x \in KeyboardIds(s) <=> \E i \in DOMAIN s : s[i].source = "Viewer" /\ s[i].id = x
BY DEF KeyboardIds

\* Membership in the set of the numbers in the channel, in terms of positions.
LEMMA QueuedAt ==
    /\ \A x : x \in QueuedKeyboardIds <=> \E i \in DOMAIN inbox : Keyed(inbox[i]) /\ inbox[i].input.id = x
    /\ \A x : x \in QueuedKeyboardIds' <=> \E i \in DOMAIN inbox' : Keyed(inbox'[i]) /\ inbox'[i].input.id = x
BY DEF QueuedKeyboardIds, Keyed

\* A chunk at the end adds its number, if it is one from the keyboard.
LEMMA AppendIds ==
    ASSUME NEW S, NEW s \in Seq(S), NEW e \in S
    PROVE  KeyboardIds(Append(s, e)) = KeyboardIds(s) \cup (IF e.source = "Viewer" THEN {e.id} ELSE {})
<1> DEFINE t == Append(s, e)
<1>1. /\ Len(s) \in Nat /\ DOMAIN s = 1 .. Len(s) /\ DOMAIN t = 1 .. (Len(s) + 1)
      /\ \A i \in DOMAIN s : t[i] = s[i] /\ i \in DOMAIN t
      /\ t[Len(s) + 1] = e
  OBVIOUS
<1> HIDE DEF t
<1>2. \A i \in DOMAIN t : i \in DOMAIN s \/ i = Len(s) + 1
  BY <1>1
<1>3. \A x : x \in KeyboardIds(t) <=> x \in KeyboardIds(s) \/ (e.source = "Viewer" /\ x = e.id)
  BY <1>1, <1>2, IdsAt
<1> QED BY <1>3 DEF t

\* The numbers of the first k chunks of a sequence, as they are written out.
LEMMA WrittenIds ==
    ASSUME NEW s \in Seq(Chunk), NEW k \in 0 .. Len(s), gate \in Nat,
           NEW w, w = [i \in 1 .. k |-> Written(s[i])]
    PROVE  /\ w \in Seq(WrittenChunk) /\ Len(w) = k
           /\ \A i \in 1 .. k : w[i].id = s[i].id /\ w[i].source = s[i].source
<1>1. \A i \in 1 .. k : s[i] \in Chunk
  OBVIOUS
<1>2. \A i \in 1 .. k : Written(s[i]) \in WrittenChunk
  BY <1>1, WrittenType
<1> QED BY <1>2 DEF Written

-----------------------------------------------------------------------------
(* Steps of clients.                                                       *)

\* What a client step does to the channel: nothing, or one command at its end,
\* which is the next keyboard chunk or has nothing to do with the keyboard.
ChannelGrows ==
    \/ inbox' = inbox /\ typed' = typed
    \/ \E command \in TerminalInputCommand :
          /\ inbox' = Append(inbox, command)
          /\ Keyed(command) => command.input.id = typed + 1 /\ typed' = typed + 1
          /\ ~Keyed(command) => typed' = typed

\* Submitting a command that carries no keyboard bytes.
LEMMA SubmitGrows ==
    ASSUME NEW c, NEW command \in TerminalInputCommand, NEW request, ~Keyed(command),
           Submit(c, command, request), typed' = typed
    PROVE  ChannelGrows
BY DEF Submit, ChannelGrows

\* A step of a client adds at most one command to the channel and leaves the worker alone.
LEMMA ClientChannel ==
    ASSUME TypeOK,
           \/ PumpViewerInput
           \/ \E c \in Connections : Request(c) \/ Serve(c)
    PROVE  ChannelGrows /\ UNCHANGED workerVars
<1>a. typed \in Nat /\ conn \in [Connections -> Conn] /\ holds \in [Connections -> Nat]
  BY DEF TypeOK
<1>b. \A c \in Connections : conn[c].lease \in Nat
  BY <1>a DEF Conn
<1>k. /\ [op |-> "Write", input |-> KeyboardChunk] \in TerminalInputCommand
      /\ KeyboardChunk.source = "Viewer" /\ KeyboardChunk.id = typed + 1
  <2>1. KeyboardChunk \in Chunk
    BY <1>a DEF KeyboardChunk, Chunk, Sources, NoLease
  <2> QED BY <2>1 DEF TerminalInputCommand, WriteCommand, KeyboardChunk
<1>c. \A c \in Connections :
        /\ [op |-> "CloseHumanInput", from |-> c] \in TerminalInputCommand
        /\ ~Keyed([op |-> "CloseHumanInput", from |-> c])
        /\ \A lease \in Nat :
             /\ [op |-> "OpenHumanInput", from |-> c, lease |-> lease] \in TerminalInputCommand
             /\ ~Keyed([op |-> "OpenHumanInput", from |-> c, lease |-> lease])
  BY DEF TerminalInputCommand, CloseCommand, OpenCommand, Keyed
<1>p. \A lease \in Nat :
        LET command == [op |-> "Write", input |-> [source |-> "Programmatic", id |-> 0, lease |-> lease]]
        IN  command \in TerminalInputCommand /\ ~Keyed(command)
  <2>1. \A lease \in Nat : [source |-> "Programmatic", id |-> 0, lease |-> lease] \in Chunk
    BY DEF Chunk, Sources
  <2> QED BY <2>1 DEF TerminalInputCommand, WriteCommand, Keyed
<1>1. CASE PumpViewerInput
  BY <1>1, <1>k DEF PumpViewerInput, ChannelGrows, Keyed
<1>2. ASSUME NEW c \in Connections, Request(c)
      PROVE  ChannelGrows /\ UNCHANGED workerVars
  <2>n. Nameable(c) \subseteq Nat
    BY <1>a, InputPlaneAssumption DEF Nameable, InputPlaneAssumption
  <2>1. ASSUME NEW source \in Sources, WriteInput(c, source)
        PROVE  ChannelGrows /\ UNCHANGED workerVars
    <3>1. CASE inbox' = Append(inbox, [op |-> "Write", input |-> KeyboardChunk]) /\ typed' = typed + 1
      BY <2>1, <3>1, <1>k DEF WriteInput, ChannelGrows, Keyed
    <3>2. CASE /\ inbox' = Append(inbox, [op |-> "Write",
                     input |-> [source |-> "Programmatic", id |-> 0, lease |-> NoLease]])
               /\ typed' = typed
      BY <2>1, <3>2, <1>p DEF WriteInput, ChannelGrows, NoLease
    <3> QED BY <2>1, <3>1, <3>2 DEF WriteInput
  <2>2. CASE CloseHumanInput(c)
    BY <2>2, <1>c, SubmitGrows DEF CloseHumanInput
  <2>3. ASSUME NEW lease \in Nameable(c), OpenHumanInput(c, lease)
        PROVE  ChannelGrows /\ UNCHANGED workerVars
    BY <2>3, <2>n, <1>c, SubmitGrows DEF OpenHumanInput
  <2>4. ASSUME NEW prompt \in PromptStates, SignalPromptState(c, prompt)
        PROVE  ChannelGrows /\ UNCHANGED workerVars
    BY <2>4 DEF SignalPromptState, ChannelGrows
  <2>5. ASSUME NEW lease \in Nameable(c), ReleaseSignalInputGate(c, lease)
        PROVE  ChannelGrows /\ UNCHANGED workerVars
    BY <2>5 DEF ReleaseSignalInputGate, ChannelGrows
  <2>6. ASSUME NEW lease \in Nameable(c), WriteSignalInjection(c, lease)
        PROVE  ChannelGrows /\ UNCHANGED workerVars
    BY <2>6 DEF WriteSignalInjection, ChannelGrows
  <2> QED BY <1>2, <2>1, <2>2, <2>3, <2>4, <2>5, <2>6 DEF Request
<1>3. ASSUME NEW c \in Connections, Serve(c)
      PROVE  ChannelGrows /\ UNCHANGED workerVars
  <2>1. CASE AcquireSignalInputGate(c)
    BY <2>1, <1>c, SubmitGrows DEF AcquireSignalInputGate, clientVars
  <2>2. CASE RecordLease(c)
    BY <2>2 DEF RecordLease, ChannelGrows
  <2>3. CASE SendSignalRelease(c)
    BY <2>3, <1>b, <1>c, SubmitGrows DEF SendSignalRelease, clientVars
  <2>4. CASE ForgetLease(c)
    BY <2>4 DEF ForgetLease, ChannelGrows
  <2>5. CASE AcceptInjection(c)
    BY <2>5, <1>b, <1>p, SubmitGrows DEF AcceptInjection, clientVars
  <2> QED BY <1>3, <2>1, <2>2, <2>3, <2>4, <2>5 DEF Serve
<1> QED BY <1>1, <1>2, <1>3

\* Client steps keep the invariant: a new keyboard chunk has the largest number.
LEMMA ClientKeyboardInv ==
    ASSUME TypeOK, KeyboardInv, ChannelGrows, UNCHANGED workerVars
    PROVE  KeyboardInv'
<1>a. inbox \in Seq(TerminalInputCommand) /\ typed \in Nat
  BY DEF TypeOK
<1>b. gate' = gate /\ held' = held /\ pty' = pty /\ lost' = lost
  BY DEF workerVars
<1>u. HeldFromKeyboard' /\ HeldOnlyWhileClosed' /\ KeyboardIds(pty)' = KeyboardIds(pty)
        /\ KeyboardIds(held)' = KeyboardIds(held) /\ InOrder(pty)' /\ InOrder(held)'
  BY <1>b DEF KeyboardInv, HeldFromKeyboard, HeldOnlyWhileClosed, KeyboardIds, KeyboardOrder, InOrder
<1>1. CASE inbox' = inbox /\ typed' = typed
  <2>1. QueuedKeyboardIds' = QueuedKeyboardIds /\ QueuedInOrder'
    BY <1>1 DEF KeyboardInv, QueuedKeyboardIds, QueuedInOrder
  <2> QED BY <1>1, <1>b, <1>u, <2>1 DEF KeyboardInv, KeyboardOrder, KeyboardConserved
<1>2. ASSUME NEW command \in TerminalInputCommand, inbox' = Append(inbox, command),
             Keyed(command) => command.input.id = typed + 1 /\ typed' = typed + 1,
             ~Keyed(command) => typed' = typed
      PROVE  KeyboardInv'
  <2> DEFINE n == Len(inbox)
  <2>1. /\ n \in Nat /\ DOMAIN inbox = 1 .. n /\ DOMAIN inbox' = 1 .. (n + 1)
        /\ \A i \in 1 .. n : inbox'[i] = inbox[i]
        /\ inbox'[n + 1] = command
    BY <1>2, <1>a
  <2> HIDE DEF n
  <2>2. \A x : x \in QueuedKeyboardIds' <=>
                 x \in QueuedKeyboardIds \/ (Keyed(command) /\ x = command.input.id)
    <3>1. \A i \in DOMAIN inbox' : i \in DOMAIN inbox \/ i = n + 1
      BY <2>1
    <3>2. \A i \in DOMAIN inbox : i \in DOMAIN inbox' /\ inbox'[i] = inbox[i]
      BY <2>1
    <3>3. n + 1 \in DOMAIN inbox'
      BY <2>1
    <3> QED BY <3>1, <3>2, <3>3, <2>1, QueuedAt
  <2>3. KeyboardConserved'
    <3>1. KeyboardIds(pty) \cup KeyboardIds(held) \cup QueuedKeyboardIds' \cup lost = 1 .. typed'
      <4>1. CASE Keyed(command)
        BY <4>1, <1>2, <2>2, <1>a DEF KeyboardInv, KeyboardConserved
      <4>2. CASE ~Keyed(command)
        BY <4>2, <1>2, <2>2 DEF KeyboardInv, KeyboardConserved
      <4> QED BY <4>1, <4>2
    <3> QED BY <3>1, <1>b, <1>u DEF KeyboardConserved
  <2>4. \A x \in KeyboardIds(pty) \cup KeyboardIds(held) \cup QueuedKeyboardIds : x \in Nat /\ x <= typed
    BY <1>a DEF KeyboardInv, KeyboardConserved
  <2>5. KeyboardOrder'
    BY <1>2, <1>a, <1>u, <2>2, <2>4 DEF KeyboardInv, KeyboardOrder
  <2>6. QueuedInOrder'
    <3> SUFFICES ASSUME NEW i \in DOMAIN inbox', NEW j \in DOMAIN inbox', i < j,
                        Keyed(inbox'[i]), Keyed(inbox'[j])
                 PROVE  inbox'[i].input.id < inbox'[j].input.id
      BY DEF QueuedInOrder
    <3>1. i \in DOMAIN inbox /\ inbox'[i] = inbox[i]
      BY <2>1
    <3>2. CASE j = n + 1
      <4>1. inbox[i].input.id \in QueuedKeyboardIds
        BY <3>1, QueuedAt
      <4> QED BY <4>1, <3>1, <3>2, <2>1, <2>4, <1>2, <1>a
    <3>3. CASE j # n + 1
      <4>1. j \in DOMAIN inbox /\ inbox'[j] = inbox[j]
        BY <3>3, <2>1
      <4> QED BY <4>1, <3>1 DEF KeyboardInv, QueuedInOrder
    <3> QED BY <3>2, <3>3
  <2> QED BY <1>u, <2>3, <2>5, <2>6 DEF KeyboardInv
<1> QED BY <1>1, <1>2 DEF ChannelGrows

-----------------------------------------------------------------------------
(* Steps of the worker.                                                    *)

\* Taking the first command out of the channel takes out the oldest keyboard
\* chunk there, or none.
LEMMA TakenKeyboard ==
    ASSUME TypeOK, QueuedInOrder, inbox # <<>>, inbox' = Tail(inbox)
    PROVE  /\ QueuedInOrder'
           /\ \A x : x \in QueuedKeyboardIds <=>
                    x \in QueuedKeyboardIds' \/ (Keyed(Head(inbox)) /\ x = Head(inbox).input.id)
           /\ Keyed(Head(inbox)) => \A x \in QueuedKeyboardIds' : Head(inbox).input.id < x
<1> DEFINE n == Len(inbox)
<1>1. /\ n \in Nat \ {0} /\ DOMAIN inbox = 1 .. n /\ DOMAIN inbox' = 1 .. (n - 1)
      /\ \A i \in 1 .. (n - 1) : inbox'[i] = inbox[i + 1]
      /\ Head(inbox) = inbox[1]
  BY DEF TypeOK
<1> HIDE DEF n
<1>2. \A i \in DOMAIN inbox' : i \in Nat /\ i + 1 \in DOMAIN inbox /\ 1 < i + 1 /\ inbox'[i] = inbox[i + 1]
  BY <1>1
<1>3. \A i \in DOMAIN inbox : i = 1 \/ (i - 1 \in DOMAIN inbox' /\ inbox'[i - 1] = inbox[i])
  BY <1>1
<1>4. 1 \in DOMAIN inbox
  BY <1>1
<1>5. QueuedInOrder'
  <2> SUFFICES ASSUME NEW i \in DOMAIN inbox', NEW j \in DOMAIN inbox', i < j,
                      Keyed(inbox'[i]), Keyed(inbox'[j])
               PROVE  inbox'[i].input.id < inbox'[j].input.id
    BY DEF QueuedInOrder
  <2>1. i + 1 < j + 1
    BY <1>2
  <2> QED BY <1>2, <2>1 DEF QueuedInOrder
<1>6. \A x : x \in QueuedKeyboardIds <=>
               x \in QueuedKeyboardIds' \/ (Keyed(Head(inbox)) /\ x = Head(inbox).input.id)
  <2>1. ASSUME NEW x \in QueuedKeyboardIds
        PROVE  x \in QueuedKeyboardIds' \/ (Keyed(Head(inbox)) /\ x = Head(inbox).input.id)
    <3>1. PICK i \in DOMAIN inbox : Keyed(inbox[i]) /\ inbox[i].input.id = x
      BY <2>1, QueuedAt
    <3>2. CASE i = 1
      BY <3>1, <3>2, <1>1
    <3>3. CASE i # 1
      <4>1. i - 1 \in DOMAIN inbox' /\ inbox'[i - 1] = inbox[i]
        BY <3>3, <1>3
      <4> QED BY <3>1, <4>1, QueuedAt
    <3> QED BY <3>2, <3>3
  <2>2. ASSUME NEW x \in QueuedKeyboardIds' PROVE x \in QueuedKeyboardIds
    <3>1. PICK i \in DOMAIN inbox' : Keyed(inbox'[i]) /\ inbox'[i].input.id = x
      BY <2>2, QueuedAt
    <3>2. i + 1 \in DOMAIN inbox /\ inbox'[i] = inbox[i + 1]
      BY <1>2
    <3> QED BY <3>1, <3>2, QueuedAt
  <2>3. Keyed(Head(inbox)) => Head(inbox).input.id \in QueuedKeyboardIds
    BY <1>1, <1>4, QueuedAt
  <2> QED BY <2>1, <2>2, <2>3
<1>7. ASSUME Keyed(Head(inbox)), NEW x \in QueuedKeyboardIds' PROVE Head(inbox).input.id < x
  <2>1. PICK i \in DOMAIN inbox' : Keyed(inbox'[i]) /\ inbox'[i].input.id = x
    BY <1>7, QueuedAt
  <2> QED BY <1>1, <1>2, <1>4, <1>7, <2>1 DEF QueuedInOrder
<1> QED BY <1>5, <1>6, <1>7

\* Writing out the first k held chunks puts their numbers on the PTY, in order.
LEMMA FlushedKeyboard ==
    ASSUME TypeOK, KeyboardInv, NEW k \in 0 .. Len(held),
           pty' = pty \o [i \in 1 .. k |-> Written(held[i])]
    PROVE  /\ InOrder(pty)'
           /\ \A x : x \in KeyboardIds(pty)' <=>
                    x \in KeyboardIds(pty) \/ \E i \in 1 .. k : x = held[i].id
<1> DEFINE w == [i \in 1 .. k |-> Written(held[i])]
           n == Len(pty)
<1>1. held \in Seq(Chunk) /\ gate \in Nat /\ pty \in Seq(WrittenChunk) /\ n \in Nat /\ k \in Nat
  BY DEF TypeOK
<1>2. /\ w \in Seq(WrittenChunk) /\ Len(w) = k
      /\ \A i \in 1 .. k : w[i].id = held[i].id /\ w[i].source = held[i].source
  BY <1>1, WrittenIds
<1>3. /\ DOMAIN pty = 1 .. n /\ DOMAIN pty' = 1 .. (n + k) /\ DOMAIN held = 1 .. Len(held)
      /\ \A i \in 1 .. n : pty'[i] = pty[i]
      /\ \A i \in (n + 1) .. (n + k) : pty'[i] = w[i - n]
  BY <1>1, <1>2
<1> HIDE DEF w, n
<1>4. ASSUME NEW i \in 1 .. k
      PROVE  /\ i \in DOMAIN held /\ held[i].source = "Viewer" /\ w[i].source = "Viewer"
             /\ held[i].id \in KeyboardIds(held)
  <2>1. i \in DOMAIN held
    BY <1>1, <1>3
  <2>2. held[i].source = "Viewer"
    BY <2>1 DEF KeyboardInv, HeldFromKeyboard
  <2> QED BY <2>1, <2>2, <1>2, IdsAt
<1>5. ASSUME NEW i \in DOMAIN pty'
      PROVE  \/ i \in DOMAIN pty /\ pty'[i] = pty[i]
             \/ i \notin DOMAIN pty /\ i - n \in 1 .. k /\ pty'[i] = w[i - n]
  <2>1. i \in 1 .. (n + k)
    BY <1>3
  <2>2. CASE i <= n
    <3>1. i \in 1 .. n
      BY <2>1, <2>2, <1>1
    <3> QED BY <3>1, <1>3
  <2>3. CASE ~(i <= n)
    <3>1. i \in (n + 1) .. (n + k) /\ i \notin 1 .. n /\ i - n \in 1 .. k
      BY <2>1, <2>3, <1>1
    <3> QED BY <3>1, <1>3
  <2> QED BY <2>2, <2>3
<1>6. InOrder(pty)'
  <2> SUFFICES ASSUME NEW i \in DOMAIN pty', NEW j \in DOMAIN pty', i < j,
                      pty'[i].source = "Viewer", pty'[j].source = "Viewer"
               PROVE  pty'[i].id < pty'[j].id
    BY DEF InOrder
  <2>1. CASE i \in DOMAIN pty /\ j \in DOMAIN pty
    BY <2>1, <1>5 DEF KeyboardInv, KeyboardOrder, InOrder
  <2>2. CASE i \in DOMAIN pty /\ j \notin DOMAIN pty
    <3>1. pty'[i] = pty[i] /\ j - n \in 1 .. k /\ pty'[j] = w[j - n]
      BY <2>2, <1>5
    <3>2. pty[i].id \in KeyboardIds(pty)
      BY <2>2, <3>1, IdsAt
    <3> QED BY <3>1, <3>2, <1>2, <1>4 DEF KeyboardInv, KeyboardOrder
  <2>3. CASE i \notin DOMAIN pty /\ j \in DOMAIN pty
    BY <2>3, <1>1, <1>3
  <2>4. CASE i \notin DOMAIN pty /\ j \notin DOMAIN pty
    <3>1. /\ i - n \in 1 .. k /\ pty'[i] = w[i - n] /\ j - n \in 1 .. k /\ pty'[j] = w[j - n]
      BY <2>4, <1>5
    <3>2. i - n < j - n
      BY <1>1, <1>3
    <3>3. held[i - n].id < held[j - n].id
      <4>1. \A a, b \in DOMAIN held :
               a < b /\ held[a].source = "Viewer" /\ held[b].source = "Viewer" => held[a].id < held[b].id
        BY DEF KeyboardInv, KeyboardOrder, InOrder
      <4> QED BY <1>4, <3>1, <3>2, <4>1
    <3> QED BY <1>2, <3>1, <3>3
  <2> QED BY <2>1, <2>2, <2>3, <2>4
<1>7. ASSUME NEW x PROVE  x \in KeyboardIds(pty') <=> x \in KeyboardIds(pty) \/ \E i \in 1 .. k : x = held[i].id
  <2>1. ASSUME x \in KeyboardIds(pty')
        PROVE  x \in KeyboardIds(pty) \/ \E i \in 1 .. k : x = held[i].id
    <3>1. PICK i \in DOMAIN pty' : pty'[i].source = "Viewer" /\ pty'[i].id = x
      BY <2>1, IdsAt
    <3>2. CASE i \in DOMAIN pty
      BY <3>1, <3>2, <1>5, IdsAt
    <3>3. CASE i \notin DOMAIN pty
      BY <3>1, <3>3, <1>5, <1>2
    <3> QED BY <3>2, <3>3
  <2>2. ASSUME x \in KeyboardIds(pty)
        PROVE  x \in KeyboardIds(pty')
    <3>1. PICK i \in DOMAIN pty : pty[i].source = "Viewer" /\ pty[i].id = x
      BY <2>2, IdsAt
    <3>2. i \in DOMAIN pty' /\ pty'[i] = pty[i]
      BY <1>1, <1>3
    <3> QED BY <3>1, <3>2, IdsAt
  <2>3. ASSUME NEW i \in 1 .. k
        PROVE  held[i].id \in KeyboardIds(pty')
    <3>1. n + i \in DOMAIN pty' /\ n + i \in (n + 1) .. (n + k) /\ (n + i) - n = i
      BY <1>1, <1>3
    <3>2. pty'[n + i] = w[i]
      BY <1>3, <3>1
    <3>3. pty'[n + i].source = "Viewer" /\ pty'[n + i].id = held[i].id
      BY <3>2, <1>2, <1>4
    <3> QED BY <3>1, <3>3, IdsAt
  <2> QED BY <2>1, <2>2, <2>3
<1> QED BY <1>6, <1>7

\* The worker keeps the invariant: what it writes is the oldest there is, and a
\* flush ends the hold.
LEMMA WorkerKeyboardInv ==
    ASSUME TypeOK, TypeOK', KeyboardInv, InputWriter
    PROVE  KeyboardInv'
<1> USE DEF KeyboardInv
<1>a. /\ held \in Seq(Chunk) /\ pty \in Seq(WrittenChunk) /\ gate \in Nat /\ typed \in Nat
      /\ Len(held) \in Nat /\ DOMAIN held = 1 .. Len(held)
  BY DEF TypeOK
<1>n. \A x \in KeyboardIds(pty) \cup KeyboardIds(held) \cup QueuedKeyboardIds : x \in Nat
  BY <1>a DEF KeyboardConserved
<1>1. CASE HandleWrite
  <2> DEFINE chunk == Head(inbox).input
  <2>1. /\ inbox # <<>> /\ inbox' = Tail(inbox) /\ Head(inbox).op = "Write" /\ chunk \in Chunk
        /\ gate' = gate /\ lost' = lost /\ typed' = typed
    BY <1>1, HeadCommand DEF HandleWrite, Taking, clientVars
  <2>2. /\ QueuedInOrder'
        /\ \A x : x \in QueuedKeyboardIds <=>
                 x \in QueuedKeyboardIds' \/ (chunk.source = "Viewer" /\ x = chunk.id)
        /\ chunk.source = "Viewer" => \A x \in QueuedKeyboardIds' : chunk.id < x
    BY <2>1, TakenKeyboard DEF Keyed
  <2>3. Written(chunk) \in WrittenChunk /\ Written(chunk).id = chunk.id /\ Written(chunk).source = chunk.source
    BY <2>1, <1>a, WrittenType DEF Written
  <2>4. CASE Holds(chunk)
    <3>1. held' = Append(held, chunk) /\ pty' = pty /\ gate # NoLease /\ chunk.source = "Viewer"
      BY <1>1, <2>4 DEF HandleWrite, Holds
    <3> HIDE DEF chunk
    <3>2. KeyboardIds(held') = KeyboardIds(held) \cup {chunk.id}
      BY <3>1, <2>1, <1>a, AppendIds
    <3>3. /\ DOMAIN held' = 1 .. (Len(held) + 1) /\ held'[Len(held) + 1] = chunk
          /\ \A i \in 1 .. Len(held) : held'[i] = held[i]
      BY <3>1, <2>1, <1>a
    <3>4. \A x \in KeyboardIds(held) : x < chunk.id
      BY <2>2, <3>1 DEF KeyboardOrder
    <3>5. InOrder(held)'
      <4> SUFFICES ASSUME NEW i \in DOMAIN held', NEW j \in DOMAIN held', i < j,
                          held'[i].source = "Viewer", held'[j].source = "Viewer"
                   PROVE  held'[i].id < held'[j].id
        BY DEF InOrder
      <4>1. i \in DOMAIN held /\ held'[i] = held[i]
        BY <3>3, <1>a
      <4>2. held[i].id \in KeyboardIds(held)
        BY <4>1, IdsAt
      <4>3. CASE j = Len(held) + 1
        BY <4>1, <4>2, <4>3, <3>3, <3>4
      <4>4. CASE j # Len(held) + 1
        BY <4>1, <4>4, <3>3, <1>a DEF KeyboardOrder, InOrder
      <4> QED BY <4>3, <4>4
    <3>6. HeldFromKeyboard'
      BY <3>1, <3>3, <1>a DEF HeldFromKeyboard
    <3>7. KeyboardOrder'
      BY <3>1, <3>2, <3>4, <3>5, <2>2, <1>n DEF KeyboardOrder, InOrder
    <3>8. KeyboardConserved'
      BY <3>1, <3>2, <2>1, <2>2 DEF KeyboardConserved
    <3> QED BY <3>1, <3>6, <3>7, <3>8, <2>1, <2>2 DEF HeldOnlyWhileClosed
  <2>5. CASE ~Holds(chunk)
    <3>1. held' = held /\ pty' = Append(pty, Written(chunk))
      BY <1>1, <2>5 DEF HandleWrite
    <3>2. chunk.source = "Viewer" => held = <<>>
      BY <2>5 DEF Holds, HeldOnlyWhileClosed
    <3> DEFINE written == Written(chunk)
    <3> HIDE DEF chunk, written
    <3>3. KeyboardIds(pty') = KeyboardIds(pty) \cup (IF chunk.source = "Viewer" THEN {chunk.id} ELSE {})
      BY <3>1, <2>3, <1>a, AppendIds DEF written
    <3>4. /\ DOMAIN pty' = 1 .. (Len(pty) + 1) /\ pty'[Len(pty) + 1] = written
          /\ \A i \in 1 .. Len(pty) : pty'[i] = pty[i]
          /\ Len(pty) \in Nat /\ DOMAIN pty = 1 .. Len(pty)
      BY <3>1, <2>3, <1>a DEF written
    <3>5. InOrder(pty)'
      <4> SUFFICES ASSUME NEW i \in DOMAIN pty', NEW j \in DOMAIN pty', i < j,
                          pty'[i].source = "Viewer", pty'[j].source = "Viewer"
                   PROVE  pty'[i].id < pty'[j].id
        BY DEF InOrder
      <4>1. i \in DOMAIN pty /\ pty'[i] = pty[i]
        BY <3>4
      <4>2. pty[i].id \in KeyboardIds(pty)
        BY <4>1, IdsAt
      <4>3. CASE j = Len(pty) + 1
        <5>1. chunk.source = "Viewer" /\ chunk.id \in QueuedKeyboardIds /\ pty'[j].id = chunk.id
          BY <4>3, <3>4, <2>2, <2>3 DEF written
        <5> QED BY <4>1, <4>2, <5>1 DEF KeyboardOrder
      <4>4. CASE j # Len(pty) + 1
        BY <4>1, <4>4, <3>4 DEF KeyboardOrder, InOrder
      <4> QED BY <4>3, <4>4
    <3>6. KeyboardOrder'
      <4>1. chunk.source = "Viewer" => KeyboardIds(held) = {}
        BY <3>2 DEF KeyboardIds
      <4> QED BY <3>1, <3>3, <3>5, <4>1, <2>2 DEF KeyboardOrder, InOrder
    <3>7. KeyboardConserved'
      BY <3>1, <3>3, <2>1, <2>2 DEF KeyboardConserved
    <3> QED BY <3>1, <3>6, <3>7, <2>1, <2>2 DEF HeldOnlyWhileClosed, HeldFromKeyboard
  <2> QED BY <2>4, <2>5
<1>2. CASE HandleWriteFails
  <2>1. /\ inbox' = <<>> /\ held' = <<>> /\ pty' = pty /\ typed' = typed
        /\ lost' = lost \cup KeyboardIds(held) \cup QueuedKeyboardIds
    BY <1>2 DEF HandleWriteFails, clientVars
  <2>2. QueuedKeyboardIds' = {} /\ KeyboardIds(held') = {}
    BY <2>1 DEF QueuedKeyboardIds, KeyboardIds
  <2>3. QueuedInOrder' /\ HeldFromKeyboard' /\ HeldOnlyWhileClosed' /\ InOrder(held')
    BY <2>1 DEF QueuedInOrder, HeldFromKeyboard, HeldOnlyWhileClosed, InOrder
  <2>4. KeyboardConserved'
    BY <2>1, <2>2 DEF KeyboardConserved
  <2>5. KeyboardOrder'
    BY <2>1, <2>2, <2>3 DEF KeyboardOrder, InOrder
  <2> QED BY <2>3, <2>4, <2>5
<1>q. ASSUME inbox # <<>>, Head(inbox).op # "Write", inbox' = Tail(inbox)
      PROVE  QueuedInOrder' /\ QueuedKeyboardIds' = QueuedKeyboardIds
  <2>1. \A x : x \in QueuedKeyboardIds <=> x \in QueuedKeyboardIds'
    BY <1>q, TakenKeyboard DEF Keyed
  <2> QED BY <1>q, <2>1, TakenKeyboard
<1>3. CASE HandleClose
  <2>1. /\ QueuedInOrder' /\ QueuedKeyboardIds' = QueuedKeyboardIds
        /\ held' = held /\ pty' = pty /\ lost' = lost /\ typed' = typed
    BY <1>3, <1>q DEF HandleClose, Taking, clientVars
  <2>2. HeldOnlyWhileClosed'
    BY <1>3, <2>1 DEF HandleClose, HeldOnlyWhileClosed, TypeOK, NoLease
  <2> QED BY <2>1, <2>2 DEF HeldFromKeyboard, KeyboardOrder, KeyboardConserved, InOrder, KeyboardIds
<1>4. CASE HandleOpen
  <2>1. /\ QueuedInOrder' /\ QueuedKeyboardIds' = QueuedKeyboardIds
        /\ held' = <<>> /\ lost' = lost /\ typed' = typed
        /\ pty' = pty \o [i \in 1 .. Len(held) |-> Written(held[i])]
    BY <1>4, <1>q DEF HandleOpen, Taking, clientVars
  <2>2. /\ InOrder(pty)'
        /\ \A x : x \in KeyboardIds(pty)' <=>
                 x \in KeyboardIds(pty) \/ \E i \in 1 .. Len(held) : x = held[i].id
    <3>1. Len(held) \in 0 .. Len(held)
      BY <1>a
    <3> QED BY <2>1, <3>1, FlushedKeyboard
  <2>3. KeyboardIds(pty)' = KeyboardIds(pty) \cup KeyboardIds(held)
    <3>1. \A x : x \in KeyboardIds(held) <=> \E i \in 1 .. Len(held) : x = held[i].id
      BY <1>a, IdsAt DEF HeldFromKeyboard
    <3> QED BY <3>1, <2>2
  <2>4. KeyboardIds(held)' = {} /\ InOrder(held)' /\ HeldFromKeyboard' /\ HeldOnlyWhileClosed'
    BY <2>1 DEF KeyboardIds, InOrder, HeldFromKeyboard, HeldOnlyWhileClosed
  <2>5. KeyboardOrder'
    BY <2>1, <2>2, <2>3, <2>4 DEF KeyboardOrder
  <2>6. KeyboardConserved'
    BY <2>1, <2>3, <2>4 DEF KeyboardConserved
  <2> QED BY <2>1, <2>4, <2>5, <2>6
<1>5. CASE HandleOpenStale
  <2>1. /\ QueuedInOrder' /\ QueuedKeyboardIds' = QueuedKeyboardIds
        /\ held' = held /\ pty' = pty /\ lost' = lost /\ typed' = typed /\ gate' = gate
    BY <1>5, <1>q DEF HandleOpenStale, Taking, clientVars, workerVars
  <2> QED BY <2>1 DEF HeldFromKeyboard, HeldOnlyWhileClosed, KeyboardOrder, KeyboardConserved, InOrder, KeyboardIds
<1>6. ASSUME NEW k \in DOMAIN held, HandleOpenFlushFails(k)
      PROVE  KeyboardInv'
  <2>1. /\ QueuedInOrder' /\ QueuedKeyboardIds' = QueuedKeyboardIds
        /\ held' = SubSeq(held, k + 1, Len(held)) /\ lost' = lost \cup {held[k].id} /\ typed' = typed
        /\ pty' = pty \o [i \in 1 .. (k - 1) |-> Written(held[i])]
        /\ gate' = gate /\ gate # NoLease
    BY <1>6, <1>q DEF HandleOpenFlushFails, Taking, clientVars
  <2>2. k - 1 \in 0 .. Len(held) /\ k \in 1 .. Len(held)
    BY <1>a
  <2>3. /\ InOrder(pty)'
        /\ \A x : x \in KeyboardIds(pty)' <=>
                 x \in KeyboardIds(pty) \/ \E i \in 1 .. (k - 1) : x = held[i].id
    BY <2>1, <2>2, FlushedKeyboard
  <2>4. /\ DOMAIN held' = 1 .. (Len(held) - k)
        /\ \A i \in 1 .. (Len(held) - k) : held'[i] = held[i + k] /\ i + k \in DOMAIN held
    BY <2>1, <2>2, <1>a
  <2>5. \A x : x \in KeyboardIds(held') <=> \E i \in (k + 1) .. Len(held) : x = held[i].id
    <3>1. \A i \in (k + 1) .. Len(held) : i - k \in DOMAIN held' /\ held'[i - k] = held[i] /\ held[i].source = "Viewer"
      BY <2>2, <2>4, <1>a DEF HeldFromKeyboard
    <3>2. \A i \in DOMAIN held' : i + k \in (k + 1) .. Len(held) /\ held'[i] = held[i + k]
      BY <2>2, <2>4, <1>a
    <3>3. ASSUME NEW x \in KeyboardIds(held') PROVE \E i \in (k + 1) .. Len(held) : x = held[i].id
      <4>1. PICK i \in DOMAIN held' : held'[i].source = "Viewer" /\ held'[i].id = x
        BY <3>3, IdsAt
      <4> QED BY <4>1, <3>2
    <3>4. ASSUME NEW i \in (k + 1) .. Len(held) PROVE held[i].id \in KeyboardIds(held')
      <4>1. i - k \in DOMAIN held' /\ held'[i - k].source = "Viewer" /\ held'[i - k].id = held[i].id
        BY <3>1
      <4> QED BY <4>1, IdsAt
    <3> QED BY <3>3, <3>4
  <2>6. \A i \in 1 .. Len(held) : held[i].source = "Viewer" /\ held[i].id \in KeyboardIds(held)
    BY <1>a, IdsAt DEF HeldFromKeyboard
  <2>7. \A i, j \in 1 .. Len(held) : i < j => held[i].id < held[j].id
    BY <2>6, <1>a DEF KeyboardOrder, InOrder
  <2>8. HeldFromKeyboard' /\ HeldOnlyWhileClosed'
    BY <2>1, <2>4 DEF HeldFromKeyboard, HeldOnlyWhileClosed
  <2>9. InOrder(held)'
    <3> SUFFICES ASSUME NEW i \in DOMAIN held', NEW j \in DOMAIN held', i < j
                 PROVE  held'[i].id < held'[j].id
      BY DEF InOrder
    <3>1. i + k < j + k /\ i + k \in 1 .. Len(held) /\ j + k \in 1 .. Len(held)
      BY <2>2, <2>4, <1>a
    <3> QED BY <2>4, <2>7, <3>1
  <2>10. KeyboardConserved'
    <3>1. \A x : x \in KeyboardIds(held) <=>
                   \/ \E i \in 1 .. (k - 1) : x = held[i].id
                   \/ x = held[k].id
                   \/ \E i \in (k + 1) .. Len(held) : x = held[i].id
      <4>1. \A i \in 1 .. Len(held) : i \in 1 .. (k - 1) \/ i = k \/ i \in (k + 1) .. Len(held)
        BY <2>2
      <4>2. \A i \in 1 .. (k - 1) : i \in 1 .. Len(held)
        BY <2>2
      <4>3. \A i \in (k + 1) .. Len(held) : i \in 1 .. Len(held)
        BY <2>2
      <4> QED BY <4>1, <4>2, <4>3, <2>2, <2>6, <1>a, IdsAt
    <3> QED BY <3>1, <2>1, <2>3, <2>5 DEF KeyboardConserved
  <2>11. KeyboardOrder'
    <3>1. ASSUME NEW x \in KeyboardIds(pty'), NEW y \in KeyboardIds(held') PROVE x < y
      <4>1. PICK j \in (k + 1) .. Len(held) : y = held[j].id
        BY <2>5
      <4>2. j \in 1 .. Len(held)
        BY <2>2
      <4>3. CASE x \in KeyboardIds(pty)
        BY <4>1, <4>2, <4>3, <2>6 DEF KeyboardOrder
      <4>4. CASE \E i \in 1 .. (k - 1) : x = held[i].id
        <5>1. PICK i \in 1 .. (k - 1) : x = held[i].id
          BY <4>4
        <5>2. i \in 1 .. Len(held) /\ i < j
          BY <2>2, <4>2
        <5> QED BY <4>1, <4>2, <5>1, <5>2, <2>7
      <4> QED BY <4>3, <4>4, <2>3
    <3>2. ASSUME NEW x \in KeyboardIds(pty') \cup KeyboardIds(held'), NEW y \in QueuedKeyboardIds'
          PROVE x < y
      <4>1. \A i \in 1 .. (k - 1) : i \in 1 .. Len(held)
        BY <2>2
      <4>2. \A i \in (k + 1) .. Len(held) : i \in 1 .. Len(held)
        BY <2>2
      <4>3. x \in KeyboardIds(pty) \cup KeyboardIds(held)
        BY <4>1, <4>2, <2>3, <2>5, <2>6
      <4> QED BY <4>3, <2>1 DEF KeyboardOrder
    <3> QED BY <3>1, <3>2, <2>3, <2>9 DEF KeyboardOrder
  <2> QED BY <2>1, <2>8, <2>9, <2>10, <2>11
<1> QED BY <1>1, <1>2, <1>3, <1>4, <1>5, <1>6 DEF InputWriter

-----------------------------------------------------------------------------
(* Theorems.                                                               *)

LEMMA KeyboardInvariant == Spec => [](TypeOK /\ KeyboardInv)
<1>1. Init => TypeOK /\ KeyboardInv
  BY InitTypeOK DEF Init, KeyboardInv, QueuedInOrder, HeldFromKeyboard, KeyboardOrder, InOrder,
                    KeyboardConserved, HeldOnlyWhileClosed, KeyboardIds, QueuedKeyboardIds
<1>2. TypeOK /\ KeyboardInv /\ [Next]_vars => (TypeOK /\ KeyboardInv)'
  <2> SUFFICES ASSUME TypeOK, KeyboardInv, [Next]_vars PROVE TypeOK' /\ KeyboardInv'
    OBVIOUS
  <2>1. CASE UNCHANGED vars
    <3>1. TypeOK'
      BY <2>1 DEF vars, TypeOK
    <3>2. QueuedInOrder' /\ HeldFromKeyboard' /\ HeldOnlyWhileClosed'
      BY <2>1 DEF vars, KeyboardInv, QueuedInOrder, HeldFromKeyboard, HeldOnlyWhileClosed
    <3>3. KeyboardOrder'
      BY <2>1 DEF vars, KeyboardInv, KeyboardOrder, InOrder, KeyboardIds, QueuedKeyboardIds
    <3>4. KeyboardConserved'
      BY <2>1 DEF vars, KeyboardInv, KeyboardConserved, KeyboardIds, QueuedKeyboardIds
    <3> QED BY <3>1, <3>2, <3>3, <3>4 DEF KeyboardInv
  <2>2. CASE PumpViewerInput \/ \E c \in Connections : Request(c) \/ Serve(c)
    BY <2>2, ClientTypeOK, ClientChannel, ClientKeyboardInv
  <2>3. CASE InputWriter
    BY <2>3, WorkerTypeOK, WorkerKeyboardInv
  <2> QED BY <2>1, <2>2, <2>3 DEF Next
<1> QED BY <1>1, <1>2, PTL DEF Spec

\* Keyboard bytes reach the child in the order the port accepted them and none
\* twice, whatever the gate, the flushes and their failures did in between.
THEOREM KeyboardInOrder == Spec => []KeyboardOrder
<1>1. KeyboardInv => KeyboardOrder
  BY DEF KeyboardInv
<1> QED BY <1>1, KeyboardInvariant, PTL

\* No keyboard chunk disappears but through a failed PTY write.
THEOREM KeyboardNotLost == Spec => []KeyboardConserved
<1>1. KeyboardInv => KeyboardConserved
  BY DEF KeyboardInv
<1> QED BY <1>1, KeyboardInvariant, PTL

\* An open gate holds nothing back: every way to open it flushes first.
THEOREM OpenGateHoldsNothing == Spec => []HeldOnlyWhileClosed
<1>1. KeyboardInv => HeldOnlyWhileClosed
  BY DEF KeyboardInv
<1> QED BY <1>1, KeyboardInvariant, PTL
=============================================================================
