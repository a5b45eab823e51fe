------------------------- MODULE TerminalCellProofs -------------------------
(***************************************************************************)
(* Proofs about the TerminalCell actor, for any callers, workers, texts,   *)
(* chunk sizes and capacities, and however the actor ends.                 *)
(***************************************************************************)
EXTENDS TerminalCell, TerminalTranscriptProofs

-----------------------------------------------------------------------------
(* The inductive invariant.                                                *)

Scrollback == [deltas |-> deltas, retained |-> retained]

\* The transcript is a full window, in the sense of TerminalTranscriptProofs.
TranscriptWindow ==
    /\ IsWindow(Scrollback, total, lastSequence)
    /\ Budgeted(Scrollback, total, ByteCapacity)

\* A request in the mailbox of a running actor is the one its caller asks, and a
\* caller asks one at a time.
Asks(message) ==
    message.op \notin {"TerminalOutput", "TerminalExited", "Started", "Stopped"}
MailboxOfCallers ==
    actor = "running" =>
        /\ \A i \in DOMAIN mailbox : Asks(mailbox[i]) => caller[mailbox[i].from] = "asking"
        /\ \A i, j \in DOMAIN mailbox :
              Asks(mailbox[i]) /\ Asks(mailbox[j]) /\ mailbox[i].from = mailbox[j].from => i = j

\* Each caller that waits is on one list, once.
Listed(c) ==
    \/ \E w \in waiters : w.from = c
    \/ c \in exitWaiters
    \/ \E w \in workerWaiters : w.from = c
OneEntryEach ==
    /\ \A c \in Callers : caller[c] = "waiting" <=> Listed(c)
    /\ \A v, w \in waiters : v.from = w.from => v = w
    /\ \A v, w \in workerWaiters : v.from = w.from => v = w
    /\ \A v \in waiters, w \in workerWaiters : v.from # w.from
    /\ \A v \in waiters : v.from \notin exitWaiters
    /\ \A w \in workerWaiters : w.from \notin exitWaiters
    /\ IsFiniteSet(waiters) /\ IsFiniteSet(workerWaiters)

\* Together with the types these are inductive.
ActorInv ==
    /\ TypeOK
    /\ TranscriptWindow
    /\ MailboxOfCallers
    /\ OneEntryEach
    /\ NoWaiterForgotten
    /\ SubscriptionContiguous

-----------------------------------------------------------------------------
(* The mailbox.                                                            *)

\* What a message of each kind carries.
LEMMA MessageFields ==
    ASSUME NEW m \in Message
    PROVE  /\ m.op = "TerminalOutput" => m.size \in ChunkSizes
           /\ m.op \in {"Started", "Stopped"} => m.worker \in Workers
           /\ m.op = "WaitForTranscriptText" => m.needle \in Needles
           /\ m.op = "WaitForTerminalWorkerStop" => m.worker \in Workers
           /\ m.op = "TranscriptSubscription" => m.after \in Nat
           /\ Asks(m) => m.from \in Callers
BY DEF Message, Asks

\* A message at the end of the mailbox; a request comes from a caller that was
\* not asking and now is.
LEMMA MailAppended ==
    ASSUME TypeOK, MailboxOfCallers, NEW m \in Message, mailbox' = Append(mailbox, m), actor' = actor,
           \A c \in Callers : caller[c] = "asking" => caller'[c] = "asking",
           Asks(m) => caller[m.from] # "asking" /\ caller'[m.from] = "asking"
    PROVE  MailboxOfCallers' /\ mailbox' \in Seq(Message)
<1> DEFINE n == Len(mailbox)
<1>1. /\ mailbox' \in Seq(Message) /\ n \in Nat /\ DOMAIN mailbox = 1 .. n
      /\ DOMAIN mailbox' = 1 .. (n + 1) /\ mailbox'[n + 1] = m
      /\ \A i \in 1 .. n : mailbox'[i] = mailbox[i] /\ mailbox[i] \in Message
  BY DEF TypeOK
<1> HIDE DEF n
<1>2. \A i \in DOMAIN mailbox' : \/ i \in DOMAIN mailbox /\ mailbox'[i] = mailbox[i] /\ mailbox[i] \in Message
                                 \/ i = n + 1 /\ mailbox'[i] = m
  BY <1>1
<1>3. ASSUME actor = "running", NEW i \in DOMAIN mailbox', Asks(mailbox'[i])
      PROVE  caller'[mailbox'[i].from] = "asking"
  BY <1>2, <1>3, MessageFields DEF MailboxOfCallers
<1>4. ASSUME actor = "running", NEW i \in DOMAIN mailbox', NEW j \in DOMAIN mailbox',
             Asks(mailbox'[i]), Asks(mailbox'[j]), mailbox'[i].from = mailbox'[j].from
      PROVE  i = j
  BY <1>2, <1>4 DEF MailboxOfCallers
<1> QED BY <1>1, <1>3, <1>4 DEF MailboxOfCallers

\* Handling the first message; nobody else's request is touched.
LEMMA MailTaken ==
    ASSUME TypeOK, MailboxOfCallers, actor = "running", mailbox # <<>>, mailbox' = Tail(mailbox),
           \A c \in Callers : caller[c] = "asking" =>
               caller'[c] = "asking" \/ (Asks(Head(mailbox)) /\ c = Head(mailbox).from)
    PROVE  MailboxOfCallers'
<1> DEFINE n == Len(mailbox)
           m == Head(mailbox)
<1>1. /\ n \in Nat \ {0} /\ DOMAIN mailbox = 1 .. n /\ DOMAIN mailbox' = 1 .. (n - 1)
      /\ \A i \in 1 .. (n - 1) : mailbox'[i] = mailbox[i + 1]
      /\ m = mailbox[1] /\ \A i \in 1 .. n : mailbox[i] \in Message
  BY DEF TypeOK
<1> HIDE DEF n, m
<1>2. \A i \in DOMAIN mailbox' : /\ i + 1 \in DOMAIN mailbox /\ i + 1 # 1 /\ mailbox'[i] = mailbox[i + 1]
                                 /\ mailbox[i + 1] \in Message /\ i \in Nat
  BY <1>1
<1>3. ASSUME NEW i \in DOMAIN mailbox', Asks(mailbox'[i])
      PROVE  caller'[mailbox'[i].from] = "asking"
  <2>1. caller[mailbox[i + 1].from] = "asking" /\ mailbox[i + 1].from \in Callers
    BY <1>2, <1>3, MessageFields DEF MailboxOfCallers
  <2>2. ~(Asks(m) /\ mailbox[i + 1].from = m.from)
    BY <1>1, <1>2, <1>3 DEF MailboxOfCallers
  <2> QED BY <1>2, <2>1, <2>2 DEF m
<1>4. ASSUME NEW i \in DOMAIN mailbox', NEW j \in DOMAIN mailbox',
             Asks(mailbox'[i]), Asks(mailbox'[j]), mailbox'[i].from = mailbox'[j].from
      PROVE  i = j
  <2>1. i + 1 = j + 1
    BY <1>2, <1>4 DEF MailboxOfCallers
  <2> QED BY <1>2, <2>1
<1> QED BY <1>3, <1>4 DEF MailboxOfCallers

\* The message the actor handles, and who asked.
LEMMA HeadMessage ==
    ASSUME TypeOK, MailboxOfCallers, actor = "running", mailbox # <<>>
    PROVE  /\ Head(mailbox) \in Message /\ Tail(mailbox) \in Seq(Message)
           /\ Asks(Head(mailbox)) => Head(mailbox).from \in Callers /\ caller[Head(mailbox).from] = "asking"
<1>1. Head(mailbox) \in Message /\ Tail(mailbox) \in Seq(Message) /\ Head(mailbox) = mailbox[1] /\ 1 \in DOMAIN mailbox
  BY DEF TypeOK
<1> QED BY <1>1, MessageFields DEF MailboxOfCallers

-----------------------------------------------------------------------------
(* The callers.                                                            *)

\* Answering a set of callers.
LEMMA AnswerFacts ==
    ASSUME TypeOK, NEW S, Answer(S)
    PROVE  /\ caller' \in [Callers -> CallerStates]
           /\ \A c \in Callers : caller'[c] = IF c \in S THEN "answered" ELSE caller[c]
BY DEF TypeOK, Answer, CallerStates

\* Moving one caller on.
LEMMA CallerMoves ==
    ASSUME TypeOK, NEW c \in Callers, NEW state \in CallerStates, caller' = [caller EXCEPT ![c] = state]
    PROVE  /\ caller' \in [Callers -> CallerStates]
           /\ \A d \in Callers : caller'[d] = IF d = c THEN state ELSE caller[d]
BY DEF TypeOK

\* The lists as they are, and nobody starts or stops waiting.
LEMMA ListsKept ==
    ASSUME OneEntryEach, UNCHANGED waiterVars,
           \A c \in Callers : caller'[c] = "waiting" <=> caller[c] = "waiting"
    PROVE  OneEntryEach'
BY DEF OneEntryEach, waiterVars, Listed

\* What the promise to the waiters rests on does not change.
LEMMA WaitersKept ==
    ASSUME NoWaiterForgotten, UNCHANGED <<transcriptVars, events, exit, waiterVars>>
    PROVE  NoWaiterForgotten'
BY DEF NoWaiterForgotten, transcriptVars, waiterVars, RetainedBytes, StoppedReason

\* What the scrollback is does not change.
LEMMA WindowKept ==
    ASSUME TranscriptWindow, UNCHANGED transcriptVars
    PROVE  TranscriptWindow'
BY DEF TranscriptWindow, transcriptVars, Scrollback

\* The subscriptions do not change.
LEMMA SubscriptionsKept ==
    ASSUME SubscriptionContiguous, sub' = sub
    PROVE  SubscriptionContiguous'
BY DEF SubscriptionContiguous

-----------------------------------------------------------------------------
(* Steps outside the actor.                                                *)

\* A message sent with try_send arrives or is lost, and is not a request.
LEMMA TrySendFacts ==
    ASSUME ActorInv, NEW m \in Message, ~Asks(m), TrySend(m), actor' = actor, caller' = caller
    PROVE  MailboxOfCallers' /\ mailbox' \in Seq(Message)
<1>1. CASE mailbox' = mailbox
  BY <1>1 DEF ActorInv, TypeOK, MailboxOfCallers
<1>2. CASE mailbox' = Append(mailbox, m)
  BY <1>2, MailAppended DEF ActorInv
<1> QED BY <1>1, <1>2 DEF TrySend

\* Workers, the scriber and the exit watcher.
LEMMA SenderSteps ==
    ASSUME ActorInv,
           \/ \E size \in ChunkSizes : ScriberTells(size)
           \/ \E w \in Workers : Worker(w)
           \/ ChildExits
           \/ ExitWatcherTells
    PROVE  ActorInv'
<1>a. TypeOK /\ OneEntryEach /\ NoWaiterForgotten /\ SubscriptionContiguous /\ TranscriptWindow /\ MailboxOfCallers
  BY DEF ActorInv
<1>1. /\ UNCHANGED <<actor, transcriptVars, events, exit, waiterVars, caller, sub>>
      /\ mailbox' \in Seq(Message) /\ MailboxOfCallers'
      /\ worker' \in [Workers -> [up: Nat, starts: Nat]]
      /\ child' \in {"running", "exited", "told"}
      /\ chunks' \in Nat
  <2>1. ASSUME NEW size \in ChunkSizes, ScriberTells(size)
        PROVE  <1>1!:
    <3>1. [op |-> "TerminalOutput", size |-> size] \in Message /\ ~Asks([op |-> "TerminalOutput", size |-> size])
      BY DEF Message, Asks
    <3>2. actor' = actor /\ caller' = caller /\ TrySend([op |-> "TerminalOutput", size |-> size])
      BY <2>1 DEF ScriberTells
    <3>3. mailbox' \in Seq(Message) /\ MailboxOfCallers'
      BY <3>1, <3>2, TrySendFacts
    <3> QED BY <1>a, <2>1, <3>3 DEF ScriberTells, TypeOK
  <2>2. ASSUME NEW w \in Workers, WorkerStarts(w)
        PROVE  <1>1!:
    <3>1. [op |-> "Started", worker |-> w] \in Message /\ ~Asks([op |-> "Started", worker |-> w])
      BY DEF Message, Asks
    <3>2. actor' = actor /\ caller' = caller /\ TrySend([op |-> "Started", worker |-> w])
      BY <2>2 DEF WorkerStarts
    <3>3. mailbox' \in Seq(Message) /\ MailboxOfCallers'
      BY <3>1, <3>2, TrySendFacts
    <3>4. worker' \in [Workers -> [up: Nat, starts: Nat]]
      <4>1. worker \in [Workers -> [up: Nat, starts: Nat]]
        BY <1>a DEF TypeOK
      <4>2. worker' = [worker EXCEPT ![w] = [up |-> worker[w].up + 1, starts |-> worker[w].starts + 1]]
        BY <2>2 DEF WorkerStarts
      <4>3. [up |-> worker[w].up + 1, starts |-> worker[w].starts + 1] \in [up: Nat, starts: Nat]
        BY <4>1
      <4> QED BY <4>1, <4>2, <4>3
    <3>5. /\ UNCHANGED <<actor, transcriptVars, events, exit, waiterVars, caller, sub>>
          /\ child' = child /\ chunks' = chunks
      BY <2>2 DEF WorkerStarts
    <3>6. child' \in {"running", "exited", "told"} /\ chunks' \in Nat
      BY <1>a, <3>5 DEF TypeOK
    <3> QED BY <3>3, <3>4, <3>5, <3>6
  <2>3. ASSUME NEW w \in Workers, WorkerStops(w)
        PROVE  <1>1!:
    <3>1. [op |-> "Stopped", worker |-> w] \in Message /\ ~Asks([op |-> "Stopped", worker |-> w])
      BY DEF Message, Asks
    <3>2. actor' = actor /\ caller' = caller /\ TrySend([op |-> "Stopped", worker |-> w])
      BY <2>3 DEF WorkerStops
    <3>3. mailbox' \in Seq(Message) /\ MailboxOfCallers'
      BY <3>1, <3>2, TrySendFacts
    <3>4. worker' \in [Workers -> [up: Nat, starts: Nat]]
      <4>1. worker[w] \in [up: Nat, starts: Nat] /\ worker[w].up - 1 \in Nat
        BY <1>a, <2>3 DEF WorkerStops, TypeOK
      <4>2. worker' = [worker EXCEPT ![w] = [worker[w] EXCEPT !.up = worker[w].up - 1]]
        BY <2>3 DEF WorkerStops
      <4> QED BY <1>a, <4>1, <4>2 DEF TypeOK
    <3> QED BY <1>a, <2>3, <3>3, <3>4 DEF WorkerStops, TypeOK
  <2>4. CASE ChildExits
    BY <1>a, <2>4 DEF ChildExits, TypeOK, MailboxOfCallers
  <2>5. CASE ExitWatcherTells
    <3>1. [op |-> "TerminalExited"] \in Message /\ ~Asks([op |-> "TerminalExited"])
      BY DEF Message, Asks
    <3>2. actor' = actor /\ caller' = caller /\ TrySend([op |-> "TerminalExited"])
      BY <2>5 DEF ExitWatcherTells
    <3>3. mailbox' \in Seq(Message) /\ MailboxOfCallers'
      BY <3>1, <3>2, TrySendFacts
    <3> QED BY <1>a, <2>5, <3>3 DEF ExitWatcherTells, TypeOK
  <2> QED BY <2>1, <2>2, <2>3, <2>4, <2>5 DEF Worker
<1>2. TypeOK'
  BY <1>a, <1>1 DEF TypeOK, transcriptVars, waiterVars
<1> QED BY <1>a, <1>1, <1>2, ListsKept, WaitersKept, WindowKept, SubscriptionsKept DEF ActorInv

\* A caller asks, or is refused by an actor that is gone.
LEMMA AskSteps ==
    ASSUME ActorInv, NEW c \in Callers, NEW m \in Message, Asks(m), m.from = c, Ask(c, m)
    PROVE  ActorInv'
<1>a. TypeOK /\ OneEntryEach /\ NoWaiterForgotten /\ SubscriptionContiguous /\ TranscriptWindow /\ MailboxOfCallers
  BY DEF ActorInv
<1>b. /\ UNCHANGED <<actor, transcriptVars, events, exit, waiterVars, sub, worldVars>>
      /\ caller[c] = "idle"
  BY DEF Ask
<1>1. /\ mailbox' \in Seq(Message) /\ MailboxOfCallers'
      /\ caller' \in [Callers -> CallerStates]
      /\ \A d \in Callers : caller'[d] = "waiting" <=> caller[d] = "waiting"
  <2>1. CASE mailbox' = Append(mailbox, m) /\ caller' = [caller EXCEPT ![c] = "asking"]
    <3>1. /\ caller' \in [Callers -> CallerStates]
          /\ \A d \in Callers : caller'[d] = IF d = c THEN "asking" ELSE caller[d]
      BY <1>a, <2>1, CallerMoves DEF CallerStates
    <3>2. MailboxOfCallers' /\ mailbox' \in Seq(Message)
      BY <1>a, <1>b, <2>1, <3>1, MailAppended
    <3> QED BY <1>b, <3>1, <3>2
  <2>2. CASE actor = "stopped" /\ mailbox' = mailbox /\ caller' = [caller EXCEPT ![c] = "refused"]
    <3>1. /\ caller' \in [Callers -> CallerStates]
          /\ \A d \in Callers : caller'[d] = IF d = c THEN "refused" ELSE caller[d]
      BY <1>a, <2>2, CallerMoves DEF CallerStates
    <3> QED BY <1>a, <1>b, <2>2, <3>1 DEF TypeOK, MailboxOfCallers
  <2> QED BY <2>1, <2>2 DEF Ask
<1>2. TypeOK'
  BY <1>a, <1>b, <1>1 DEF TypeOK, transcriptVars, waiterVars, worldVars
<1> QED BY <1>a, <1>b, <1>1, <1>2, ListsKept, WaitersKept, WindowKept, SubscriptionsKept DEF ActorInv

\* A request of a caller preserves the invariant.
LEMMA RequestSteps ==
    ASSUME ActorInv, NEW c \in Callers, Request(c)
    PROVE  ActorInv'
<1> USE DEF Message, Asks
<1>a. lastSequence \in Nat
  BY DEF ActorInv, TypeOK
<1>1. ASSUME NEW n \in Needles, Ask(c, [op |-> "WaitForTranscriptText", from |-> c, needle |-> n])
      PROVE  ActorInv'
  <2> DEFINE m == [op |-> "WaitForTranscriptText", from |-> c, needle |-> n]
  <2>1. m \in Message /\ Asks(m) /\ m.from = c
    OBVIOUS
  <2> QED BY <1>1, <2>1, AskSteps
<1>2. CASE Ask(c, [op |-> "WaitForTerminalExit", from |-> c])
  <2> DEFINE m == [op |-> "WaitForTerminalExit", from |-> c]
  <2>1. m \in Message /\ Asks(m) /\ m.from = c
    OBVIOUS
  <2> QED BY <1>2, <2>1, AskSteps
<1>3. ASSUME NEW w \in Workers, Ask(c, [op |-> "WaitForTerminalWorkerStop", from |-> c, worker |-> w])
      PROVE  ActorInv'
  <2> DEFINE m == [op |-> "WaitForTerminalWorkerStop", from |-> c, worker |-> w]
  <2>1. m \in Message /\ Asks(m) /\ m.from = c
    OBVIOUS
  <2> QED BY <1>3, <2>1, AskSteps
<1>4. ASSUME NEW s \in {0, lastSequence}, Ask(c, [op |-> "TranscriptSubscription", from |-> c, after |-> s])
      PROVE  ActorInv'
  <2> DEFINE m == [op |-> "TranscriptSubscription", from |-> c, after |-> s]
  <2>1. m \in Message /\ Asks(m) /\ m.from = c
    BY <1>a
  <2> QED BY <1>4, <2>1, AskSteps
<1>5. CASE Ask(c, [op |-> "LifecycleSubscription", from |-> c])
  <2> DEFINE m == [op |-> "LifecycleSubscription", from |-> c]
  <2>1. m \in Message /\ Asks(m) /\ m.from = c
    OBVIOUS
  <2> QED BY <1>5, <2>1, AskSteps
<1>6. CASE Ask(c, [op |-> "Query", from |-> c])
  <2> DEFINE m == [op |-> "Query", from |-> c]
  <2>1. m \in Message /\ Asks(m) /\ m.from = c
    OBVIOUS
  <2> QED BY <1>6, <2>1, AskSteps
<1> QED BY <1>1, <1>2, <1>3, <1>4, <1>5, <1>6 DEF Request

\* A subscriber that was served has one entry more and expects the next.
LEMMA SubscriberSteps ==
    ASSUME ActorInv, NEW c \in Callers, Subscriber(c) \/ Retract(c)
    PROVE  ActorInv'
<1>a. TypeOK /\ OneEntryEach /\ NoWaiterForgotten /\ SubscriptionContiguous /\ TranscriptWindow /\ MailboxOfCallers
  BY DEF ActorInv
<1>b. /\ UNCHANGED <<actor, mailbox, transcriptVars, events, exit, waiterVars, worldVars>>
      /\ caller[c] = "streaming"
  BY DEF Subscriber, ReceiveLive, SubscriberGone, StreamEnds, Retract
<1>c. /\ sub \in [Callers -> [of: {"none", "transcript", "lifecycle"}, next: Nat,
                              got: Seq(Nat), retracted: BOOLEAN]]
      /\ sub[c].got \in Seq(Nat) /\ sub[c].next \in Nat
  BY <1>a DEF TypeOK
<1>1. CASE caller' = caller \/ caller' = [caller EXCEPT ![c] = "ended"]
  <2>1. /\ caller' \in [Callers -> CallerStates]
        /\ \A d \in Callers : caller'[d] = caller[d] \/ (d = c /\ caller'[d] = "ended")
    BY <1>a, <1>1, CallerMoves DEF CallerStates, TypeOK
  <2>2. \A d \in Callers : caller'[d] = "waiting" <=> caller[d] = "waiting"
    BY <1>b, <2>1
  <2>3. \A d \in Callers : caller[d] = "asking" => caller'[d] = "asking"
    BY <1>b, <2>1
  <2>4. MailboxOfCallers'
    <3>1. \A i \in DOMAIN mailbox : Asks(mailbox[i]) => mailbox[i].from \in Callers
      BY <1>a, MessageFields DEF TypeOK
    <3> QED BY <1>a, <1>b, <2>3, <3>1 DEF MailboxOfCallers
  <2>5. CASE sub' = sub
    <3>1. TypeOK'
      BY <1>a, <1>b, <2>1, <2>5 DEF TypeOK, transcriptVars, waiterVars, worldVars
    <3> QED BY <1>a, <1>b, <2>2, <2>4, <2>5, <3>1, ListsKept, WaitersKept, WindowKept, SubscriptionsKept DEF ActorInv
  <2>6. CASE sub' = [sub EXCEPT ![c].got = Append(@, sub[c].next), ![c].next = @ + 1]
    <3> DEFINE got == sub[c].got
               next == sub[c].next
    <3>1. /\ sub' \in [Callers -> [of: {"none", "transcript", "lifecycle"}, next: Nat,
                                   got: Seq(Nat), retracted: BOOLEAN]]
          /\ sub'[c].got = Append(got, next) /\ sub'[c].next = next + 1
          /\ \A d \in Callers : d # c => sub'[d] = sub[d]
      BY <1>c, <2>6
    <3>2. /\ \A i \in 1 .. Len(got) - 1 : got[i + 1] = got[i] + 1
          /\ got # <<>> => got[Len(got)] + 1 = next
      BY <1>a DEF SubscriptionContiguous
    <3> DEFINE more == Append(got, next)
               n == Len(got)
    <3>3. n \in Nat /\ Len(more) = n + 1 /\ more[n + 1] = next /\ (n > 0 => got # <<>>)
      BY <1>c
    <3>4. \A i \in 1 .. n : more[i] = got[i]
      BY <1>c
    <3> HIDE DEF got, next, more, n
    <3>5. ASSUME NEW i \in 1 .. Len(more) - 1 PROVE more[i + 1] = more[i] + 1
      <4>1. CASE i = n
        BY <3>2, <3>3, <3>4, <4>1 DEF n
      <4>2. CASE i # n
        <5>1. i \in 1 .. n - 1 /\ i + 1 \in 1 .. n /\ i \in 1 .. n
          BY <3>3, <4>2
        <5> QED BY <3>2, <3>4, <5>1 DEF n
      <4> QED BY <4>1, <4>2
    <3>6. more[Len(more)] + 1 = next + 1
      BY <3>3
    <3>7. SubscriptionContiguous'
      <4> SUFFICES ASSUME NEW d \in Callers
                   PROVE  /\ \A i \in 1 .. Len(sub'[d].got) - 1 : sub'[d].got[i + 1] = sub'[d].got[i] + 1
                          /\ sub'[d].got # <<>> => sub'[d].got[Len(sub'[d].got)] + 1 = sub'[d].next
        BY DEF SubscriptionContiguous
      <4>1. CASE d # c
        <5>1. sub'[d] = sub[d]
          BY <3>1, <4>1
        <5>2. /\ \A i \in 1 .. Len(sub[d].got) - 1 : sub[d].got[i + 1] = sub[d].got[i] + 1
              /\ sub[d].got # <<>> => sub[d].got[Len(sub[d].got)] + 1 = sub[d].next
          BY <1>a DEF SubscriptionContiguous
        <5> QED BY <5>1, <5>2, Zenon
      <4>2. CASE d = c
        <5>1. sub'[d].got = more /\ sub'[d].next = next + 1
          BY <3>1, <4>2 DEF more
        <5> QED BY <3>5, <3>6, <5>1
      <4> QED BY <4>1, <4>2
    <3>8. TypeOK'
      BY <1>a, <1>b, <2>1, <3>1 DEF TypeOK, transcriptVars, waiterVars, worldVars
    <3> QED BY <1>a, <1>b, <2>2, <2>4, <3>7, <3>8, ListsKept, WaitersKept, WindowKept DEF ActorInv
  <2>7. CASE sub' = [sub EXCEPT ![c].retracted = TRUE]
    <3>1. /\ sub' \in [Callers -> [of: {"none", "transcript", "lifecycle"}, next: Nat,
                                   got: Seq(Nat), retracted: BOOLEAN]]
          /\ \A d \in Callers : sub'[d].got = sub[d].got /\ sub'[d].next = sub[d].next
      BY <1>c, <2>7
    <3>2. SubscriptionContiguous'
      <4> SUFFICES ASSUME NEW d \in Callers
                   PROVE  /\ \A i \in 1 .. Len(sub'[d].got) - 1 : sub'[d].got[i + 1] = sub'[d].got[i] + 1
                          /\ sub'[d].got # <<>> => sub'[d].got[Len(sub'[d].got)] + 1 = sub'[d].next
        BY DEF SubscriptionContiguous
      <4>1. sub'[d].got = sub[d].got /\ sub'[d].next = sub[d].next
        BY <3>1
      <4>2. /\ \A i \in 1 .. Len(sub[d].got) - 1 : sub[d].got[i + 1] = sub[d].got[i] + 1
            /\ sub[d].got # <<>> => sub[d].got[Len(sub[d].got)] + 1 = sub[d].next
        BY <1>a DEF SubscriptionContiguous
      <4> QED BY <4>1, <4>2, Zenon
    <3>3. TypeOK'
      BY <1>a, <1>b, <2>1, <3>1 DEF TypeOK, transcriptVars, waiterVars, worldVars
    <3>4. OneEntryEach' /\ NoWaiterForgotten' /\ TranscriptWindow'
      BY <1>a, <1>b, <2>2, ListsKept, WaitersKept, WindowKept
    <3> QED BY <2>4, <3>2, <3>3, <3>4 DEF ActorInv
  <2> QED BY <2>5, <2>6, <2>7 DEF Subscriber, ReceiveLive, SubscriberGone, StreamEnds, Retract
<1> QED BY <1>1 DEF Subscriber, ReceiveLive, SubscriberGone, StreamEnds, Retract

-----------------------------------------------------------------------------
(* Steps of the actor.                                                     *)

\* Entries leave the lists and their callers, nobody else, are answered.
LEMMA WaitersAnswered ==
    ASSUME TypeOK, OneEntryEach,
           waiters' \in SUBSET waiters, exitWaiters' \in SUBSET exitWaiters,
           workerWaiters' \in SUBSET workerWaiters,
           \A c \in Callers : caller'[c] = IF Listed(c) /\ ~Listed(c)' THEN "answered" ELSE caller[c]
    PROVE  /\ OneEntryEach'
           /\ \A c \in Callers : caller[c] = "asking" => caller'[c] = "asking"
<1>1. \A c \in Callers : caller[c] = "waiting" <=> Listed(c)
  BY DEF OneEntryEach
<1>2. \A c \in Callers : Listed(c)' => Listed(c)
  BY DEF Listed
<1>3. \A c \in Callers : caller'[c] = "waiting" <=> Listed(c)'
  BY <1>1, <1>2
<1>4. IsFiniteSet(waiters') /\ IsFiniteSet(workerWaiters')
  <2>1. IsFiniteSet(waiters) /\ IsFiniteSet(workerWaiters)
    BY DEF OneEntryEach
  <2> QED BY <2>1, FS_Subset
<1>5. OneEntryEach'
  BY <1>3, <1>4 DEF OneEntryEach
<1> QED BY <1>1, <1>5

\* A caller that asked is put on one of the lists.
LEMMA WaiterAdded ==
    ASSUME TypeOK, OneEntryEach, NEW c \in Callers, caller[c] = "asking",
           caller' = [caller EXCEPT ![c] = "waiting"],
           \/ /\ \E w : w.from = c /\ waiters' = waiters \cup {w}
              /\ UNCHANGED <<exitWaiters, workerWaiters>>
           \/ exitWaiters' = exitWaiters \cup {c} /\ UNCHANGED <<waiters, workerWaiters>>
           \/ /\ \E w : w.from = c /\ workerWaiters' = workerWaiters \cup {w}
              /\ UNCHANGED <<waiters, exitWaiters>>
    PROVE  /\ OneEntryEach'
           /\ caller' \in [Callers -> CallerStates]
           /\ \A d \in Callers : d # c => caller'[d] = caller[d]
<1>1. /\ caller' \in [Callers -> CallerStates]
      /\ \A d \in Callers : caller'[d] = IF d = c THEN "waiting" ELSE caller[d]
  BY CallerMoves DEF CallerStates
<1>2. ~Listed(c)
  BY DEF OneEntryEach
<1>3. IsFiniteSet(waiters) /\ IsFiniteSet(workerWaiters)
  BY DEF OneEntryEach
<1>4. \A d \in Callers : caller[d] = "waiting" <=> Listed(d)
  BY DEF OneEntryEach
<1>5. CASE (\E w : w.from = c /\ waiters' = waiters \cup {w}) /\ UNCHANGED <<exitWaiters, workerWaiters>>
  <2>1. PICK w : w.from = c /\ waiters' = waiters \cup {w}
    BY <1>5
  <2>2. IsFiniteSet(waiters')
    BY <1>3, <2>1, FS_AddElement
  <2>3. \A d \in Callers : Listed(d)' <=> Listed(d) \/ d = c
    BY <1>5, <2>1 DEF Listed
  <2>4. \A d \in Callers : caller'[d] = "waiting" <=> Listed(d)'
    BY <1>1, <1>4, <2>3
  <2>5. /\ \A x, y \in waiters' : x.from = y.from => x = y
        /\ \A x \in waiters', y \in workerWaiters' : x.from # y.from
        /\ \A x \in waiters' : x.from \notin exitWaiters'
    BY <1>2, <1>5, <2>1 DEF OneEntryEach, Listed
  <2> QED BY <1>1, <1>5, <2>2, <2>4, <2>5 DEF OneEntryEach
<1>6. CASE exitWaiters' = exitWaiters \cup {c} /\ UNCHANGED <<waiters, workerWaiters>>
  <2>1. \A d \in Callers : Listed(d)' <=> Listed(d) \/ d = c
    BY <1>6 DEF Listed
  <2>2. \A d \in Callers : caller'[d] = "waiting" <=> Listed(d)'
    BY <1>1, <1>4, <2>1
  <2>3. /\ \A x \in waiters' : x.from \notin exitWaiters'
        /\ \A x \in workerWaiters' : x.from \notin exitWaiters'
    BY <1>2, <1>6 DEF OneEntryEach, Listed
  <2> QED BY <1>1, <1>6, <2>2, <2>3 DEF OneEntryEach
<1>7. CASE (\E w : w.from = c /\ workerWaiters' = workerWaiters \cup {w}) /\ UNCHANGED <<waiters, exitWaiters>>
  <2>1. PICK w : w.from = c /\ workerWaiters' = workerWaiters \cup {w}
    BY <1>7
  <2>2. IsFiniteSet(workerWaiters')
    BY <1>3, <2>1, FS_AddElement
  <2>3. \A d \in Callers : Listed(d)' <=> Listed(d) \/ d = c
    BY <1>7, <2>1 DEF Listed
  <2>4. \A d \in Callers : caller'[d] = "waiting" <=> Listed(d)'
    BY <1>1, <1>4, <2>3
  <2>5. /\ \A x, y \in workerWaiters' : x.from = y.from => x = y
        /\ \A x \in waiters', y \in workerWaiters' : x.from # y.from
        /\ \A y \in workerWaiters' : y.from \notin exitWaiters'
    BY <1>2, <1>7, <2>1 DEF OneEntryEach, Listed
  <2> QED BY <1>1, <1>7, <2>2, <2>4, <2>5 DEF OneEntryEach
<1> QED BY <1>1, <1>5, <1>6, <1>7

\* Output: the window moves on, and the texts that are there now are answered.
LEMMA OutputStep ==
    ASSUME ActorInv, HandleOutput
    PROVE  ActorInv'
<1>a. TypeOK /\ OneEntryEach /\ NoWaiterForgotten /\ SubscriptionContiguous /\ TranscriptWindow /\ MailboxOfCallers
  BY DEF ActorInv
<1> DEFINE m == Head(mailbox)
           delta == [sequence |-> lastSequence + 1, from |-> total + 1, to |-> total + m.size]
           u == AppendDelta(Scrollback, delta, ByteCapacity)
           matched == {w \in waiters : Contains(u.deltas, w.needle)}
<1>1. /\ actor = "running" /\ mailbox # <<>> /\ m.op = "TerminalOutput" /\ mailbox' = Tail(mailbox)
      /\ deltas' = u.deltas /\ retained' = u.retained /\ lastSequence' = lastSequence + 1
      /\ total' = total + m.size
      /\ Answer({w.from : w \in matched}) /\ waiters' = waiters \ matched
      /\ UNCHANGED <<actor, events, exit, exitWaiters, workerWaiters, sub, worldVars>>
  BY DEF HandleOutput, Handles, NotifyWaiters, Scrollback
<1>2. m \in Message /\ Tail(mailbox) \in Seq(Message) /\ m.size \in ChunkSizes
  BY <1>a, <1>1, HeadMessage, MessageFields
<1>3. /\ m.size \in Nat \ {0} /\ m.size <= ByteCapacity /\ ByteCapacity \in Nat \ {0}
      /\ total \in Nat /\ lastSequence \in Nat
  <2>1. ByteCapacity \in Nat \ {0} /\ ChunkSizes \subseteq 1 .. ByteCapacity
    BY TerminalCellAssumption DEF TerminalCellAssumption
  <2>2. m.size \in 1 .. ByteCapacity
    BY <1>2, <2>1
  <2> HIDE DEF m
  <2>3. m.size \in Nat \ {0} /\ m.size <= ByteCapacity
    BY <2>1, <2>2
  <2> QED BY <1>a, <2>1, <2>3 DEF TypeOK
<1> DEFINE size == m.size
<1>s. size = m.size
  OBVIOUS
<1> HIDE DEF u, m, size
<1>4. IsWindow(u, total + size, lastSequence + 1) /\ Budgeted(u, total + size, ByteCapacity)
  BY <1>a, <1>3, <1>s, AppendKeepsNewest DEF TranscriptWindow, u
<1>5. Scrollback' = u /\ TranscriptWindow'
  <2>1. u = [deltas |-> u.deltas, retained |-> u.retained]
    BY <1>4 DEF IsWindow
  <2>2. Scrollback' = u
    BY <1>1, <2>1 DEF Scrollback
  <2> QED BY <1>1, <1>4, <1>s, <2>2 DEF TranscriptWindow
<1>6. RetainedBytes(deltas') = NewestBytes(total', ByteCapacity)
  <2>1. total + size \in Nat /\ lastSequence + 1 \in Nat
    BY <1>3, <1>s
  <2>2. RetainedBytes(u.deltas) = NewestBytes(total + size, ByteCapacity)
    BY <1>3, <1>4, <2>1, WindowIsNewest
  <2> QED BY <1>1, <1>s, <2>2
<1>7. ASSUME NEW w \in waiters'
      PROVE  w.needle \notin RetainedBytes(deltas') /\ w.needle \notin (w.since + 1) .. total'
  <2>1. w \in waiters /\ ~Contains(u.deltas, w.needle)
    BY <1>1
  <2>2. w.needle \notin RetainedBytes(deltas')
    BY <1>1, <2>1 DEF Contains
  <2>3. w.needle \notin (w.since + 1) .. total /\ w.needle \in Nat /\ w.since \in Nat
    BY <1>a, <2>1 DEF NoWaiterForgotten, TypeOK
  <2>4. w.needle \notin (total + 1) .. (total + size)
    BY <1>1, <1>3, <1>6, <1>s, <2>2, <2>3 DEF NewestBytes
  <2> QED BY <1>1, <1>3, <1>s, <2>2, <2>3, <2>4
<1>8. NoWaiterForgotten'
  BY <1>a, <1>1, <1>7 DEF NoWaiterForgotten, StoppedReason
<1>9. /\ OneEntryEach' /\ caller' \in [Callers -> CallerStates]
      /\ \A c \in Callers : caller[c] = "asking" => caller'[c] = "asking"
  <2> DEFINE S == {w.from : w \in matched}
  <2>1. /\ matched \in SUBSET waiters /\ waiters' = waiters \ matched
        /\ exitWaiters' = exitWaiters /\ workerWaiters' = workerWaiters
        /\ \A c : c \in S <=> \E w \in matched : w.from = c
    BY <1>1
  <2>2. /\ caller' \in [Callers -> CallerStates]
        /\ \A c \in Callers : caller'[c] = IF c \in S THEN "answered" ELSE caller[c]
    BY <1>a, <1>1, AnswerFacts
  <2> HIDE DEF matched, S
  <2>3. \A c \in Callers : c \in S <=> Listed(c) /\ ~Listed(c)'
    BY <1>a, <2>1 DEF OneEntryEach, Listed
  <2> QED BY <1>a, <2>1, <2>2, <2>3, WaitersAnswered
<1>10. MailboxOfCallers'
  BY <1>a, <1>1, <1>9, MailTaken
<1>11. TypeOK'
  <2>1. deltas' \in Seq([sequence: Nat, from: Nat, to: Nat]) /\ retained' \in Nat
    BY <1>1, <1>4 DEF IsWindow, Delta
  <2>2. total' \in Nat /\ lastSequence' \in Nat
    BY <1>1, <1>3
  <2>3. waiters' \in SUBSET [from: Callers, needle: Nat, since: Nat]
    BY <1>a, <1>1 DEF TypeOK
  <2> QED BY <1>a, <1>1, <1>2, <1>9, <2>1, <2>2, <2>3 DEF TypeOK, worldVars
<1> QED BY <1>a, <1>1, <1>5, <1>8, <1>9, <1>10, <1>11, SubscriptionsKept DEF ActorInv

\* The exit answers all who wait for it.
LEMMA ExitedStep ==
    ASSUME ActorInv, HandleExited
    PROVE  ActorInv'
<1>a. TypeOK /\ OneEntryEach /\ NoWaiterForgotten /\ SubscriptionContiguous /\ TranscriptWindow /\ MailboxOfCallers
  BY DEF ActorInv
<1>1. /\ actor = "running" /\ mailbox # <<>> /\ mailbox' = Tail(mailbox)
      /\ exit' = TRUE /\ Answer(exitWaiters) /\ exitWaiters' = {}
      /\ UNCHANGED <<actor, transcriptVars, events, waiters, workerWaiters, sub, worldVars>>
  BY DEF HandleExited, Handles, NotifyExitWaiters
<1>2. Tail(mailbox) \in Seq(Message)
  BY <1>a, <1>1, HeadMessage
<1>3. /\ OneEntryEach' /\ caller' \in [Callers -> CallerStates]
      /\ \A c \in Callers : caller[c] = "asking" => caller'[c] = "asking"
  <2>1. /\ caller' \in [Callers -> CallerStates]
        /\ \A c \in Callers : caller'[c] = IF c \in exitWaiters THEN "answered" ELSE caller[c]
    BY <1>a, <1>1, AnswerFacts
  <2>2. \A c \in Callers : c \in exitWaiters <=> Listed(c) /\ ~Listed(c)'
    BY <1>a, <1>1 DEF OneEntryEach, Listed
  <2>3. /\ waiters' \in SUBSET waiters /\ exitWaiters' \in SUBSET exitWaiters
        /\ workerWaiters' \in SUBSET workerWaiters
    BY <1>1
  <2> QED BY <1>a, <2>1, <2>2, <2>3, WaitersAnswered
<1>4. MailboxOfCallers'
  BY <1>a, <1>1, <1>3, MailTaken
<1>5. NoWaiterForgotten'
  BY <1>a, <1>1 DEF NoWaiterForgotten, transcriptVars, StoppedReason
<1>6. TypeOK'
  BY <1>a, <1>1, <1>2, <1>3 DEF TypeOK, worldVars, transcriptVars
<1> QED BY <1>a, <1>1, <1>3, <1>4, <1>5, <1>6, SubscriptionsKept, WindowKept DEF ActorInv

\* A stop on record answers all who wait for that worker.
LEMMA StoppedStep ==
    ASSUME ActorInv, HandleStopped
    PROVE  ActorInv'
<1>a. TypeOK /\ OneEntryEach /\ NoWaiterForgotten /\ SubscriptionContiguous /\ TranscriptWindow /\ MailboxOfCallers
  BY DEF ActorInv
<1> DEFINE m == Head(mailbox)
           matched == {x \in workerWaiters : x.worker = m.worker}
           event == [kind |-> "Stopped", worker |-> m.worker]
           S == {x.from : x \in matched}
<1>1. /\ actor = "running" /\ mailbox # <<>> /\ m.op = "Stopped" /\ mailbox' = Tail(mailbox)
      /\ Answer(S) /\ workerWaiters' = workerWaiters \ matched
      /\ events' = Append(events, event)
      /\ UNCHANGED <<actor, transcriptVars, exit, waiters, exitWaiters, sub, worldVars>>
  BY DEF HandleStopped, Handles, NotifyWorkerWaiters, Record
<1>2. m \in Message /\ Tail(mailbox) \in Seq(Message) /\ m.worker \in Workers
  BY <1>a, <1>1, HeadMessage, MessageFields
<1>3. event \in [kind: {"Started", "Stopped"}, worker: Workers]
  BY <1>2
<1>4. /\ OneEntryEach' /\ caller' \in [Callers -> CallerStates]
      /\ \A c \in Callers : caller[c] = "asking" => caller'[c] = "asking"
  <2>1. /\ matched \in SUBSET workerWaiters /\ workerWaiters' = workerWaiters \ matched
        /\ waiters' = waiters /\ exitWaiters' = exitWaiters
        /\ \A c : c \in S <=> \E x \in matched : x.from = c
    BY <1>1
  <2>2. /\ caller' \in [Callers -> CallerStates]
        /\ \A c \in Callers : caller'[c] = IF c \in S THEN "answered" ELSE caller[c]
    BY <1>a, <1>1, AnswerFacts
  <2> HIDE DEF matched, S, m
  <2>3. \A c \in Callers : c \in S <=> Listed(c) /\ ~Listed(c)'
    BY <1>a, <2>1 DEF OneEntryEach, Listed
  <2> QED BY <1>a, <2>1, <2>2, <2>3, WaitersAnswered
<1>5. MailboxOfCallers'
  BY <1>a, <1>1, <1>4, MailTaken
<1>6. NoWaiterForgotten'
  <2>1. ASSUME NEW w \in workerWaiters' PROVE ~StoppedReason(w.worker)'
    <3>1. w \in workerWaiters /\ w.worker # m.worker
      BY <1>1
    <3>2. ~StoppedReason(w.worker)
      BY <1>a, <3>1 DEF NoWaiterForgotten
    <3> DEFINE n == Len(events)
               stop == [kind |-> "Stopped", worker |-> w.worker]
    <3>3. event # stop
      BY <3>1
    <3> HIDE DEF event, stop
    <3>4. /\ n \in Nat /\ DOMAIN events = 1 .. n /\ DOMAIN events' = 1 .. (n + 1)
          /\ \A i \in 1 .. n : events'[i] = events[i]
          /\ events'[n + 1] = event
      BY <1>a, <1>1, <1>3 DEF TypeOK
    <3> HIDE DEF n
    <3>5. \A i \in DOMAIN events' : (i \in DOMAIN events /\ events'[i] = events[i]) \/ events'[i] = event
      BY <3>4
    <3>6. \A i \in DOMAIN events' : events'[i] # stop
      BY <3>2, <3>3, <3>5 DEF StoppedReason, stop
    <3> QED BY <3>6 DEF StoppedReason, stop
  <2> QED BY <1>a, <1>1, <2>1 DEF NoWaiterForgotten, transcriptVars
<1>7. TypeOK'
  <2>1. events' \in Seq([kind: {"Started", "Stopped"}, worker: Workers])
    BY <1>a, <1>1, <1>3 DEF TypeOK
  <2>2. workerWaiters' \in SUBSET [from: Callers, worker: Workers]
    BY <1>a, <1>1 DEF TypeOK
  <2> QED BY <1>a, <1>1, <1>2, <1>4, <2>1, <2>2 DEF TypeOK, worldVars, transcriptVars
<1> QED BY <1>a, <1>1, <1>4, <1>5, <1>6, <1>7, SubscriptionsKept, WindowKept DEF ActorInv

\* A start on record is no stop.
LEMMA StartedStep ==
    ASSUME ActorInv, HandleStarted
    PROVE  ActorInv'
<1>a. TypeOK /\ OneEntryEach /\ NoWaiterForgotten /\ SubscriptionContiguous /\ TranscriptWindow /\ MailboxOfCallers
  BY DEF ActorInv
<1> DEFINE m == Head(mailbox)
           event == [kind |-> "Started", worker |-> m.worker]
<1>1. /\ actor = "running" /\ mailbox # <<>> /\ m.op = "Started" /\ mailbox' = Tail(mailbox)
      /\ events' = Append(events, event)
      /\ UNCHANGED <<actor, transcriptVars, exit, waiterVars, caller, sub, worldVars>>
  BY DEF HandleStarted, Handles, Record
<1>2. m \in Message /\ Tail(mailbox) \in Seq(Message) /\ m.worker \in Workers
  BY <1>a, <1>1, HeadMessage, MessageFields
<1>3. event \in [kind: {"Started", "Stopped"}, worker: Workers]
  BY <1>2
<1>4. OneEntryEach'
  BY <1>a, <1>1, ListsKept
<1>5. MailboxOfCallers'
  BY <1>a, <1>1, MailTaken
<1>6. NoWaiterForgotten'
  <2>1. ASSUME NEW w \in workerWaiters' PROVE ~StoppedReason(w.worker)'
    <3>1. ~StoppedReason(w.worker)
      BY <1>a, <1>1 DEF NoWaiterForgotten, waiterVars
    <3> DEFINE n == Len(events)
               stop == [kind |-> "Stopped", worker |-> w.worker]
    <3>3. event # stop
      <4>1. event.kind # stop.kind
        OBVIOUS
      <4> QED BY <4>1
    <3> HIDE DEF event, stop
    <3>4. /\ n \in Nat /\ DOMAIN events = 1 .. n /\ DOMAIN events' = 1 .. (n + 1)
          /\ \A i \in 1 .. n : events'[i] = events[i]
          /\ events'[n + 1] = event
      BY <1>a, <1>1, <1>3 DEF TypeOK
    <3> HIDE DEF n
    <3>5. \A i \in DOMAIN events' : (i \in DOMAIN events /\ events'[i] = events[i]) \/ events'[i] = event
      BY <3>4
    <3>6. \A i \in DOMAIN events' : events'[i] # stop
      BY <3>1, <3>3, <3>5 DEF StoppedReason, stop
    <3> QED BY <3>6 DEF StoppedReason, stop
  <2> QED BY <1>a, <1>1, <2>1 DEF NoWaiterForgotten, transcriptVars, waiterVars
<1>7. TypeOK'
  <2>1. events' \in Seq([kind: {"Started", "Stopped"}, worker: Workers])
    BY <1>a, <1>1, <1>3 DEF TypeOK
  <2> QED BY <1>a, <1>1, <1>2, <2>1 DEF TypeOK, worldVars, transcriptVars, waiterVars
<1> QED BY <1>a, <1>1, <1>4, <1>5, <1>6, <1>7, SubscriptionsKept, WindowKept DEF ActorInv

\* The caller whose request is handled gets its answer at once.
LEMMA AnsweredAtOnce ==
    ASSUME ActorInv, actor = "running", mailbox # <<>>, mailbox' = Tail(mailbox), Asks(Head(mailbox)),
           Answer({Head(mailbox).from}),
           UNCHANGED <<actor, transcriptVars, events, exit, waiterVars, sub, worldVars>>
    PROVE  ActorInv'
<1>a. TypeOK /\ OneEntryEach /\ NoWaiterForgotten /\ SubscriptionContiguous /\ TranscriptWindow /\ MailboxOfCallers
  BY DEF ActorInv
<1> DEFINE c == Head(mailbox).from
<1>1. c \in Callers /\ caller[c] = "asking" /\ Tail(mailbox) \in Seq(Message)
  BY <1>a, HeadMessage
<1>2. /\ caller' \in [Callers -> CallerStates]
      /\ \A d \in Callers : caller'[d] = IF d \in {c} THEN "answered" ELSE caller[d]
  BY <1>a, AnswerFacts
<1>3. OneEntryEach'
  BY <1>a, <1>1, <1>2, ListsKept
<1>4. MailboxOfCallers'
  BY <1>a, <1>1, <1>2, MailTaken
<1>5. TypeOK'
  BY <1>a, <1>1, <1>2 DEF TypeOK, worldVars, transcriptVars, waiterVars
<1> QED BY <1>a, <1>3, <1>4, <1>5, SubscriptionsKept, WindowKept, WaitersKept DEF ActorInv

\* The caller is put on a list, for something that has not happened.
LEMMA Registered ==
    ASSUME ActorInv, actor = "running", mailbox # <<>>, mailbox' = Tail(mailbox), Asks(Head(mailbox)),
           caller' = [caller EXCEPT ![Head(mailbox).from] = "waiting"],
           \/ /\ \E needle \in Nat : /\ ~Contains(deltas, needle)
                                     /\ waiters' = waiters \cup
                                          {[from |-> Head(mailbox).from, needle |-> needle, since |-> total]}
              /\ UNCHANGED <<exitWaiters, workerWaiters>>
           \/ /\ exitWaiters' = exitWaiters \cup {Head(mailbox).from} /\ ~exit
              /\ UNCHANGED <<waiters, workerWaiters>>
           \/ /\ \E w \in Workers : /\ ~StoppedReason(w)
                                    /\ workerWaiters' = workerWaiters \cup
                                         {[from |-> Head(mailbox).from, worker |-> w]}
              /\ UNCHANGED <<waiters, exitWaiters>>,
           UNCHANGED <<actor, transcriptVars, events, exit, sub, worldVars>>
    PROVE  ActorInv'
<1>a. TypeOK /\ OneEntryEach /\ NoWaiterForgotten /\ SubscriptionContiguous /\ TranscriptWindow /\ MailboxOfCallers
  BY DEF ActorInv
<1> DEFINE c == Head(mailbox).from
<1>1. c \in Callers /\ caller[c] = "asking" /\ Tail(mailbox) \in Seq(Message) /\ total \in Nat
        /\ caller' = [caller EXCEPT ![c] = "waiting"] /\ Asks(Head(mailbox))
  BY <1>a, HeadMessage DEF TypeOK
<1>k. /\ UNCHANGED <<exit, events>> /\ deltas' = deltas /\ total' = total
      /\ \A w : StoppedReason(w)' <=> StoppedReason(w)
  BY DEF transcriptVars, StoppedReason
<1>2. /\ OneEntryEach' /\ caller' \in [Callers -> CallerStates]
      /\ \A d \in Callers : d # c => caller'[d] = caller[d]
      /\ NoWaiterForgotten'
      /\ waiters' \in SUBSET [from: Callers, needle: Nat, since: Nat]
      /\ exitWaiters' \in SUBSET Callers
      /\ workerWaiters' \in SUBSET [from: Callers, worker: Workers]
  <2>t. /\ waiters \in SUBSET [from: Callers, needle: Nat, since: Nat] /\ exitWaiters \in SUBSET Callers
        /\ workerWaiters \in SUBSET [from: Callers, worker: Workers]
    BY <1>a DEF TypeOK
  <2>1. ASSUME NEW needle \in Nat, ~Contains(deltas, needle),
               waiters' = waiters \cup {[from |-> c, needle |-> needle, since |-> total]},
               UNCHANGED <<exitWaiters, workerWaiters>>
        PROVE  <1>2!:
    <3> DEFINE w == [from |-> c, needle |-> needle, since |-> total]
    <3>1. w.from = c /\ w.needle = needle /\ w.since = total /\ waiters' = waiters \cup {w}
            /\ w \in [from: Callers, needle: Nat, since: Nat]
      BY <1>1, <2>1
    <3> HIDE DEF w, c
    <3>2. /\ OneEntryEach' /\ caller' \in [Callers -> CallerStates]
          /\ \A d \in Callers : d # c => caller'[d] = caller[d]
      BY <1>a, <1>1, <2>1, <3>1, WaiterAdded
    <3>3. needle \notin RetainedBytes(deltas) /\ needle \notin (total + 1) .. total
      BY <1>1, <2>1 DEF Contains
    <3>4. \A x \in waiters' : x \in waiters \/ x = w
      BY <3>1
    <3>5. NoWaiterForgotten'
      BY <1>a, <1>k, <2>1, <3>1, <3>3, <3>4 DEF NoWaiterForgotten
    <3> QED BY <2>1, <2>t, <3>1, <3>2, <3>5
  <2>2. ASSUME exitWaiters' = exitWaiters \cup {c}, ~exit, UNCHANGED <<waiters, workerWaiters>>
        PROVE  <1>2!:
    <3> HIDE DEF c
    <3>1. /\ OneEntryEach' /\ caller' \in [Callers -> CallerStates]
          /\ \A d \in Callers : d # c => caller'[d] = caller[d]
      BY <1>a, <1>1, <2>2, WaiterAdded
    <3>2. NoWaiterForgotten'
      BY <1>a, <1>k, <2>2 DEF NoWaiterForgotten
    <3> QED BY <1>1, <2>2, <2>t, <3>1, <3>2
  <2>3. ASSUME NEW x \in Workers, ~StoppedReason(x),
               workerWaiters' = workerWaiters \cup {[from |-> c, worker |-> x]},
               UNCHANGED <<waiters, exitWaiters>>
        PROVE  <1>2!:
    <3> DEFINE w == [from |-> c, worker |-> x]
    <3>1. w.from = c /\ w.worker = x /\ workerWaiters' = workerWaiters \cup {w}
            /\ w \in [from: Callers, worker: Workers]
      BY <1>1, <2>3
    <3> HIDE DEF w, c
    <3>2. /\ OneEntryEach' /\ caller' \in [Callers -> CallerStates]
          /\ \A d \in Callers : d # c => caller'[d] = caller[d]
      BY <1>a, <1>1, <2>3, <3>1, WaiterAdded
    <3>3. NoWaiterForgotten'
      BY <1>a, <1>k, <2>3, <3>1 DEF NoWaiterForgotten
    <3> QED BY <2>3, <2>t, <3>1, <3>2, <3>3
  <2> QED BY <2>1, <2>2, <2>3
<1>3. MailboxOfCallers'
  BY <1>a, <1>1, <1>2, MailTaken
<1>4. TypeOK'
  BY <1>a, <1>1, <1>2 DEF TypeOK, worldVars, transcriptVars
<1> QED BY <1>a, <1>2, <1>3, <1>4, SubscriptionsKept, WindowKept DEF ActorInv

\* The three kinds of waiting.
LEMMA WaitSteps ==
    ASSUME ActorInv, HandleWaitForText \/ HandleWaitForExit \/ HandleWaitForWorkerStop
    PROVE  ActorInv'
<1>a. TypeOK /\ MailboxOfCallers
  BY DEF ActorInv
<1> DEFINE m == Head(mailbox)
<1>b. /\ actor = "running" /\ mailbox # <<>> /\ mailbox' = Tail(mailbox) /\ Asks(m)
      /\ UNCHANGED <<actor, transcriptVars, events, exit, sub, worldVars>>
  BY DEF HandleWaitForText, HandleWaitForExit, HandleWaitForWorkerStop, Handles, Asks
<1>c. m \in Message
  BY <1>a, <1>b, HeadMessage
<1>1. CASE HandleWaitForText
  <2>1. m.op = "WaitForTranscriptText" /\ m.needle \in Nat /\ UNCHANGED <<exitWaiters, workerWaiters>>
    BY <1>1, <1>c, MessageFields, TerminalCellAssumption DEF HandleWaitForText, Handles, TerminalCellAssumption
  <2>2. CASE Contains(deltas, m.needle)
    <3>1. Answer({m.from}) /\ UNCHANGED waiterVars
      BY <1>1, <2>1, <2>2 DEF HandleWaitForText, waiterVars
    <3> QED BY <1>b, <3>1, AnsweredAtOnce
  <2>3. CASE ~Contains(deltas, m.needle)
    <3>1. /\ caller' = [caller EXCEPT ![m.from] = "waiting"]
          /\ waiters' = waiters \cup {[from |-> m.from, needle |-> m.needle, since |-> total]}
      BY <1>1, <2>3 DEF HandleWaitForText
    <3> QED BY <1>b, <2>1, <2>3, <3>1, Registered
  <2> QED BY <2>2, <2>3
<1>2. CASE HandleWaitForExit
  <2>2. CASE exit
    <3>1. Answer({m.from}) /\ UNCHANGED waiterVars
      BY <1>2, <2>2 DEF HandleWaitForExit, waiterVars
    <3> QED BY <1>b, <3>1, AnsweredAtOnce
  <2>3. CASE ~exit
    <3>1. /\ caller' = [caller EXCEPT ![m.from] = "waiting"]
          /\ exitWaiters' = exitWaiters \cup {m.from} /\ UNCHANGED <<waiters, workerWaiters>>
      BY <1>2, <2>3 DEF HandleWaitForExit
    <3> QED BY <1>b, <2>3, <3>1, Registered
  <2> QED BY <2>2, <2>3
<1>3. CASE HandleWaitForWorkerStop
  <2>1. m.op = "WaitForTerminalWorkerStop" /\ m.worker \in Workers /\ UNCHANGED <<waiters, exitWaiters>>
    BY <1>3, <1>c, MessageFields DEF HandleWaitForWorkerStop, Handles
  <2>2. CASE StoppedReason(m.worker)
    <3>1. Answer({m.from}) /\ UNCHANGED waiterVars
      BY <1>3, <2>1, <2>2 DEF HandleWaitForWorkerStop, waiterVars
    <3> QED BY <1>b, <3>1, AnsweredAtOnce
  <2>3. CASE ~StoppedReason(m.worker)
    <3>1. /\ caller' = [caller EXCEPT ![m.from] = "waiting"]
          /\ workerWaiters' = workerWaiters \cup {[from |-> m.from, worker |-> m.worker]}
      BY <1>3, <2>3 DEF HandleWaitForWorkerStop
    <3> QED BY <1>b, <2>1, <2>3, <3>1, Registered
  <2> QED BY <2>2, <2>3
<1> QED BY <1>1, <1>2, <1>3

\* The panic on an empty text leaves nobody on a list.
LEMMA EmptyTextStep ==
    ASSUME ActorInv, HandleWaitForEmptyText
    PROVE  ActorInv'
<1>a. TypeOK /\ OneEntryEach /\ NoWaiterForgotten /\ SubscriptionContiguous /\ TranscriptWindow /\ MailboxOfCallers
  BY DEF ActorInv
<1>1. /\ actor = "running" /\ mailbox # <<>> /\ mailbox' = Tail(mailbox)
      /\ actor' = "stopped" /\ waiters' = {} /\ exitWaiters' = {} /\ workerWaiters' = {}
      /\ caller' = [c \in Callers |->
                      IF caller[c] \in {"asking", "waiting"} THEN "refused" ELSE caller[c]]
      /\ child' = (IF child = "running" THEN "exited" ELSE child)
      /\ UNCHANGED <<transcriptVars, events, exit, sub, worker, chunks>>
  BY DEF HandleWaitForEmptyText, Handles
<1>2. Tail(mailbox) \in Seq(Message)
  BY <1>a, <1>1, HeadMessage
<1>3. caller' \in [Callers -> CallerStates] /\ \A c \in Callers : caller'[c] # "waiting"
  BY <1>a, <1>1 DEF TypeOK, CallerStates
<1>4. OneEntryEach'
  BY <1>1, <1>3, FS_EmptySet DEF OneEntryEach, Listed
<1>5. MailboxOfCallers'
  BY <1>1 DEF MailboxOfCallers
<1>6. NoWaiterForgotten'
  BY <1>1 DEF NoWaiterForgotten
<1>7. TypeOK'
  BY <1>a, <1>1, <1>2, <1>3 DEF TypeOK, transcriptVars
<1> QED BY <1>a, <1>1, <1>4, <1>5, <1>6, <1>7, SubscriptionsKept, WindowKept DEF ActorInv

\* A subscription starts with a replay that ends where its receiver begins.
LEMMA SubscribeStep ==
    ASSUME ActorInv, actor = "running", mailbox # <<>>, mailbox' = Tail(mailbox), Asks(Head(mailbox)),
           NEW stream \in {"transcript", "lifecycle"}, NEW replay \in Seq(Nat), NEW end \in Nat,
           \A i \in 1 .. Len(replay) - 1 : replay[i + 1] = replay[i] + 1,
           replay # <<>> => replay[Len(replay)] = end,
           Subscribe(Head(mailbox).from, stream, replay, end),
           UNCHANGED <<actor, transcriptVars, events, exit, waiterVars, worldVars>>
    PROVE  ActorInv'
<1>a. TypeOK /\ OneEntryEach /\ NoWaiterForgotten /\ SubscriptionContiguous /\ TranscriptWindow /\ MailboxOfCallers
  BY DEF ActorInv
<1> DEFINE c == Head(mailbox).from
           entry == [of |-> stream, next |-> end + 1, got |-> replay, retracted |-> FALSE]
<1>1. c \in Callers /\ caller[c] = "asking" /\ Tail(mailbox) \in Seq(Message)
  BY <1>a, HeadMessage
<1>2. sub' = [sub EXCEPT ![c] = entry] /\ caller' = [caller EXCEPT ![c] = "streaming"]
  BY DEF Subscribe
<1>3. /\ entry \in [of: {"none", "transcript", "lifecycle"}, next: Nat, got: Seq(Nat), retracted: BOOLEAN]
      /\ entry.got = replay /\ entry.next = end + 1
  OBVIOUS
<1> HIDE DEF entry, c
<1>4. /\ sub' \in [Callers -> [of: {"none", "transcript", "lifecycle"}, next: Nat,
                               got: Seq(Nat), retracted: BOOLEAN]]
      /\ \A d \in Callers : sub'[d] = IF d = c THEN entry ELSE sub[d]
  BY <1>a, <1>1, <1>2, <1>3 DEF TypeOK
<1>5. /\ caller' \in [Callers -> CallerStates]
      /\ \A d \in Callers : caller'[d] = IF d = c THEN "streaming" ELSE caller[d]
  BY <1>a, <1>1, <1>2, CallerMoves DEF CallerStates
<1>6. OneEntryEach'
  BY <1>a, <1>1, <1>5, ListsKept
<1>7. MailboxOfCallers'
  BY <1>a, <1>1, <1>5, MailTaken DEF c
<1>8. SubscriptionContiguous'
  <2> SUFFICES ASSUME NEW d \in Callers
               PROVE  /\ \A i \in 1 .. Len(sub'[d].got) - 1 : sub'[d].got[i + 1] = sub'[d].got[i] + 1
                      /\ sub'[d].got # <<>> => sub'[d].got[Len(sub'[d].got)] + 1 = sub'[d].next
    BY DEF SubscriptionContiguous
  <2>1. CASE d # c
    <3>1. sub'[d] = sub[d]
      BY <1>4, <2>1
    <3>2. /\ \A i \in 1 .. Len(sub[d].got) - 1 : sub[d].got[i + 1] = sub[d].got[i] + 1
          /\ sub[d].got # <<>> => sub[d].got[Len(sub[d].got)] + 1 = sub[d].next
      BY <1>a DEF SubscriptionContiguous
    <3> QED BY <3>1, <3>2, Zenon
  <2>2. CASE d = c
    <3>1. sub'[d].got = replay /\ sub'[d].next = end + 1
      BY <1>3, <1>4, <2>2
    <3> QED BY <3>1
  <2> QED BY <2>1, <2>2
<1>9. TypeOK'
  BY <1>a, <1>1, <1>4, <1>5 DEF TypeOK, worldVars, transcriptVars, waiterVars
<1> QED BY <1>a, <1>6, <1>7, <1>8, <1>9, WindowKept, WaitersKept DEF ActorInv

\* The two kinds of subscription.
LEMMA SubscriptionSteps ==
    ASSUME ActorInv, HandleTranscriptSubscription \/ HandleLifecycleSubscription
    PROVE  ActorInv'
<1>a. TypeOK /\ MailboxOfCallers /\ TranscriptWindow
  BY DEF ActorInv
<1> DEFINE m == Head(mailbox)
<1>b. /\ actor = "running" /\ mailbox # <<>> /\ mailbox' = Tail(mailbox) /\ Asks(m)
      /\ UNCHANGED <<actor, transcriptVars, events, exit, waiterVars, worldVars>>
  BY DEF HandleTranscriptSubscription, HandleLifecycleSubscription, Handles, Asks
<1>c. m \in Message
  BY <1>a, <1>b, HeadMessage
<1>1. CASE HandleTranscriptSubscription
  <2> DEFINE u == ReplayAfter(deltas, m.after)
             replay == [i \in DOMAIN u |-> u[i].sequence]
  <2>1. m.after \in Nat /\ lastSequence \in Nat
    BY <1>1, <1>a, <1>c, MessageFields DEF HandleTranscriptSubscription, Handles, TypeOK
  <2>2. /\ deltas \in Seq(Delta) /\ \A i \in DOMAIN deltas : deltas[i].sequence + Len(deltas) = lastSequence + i
    BY <1>a DEF TranscriptWindow, IsWindow, Scrollback
  <2>3. IsRun(u) /\ (u # <<>> => u[Len(u)].sequence = lastSequence)
    BY <2>1, <2>2, ReplayIsRun
  <2>4. Subscribe(m.from, "transcript", replay, lastSequence)
    BY <1>1 DEF HandleTranscriptSubscription
  <2> HIDE DEF u
  <2>5. /\ u \in Seq(Delta) /\ DOMAIN u = 1 .. Len(u) /\ Len(u) \in Nat
        /\ \A i \in 1 .. Len(u) : u[i] \in Delta /\ u[i].sequence \in Nat
        /\ \A i \in 1 .. (Len(u) - 1) : u[i + 1].sequence = u[i].sequence + 1
    <3>1. u \in Seq(Delta) /\ \A i \in 1 .. (Len(u) - 1) : u[i + 1].sequence = u[i].sequence + 1
      BY <2>3 DEF IsRun
    <3>2. DOMAIN u = 1 .. Len(u) /\ Len(u) \in Nat /\ \A i \in 1 .. Len(u) : u[i] \in Delta
      BY <3>1
    <3>3. \A d \in Delta : d.sequence \in Nat
      BY DEF Delta
    <3> QED BY <3>1, <3>2, <3>3
  <2>6. /\ replay \in Seq(Nat) /\ Len(replay) = Len(u)
        /\ \A i \in 1 .. Len(u) : replay[i] = u[i].sequence
    BY <2>5
  <2> HIDE DEF replay
  <2>7. \A i \in 1 .. Len(replay) - 1 : replay[i + 1] = replay[i] + 1
    <3> SUFFICES ASSUME NEW i \in 1 .. Len(u) - 1 PROVE replay[i + 1] = replay[i] + 1
      BY <2>6
    <3>1. i \in 1 .. Len(u) /\ i + 1 \in 1 .. Len(u)
      BY <2>5
    <3> QED BY <2>5, <2>6, <3>1
  <2>8. replay # <<>> => replay[Len(replay)] = lastSequence
    <3> SUFFICES ASSUME replay # <<>> PROVE replay[Len(replay)] = lastSequence
      OBVIOUS
    <3>1. Len(replay) # 0
      BY <2>6
    <3>2. Len(u) \in 1 .. Len(u) /\ u # <<>>
      BY <2>5, <2>6, <3>1
    <3> QED BY <2>3, <2>6, <3>2
  <2> QED BY <1>b, <2>1, <2>4, <2>6, <2>7, <2>8, SubscribeStep
<1>2. CASE HandleLifecycleSubscription
  <2> DEFINE replay == [i \in DOMAIN events |-> i]
  <2>1. Len(events) \in Nat /\ DOMAIN events = 1 .. Len(events)
    BY <1>a DEF TypeOK
  <2>2. /\ replay \in Seq(Nat) /\ Len(replay) = Len(events)
        /\ \A i \in 1 .. Len(events) : replay[i] = i
    BY <2>1
  <2>3. Subscribe(m.from, "lifecycle", replay, Len(events))
    BY <1>2 DEF HandleLifecycleSubscription
  <2> HIDE DEF replay
  <2>4. /\ \A i \in 1 .. Len(replay) - 1 : replay[i + 1] = replay[i] + 1
        /\ replay # <<>> => replay[Len(replay)] = Len(events)
    <3>1. \A i \in 1 .. Len(replay) - 1 : i \in 1 .. Len(events) /\ i + 1 \in 1 .. Len(events)
      BY <2>1, <2>2
    <3>2. replay # <<>> => Len(events) \in 1 .. Len(events)
      BY <2>1, <2>2
    <3> QED BY <2>2, <3>1, <3>2
  <2> QED BY <1>b, <2>1, <2>2, <2>3, <2>4, SubscribeStep
<1> QED BY <1>1, <1>2

-----------------------------------------------------------------------------
(* Theorems.                                                               *)

LEMMA ActorSteps ==
    ASSUME ActorInv, Actor
    PROVE  ActorInv'
<1>1. CASE HandleQuery
  <2>1. /\ actor = "running" /\ mailbox # <<>> /\ mailbox' = Tail(mailbox) /\ Asks(Head(mailbox))
        /\ Answer({Head(mailbox).from})
        /\ UNCHANGED <<actor, transcriptVars, events, exit, waiterVars, sub, worldVars>>
    BY <1>1 DEF HandleQuery, Handles, Asks
  <2> QED BY <2>1, AnsweredAtOnce
<1> QED BY <1>1, OutputStep, ExitedStep, StartedStep, StoppedStep, WaitSteps, EmptyTextStep,
           SubscriptionSteps DEF Actor

\* The invariant holds initially.
LEMMA InitActorInv == Init => ActorInv
<1> SUFFICES ASSUME Init PROVE ActorInv
  OBVIOUS
<1> USE DEF Init
<1>1. TypeOK
  <2>1. sub \in [Callers -> [of: {"none", "transcript", "lifecycle"}, next: Nat,
                              got: Seq(Nat), retracted: BOOLEAN]]
    BY DEF NoSubscription
  <2>2. worker \in [Workers -> [up: Nat, starts: Nat]] /\ caller \in [Callers -> CallerStates]
    BY DEF CallerStates
  <2>3. /\ mailbox \in Seq(Message) /\ deltas \in Seq([sequence: Nat, from: Nat, to: Nat])
        /\ events \in Seq([kind: {"Started", "Stopped"}, worker: Workers])
    OBVIOUS
  <2>4. /\ waiters \in SUBSET [from: Callers, needle: Nat, since: Nat]
        /\ exitWaiters \in SUBSET Callers /\ workerWaiters \in SUBSET [from: Callers, worker: Workers]
    OBVIOUS
  <2>5. /\ actor \in {"running", "stopped"} /\ child \in {"running", "exited", "told"} /\ chunks \in Nat
        /\ retained \in Nat /\ lastSequence \in Nat /\ total \in Nat /\ exit \in BOOLEAN
    OBVIOUS
  <2> QED BY <2>1, <2>2, <2>3, <2>4, <2>5, Zenon DEF TypeOK
<1>2. TranscriptWindow
  <2>1. ByteCapacity \in Nat \ {0}
    BY TerminalCellAssumption DEF TerminalCellAssumption
  <2>2. Scrollback.deltas = <<>> /\ Scrollback.retained = 0 /\ Scrollback \in [deltas: Seq(Delta), retained: Nat]
    BY DEF Scrollback
  <2>3. RetainedBytes(<<>>) = {} /\ Ordered(<<>>)
    BY DEF RetainedBytes, Ordered
  <2>4. (0 - 0 + 1) .. 0 = {}
    OBVIOUS
  <2> QED BY <2>1, <2>2, <2>3, <2>4 DEF TranscriptWindow, IsWindow, Budgeted
<1>3. MailboxOfCallers /\ NoWaiterForgotten
  BY DEF MailboxOfCallers, NoWaiterForgotten
<1>4. OneEntryEach
  BY FS_EmptySet DEF OneEntryEach, Listed
<1>5. SubscriptionContiguous
  BY DEF SubscriptionContiguous, NoSubscription
<1> QED BY <1>1, <1>2, <1>3, <1>4, <1>5 DEF ActorInv

\* The invariant holds always.
LEMMA ActorInvariant == Spec => []ActorInv
<1>1. ActorInv /\ [Next]_vars => ActorInv'
  <2> SUFFICES ASSUME ActorInv, [Next]_vars PROVE ActorInv'
    OBVIOUS
  <2>1. CASE UNCHANGED vars
    <3>1. UNCHANGED <<actor, mailbox, transcriptVars, events, exit, waiterVars, caller, sub, worldVars>>
      BY <2>1 DEF vars
    <3>2. TypeOK' /\ MailboxOfCallers'
      BY <3>1 DEF ActorInv, TypeOK, MailboxOfCallers, transcriptVars, waiterVars, worldVars
    <3> QED BY <3>1, <3>2, ListsKept, WaitersKept, WindowKept, SubscriptionsKept DEF ActorInv
  <2>2. CASE Next
    BY <2>2, SenderSteps, RequestSteps, SubscriberSteps, ActorSteps DEF Next
  <2> QED BY <2>1, <2>2
<1> QED BY <1>1, InitActorInv, PTL DEF Spec

\* Type correctness.
THEOREM ActorTypeCorrect == Spec => []TypeOK
<1>1. ActorInv => TypeOK
  BY DEF ActorInv
<1> QED BY <1>1, ActorInvariant, PTL

\* For every budget and every sequence of chunks the scrollback is the newest
\* bytes within the budget, all of them, and retained_bytes counts them.
THEOREM ScrollbackIsNewest == Spec => []ScrollbackWindow
<1>1. ActorInv => ScrollbackWindow
  <2> SUFFICES ASSUME ActorInv PROVE ScrollbackWindow
    OBVIOUS
  <2>1. /\ IsWindow(Scrollback, total, lastSequence) /\ Budgeted(Scrollback, total, ByteCapacity)
        /\ total \in Nat /\ lastSequence \in Nat /\ ByteCapacity \in Nat \ {0}
        /\ Scrollback.deltas = deltas /\ Scrollback.retained = retained
    BY TerminalCellAssumption DEF ActorInv, TranscriptWindow, TypeOK, Scrollback, TerminalCellAssumption
  <2>2. /\ RetainedBytes(deltas) = NewestBytes(total, ByteCapacity)
        /\ retained = Cardinality(RetainedBytes(deltas))
    BY <2>1, WindowIsNewest
  <2> QED BY <2>1, <2>2 DEF ScrollbackWindow, IsWindow
<1> QED BY <1>1, ActorInvariant, PTL

\* Nobody is kept waiting for what has happened.
THEOREM WaitersNotForgotten == Spec => []NoWaiterForgotten
<1>1. ActorInv => NoWaiterForgotten
  BY DEF ActorInv
<1> QED BY <1>1, ActorInvariant, PTL

\* A delegated reply is on exactly one list, exactly once, as long as its caller
\* waits for it: none is lost and none is sent twice.
THEOREM RepliesListedOnce == Spec => []WaitingCallersListed
<1>1. ActorInv => WaitingCallersListed
  <2> SUFFICES ASSUME ActorInv PROVE WaitingCallersListed
    OBVIOUS
  <2>1. OneEntryEach /\ TypeOK
    BY DEF ActorInv
  <2> DEFINE text == {w.from : w \in waiters}
             stop == {w.from : w \in workerWaiters}
  <2>2. {c \in Callers : caller[c] = "waiting"} = text \cup exitWaiters \cup stop
    <3>1. \A c \in Callers : caller[c] = "waiting" <=> Listed(c)
      BY <2>1 DEF OneEntryEach
    <3>2. text \subseteq Callers /\ stop \subseteq Callers /\ exitWaiters \subseteq Callers
      BY <2>1 DEF TypeOK
    <3>3. \A c : Listed(c) <=> c \in text \cup exitWaiters \cup stop
      BY DEF Listed
    <3> QED BY <3>1, <3>2, <3>3
  <2>3. text \cap exitWaiters = {} /\ text \cap stop = {} /\ exitWaiters \cap stop = {}
    BY <2>1 DEF OneEntryEach
  <2>4. Cardinality(waiters) = Cardinality(text)
    <3> DEFINE f == [w \in waiters |-> w.from]
    <3>1. f \in Bijection(waiters, text)
      BY <2>1 DEF OneEntryEach, Bijection, Injection, Surjection, IsInjective
    <3>2. ExistsBijection(waiters, text) /\ IsFiniteSet(waiters)
      BY <2>1, <3>1 DEF ExistsBijection, OneEntryEach
    <3> QED BY <3>2, FS_Bijection
  <2>5. Cardinality(workerWaiters) = Cardinality(stop)
    <3> DEFINE f == [w \in workerWaiters |-> w.from]
    <3>1. f \in Bijection(workerWaiters, stop)
      BY <2>1 DEF OneEntryEach, Bijection, Injection, Surjection, IsInjective
    <3>2. ExistsBijection(workerWaiters, stop) /\ IsFiniteSet(workerWaiters)
      BY <2>1, <3>1 DEF ExistsBijection, OneEntryEach
    <3> QED BY <3>2, FS_Bijection
  <2> DEFINE lists == <<text, exitWaiters, stop>>
  <2>6. lists[1] = text /\ lists[2] = exitWaiters /\ lists[3] = stop
    OBVIOUS
  <2> HIDE DEF lists, text, stop
  <2>7. \A i, j \in 1 .. 3 : i # j => lists[i] \cap lists[j] = {}
    <3> SUFFICES ASSUME NEW i \in 1 .. 3, NEW j \in 1 .. 3, i # j PROVE lists[i] \cap lists[j] = {}
      OBVIOUS
    <3>1. (i = 1 \/ i = 2 \/ i = 3) /\ (j = 1 \/ j = 2 \/ j = 3)
      OBVIOUS
    <3> QED BY <2>3, <2>6, <3>1
  <2> QED BY <2>2, <2>4, <2>5, <2>6, <2>7 DEF WaitingCallersListed, lists, text, stop
<1> QED BY <1>1, ActorInvariant, PTL

\* What a subscriber was sent has no gap, no repetition and no reordering.
THEOREM SubscriptionsContiguous == Spec => []SubscriptionContiguous
<1>1. ActorInv => SubscriptionContiguous
  BY DEF ActorInv
<1> QED BY <1>1, ActorInvariant, PTL
=============================================================================
