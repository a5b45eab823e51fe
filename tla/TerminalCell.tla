---------------------------- MODULE TerminalCell ----------------------------
(***************************************************************************)
(* The TerminalCell actor: it owns the transcript, the recorded worker     *)
(* events, the child's exit, and three lists of callers whose answer is    *)
(* delegated until something happens.  Messages reach it through a bounded *)
(* mailbox: worker threads use tell(..).try_send() and ignore a refusal,   *)
(* control connections use ask, which waits for room.  Subscribers read    *)
(* broadcast channels that forget the oldest entry when they are full.     *)
(***************************************************************************)
EXTENDS TerminalTranscript, FiniteSets

CONSTANTS
    Callers,            \* control connections; each makes one request
    Workers,            \* kinds of workers that report their lifecycle
    Restarting,         \* those that start anew: one attach pump per viewer
    Needles,            \* texts callers wait for: the n-th byte, 0 the empty text
    ChunkSizes,         \* bytes per output chunk
    MailboxCapacity,    \* the actor's bounded mailbox
    BroadcastCapacity,  \* of the two broadcast channels
    ByteCapacity,       \* TRANSCRIPT_SCROLLBACK_BYTE_CAPACITY
    MaxChunks,          \* bound: chunks the scriber sends
    MaxStarts           \* bound: starts of one worker

ExitWatcher == "ChildExitWatcher"

ASSUME TerminalCellAssumption ==
    /\ Restarting \subseteq Workers
    /\ Needles \subseteq Nat
    /\ ChunkSizes \subseteq 1 .. ByteCapacity
    /\ {MailboxCapacity, BroadcastCapacity, ByteCapacity} \subseteq Nat \ {0}
    /\ {MaxChunks, MaxStarts} \subseteq Nat

VARIABLES
    actor,          \* "running" or "stopped"
    mailbox,        \* messages not yet handled
    deltas, retained,   \* the transcript: retained deltas and their bytes
    lastSequence,   \* last_sequence; also the length of the delta broadcast
    total,          \* history: bytes appended so far
    events,         \* TerminalWorkerObservation; also the event broadcast
    exit,           \* has the exit status been recorded?
    waiters,        \* callers waiting for text
    exitWaiters,    \* callers waiting for the child's exit
    workerWaiters,  \* callers waiting for a worker to stop
    caller,         \* what each caller is doing
    sub,            \* the subscription of each caller that has one
    worker,         \* threads running and started of each worker kind
    child,          \* the child process and its exit watcher
    chunks          \* chunks the scriber has sent

transcriptVars == <<deltas, retained, lastSequence, total>>
waiterVars == <<waiters, exitWaiters, workerWaiters>>
worldVars == <<worker, child, chunks>>
vars == <<actor, mailbox, transcriptVars, events, exit, waiterVars, caller, sub,
          worldVars>>

\* next: the next broadcast entry to receive; got: the entries passed on.
NoSubscription == [of |-> "none", next |-> 0, got |-> <<>>, retracted |-> FALSE]

Init ==
    /\ actor = "running"
    /\ mailbox = <<>>
    /\ deltas = <<>> /\ retained = 0 /\ lastSequence = 0 /\ total = 0
    /\ events = <<>>
    /\ exit = FALSE
    /\ waiters = {} /\ exitWaiters = {} /\ workerWaiters = {}
    /\ caller = [c \in Callers |-> "idle"]
    /\ sub = [c \in Callers |-> NoSubscription]
    /\ worker = [w \in Workers |-> [up |-> 0, starts |-> 0]]
    /\ child = "running"
    /\ chunks = 0

-----------------------------------------------------------------------------
(* Senders.                                                                *)

HasRoom == Len(mailbox) < MailboxCapacity

\* tell(..).try_send(), result ignored.
TrySend(message) ==
    mailbox' = IF actor = "running" /\ HasRoom THEN Append(mailbox, message)
               ELSE mailbox

\* TranscriptScriber: one notice.
ScriberTells(size) ==
    /\ chunks < MaxChunks
    /\ chunks' = chunks + 1
    /\ TrySend([op |-> "TerminalOutput", size |-> size])
    /\ UNCHANGED <<actor, transcriptVars, events, exit, waiterVars, caller, sub,
                   worker, child>>

\* TerminalWorkerReporter and the data connection's pump reports.
WorkerStarts(w) ==
    /\ worker[w].starts = 0 \/ (w \in Restarting /\ worker[w].starts < MaxStarts)
    /\ worker' = [worker EXCEPT ![w] = [up |-> @.up + 1, starts |-> @.starts + 1]]
    /\ TrySend([op |-> "Started", worker |-> w])
    /\ UNCHANGED <<actor, transcriptVars, events, exit, waiterVars, caller, sub,
                   child, chunks>>

\* Mutant of WorkerStops: a stop is reported by a thread that is not running.
WorkerStopsAgain(w) ==
    /\ w # ExitWatcher \/ child = "told"
    /\ worker' = [worker EXCEPT ![w].up = @ - 1]
    /\ TrySend([op |-> "Stopped", worker |-> w])
    /\ UNCHANGED <<actor, transcriptVars, events, exit, waiterVars, caller, sub,
                   child, chunks>>

WorkerStops(w) ==
    /\ worker[w].up > 0
    /\ w # ExitWatcher \/ child = "told"
    /\ worker' = [worker EXCEPT ![w].up = @ - 1]
    /\ TrySend([op |-> "Stopped", worker |-> w])
    /\ UNCHANGED <<actor, transcriptVars, events, exit, waiterVars, caller, sub,
                   child, chunks>>

\* The child ends by itself.
ChildExits ==
    /\ child = "running"
    /\ child' = "exited"
    /\ UNCHANGED <<actor, mailbox, transcriptVars, events, exit, waiterVars, caller,
                   sub, worker, chunks>>

\* The exit watcher returns from wait and tells the actor; it then stops.
ExitWatcherTells ==
    /\ child = "exited"
    /\ worker[ExitWatcher].up > 0
    /\ child' = "told"
    /\ TrySend([op |-> "TerminalExited"])
    /\ UNCHANGED <<actor, transcriptVars, events, exit, waiterVars, caller, sub,
                   worker, chunks>>

\* ask: wait for room, then for the reply; an actor that is gone refuses.
Ask(c, message) ==
    /\ caller[c] = "idle"
    /\ \/ /\ actor = "running" /\ HasRoom
          /\ mailbox' = Append(mailbox, message)
          /\ caller' = [caller EXCEPT ![c] = "asking"]
       \/ /\ actor = "stopped"
          /\ mailbox' = mailbox
          /\ caller' = [caller EXCEPT ![c] = "refused"]
    /\ UNCHANGED <<actor, transcriptVars, events, exit, waiterVars, sub, worldVars>>

Request(c) ==
    \/ \E n \in Needles : Ask(c, [op |-> "WaitForTranscriptText", from |-> c, needle |-> n])
    \/ Ask(c, [op |-> "WaitForTerminalExit", from |-> c])
    \/ \E w \in Workers : Ask(c, [op |-> "WaitForTerminalWorkerStop", from |-> c, worker |-> w])
    \/ \E s \in {0, lastSequence} :
          Ask(c, [op |-> "TranscriptSubscription", from |-> c, after |-> s])
    \/ Ask(c, [op |-> "LifecycleSubscription", from |-> c])
    \/ Ask(c, [op |-> "Query", from |-> c])

-----------------------------------------------------------------------------
(* Handlers.                                                               *)

Handles(op) ==
    /\ actor = "running"
    /\ mailbox # <<>>
    /\ Head(mailbox).op = op
    /\ mailbox' = Tail(mailbox)

Answer(callers) ==
    caller' = [c \in Callers |-> IF c \in callers THEN "answered" ELSE caller[c]]

\* notify_waiters: answer those whose text is in the scrollback, keep the others.
NotifyWaiters(scrollback) ==
    LET matched == {w \in waiters : Contains(scrollback, w.needle)} IN
    /\ Answer({w.from : w \in matched})
    /\ waiters' = waiters \ matched

\* notify_exit_waiters: answer them all.
NotifyExitWaiters == Answer(exitWaiters) /\ exitWaiters' = {}

\* notify_worker_waiters: answer those who wait for this worker.
NotifyWorkerWaiters(w) ==
    LET matched == {x \in workerWaiters : x.worker = w} IN
    /\ Answer({x.from : x \in matched})
    /\ workerWaiters' = workerWaiters \ matched

\* Mutant of HandleOutput: the text waiters are not looked at.
HandleOutputUnnoticed ==
    /\ Handles("TerminalOutput")
    /\ LET delta == [sequence |-> lastSequence + 1, from |-> total + 1,
                     to |-> total + Head(mailbox).size]
           after == AppendDelta([deltas |-> deltas, retained |-> retained],
                                delta, ByteCapacity)
       IN  /\ deltas' = after.deltas
           /\ retained' = after.retained
           /\ lastSequence' = delta.sequence
           /\ total' = delta.to
    /\ UNCHANGED <<actor, events, exit, waiterVars, caller, sub, worldVars>>

\* Append, broadcast the delta, answer the waiters whose text is there now.
HandleOutput ==
    /\ Handles("TerminalOutput")
    /\ LET delta == [sequence |-> lastSequence + 1, from |-> total + 1,
                     to |-> total + Head(mailbox).size]
           after == AppendDelta([deltas |-> deltas, retained |-> retained],
                                delta, ByteCapacity)
       IN  /\ deltas' = after.deltas
           /\ retained' = after.retained
           /\ lastSequence' = delta.sequence
           /\ total' = delta.to
           /\ NotifyWaiters(after.deltas)
    /\ UNCHANGED <<actor, events, exit, exitWaiters, workerWaiters, sub, worldVars>>

\* Mutant of HandleExited: the answered callers stay in the list.
HandleExitedKeepsWaiters ==
    /\ Handles("TerminalExited")
    /\ exit' = TRUE
    /\ Answer(exitWaiters)
    /\ UNCHANGED <<actor, transcriptVars, events, waiterVars, sub, worldVars>>

\* Record the exit, answer everyone who waits for it.
HandleExited ==
    /\ Handles("TerminalExited")
    /\ exit' = TRUE
    /\ NotifyExitWaiters
    /\ UNCHANGED <<actor, transcriptVars, events, waiters, workerWaiters, sub,
                   worldVars>>

Record(kind) == events' = Append(events, [kind |-> kind, worker |-> Head(mailbox).worker])

HandleStarted ==
    /\ Handles("Started")
    /\ Record("Started")
    /\ UNCHANGED <<actor, transcriptVars, exit, waiterVars, caller, sub, worldVars>>

\* A stop answers the callers waiting for it, then is recorded and broadcast.
HandleStopped ==
    /\ Handles("Stopped")
    /\ NotifyWorkerWaiters(Head(mailbox).worker)
    /\ Record("Stopped")
    /\ UNCHANGED <<actor, transcriptVars, exit, waiters, exitWaiters, sub, worldVars>>

\* contains on a non-empty text: answer now, or register the caller.
HandleWaitForText ==
    /\ Handles("WaitForTranscriptText")
    /\ LET c == Head(mailbox).from
           needle == Head(mailbox).needle
       IN  /\ needle # 0
           /\ IF Contains(deltas, needle)
              THEN Answer({c}) /\ waiters' = waiters
              ELSE /\ caller' = [caller EXCEPT ![c] = "waiting"]
                   /\ waiters' = waiters \cup
                        {[from |-> c, needle |-> needle, since |-> total]}
    /\ UNCHANGED <<actor, transcriptVars, events, exit, exitWaiters, workerWaiters,
                   sub, worldVars>>

\* Mutant of HandleWaitForEmptyText: queued and delegated replies are kept.
HandleWaitForEmptyTextSilently ==
    /\ Handles("WaitForTranscriptText") /\ Head(mailbox).needle = 0
    /\ actor' = "stopped"
    /\ child' = IF child = "running" THEN "exited" ELSE child
    /\ UNCHANGED <<transcriptVars, events, exit, waiterVars, caller, sub, worker,
                   chunks>>

\* contains on the empty text: windows(0) panics and the actor stops.  All that
\* is queued or registered goes with it, and on_stop kills the child.
HandleWaitForEmptyText ==
    /\ Handles("WaitForTranscriptText") /\ Head(mailbox).needle = 0
    /\ actor' = "stopped"
    /\ waiters' = {} /\ exitWaiters' = {} /\ workerWaiters' = {}
    /\ caller' = [c \in Callers |->
                    IF caller[c] \in {"asking", "waiting"} THEN "refused" ELSE caller[c]]
    /\ child' = IF child = "running" THEN "exited" ELSE child
    /\ UNCHANGED <<transcriptVars, events, exit, sub, worker, chunks>>

HandleWaitForExit ==
    /\ Handles("WaitForTerminalExit")
    /\ LET c == Head(mailbox).from IN
       IF exit THEN Answer({c}) /\ exitWaiters' = exitWaiters
       ELSE /\ caller' = [caller EXCEPT ![c] = "waiting"]
            /\ exitWaiters' = exitWaiters \cup {c}
    /\ UNCHANGED <<actor, transcriptVars, events, exit, waiters, workerWaiters, sub,
                   worldVars>>

\* stopped_reason: some stop of that worker is on record.
StoppedReason(w) == \E i \in DOMAIN events : events[i] = [kind |-> "Stopped", worker |-> w]

HandleWaitForWorkerStop ==
    /\ Handles("WaitForTerminalWorkerStop")
    /\ LET c == Head(mailbox).from
           w == Head(mailbox).worker
       IN  IF StoppedReason(w) THEN Answer({c}) /\ workerWaiters' = workerWaiters
           ELSE /\ caller' = [caller EXCEPT ![c] = "waiting"]
                /\ workerWaiters' = workerWaiters \cup {[from |-> c, worker |-> w]}
    /\ UNCHANGED <<actor, transcriptVars, events, exit, waiters, exitWaiters, sub,
                   worldVars>>

\* Mutant of Subscribe: the receiver starts at the last replayed entry.
SubscribeAtEnd(c, stream, replay, end) ==
    /\ sub' = [sub EXCEPT ![c] = [of |-> stream, next |-> end, got |-> replay, retracted |-> FALSE]]
    /\ caller' = [caller EXCEPT ![c] = "streaming"]

\* The reply holds the replay and a receiver that starts at the broadcast's
\* present end; the connection writes the replay out first.
Subscribe(c, stream, replay, end) ==
    /\ sub' = [sub EXCEPT ![c] = [of |-> stream, next |-> end + 1, got |-> replay, retracted |-> FALSE]]
    /\ caller' = [caller EXCEPT ![c] = "streaming"]

HandleTranscriptSubscription ==
    /\ Handles("TranscriptSubscription")
    /\ LET replay == ReplayAfter(deltas, Head(mailbox).after) IN
       Subscribe(Head(mailbox).from, "transcript",
                 [i \in DOMAIN replay |-> replay[i].sequence], lastSequence)
    /\ UNCHANGED <<actor, transcriptVars, events, exit, waiterVars, worldVars>>

HandleLifecycleSubscription ==
    /\ Handles("LifecycleSubscription")
    /\ Subscribe(Head(mailbox).from, "lifecycle", [i \in DOMAIN events |-> i], Len(events))
    /\ UNCHANGED <<actor, transcriptVars, events, exit, waiterVars, worldVars>>

\* Snapshot, exit, worker observation, screen projection: read and answer.
HandleQuery ==
    /\ Handles("Query")
    /\ Answer({Head(mailbox).from})
    /\ UNCHANGED <<actor, transcriptVars, events, exit, waiterVars, sub, worldVars>>

-----------------------------------------------------------------------------
(* Subscribers: stream_subscription and stream_signal_worker_lifecycle.    *)

BroadcastEnd(c) == IF sub[c].of = "transcript" THEN lastSequence ELSE Len(events)
Lagged(c) == BroadcastEnd(c) >= sub[c].next + BroadcastCapacity

\* blocking_next_live_delta returns the next entry, which is written out.
ReceiveLive(c) ==
    /\ caller[c] = "streaming"
    /\ sub[c].next <= BroadcastEnd(c)
    /\ ~Lagged(c)
    /\ sub' = [sub EXCEPT ![c].got = Append(@, sub[c].next), ![c].next = @ + 1]
    /\ UNCHANGED <<actor, mailbox, transcriptVars, events, exit, waiterVars, caller,
                   worldVars>>

\* ... or cannot be written, because the client is gone: the handler returns.
SubscriberGone(c) ==
    /\ caller[c] = "streaming"
    /\ sub[c].next <= BroadcastEnd(c)
    /\ ~Lagged(c)
    /\ caller' = [caller EXCEPT ![c] = "ended"]
    /\ UNCHANGED <<actor, mailbox, transcriptVars, events, exit, waiterVars, sub,
                   worldVars>>

\* TerminalWorkerLifecycleRetraction: the token comes back on the connection of
\* the retraction, and nothing else is done.
Retract(c) ==
    /\ caller[c] = "streaming" /\ sub[c].of = "lifecycle" /\ ~sub[c].retracted
    /\ sub' = [sub EXCEPT ![c].retracted = TRUE]
    /\ UNCHANGED <<actor, mailbox, transcriptVars, events, exit, waiterVars, caller,
                   worldVars>>

\* Mutant of StreamEnds: a receiver that lags is not ended.
StreamEndsOnClose(c) ==
    /\ caller[c] = "streaming"
    /\ actor = "stopped" /\ sub[c].next > BroadcastEnd(c)
    /\ caller' = [caller EXCEPT ![c] = "ended"]
    /\ UNCHANGED <<actor, mailbox, transcriptVars, events, exit, waiterVars, sub,
                   worldVars>>

\* recv().ok() turns Lagged, and Closed once everything was read, into the end
\* of the stream.
StreamEnds(c) ==
    /\ caller[c] = "streaming"
    /\ Lagged(c) \/ (actor = "stopped" /\ sub[c].next > BroadcastEnd(c))
    /\ caller' = [caller EXCEPT ![c] = "ended"]
    /\ UNCHANGED <<actor, mailbox, transcriptVars, events, exit, waiterVars, sub,
                   worldVars>>

-----------------------------------------------------------------------------
Actor ==
    \/ HandleOutput
    \/ HandleExited
    \/ HandleStarted
    \/ HandleStopped
    \/ HandleWaitForText
    \/ HandleWaitForEmptyText
    \/ HandleWaitForExit
    \/ HandleWaitForWorkerStop
    \/ HandleTranscriptSubscription
    \/ HandleLifecycleSubscription
    \/ HandleQuery

Worker(w) == WorkerStarts(w) \/ WorkerStops(w)

Subscriber(c) == ReceiveLive(c) \/ SubscriberGone(c) \/ StreamEnds(c)

Next ==
    \/ \E size \in ChunkSizes : ScriberTells(size)
    \/ \E w \in Workers : Worker(w)
    \/ ChildExits
    \/ ExitWatcherTells
    \/ \E c \in Callers : Request(c) \/ Subscriber(c) \/ Retract(c)
    \/ Actor

\* The actor's task, the exit watcher's thread and the subscribers' connection
\* threads keep running.
Fairness ==
    /\ WF_vars(Actor)
    /\ WF_vars(ExitWatcherTells)
    /\ \A c \in Callers : WF_vars(Subscriber(c))

Spec == Init /\ [][Next]_vars /\ Fairness

-----------------------------------------------------------------------------
(* Properties.                                                             *)

Message ==
    [op: {"TerminalOutput"}, size: ChunkSizes]
        \cup [op: {"TerminalExited"}]
        \cup [op: {"Started", "Stopped"}, worker: Workers]
        \cup [op: {"WaitForTranscriptText"}, from: Callers, needle: Needles]
        \cup [op: {"WaitForTerminalExit", "LifecycleSubscription", "Query"}, from: Callers]
        \cup [op: {"WaitForTerminalWorkerStop"}, from: Callers, worker: Workers]
        \cup [op: {"TranscriptSubscription"}, from: Callers, after: Nat]

CallerStates == {"idle", "asking", "waiting", "answered", "refused", "streaming", "ended"}

TypeOK ==
    /\ actor \in {"running", "stopped"}
    /\ mailbox \in Seq(Message)
    /\ deltas \in Seq([sequence: Nat, from: Nat, to: Nat])
    /\ retained \in Nat /\ lastSequence \in Nat /\ total \in Nat
    /\ events \in Seq([kind: {"Started", "Stopped"}, worker: Workers])
    /\ exit \in BOOLEAN
    /\ waiters \in SUBSET [from: Callers, needle: Nat, since: Nat]
    /\ exitWaiters \in SUBSET Callers
    /\ workerWaiters \in SUBSET [from: Callers, worker: Workers]
    /\ caller \in [Callers -> CallerStates]
    /\ sub \in [Callers -> [of: {"none", "transcript", "lifecycle"}, next: Nat,
                            got: Seq(Nat), retracted: BOOLEAN]]
    /\ worker \in [Workers -> [up: Nat, starts: Nat]]
    /\ child \in {"running", "exited", "told"}
    /\ chunks \in Nat

\* The scrollback is the newest bytes within the budget, all of them, in deltas
\* numbered without gaps up to the last sequence, and retained_bytes counts them.
ScrollbackWindow ==
    /\ RetainedBytes(deltas) = NewestBytes(total, ByteCapacity)
    /\ retained = Cardinality(RetainedBytes(deltas))
    /\ \A i \in DOMAIN deltas : deltas[i].sequence + Len(deltas) = lastSequence + i

\* Nobody is kept waiting for what has happened: text that is in the scrollback
\* or came in after the caller registered, an exit or a stop on record.
NoWaiterForgotten ==
    /\ \A w \in waiters : /\ w.needle \notin RetainedBytes(deltas)
                          /\ w.needle \notin (w.since + 1) .. total
    /\ exit => exitWaiters = {}
    /\ \A w \in workerWaiters : ~StoppedReason(w.worker)

\* A caller waits for a delegated reply exactly while the actor has it in one
\* of the lists, and in one only: no reply is lost or sent twice.
WaitingCallersListed ==
    LET lists == <<{w.from : w \in waiters}, exitWaiters, {w.from : w \in workerWaiters}>>
    IN  /\ {c \in Callers : caller[c] = "waiting"} = lists[1] \cup lists[2] \cup lists[3]
        /\ \A i, j \in 1 .. 3 : i # j => lists[i] \cap lists[j] = {}
        /\ Cardinality(waiters) = Cardinality(lists[1])
        /\ Cardinality(workerWaiters) = Cardinality(lists[3])

\* What a subscriber has been sent, replay and live entries together, has no
\* gap, no repetition and no reordering, up to the moment its stream ends.
SubscriptionContiguous ==
    \A c \in Callers :
        LET got == sub[c].got IN
        /\ \A i \in 1 .. Len(got) - 1 : got[i + 1] = got[i] + 1
        /\ got # <<>> => got[Len(got)] + 1 = sub[c].next

\* Every request is answered, registered or refused, also when the actor stops.
RequestsHandled == \A c \in Callers : caller[c] = "asking" ~> caller[c] # "asking"

\* A subscriber that keeps up gets every entry: each entry is received, or the
\* stream ends.
SubscribersServed ==
    \A c \in Callers :
        caller[c] = "streaming" /\ sub[c].next <= BroadcastEnd(c) ~>
            caller[c] = "ended" \/ sub[c].next > BroadcastEnd(c)

\* "the server emits a final acknowledgement event and the stream ends": a
\* retraction that was acknowledged ends the lifecycle stream it names.
RetractionEndsStream == \A c \in Callers : sub[c].retracted ~> caller[c] = "ended"
=============================================================================
