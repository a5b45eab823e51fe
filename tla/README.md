# A TLA+ verification of terminal-cell

terminal-cell is a daemon that owns one PTY child, lets one raw viewer attach to
it, and lets programs inject input, wait for output and watch its workers over
a control socket. This directory holds TLA+ modules translated from the Rust
source, TLC configurations that check them on small instances, and theorems
that TLAPS checks for every value of the constants. `PROJECT.json` maps every
definition to the source lines it stands for.

Paths below are relative to the repository: `session.rs` is `src/session.rs`,
`daemon.rs` is `src/daemon.rs`, and so on.

## 1. Inventory of the system

| Component | State | Operations | Talks to |
|---|---|---|---|
| **Input port, writer, gate** (`session.rs` 425-689) | mpsc channel of commands; gate `Open`/`Closed(lease)`; `next_sequence`; held keyboard input; PTY writer | write, close, open (flush held input) | receives from viewer pump and control connections; writes the PTY |
| **Signal control state** (`daemon.rs` 287-367) | prompt patterns; table of leases with their prompt state, under one mutex | register, unregister, list; record, look up, drop a lease | read and written by control connections |
| **Control connection** (`daemon.rs` 373-1051) | one request per connection thread | input, gate close/open, acquire, release, injection, capture, waits, subscriptions, resize, lifecycle | input port, actor, Signal control state |
| **Output port and ViewerFanout** (`session.rs` 691-828, 928-1065) | mpsc channel; viewer slot `Empty`/`Reserved(backlog)`/`Active`; next viewer lease | write bytes, reserve, activate, detach | PTY reader and data connections send; it writes viewers and the notice queue |
| **Transcript-notice queue** (`session.rs` 830-926) | bounded deque, closed flag, drop counter, condition variable | push with drop-oldest, blocking pop, close | ViewerFanout to TranscriptScriber |
| **TranscriptScriber** (`session.rs` 1067-1091) | none | pop a notice, `try_send` it to the actor | queue, actor mailbox |
| **TerminalCell actor** (`session.rs` 1343-1759) | transcript, worker observation, exit, three lists of delegated replies, two broadcast channels | output, exit, worker lifecycle; waits; subscriptions; snapshots; resize | bounded mailbox; reply and broadcast channels |
| **Transcript** (`session.rs` 333-423) | deque of deltas, retained bytes, last sequence | append and reclaim, snapshot, replay after a sequence | inside the actor |
| **Data connection** (`daemon.rs` 1057-1194) | one viewer's socket | attach handshake, pump, detach | output port, actor, input port |
| **Wire protocol** (`socket.rs`), **client** (`client.rs`) | none | encode, decode, one call per connection | control and data sockets |
| **Viewer** (`bin/terminal-cell-view.rs`) | size sent last, pending SIGWINCH | resize at the start and after each signal, pump the data socket | control and data sockets |
| **Engine, session start** (`daemon.rs` 78-248, `schema/daemon.rs`, `session.rs` 1415-1567) | session handle, sockets, `child.pid` | bind, start the workers, accept connections, kill the child on stop | everything |
| **Lifecycle CLI** (`lifecycle_cli.rs`), **session selector** | runtime directories, pid files, sockets | launch, wait until ready, find, close | processes and files |
| **Screen projection** (`snapshot.rs`), **configuration**, **errors**, **one-shot clients**, **fixtures** | little or none | conversions, argument parsing | |

What is hard here:

* **Concurrency.** Every connection has a thread; the gate, the fanout and the
  scriber are threads behind channels; the actor is a task behind a bounded
  mailbox. Handlers check the lease table, drop its mutex and act afterwards.
* **Ordering.** Keyboard bytes pass through a channel, a held queue and a flush.
  Output meets a viewer by three ways: snapshot, reservation backlog, live.
* **Failure.** A PTY write fails while callers wait for replies; a flush fails
  half way; viewers vanish at every point of the attach handshake; the actor
  panics on an empty search text and every delegated reply goes with it; a client
  dies while it writes a request; a daemon dies between binding its sockets and
  recording its child.
* **Limits.** The queue drops its oldest entry, the mailbox refuses the newest
  message, a broadcast receiver that lags is ended, the scrollback is cut at a
  byte budget.
* **Processes and files.** The CLI knows a cell by files that are created first
  and written afterwards, and by pids the kernel may give to somebody else.
* **Liveness.** Reply channels without timeouts, a condition variable, one
  viewer slot that must be given up.

`PROJECT.json` lists these hazards line by line with the properties that watch
them. What makes each component correct:

* *Input*: keyboard bytes in order and lost only by a failed write; one lease at a
  time; injections only under their lease; every request ends.
* *Queue*: bounded, no lost wakeup, every drop counted, the newest notice arrives.
* *Output*: every chunk notified once and in order whatever viewers do; no viewer
  sees a chunk twice; no viewer is evicted; an abandoned slot is freed.
* *Actor*: the scrollback is exactly the newest bytes within the budget; nobody
  waits for what has happened; a delegated reply is sent once; a subscription has
  no gap; every request is handled or refused.
* *Control socket*: a request arrives as it was written or not at all; an answer
  is true of a moment of its call; an identifier never changes its pattern; a
  prompt is judged by the pattern asked for, as of a moment of the call, and is
  clean only if the transcript ends in it (it is not always: `prompt_suffix`); a
  call ends; the cell gets the viewer's
  last size.
* *Lifecycle*: a close that reports termination left nobody behind; a launched
  cell can be found and closed; every command ends.

## 2. Modules

| Module | What it models | Extends / composes |
|---|---|---|
| `InputPlane` | input port, writer thread, gate, lease table and the control requests that reach them | |
| `LossyFifo` | what the notice queue promises, abstractly | |
| `TranscriptNoticeQueue` | the queue, its mutex and condition variable, both ends | instantiates `LossyFifo` |
| `OutputPlane` | PTY reader, fanout, viewer slot, scriber, mailbox, attach handshake | instantiates `TranscriptNoticeQueue` |
| `TerminalTranscript` | append, reclaim, snapshot, replay as operators | |
| `TerminalCell` | the actor, its senders, callers and subscribers | extends `TerminalTranscript` |
| `ControlWire` | requests and replies as they are written and as they are read | |
| `PromptPatterns` | literal and regular-expression suffix checks, as the code makes them | |
| `ControlSocket` | calls from the client's write to its read of the reply; input, resize, capture, prompt patterns; the viewer's resize watcher | extends `ControlWire`, `PromptPatterns` |
| `CellLifecycle` | LaunchCell, CloseCell, the daemon's start-up, processes, pids and files | |
| `MCInputPlane`, `MCTranscriptNoticeQueue`, `MCOutputPlane`, `MCTerminalCell`, `MCControlSocket`, `MCCellLifecycle` | instances for TLC (symmetry sets, inputs) | |
| `InputPlaneProofs` | theorems: types, leases | extends `InputPlane` |
| `InputKeyboardProofs` | theorems: keyboard bytes | extends `InputPlaneProofs` |
| `TranscriptNoticeQueueProofs` | theorems: the queue, and that it implements `LossyFifo` | extends `TranscriptNoticeQueue` |
| `OutputPlaneProofs` | theorems: conservation, the composed queue, slot, transcript, viewers | extends `OutputPlane` |
| `TerminalTranscriptProofs` | theorems: append, reclaim and replay as operators | extends `TerminalTranscript` |
| `TerminalCellProofs` | theorems: scrollback, delegated replies, subscriptions | extends `TerminalCell`, `TerminalTranscriptProofs` |
| `CellLifecycleProofs` | theorems: close and launch | extends `CellLifecycle` |
| `ControlSocketProofs` | theorems: the wire, calls, prompt patterns | extends `ControlSocket` |

Operators headed *Mutant of X* are variants of X with a plausible mistake in
them. No specification uses them: each belongs to one property, which must fail
when X is replaced by it (`mutants` in `PROJECT.json`).

### InputPlane

A control client `c` sends one request after the other, each on a new
connection; `conn[c]` is the handler's place in the code and `holds[c]` the
lease the client was given last. A handler is cut exactly where another thread
can run in between: a send on the channel, the wait for a reply, taking and
dropping the mutex. So `AcquireInputGate` is `SignalPromptState`,
`AcquireSignalInputGate`, the worker's `HandleClose`, and `RecordLease`;
`ReleaseInputGate` is `ReleaseSignalInputGate`, `SendSignalRelease`,
`HandleOpen` or one of its alternatives, and `ForgetLease`; `WriteInjection` is
`WriteSignalInjection` and `AcceptInjection`. Its reply asks the actor for a
snapshot first, which changes nothing here: a client may get an error for bytes
that were accepted. The byte-tag requests of the same
name skip the table. The worker takes one command per step, because nothing
else touches the gate; failing writes are actions of their own
(`HandleWriteFails`, `HandleOpenFlushFails(k)` at the k-th held chunk).

A chunk of bytes is a number (keyboard) or the lease it was injected under. The
prompt state of an acquire is any of the three outcomes: whether a prompt is
clean is not this module's business, that it is decided before the gate closes
is. `SharedLeases` says whether clients may name leases that were not granted
to them; leases are plain numbers and the code does not tie them to a client,
so both are behaviours of the program.

### TranscriptNoticeQueue and LossyFifo

`push_drop_oldest`, `close` and each pass through the loop of `pop_blocking`
hold the mutex from end to end and are one action each. `waiting` is the sleep
on the condition variable, which a push, a close or nothing at all
(`SpuriousWakeup`) ends. `LossyFifo` has no queue: it is two cursors over the
numbered stream, and says that the reader skips a notice only when `Capacity`
newer ones were written before it came round.

### OutputPlane

`outbox` is the channel into the fanout, `slot` the viewer slot, `fanout` the
command the fanout thread is working on. Writing out a backlog is one action per
chunk, because the queue's consumer and the dying viewer run in between; the
other commands are one action. A data connection walks through `reserving`,
`reserved`, `accepted`, `asking`, `replaying`, `activating`, `active`,
`pumping`, and ends in `done` or `rejected`, with `failed` where
`attach_viewer` detaches after an error: the accepted reply or the replay cannot
be written, the actor has stopped (`AskFails`), the stream cannot be cloned, the
reservation is gone, the pump ends with an error. `peer[v]` is the viewer's end: once it
is closed, writes to it fail and reads end, though bytes already sent may be
read first. The actor is reduced to its mailbox, the append and the snapshot.

### TerminalTranscript and TerminalCell

Bytes are numbered in the order of arrival, so a delta is an interval and
trimming moves its lower end; a text a caller waits for is the number of a byte,
and 0 stands for the empty text. Senders use `TrySend` where the code uses
`tell(..).try_send()` and drops the result, and `Ask` where it uses `ask`, which
waits for room. One action per message handler (the read-only
queries share `HandleQuery`); `HandleWaitForEmptyText` is the
panic of `windows(0)`, after which the actor's state is dropped, `on_stop` kills
the child and every pending `ask` fails. A subscriber's receiver is a cursor
into the broadcast stream; falling `BroadcastCapacity` behind is `Lagged`, which
the code turns into the end of the stream. `Workers` may start once, except the
attach pump, which starts anew with each viewer (`Restarting`). A
retraction (`Retract`) marks the subscription it names and changes nothing else,
because the handler answers from the request alone.

### ControlWire, PromptPatterns and ControlSocket

Writers and readers are different code on either side of the socket and are
different operators here: `WriteRequest` and `ReadRequest`, `WriteReply` and
`ReadReply`. Lengths, leases and sizes are big-endian fields of their real
widths; what rkyv makes of a Signal request is one opaque element. A stream that
has ended is a sequence that is too short for the field that is read next.
`Fits(n, width)` says that a length can be written in a field of that many
bytes; the transcript's always can, since it is a `Vec` with a `usize` length.

In `ControlSocket` a call goes from `sent` (the bytes are on the connection)
through `serving` (a daemon thread has read them) to `replied` and back to
`idle`. Each client makes one call at a time, as `client.rs` does. A handler
that has one effect is one action; the check of a prompt is two, because
`signal_prompt_state` takes the pattern under the mutex and asks the actor for
the transcript afterwards (`LookUpPattern`, `CheckPrompt`). `RequestFails` is
every error after the request was read: the thread returns it and the connection
is closed without a reply. `AnsweredElsewhere` stands for the verbs whose effect
is in `InputPlane`, `OutputPlane` or `TerminalCell`, so that their requests and
replies go over the same wire. `effect` records what a call did to the input
port or the PTY, for `AnswersTrue`.

The viewer's watcher sends the size it reads unless it sent that size last. The
kernel's SIGWINCH is one pending bit, and is ignored before `Signals::new`.

`transcript` holds every byte the actor has appended; what a capture returns and
a prompt is checked against is its `Window`, the newest `ByteCapacity` bytes,
which is what `TerminalTranscript` keeps (`ScrollbackWindow`). A capture always
fits a frame: the scrollback is 1 MiB, the limit 16 MiB, and `ControlAssumption`
says no more than that.

In `PromptPatterns` a literal is its bytes. A regular expression is what the
search can tell of one: the words it matches, in the order in which the engine
prefers them, and whether it ends in `$`. Over transcripts of bounded length that
covers every expression whose matches depend on nothing but the bytes matched.
`LastMatchEnd` is `find_iter(..).last()`: leftmost matches, each behind the one
before it.

What the model makes visible and no property forbids: a window change between
the first resize and `Signals::new` is not seen until the next signal; resizes
travel over the control socket, though `ARCHITECTURE.md` 3.6 speaks of the data
socket; a TerminalDetachment is answered and detaches nobody; the reply to a
Signal resize repeats numbers that were cut before they were used.

### CellLifecycle

A runtime directory is four files: two sockets, `daemon.pid`, `child.pid`. A
pid file is absent, created and empty, or written, since `std::fs::write` is not
atomic. A process has a pid, a state (`live`, `zombie`, `gone`) and a pending
signal; the kernel may give a free pid to any new process, a stranger included.
`Collected` says who waits for whom: a daemon stays a zombie until its launcher
has exited, a child until the daemon's exit watcher or init collects it.

kill(1) reaches the process that has the pid then, and a process group by its
leader: daemons and children lead a group each, a stranger may or may not. Other
members of a group are not modelled.

LaunchCell goes through `CreateSession`, `SpawnDaemon`, `CreateDaemonPid`,
`WriteDaemonPid`, the poll (`SeesSockets`, `ReadyTimeout`) and
`ReadLaunchedChild`; CloseCell through `ReadDaemonPid`, `ReadChildPid`, and then
for child and daemon in turn `TerminateChecks`, `SendTerminateToGroup`,
`SendTerminate`, and `WaitSeesExit`, or `WaitExpires`, `SendKillToGroup`,
`SendKill` and `WaitAfterKill`; then a last look at both for the reply, which an
unreadable `session.name` turns into an error (`ReportFails`). A pid may change
hands between any two of these, also between the two signals. A deadline is an
action that may come at any time. Every look at `/proc` is a step
of its own. The daemon may fail, and the child exit, between any two steps.

What the model makes visible and no property forbids: a daemon that fails after
it has bound its sockets is reported as launched; a launch that reads `child.pid`
between its creation and its content fails although the cell runs; a launch that
times out leaves its daemon running; a close that fails over `session.name` has
ended the cell and says nothing of it; a stranger that got the pid of an ended
process is signalled in its place.

## 3. Runs

All runs disable the deadlock check: nobody is obliged to type, to attach or to
send a request, so a system in which every bound is used up may rest. Whether
somebody waits forever is asked by the liveness properties and by
`NoLostWakeup` and `NoWaiterForgotten` instead. Symmetry over clients or viewers is
used only in runs without liveness.

| Run | Checks | Bounds |
|---|---|---|
| `input_leases` | `LeaseExclusion`, `InjectionUnderLease`, `NoOrphanLease` | 2 clients, 2 keyboard chunks, 5 requests, own leases only |
| `input_keyboard` | `TypeOK`, `KeyboardOrder`, `KeyboardConserved`, `HeldOnlyWhileClosed`, `RequestsEnd` | 2 clients naming any lease, 2 keyboard chunks, 3 requests |
| `input_interleaved` | `InjectionNotInterleaved`, **violated** | 2 clients, 1 chunk, 4 requests |
| `notice_queue` | `TypeOK`, `Bounded`, `NoLostWakeup`, `Accounted`, `NewestRun`, `ImplementsLossyFifo` | capacity 2, 6 notices |
| `output_conservation` | `TypeOK`, `OutputConserved`, `TranscriptAccounted`, `ViewerInOrder`, `ReservationKept` | 2 viewers, queue 1, mailbox 1, 3 chunks |
| `output_attach` | `NoEviction`, `SlotFreed` | 2 viewers, 1 key each, queue 1, mailbox 1, 1 chunk |
| `output_replay` | `ReplayMeetsLive`, **violated** | 1 viewer, 3 chunks, nothing ever full |
| `cell_actor` | `TypeOK`, `ScrollbackWindow`, `NoWaiterForgotten`, `WaitingCallersListed`, `SubscriptionContiguous`, `RequestsHandled`, `SubscribersServed` | 2 callers, budget 2 bytes, 2 chunks of 1 or 2 bytes, exit watcher, mailbox 2, broadcast 1 |
| `cell_retraction` | `RetractionEndsStream`, **violated** | 1 caller, 1 chunk, mailbox 1, broadcast 1 |
| `control_socket` | `TypeOK`, `RequestFaithful`, `AnswersTrue`, `PatternsForLife`, `PromptVerdict`, `CallsEnd`, `WatcherCatchesUp` | a byte-tag client, a Signal client and a viewer, frame limit 3, scrollback 3, `MaxEvents` 3 |
| `prompt_suffix` | `PromptSuffixCheck`, **violated** | a Signal client, scrollback 3, `MaxEvents` 5 |
| `cell_lifecycle` | `TypeOK`, `CloseTruthful`, `LaunchedSelectable`, `CommandsEnd`, `CloseEndsCell` | 1 launch, 2 closes, 1 stranger, 2 pids |

Why the bounds are enough to meet the interesting cases. *Input*: five requests
are acquire and inject by one client while the other acquires, and a release
and a second acquire besides; two keyboard chunks can sit on both sides of a
flush, and a flush can fail at either of them. *Queue*: six notices overrun a
queue of two several times, before and after a wakeup. *Output*: with queues of
one every push can drop and every `try_send` can be refused; three chunks can
be one replayed, one in the backlog, one live; two viewers give a stale detach
for somebody else's slot. *Actor*: with a budget of two bytes, chunks of one and two
bytes meet a delta smaller than, equal to and larger than the excess; a broadcast
channel of one lags at the second entry; a mailbox of two refuses when two
callers, or a caller and a worker, are in it, and hands on two messages in the
order they came. Trimming several deltas at once, and a worker that stops and
starts anew, are beyond this run and in the theorems (`AppendKeepsNewest`, and
those on the actor, which hold for any workers). *Control socket*: `MaxEvents` is
one budget for calls, chunks of output, the viewer's start and window changes;
three of them are two registrations and a removal, or a registration, a prompt
check and output before, between or after its steps, or a capture of a transcript
that was trimmed, or a window that changes and changes back while a resize is
under way. One of the patterns is a literal and one an expression whose matches
may overlap. A request may be cut before any of its bytes, texts are as long as the frame
limit and one byte longer, and Signal numbers lie within and outside u16 and
u8. `WatcherCatchesUp` needs the bound: a window that changes for ever is never
caught up with. *Lifecycle*: with two pids every pid that becomes free is the one
the next process gets, and two closes of the same cell signal and check each
other's victims.

### Fairness

Weak fairness is given to what the operating system and the runtime schedule:
the input writer's thread, the fanout's thread, the scriber's thread while it is
not asleep, connection threads within a request, the actor's task, the exit
watcher's thread. None of these waits for anything else without the model
saying so; they do assume that the child drains its PTY and that viewers read
their sockets, since writes to both block. No fairness is given to the child,
the keyboard, clients starting requests, viewers leaving, spurious wakeups or
the queue's producer.

In `ControlSocket` daemon threads, clients within a call and the resize watcher
run on; what a request waits for in another module (`AnsweredElsewhere`) does not
have to come. In `CellLifecycle` the CLI's processes run on and SIGKILL ends a
process; a daemon may hang at every step of its start-up, and daemon and child
may ignore SIGTERM for ever.

### What the violations show

* `input_interleaved`. `ARCHITECTURE.md` section on the input gate:
  "injected bytes are not interleaved with human keyboard bytes". The lease is
  looked up in the table, the mutex dropped, and the bytes are then sent as
  plain programmatic input. A release of the same lease on a second connection
  in between opens the gate, and held keyboard bytes go first. With each lease
  used by one client only this cannot happen (`InjectionUnderLease`, proved).
* `output_replay`. The data connection's comment says history is replayed once
  and bytes after that flow from the fanout. A chunk already notified when the
  slot is reserved, and not yet appended when the snapshot is taken, is in
  neither.
* `cell_retraction`. "Subscription close is a typed retract/close request on the
  same control socket; the server emits a final acknowledgement event and the
  stream ends." The acknowledgement goes to the connection of the retraction,
  no subscription is looked up, and the stream goes on with the next event.
* `prompt_suffix`. `ARCHITECTURE.md`: "literal and regex patterns are suffix checks,
  and trailing bytes after the last match make the prompt dirty"; the registry is
  "used to check whether the transcript currently ends in a registered
  terminal-ready shape". The code counts the bytes behind the last match, all
  of the transcript if there is none, and calls a count of 0 clean. Of an empty
  transcript the count is 0: the run's counterexample is a gate acquired with a
  clean prompt before the child has written anything. The property fails the other
  way too. Matches of an expression are taken without overlaps, so 22|1 on the
  bytes 2, 2, 2 matches once, and the prompt is dirty by the third byte although
  the transcript ends in 22. `PromptVerdict` is what remains true: the count is that
  of the bytes behind the match the search found last.

Two losses follow from the code and contradict no promise precisely enough for a
run: the exit notice and the reports of stopped workers are sent by `try_send`
with the result ignored, so that a full mailbox loses them for good; and after a
failed write the fanout frees the slot while the failed viewer's pump may still
read what is left in its socket, next to the viewer attached since.

## 4. Theorems

| Theorem | Statement |
|---|---|
| `InputPlaneProofs!InputPlaneTypeOK` | `Spec => []TypeOK` |
| `InputPlaneProofs!LeasesExclusive` | `Spec => [](LeaseExclusion /\ InjectionUnderLease /\ NoOrphanLease)` |
| `InputPlaneProofs!InjectionsLeased`, `TableNotStale` | its second and third part by themselves |
| `TranscriptNoticeQueueProofs!QueueSafe` | `Spec => [](Bounded /\ NoLostWakeup /\ Accounted /\ NewestRun)` |
| `TranscriptNoticeQueueProofs!QueueTypeOK` | `Spec => []TypeOK` |
| `TranscriptNoticeQueueProofs!QueueBounded`, `QueueAccounts`, `QueueHoldsNewest` | three parts of `QueueSafe` by themselves |
| `TranscriptNoticeQueueProofs!QueueImplementsLossyFifo` | `Spec => Fifo!Safety` |
| `InputKeyboardProofs!KeyboardInOrder`, `KeyboardNotLost`, `OpenGateHoldsNothing` | `Spec => []KeyboardOrder`, `[]KeyboardConserved`, `[]HeldOnlyWhileClosed` |
| `OutputPlaneProofs!OutputTypeCorrect` | `Spec => []TypeOK` |
| `OutputPlaneProofs!OutputNotLost` | `Spec => []OutputConserved` |
| `OutputPlaneProofs!QueueComposed` | `Spec => Queue!Init /\ [][Queue!Next]_queueVars` |
| `OutputPlaneProofs!TranscriptComplete` | `Spec => []TranscriptAccounted` |
| `OutputPlaneProofs!ReservationsKept`, `NobodyEvicted` | `Spec => []ReservationKept`, `Spec => NoEviction` |
| `OutputPlaneProofs!ViewersInOrder` | `Spec => []ViewerInOrder` |
| `TerminalTranscriptProofs!AppendKeepsNewest` | append and the reclaim loop leave the newest bytes within the budget, for every transcript, delta and budget |
| `TerminalCellProofs!ActorTypeCorrect` | `Spec => []TypeOK` |
| `TerminalCellProofs!ScrollbackIsNewest` | `Spec => []ScrollbackWindow` |
| `TerminalCellProofs!WaitersNotForgotten`, `RepliesListedOnce` | `Spec => []NoWaiterForgotten`, `[]WaitingCallersListed` |
| `TerminalCellProofs!SubscriptionsContiguous` | `Spec => []SubscriptionContiguous` |
| `CellLifecycleProofs!LifecycleTypeCorrect` | `Spec => []TypeOK` |
| `CellLifecycleProofs!ClosingIsTruthful`, `LaunchedIsSelectable` | `Spec => []CloseTruthful`, `[]LaunchedSelectable` |
| `ControlSocketProofs!RequestRoundTrip`, `CutRequestIsRefused` | what the daemon reads from all of a request is the request, or a refusal if its frame is above the limit; what it reads from any shorter part of one is a refusal |
| `ControlSocketProofs!SocketTypeCorrect` | `Spec => []TypeOK` |
| `ControlSocketProofs!RequestsFaithful`, `AnswersAreTrue` | `Spec => []RequestFaithful`, `[]AnswersTrue` |
| `ControlSocketProofs!PatternsNeverReused` | `Spec => []PatternsForLife` |
| `ControlSocketProofs!PromptsAreJudged` | `Spec => []PromptVerdict`: the pattern is the one of the identifier, and the count is behind the last occurrence of a literal, or behind a match of an expression that no other follows |

Every safety invariant and action property that a run finds true is the
statement of one of these theorems. None of these has a hypothesis beside `Spec`;
the lease properties themselves begin with `~SharedLeases`.

Assumptions: only the typing of the constants, named in the module that declares
them. `InputPlaneAssumption`, `QueueAssumption`, `OutputPlaneAssumption`: any set
of clients or viewers, any bound on input, output and requests, positive
capacities. `TerminalCellAssumption`: the same, and a chunk is not empty and not
longer than the scrollback's budget (the PTY reader's buffer is 8 KiB, the
budget 1 MiB). `LifecycleAssumption`: finitely many pids, none of them
0. `WireAssumption`, `ControlAssumption`: a positive frame limit; a viewer, a
byte-tag client and a Signal client are three different things; texts are byte
sequences whose length a u64 can hold; sizes on the byte-tag socket are pairs of
u16, those in a Signal request any integers; a pattern is a literal, any words in
order of preference with or without a final `$`, or invalid; the scrollback fits
a frame.

**Leases.** `LeaseExclusion` is not inductive: it says nothing of the grant on
its way to the client, or of the injection in the channel. `LeaseInv` adds

* `OwnerHoldsGate`: a client owns a lease from the worker's grant to the worker's
  release of it, also before it has read the one reply and the other; the lease
  it owns is the one the gate is closed under, and it owns one at a time;
* `RequestsOwnLease`: a release or an injection in progress names the lease its
  client owns;
* `CommandsMatchRequests`: a close or open command in the channel belongs to a
  client that is blocked on its reply, at most one per client, with the lease it
  asked about;
* `InjectionsAhead`: an injection in the channel names the lease of the gate, and
  no release is ahead of it. This is the heart of the matter: the
  handler does not ask the gate, so what saves the injection is that its client
  cannot send the release before it, and the channel is a FIFO;
* `KeyboardUnleased`, `TableLeases`: keyboard chunks carry no lease, the table
  lists none that does not exist.

The proof has one step per action; the client actions that only append to the
channel, only advance a stage, or touch nothing the invariant speaks of share a
lemma each (`AppendedChannel`, `StageLeases`, `QuietStep`), and the worker's
actions rest on `TakenChannel`.

**Queue.** `QueueInv` is the conjunction of `TypeOK` with the four properties:
together they are inductive. The refinement maps a push to `Write`, a pop to
`Read`, close to `Close`, the end of `pop_blocking` to `Finish`, and everything
else to a stutter; the pop is the step that needs `NewestRun`, which says that
the head of the queue is the notice `LossyFifo` calls `Oldest`.

**Keyboard.** Order in the PTY is not inductive without order in the channel and
in the held queue. `KeyboardInv` adds `QueuedInOrder` and `HeldFromKeyboard` to
the three properties. A flush that fails at
the k-th chunk is `FlushedKeyboard`: it moves a prefix to the PTY, and the rest
to what is lost. The proof says nothing of leases and needs nothing of them.

**Output plane.** Four invariants, each resting on those before it.

* `FlowInv`: a backlog is held by the reservation or by the busy fanout
  (`BacklogHeld`), and what was pushed, the backlog in the fanout's hand, the
  slot's backlog and the channel follow one another without a gap (`Numbered`).
  Its `QueueInv` is that of the queue by itself. With it, a step of the plane is
  a step of `TranscriptNoticeQueue` or leaves the queue alone (`QueueComposed`).
* `LeaseInv`: leases are unique; slot and busy fanout hold the lease of a viewer
  at that stage of its handshake; each command in the channel and each snapshot
  in the mailbox is the one its sender is blocked on, or the detach of a viewer
  that is leaving. A stale detach therefore finds another lease in the slot:
  `NobodyEvicted` and `ReservationsKept`.
* `ScribeInv`: transcript, mailbox and the scriber's hand follow one another, and
  every popped notice is in one of them or was refused.
* `StreamInv`: what a viewer has been shown, and the snapshot it is going to be
  shown, was pushed before; the backlog and live output come later in the
  numbering.

**Transcript.** `IsWindow` says that the deltas are contiguous intervals that end
at the last byte and whose lengths add up to what is retained; one pass of the
reclaim loop keeps it (`PassKeepsWindow`), by any of the three ways a delta can
meet the excess. `Reclaim` is a recursive function on the passes; that it ends
within the budget, with not one byte below it unless there were fewer
(`Budgeted`), goes by induction over the passes. The same is done for replay.

**Actor.** `ActorInv` is the type invariant, `TranscriptWindow`,
`MailboxOfCallers` (a request in the mailbox is the one its caller asks),
`OneEntryEach` (a caller waits exactly when it is on one of the lists, once),
`NoWaiterForgotten` and `SubscriptionContiguous`. The panic on an empty text empties
the lists and refuses everybody on them and in the mailbox, so that
`OneEntryEach` holds of a stopped actor too.

**Lifecycle.** The danger is a pid that names somebody else by the time it is
used. `Holds(i, p)`: process `i` was started, and as long as the kernel lists it
`p` is its pid. `CellInv` says it of the pids in the files (`FilesTrue`) and of
those a close has read (`ClosersTrue`), which also reports only deaths; the rest
(`Named`, `Started`, `Recorded`) ties the kernel's list, the stages of a command
and the files together. A process only ages (`Aged`): live, zombie, gone; both
`Holds` and death survive every step (`AgedFaithful`), a reused pid included,
because `Holds` says nothing of a process that is listed no more.

**Control socket.** The wire first: a number is read as it was written
(`NumberOfDigits`, by induction over the digits), a frame behind any prefix is
read as its contents (`FrameIsRead`), a frame that is not all there is
refused (`CutFrameIsRefused`), and then one lemma per form of request. `SocketInv`
says of each call what is known at its stage (`GoodCall`): what was sent is what
the client wrote or is refused; what is served is what was sent; what is on the
connection of an answered call is true of a moment since it was sent
(`Answered`, `TrueEvent`). Of the registry it says that no identifier was given
out twice (`RegistryInv`). A prompt is judged on the pattern looked up before
and the transcript read afterwards: `LookedUp` says that the pattern in a thread's
hand was given out under the identifier of its request, also when it has been
removed since. The count is right because a literal is found at its last
occurrence (`LiteralIsLast`) and a search ends at a match that no other follows, or
finds none (`SearchIsRight`, by induction over the search).

**Induction.** The library states induction with an operator as a parameter, which
the provers cannot instantiate. The theorems here that need it argue by the least
counterexample: a set of naturals with no least element is empty
(`LeastNatural`, from the library's `WFMin`; `NatMin` for the transcript). That
a recursive function exists, and is the one the definition chooses, comes first
(`PassesExist`, `KeptExists`, `ShiftedExists`, `NumberExists`, `SearchExists`):
approximations up to n exist for every n, agree, and are glued together.

Model-checked only: the liveness properties `RequestsEnd`, `SlotFreed`,
`RequestsHandled`, `SubscribersServed`, `CommandsEnd`, `CloseEndsCell`,
`CallsEnd` and `WatcherCatchesUp`, and the fairness half of
`ImplementsLossyFifo`, since the prover has no rules for fairness and ENABLED;
and the four violated properties, which are counterexamples and need no proof.

## 5. Not modelled

* Regular expressions that look at more than the bytes they match: word
  boundaries, and anchors other than one final `$`. How an expression is parsed is
  left out; a pattern's bytes are taken as u8 already. The bytes of a Signal
  archive are rkyv's.
* Members of process groups other than their leaders.
* What a stopped actor does to `OutputPlane` beyond the failing snapshot: its
  mailbox goes on there. `TerminalCell` stops for real.
* What the read-only queries of the actor answer, but for the capture; the screen
  it keeps, which is vt100's.
* The end of the PTY stream. It ends the reader thread only: the output port is
  also held by every session handle, so the channel, the fanout and the queue stay
  open. `TranscriptNoticeQueue` covers the queue's close by itself.
* The accept loops and their limit on connections, which are generated around a
  library.
* `lifecycle_cli.rs`: the text of requests and replies; SendLine, ObserveCell and
  AttachViewer, which read files and make one client call; two launches of one
  name in one millisecond, which share a directory. The selector's order by
  modification time.
* `snapshot.rs`, configuration, errors, the viewer's raw mode and
  readiness file, one-shot clients, fixtures.

## 6. Plan

Done, in this order: `InputPlane`, `TranscriptNoticeQueue` with `LossyFifo`,
`OutputPlane`, `TerminalTranscript` and `TerminalCell`; the proofs of the input
plane's leases and of the queue; `CellLifecycle`; `ControlWire`,
`PromptPatterns` and `ControlSocket`; retraction in `TerminalCell`; the proofs of
all safety properties of the input plane, output plane, actor, lifecycle and
control socket.

Next:

1. Composition of `OutputPlane` with `TerminalCell` over one mailbox: the actor of
   `OutputPlane` is an abstraction of the one in `TerminalCell`, to be stated as a
   refinement and proved step by step.
2. `InputPlane` with the prompt check of `ControlSocket`: what may be typed between
   the check and the closed gate.
