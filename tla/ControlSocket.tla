---------------------------- MODULE ControlSocket ----------------------------
(***************************************************************************)
(* Calls over the control socket, end to end: the client writes a request  *)
(* on a connection of its own, a thread of the daemon reads and handles    *)
(* it, and the client reads the reply. A client may die while it writes.   *)
(* Handled here are input, resize, capture and the prompt patterns; the    *)
(* other verbs go over the wire too, and what they do is in InputPlane and *)
(* TerminalCell.                                                           *)
(*                                                                         *)
(* One of the clients is the viewer process, which sends the size of its   *)
(* window at its start and after each SIGWINCH.                            *)
(***************************************************************************)
EXTENDS ControlWire, PromptPatterns

CONSTANTS
    Clients,        \* clients of the tagged verbs
    Controllers,    \* clients of the Signal verbs
    Viewer,         \* the viewer process
    Chunks,         \* what the child writes at a time
    Payloads,       \* input and search texts
    Sizes,          \* window sizes, <<rows, columns>>
    SignalSizes,    \* sizes in Signal requests, in i64
    SignalInputs,   \* input in Signal requests, sequences of i64
    Patterns,       \* prompt patterns
    Identifiers,    \* pattern identifiers that are asked for
    ByteCapacity,   \* bytes of output that the actor keeps
    MaxEvents       \* calls, outputs, the viewer's start and window changes

ASSUME ControlAssumption ==
    /\ Viewer \notin Clients \union Controllers
    /\ Clients \intersect Controllers = {}
    /\ Chunks \subseteq Seq(U8)
    /\ Payloads \subseteq {bytes \in Seq(U8) : Fits(Len(bytes), 8)}
    /\ Sizes \subseteq U16 \X U16
    /\ SignalSizes \subseteq Int \X Int
    /\ SignalInputs \subseteq Seq(Int)
    /\ Patterns \subseteq [kind : {"literal"}, bytes : Seq(U8)]
                      \union [kind : {"regex"}, words : Seq(Seq(U8)), atEnd : BOOLEAN]
                      \union {[kind |-> "invalid"]}
    /\ Identifiers \subseteq Nat \ {0}
    /\ ByteCapacity \in 1 .. MaximumFrameLength
    /\ Fits(ByteCapacity, 8)
    /\ MaxEvents \in Nat

VARIABLES
    call,           \* call[c]: the client's call and its connection
    transcript,     \* bytes the actor has appended, also those it has trimmed since
    size,           \* of PTY and screen, as the actor has set it last
    patterns,       \* registered prompt patterns by identifier
    nextPattern,    \* number of the next identifier
    given,          \* identifiers handed out, each with its pattern
    window,         \* the viewer's window
    pending,        \* SIGWINCH not yet taken by the viewer
    viewer,         \* the resize watcher
    events          \* how many of these so far

vars == <<call, transcript, size, patterns, nextPattern, given, window, pending, viewer, events>>

registry == <<patterns, nextPattern, given>>
session  == <<transcript, size, registry>>
watcher  == <<window, pending, viewer>>

Callers == Clients \union Controllers \union {Viewer}

----------------------------------------------------------------------------
(* Requests *)

NoPattern == [kind |-> "none"]

\* Verbs that other modules handle.
Others == {"subscribe", "attach", "closeHumanInput", "openHumanInput", "wait", "waitExit", "workerObservation"}

\* Queries of the Signal contract; a fixed one is answered from the request.
Query ==
    [query : {"register"}, pattern : Patterns]
        \union [query : {"unregister"}, id : Identifiers]
        \union [query : {"acquire"}, id : Identifiers \union {0}]
        \union {[query |-> "resize", rows |-> s[1], columns |-> s[2]] : s \in SignalSizes}
        \union [query : {"input"}, bytes : SignalInputs]
        \union [query : {"list", "capture", "fixed"}]

Resize(s) == [verb |-> "resize", rows |-> s[1], columns |-> s[2]]

Request(c) ==
    IF c \in Controllers THEN [verb : {"signal"}, query : Query]
    ELSE [verb : {"capture"} \union (Others \ {"openHumanInput", "wait"})]
             \union [verb : {"programmaticInput", "viewerInput", "wait"}, bytes : Payloads]
             \union [verb : {"openHumanInput"}, lease : {1}]
             \union {Resize(s) : s \in Sizes}

NoEffect == [effect |-> "none"]

\* No call. Of a call, since is the length of the transcript when it was made,
\* arrived the request as the daemon's thread has read it, pattern the one that
\* thread has looked up, and effect what it has done to input port and PTY.
Idle == [stage |-> "idle", request |-> [verb |-> "none"], stream |-> <<>>, since |-> 0,
         arrived |-> [verb |-> "none"], pattern |-> NoPattern, effect |-> NoEffect]

Init ==
    /\ call = [c \in Callers |-> Idle]
    /\ transcript = <<>>
    /\ size = <<24, 80>>
    /\ patterns = [id \in {} |-> NoPattern]
    /\ nextPattern = 1
    /\ given = {}
    /\ window \in Sizes
    /\ pending = FALSE
    /\ viewer = [stage |-> "absent", registered |-> FALSE, last |-> <<>>]
    /\ events = 0

Event == events < MaxEvents /\ events' = events + 1

----------------------------------------------------------------------------
(* The client's end *)

\* A connection with a request on it, or with the first bytes of one when the
\* client died while it wrote: then nobody waits for the reply.
Sent(r) ==
    [Idle EXCEPT !.stage = "sent", !.request = r, !.since = Len(transcript), !.stream = WriteRequest(r)]

Broken(r, length) == [Idle EXCEPT !.stage = "sent", !.stream = SubSeq(WriteRequest(r), 1, length)]

Call(c, r) ==
    /\ call[c].stage = "idle"
    /\ Event
    /\ call' = [call EXCEPT ![c] = Sent(r)]
    /\ UNCHANGED <<session, watcher>>

\* The client dies before it has written the last byte.
CallBreaks(c, r) ==
    /\ call[c].stage = "idle"
    /\ Event
    /\ \E length \in 0 .. Len(WriteRequest(r)) - 1 : call' = [call EXCEPT ![c] = Broken(r, length)]
    /\ UNCHANGED <<session, watcher>>

\* What the client reads.
Result(c) == ReadReply(call[c].request.verb, call[c].stream)

Return(c) ==
    /\ call[c].stage = "replied"
    /\ call' = [call EXCEPT ![c] = Idle]
    /\ UNCHANGED <<session, watcher, events>>

----------------------------------------------------------------------------
(* The daemon's end: one thread per connection *)

\* Rows, columns and bytes of Signal requests are i64; `as` keeps the low bits.
ToU16(n) == n % 65536
ToByte(n) == n % 256

Arrived(c) == call[c].arrived

Serving(c, verb) == call[c].stage = "serving" /\ Arrived(c).verb = verb

Asking(c, query) == Serving(c, "signal") /\ Arrived(c).query.query = query

Replied(c, reply) == [call[c] EXCEPT !.stage = "replied", !.arrived = Idle.arrived, !.stream = WriteReply(reply)]
Reply(c, reply)   == call' = [call EXCEPT ![c] = Replied(c, reply)]
Answer(c, event)  == Reply(c, [kind |-> "event", event |-> event])

\* The connection is closed without a reply.
Close(c) == call' = [call EXCEPT ![c] = [Idle EXCEPT !.stage = "replied"]]

ReplyAfter(c, effect, reply) == call' = [call EXCEPT ![c] = [Replied(c, reply) EXCEPT !.effect = effect]]

\* The newest bytes, as many as the actor keeps.
Window(t) == IF Len(t) <= ByteCapacity THEN t ELSE SubSeq(t, Len(t) - ByteCapacity + 1, Len(t))

Snapshot == Window(transcript)

\* Mutant of Receive: the thread goes on waiting for the rest.
ReceiveInsistently(c) ==
    LET r == ReadRequest(call[c].stream) IN
    /\ call[c].stage = "sent"
    /\ r # Refused
    /\ call' = [call EXCEPT ![c] = [@ EXCEPT !.stage = "serving", !.stream = <<>>, !.arrived = r]]
    /\ UNCHANGED <<session, watcher, events>>

\* The thread reads the request; one it refuses ends the connection.
Receive(c) ==
    LET r == ReadRequest(call[c].stream) IN
    /\ call[c].stage = "sent"
    /\ IF r = Refused THEN Close(c)
       ELSE call' = [call EXCEPT ![c] = [@ EXCEPT !.stage = "serving", !.stream = <<>>, !.arrived = r]]
    /\ UNCHANGED <<session, watcher, events>>

WriteSnapshot(c) ==
    /\ Serving(c, "capture")
    /\ Reply(c, [kind |-> "frame", bytes |-> Snapshot])
    /\ UNCHANGED <<session, watcher, events>>

Accepted(source, bytes) == [effect |-> "input", source |-> source, bytes |-> bytes]
Resized(s) == [effect |-> "resize", size |-> s]

WriteInput(c) ==
    /\ \E source \in {"Programmatic", "Viewer"} :
          /\ Serving(c, IF source = "Viewer" THEN "viewerInput" ELSE "programmaticInput")
          /\ ReplyAfter(c, Accepted(source, Arrived(c).bytes), [kind |-> "acceptance"])
    /\ UNCHANGED <<session, watcher, events>>

\* The actor resizes the PTY and then its screen.
WriteResize(c) ==
    LET s == <<Arrived(c).rows, Arrived(c).columns>> IN
    /\ Serving(c, "resize")
    /\ size' = s
    /\ ReplyAfter(c, Resized(s), [kind |-> "acceptance"])
    /\ UNCHANGED <<transcript, registry, watcher, events>>

\* What needs the actor, the PTY or the input port.
Fallible(c) ==
    \/ \E verb \in {"capture", "resize", "programmaticInput", "viewerInput"} : Serving(c, verb)
    \/ \E query \in {"capture", "resize", "input"} : Asking(c, query)

\* Mutant of RequestFails: the error is not looked at.
RequestFailsUnnoticed(c) ==
    /\ Fallible(c)
    /\ Reply(c, [kind |-> "acceptance"])
    /\ UNCHANGED <<session, watcher, events>>

\* The actor or the input port is gone, or the PTY refuses the size, in which
\* case the actor leaves its screen as it is.
RequestFails(c) ==
    /\ Fallible(c)
    /\ Close(c)
    /\ UNCHANGED <<session, watcher, events>>

\* Attach belongs to the data socket.
RejectAttach(c) ==
    /\ Serving(c, "attach")
    /\ Reply(c, [kind |-> "attachRejected", bytes |-> <<>>])
    /\ UNCHANGED <<session, watcher, events>>

\* What the other modules answer, when they do, and their errors, which close
\* the connection.
AnsweredElsewhere(c) ==
    /\ \/ Serving(c, "closeHumanInput") /\ Reply(c, [kind |-> "gateLease", lease |-> 1])
       \/ Serving(c, "openHumanInput")
             /\ Reply(c, [kind |-> "gateRelease", lease |-> Arrived(c).lease, held |-> 0])
       \/ Serving(c, "wait") /\ Reply(c, [kind |-> "waitSatisfied"])
       \/ (Serving(c, "waitExit") \/ Serving(c, "workerObservation"))
             /\ Reply(c, [kind |-> "frame", bytes |-> <<>>])
       \/ (\E verb \in Others \ {"attach"} : Serving(c, verb)) /\ Close(c)
    /\ UNCHANGED <<session, watcher, events>>

----------------------------------------------------------------------------
(* Signal requests *)

SignalInput(c) ==
    LET bytes == Arrived(c).query.bytes IN
    /\ Asking(c, "input")
    /\ ReplyAfter(c, Accepted("Programmatic", [i \in DOMAIN bytes |-> ToByte(bytes[i])]),
                  [kind |-> "event", event |-> [event |-> "inputAccepted"]])
    /\ UNCHANGED <<session, watcher, events>>

\* The reply echoes the numbers of the request.
SignalResize(c) ==
    LET q == Arrived(c).query
        s == <<ToU16(q.rows), ToU16(q.columns)>>
    IN  /\ Asking(c, "resize")
        /\ size' = s
        /\ ReplyAfter(c, Resized(s), [kind |-> "event",
                                      event |-> [event |-> "resized", rows |-> q.rows, columns |-> q.columns]])
        /\ UNCHANGED <<transcript, registry, watcher, events>>

SignalCapture(c) ==
    /\ Asking(c, "capture")
    /\ Answer(c, [event |-> "captured", bytes |-> Snapshot])
    /\ UNCHANGED <<session, watcher, events>>

\* TerminalConnection, TerminalDetachment, ListSessions and ResolveSession.
SignalFixed(c) ==
    /\ Asking(c, "fixed")
    /\ Answer(c, [event |-> "fixed"])
    /\ UNCHANGED <<session, watcher, events>>

Registered(c, id, pattern) ==
    /\ patterns' = [i \in DOMAIN patterns \union {id} |-> IF i = id THEN pattern ELSE patterns[i]]
    /\ given' = given \union {[id |-> id, pattern |-> pattern]}
    /\ Answer(c, [event |-> "registered", id |-> id])

\* Mutant of RegisterPromptPattern: the counter stays where it is.
RegisterPromptPatternUncounted(c) ==
    /\ Asking(c, "register")
    /\ Registered(c, nextPattern, Arrived(c).query.pattern)
    /\ UNCHANGED <<transcript, size, nextPattern, watcher, events>>

\* Mutant of RegisterPromptPattern: identifiers count the patterns there are.
RegisterPromptPatternByCount(c) ==
    /\ Asking(c, "register")
    /\ Registered(c, Cardinality(DOMAIN patterns) + 1, Arrived(c).query.pattern)
    /\ UNCHANGED <<transcript, size, nextPattern, watcher, events>>

RegisterPromptPattern(c) ==
    /\ Asking(c, "register")
    /\ Registered(c, nextPattern, Arrived(c).query.pattern)
    /\ nextPattern' = nextPattern + 1
    /\ UNCHANGED <<transcript, size, watcher, events>>

UnregisterPromptPattern(c) ==
    /\ Asking(c, "unregister")
    /\ patterns' = [i \in DOMAIN patterns \ {Arrived(c).query.id} |-> patterns[i]]
    /\ Answer(c, [event |-> "unregistered", id |-> Arrived(c).query.id])
    /\ UNCHANGED <<transcript, size, nextPattern, given, watcher, events>>

ListPromptPatterns(c) ==
    /\ Asking(c, "list")
    /\ Answer(c, [event |-> "patterns", entries |-> patterns])
    /\ UNCHANGED <<session, watcher, events>>

\* close_human_input of InputPlane: a lease, the name of its holder, or an error.
CloseGate(c, prompt) ==
    \/ Answer(c, [event |-> "acquired", prompt |-> prompt])
    \/ Answer(c, [event |-> "busy"])
    \/ Close(c)

\* signal_prompt_state takes the pattern under the mutex; identifier 0 is none.
LookUpPattern(c) ==
    /\ Asking(c, "acquire")
    /\ LET id == Arrived(c).query.id IN
       IF id = 0
       THEN CloseGate(c, [state |-> "NotChecked"])
       ELSE call' = [call EXCEPT ![c] = [@ EXCEPT
                !.stage = "looking", !.arrived = Idle.arrived,
                !.pattern = IF id \in DOMAIN patterns THEN patterns[id] ELSE NoPattern]]
    /\ UNCHANGED <<session, watcher, events>>

\* It asks the actor for the transcript afterwards, and then the gate is closed.
\* A regular expression that does not compile is found out only here.
CheckPrompt(c) ==
    LET pattern == call[c].pattern
        prompt  == IF pattern = NoPattern
                   THEN [state |-> "Dirty", count |-> Len(Snapshot)]
                   ELSE PromptState(PromptSuffixTrailingCount(pattern, Snapshot))
    IN  /\ call[c].stage = "looking"
        /\ IF pattern.kind = "invalid" THEN Close(c)
           ELSE CloseGate(c, prompt)
        /\ UNCHANGED <<session, watcher, events>>

----------------------------------------------------------------------------

Serve(c) ==
    \/ Receive(c) \/ WriteSnapshot(c) \/ WriteInput(c) \/ WriteResize(c) \/ RequestFails(c)
    \/ RejectAttach(c) \/ SignalInput(c) \/ SignalResize(c) \/ SignalCapture(c)
    \/ SignalFixed(c) \/ RegisterPromptPattern(c) \/ UnregisterPromptPattern(c)
    \/ ListPromptPatterns(c) \/ LookUpPattern(c) \/ CheckPrompt(c)

\* The child writes, and the actor appends.
Output(bytes) ==
    /\ Event
    /\ transcript' = transcript \o bytes
    /\ UNCHANGED <<call, size, registry, watcher>>

----------------------------------------------------------------------------
(* The viewer's resize watcher *)

\* The first thing a viewer does is resize_now.
ViewerStarts ==
    /\ viewer.stage = "absent"
    /\ Event
    /\ viewer' = [viewer EXCEPT !.stage = "reading"]
    /\ UNCHANGED <<call, session, window, pending>>

\* The signal's default is to be ignored until Signals::new has registered it.
WindowChanges(s) ==
    /\ viewer.stage # "absent"
    /\ s # window
    /\ Event
    /\ window' = s
    /\ pending' = (pending \/ viewer.registered)
    /\ UNCHANGED <<call, session, viewer>>

\* resize_now: read the size, and send it unless it was sent last.
ResizeNow ==
    /\ viewer.stage = "reading"
    /\ IF window = viewer.last
       THEN /\ viewer' = [viewer EXCEPT !.stage = "resting"]
            /\ UNCHANGED call
       ELSE /\ viewer' = [viewer EXCEPT !.stage = "asking"]
            /\ call' = [call EXCEPT ![Viewer] = Sent(Resize(window))]
    /\ UNCHANGED <<session, window, pending, events>>

\* Mutant of ResizeAnswered: takes every signal so far for served.
ResizeAnsweredForgetsSignals ==
    /\ call[Viewer].stage = "replied"
    /\ call' = [call EXCEPT ![Viewer] = Idle]
    /\ viewer' = IF Result(Viewer) = NoReply
                 THEN [viewer EXCEPT !.stage = "ended"]
                 ELSE [viewer EXCEPT !.stage = "resting",
                           !.last = <<call[Viewer].request.rows, call[Viewer].request.columns>>]
    /\ pending' = FALSE
    /\ UNCHANGED <<session, window, events>>

\* An error ends the viewer at its start, and its watcher afterwards.
ResizeAnswered ==
    /\ call[Viewer].stage = "replied"
    /\ call' = [call EXCEPT ![Viewer] = Idle]
    /\ viewer' = IF Result(Viewer) = NoReply
                 THEN [viewer EXCEPT !.stage = "ended"]
                 ELSE [viewer EXCEPT !.stage = "resting",
                           !.last = <<call[Viewer].request.rows, call[Viewer].request.columns>>]
    /\ UNCHANGED <<session, window, pending, events>>

RegisterSignals ==
    /\ viewer.stage = "resting"
    /\ ~viewer.registered
    /\ viewer' = [viewer EXCEPT !.registered = TRUE]
    /\ UNCHANGED <<call, session, window, pending, events>>

\* signals.forever() hands out a signal and forgets it before resize_now reads.
TakeSignal ==
    /\ viewer.stage = "resting"
    /\ viewer.registered
    /\ pending
    /\ pending' = FALSE
    /\ viewer' = [viewer EXCEPT !.stage = "reading"]
    /\ UNCHANGED <<call, session, window, events>>

Watcher == ResizeNow \/ ResizeAnswered \/ RegisterSignals \/ TakeSignal

----------------------------------------------------------------------------

Next ==
    \/ \E c \in Clients \union Controllers :
          \/ \E r \in Request(c) : Call(c, r) \/ CallBreaks(c, r)
          \/ Return(c)
    \/ \E c \in Callers : Serve(c) \/ AnsweredElsewhere(c)
    \/ \E bytes \in Chunks : Output(bytes)
    \/ ViewerStarts
    \/ \E s \in Sizes : WindowChanges(s)
    \/ Watcher

\* Threads of the daemon, but for what they wait for elsewhere, clients within a call and the watcher run on.
Spec ==
    /\ Init /\ [][Next]_vars
    /\ \A c \in Callers : WF_vars(Serve(c))
    /\ \A c \in Clients \union Controllers : WF_vars(Return(c))
    /\ WF_vars(Watcher)

----------------------------------------------------------------------------
(* Properties *)

Effect ==
    {NoEffect} \union [effect : {"input"}, source : {"Programmatic", "Viewer"}, bytes : Seq(U8)]
               \union [effect : {"resize"}, size : U16 \X U16]

\* The type invariant; every registered identifier is below the one that is
\* given out next.
TypeOK ==
    /\ \A c \in Callers :
          /\ call[c].stage \in {"idle", "sent", "serving", "looking", "replied"}
          /\ call[c].pattern \in Patterns \union {NoPattern}
          /\ call[c].effect \in Effect
    /\ transcript \in Seq(U8)
    /\ size \in U16 \X U16
    /\ DOMAIN patterns \subseteq 1 .. nextPattern - 1
    /\ viewer.stage \in {"absent", "reading", "asking", "resting", "ended"}

TooLong(r) == "bytes" \in DOMAIN r /\ Len(r.bytes) > MaximumFrameLength

\* The daemon handles the request the client wrote, when all of it arrived and
\* its frame is within the limit, and nothing in its place otherwise.
RequestFaithful ==
    \A c \in Callers :
        LET r == call[c].request IN
        /\ call[c].stage = "sent" /\ r # Idle.request /\ ~TooLong(r) => ReadRequest(call[c].stream) = r
        /\ call[c].stage = "serving" => call[c].arrived = r /\ ~TooLong(r)

\* What a snapshot was at some moment of a call.
Moments(c) == {Window(SubSeq(transcript, 1, n)) : n \in call[c].since .. Len(transcript)}

\* A call that returns without an error had its effect while it was under way:
\* the input was accepted, the size was set, the capture is of a moment of it.
AnswersTrue ==
    \A c \in Callers :
        LET r == call[c].request
            result == Result(c)
            Resize16(rows, columns) ==
                /\ call[c].effect.effect = "resize"
                /\ (call[c].effect.size[1] - rows) % 65536 = 0
                /\ (call[c].effect.size[2] - columns) % 65536 = 0
        IN  call[c].stage = "replied" /\ result # NoReply =>
            /\ r.verb = "capture" => result.bytes \in Moments(c)
            /\ r.verb = "resize" => call[c].effect = Resized(<<r.rows, r.columns>>)
            /\ r.verb = "programmaticInput" => call[c].effect = Accepted("Programmatic", r.bytes)
            /\ r.verb = "viewerInput" => call[c].effect = Accepted("Viewer", r.bytes)
            /\ r.verb = "signal" =>
                  /\ r.query.query = "capture" => result.event.bytes \in Moments(c)
                  /\ r.query.query = "resize" => Resize16(r.query.rows, r.query.columns)
                  /\ r.query.query = "input" =>
                        /\ call[c].effect.effect = "input"
                        /\ call[c].effect.source = "Programmatic"
                        /\ [i \in DOMAIN r.query.bytes |-> (r.query.bytes[i] - call[c].effect.bytes[i]) % 256]
                              = [i \in DOMAIN call[c].effect.bytes |-> 0]

\* An identifier names the pattern it was given out for, or nothing any more,
\* however registrations and removals follow each other.
PatternsForLife ==
    /\ \A g, h \in given : g.id = h.id => g.pattern = h.pattern
    /\ \A id \in DOMAIN patterns : [id |-> id, pattern |-> patterns[id]] \in given

Acquired(c) ==
    /\ call[c].stage = "replied"
    /\ Result(c).kind = "event"
    /\ Result(c).event.event = "acquired"
    /\ Result(c).event.prompt.state # "NotChecked"

Trailing(prompt) == IF prompt.state = "Clean" THEN 0 ELSE prompt.count

Words(pattern) == IF pattern.kind = "literal" THEN {pattern.bytes} ELSE Range(pattern.words)

\* Where occurrences of a pattern end that begin at a position or behind it.
Ends(t, pattern, from) ==
    {e \in 0 .. Len(t) :
        /\ \E word \in Words(pattern) : from + Len(word) - 1 <= e /\ IsSuffix(word, SubSeq(t, 1, e))
        /\ pattern.kind = "regex" => (pattern.atEnd => e = Len(t))}

\* Before the trailing bytes ends an occurrence of the pattern, or there is
\* none. No occurrence of a literal ends later, also none that overlaps with
\* this one; no match of an expression is in the trailing bytes.
RightCount(pattern, count, t) ==
    LET end  == Len(t) - count
        from == IF pattern.kind = "literal" THEN 1 ELSE end + 1
    IN  /\ end \in Ends(t, pattern, 1) \union {0}
        /\ \A e \in Ends(t, pattern, from) : e <= end

\* "trailing bytes after the last match make the prompt dirty": the pattern is
\* the one that was given out under the identifier of the request, and at some
\* moment of the call the trailing bytes were those of the verdict. Without a
\* pattern all of them are trailing.
PromptVerdict ==
    \A c \in Controllers : Acquired(c) =>
        LET pattern == call[c].pattern
            count   == Trailing(Result(c).event.prompt)
        IN  IF pattern = NoPattern
            THEN \E t \in Moments(c) : count = Len(t)
            ELSE /\ [id |-> call[c].request.query.id, pattern |-> pattern] \in given
                 /\ \E t \in Moments(c) : RightCount(pattern, count, t)

\* "literal and regex patterns are suffix checks": a prompt is clean if and only
\* if the transcript, at some moment of the call, ended in the pattern. The
\* code counts the bytes behind the last match, of which an empty transcript has
\* none and an expression's match that overlaps the last one found has some.
PromptSuffixCheck ==
    \A c \in Controllers : Acquired(c) /\ call[c].pattern # NoPattern =>
        \E t \in Moments(c) :
            (Result(c).event.prompt.state = "Clean") <=> Len(t) \in Ends(t, call[c].pattern, 1)

\* Every call that no other module decides returns, also one that is refused, one
\* that was cut off and one whose handler fails.
CallsEnd ==
    \A c \in Callers :
        call[c].stage = "sent" /\ call[c].request.verb \notin Others \ {"attach"} ~> call[c].stage = "idle"

\* A SIGWINCH that reached the viewer ends in the watcher at rest with the size
\* of the window sent last, though the window may change, and change back, while
\* a resize is under way.
WatcherCatchesUp ==
    pending ~> \/ viewer.stage = "resting" /\ ~pending /\ viewer.last = window
               \/ viewer.stage = "ended"
=============================================================================
