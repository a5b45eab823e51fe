----------------------------- MODULE ControlWire -----------------------------
(***************************************************************************)
(* What goes over the control socket: a request is a tag byte and its      *)
(* fields, or the length of a Signal archive and the archive; a reply is   *)
(* read according to the request it answers. Writers and readers are       *)
(* separate code on both ends, so they are separate definitions here.      *)
(*                                                                         *)
(* A Signal archive (rkyv) is opaque: one element, the query itself.       *)
(***************************************************************************)
EXTENDS Integers, Sequences, SequencesExt

CONSTANT MaximumFrameLength   \* 16 MiB in the code, checked by readers only

ASSUME WireAssumption == MaximumFrameLength \in Nat \ {0}

U8  == 0 .. 255
U16 == {n \in Nat : n < 65536}

\* Tag bytes.
CaptureRequest           == 67
SubscribeRequest         == 83
AttachRequest            == 84
ProgrammaticInputRequest == 80
ViewerInputRequest       == 86
CloseHumanInputRequest   == 71
OpenHumanInputRequest    == 79
ResizeRequest            == 82
WaitRequest              == 87
WaitExitRequest          == 88
WorkerObservationRequest == 72
AcceptanceReply          == 65
AttachRejectedReply      == 74
GateLeaseReply           == 76
GateReleaseReply         == 85
WaitSatisfiedReply       == 89

\* n without its last k bytes, for each k up to width.
Shifted(n, width) ==
    LET over[k \in 0 .. width] == IF k = 0 THEN n ELSE over[k - 1] \div 256
    IN  over

\* n fits an unsigned integer of so many bytes.
Fits(n, width) == Shifted(n, width)[width] = 0

\* Big-endian bytes of n in a field of the given width.
Digits(n, width) == [i \in 1 .. width |-> Shifted(n, width)[width - i] % 256]

Number(bytes) ==
    LET upTo[i \in 0 .. Len(bytes)] == IF i = 0 THEN 0 ELSE upTo[i - 1] * 256 + bytes[i]
    IN  upTo[Len(bytes)]

Frame(bytes) == Digits(Len(bytes), 8) \o bytes

Archive(query) == <<query>>

----------------------------------------------------------------------------
(* Requests *)

\* SocketRequestWriter: no writer checks a length.
WriteRequest(r) ==
    CASE r.verb = "capture"           -> <<CaptureRequest>>
      [] r.verb = "subscribe"         -> <<SubscribeRequest>>
      [] r.verb = "attach"            -> <<AttachRequest>>
      [] r.verb = "programmaticInput" -> <<ProgrammaticInputRequest>> \o Frame(r.bytes)
      [] r.verb = "viewerInput"       -> <<ViewerInputRequest>> \o Frame(r.bytes)
      [] r.verb = "closeHumanInput"   -> <<CloseHumanInputRequest>>
      [] r.verb = "openHumanInput"    -> <<OpenHumanInputRequest>> \o Digits(r.lease, 8)
      [] r.verb = "resize"            -> <<ResizeRequest>> \o Digits(r.rows, 2) \o Digits(r.columns, 2)
      [] r.verb = "wait"              -> <<WaitRequest>> \o Frame(r.bytes)
      [] r.verb = "waitExit"          -> <<WaitExitRequest>>
      [] r.verb = "workerObservation" -> <<WorkerObservationRequest>>
      [] r.verb = "signal"            -> Digits(Len(Archive(r.query)), 4) \o Archive(r.query)

\* The bytes of one read_exact, or that the stream ended before.
Field(stream, from, width) == SubSeq(stream, from, from + width - 1)
Short(stream, from, width) == Len(stream) < from + width - 1

Refused == [verb |-> "refused"]

\* Mutant of FrameReadable: the longest frame is refused.
FrameReadableBelow(stream, from) ==
    /\ ~Short(stream, from, 8)
    /\ Number(Field(stream, from, 8)) < MaximumFrameLength
    /\ ~Short(stream, from + 8, Number(Field(stream, from, 8)))

\* A frame that starts at a place of the stream: refused when the stream ends
\* too early or the length is above the limit.
FrameReadable(stream, from) ==
    /\ ~Short(stream, from, 8)
    /\ Number(Field(stream, from, 8)) <= MaximumFrameLength
    /\ ~Short(stream, from + 8, Number(Field(stream, from, 8)))

FrameAt(stream, from) == Field(stream, from + 8, Number(Field(stream, from, 8)))

WithFrame(stream, verb) ==
    IF FrameReadable(stream, 2) THEN [verb |-> verb, bytes |-> FrameAt(stream, 2)] ELSE Refused

\* Four bytes of length and the archive.
SignalReadable(stream) ==
    /\ ~Short(stream, 1, 4)
    /\ Number(Field(stream, 1, 4)) <= MaximumFrameLength
    /\ ~Short(stream, 5, Number(Field(stream, 1, 4)))

\* Any byte that is no tag is the first of a Signal length.
ReadSignalRequest(stream) ==
    IF SignalReadable(stream) THEN [verb |-> "signal", query |-> stream[5]] ELSE Refused

\* SocketRequestReader::read_request on what has arrived before the end.
ReadRequest(stream) ==
    IF stream = <<>> THEN Refused ELSE
    CASE stream[1] = CaptureRequest           -> [verb |-> "capture"]
      [] stream[1] = SubscribeRequest         -> [verb |-> "subscribe"]
      [] stream[1] = AttachRequest            -> [verb |-> "attach"]
      [] stream[1] = ProgrammaticInputRequest -> WithFrame(stream, "programmaticInput")
      [] stream[1] = ViewerInputRequest       -> WithFrame(stream, "viewerInput")
      [] stream[1] = CloseHumanInputRequest   -> [verb |-> "closeHumanInput"]
      [] stream[1] = OpenHumanInputRequest    ->
            IF Short(stream, 2, 8) THEN Refused
            ELSE [verb |-> "openHumanInput", lease |-> Number(Field(stream, 2, 8))]
      [] stream[1] = ResizeRequest            ->
            IF Short(stream, 2, 4) THEN Refused
            ELSE [verb |-> "resize", rows |-> Number(Field(stream, 2, 2)),
                                     columns |-> Number(Field(stream, 4, 2))]
      [] stream[1] = WaitRequest              -> WithFrame(stream, "wait")
      [] stream[1] = WaitExitRequest          -> [verb |-> "waitExit"]
      [] stream[1] = WorkerObservationRequest -> [verb |-> "workerObservation"]
      [] OTHER                                -> ReadSignalRequest(stream)

----------------------------------------------------------------------------
(* Replies *)

\* SocketReplyWriter.
WriteReply(reply) ==
    CASE reply.kind = "frame"          -> Frame(reply.bytes)
      [] reply.kind = "acceptance"     -> <<AcceptanceReply>>
      [] reply.kind = "attachRejected" -> <<AttachRejectedReply>> \o Frame(reply.bytes)
      [] reply.kind = "gateLease"      -> <<GateLeaseReply>> \o Digits(reply.lease, 8)
      [] reply.kind = "gateRelease"    ->
            <<GateReleaseReply>> \o Digits(reply.lease, 8) \o Digits(reply.held, 8)
      [] reply.kind = "waitSatisfied"  -> <<WaitSatisfiedReply>>
      [] reply.kind = "event"          -> Digits(Len(Archive(reply.event)), 4) \o Archive(reply.event)

NoReply == [kind |-> "error"]

Tagged(stream, tag, width) == stream # <<>> /\ stream[1] = tag /\ ~Short(stream, 2, width)

\* SocketReplyReader: the client reads what its request asks for, and anything
\* else, or the end of the stream, is an error.
ReadReply(verb, stream) ==
    CASE verb \in {"capture", "workerObservation", "waitExit"} /\ FrameReadable(stream, 1) ->
            [kind |-> "frame", bytes |-> FrameAt(stream, 1)]
      [] verb \in {"programmaticInput", "viewerInput", "resize"} /\ Tagged(stream, AcceptanceReply, 0) ->
            [kind |-> "acceptance"]
      [] verb = "closeHumanInput" /\ Tagged(stream, GateLeaseReply, 8) ->
            [kind |-> "gateLease", lease |-> Number(Field(stream, 2, 8))]
      [] verb = "openHumanInput" /\ Tagged(stream, GateReleaseReply, 16) ->
            [kind |-> "gateRelease", lease |-> Number(Field(stream, 2, 8)),
                                     held |-> Number(Field(stream, 10, 8))]
      [] verb = "wait" /\ Tagged(stream, WaitSatisfiedReply, 0) -> [kind |-> "waitSatisfied"]
      [] verb = "signal" /\ SignalReadable(stream) -> [kind |-> "event", event |-> stream[5]]
      [] OTHER -> NoReply
=============================================================================
