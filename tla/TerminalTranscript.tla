------------------------- MODULE TerminalTranscript -------------------------
(***************************************************************************)
(* The scrollback of a terminal cell as operators on its state: a queue of *)
(* deltas, each with its sequence number and its bytes.  The bytes the     *)
(* transcript was ever given are numbered 1, 2, 3, ..., so the bytes of a  *)
(* delta are the interval from .. to; trimming a delta moves its from.     *)
(***************************************************************************)
EXTENDS Integers, Sequences

Size(delta) == delta.to - delta.from + 1

\* Mutant of ReclaimPass: the oldest delta goes as a whole, never trimmed.
ReclaimPassWhole(t, capacity) ==
    IF t.retained <= capacity \/ t.deltas = <<>> THEN t
    ELSE [deltas |-> Tail(t.deltas), retained |-> t.retained - Size(Head(t.deltas))]

\* One pass through the loop of reclaim_scrollback: pop the oldest delta; if it
\* is larger than the excess, cut its head and put it back.
ReclaimPass(t, capacity) ==
    LET oldest == Head(t.deltas)
        excess == t.retained - capacity
    IN  IF t.retained <= capacity \/ t.deltas = <<>> THEN t
        ELSE IF Size(oldest) > excess
        THEN [deltas |-> <<[oldest EXCEPT !.from = @ + excess]>> \o Tail(t.deltas),
              retained |-> t.retained - excess]
        ELSE [deltas |-> Tail(t.deltas), retained |-> t.retained - Size(oldest)]

\* The whole loop: no more passes than there are deltas.
ReclaimScrollback(t, capacity) ==
    LET passes[k \in 0 .. Len(t.deltas)] ==
            IF k = 0 THEN t ELSE ReclaimPass(passes[k - 1], capacity)
    IN  passes[Len(t.deltas)]

\* append: a new delta at the end, then reclaim.
AppendDelta(t, delta, capacity) ==
    ReclaimScrollback([deltas |-> Append(t.deltas, delta),
                       retained |-> t.retained + Size(delta)], capacity)

\* snapshot: the bytes of all retained deltas.
RetainedBytes(deltas) == UNION {deltas[i].from .. deltas[i].to : i \in DOMAIN deltas}

\* contains, for a text that is not empty.
Contains(deltas, needle) == needle \in RetainedBytes(deltas)

\* replay_after: the retained deltas newer than a sequence number, picked one
\* by one from the oldest on.
ReplayAfter(deltas, sequence) ==
    LET kept[i \in 0 .. Len(deltas)] ==
            IF i = 0 THEN <<>>
            ELSE IF deltas[i].sequence > sequence THEN Append(kept[i - 1], deltas[i])
            ELSE kept[i - 1]
    IN  kept[Len(deltas)]

\* What reclaiming should leave: the newest bytes, as many as the budget allows.
NewestBytes(total, capacity) ==
    {b \in 1 .. total : b > total - capacity}
=============================================================================
