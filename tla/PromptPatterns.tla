--------------------------- MODULE PromptPatterns ---------------------------
(***************************************************************************)
(* The suffix checks that decide whether a prompt is clean: how many bytes *)
(* of the transcript follow the last match of a pattern. A literal pattern *)
(* is searched from the end; a regular expression is searched from the     *)
(* beginning, each match after the end of the one before it.               *)
(*                                                                         *)
(* A literal is [kind, bytes]. A regular expression is [kind, words,       *)
(* atEnd]: the words it matches in the order in which the engine prefers   *)
(* them, and whether it ends in $. On a transcript of bounded length that  *)
(* is every expression that looks at nothing but the bytes it matches.     *)
(***************************************************************************)
EXTENDS Integers, Sequences, SequencesExt, FiniteSetsExt

MatchesAt(transcript, bytes, position) ==
    /\ position + Len(bytes) - 1 <= Len(transcript)
    /\ SubSeq(transcript, position, position + Len(bytes) - 1) = bytes

Matches(transcript, bytes) ==
    {position \in 1 .. Len(transcript) + 1 : MatchesAt(transcript, bytes, position)}

\* Mutant of LiteralSuffixGap: takes the first match, not the last.
LiteralSuffixGapFirst(transcript, bytes) ==
    IF bytes = <<>> \/ IsSuffix(bytes, transcript) THEN 0
    ELSE IF Matches(transcript, bytes) = {} THEN Len(transcript)
    ELSE Len(transcript) - (Min(Matches(transcript, bytes)) - 1) - Len(bytes)

LiteralSuffixGap(transcript, bytes) ==
    IF bytes = <<>> \/ IsSuffix(bytes, transcript) THEN 0
    ELSE IF Matches(transcript, bytes) = {} THEN Len(transcript)
    ELSE Len(transcript) - (Max(Matches(transcript, bytes)) - 1) - Len(bytes)

\* The words with which the expression matches at a position.
WordsAt(transcript, regex, position) ==
    {i \in DOMAIN regex.words :
        /\ MatchesAt(transcript, regex.words[i], position)
        /\ regex.atEnd => position + Len(regex.words[i]) - 1 = Len(transcript)}

\* find_iter(..).last(): the end of the last match of a search that takes the
\* preferred word at the first position it can, and goes on behind it, by one
\* byte at least; 0 for none.
LastMatchEnd(transcript, regex) ==
    LET end[from \in 1 .. Len(transcript) + 2] ==
            IF from > Len(transcript) + 1 THEN 0
            ELSE IF WordsAt(transcript, regex, from) = {} THEN end[from + 1]
            ELSE LET length == Len(regex.words[Min(WordsAt(transcript, regex, from))])
                     later  == end[IF length = 0 THEN from + 1 ELSE from + length]
                 IN  IF later = 0 THEN from + length - 1 ELSE later
    IN  end[1]

\* prompt_suffix_trailing_count: no match leaves the whole transcript behind.
PromptSuffixTrailingCount(pattern, transcript) ==
    IF pattern.kind = "literal" THEN LiteralSuffixGap(transcript, pattern.bytes)
                                ELSE Len(transcript) - LastMatchEnd(transcript, pattern)

PromptState(count) == IF count = 0 THEN [state |-> "Clean"] ELSE [state |-> "Dirty", count |-> count]
=============================================================================
