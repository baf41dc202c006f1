----------------------------- MODULE PipelineText -----------------------------
(***************************************************************************)
(* Pipeline descriptions as text: a value is quoted when it is put into    *)
(* one (backends/gst/src/lib.rs), and /stats shows only the shape of one   *)
(* (common/src/metrics.rs).  A text is a sequence of words and of the      *)
(* characters that have a meaning.                                         *)
(***************************************************************************)
EXTENDS Integers, SequencesExt

Quote == "\""
Backslash == "\\"

\* Mutant: the backslash is taken for an ordinary character.
MutantEscaped(ch) == IF ch = Quote THEN <<Backslash, ch>> ELSE <<ch>>

Escaped(ch) == IF ch \in {Backslash, Quote} THEN <<Backslash, ch>> ELSE <<ch>>

Quoted(value) ==
    LET escaped[i \in 0..Len(value)] ==
            IF i = 0 THEN <<>> ELSE escaped[i - 1] \o Escaped(value[i])
    IN <<Quote>> \o escaped[Len(value)] \o <<Quote>>

\* Where the reader of a description is: in which quotes, behind a backslash,
\* and in the segment that starts at start.
AtStart == [quote |-> "", escaped |-> FALSE, start |-> 1, segments |-> <<>>]

\* One character: outside quotes and not behind a backslash, a "!" ends a segment.
ReadChar(s, description, k) ==
    LET ch == description[k]
        plain == ~s.escaped /\ ch # Backslash
        ends == plain /\ s.quote = "" /\ ch = "!"
    IN [quote |-> IF plain /\ s.quote = ch THEN ""
                  ELSE IF plain /\ s.quote = "" /\ ch \in {Quote, "'"} THEN ch ELSE s.quote,
        escaped |-> ch = Backslash /\ ~s.escaped,
        start |-> IF ends THEN k + 1 ELSE s.start,
        segments |-> IF ends THEN Append(s.segments, SubSeq(description, s.start, k - 1))
                     ELSE s.segments]

SplitPipelineSegments(description) ==
    LET after[k \in 0..Len(description)] ==
            IF k = 0 THEN AtStart ELSE ReadChar(after[k - 1], description, k)
        end == after[Len(description)]
    IN Append(end.segments, SubSeq(description, end.start, Len(description)))

\* The first word of a segment; of caps, the media type.
Leading(segment) ==
    LET from == SelectInSeq(segment, LAMBDA ch : ch # " ")
        to == SelectInSubSeq(segment, from, Len(segment), LAMBDA ch : ch = " ")
        word == IF from = 0 THEN <<>>
                ELSE SubSeq(segment, from, IF to = 0 THEN Len(segment) ELSE to - 1)
        comma == SelectInSeq(word, LAMBDA ch : ch = ",")
    IN IF Contains(word, "/") /\ comma > 0 THEN SubSeq(word, 1, comma - 1) ELSE word

\* The leading words of the segments that have one.
PipelineShape(description) ==
    LET segments == SplitPipelineSegments(description)
        words[i \in 0..Len(segments)] ==
            IF i = 0 THEN <<>>
            ELSE IF Leading(segments[i]) = <<>> THEN words[i - 1]
            ELSE Append(words[i - 1], Leading(segments[i]))
    IN words[Len(segments)]
=============================================================================
