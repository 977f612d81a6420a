-------------------------- MODULE MCPayloadParser ---------------------------
(* Messages of two or three variables.  Some have quotes among the bytes   *)
(* of the header, the value and the timestamp.                             *)
EXTENDS PayloadParser

\* A variable of so many bytes of name and value; quotes are counted from the
\* end of the pattern.
Sent(name, size, valid, quotes) ==
    [name |-> name, size |-> size, valid |-> valid, quotes |-> quotes]

Place(x, begin) ==
    [begin |-> begin, name |-> x.name, size |-> x.size, valid |-> x.valid,
     quotes |-> {begin + x.name + 1 + PatternSize + q : q \in x.quotes}]

\* One after the other.
InARow(row) ==
    LET placed[k \in 0 .. Len(row)] ==
            IF k = 0 THEN <<>>
            ELSE LET before == placed[k - 1]
                 IN  Append(before, Place(row[k], IF k = 1 THEN 0 ELSE EndOf(before[k - 1])))
    IN  placed[Len(row)]

Good  == Sent(2, 2, TRUE, {})
Quote == Sent(1, 2, TRUE, {1, 14, 16, 22})
Wrong == Sent(2, 1, FALSE, {14})
Long  == Sent(4, 0, TRUE, {})

SomeMessages == {InARow(r) : r \in
    {<<Good, Quote, Good>>, <<Wrong, Quote>>, <<Quote, Wrong, Good>>, <<Long, Good>>}}

=============================================================================
