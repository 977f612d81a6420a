--------------------------- MODULE PayloadParser ----------------------------
(***************************************************************************)
(* The payload of one message to DiodeReceiver: ClientService reads it by  *)
(* chunks that may be cut anywhere, appends them to what is left of the    *)
(* earlier ones, and takes the complete variables from its front.  A       *)
(* variable is                                                             *)
(*     "name": index type size offset value timestamp \n\r                 *)
(* and nothing but the quotes and the sizes tells where one begins.  When  *)
(* the index or the size cannot be right all that was received is dropped, *)
(* wherever it ends, and the parser has to find the next variable.         *)
(*                                                                         *)
(* The message is a row of byte positions; the payload is always a window  *)
(* of it, start + 1 .. recv, as it is cut at its front or dropped, and     *)
(* grows at its end.  Names hold no quotes, and no value holds the bytes   *)
(* that close a name.  What is done with a variable is in ReceiverStore.   *)
(***************************************************************************)
EXTENDS Integers, Sequences

CONSTANTS
    Messages,        \* the messages: sequences of [begin, name, size, valid, quotes],
                     \* the bytes before the variable, the lengths of name and
                     \* value, whether index and size are accepted, and the
                     \* positions of other bytes that are quotes
    PV_NAME_MAX_SIZE_REC,
    PieceSize        \* bytes read at a time from a message of known length

PatternSize == 3     \* ": and a space
HeaderSize  == 13    \* index, type, size, offset
TailSize    == 10    \* timestamp and \n\r

Opening(x) == x.begin + 1
Closing(x) == Opening(x) + x.name + 1
EndOf(x)   == Closing(x) + PatternSize - 1 + HeaderSize + x.size + TailSize

\* The other quotes lie after the name and the bytes that close it.
IsVariable(x) ==
    /\ x.begin \in Nat /\ x.name \in Nat /\ x.size \in Nat /\ x.valid \in BOOLEAN
    /\ \A q \in x.quotes : q \in Nat /\ Closing(x) + PatternSize <= q /\ q <= EndOf(x)

ASSUME MessagesAssumption ==
    /\ PV_NAME_MAX_SIZE_REC \in Nat /\ PieceSize \in Nat \ {0}
    /\ \A m \in Messages :
        /\ m \in Seq([begin : Nat, name : Nat, size : Nat, valid : BOOLEAN, quotes : SUBSET Nat])
        /\ Len(m) > 0 /\ m[1].begin = 0
        /\ \A v \in 1 .. Len(m) : IsVariable(m[v])
        /\ \A v \in 1 .. Len(m) - 1 : m[v + 1].begin = EndOf(m[v])
        /\ \A v, w \in 1 .. Len(m) : v < w => EndOf(m[v]) <= m[w].begin

VARIABLES
    message,     \* what the sender sends
    isChunked,   \* by chunks, or with its length in the header
    pc,          \* "chunk", "parse", or the reply: "ok" or "error"
    start, recv, \* the payload
    stored,      \* the variables taken, in their order
    dropped      \* history: what had been received when the payload was dropped

vars == <<message, isChunked, pc, start, recv, stored, dropped>>

Variables == 1 .. Len(message)
Total == EndOf(message[Len(message)])

Patterns == {Closing(message[v]) : v \in Variables}
Quotes == Patterns \cup {Opening(message[v]) : v \in Variables}
                   \cup UNION {message[v].quotes : v \in Variables}

\* ClientService, after the header.
Init ==
    /\ message \in Messages /\ isChunked \in BOOLEAN
    /\ pc = "chunk" /\ start = 0 /\ recv = 0
    /\ stored = <<>> /\ dropped = 0

-----------------------------------------------------------------------------
(* ReadNewChunk.                                                           *)

\* The sender cuts its chunks where it likes; a message of known length is
\* read by pieces.
ChunkSizes ==
    IF isChunked THEN 1 .. Total - recv
    ELSE {IF Total - recv < PieceSize THEN Total - recv ELSE PieceSize}

ReadNewChunk ==
    /\ pc = "chunk" /\ recv < Total
    /\ \E chunkSize \in ChunkSizes : recv' = recv + chunkSize
    /\ pc' = "parse"
    /\ UNCHANGED <<message, isChunked, start, stored, dropped>>

\* The chunk of size zero: what is left in the payload is forgotten.
LastChunk ==
    /\ pc = "chunk" /\ recv = Total
    /\ pc' = "ok"
    /\ UNCHANGED <<message, isChunked, start, recv, stored, dropped>>

\* The connection breaks, or a read times out.
ReadFails ==
    /\ pc = "chunk"
    /\ pc' = "error"
    /\ UNCHANGED <<message, isChunked, start, recv, stored, dropped>>

-----------------------------------------------------------------------------
(* ReadVarNameAndIndex.                                                    *)

First(S) == CHOOSE i \in S : \A j \in S : i <= j
Last(S)  == CHOOSE i \in S : \A j \in S : i >= j

\* The quotes in the payload.
Received == {i \in Quotes : start < i /\ i <= recv}

\* Enough bytes to compare with the pattern.
Fits(i) == recv - i + 1 >= PatternSize

\* Quotes at which resynchronisation stops: those that do not close a name,
\* or might not.
Openings == {i \in Received : Fits(i) => i \notin Patterns}

InSync == start + 1 \in Quotes

\* Where resynchronisation stops, if anywhere.
Opened == IF InSync THEN start + 1 ELSE First(Openings)

\* From there on, the quotes at which the search for the end of the name
\* stops: the first that closes one, or might.
Closings(opened) == {j \in Received : opened < j /\ (Fits(j) => j \in Patterns)}

\* Each quote before that one is taken for the opening quote instead.
NameOpening(opened, closings) ==
    Last({i \in Received : opened <= i /\ \A j \in closings : i < j})

\* Variant with a bug: the loop over the payload goes on.
SameChunk == "parse"

AfterRefill == "chunk"

\* The payload keeps what it has from here, and needs a chunk.
Refill(from) ==
    /\ start' = from /\ pc' = AfterRefill
    /\ UNCHANGED <<message, isChunked, recv, stored, dropped>>

PayloadIsEmpty == start = recv /\ Refill(start)

\* No variable begins here: the payload is consumed.
NoOpening == ~InSync /\ Openings = {}
Unsynchronised == start < recv /\ NoOpening /\ Refill(recv)

\* More is needed to tell whether this quote closes a name.
Unclear(opened) == ~InSync /\ ~Fits(opened)
OpeningIsCut(opened) == Unclear(opened) /\ Refill(opened - 1)

\* The name has no end yet.
NameClosed(closings) == closings # {} /\ Fits(First(closings))
NameIsCut(closings, opening) == ~NameClosed(closings) /\ Refill(opening - 1)

\* A name that is too long is skipped.
NameTooLong(opening, closing) ==
    /\ closing - opening - 1 > PV_NAME_MAX_SIZE_REC
    /\ Refill(opening - 1 + (closing - opening - 1))

-----------------------------------------------------------------------------
(* GetLocalIndex and ReadVarValueAndSkip.                                  *)

\* The variable whose name ends there.
TheVariable(closing) == CHOOSE v \in Variables : Closing(message[v]) = closing

NameProcessed(nameSize) == nameSize + PatternSize

\* The check counts the opening quote as one of the bytes of the header.
HeaderIsIn(opening, nameSize) == recv - (opening - 1) - NameProcessed(nameSize) >= HeaderSize

HeaderIsCut(opening, nameSize) == ~HeaderIsIn(opening, nameSize) /\ Refill(opening - 1)

ProcessedSize(nameSize, size) == NameProcessed(nameSize) + (HeaderSize - 1) + size + TailSize + 2

\* Variant with a bug: an impossible header is not noticed.
AlwaysAccepted(v) == TRUE

Accepted(v) == message[v].valid

\* An index or a size that cannot be: all that was received is dropped.
Drop(v) ==
    /\ ~Accepted(v)
    /\ start' = recv /\ dropped' = recv
    /\ pc' = "chunk"
    /\ UNCHANGED <<message, isChunked, recv, stored>>

ValueIsIn(opening, processedSize) == recv - (opening - 1) >= processedSize

ValueIsCut(opening, processedSize) ==
    ~ValueIsIn(opening, processedSize) /\ Refill(opening - 1)

\* Variant with a bug: the rest of the chunk waits for the next one.
OneForEachChunk == "chunk"

\* The loop over the payload goes on.
AfterVariable == "parse"

ReadVarValueAndSkip(v, opening, processedSize) ==
    /\ ValueIsIn(opening, processedSize)
    /\ stored' = Append(stored, v)
    /\ start' = opening - 1 + processedSize
    /\ pc' = AfterVariable
    /\ UNCHANGED <<message, isChunked, recv, dropped>>

\* The name, from its opening to its closing quote, is in the payload.
NameFound(opening, closing) ==
    LET nameSize      == closing - opening - 1
        v             == TheVariable(closing)
        processedSize == ProcessedSize(nameSize, message[v].size)
    IN  \/ NameTooLong(opening, closing)
        \/ /\ nameSize <= PV_NAME_MAX_SIZE_REC
           /\ \/ HeaderIsCut(opening, nameSize)
              \/ /\ HeaderIsIn(opening, nameSize)
                 /\ \/ Drop(v)
                    \/ /\ Accepted(v)
                       /\ \/ ValueIsCut(opening, processedSize)
                          \/ ReadVarValueAndSkip(v, opening, processedSize)

\* A variable may begin at this quote.
OpeningFound(opened) ==
    LET closings == Closings(opened)
        opening  == NameOpening(opened, closings)
    IN  \/ NameIsCut(closings, opening)
        \/ /\ NameClosed(closings)
           /\ NameFound(opening, First(closings))

\* Consumes all the complete variables in this payload, one at a time.
Consume ==
    /\ pc = "parse"
    /\ \/ PayloadIsEmpty \/ Unsynchronised
       \/ /\ start < recv /\ ~NoOpening
          /\ \/ OpeningIsCut(Opened)
             \/ ~Unclear(Opened) /\ OpeningFound(Opened)

Next == ReadNewChunk \/ LastChunk \/ ReadFails \/ Consume

Spec == Init /\ [][Next]_vars

\* The sender goes on, or the read times out; the parser runs.
FairSpec == Spec /\ WF_vars(Next)

-----------------------------------------------------------------------------
(* Properties.                                                             *)

TypeOK ==
    /\ message \in Messages /\ isChunked \in BOOLEAN
    /\ pc \in {"chunk", "parse", "ok", "error"}
    /\ start \in 0 .. recv /\ recv \in 0 .. Total /\ dropped \in 0 .. recv
    /\ stored \in Seq(Variables)

\* What is stored was sent, once, in this order, and was accepted, wherever
\* the chunks were cut and the payload dropped: the parser never takes a byte
\* of a value for the beginning of a variable.
StoredInOrder ==
    /\ \A k \in DOMAIN stored : message[stored[k]].valid
    /\ \A k, l \in DOMAIN stored : k < l => stored[k] < stored[l]

\* Before more is read, every variable that is complete is stored, but those
\* that had begun when the payload was dropped: the parser finds the next
\* variable whatever it finds first.  (A name too long ends its chunk.)
NothingIsLeft ==
    pc \in {"chunk", "ok"} /\ (\A v \in Variables : message[v].name <= PV_NAME_MAX_SIZE_REC) =>
        \A v \in Variables :
            /\ message[v].valid
            /\ dropped <= message[v].begin /\ EndOf(message[v]) <= recv
            => \E k \in DOMAIN stored : stored[k] = v

\* Every message gets its reply: the loop over the payload ends.
EveryMessageIsAnswered == <>(pc \in {"ok", "error"})

=============================================================================
