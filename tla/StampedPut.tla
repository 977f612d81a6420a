----------------------------- MODULE StampedPut -----------------------------
(***************************************************************************)
(* ca_array_put with the timestamp patch (FERRO_TS_PATCH), from the memory *)
(* of the caller to the record: the client library puts the value and the  *)
(* timestamp behind it into a message, the bytes reach the server in       *)
(* pieces of any size, camessage cuts them into messages again, and        *)
(* write_action sets the time of the record and puts the value.            *)
(*                                                                         *)
(* A byte is where it comes from: <<i, k>> is byte k of the memory given   *)
(* to the i-th put.  That memory holds the value, then the timestamp       *)
(* ("pv_memory=[pv_value|timestamp]", README.txt), then what belongs to *)
(* other PVs.  The circuit is connected, and speaks a version that knows   *)
(* large messages (V49).                                                   *)
(***************************************************************************)
EXTENDS Integers, Sequences

CONSTANTS
    PVs,
    ElementSize,        \* dbr_value_size of the type of each PV
    Count,              \* its number of elements
    Strings,            \* those of type DBR_STRING
    LinkedTime,         \* those whose TSEL names the TIME of another record
    StringLengths,      \* lengths of strings, with the '\0'
    LargePayload,       \* 0xffff: what a header of 16 bytes cannot say
    RecvBuffer,         \* size of the receive buffer, MAX_TCP
    LargeBuffer,        \* and of a large one, rsrvSizeofLargeBufTCP
    MaxPuts             \* bound on the messages

ASSUME StampedPutAssumption ==
    /\ ElementSize \in [PVs -> Nat \ {0}] /\ Count \in [PVs -> Nat \ {0}]
    /\ Strings \subseteq PVs /\ LinkedTime \subseteq PVs
    /\ LargePayload \in Nat /\ MaxPuts \in Nat
    /\ RecvBuffer \in Nat /\ RecvBuffer >= 24
    /\ LargeBuffer \in Nat /\ LargeBuffer >= RecvBuffer
    /\ \A p \in Strings : ElementSize[p] = 40
    /\ StringLengths \subseteq 1 .. 40

\* What a caller may ask: to put a PV, with a timestamp (type | 0x8000) or not,
\* and how long the string is, if it is one string.
Requests == [pv : PVs, stamped : BOOLEAN, length : StringLengths]

VARIABLES
    sent,       \* the messages committed to the circuit
    total,      \* and their bytes
    cnt,        \* bytes received
    stk,        \* bytes consumed
    drain,      \* recvBytesToDrain
    maxstk,     \* size of the receive buffer
    stage,      \* of the TCP thread: "recv", "parse", "write"
    parsed,     \* messages handled or drained
    record,     \* value and time of each record
    writable    \* what rsrvCheckPut says of each channel

putVars == <<sent, total, cnt, stk, drain, maxstk, stage, parsed, record, writable>>

Nothing == <<0, 0>>     \* a byte from no put: padding, or the initial record
Beyond  == <<0, 1>>     \* a byte from behind the message
Link    == <<0, 2>>     \* a byte of the time of the record TSEL names
Clock   == <<0, 3>>     \* a byte of the time of day

Stamp == 0 .. 7         \* the bytes of a timestamp

PutInit ==
    /\ sent = <<>> /\ total = 0
    /\ cnt = 0 /\ stk = 0 /\ drain = 0 /\ maxstk = RecvBuffer
    /\ stage = "recv" /\ parsed = 0
    /\ record = [p \in PVs |-> [value |-> 0, time |-> [k \in Stamp |-> Nothing]]]
    /\ writable \in [PVs -> BOOLEAN]

-----------------------------------------------------------------------------
(* Sizes.                                                                  *)

dbr_size_n(p) == ElementSize[p] * Count[p]

CA_MESSAGE_ALIGN(n) == ((n + 7) \div 8) * 8

IsOneString(r) == r.pv \in Strings /\ Count[r.pv] = 1

\* The bytes of the value in the message.
ValueSize(r) == IF IsOneString(r) THEN r.length ELSE dbr_size_n(r.pv)

StampSize(r) == IF r.stamped THEN 8 ELSE 0

PostSize(r) == CA_MESSAGE_ALIGN(ValueSize(r)) + StampSize(r)

HeaderSize(r) == IF PostSize(r) < LargePayload /\ Count[r.pv] < LargePayload
                 THEN 16 ELSE 24

\* What the client pushes: header, value, timestamp, padding.
PushedBytes(r) == HeaderSize(r) + CA_MESSAGE_ALIGN(ValueSize(r)) + StampSize(r)

\* Where the client takes the timestamp from: behind the aligned value.
StampOffset(r) == CA_MESSAGE_ALIGN(ValueSize(r))

\* Byte k of the payload of message i: the value, the timestamp, the padding.
Payload(i, k) ==
    LET r == sent[i].request
        s == ValueSize(r)
    IN  IF k < s THEN <<i, k>>
        ELSE IF r.stamped /\ k < s + 8 THEN <<i, StampOffset(r) + k - s>>
        ELSE IF k < PostSize(r) THEN Nothing
        ELSE Beyond

-----------------------------------------------------------------------------
(* The client.                                                             *)

\* A request that throws an exception on the way (no access, bad string, no
\* memory) leaves nothing behind: comQueSendMsgMinder clears what is not
\* committed.
ca_array_put(r) ==
    /\ Len(sent) < MaxPuts
    /\ sent' = Append(sent, [request |-> r, start |-> total])
    /\ total' = total + PushedBytes(r)
    /\ UNCHANGED <<cnt, stk, drain, maxstk, stage, parsed, record, writable>>

-----------------------------------------------------------------------------
(* The TCP thread of the server: recv, then camessage.                     *)

bytes_left == cnt - stk

\* External, camsgtask: the rest of the buffer moves to its front and bytes
\* are added to it.  camessage drains first.
Receive ==
    /\ stage = "recv"
    /\ \E n \in 1 .. total - cnt :
        /\ bytes_left + n <= maxstk
        /\ cnt' = cnt + n
        /\ IF drain >= bytes_left + n
           THEN /\ drain' = drain - (bytes_left + n) /\ stk' = cnt + n
                /\ stage' = "recv"
           ELSE /\ drain' = 0 /\ stk' = stk + drain
                /\ stage' = "parse"
    /\ UNCHANGED <<sent, total, maxstk, parsed, record, writable>>

\* The message that begins where camessage reads a header.
Heading(i) == i = parsed + 1 /\ i <= Len(sent) /\ sent[i].start = stk

MsgSize(i) == HeaderSize(sent[i].request) + PostSize(sent[i].request)

\* The header is there: 16 bytes, or 24 when they say so.
HeaderComplete(i) == bytes_left >= HeaderSize(sent[i].request)

WaitForMore ==
    /\ stage = "parse"
    /\ \/ bytes_left < 16
       \/ \E i \in 1 .. Len(sent) :
            /\ Heading(i)
            /\ \/ ~HeaderComplete(i)
               \/ MsgSize(i) <= maxstk /\ MsgSize(i) > bytes_left
    /\ stage' = "recv"
    /\ UNCHANGED <<sent, total, cnt, stk, drain, maxstk, parsed, record, writable>>

\* External, casExpandRecvBuffer: it finds a large buffer or it does not.
Expand(i) ==
    /\ stage = "parse" /\ Heading(i) /\ HeaderComplete(i)
    /\ maxstk < MsgSize(i) /\ MsgSize(i) <= LargeBuffer
    /\ maxstk' = LargeBuffer
    /\ UNCHANGED <<sent, total, cnt, stk, drain, stage, parsed, record, writable>>

\* What is left of a message too large for the buffer is drained.
BytesToDrain(i) == MsgSize(i) - bytes_left

TooLarge(i) ==
    /\ stage = "parse" /\ Heading(i) /\ HeaderComplete(i)
    /\ MsgSize(i) > maxstk
    /\ drain' = BytesToDrain(i) /\ stk' = cnt
    /\ parsed' = i /\ stage' = "recv"
    /\ UNCHANGED <<sent, total, cnt, maxstk, record, writable>>

Complete(i) ==
    /\ stage = "parse" /\ Heading(i) /\ HeaderComplete(i)
    /\ MsgSize(i) <= maxstk /\ MsgSize(i) <= bytes_left

\* Variant with a bug: m_postsize as write_action leaves it.
ConsumedAfterwards(i) == HeaderSize(sent[i].request) + dbr_size_n(sent[i].request.pv)

\* msgsize was computed before write_action changes m_postsize.
Consumed(i) == MsgSize(i)

-----------------------------------------------------------------------------
(* write_action, and the processing of the record.                         *)

Pv(i) == sent[i].request.pv

\* m_postsize - 8 is unsigned: below 8 it is a large number.
AddTimeStamp(i) ==
    LET postsize == PostSize(sent[i].request)
    IN  postsize >= 8 /\ dbr_size_n(Pv(i)) >= postsize - 8

\* Where the server takes the timestamp from: behind the value.
StampRead(i) == [k \in Stamp |-> Payload(i, dbr_size_n(Pv(i)) + k)]

\* rsrvCheckPut comes first.
Permitted(i) == writable[Pv(i)]

Denied(i) ==
    /\ Complete(i) /\ ~Permitted(i)
    /\ stk' = stk + Consumed(i) /\ parsed' = i
    /\ UNCHANGED <<sent, total, cnt, drain, maxstk, stage, record, writable>>

\* The time is written without the lock of the record ...
CopyTimeStamp(i) ==
    /\ Complete(i) /\ Permitted(i)
    /\ record' = IF AddTimeStamp(i)
                 THEN [record EXCEPT ![Pv(i)].time = StampRead(i)]
                 ELSE record
    /\ stage' = "write"
    /\ UNCHANGED <<sent, total, cnt, stk, drain, maxstk, parsed, writable>>

\* Variant with a bug: the patch is not compiled in.
recGblGetTimeOfDay(p, time) ==
    IF p \in LinkedTime THEN [k \in Stamp |-> Link] ELSE [k \in Stamp |-> Clock]

\* Patched: the time is that of TSEL's record, or stays.
recGblGetTimeStamp(p, time) ==
    IF p \in LinkedTime THEN [k \in Stamp |-> Link] ELSE time

\* ... and dbChannel_put takes the lock, puts the value and processes the record.
dbChannel_put(i) ==
    /\ stage = "write" /\ Heading(i)
    /\ record' = [record EXCEPT ![Pv(i)] =
                    [value |-> i, time |-> recGblGetTimeStamp(Pv(i), @.time)]]
    /\ stk' = stk + Consumed(i) /\ parsed' = i
    /\ stage' = "parse"
    /\ UNCHANGED <<sent, total, cnt, drain, maxstk, writable>>

-----------------------------------------------------------------------------
(* What else happens on the server.                                        *)

\* The record is processed by a scan.
Process(p) ==
    /\ record' = [record EXCEPT ![p].time = recGblGetTimeStamp(p, @)]
    /\ UNCHANGED <<sent, total, cnt, stk, drain, maxstk, stage, parsed, writable>>

\* Access security changes its mind.
ChangeAccess(p) ==
    /\ writable' = [writable EXCEPT ![p] = ~@]
    /\ UNCHANGED <<sent, total, cnt, stk, drain, maxstk, stage, parsed, record>>

Server ==
    \/ Receive
    \/ WaitForMore
    \/ \E i \in 1 .. Len(sent) :
         \/ Expand(i)
         \/ TooLarge(i)
         \/ Denied(i)
         \/ CopyTimeStamp(i)
         \/ dbChannel_put(i)

PutNext ==
    \/ \E r \in Requests : ca_array_put(r)
    \/ Server
    \/ \E p \in PVs : Process(p) \/ ChangeAccess(p)

PutSpec == PutInit /\ [][PutNext]_putVars

-----------------------------------------------------------------------------
(* Properties.                                                             *)

\* Where message i begins, or where the next one will.
Boundary(i) == IF i <= Len(sent) THEN sent[i].start ELSE total

\* camessage reads a header only where the client wrote one: what is consumed
\* and what is still to drain end where a message begins, whatever the pieces
\* in which bytes come, the messages that were too large, and the m_postsize
\* that write_action shortens.
Framed == stk + drain = Boundary(parsed + 1)

\* The client finds the timestamp where the caller put it.
KeepsItsStamp(r) ==
    r.stamped /\ dbr_size_n(r.pv) % 8 = 0 /\ ~IsOneString(r) /\ r.pv \notin LinkedTime

TimeIsTheStampOf(i, p) ==
    record[p].time = [k \in Stamp |-> <<i, dbr_size_n(p) + k>>]

\* A record that holds the value of a put with a timestamp has the time given
\* with that value, except while write_action is between the two: for PVs
\* whose size is a multiple of 8, neither denied puts in between nor the
\* processing of the record separate the pair.
StampGoesWithValue ==
    \A p \in PVs : LET i == record[p].value
                   IN  i # 0 /\ KeepsItsStamp(sent[i].request)
                       /\ ~(stage = "write" /\ Pv(parsed + 1) = p)
                       => TimeIsTheStampOf(i, p)

\* What README.txt says of pv_memory, for every type: the timestamp is
\* right behind the value.
TimeIsTheStamp ==
    \A p \in PVs : LET i == record[p].value
                   IN  i # 0 /\ sent[i].request.stamped /\ p \notin LinkedTime
                       /\ ~(stage = "write" /\ Pv(parsed + 1) = p)
                       => TimeIsTheStampOf(i, p)

=============================================================================
