------------------------------ MODULE CaProofs ------------------------------
(***************************************************************************)
(* Theorems about the patched channel access, for all sizes, PVs, channels,*)
(* subscriptions and puts: messages stay framed and the timestamp goes with*)
(* its value (StampedPut); the client knows its access rights, updates     *)
(* follow them, every put callback is accounted for, and what is cleared   *)
(* stays free; no wake-up is lost, and lists and names agree (CaServer).   *)
(* The invariants of the server build on each other: ServerTypes, then     *)
(* ClaimsInOrder, then SubsInUse and UpdatesInv for subscriptions, PutsInv *)
(* for put callbacks, and LaborIsPosted and ListsInv.                      *)
(***************************************************************************)
EXTENDS StampedPut, CaServer, SequenceTheorems, TLAPS

-----------------------------------------------------------------------------
(* Puts with a timestamp.                                                  *)

\* A message begins where the one before it ends.
Contiguous ==
    \A i \in 1 .. Len(sent) : Boundary(i + 1) = sent[i].start + MsgSize(i)

SentMessage == [request : Requests, start : Nat]

PutTypes ==
    /\ sent \in Seq(SentMessage)
    /\ total \in Nat /\ cnt \in Nat /\ stk \in Nat /\ drain \in Nat
    /\ maxstk \in Nat /\ maxstk <= LargeBuffer
    /\ stage \in {"recv", "parse", "write"}
    /\ parsed \in Nat /\ parsed <= Len(sent)
    /\ stk <= cnt /\ cnt <= total /\ cnt - stk <= maxstk
    /\ writable \in [PVs -> BOOLEAN]

\* camessage looks at headers only when nothing is left to drain, and
\* write_action has the whole message.
InTheBuffer ==
    /\ stage # "recv" => drain = 0
    /\ stage = "write" => /\ parsed < Len(sent)
                          /\ MsgSize(parsed + 1) <= cnt - stk

FramedInv == PutTypes /\ Contiguous /\ Framed /\ InTheBuffer

LEMMA SizesAreNumbers ==
    ASSUME NEW r \in Requests
    PROVE  /\ dbr_size_n(r.pv) \in Nat
           /\ ValueSize(r) \in Nat
           /\ CA_MESSAGE_ALIGN(ValueSize(r)) \in Nat
           /\ PostSize(r) \in Nat /\ HeaderSize(r) \in {16, 24}
           /\ PushedBytes(r) = HeaderSize(r) + PostSize(r)
<1>1. r.pv \in PVs /\ r.length \in 1 .. 40
  BY StampedPutAssumption DEF Requests
<1>2. ElementSize[r.pv] \in Nat /\ Count[r.pv] \in Nat
  BY <1>1, StampedPutAssumption
<1>3. dbr_size_n(r.pv) \in Nat
  BY <1>2 DEF dbr_size_n
<1>4. ValueSize(r) \in Nat
  BY <1>1, <1>3 DEF ValueSize
<1>5. CA_MESSAGE_ALIGN(ValueSize(r)) \in Nat
  BY <1>4 DEF CA_MESSAGE_ALIGN
<1>6. PostSize(r) \in Nat
  BY <1>5 DEF PostSize, StampSize
<1>7. HeaderSize(r) \in {16, 24}
  BY DEF HeaderSize
<1> QED
  BY <1>3, <1>4, <1>5, <1>6, <1>7 DEF PushedBytes, PostSize, StampSize

LEMMA MsgSizeIsNumber ==
    ASSUME PutTypes, NEW i \in 1 .. Len(sent)
    PROVE  /\ sent[i].request \in Requests /\ sent[i].start \in Nat
           /\ MsgSize(i) \in Nat /\ MsgSize(i) >= 16
<1>1. sent[i] \in SentMessage
  BY DEF PutTypes
<1>2. sent[i].request \in Requests
  BY <1>1 DEF SentMessage
<1> QED
  BY <1>1, <1>2, SizesAreNumbers DEF MsgSize, SentMessage

\* The client appends a message: the others stay where they are.
LEMMA AppendKeepsBoundaries ==
    ASSUME FramedInv, NEW r \in Requests, ca_array_put(r)
    PROVE  /\ sent' \in Seq(SentMessage)
           /\ Len(sent') = Len(sent) + 1
           /\ \A i \in 1 .. Len(sent) : sent'[i] = sent[i]
           /\ \A i \in 1 .. Len(sent) + 1 : Boundary(i)' = Boundary(i)
           /\ Contiguous'
           /\ total' \in Nat /\ total' >= total
<1>1. total \in Nat /\ sent \in Seq(SentMessage)
  BY DEF FramedInv, PutTypes
<1> DEFINE new == [request |-> r, start |-> total]
<1>2. new \in SentMessage
  BY <1>1 DEF SentMessage
<1>3. sent' = Append(sent, new) /\ total' = total + PushedBytes(r)
  BY DEF ca_array_put
<1>4. PushedBytes(r) \in Nat /\ PushedBytes(r) = HeaderSize(r) + PostSize(r)
  BY SizesAreNumbers
<1>5. new.request = r /\ new.start = total
  OBVIOUS
<1> HIDE DEF new
<1>6. /\ sent' \in Seq(SentMessage)
      /\ Len(sent') = Len(sent) + 1
      /\ \A i \in 1 .. Len(sent) : sent'[i] = sent[i]
      /\ sent'[Len(sent) + 1] = new
  BY <1>1, <1>2, <1>3
<1>7. ASSUME NEW i \in 1 .. Len(sent) + 1
      PROVE  Boundary(i)' = Boundary(i)
  <2>1. CASE i \in 1 .. Len(sent)
    BY <1>1, <1>6, <2>1 DEF Boundary
  <2>2. CASE i = Len(sent) + 1
    BY <1>1, <1>5, <1>6, <2>2 DEF Boundary
  <2> QED
    BY <1>1, <2>1, <2>2
<1>8. ASSUME NEW i \in 1 .. Len(sent')
      PROVE  (Boundary(i + 1) = sent[i].start + MsgSize(i))'
  <2>1. CASE i \in 1 .. Len(sent)
    <3>1. MsgSize(i)' = MsgSize(i) /\ sent'[i].start = sent[i].start
      BY <1>6, <2>1 DEF MsgSize
    <3>2. Boundary(i + 1)' = Boundary(i + 1)
      BY <1>1, <1>7, <2>1
    <3> QED
      BY <2>1, <3>1, <3>2 DEF FramedInv, Contiguous
  <2>2. CASE i = Len(sent) + 1
    <3>1. Boundary(i + 1)' = total'
      BY <1>1, <1>6, <2>2 DEF Boundary
    <3>2. MsgSize(i)' = PushedBytes(r) /\ sent'[i].start = total
      BY <1>4, <1>5, <1>6, <2>2 DEF MsgSize
    <3> QED
      BY <1>3, <3>1, <3>2
  <2> QED
    BY <1>1, <1>6, <2>1, <2>2
<1> QED
  BY <1>1, <1>3, <1>4, <1>6, <1>7, <1>8 DEF Contiguous

\* The message camessage is at begins at stk and ends where the next begins.
LEMMA HeadingFacts ==
    ASSUME FramedInv, NEW i \in 1 .. Len(sent), Heading(i)
    PROVE  /\ i = parsed + 1 /\ i \in Nat
           /\ MsgSize(i) \in Nat /\ Boundary(i + 1) = stk + MsgSize(i)
<1>1. Boundary(i + 1) = sent[i].start + MsgSize(i)
  BY DEF FramedInv, Contiguous
<1> QED
  BY <1>1, MsgSizeIsNumber DEF FramedInv, Heading

LEMMA FramedStep == FramedInv /\ [PutNext]_putVars => FramedInv'
<1> SUFFICES ASSUME FramedInv, [PutNext]_putVars PROVE FramedInv'
  OBVIOUS
<1> USE StampedPutAssumption DEF FramedInv
<1>1. ASSUME NEW r \in Requests, ca_array_put(r) PROVE FramedInv'
  <2>1. UNCHANGED <<cnt, stk, drain, maxstk, stage, parsed, record, writable>>
    BY <1>1 DEF ca_array_put
  <2>2. PutTypes'
    <3>1. sent' \in Seq(SentMessage) /\ total' \in Nat /\ cnt' <= total'
          /\ parsed' <= Len(sent')
      BY <1>1, <2>1, AppendKeepsBoundaries DEF PutTypes
    <3>2. SentMessage' = SentMessage
      BY DEF SentMessage, Requests
    <3> QED
      BY <2>1, <3>1, <3>2 DEF PutTypes
  <2>3. Framed'
    <3>1. parsed' = parsed /\ parsed + 1 \in 1 .. Len(sent) + 1
      BY <2>1 DEF PutTypes
    <3>2. Boundary(parsed + 1)' = Boundary(parsed + 1)
      BY <1>1, <3>1, AppendKeepsBoundaries
    <3> QED
      BY <2>1, <3>2 DEF Framed
  <2>4. ASSUME stage = "write" PROVE MsgSize(parsed + 1)' = MsgSize(parsed + 1)
    <3>1. parsed' = parsed /\ parsed + 1 \in 1 .. Len(sent)
      BY <2>1, <2>4 DEF InTheBuffer, PutTypes
    <3>2. sent'[parsed + 1] = sent[parsed + 1]
      BY <1>1, <3>1, AppendKeepsBoundaries
    <3> QED
      BY <3>1, <3>2 DEF MsgSize
  <2>5. InTheBuffer'
    BY <1>1, <2>1, <2>4, AppendKeepsBoundaries DEF InTheBuffer, PutTypes
  <2> QED
    BY <1>1, <2>2, <2>3, <2>5, AppendKeepsBoundaries
<1>2. ASSUME UNCHANGED <<sent, total>>
      PROVE  Contiguous' /\ \A i : Boundary(i)' = Boundary(i) /\ MsgSize(i)' = MsgSize(i)
  BY <1>2 DEF Contiguous, Boundary, MsgSize
<1>3. CASE Receive
  <2>1. PICK n \in 1 .. total - cnt :
          /\ bytes_left + n <= maxstk
          /\ cnt' = cnt + n
          /\ IF drain >= bytes_left + n
             THEN /\ drain' = drain - (bytes_left + n) /\ stk' = cnt + n
                  /\ stage' = "recv"
             ELSE /\ drain' = 0 /\ stk' = stk + drain
                  /\ stage' = "parse"
    BY <1>3 DEF Receive
  <2>2. UNCHANGED <<sent, total, maxstk, parsed, record, writable>>
    BY <1>3 DEF Receive
  <2>3. PutTypes'
    BY <2>1, <2>2 DEF PutTypes, bytes_left
  <2>4. stk' + drain' = stk + drain
    BY <2>1 DEF bytes_left, PutTypes
  <2>5. Framed'
    BY <1>2, <2>2, <2>4 DEF Framed
  <2>6. InTheBuffer'
    BY <2>1 DEF InTheBuffer
  <2> QED
    BY <1>2, <2>2, <2>3, <2>5, <2>6
<1>4. CASE WaitForMore
  <2>1. UNCHANGED <<sent, total, cnt, stk, drain, maxstk, parsed, record, writable>>
        /\ stage' = "recv"
    BY <1>4 DEF WaitForMore
  <2> QED
    BY <1>2, <2>1 DEF PutTypes, Framed, InTheBuffer
<1>5. ASSUME NEW i \in 1 .. Len(sent), Expand(i) PROVE FramedInv'
  <2>1. /\ UNCHANGED <<sent, total, cnt, stk, drain, stage, parsed, record, writable>>
        /\ stage = "parse" /\ maxstk' = LargeBuffer
    BY <1>5 DEF Expand
  <2> QED
    BY <1>2, <2>1 DEF PutTypes, Framed, InTheBuffer
<1>6. ASSUME NEW i \in 1 .. Len(sent), TooLarge(i) PROVE FramedInv'
  <2>1. /\ Heading(i) /\ MsgSize(i) > maxstk
        /\ drain' = MsgSize(i) - (cnt - stk) /\ stk' = cnt
        /\ parsed' = i /\ stage' = "recv"
        /\ UNCHANGED <<sent, total, cnt, maxstk, record, writable>>
    BY <1>6 DEF TooLarge, BytesToDrain, bytes_left
  <2>2. i = parsed + 1 /\ MsgSize(i) \in Nat /\ Boundary(i + 1) = stk + MsgSize(i)
    BY <2>1, HeadingFacts
  <2>3. PutTypes'
    BY <2>1, <2>2 DEF PutTypes
  <2>4. stk' + drain' = stk + MsgSize(i)
    BY <2>1, <2>2 DEF PutTypes
  <2>5. Framed'
    BY <1>2, <2>1, <2>2, <2>4 DEF Framed
  <2> QED
    BY <1>2, <2>1, <2>3, <2>5 DEF InTheBuffer
<1>7. ASSUME NEW i \in 1 .. Len(sent), Heading(i), stage # "recv", stage' = "parse",
             MsgSize(i) <= cnt - stk, stk' = stk + MsgSize(i), parsed' = i,
             UNCHANGED <<sent, total, cnt, drain, maxstk, writable>>
      PROVE  FramedInv'
  <2>1. i = parsed + 1 /\ MsgSize(i) \in Nat /\ Boundary(i + 1) = stk + MsgSize(i)
    BY <1>7, HeadingFacts
  <2>2. PutTypes'
    BY <1>7, <2>1 DEF PutTypes
  <2>3. drain = 0 /\ stk' + drain' = Boundary(i + 1)
    BY <1>7, <2>1 DEF InTheBuffer, PutTypes
  <2>4. Framed'
    BY <1>2, <1>7, <2>3 DEF Framed
  <2> QED
    BY <1>2, <1>7, <2>2, <2>3, <2>4 DEF InTheBuffer
<1>8. ASSUME NEW i \in 1 .. Len(sent), Denied(i) PROVE FramedInv'
  BY <1>7, <1>8 DEF Denied, Complete, Consumed, bytes_left
<1>9. ASSUME NEW i \in 1 .. Len(sent), CopyTimeStamp(i) PROVE FramedInv'
  <2>1. /\ Heading(i) /\ MsgSize(i) <= cnt - stk /\ stage = "parse" /\ stage' = "write"
        /\ UNCHANGED <<sent, total, cnt, stk, drain, maxstk, parsed, writable>>
    BY <1>9 DEF CopyTimeStamp, Complete, bytes_left
  <2>2. i = parsed + 1
    BY <2>1 DEF Heading
  <2>3. PutTypes' /\ Framed'
    BY <1>2, <2>1 DEF PutTypes, Framed
  <2>4. InTheBuffer'
    BY <1>2, <2>1, <2>2 DEF InTheBuffer, PutTypes
  <2> QED
    BY <1>2, <2>1, <2>3, <2>4
<1>10. ASSUME NEW i \in 1 .. Len(sent), dbChannel_put(i) PROVE FramedInv'
  <2>1. MsgSize(i) <= cnt - stk
    BY <1>10 DEF dbChannel_put, Heading, InTheBuffer
  <2> QED
    BY <1>7, <1>10, <2>1 DEF dbChannel_put, Consumed
<1>11. ASSUME UNCHANGED <<sent, total, cnt, stk, drain, maxstk, stage, parsed>>,
              writable' \in [PVs -> BOOLEAN]
       PROVE  FramedInv'
  BY <1>2, <1>11 DEF PutTypes, Framed, InTheBuffer
<1>12. ASSUME NEW p \in PVs, Process(p) PROVE FramedInv'
  BY <1>11, <1>12 DEF Process, PutTypes
<1>13. ASSUME NEW p \in PVs, ChangeAccess(p) PROVE FramedInv'
  BY <1>11, <1>13 DEF ChangeAccess, PutTypes
<1>14. CASE UNCHANGED putVars
  BY <1>11, <1>14 DEF putVars, PutTypes
<1> QED
  BY <1>1, <1>3, <1>4, <1>5, <1>6, <1>8, <1>9, <1>10, <1>12, <1>13, <1>14 DEF PutNext, Server

LEMMA FramedInitially == PutInit => FramedInv
<1> SUFFICES ASSUME PutInit PROVE FramedInv
  OBVIOUS
<1>1. Len(sent) = 0 /\ sent = <<>>
  BY DEF PutInit
<1> QED
  BY <1>1, StampedPutAssumption
  DEF PutInit, FramedInv, PutTypes, Contiguous, Framed, Boundary, InTheBuffer

\* camessage reads headers only where the client wrote them, whatever the sizes,
\* buffers and pieces.
THEOREM MessagesStayFramed == PutSpec => []Framed
<1>1. FramedInv => Framed
  BY DEF FramedInv
<1> QED
  BY <1>1, FramedInitially, FramedStep, PTL DEF PutSpec

\* The time of a record is eight bytes.
Times == [Stamp -> Nat \X Nat]
RecordStates == [value : Nat, time : Times]

\* The value of a record is of a message that was handled, for that record; and
\* between the two halves of write_action the time is that of the message.
StampInv ==
    /\ record \in [PVs -> RecordStates]
    /\ \A p \in PVs : /\ record[p].value <= parsed
                      /\ record[p].value # 0 => Pv(record[p].value) = p
    /\ StampGoesWithValue
    /\ stage = "write" /\ KeepsItsStamp(sent[parsed + 1].request)
         => TimeIsTheStampOf(parsed + 1, Pv(parsed + 1))

\* Client and server agree on where the timestamp is, if the size of the value
\* is a multiple of 8; and the server sees that there is one.
LEMMA StampIsFound ==
    ASSUME PutTypes, NEW i \in 1 .. Len(sent), KeepsItsStamp(sent[i].request)
    PROVE  /\ AddTimeStamp(i)
           /\ StampRead(i) = [k \in Stamp |-> <<i, dbr_size_n(Pv(i)) + k>>]
<1> DEFINE r == sent[i].request
           d == dbr_size_n(r.pv)
<1>1. d \in Nat /\ r \in Requests
  BY MsgSizeIsNumber, SizesAreNumbers
<1>2. r.stamped /\ d % 8 = 0 /\ ValueSize(r) = d
  BY DEF KeepsItsStamp, ValueSize
<1>3. CA_MESSAGE_ALIGN(ValueSize(r)) = d
  BY <1>1, <1>2 DEF CA_MESSAGE_ALIGN
<1>4. StampOffset(r) = d /\ PostSize(r) = d + 8
  BY <1>2, <1>3 DEF StampOffset, PostSize, StampSize
<1>5. AddTimeStamp(i)
  BY <1>1, <1>4 DEF AddTimeStamp, Pv
<1>6. ASSUME NEW k \in Stamp
      PROVE  Payload(i, d + k) = <<i, d + k>>
  <2>1. k \in Nat /\ k < 8
    BY DEF Stamp
  <2>2. ~(d + k < ValueSize(r)) /\ r.stamped /\ d + k < ValueSize(r) + 8
    BY <1>1, <1>2, <2>1
  <2>3. Payload(i, d + k) = <<i, StampOffset(r) + (d + k) - ValueSize(r)>>
    BY <2>2 DEF Payload
  <2>4. StampOffset(r) + (d + k) - ValueSize(r) = d + k
    BY <1>1, <1>2, <1>4, <2>1
  <2> QED
    BY <2>3, <2>4
<1>7. StampRead(i) = [k \in Stamp |-> Payload(i, d + k)]
  BY DEF StampRead, Pv
<1> HIDE DEF d, r
<1>8. StampRead(i) = [k \in Stamp |-> <<i, d + k>>]
  BY <1>6, <1>7
<1> QED
  BY <1>5, <1>8 DEF d, r, Pv

LEMMA StampsAreTimes ==
    ASSUME PutTypes, NEW i \in 1 .. Len(sent)
    PROVE  StampRead(i) \in Times
<1> DEFINE r == sent[i].request
<1>1. r \in Requests /\ dbr_size_n(r.pv) \in Nat /\ ValueSize(r) \in Nat
      /\ StampOffset(r) \in Nat
  BY MsgSizeIsNumber, SizesAreNumbers DEF StampOffset
<1>2. ASSUME NEW k \in Nat PROVE Payload(i, k) \in Nat \X Nat
  <2>1. <<i, k>> \in Nat \X Nat /\ Nothing \in Nat \X Nat /\ Beyond \in Nat \X Nat
    BY <1>2 DEF Nothing, Beyond
  <2>2. CASE k < ValueSize(r)
    BY <2>1, <2>2 DEF Payload
  <2>3. CASE ~(k < ValueSize(r)) /\ r.stamped /\ k < ValueSize(r) + 8
    <3>1. StampOffset(r) + k - ValueSize(r) \in Nat
      BY <1>1, <1>2, <2>3
    <3> QED
      BY <2>3, <3>1 DEF Payload
  <2>4. CASE ~(k < ValueSize(r)) /\ ~(r.stamped /\ k < ValueSize(r) + 8)
    BY <2>1, <2>4 DEF Payload
  <2> QED
    BY <2>2, <2>3, <2>4
<1>3. \A k \in Stamp : dbr_size_n(Pv(i)) + k \in Nat
  BY <1>1 DEF Stamp, Pv
<1> QED
  BY <1>2, <1>3 DEF StampRead, Times

LEMMA TimesStayTimes ==
    ASSUME NEW p \in PVs, NEW time \in Times
    PROVE  recGblGetTimeStamp(p, time) \in Times
<1>1. Link \in Nat \X Nat
  BY DEF Link
<1> QED
  BY <1>1 DEF recGblGetTimeStamp, Times

LEMMA StampStep == FramedInv /\ FramedInv' /\ StampInv /\ [PutNext]_putVars => StampInv'
<1> SUFFICES ASSUME FramedInv, FramedInv', StampInv, [PutNext]_putVars PROVE StampInv'
  OBVIOUS
<1>1. PutTypes /\ PutTypes' /\ parsed \in Nat /\ parsed <= Len(sent) /\ Len(sent) \in Nat
  <2>1. PutTypes /\ PutTypes'
    BY DEF FramedInv
  <2>2. parsed \in Nat /\ parsed <= Len(sent) /\ sent \in Seq(SentMessage)
    BY <2>1 DEF PutTypes
  <2> QED
    BY <2>1, <2>2
<1>2. /\ record \in [PVs -> RecordStates]
      /\ \A p \in PVs : record[p].value \in Nat /\ record[p].time \in Times
  BY DEF StampInv, RecordStates
<1> DEFINE Right(p) ==
        /\ record[p].value <= parsed
        /\ record[p].value # 0 => Pv(record[p].value) = p
        /\ record[p].value # 0 /\ KeepsItsStamp(sent[record[p].value].request)
             /\ ~(stage = "write" /\ Pv(parsed + 1) = p)
             => TimeIsTheStampOf(record[p].value, p)
      Ready == stage = "write" /\ KeepsItsStamp(sent[parsed + 1].request)
                 => TimeIsTheStampOf(parsed + 1, Pv(parsed + 1))
<1>3. \A p \in PVs : Right(p)
  BY DEF StampInv, StampGoesWithValue
<1>4. Ready
  BY DEF StampInv
<1>5. ASSUME record' \in [PVs -> RecordStates], \A p \in PVs : Right(p)', Ready'
      PROVE  StampInv'
  BY <1>5 DEF StampInv, StampGoesWithValue
<1> HIDE DEF Right, Ready
<1>6. ASSUME UNCHANGED <<record, stage, parsed>>,
             \A i \in 1 .. Len(sent) : sent'[i] = sent[i]
      PROVE  StampInv'
  <2>1. \A i \in 1 .. Len(sent) : Pv(i)' = Pv(i)
    BY <1>6 DEF Pv
  <2>2. stage = "write" => parsed + 1 \in 1 .. Len(sent)
    BY <1>1 DEF FramedInv, InTheBuffer
  <2>3. ASSUME NEW p \in PVs PROVE Right(p)'
    <3>1. record[p].value # 0 => record[p].value \in 1 .. Len(sent)
      BY <1>1, <1>2, <1>3 DEF Right
    <3>2. record'[p] = record[p] /\ parsed' = parsed /\ stage' = stage
      BY <1>6
    <3>3. stage = "write" => Pv(parsed + 1)' = Pv(parsed + 1)
      BY <2>1, <2>2, <3>2 DEF Pv
    <3>4. CASE record[p].value = 0
      BY <1>3, <3>2, <3>4 DEF Right
    <3>5. CASE record[p].value # 0
      <4>1. /\ Pv(record[p].value)' = Pv(record[p].value)
            /\ sent'[record[p].value] = sent[record[p].value]
        BY <1>6, <2>1, <3>1, <3>2, <3>5 DEF Pv
      <4>2. KeepsItsStamp(sent[record[p].value].request)' = KeepsItsStamp(sent[record[p].value].request)
        BY <3>2, <4>1 DEF KeepsItsStamp, IsOneString, dbr_size_n
      <4>3. TimeIsTheStampOf(record[p].value, p)' = TimeIsTheStampOf(record[p].value, p)
        BY <3>2 DEF TimeIsTheStampOf, dbr_size_n
      <4> QED
        BY <1>3, <3>2, <3>3, <4>1, <4>2, <4>3 DEF Right
    <3> QED
      BY <3>4, <3>5
  <2>4. Ready'
    BY <1>4, <1>6, <2>2 DEF Ready, Pv, KeepsItsStamp, IsOneString, dbr_size_n, TimeIsTheStampOf
  <2> QED
    BY <1>2, <1>5, <1>6, <2>3, <2>4
<1>7. ASSUME NEW r \in Requests, ca_array_put(r) PROVE StampInv'
  BY <1>6, <1>7, AppendKeepsBoundaries DEF ca_array_put
\* The message at hand is handled without touching a record.
<1>8. ASSUME UNCHANGED <<sent, record>>, stage # "write", stage' # "write",
             parsed' \in Nat, parsed <= parsed'
      PROVE  StampInv'
  <2>1. \A p \in PVs : Right(p)'
    BY <1>1, <1>2, <1>3, <1>8
    DEF Right, Pv, KeepsItsStamp, IsOneString, dbr_size_n, TimeIsTheStampOf
  <2> QED
    BY <1>2, <1>5, <1>8, <2>1 DEF Ready
<1>9. CASE Receive
  BY <1>1, <1>8, <1>9 DEF Receive
<1>10. CASE WaitForMore
  BY <1>1, <1>8, <1>10 DEF WaitForMore
<1>11. ASSUME NEW i \in 1 .. Len(sent), Expand(i) PROVE StampInv'
  BY <1>1, <1>8, <1>11 DEF Expand
<1>12. ASSUME NEW i \in 1 .. Len(sent), TooLarge(i) PROVE StampInv'
  BY <1>1, <1>8, <1>12 DEF TooLarge, Heading
<1>13. ASSUME NEW i \in 1 .. Len(sent), Denied(i) PROVE StampInv'
  BY <1>1, <1>8, <1>13 DEF Denied, Complete, Heading
<1>14. ASSUME NEW i \in 1 .. Len(sent), CopyTimeStamp(i) PROVE StampInv'
  <2>1. /\ i = parsed + 1 /\ stage = "parse" /\ stage' = "write"
        /\ UNCHANGED <<sent, parsed>>
        /\ record' = IF AddTimeStamp(i)
                     THEN [record EXCEPT ![Pv(i)].time = StampRead(i)]
                     ELSE record
    BY <1>14 DEF CopyTimeStamp, Complete, Heading
  <2>2. StampRead(i) \in Times /\ Pv(i) \in PVs
    BY <1>1, StampsAreTimes, MsgSizeIsNumber DEF Pv, Requests
  <2>3. record' \in [PVs -> RecordStates]
    BY <1>2, <2>1, <2>2 DEF RecordStates
  <2>4. \A p \in PVs : /\ record'[p].value = record[p].value
                       /\ p # Pv(i) => record'[p].time = record[p].time
    BY <1>2, <2>1, <2>2 DEF RecordStates
  <2>5. ASSUME NEW p \in PVs PROVE Right(p)'
    <3>1. record'[p].value = record[p].value
      BY <2>4
    <3>2. CASE p = Pv(i)
      BY <1>3, <2>1, <3>1, <3>2 DEF Right, Pv
    <3>3. CASE p # Pv(i)
      <4>1. record'[p].time = record[p].time
        BY <2>4, <3>3
      <4> QED
        BY <1>3, <2>1, <3>1, <4>1
        DEF Right, Pv, KeepsItsStamp, IsOneString, dbr_size_n, TimeIsTheStampOf
    <3> QED
      BY <3>2, <3>3
  <2>6. Ready'
    <3> SUFFICES ASSUME KeepsItsStamp(sent[i].request)
                 PROVE  record'[Pv(i)].time = [k \in Stamp |-> <<i, dbr_size_n(Pv(i)) + k>>]
      BY <2>1 DEF Ready, Pv, KeepsItsStamp, IsOneString, dbr_size_n, TimeIsTheStampOf
    <3>1. AddTimeStamp(i) /\ StampRead(i) = [k \in Stamp |-> <<i, dbr_size_n(Pv(i)) + k>>]
      BY <1>1, StampIsFound
    <3>2. record'[Pv(i)].time = StampRead(i)
      BY <1>2, <2>1, <2>2, <3>1 DEF RecordStates
    <3> QED
      BY <3>1, <3>2
  <2> QED
    BY <1>5, <2>3, <2>5, <2>6
<1>15. ASSUME NEW i \in 1 .. Len(sent), dbChannel_put(i) PROVE StampInv'
  <2>1. /\ i = parsed + 1 /\ stage = "write" /\ stage' = "parse" /\ parsed' = i
        /\ UNCHANGED sent
        /\ record' = [record EXCEPT ![Pv(i)] =
                        [value |-> i, time |-> recGblGetTimeStamp(Pv(i), @.time)]]
    BY <1>15 DEF dbChannel_put, Heading
  <2>2. Pv(i) \in PVs /\ Pv(i)' = Pv(i)
    BY <1>1, <2>1, MsgSizeIsNumber DEF Pv, Requests
  <2>3. recGblGetTimeStamp(Pv(i), record[Pv(i)].time) \in Times
    BY <1>2, <2>2, TimesStayTimes
  <2>4. record' \in [PVs -> RecordStates]
    BY <1>2, <2>1, <2>2, <2>3 DEF RecordStates
  <2>5. ASSUME NEW p \in PVs, p # Pv(i) PROVE Right(p)'
    <3>1. record'[p] = record[p]
      BY <1>2, <2>1, <2>5
    <3> QED
      BY <1>1, <1>2, <1>3, <2>1, <2>5, <3>1
      DEF Right, Pv, KeepsItsStamp, IsOneString, dbr_size_n, TimeIsTheStampOf
  <2>6. Right(Pv(i))'
    <3>1. /\ record'[Pv(i)].value = i
          /\ record'[Pv(i)].time = recGblGetTimeStamp(Pv(i), record[Pv(i)].time)
      BY <1>2, <2>1, <2>2
    <3>2. i # 0 /\ i <= parsed'
      BY <1>1, <2>1
    <3>3. ASSUME KeepsItsStamp(sent[i].request)
          PROVE  record'[Pv(i)].time = [k \in Stamp |-> <<i, dbr_size_n(Pv(i)) + k>>]
      <4>1. Pv(i) \notin LinkedTime
        BY <3>3 DEF KeepsItsStamp, Pv
      <4>2. TimeIsTheStampOf(i, Pv(i))
        BY <1>4, <2>1, <3>3 DEF Ready
      <4> QED
        BY <3>1, <4>1, <4>2 DEF recGblGetTimeStamp, TimeIsTheStampOf
    <3> QED
      BY <2>1, <2>2, <3>1, <3>2, <3>3
      DEF Right, Pv, KeepsItsStamp, IsOneString, dbr_size_n, TimeIsTheStampOf
  <2>7. Ready'
    BY <2>1 DEF Ready
  <2> QED
    BY <1>5, <2>4, <2>5, <2>6, <2>7, <2>2
<1>16. ASSUME NEW q \in PVs, Process(q) PROVE StampInv'
  <2>1. /\ record' = [record EXCEPT ![q].time = recGblGetTimeStamp(q, @)]
        /\ UNCHANGED <<sent, stage, parsed>>
    BY <1>16 DEF Process
  <2>2. recGblGetTimeStamp(q, record[q].time) \in Times
    BY <1>2, TimesStayTimes
  <2>3. record' \in [PVs -> RecordStates]
    BY <1>2, <2>1, <2>2 DEF RecordStates
  <2>4. \A p \in PVs : /\ record'[p].value = record[p].value
                       /\ p \notin LinkedTime => record'[p].time = record[p].time
    BY <1>2, <2>1, <2>2 DEF RecordStates, recGblGetTimeStamp
  <2>5. \A p \in PVs : Right(p)'
    BY <1>2, <1>3, <2>1, <2>4
    DEF Right, Pv, KeepsItsStamp, IsOneString, dbr_size_n, TimeIsTheStampOf
  <2>6. Ready'
    <3>1. stage = "write" => Pv(parsed + 1) \in PVs
      BY <1>1, MsgSizeIsNumber DEF FramedInv, InTheBuffer, Pv, Requests
    <3> QED
      BY <1>4, <2>1, <2>4, <3>1
      DEF Ready, Pv, KeepsItsStamp, IsOneString, dbr_size_n, TimeIsTheStampOf
  <2> QED
    BY <1>5, <2>3, <2>5, <2>6
<1>17. ASSUME NEW p \in PVs, ChangeAccess(p) PROVE StampInv'
  BY <1>6, <1>17 DEF ChangeAccess
<1>18. CASE UNCHANGED putVars
  BY <1>6, <1>18 DEF putVars
<1> QED
  BY <1>7, <1>9, <1>10, <1>11, <1>12, <1>13, <1>14, <1>15, <1>16, <1>17, <1>18
  DEF PutNext, Server

LEMMA StampInitially == PutInit => StampInv
<1> SUFFICES ASSUME PutInit PROVE StampInv
  OBVIOUS
<1>1. record = [p \in PVs |-> [value |-> 0, time |-> [k \in Stamp |-> Nothing]]]
      /\ stage = "recv" /\ parsed = 0
  BY DEF PutInit
<1>2. [k \in Stamp |-> Nothing] \in Times
  BY DEF Times, Nothing
<1> HIDE DEF Times
<1>3. record \in [PVs -> RecordStates] /\ \A p \in PVs : record[p].value = 0
  BY <1>1, <1>2 DEF RecordStates
<1> QED
  BY <1>1, <1>3 DEF StampInv, StampGoesWithValue

\* A record has the time its value was put with, for all PVs whose size is a
\* multiple of 8, whatever pieces, buffers, denied puts and scans.
THEOREM StampStaysWithValue == PutSpec => []StampGoesWithValue
<1>1. StampInv => StampGoesWithValue
  BY DEF StampInv
<1>2. PutInit => FramedInv /\ StampInv
  BY FramedInitially, StampInitially
<1>3. FramedInv /\ StampInv /\ [PutNext]_putVars => FramedInv' /\ StampInv'
  BY FramedStep, StampStep
<1> QED
  BY <1>1, <1>2, <1>3, PTL DEF PutSpec

\* The counters of both ends keep their types and their order, and what was
\* received and is not consumed fits the buffer, which grows to LargeBuffer only.
THEOREM PutsStayTyped == PutSpec => [](PutTypes /\ record \in [PVs -> RecordStates])
<1>1. FramedInv /\ StampInv => PutTypes /\ record \in [PVs -> RecordStates]
  BY DEF FramedInv, StampInv
<1>2. PutInit => FramedInv /\ StampInv
  BY FramedInitially, StampInitially
<1>3. FramedInv /\ StampInv /\ [PutNext]_putVars => FramedInv' /\ StampInv'
  BY FramedStep, StampStep
<1> QED
  BY <1>1, <1>2, <1>3, PTL DEF PutSpec

-----------------------------------------------------------------------------
(* The server of one client.                                               *)

PutStages == {"wait", "sem", "cancel", "expire", "start", "process"}
SubStages == {"db_add", "access", "enable", "db_cancel", "cancelled", "event"}
ClaimStages == {"secure", "serve", "register", "registering"}
TcpStages == {"idle", "closed", "events"} \cup PutStages \cup SubStages \cup ClaimStages
               \cup Clearing

Stages == [event |-> {"idle", "labor", "reply", "rights", "update"},
           security |-> {"idle", "state", "events", "signal"}]

States == {"none", "pendConnectResp", "pendConnectRespUpdatePendAR", "inService",
           "inServiceUpdatePendAR", "shutdown"}

\* Each thread has the locals its stage needs, and no others.
TcpTypes ==
    /\ tpc \in TcpStages /\ tflag \in BOOLEAN
    /\ IF tpc \in {"idle", "closed"} THEN tchan = None ELSE tchan \in Chans
    /\ IF tpc \in SubStages THEN tsub \in Subs ELSE tsub = None
    /\ IF tpc \in PutStages THEN tput \in 1 .. nextPut - 1 ELSE tput = None
    /\ nextPut \in 1 .. MaxCallbacks + 1

TaskTypes ==
    /\ epc \in Stages.event /\ eflag \in BOOLEAN
    /\ IF epc = "update" THEN esub \in Subs ELSE esub = None
    /\ aspc \in Stages.security
    /\ IF aspc = "idle" THEN aschan = None ELSE aschan \in Chans

ChannelTypes ==
    /\ state \in [Chans -> States]
    /\ chanList \subseteq Chans /\ chanPendingUpdateARList \subseteq Chans
    /\ asActive \in BOOLEAN
    /\ rights \in [Chans -> Rights] /\ hasCallback \in [Chans -> BOOLEAN]
    /\ told \in [Chans -> Rights \cup {None}]
    /\ claimed \subseteq Chans /\ cleared \subseteq Chans

SubTypes ==
    /\ channel \in [Subs -> Chans \cup {None}]
    /\ eventq \subseteq Subs /\ pdbev \subseteq Subs /\ posted \subseteq Subs
    /\ enabled \subseteq Subs /\ cancelled \subseteq Subs
    /\ updated \in [Subs -> {None, "value", "no access"}]

\* Where the subscription is that the TCP thread works on, and the others.
SubsPlaced ==
    /\ \A s \in Subs : channel[s] = None => s \notin eventq \cup pdbev
    /\ posted \cup enabled \subseteq pdbev
    /\ esub # None => esub \in pdbev
    /\ tpc \in SubStages => channel[tsub] = tchan
    /\ tpc = "db_add" => tsub \in eventq \ pdbev
    /\ tpc \in {"access", "enable"} => tsub \in eventq \cap pdbev
    /\ tpc \in {"db_cancel", "cancelled", "event"} => tsub \notin eventq
    /\ tpc = "cancelled" => tsub \notin pdbev
    /\ \A s \in cancelled : s \notin eventq \cup pdbev /\ channel[s] # None

ServerTypes == TcpTypes /\ TaskTypes /\ ChannelTypes /\ SubTypes /\ SubsPlaced

LEMMA Nones == None \notin Chans /\ None \notin Subs /\ None \notin Puts
BY CaServerAssumption DEF Puts

LEMMA TcpTypesStep ==
    TcpTypes /\ ChannelTypes /\ [ServerNext]_serverVars => TcpTypes'
<1> SUFFICES ASSUME TcpTypes, ChannelTypes, [ServerNext]_serverVars PROVE TcpTypes'
  OBVIOUS
<1> USE Nones, CaServerAssumption
    DEF TcpTypes, TcpStages, PutStages, SubStages, ClaimStages, Clearing, InUse, Idle,
        Goes, Done, Begins, Fails, Puts
<1>1. CASE UNCHANGED <<tcpVars, nextPut>>
  BY <1>1 DEF tcpVars
\* Requests.
<1>2. ASSUME NEW kind, NEW n, SetName(kind, n) PROVE TcpTypes'
  BY <1>1, <1>2 DEF SetName, notifyVars
<1>3. ASSUME NEW c \in Chans, \/ casCreateChannel(c) \/ RefusePut(c) \/ TakePut(c)
                              \/ BeginClear(c)
      PROVE  TcpTypes'
  BY <1>3 DEF casCreateChannel, RefusePut, TakePut, BeginClear, notifyVars, tcpVars
<1>4. ASSUME NEW c \in Chans, NEW s \in Subs, AddEvent(c, s) PROVE TcpTypes'
  BY <1>4 DEF AddEvent, notifyVars
<1>5. ASSUME NEW s \in Subs, RemoveEvent(s) \/ ClearEvent(s) PROVE TcpTypes'
  BY <1>5 DEF RemoveEvent, ClearEvent, ChannelTypes, notifyVars
<1>6. ASSUME NEW mode, SetFlowCtrl(mode) PROVE TcpTypes'
  BY <1>1, <1>6 DEF SetFlowCtrl, notifyVars
<1>7. CASE Disconnect
  BY <1>7 DEF Disconnect, notifyVars
\* The TCP thread goes on.
<1>8. CASE asAddClient \/ claim_ciu_reply \/ asRegisterClientCallback \/ Registered
  BY <1>8 DEF asAddClient, claim_ciu_reply, asRegisterClientCallback, Registered, notifyVars
<1>9. CASE LookBusy \/ Woken \/ TimesOut \/ CancelNotify \/ Expire
  BY <1>9 DEF LookBusy, Woken, TimesOut, CancelNotify, Expire, notifyVars
<1>10. CASE StartPut \/ StartPutFails \/ ProcessNotify
  BY <1>10 DEF StartPut, StartPutFails, ProcessNotify
<1>11. CASE AddDbEvent \/ AddDbEventFails \/ EnableEvent \/ CancelDbEvent \/ ConfirmCancel
  BY <1>11 DEF AddDbEvent, AddDbEventFails, EnableEvent, CancelDbEvent, ConfirmCancel, notifyVars
<1>12. CASE LookAccess
  BY <1>12 DEF LookAccess, notifyVars, ChannelTypes, Rights
<1>13. CASE FreeCancels \/ FreePutNotify \/ FreeEvent \/ FlushLabor \/ ConfirmClear
              \/ asRemoveClient \/ Unlist
  BY <1>13 DEF FreeCancels, FreePutNotify, FreeEvent, FlushLabor, ConfirmClear,
               asRemoveClient, Unlist, notifyVars
\* The others leave it alone.
<1>14. CASE EventTask \/ casAccessRightsCB \/ Database
  <2>1. UNCHANGED <<tcpVars, nextPut>>
    BY <1>14
    DEF EventTask, rsrv_extra_labor, TakeLabor, TakeNotify, ReplyNotify, SignalBlocked,
        sendAllUpdateAS, read_reply, ReadAccess, SendUpdate, casAccessRightsCB,
        MarkPendingAR, UpdateEvents, SignalTask, Database, CompletePut,
        write_notify_done_callback, QueueNotify, PostLabor, notifyVars
  <2> QED
    BY <1>1, <2>1
<1>15. ASSUME NEW c \in Chans, NEW r, Change(c) \/ ChangeRights(c, r) PROVE TcpTypes'
  BY <1>1, <1>15 DEF Change, ChangeRights, notifyVars
<1>16. CASE UNCHANGED serverVars
  BY <1>1, <1>16 DEF serverVars, notifyVars
<1> QED
  BY <1>2, <1>3, <1>4, <1>5, <1>6, <1>7, <1>8, <1>9, <1>10, <1>11, <1>12, <1>13, <1>14,
     <1>15, <1>16
  DEF ServerNext, ClientRequests, TcpThread

LEMMA TaskTypesStep ==
    ServerTypes /\ [ServerNext]_serverVars => TaskTypes'
<1> SUFFICES ASSUME TaskTypes, TcpTypes, ChannelTypes, SubTypes, SubsPlaced,
                    [ServerNext]_serverVars
             PROVE  TaskTypes'
  BY DEF ServerTypes
<1> USE Nones DEF TaskTypes, Stages
<1>1. CASE UNCHANGED <<epc, esub, eflag, asVars>>
  BY <1>1 DEF asVars
<1>2. CASE ClientRequests
  <2>1. UNCHANGED <<taskVars, asVars>>
    BY <1>2 DEF ClientRequests, SetName, casCreateChannel, RefusePut, TakePut, BeginClear, AddEvent,
                RemoveEvent, SetFlowCtrl, Disconnect
  <2> QED
    BY <1>1, <2>1 DEF taskVars
<1>3. CASE asRegisterClientCallback
  BY <1>3 DEF asRegisterClientCallback, Goes, TcpTypes, TcpStages, ClaimStages, taskVars
<1>4. CASE TcpThread /\ ~asRegisterClientCallback
  <2>1. UNCHANGED <<taskVars, asVars>>
    BY <1>4
    DEF TcpThread, asAddClient, claim_ciu_reply, Registered, LookBusy, Woken, TimesOut, CancelNotify,
        Expire, StartPut, StartPutFails, ProcessNotify, AddDbEvent, AddDbEventFails, LookAccess,
        EnableEvent, CancelDbEvent, ConfirmCancel, FreeCancels, FreePutNotify, ClearEvent, FreeEvent,
        FlushLabor, ConfirmClear, asRemoveClient, Unlist
  <2> QED
    BY <1>1, <2>1 DEF taskVars
<1>5. CASE rsrv_extra_labor
  BY <1>5 DEF rsrv_extra_labor, TakeLabor, TakeNotify, ReplyNotify, SignalBlocked, sendAllUpdateAS,
              TaskGoes, asVars
<1>6. CASE SendUpdate
  BY <1>6 DEF SendUpdate, TaskGoes, asVars
<1>7. ASSUME NEW s \in Subs, ReadAccess(s) PROVE TaskTypes'
  <2>1. channel[s] # None => rights[channel[s]].read \in BOOLEAN
    BY DEF SubTypes, ChannelTypes, Rights
  <2>2. s \in posted => channel[s] # None
    BY DEF SubsPlaced
  <2> QED
    BY <1>7, <2>1, <2>2 DEF ReadAccess, TaskGoes, asVars
<1>8. CASE casAccessRightsCB
  BY <1>8 DEF casAccessRightsCB, MarkPendingAR, UpdateEvents, SignalTask, taskVars
<1>9. CASE Database
  <2>1. UNCHANGED <<taskVars, asVars>>
    BY <1>9 DEF Database, CompletePut, write_notify_done_callback, QueueNotify, PostLabor
  <2> QED
    BY <1>1, <2>1 DEF taskVars
<1>10. ASSUME NEW c \in Chans, Change(c) PROVE TaskTypes'
  BY <1>1, <1>10 DEF Change, taskVars
<1>11. ASSUME NEW c \in Chans, NEW r \in Rights, ChangeRights(c, r) PROVE TaskTypes'
  BY <1>11 DEF ChangeRights, taskVars
<1>12. CASE UNCHANGED serverVars
  BY <1>1, <1>12 DEF serverVars, taskVars
<1> QED
  BY <1>2, <1>3, <1>4, <1>5, <1>6, <1>7, <1>8, <1>9, <1>10, <1>11, <1>12
  DEF ServerNext, EventTask, read_reply

LEMMA SubsStep ==
    ServerTypes /\ [ServerNext]_serverVars => SubTypes' /\ SubsPlaced'
<1> SUFFICES ASSUME TaskTypes, TcpTypes, ChannelTypes, SubTypes, SubsPlaced,
                    [ServerNext]_serverVars
             PROVE  SubTypes' /\ SubsPlaced'
  BY DEF ServerTypes
<1> USE Nones DEF SubTypes, SubsPlaced, SubStages
<1>1. CASE UNCHANGED <<tcpVars, subVars, esub>>
  BY <1>1 DEF tcpVars, subVars
\* Requests.
<1>2. ASSUME NEW kind, NEW n, SetName(kind, n) PROVE SubTypes' /\ SubsPlaced'
  BY <1>1, <1>2 DEF SetName, taskVars
<1>3. ASSUME NEW c \in Chans, \/ casCreateChannel(c) \/ RefusePut(c) \/ TakePut(c)
                              \/ BeginClear(c)
      PROVE  SubTypes' /\ SubsPlaced'
  BY <1>3 DEF casCreateChannel, RefusePut, TakePut, BeginClear, Begins, InUse, Idle, subVars, taskVars, tcpVars
<1>4. ASSUME NEW c \in Chans, NEW s \in Subs, AddEvent(c, s) PROVE SubTypes' /\ SubsPlaced'
  BY <1>4 DEF AddEvent, Begins, InUse, Idle, taskVars
<1>5. ASSUME NEW s \in Subs, RemoveEvent(s) PROVE SubTypes' /\ SubsPlaced'
  BY <1>5 DEF RemoveEvent, Begins, InUse, Idle, taskVars
<1>6. ASSUME NEW mode, SetFlowCtrl(mode) PROVE SubTypes' /\ SubsPlaced'
  BY <1>1, <1>6 DEF SetFlowCtrl, taskVars
<1>7. CASE Disconnect
  BY <1>7 DEF Disconnect, Fails, subVars, taskVars
\* The TCP thread goes on.
<1>8. CASE asAddClient \/ claim_ciu_reply \/ asRegisterClientCallback \/ Registered
  BY <1>8 DEF asAddClient, claim_ciu_reply, asRegisterClientCallback, Registered, Goes, Done, subVars, taskVars
<1>9. CASE LookBusy \/ Woken \/ TimesOut \/ CancelNotify \/ Expire
  BY <1>9 DEF LookBusy, Woken, TimesOut, CancelNotify, Expire, Goes, subVars, taskVars
<1>10. CASE StartPut \/ StartPutFails \/ ProcessNotify
  BY <1>10 DEF StartPut, StartPutFails, ProcessNotify, Goes, Done, Fails, subVars, taskVars
<1>11. CASE AddDbEvent \/ AddDbEventFails \/ LookAccess \/ EnableEvent
  BY <1>11 DEF AddDbEvent, AddDbEventFails, LookAccess, EnableEvent, Goes, Done, Fails, subVars,
       taskVars, TcpTypes
<1>12. CASE CancelDbEvent \/ ConfirmCancel
  BY <1>12 DEF CancelDbEvent, ConfirmCancel, DbCancelled, Goes, Done, subVars, taskVars, TcpTypes, TaskTypes
<1>13. ASSUME NEW s \in Subs, ClearEvent(s) PROVE SubTypes' /\ SubsPlaced'
  BY <1>13 DEF ClearEvent, EventsOf, taskVars
<1>14. CASE FreeEvent
  BY <1>14 DEF FreeEvent, DbCancelled, taskVars, TcpTypes, TaskTypes
<1>15. CASE FreeCancels \/ FreePutNotify \/ FlushLabor \/ ConfirmClear \/ asRemoveClient \/ Unlist
  BY <1>15 DEF FreeCancels, FreePutNotify, FlushLabor, ConfirmClear, asRemoveClient, Unlist,
               Goes, Done, subVars, taskVars
\* The other threads.
<1>16. CASE rsrv_extra_labor
  <2>1. UNCHANGED <<tcpVars, subVars, esub>>
    BY <1>16 DEF rsrv_extra_labor, TakeLabor, TakeNotify, ReplyNotify, SignalBlocked, sendAllUpdateAS
  <2> QED
    BY <1>1, <2>1
<1>17. ASSUME NEW s \in Subs, ReadAccess(s) PROVE SubTypes' /\ SubsPlaced'
  BY <1>17 DEF ReadAccess, tcpVars
<1>18. CASE SendUpdate
  BY <1>18 DEF SendUpdate, Says, TaskGoes, TaskTypes, tcpVars
<1>19. CASE casAccessRightsCB \/ Database
  <2>1. CASE UpdateEvents
    BY <2>1 DEF UpdateEvents, EventsOf, tcpVars, taskVars
  <2>2. CASE ~UpdateEvents
    <3>1. UNCHANGED <<tcpVars, subVars, esub>>
      BY <1>19, <2>2
      DEF casAccessRightsCB, MarkPendingAR, SignalTask, Database, CompletePut,
          write_notify_done_callback, QueueNotify, PostLabor, taskVars
    <3> QED
      BY <1>1, <3>1
  <2> QED
    BY <2>1, <2>2
<1>20. ASSUME NEW c \in Chans, Change(c) PROVE SubTypes' /\ SubsPlaced'
  BY <1>20 DEF Change, tcpVars, taskVars
<1>21. ASSUME NEW c \in Chans, NEW r, ChangeRights(c, r) PROVE SubTypes' /\ SubsPlaced'
  BY <1>1, <1>21 DEF ChangeRights, taskVars
<1>22. CASE UNCHANGED serverVars
  BY <1>1, <1>22 DEF serverVars, taskVars
<1> QED
  BY <1>2, <1>3, <1>4, <1>5, <1>6, <1>7, <1>8, <1>9, <1>10, <1>11, <1>12, <1>13, <1>14,
     <1>15, <1>16, <1>17, <1>18, <1>19, <1>20, <1>21, <1>22
  DEF ServerNext, ClientRequests, TcpThread, EventTask, read_reply

LEMMA ChannelTypesStep ==
    ServerTypes /\ [ServerNext]_serverVars => ChannelTypes'
<1> SUFFICES ASSUME TaskTypes, TcpTypes, ChannelTypes, [ServerNext]_serverVars
             PROVE  ChannelTypes'
  BY DEF ServerTypes
<1> USE Nones DEF ChannelTypes
<1>1. CASE UNCHANGED <<listVars, asActive, rights, hasCallback, sentVars>>
  BY <1>1 DEF listVars, sentVars
<1>2. CASE ClientRequests /\ ~\E c \in Chans : casCreateChannel(c)
  <2>1. UNCHANGED <<listVars, asActive, rights, hasCallback, sentVars>>
    BY <1>2 DEF ClientRequests, SetName, RefusePut, TakePut, BeginClear, AddEvent,
                RemoveEvent, SetFlowCtrl, Disconnect, secVars
  <2> QED
    BY <1>1, <2>1
<1>3. ASSUME NEW c \in Chans, casCreateChannel(c) PROVE ChannelTypes'
  BY <1>3 DEF casCreateChannel, States, secVars, sentVars
<1>4. CASE claim_ciu_reply \/ asRegisterClientCallback \/ ConfirmClear \/ asRemoveClient \/ Unlist
  <2>1. tchan \in Chans
    BY <1>4 DEF claim_ciu_reply, asRegisterClientCallback, ConfirmClear, asRemoveClient, Unlist, Goes, Done,
                TcpTypes
  <2>2. CASE claim_ciu_reply
    BY <2>1, <2>2 DEF claim_ciu_reply, States, secVars
  <2>3. CASE asRegisterClientCallback
    BY <2>1, <2>3 DEF asRegisterClientCallback, listVars, sentVars
  <2>4. CASE ConfirmClear
    BY <2>1, <2>4 DEF ConfirmClear, listVars, secVars
  <2>5. CASE asRemoveClient
    BY <2>1, <2>5 DEF asRemoveClient, listVars, sentVars
  <2>6. CASE Unlist
    BY <2>1, <2>6 DEF Unlist, States, secVars, sentVars
  <2> QED
    BY <1>4, <2>2, <2>3, <2>4, <2>5, <2>6
<1>5. CASE TcpThread /\ ~(claim_ciu_reply \/ asRegisterClientCallback \/ ConfirmClear \/ asRemoveClient
                            \/ Unlist)
  <2>1. UNCHANGED <<listVars, asActive, rights, hasCallback, sentVars>>
    BY <1>5
    DEF TcpThread, asAddClient, Registered, LookBusy, Woken, TimesOut, CancelNotify,
        Expire, StartPut, StartPutFails, ProcessNotify, AddDbEvent, AddDbEventFails, LookAccess,
        EnableEvent, CancelDbEvent, ConfirmCancel, FreeCancels, FreePutNotify, ClearEvent, FreeEvent,
        FlushLabor, secVars
  <2> QED
    BY <1>1, <2>1
<1>6. CASE sendAllUpdateAS
  BY <1>6 DEF sendAllUpdateAS, TellRights, States, secVars
<1>7. CASE EventTask /\ ~sendAllUpdateAS
  <2>1. UNCHANGED <<listVars, asActive, rights, hasCallback, sentVars>>
    BY <1>7 DEF EventTask, rsrv_extra_labor, TakeLabor, TakeNotify, ReplyNotify, SignalBlocked, read_reply,
                SendUpdate, ReadAccess, secVars
  <2> QED
    BY <1>1, <2>1
<1>8. CASE MarkPendingAR
  <2>1. aschan \in Chans
    BY <1>8 DEF MarkPendingAR, TaskTypes
  <2> QED
    BY <1>8, <2>1 DEF MarkPendingAR, WithPendingAR, States, listVars, secVars, sentVars
<1>9. CASE (casAccessRightsCB \/ Database) /\ ~MarkPendingAR
  <2>1. UNCHANGED <<listVars, asActive, rights, hasCallback, sentVars>>
    BY <1>9 DEF casAccessRightsCB, UpdateEvents, SignalTask, Database, CompletePut,
                write_notify_done_callback, QueueNotify, PostLabor, secVars
  <2> QED
    BY <1>1, <2>1
<1>10. ASSUME NEW c \in Chans, Change(c) PROVE ChannelTypes'
  BY <1>1, <1>10 DEF Change, secVars
<1>11. ASSUME NEW c \in Chans, NEW r \in Rights, ChangeRights(c, r) PROVE ChannelTypes'
  BY <1>11 DEF ChangeRights, listVars, sentVars
<1>12. CASE UNCHANGED serverVars
  BY <1>1, <1>12 DEF serverVars, secVars
<1> QED
  BY <1>2, <1>3, <1>4, <1>5, <1>6, <1>7, <1>8, <1>9, <1>10, <1>11, <1>12
  DEF ServerNext

LEMMA ServerTypesStep == ServerTypes /\ [ServerNext]_serverVars => ServerTypes'
BY TcpTypesStep, TaskTypesStep, ChannelTypesStep, SubsStep DEF ServerTypes

LEMMA ServerTypesInit == ServerInit => ServerTypes
<1> SUFFICES ASSUME ServerInit PROVE ServerTypes
  OBVIOUS
<1> USE CaServerAssumption DEF ServerInit
<1>1. TcpTypes
  <2>1. nextPut \in 1 .. MaxCallbacks + 1
    BY SMT
  <2>2. tpc = "idle" /\ tpc \notin SubStages \cup PutStages /\ tpc \in TcpStages
    BY DEF TcpStages, SubStages, PutStages
  <2> QED
    BY <2>1, <2>2 DEF TcpTypes
<1>0. TaskTypes
  BY DEF TaskTypes, Stages
<1>2. ChannelTypes
  BY DEF ChannelTypes, States
<1>3. SubTypes /\ SubsPlaced
  BY DEF SubTypes, SubsPlaced, SubStages
<1> QED
  BY <1>0, <1>1, <1>2, <1>3 DEF ServerTypes

\* Each thread and each set of the server holds what it should, in every state.
THEOREM ServerStaysTyped == ServerSpec => []ServerTypes
<1>1. ServerInit => ServerTypes
  BY ServerTypesInit
<1>2. ServerTypes /\ [ServerNext]_serverVars => ServerTypes'
  BY ServerTypesStep
<1> QED
  BY <1>1, <1>2, PTL DEF ServerSpec

LEMMA ToldStep ==
    ServerTypes /\ ToldIsCurrent /\ [ServerNext]_serverVars => ToldIsCurrent'
<1> SUFFICES ASSUME TaskTypes, TcpTypes, ChannelTypes, ToldIsCurrent, [ServerNext]_serverVars
             PROVE  ToldIsCurrent'
  BY DEF ServerTypes
<1> USE Nones DEF ToldIsCurrent
<1>1. CASE UNCHANGED <<state, rights, hasCallback, told, aspc, aschan>>
  BY <1>1
<1>2. CASE ClientRequests /\ ~\E c \in Chans : casCreateChannel(c)
  <2>1. UNCHANGED <<state, rights, hasCallback, told, aspc, aschan>>
    BY <1>2 DEF ClientRequests, SetName, RefusePut, TakePut, BeginClear, AddEvent,
                RemoveEvent, SetFlowCtrl, Disconnect, listVars, asVars, secVars, sentVars
  <2> QED
    BY <1>1, <2>1
<1>3. ASSUME NEW c \in Chans, casCreateChannel(c) PROVE ToldIsCurrent'
  BY <1>3 DEF casCreateChannel, ChannelTypes, secVars, sentVars, asVars
<1>4. CASE claim_ciu_reply \/ asRegisterClientCallback \/ asRemoveClient \/ Unlist
  <2>1. tchan \in Chans
    BY <1>4 DEF claim_ciu_reply, asRegisterClientCallback, asRemoveClient, Unlist, Goes, Done, TcpTypes
  <2> QED
    BY <1>4, <2>1 DEF claim_ciu_reply, asRegisterClientCallback, asRemoveClient, Unlist,
                      ChannelTypes, listVars, sentVars, secVars, asVars
<1>5. CASE TcpThread /\ ~(claim_ciu_reply \/ asRegisterClientCallback \/ asRemoveClient \/ Unlist)
  <2>1. UNCHANGED <<state, rights, hasCallback, told, aspc, aschan>>
    BY <1>5
    DEF TcpThread, asAddClient, Registered, LookBusy, Woken, TimesOut, CancelNotify,
        Expire, StartPut, StartPutFails, ProcessNotify, AddDbEvent, AddDbEventFails, LookAccess,
        EnableEvent, CancelDbEvent, ConfirmCancel, FreeCancels, FreePutNotify, ClearEvent, FreeEvent,
        FlushLabor, ConfirmClear, listVars, asVars, secVars, sentVars
  <2> QED
    BY <1>1, <2>1
<1>6. CASE sendAllUpdateAS
  BY <1>6 DEF sendAllUpdateAS, TellRights, ChannelTypes, secVars, asVars
<1>7. CASE EventTask /\ ~sendAllUpdateAS
  <2>1. UNCHANGED <<state, rights, hasCallback, told, aspc, aschan>>
    BY <1>7 DEF EventTask, rsrv_extra_labor, TakeLabor, TakeNotify, ReplyNotify, SignalBlocked, read_reply,
                SendUpdate, ReadAccess, listVars, asVars, secVars, sentVars
  <2> QED
    BY <1>1, <2>1
<1>8. CASE casAccessRightsCB
  BY <1>8 DEF casAccessRightsCB, MarkPendingAR, UpdateEvents, SignalTask, WithPendingAR, ChannelTypes,
              TaskTypes, listVars, secVars, sentVars
<1>9. CASE Database
  <2>1. UNCHANGED <<state, rights, hasCallback, told, aspc, aschan>>
    BY <1>9 DEF Database, CompletePut, write_notify_done_callback, QueueNotify, PostLabor,
                listVars, asVars, secVars, sentVars
  <2> QED
    BY <1>1, <2>1
<1>10. ASSUME NEW c \in Chans, Change(c) PROVE ToldIsCurrent'
  BY <1>1, <1>10 DEF Change, listVars, asVars, secVars, sentVars
<1>11. ASSUME NEW c \in Chans, NEW r \in Rights, ChangeRights(c, r) PROVE ToldIsCurrent'
  BY <1>11 DEF ChangeRights, ChannelTypes, listVars, sentVars
<1>12. CASE UNCHANGED serverVars
  BY <1>1, <1>12 DEF serverVars, listVars, asVars, secVars, sentVars
<1> QED
  BY <1>2, <1>3, <1>4, <1>5, <1>6, <1>7, <1>8, <1>9, <1>10, <1>11, <1>12
  DEF ServerNext

\* Once casAccessRightsCB and the event task are done with a channel, the client
\* was told the access rights it has, however often and whenever they changed.
THEOREM ClientKnowsItsRights == ServerSpec => []ToldIsCurrent
<1>1. ServerInit => ToldIsCurrent
  BY DEF ServerInit, ToldIsCurrent
<1>2. ServerTypes /\ ToldIsCurrent /\ [ServerNext]_serverVars => ToldIsCurrent'
  BY ToldStep
<1> QED
  BY <1>1, <1>2, ServerStaysTyped, PTL DEF ServerSpec

-----------------------------------------------------------------------------
(* Claims and access rights.                                               *)

\* A channel is claimed, used, cleared and shut down in this order, and with
\* access security it has its callback while it is used.
ClaimsInOrder ==
    /\ cleared \subseteq claimed
    /\ \A c \in Chans :
         state[c] \in {"none", "pendConnectResp", "pendConnectRespUpdatePendAR"} => c \notin claimed
    /\ \A c \in Chans : state[c] = "pendConnectRespUpdatePendAR" => hasCallback[c]
    /\ asActive => \A c \in claimed \ cleared : hasCallback[c]
    /\ \A c \in Chans : state[c] = "shutdown" =>
         ~hasCallback[c] /\ c \notin chanList \cup chanPendingUpdateARList
    /\ aspc # "idle" => hasCallback[aschan]
    /\ tpc = "serve" => ~asActive
    /\ tpc \in ClaimStages => state[tchan] # "shutdown"
    /\ tpc \in PutStages \cup SubStages \cup {"free_cancel", "free", "events", "confirm"} =>
         tchan \in claimed \ cleared
    /\ tpc \in {"leave", "unlist"} => tchan \in cleared
    /\ tpc = "unlist" => ~hasCallback[tchan]

claimVars == <<state, chanList, chanPendingUpdateARList, asActive, hasCallback, claimed, cleared,
               aspc, aschan>>

LEMMA ClaimsStep ==
    ServerTypes /\ ClaimsInOrder /\ [ServerNext]_serverVars => ClaimsInOrder'
<1> SUFFICES ASSUME TaskTypes, TcpTypes, ChannelTypes, SubsPlaced, ClaimsInOrder,
                    [ServerNext]_serverVars
             PROVE  ClaimsInOrder'
  BY DEF ServerTypes
<1> USE Nones DEF ClaimsInOrder, PutStages, SubStages, ClaimStages
<1>1. CASE UNCHANGED <<tpc, tchan, claimVars>>
  BY <1>1 DEF claimVars
\* Requests.
<1>2. ASSUME NEW kind, NEW n, SetName(kind, n) PROVE ClaimsInOrder'
  BY <1>1, <1>2 DEF SetName, claimVars, tcpVars, listVars, asVars, sentVars
<1>3. ASSUME NEW c \in Chans, casCreateChannel(c) PROVE ClaimsInOrder'
  BY <1>3 DEF casCreateChannel, Begins, Idle, ChannelTypes, asVars, sentVars, secVars
<1>4. ASSUME NEW c \in Chans, RefusePut(c) \/ TakePut(c) \/ BeginClear(c) PROVE ClaimsInOrder'
  <2>1. UNCHANGED claimVars
    BY <1>4 DEF RefusePut, TakePut, BeginClear, claimVars, listVars, asVars, secVars, sentVars
  <2>2. UNCHANGED <<tpc, tchan>>
        \/ (tpc' \in {"wait", "start", "free_cancel", "free"} /\ tchan' \in claimed \ cleared)
    <3>1. RefusePut(c) => UNCHANGED <<tpc, tchan>>
      BY DEF RefusePut, tcpVars
    <3>2. TakePut(c) => tpc' \in {"wait", "start"} /\ tchan' \in claimed \ cleared
      BY DEF TakePut, InUse, Begins
    <3>3. BeginClear(c) => tpc' \in {"free_cancel", "free"} /\ tchan' \in claimed \ cleared
      BY DEF BeginClear, InUse, Begins
    <3> QED
      BY <1>4, <3>1, <3>2, <3>3
  <2> QED
    BY <2>1, <2>2 DEF claimVars
<1>5. ASSUME NEW s \in Subs, RemoveEvent(s) \/ \E c \in Chans : AddEvent(c, s) PROVE ClaimsInOrder'
  BY <1>5 DEF AddEvent, RemoveEvent, InUse, Idle, Begins, listVars, asVars, secVars, sentVars
<1>6. ASSUME NEW mode, SetFlowCtrl(mode) PROVE ClaimsInOrder'
  BY <1>1, <1>6 DEF SetFlowCtrl, claimVars, tcpVars, listVars, asVars, secVars, sentVars
<1>7. CASE Disconnect \/ AddDbEventFails \/ StartPutFails
  BY <1>7 DEF Disconnect, AddDbEventFails, StartPutFails, Fails, listVars, asVars, secVars, sentVars
\* The TCP thread goes on.
<1>8. CASE asAddClient
  BY <1>8 DEF asAddClient, Goes, listVars, asVars, sentVars
<1>9. CASE claim_ciu_reply
  BY <1>9 DEF claim_ciu_reply, Done, TcpTypes, ChannelTypes, asVars, secVars
<1>10. CASE asRegisterClientCallback
  BY <1>10 DEF asRegisterClientCallback, Goes, TcpTypes, ChannelTypes, listVars, sentVars
<1>11. CASE Registered \/ ProcessNotify \/ EnableEvent \/ ConfirmCancel
  BY <1>11 DEF Registered, ProcessNotify, EnableEvent, ConfirmCancel, Done, listVars, asVars, secVars, sentVars
<1>12. CASE LookBusy \/ Woken \/ TimesOut \/ CancelNotify \/ Expire \/ StartPut \/ AddDbEvent
              \/ CancelDbEvent \/ FreeCancels \/ FreePutNotify \/ FlushLabor
  <2>1. UNCHANGED claimVars /\ tchan' = tchan
    BY <1>12 DEF LookBusy, Woken, TimesOut, CancelNotify, Expire, StartPut, AddDbEvent, CancelDbEvent,
                FreeCancels, FreePutNotify, FlushLabor, Goes, claimVars, listVars, asVars, secVars, sentVars
  <2>2. /\ tpc \in PutStages \cup SubStages \cup {"free_cancel", "free", "events"}
        /\ tpc' \in PutStages \cup SubStages \cup {"free", "events", "confirm"}
    BY <1>12 DEF LookBusy, Woken, TimesOut, CancelNotify, Expire, StartPut, AddDbEvent, CancelDbEvent,
                FreeCancels, FreePutNotify, FlushLabor, Goes
  <2> QED
    BY <2>1, <2>2 DEF claimVars
<1>13. CASE LookAccess \/ FreeEvent \/ \E s \in Subs : ClearEvent(s)
  BY <1>13 DEF LookAccess, ClearEvent, FreeEvent, listVars, asVars, secVars, sentVars
<1>14. CASE ConfirmClear
  BY <1>14 DEF ConfirmClear, Goes, TcpTypes, listVars, asVars, secVars
<1>15. CASE asRemoveClient
  BY <1>15 DEF asRemoveClient, Goes, TcpTypes, ChannelTypes, listVars, asVars, sentVars
<1>16. CASE Unlist
  BY <1>16 DEF Unlist, Done, TcpTypes, ChannelTypes, asVars, secVars, sentVars
\* The event task.
<1>17. CASE sendAllUpdateAS
  BY <1>17 DEF sendAllUpdateAS, TcpTypes, TaskTypes, ChannelTypes, tcpVars, asVars, secVars
<1>18. CASE EventTask /\ ~sendAllUpdateAS
  <2>1. UNCHANGED <<tpc, tchan, claimVars>>
    BY <1>18 DEF EventTask, rsrv_extra_labor, TakeLabor, TakeNotify, ReplyNotify, SignalBlocked, read_reply,
                SendUpdate, ReadAccess, claimVars, tcpVars, listVars, asVars, secVars, sentVars
  <2> QED
    BY <1>1, <2>1
\* The thread of access security.
<1>19. CASE MarkPendingAR
  BY <1>19 DEF MarkPendingAR, WithPendingAR, TcpTypes, TaskTypes, ChannelTypes, tcpVars, listVars, secVars,
              sentVars
<1>20. CASE UpdateEvents \/ SignalTask
  BY <1>20 DEF UpdateEvents, SignalTask, tcpVars, listVars, secVars, sentVars
<1>21. CASE Database
  <2>1. UNCHANGED <<tpc, tchan, claimVars>>
    BY <1>21 DEF Database, CompletePut, write_notify_done_callback, QueueNotify, PostLabor,
                claimVars, tcpVars, listVars, asVars, secVars, sentVars
  <2> QED
    BY <1>1, <2>1
<1>22. ASSUME NEW c \in Chans, Change(c) PROVE ClaimsInOrder'
  BY <1>1, <1>22 DEF Change, claimVars, tcpVars, listVars, asVars, secVars, sentVars
<1>23. ASSUME NEW c \in Chans, NEW r \in Rights, ChangeRights(c, r) PROVE ClaimsInOrder'
  BY <1>23 DEF ChangeRights, tcpVars, listVars, sentVars
<1>24. CASE UNCHANGED serverVars
  BY <1>1, <1>24 DEF serverVars, claimVars, tcpVars, listVars, asVars, secVars, sentVars
<1> HIDE DEF ClaimsInOrder
<1>25. CASE ClientRequests
  BY <1>25, <1>2, <1>3, <1>4, <1>5, <1>6, <1>7 DEF ClientRequests
<1>26. CASE TcpThread
  BY <1>26, <1>7, <1>8, <1>9, <1>10, <1>11, <1>12, <1>13, <1>14, <1>15, <1>16 DEF TcpThread
<1> QED
  BY <1>17, <1>18, <1>19, <1>20, <1>21, <1>22, <1>23, <1>24, <1>25, <1>26
  DEF ServerNext, casAccessRightsCB

-----------------------------------------------------------------------------
(* Subscriptions and access rights.                                        *)

\* The subscriptions on the queues are of channels in use.
SubsInUse ==
    /\ \A s \in eventq : channel[s] \in claimed \ cleared
    /\ tpc = "confirm" => \A s \in eventq : channel[s] # tchan

LEMMA SubsInUseStep ==
    ServerTypes /\ ClaimsInOrder /\ SubsInUse /\ [ServerNext]_serverVars => SubsInUse'
<1> SUFFICES ASSUME TcpTypes, SubTypes, SubsPlaced, ClaimsInOrder, SubsInUse,
                    [ServerNext]_serverVars
             PROVE  SubsInUse'
  BY DEF ServerTypes
<1> USE Nones DEF SubsInUse
<1>1. CASE UNCHANGED <<eventq, channel, claimed, cleared>> /\ tpc' # "confirm"
  BY <1>1
<1>2. CASE UNCHANGED <<eventq, channel, claimed, cleared, tpc, tchan>>
  BY <1>2
\* Requests.
<1>3. ASSUME NEW c \in Chans, NEW s \in Subs, AddEvent(c, s) PROVE SubsInUse'
  BY <1>3 DEF AddEvent, InUse, Begins, SubTypes, sentVars
<1>4. ASSUME NEW s \in Subs, RemoveEvent(s) PROVE SubsInUse'
  BY <1>4 DEF RemoveEvent, Begins, sentVars
<1>5. CASE ClientRequests /\ ~\E s \in Subs : RemoveEvent(s) \/ \E c \in Chans : AddEvent(c, s)
  <2>1. UNCHANGED <<eventq, channel, claimed, cleared>>
    BY <1>5 DEF ClientRequests, SetName, casCreateChannel, RefusePut, TakePut, BeginClear, SetFlowCtrl,
                Disconnect, subVars, sentVars
  <2>2. tpc = "idle"
    BY <1>5 DEF ClientRequests, SetName, casCreateChannel, RefusePut, TakePut, BeginClear, SetFlowCtrl,
                Disconnect, Fails, Begins, InUse, Idle
  <2>3. tpc' # "confirm"
    BY <1>5, <2>2 DEF ClientRequests, SetName, casCreateChannel, RefusePut, TakePut, BeginClear, SetFlowCtrl,
                Disconnect, Fails, Begins, tcpVars
  <2> QED
    BY <1>1, <2>1, <2>3
\* The TCP thread goes on.
<1>6. CASE claim_ciu_reply
  BY <1>6 DEF claim_ciu_reply, Done, subVars
<1>7. CASE FlushLabor
  BY <1>7 DEF FlushLabor, EventsOf, Goes, subVars, sentVars
<1>8. CASE ConfirmClear
  BY <1>8 DEF ConfirmClear, Goes, subVars
<1>9. ASSUME NEW s \in Subs, ClearEvent(s) PROVE SubsInUse'
  BY <1>9 DEF ClearEvent, sentVars
<1>10. CASE asAddClient \/ asRegisterClientCallback \/ Registered \/ LookBusy \/ Woken \/ TimesOut
              \/ CancelNotify \/ Expire \/ StartPut \/ StartPutFails \/ ProcessNotify
  <2>1. UNCHANGED <<eventq, channel, claimed, cleared>> /\ tpc' # "confirm"
    BY <1>10 DEF asAddClient, asRegisterClientCallback, Registered, LookBusy, Woken, TimesOut,
              CancelNotify, Expire, StartPut, StartPutFails, ProcessNotify, Goes, Done, Fails,
              subVars, sentVars
  <2> QED
    BY <1>1, <2>1
<1>11. CASE AddDbEvent \/ AddDbEventFails \/ LookAccess \/ EnableEvent \/ CancelDbEvent
              \/ ConfirmCancel \/ FreeCancels \/ FreePutNotify \/ FreeEvent \/ asRemoveClient \/ Unlist
  <2>1. UNCHANGED <<eventq, channel, claimed, cleared>> /\ tpc' # "confirm"
    BY <1>11 DEF AddDbEvent, AddDbEventFails, LookAccess, EnableEvent, CancelDbEvent, ConfirmCancel,
              FreeCancels, FreePutNotify, FreeEvent, asRemoveClient, Unlist, Goes, Done, Fails,
              subVars, sentVars
  <2> QED
    BY <1>1, <2>1
\* The other threads.
<1>12. CASE sendAllUpdateAS
  BY <1>12 DEF sendAllUpdateAS, subVars, tcpVars
<1>13. CASE EventTask /\ ~sendAllUpdateAS
  <2>1. UNCHANGED <<eventq, channel, claimed, cleared, tpc, tchan>>
    BY <1>13 DEF EventTask, rsrv_extra_labor, TakeLabor, TakeNotify, ReplyNotify, SignalBlocked, read_reply,
                SendUpdate, ReadAccess, tcpVars, subVars, sentVars
  <2> QED
    BY <1>2, <2>1
<1>14. CASE casAccessRightsCB \/ Database
  <2>1. UNCHANGED <<eventq, channel, claimed, cleared, tpc, tchan>>
    BY <1>14 DEF casAccessRightsCB, MarkPendingAR, UpdateEvents, SignalTask, Database, CompletePut,
                write_notify_done_callback, QueueNotify, PostLabor, tcpVars, subVars, sentVars
  <2> QED
    BY <1>2, <2>1
<1>15. ASSUME NEW c \in Chans, NEW r, Change(c) \/ ChangeRights(c, r) PROVE SubsInUse'
  BY <1>15, <1>2 DEF Change, ChangeRights, tcpVars, subVars, sentVars
<1>16. CASE UNCHANGED serverVars
  BY <1>16, <1>2 DEF serverVars, tcpVars, subVars, sentVars
<1> HIDE DEF SubsInUse
<1>17. CASE TcpThread
  BY <1>17, <1>6, <1>7, <1>8, <1>9, <1>10, <1>11 DEF TcpThread
<1> QED
  BY <1>3, <1>4, <1>5, <1>12, <1>13, <1>14, <1>15, <1>16, <1>17 DEF ServerNext

\* casAccessRightsCB has yet to reach the subscriptions of channel c.
Hearing(c) == aschan = c /\ aspc \in {"state", "events"}

\* What the event task is about to send is true, or another update follows.
UpdateIsNew ==
    epc = "update" /\ esub \in eventq \cap pdbev =>
        \/ esub \in posted
        \/ Hearing(channel[esub])
        \/ eflag = rights[channel[esub]].read

\* event_add_action is about to enable a subscription that may be read, unless
\* it is enabled already.
EnablesIfReadable ==
    tpc = "enable" /\ rights[tchan].read /\ ~Hearing(tchan) => tflag \/ tsub \in enabled

UpdatesInv == UpdatesTellAccess /\ UpdateIsNew /\ EnablesIfReadable

updateVars == <<aspc, aschan, rights, channel, eventq, pdbev, posted, enabled, updated, epc, esub, eflag>>

LEMMA UpdatesStep ==
    ServerTypes /\ ClaimsInOrder /\ SubsInUse /\ UpdatesInv /\ [ServerNext]_serverVars => UpdatesInv'
<1> SUFFICES ASSUME TcpTypes, TaskTypes, ChannelTypes, SubTypes, SubsPlaced, ClaimsInOrder, SubsInUse,
                    UpdatesInv, [ServerNext]_serverVars
             PROVE  UpdatesInv'
  BY DEF ServerTypes
<1> USE Nones DEF UpdatesInv, UpdatesTellAccess, LastUpdateTellsAccess, EnabledIfReadable, UpdateIsNew,
                  EnablesIfReadable, Hearing
<1>1. CASE UNCHANGED <<tpc, tchan, tsub, tflag, updateVars>>
  BY <1>1 DEF updateVars
<1>2. CASE /\ UNCHANGED <<updateVars>> /\ tpc' # "enable"
           /\ tsub = None
  BY <1>2 DEF updateVars, SubTypes
\* Requests.
<1>3. ASSUME NEW c \in Chans, NEW s \in Subs, AddEvent(c, s) PROVE UpdatesInv'
  BY <1>3 DEF AddEvent, InUse, Idle, Begins, TcpTypes, SubStages, SubTypes, SubsPlaced, asVars, secVars, taskVars
<1>4. ASSUME NEW s \in Subs, RemoveEvent(s) PROVE UpdatesInv'
  BY <1>4 DEF RemoveEvent, InUse, Idle, Begins, TcpTypes, SubTypes, SubStages, asVars, secVars, taskVars
<1>5. CASE ClientRequests /\ ~\E s \in Subs : RemoveEvent(s) \/ \E c \in Chans : AddEvent(c, s)
  <2>1. UNCHANGED updateVars
    BY <1>5 DEF ClientRequests, SetName, casCreateChannel, RefusePut, TakePut, BeginClear, SetFlowCtrl,
                Disconnect, subVars, taskVars, secVars, asVars, updateVars
  <2>2. tpc = "idle"
    BY <1>5 DEF ClientRequests, SetName, casCreateChannel, RefusePut, TakePut, BeginClear, SetFlowCtrl,
                Disconnect, Fails, Begins, InUse, Idle
  <2>3. tpc' # "enable"
    BY <1>5, <2>2 DEF ClientRequests, SetName, casCreateChannel, RefusePut, TakePut, BeginClear, SetFlowCtrl,
                Disconnect, Fails, Begins, tcpVars
  <2> QED
    BY <1>2, <2>1, <2>2, <2>3 DEF TcpTypes, SubStages
\* The TCP thread goes on.
<1>6. CASE asAddClient \/ claim_ciu_reply \/ Registered \/ LookBusy \/ Woken \/ TimesOut
              \/ CancelNotify \/ Expire \/ StartPut \/ StartPutFails \/ ProcessNotify
  <2>1. UNCHANGED updateVars /\ tpc' # "enable"
    BY <1>6 DEF asAddClient, claim_ciu_reply, Registered, LookBusy, Woken, TimesOut,
              CancelNotify, Expire, StartPut, StartPutFails, ProcessNotify, Goes, Done, Fails,
              subVars, taskVars, secVars, asVars, updateVars
  <2>2. tpc \notin SubStages
    BY <1>6 DEF asAddClient, claim_ciu_reply, Registered, LookBusy, Woken, TimesOut,
              CancelNotify, Expire, StartPut, StartPutFails, ProcessNotify, Goes, Done, Fails, SubStages
  <2> QED
    BY <1>2, <2>1, <2>2 DEF TcpTypes
<1>7. CASE FreeCancels \/ FreePutNotify \/ FlushLabor \/ ConfirmClear \/ asRemoveClient \/ Unlist
  <2>1. UNCHANGED updateVars /\ tpc' # "enable"
    BY <1>7 DEF FreeCancels, FreePutNotify, FlushLabor, ConfirmClear, asRemoveClient, Unlist, Goes, Done,
              subVars, taskVars, secVars, asVars, updateVars
  <2>2. tpc \notin SubStages
    BY <1>7 DEF FreeCancels, FreePutNotify, FlushLabor, ConfirmClear, asRemoveClient, Unlist, Goes, Done, SubStages
  <2> QED
    BY <1>2, <2>1, <2>2 DEF TcpTypes
<1>8. CASE asRegisterClientCallback
  BY <1>8 DEF asRegisterClientCallback, Goes, TcpTypes, TaskTypes, SubStages, subVars, taskVars
<1>9. CASE AddDbEvent
  BY <1>9 DEF AddDbEvent, Goes, SubsPlaced, TaskTypes, taskVars, asVars, secVars
<1>10. CASE AddDbEventFails
  BY <1>10 DEF AddDbEventFails, Fails, SubsPlaced, subVars, taskVars, asVars, secVars
<1>11. CASE LookAccess
  BY <1>11 DEF LookAccess, subVars, taskVars, asVars, secVars
<1>12. CASE EnableEvent
  BY <1>12 DEF EnableEvent, Done, SubsPlaced, SubStages, taskVars, asVars, secVars
<1>13. CASE CancelDbEvent \/ ConfirmCancel
  BY <1>13 DEF CancelDbEvent, ConfirmCancel, DbCancelled, Goes, Done, SubsPlaced, taskVars, asVars, secVars
<1>14. ASSUME NEW s \in Subs, ClearEvent(s) PROVE UpdatesInv'
  BY <1>14 DEF ClearEvent, TcpTypes, SubTypes, SubStages, taskVars, asVars, secVars
<1>15. CASE FreeEvent
  BY <1>15 DEF FreeEvent, DbCancelled, SubsPlaced, taskVars, asVars, secVars
\* The event task.
<1>16. CASE rsrv_extra_labor
  BY <1>16 DEF rsrv_extra_labor, TakeLabor, TakeNotify, ReplyNotify, SignalBlocked, sendAllUpdateAS, TaskGoes,
              tcpVars, asVars, secVars, subVars
<1>17. ASSUME NEW s \in Subs, ReadAccess(s) PROVE UpdatesInv'
  <2>1. /\ UNCHANGED <<tpc, tchan, tsub, tflag, aspc, aschan, rights, channel, eventq, pdbev, enabled,
                        updated>>
        /\ posted' = posted \ {s} /\ esub' = s /\ eflag' = rights[channel[s]].read
    BY <1>17 DEF ReadAccess, tcpVars, asVars, secVars
  <2>2. esub = None /\ \A t \in eventq : t # None
    BY <1>17 DEF ReadAccess, TaskGoes, TaskTypes, SubTypes
  <2>3. LastUpdateTellsAccess'
    BY <2>1, <2>2
  <2>4. EnabledIfReadable' /\ EnablesIfReadable'
    BY <2>1
  <2>5. UpdateIsNew'
    BY <2>1
  <2> QED
    BY <2>3, <2>4, <2>5
<1>18. CASE SendUpdate
  BY <1>18 DEF SendUpdate, TaskGoes, TaskTypes, SubTypes, tcpVars, asVars, secVars
\* The thread of access security.
<1>19. CASE MarkPendingAR
  BY <1>19 DEF MarkPendingAR, tcpVars, taskVars, secVars, subVars
<1>20. CASE UpdateEvents
  BY <1>20 DEF UpdateEvents, EventsOf, TaskTypes, SubsPlaced, SubStages, tcpVars, taskVars, secVars
<1>21. CASE SignalTask
  BY <1>21 DEF SignalTask, TaskTypes, tcpVars, taskVars, secVars, subVars
<1>22. ASSUME NEW c \in Chans, NEW r \in Rights, ChangeRights(c, r) PROVE UpdatesInv'
  <2>1. \A s \in eventq : channel[s] \in Chans /\ hasCallback[channel[s]]
    BY <1>22 DEF ChangeRights, ChannelTypes, SubsInUse, ClaimsInOrder
  <2>2. tpc = "enable" => tsub \in eventq /\ channel[tsub] = tchan
    BY DEF SubsPlaced, SubStages
  <2>3. /\ UNCHANGED <<tpc, tchan, tsub, tflag, channel, eventq, pdbev, posted, enabled, updated>>
        /\ UNCHANGED <<epc, esub, eflag>>
    BY <1>22 DEF ChangeRights, tcpVars, taskVars, subVars
  <2>4. \A d \in Chans \ {c} : rights'[d] = rights[d]
    BY <1>22 DEF ChangeRights, ChannelTypes
  <2>5. CASE hasCallback[c]
    <3>1. aspc = "idle" /\ aspc' = "state" /\ aschan' = c
      BY <1>22, <2>5 DEF ChangeRights
    <3> QED
      BY <2>1, <2>2, <2>3, <2>4, <3>1
  <2>6. CASE ~hasCallback[c]
    <3>1. UNCHANGED <<aspc, aschan>>
      BY <1>22, <2>6 DEF ChangeRights
    <3> QED
      BY <2>1, <2>2, <2>3, <2>4, <2>6, <3>1
  <2> QED
    BY <2>5, <2>6
\* The database.
<1>23. CASE Database
  BY <1>23, <1>1 DEF Database, CompletePut, write_notify_done_callback, QueueNotify, PostLabor, updateVars,
              tcpVars, taskVars, asVars, secVars, subVars
<1>24. ASSUME NEW c \in Chans, Change(c) PROVE UpdatesInv'
  BY <1>24 DEF Change, tcpVars, taskVars, asVars, secVars
<1>25. CASE UNCHANGED serverVars
  BY <1>25, <1>1 DEF serverVars, updateVars, tcpVars, taskVars, asVars, secVars, subVars
<1> HIDE DEF UpdatesInv
<1>26. CASE TcpThread
  BY <1>26, <1>6, <1>7, <1>8, <1>9, <1>10, <1>11, <1>12, <1>13, <1>14, <1>15 DEF TcpThread
<1> QED
  BY <1>3, <1>4, <1>5, <1>16, <1>17, <1>18, <1>19, <1>20, <1>21, <1>22, <1>23, <1>24, <1>25, <1>26
  DEF ServerNext, EventTask, read_reply, casAccessRightsCB

\* A subscription sent last what its access rights say, or an update follows,
\* and it is enabled if it may be read: for all channels and subscriptions,
\* however event_add_action, read_reply and casAccessRightsCB interleave.
THEOREM UpdatesFollowAccess == ServerSpec => []UpdatesTellAccess
<1> DEFINE Inv == ClaimsInOrder /\ SubsInUse /\ UpdatesInv
<1>1. ServerInit => Inv
  BY DEF ServerInit, ClaimsInOrder, SubsInUse, UpdatesInv, UpdatesTellAccess, LastUpdateTellsAccess,
         EnabledIfReadable, UpdateIsNew, EnablesIfReadable, ClaimStages, PutStages, SubStages
<1>2. ServerTypes /\ Inv /\ [ServerNext]_serverVars => Inv'
  BY ClaimsStep, SubsInUseStep, UpdatesStep
<1>3. Inv => UpdatesTellAccess
  BY DEF UpdatesInv
<1> HIDE DEF Inv
<1> QED
  BY <1>1, <1>2, <1>3, ServerStaysTyped, PTL DEF ServerSpec

-----------------------------------------------------------------------------
(* Put callbacks.                                                          *)

In(c, q) == \E k \in 1 .. Len(q) : q[k] = c

Once(q) == \A j, k \in 1 .. Len(q) : q[j] = q[k] => j = k

LEMMA AppendQueues ==
    ASSUME NEW q \in Seq(Chans), NEW c \in Chans, Once(q), ~In(c, q)
    PROVE  /\ Append(q, c) \in Seq(Chans) /\ Once(Append(q, c))
           /\ \A d : In(d, Append(q, c)) <=> d = c \/ In(d, q)
<1> DEFINE a == Append(q, c)
<1>1. /\ a \in Seq(Chans) /\ Len(a) = Len(q) + 1 /\ Len(q) \in Nat
      /\ \A k \in 1 .. Len(q) : a[k] = q[k]
      /\ a[Len(q) + 1] = c
  OBVIOUS
<1> HIDE DEF a
<1>2. Once(a)
  BY <1>1 DEF Once, In
<1>3. \A d : In(d, a) <=> d = c \/ In(d, q)
  <2>1. 1 .. Len(a) = 1 .. Len(q) \cup {Len(q) + 1}
    BY <1>1
  <2> QED
    BY <1>1, <2>1 DEF In
<1> QED
  BY <1>1, <1>2, <1>3 DEF a

LEMMA TailTakes ==
    ASSUME NEW q \in Seq(Chans), Once(q), q # <<>>
    PROVE  /\ Tail(q) \in Seq(Chans) /\ Once(Tail(q))
           /\ Head(q) \in Chans /\ In(Head(q), q)
           /\ \A d : In(d, Tail(q)) <=> d # Head(q) /\ In(d, q)
<1> DEFINE t == Tail(q)
<1>1. /\ t \in Seq(Chans) /\ Len(t) = Len(q) - 1 /\ Len(q) \in Nat \ {0}
      /\ \A k \in 1 .. Len(t) : t[k] = q[k + 1]
      /\ Head(q) = q[1]
      /\ \A k \in 1 .. Len(q) : q[k] \in Chans
  OBVIOUS
<1> HIDE DEF t
<1>2. Once(t)
  BY <1>1 DEF Once
<1>3. \A d : In(d, t) <=> d # Head(q) /\ In(d, q)
  <2>1. ASSUME NEW d, In(d, t) PROVE d # Head(q) /\ In(d, q)
    <3>1. PICK k \in 1 .. Len(t) : t[k] = d
      BY <2>1 DEF In
    <3> QED
      BY <1>1, <3>1 DEF In, Once
  <2>2. ASSUME NEW d, d # Head(q), In(d, q) PROVE In(d, t)
    <3>1. PICK k \in 1 .. Len(q) : q[k] = d
      BY <2>2 DEF In
    <3>2. k - 1 \in 1 .. Len(t) /\ t[k - 1] = q[(k - 1) + 1]
      BY <1>1, <2>2, <3>1
    <3> QED
      BY <3>1, <3>2 DEF In
  <2> QED
    BY <2>1, <2>2
<1>4. In(Head(q), q)
  BY <1>1 DEF In
<1> QED
  BY <1>1, <1>2, <1>3, <1>4 DEF t

LEMMA RemovedTakes ==
    ASSUME putNotifyQue \in Seq(Chans), Once(putNotifyQue), NEW c \in Chans, In(c, putNotifyQue)
    PROVE  /\ Removed(c) \in Seq(Chans) /\ Once(Removed(c))
           /\ \A d : In(d, Removed(c)) <=> d # c /\ In(d, putNotifyQue)
<1> DEFINE q == putNotifyQue
           at == CHOOSE k \in 1 .. Len(q) : q[k] = c
           r == SubSeq(q, 1, at - 1) \o SubSeq(q, at + 1, Len(q))
<1>1. at \in 1 .. Len(q) /\ q[at] = c
  BY DEF In
<1>2. Removed(c) = r
  BY DEF Removed
<1> HIDE DEF at
<1>3. /\ r \in Seq(Chans) /\ Len(r) = Len(q) - 1 /\ Len(q) \in Nat
      /\ \A k \in 1 .. Len(r) : r[k] = IF k < at THEN q[k] ELSE q[k + 1]
  <2> DEFINE a == SubSeq(q, 1, at - 1)
             b == SubSeq(q, at + 1, Len(q))
  <2>1. Len(q) \in Nat
    OBVIOUS
  <2>2. /\ a \in Seq(Chans) /\ Len(a) = at - 1
        /\ \A k \in 1 .. Len(a) : a[k] = q[k]
    BY <1>1, <2>1
  <2>3. /\ b \in Seq(Chans) /\ Len(b) = Len(q) - at
        /\ \A k \in 1 .. Len(b) : b[k] = q[at + k]
    BY <1>1, <2>1
  <2> HIDE DEF a, b
  <2>4. /\ a \o b \in Seq(Chans) /\ Len(a \o b) = Len(a) + Len(b)
        /\ \A k \in 1 .. Len(a) + Len(b) : (a \o b)[k] = IF k <= Len(a) THEN a[k] ELSE b[k - Len(a)]
    BY <2>2, <2>3, ConcatProperties
  <2>5. ASSUME NEW k \in 1 .. Len(q) - 1
        PROVE  (a \o b)[k] = IF k < at THEN q[k] ELSE q[k + 1]
    <3>1. CASE k < at
      BY <3>1, <1>1, <2>1, <2>2, <2>3, <2>4
    <3>2. CASE ~(k < at)
      <4>1. k - Len(a) \in 1 .. Len(b) /\ at + (k - Len(a)) = k + 1 /\ ~(k <= Len(a))
        BY <3>2, <1>1, <2>1, <2>2, <2>3
      <4>2. (a \o b)[k] = b[k - Len(a)]
        BY <1>1, <2>1, <2>2, <2>3, <2>4, <4>1
      <4>3. b[k - Len(a)] = q[at + (k - Len(a))]
        BY <2>3, <4>1
      <4> QED
        BY <3>2, <4>1, <4>2, <4>3
    <3> QED
      BY <3>1, <3>2
  <2>6. r = a \o b
    BY DEF a, b
  <2> QED
    <3>1. Len(a \o b) = Len(q) - 1
      BY <1>1, <2>1, <2>2, <2>3, <2>4
    <3> QED
      BY <2>1, <2>4, <2>5, <2>6, <3>1
<1> HIDE DEF r
<1>4. Once(r)
  <2>1. ASSUME NEW j \in 1 .. Len(r), NEW k \in 1 .. Len(r), r[j] = r[k] PROVE j = k
    BY <1>1, <1>3, <2>1 DEF Once
  <2> QED
    BY <2>1 DEF Once
<1>5. ASSUME NEW d, In(d, r) PROVE d # c /\ In(d, q)
  <2>1. PICK k \in 1 .. Len(r) : r[k] = d
    BY <1>5 DEF In
  <2>2. CASE k < at
    BY <1>1, <1>3, <2>1, <2>2 DEF In, Once
  <2>3. CASE ~(k < at)
    BY <1>1, <1>3, <2>1, <2>3 DEF In, Once
  <2> QED
    BY <2>2, <2>3
<1>6. ASSUME NEW d, d # c, In(d, q) PROVE In(d, r)
  <2>1. PICK k \in 1 .. Len(q) : q[k] = d
    BY <1>6 DEF In
  <2>2. CASE k < at
    <3>1. k \in 1 .. Len(r) /\ r[k] = d
      BY <1>1, <1>3, <2>1, <2>2
    <3> QED
      BY <3>1 DEF In
  <2>3. CASE ~(k < at)
    <3>1. k - 1 \in 1 .. Len(r) /\ ~(k - 1 < at) /\ (k - 1) + 1 = k
      BY <1>1, <1>3, <1>6, <2>1, <2>3
    <3>2. r[k - 1] = d
      BY <1>3, <2>1, <3>1
    <3> QED
      BY <3>1, <3>2 DEF In
  <2> QED
    BY <2>2, <2>3
<1> QED
  BY <1>2, <1>3, <1>4, <1>5, <1>6

Notifies == [there : BOOLEAN, busy : BOOLEAN, onExtraLaborQueue : BOOLEAN,
             msg : Puts \cup {None}, asWritePvt : Puts \cup {None}]

NotifyTypes ==
    /\ dbpc \in [Chans -> {"idle", "processing", "done", "returning"}]
    /\ pPutNotify \in [Chans -> Notifies]
    /\ putNotifyQue \in Seq(Chans) /\ Once(putNotifyQue)
    /\ asked \in [Puts -> Chans \cup {None}]
    /\ replies \in [Puts -> Nat]
    /\ eput = etrap
    /\ IF epc = "reply" THEN eput \in 1 .. nextPut - 1 ELSE eput = None

\* The block of a channel belongs to one put callback from its start to its end.
BlockInOrder(c) ==
    LET n == pPutNotify[c] IN
    /\ n.busy => /\ n.there /\ n.msg = n.asWritePvt /\ Underway(c)
                 /\ n.msg \in 1 .. nextPut - 1 /\ asked[n.msg] = c
    /\ ~n.busy => n.asWritePvt = None
    /\ dbpc[c] \in {"processing", "done"} => n.busy /\ ~n.onExtraLaborQueue
    /\ In(c, putNotifyQue) => n.busy /\ n.onExtraLaborQueue
    /\ n.onExtraLaborQueue =>
         \/ In(c, putNotifyQue)
         \/ ~n.busy /\ (tpc = "closed" \/ (tchan = c /\ tpc \in {"wait", "start"}))

BlocksInOrder == \A c \in Chans : BlockInOrder(c)

\* What the TCP thread knows of the block and the put it works on.
PutInHand ==
    /\ tpc \in PutStages => asked[tput] = tchan /\ pPutNotify[tchan].there
    /\ tpc = "start" => ~pPutNotify[tchan].busy
    /\ tpc = "process" => LET n == pPutNotify[tchan] IN
                          n.busy /\ ~n.onExtraLaborQueue /\ n.msg = tput
    /\ tpc \in {"expire", "process", "free"} => dbpc[tchan] \notin {"processing", "done"}

\* rsrvFreePutNotify is past its block.
AfterFree(c) ==
    c \in cleared \/ (tchan = c /\ tpc \in {"events", "event", "confirm", "leave", "unlist"})

FreedIsGone ==
    /\ \A c \in Chans : AfterFree(c) => pPutNotify[c] = NoNotify
    /\ epc = "reply" => asked[eput] \notin cleared /\ (tpc = "confirm" => asked[eput] # tchan)

\* Nobody else holds the put of a block, the event task or the TCP thread.
PutsDiffer ==
    /\ \A c \in Chans : pPutNotify[c].busy =>
         /\ pPutNotify[c].msg # eput
         /\ tpc \in PutStages \ {"process"} => pPutNotify[c].msg # tput
    /\ eput # None => eput # tput

Held(p) ==
    (\E c \in Chans : pPutNotify[c].busy /\ pPutNotify[c].msg = p) \/ eput = p \/ tput = p

Dropped(p) == asked[p] \in cleared \/ (asked[p] = tchan /\ tpc \in Clearing)

Settled(p) ==
    IF p < nextPut
    THEN \/ replies[p] = 0 /\ (Held(p) \/ Dropped(p))
         \/ replies[p] = 1 /\ ~Held(p)
    ELSE replies[p] = 0

PutsSettled == \A p \in Puts : Settled(p)

PutsInv ==
    /\ NotifyTypes /\ BlocksInOrder /\ PutInHand /\ FreedIsGone /\ PutsDiffer /\ PutsSettled
    /\ TrapsAreEnded

LEMMA ElsewherePuts ==
    ASSUME PutsInv, TcpTypes, UNCHANGED <<notifyVars, epc, eput, etrap, cleared>>,
           tpc \notin PutStages \cup Clearing \cup {"closed"}, tpc' \notin PutStages \cup Clearing,
           tput' = None
    PROVE  PutsInv'
<1> USE DEF PutsInv, notifyVars, PutStages, Clearing
<1>1. NotifyTypes' /\ PutInHand' /\ TrapsAreEnded'
  BY DEF NotifyTypes, PutInHand, TrapsAreEnded
<1>2. BlocksInOrder'
  BY DEF BlocksInOrder, BlockInOrder, Underway
<1>3. FreedIsGone' /\ PutsDiffer'
  BY DEF FreedIsGone, AfterFree, PutsDiffer
<1>4. PutsSettled'
  BY DEF PutsSettled, Settled, Held, Dropped, TcpTypes
<1> QED
  BY <1>1, <1>2, <1>3, <1>4

LEMMA SamePuts ==
    ASSUME PutsInv, UNCHANGED <<notifyVars, eput, etrap, cleared, tpc, tchan, tput>>,
           epc = "reply" <=> epc' = "reply"
    PROVE  PutsInv'
<1> USE DEF PutsInv, notifyVars
<1>1. NotifyTypes' /\ PutInHand' /\ TrapsAreEnded'
  BY DEF NotifyTypes, PutInHand, TrapsAreEnded
<1>2. BlocksInOrder'
  BY DEF BlocksInOrder, BlockInOrder, Underway
<1>3. FreedIsGone' /\ PutsDiffer'
  BY DEF FreedIsGone, AfterFree, PutsDiffer
<1>4. PutsSettled'
  BY DEF PutsSettled, Settled, Held, Dropped
<1> QED
  BY <1>1, <1>2, <1>3, <1>4

LEMMA PutRequests ==
    ASSUME PutsInv, TcpTypes, ClaimsInOrder, NEW c \in Chans,
           RefusePut(c) \/ TakePut(c) \/ BeginClear(c)
    PROVE  PutsInv'
<1> USE Nones DEF PutsInv, Begins, InUse, Idle, PutStages, Clearing
<1>0. nextPut \in Nat /\ nextPut > 0 /\ MaxCallbacks \in Nat /\ tput = None /\ tchan = None
  BY CaServerAssumption DEF TcpTypes, RefusePut, TakePut, BeginClear
<1>1. CASE RefusePut(c)
  <2> USE <1>0, <1>1 DEF RefusePut, Answer, tcpVars, taskVars, sentVars
  <2>1. NotifyTypes'
    BY DEF NotifyTypes, Puts
  <2>2. BlocksInOrder'
    BY DEF BlocksInOrder, BlockInOrder, Underway, NotifyTypes, Puts
  <2>3. PutInHand' /\ TrapsAreEnded'
    BY DEF PutInHand, TrapsAreEnded
  <2>4. FreedIsGone' /\ PutsDiffer'
    BY DEF FreedIsGone, AfterFree, PutsDiffer, NotifyTypes, Puts
  <2>5. PutsSettled'
    <3>1. ASSUME NEW p \in Puts, p = nextPut PROVE Settled(p)'
      <4>1. ~Held(p)'
        BY <3>1 DEF Held, BlocksInOrder, BlockInOrder, NotifyTypes, Puts
      <4>2. replies'[p] = 1
        BY <3>1 DEF PutsSettled, Settled, NotifyTypes, Puts
      <4> QED
        BY <3>1, <4>1, <4>2 DEF Settled
    <3>2. \A p \in Puts \ {nextPut} : Settled(p)'
      BY DEF PutsSettled, Settled, Held, Dropped, NotifyTypes, Puts
    <3> QED
      BY <3>1, <3>2 DEF PutsSettled
  <2> QED
    BY <2>1, <2>2, <2>3, <2>4, <2>5
<1>2. CASE TakePut(c)
  <2> USE <1>0, <1>2 DEF TakePut, SetNotify, taskVars, sentVars
  <2>0. \A d \in Chans : /\ pPutNotify'[d].busy = pPutNotify[d].busy
                         /\ pPutNotify'[d].msg = pPutNotify[d].msg
                         /\ pPutNotify'[d].asWritePvt = pPutNotify[d].asWritePvt
                         /\ pPutNotify'[d].onExtraLaborQueue = pPutNotify[d].onExtraLaborQueue
                         /\ pPutNotify'[d].there = (pPutNotify[d].there \/ d = c)
    BY DEF NotifyTypes, Notifies
  <2>1. NotifyTypes'
    <3>1. pPutNotify' \in [Chans -> Notifies]
      BY DEF NotifyTypes, Notifies
    <3>2. asked' \in [Puts -> Chans \cup {None}]
      BY DEF NotifyTypes
    <3> QED
      BY <3>1, <3>2 DEF NotifyTypes
  <2>2. BlocksInOrder'
    BY <2>0 DEF BlocksInOrder, BlockInOrder, Underway, NotifyTypes, Puts
  <2>3. PutInHand'
    BY <2>0 DEF PutInHand, NotifyTypes, FreedIsGone, BlocksInOrder, BlockInOrder
  <2>4. TrapsAreEnded'
    BY <2>0 DEF TrapsAreEnded
  <2>5. FreedIsGone'
    BY DEF FreedIsGone, AfterFree, NotifyTypes, Puts
  <2>6. PutsDiffer'
    BY <2>0 DEF PutsDiffer, BlocksInOrder, BlockInOrder, NotifyTypes, Puts
  <2>7. PutsSettled'
    <3>1. \A p \in Puts \ {nextPut} : Settled(p)'
      BY <2>0 DEF PutsSettled, Settled, Held, Dropped, NotifyTypes, Puts
    <3>2. ASSUME NEW p \in Puts, p = nextPut PROVE Settled(p)'
      BY <3>2 DEF PutsSettled, Settled, Held
    <3> QED
      BY <3>1, <3>2 DEF PutsSettled
  <2> QED
    BY <2>1, <2>2, <2>3, <2>4, <2>5, <2>6, <2>7
<1>3. CASE BeginClear(c)
  <2> USE <1>0, <1>3 DEF BeginClear, taskVars, sentVars, notifyVars
  <2>1. NotifyTypes' /\ TrapsAreEnded'
    BY DEF NotifyTypes, TrapsAreEnded
  <2>2. BlocksInOrder'
    BY DEF BlocksInOrder, BlockInOrder, Underway
  <2>3. PutInHand'
    BY DEF PutInHand, BlocksInOrder, BlockInOrder
  <2>4. FreedIsGone' /\ PutsDiffer'
    BY DEF FreedIsGone, AfterFree, PutsDiffer
  <2>5. PutsSettled'
    BY DEF PutsSettled, Settled, Held, Dropped
  <2> QED
    BY <2>1, <2>2, <2>3, <2>4, <2>5
<1> QED
  BY <1>1, <1>2, <1>3

LEMMA PutWaits ==
    ASSUME PutsInv, TcpTypes, ClaimsInOrder, LookBusy \/ Woken \/ TimesOut
    PROVE  PutsInv'
<1> USE Nones DEF PutsInv, PutStages, Clearing, LookBusy, Woken, TimesOut, Goes, taskVars, sentVars, notifyVars
<1>0. tchan \in Chans /\ tput \in Puts /\ tput < nextPut
  BY CaServerAssumption DEF TcpTypes, Puts
<1>1. NotifyTypes' /\ TrapsAreEnded'
  BY DEF NotifyTypes, TrapsAreEnded
<1>2. BlocksInOrder'
  BY DEF BlocksInOrder, BlockInOrder, Underway
<1>3. PutInHand'
  BY <1>0 DEF PutInHand, BlocksInOrder, BlockInOrder
<1>4. FreedIsGone' /\ PutsDiffer'
  BY DEF FreedIsGone, AfterFree, PutsDiffer
<1>5. PutsSettled'
  BY DEF PutsSettled, Settled, Held, Dropped
<1> QED
  BY <1>1, <1>2, <1>3, <1>4, <1>5

LEMMA PutIsCancelled ==
    ASSUME PutsInv, TcpTypes, ClaimsInOrder, CancelNotify \/ FreeCancels
    PROVE  PutsInv'
<1> USE Nones DEF PutsInv, PutStages, Clearing, CancelNotify, FreeCancels, Cancelled, Goes, taskVars, sentVars
<1>0. tchan \in Chans
  BY DEF TcpTypes
<1>1. NotifyTypes' /\ TrapsAreEnded'
  BY DEF NotifyTypes, TrapsAreEnded
<1>2. BlocksInOrder'
  BY <1>0 DEF BlocksInOrder, BlockInOrder, Underway, NotifyTypes
<1>3. PutInHand'
  BY <1>0 DEF PutInHand, NotifyTypes
<1>4. FreedIsGone' /\ PutsDiffer'
  BY DEF FreedIsGone, AfterFree, PutsDiffer
<1>5. PutsSettled'
  BY DEF PutsSettled, Settled, Held, Dropped
<1> QED
  BY <1>1, <1>2, <1>3, <1>4, <1>5

LEMMA PutExpires ==
    ASSUME PutsInv, TcpTypes, ClaimsInOrder, Expire
    PROVE  PutsInv'
<1> DEFINE n == pPutNotify[tchan]
<1> USE Nones DEF PutsInv, PutStages, Clearing, Expire, StillBusy, SetNotify, Answer, Goes, taskVars, sentVars
<1>0. tchan \in Chans /\ tput \in Puts /\ tput < nextPut /\ n \in Notifies /\ tchan \notin cleared
  BY CaServerAssumption DEF TcpTypes, Puts, NotifyTypes, ClaimsInOrder
<1>1. CASE ~n.busy
  <2>0. UNCHANGED <<putNotifyQue, pPutNotify, trapped, replies>>
    BY <1>1
  <2>1. NotifyTypes' /\ TrapsAreEnded'
    BY <2>0 DEF NotifyTypes, TrapsAreEnded
  <2>2. BlocksInOrder'
    BY <1>1, <2>0 DEF BlocksInOrder, BlockInOrder, Underway
  <2>3. PutInHand' /\ FreedIsGone' /\ PutsDiffer'
    BY <2>0 DEF PutInHand, FreedIsGone, AfterFree, PutsDiffer
  <2>4. PutsSettled'
    BY <2>0 DEF PutsSettled, Settled, Held, Dropped
  <2> QED
    BY <2>1, <2>2, <2>3, <2>4
<1>2. CASE n.busy
  <2>0. /\ n.msg \in Puts /\ n.msg < nextPut /\ n.asWritePvt = n.msg /\ asked[n.msg] = tchan
        /\ n.msg # tput /\ n.msg # eput /\ n.there
    <3>1. /\ n.msg \in 1 .. nextPut - 1 /\ n.asWritePvt = n.msg /\ asked[n.msg] = tchan
          /\ n.msg # tput /\ n.msg # eput /\ n.there
      BY <1>0, <1>2 DEF BlocksInOrder, BlockInOrder, PutsDiffer
    <3> QED
      BY <3>1, CaServerAssumption DEF Puts, TcpTypes
  <2> PICK m \in Puts : m = n.msg
    BY <2>0
  <2>1. /\ pPutNotify' \in [Chans -> Notifies]
        /\ \A d \in Chans \ {tchan} : pPutNotify'[d] = pPutNotify[d]
        /\ ~pPutNotify'[tchan].busy /\ pPutNotify'[tchan].asWritePvt = None
        /\ pPutNotify'[tchan].there
        /\ pPutNotify'[tchan].onExtraLaborQueue = n.onExtraLaborQueue
    <3> DEFINE e == [n EXCEPT !.busy = FALSE, !.asWritePvt = None]
    <3>1. /\ e \in Notifies /\ ~e.busy /\ e.asWritePvt = None /\ e.there = n.there
          /\ e.onExtraLaborQueue = n.onExtraLaborQueue
      BY <1>0 DEF Notifies
    <3>2. pPutNotify' = [pPutNotify EXCEPT ![tchan] = e]
      BY <1>2
    <3> HIDE DEF e
    <3> QED
      BY <1>0, <2>0, <3>1, <3>2 DEF NotifyTypes
  <2>2. /\ putNotifyQue' \in Seq(Chans) /\ Once(putNotifyQue)'
        /\ \A d \in Chans : In(d, putNotifyQue)' <=> d # tchan /\ In(d, putNotifyQue)
    <3>1. CASE n.onExtraLaborQueue
      <4>1. In(tchan, putNotifyQue)
        BY <1>0, <1>2, <3>1 DEF BlocksInOrder, BlockInOrder
      <4>2. putNotifyQue' = Removed(tchan)
        BY <1>2, <3>1
      <4> QED
        BY <1>0, <4>1, <4>2, RemovedTakes DEF NotifyTypes
    <3>2. CASE ~n.onExtraLaborQueue
      <4>1. putNotifyQue' = putNotifyQue /\ ~In(tchan, putNotifyQue)
        BY <1>0, <1>2, <3>2 DEF BlocksInOrder, BlockInOrder
      <4> QED
        BY <4>1 DEF NotifyTypes
    <3> QED
      BY <3>1, <3>2
  <2>3. NotifyTypes'
    BY <1>2, <2>0, <2>1, <2>2 DEF NotifyTypes
  <2>4. BlocksInOrder'
    <3>1. BlockInOrder(tchan)'
      <4>1. ASSUME NEW d \in Chans, d = tchan PROVE BlockInOrder(d)'
        BY <1>0, <2>1, <2>2, <4>1 DEF BlocksInOrder, BlockInOrder, PutInHand
      <4> QED
        BY <1>0, <4>1
    <3>2. ASSUME NEW d \in Chans \ {tchan} PROVE BlockInOrder(d)'
      <4>1. BlockInOrder(d)
        BY DEF BlocksInOrder
      <4>2. pPutNotify'[d] = pPutNotify[d] /\ (In(d, putNotifyQue)' <=> In(d, putNotifyQue))
        BY <2>1, <2>2
      <4>3. Underway(d)' <=> Underway(d)
        BY <4>2 DEF Underway, In
      <4> QED
        BY <4>1, <4>2, <4>3 DEF BlockInOrder
    <3> QED
      BY <1>0, <3>1, <3>2 DEF BlocksInOrder
  <2>5. PutInHand'
    BY <1>0, <2>1 DEF PutInHand
  <2>6. FreedIsGone'
    BY <1>0, <2>1 DEF FreedIsGone, AfterFree, NotifyTypes
  <2>7. PutsDiffer'
    BY <1>0, <2>1 DEF PutsDiffer
  <2>8. TrapsAreEnded'
    <3>1. trapped' = trapped \ {m}
      BY <1>2, <2>0
    <3>2. \A d \in Chans \ {tchan} : pPutNotify[d].asWritePvt # m
      BY <2>0 DEF BlocksInOrder, BlockInOrder, Puts
    <3>3. \A p : p \in trapped' <=> p # None /\ (p = etrap' \/ \E d \in Chans : pPutNotify'[d].asWritePvt = p)
      <4>1. etrap' = etrap /\ etrap # m
        BY <2>0 DEF NotifyTypes
      <4>2. \A p : p \in trapped <=> p # None /\ (p = etrap \/ \E d \in Chans : pPutNotify[d].asWritePvt = p)
        BY DEF TrapsAreEnded
      <4> QED
        BY <1>0, <2>0, <2>1, <3>1, <3>2, <4>1, <4>2
    <3> QED
      BY <3>3 DEF TrapsAreEnded
  <2>9. PutsSettled'
    <3>1. Settled(m)'
      <4>1. replies[m] = 0
        BY <1>0, <1>2, <2>0 DEF PutsSettled, Settled, Held
      <4>2. ~Held(m)'
        BY <1>0, <2>0, <2>1 DEF Held, BlocksInOrder, BlockInOrder
      <4>3. replies'[m] = 1
        BY <1>2, <4>1 DEF NotifyTypes
      <4> QED
        BY <2>0, <4>2, <4>3 DEF Settled
    <3>2. ASSUME NEW p \in Puts \ {m} PROVE Settled(p)'
      <4>1. replies'[p] = replies[p]
        BY <1>2, <3>2 DEF NotifyTypes
      <4>2. Held(p)' <=> Held(p)
        BY <1>0, <1>2, <2>1, <3>2 DEF Held
      <4>3. Dropped(p)' <=> Dropped(p)
        BY DEF Dropped
      <4> QED
        BY <4>1, <4>2, <4>3, <3>2 DEF PutsSettled, Settled
    <3> QED
      BY <3>1, <3>2 DEF PutsSettled
  <2> QED
    BY <2>3, <2>4, <2>5, <2>6, <2>7, <2>8, <2>9
<1> QED
  BY <1>1, <1>2

LEMMA TrapsByElement ==
    TrapsAreEnded <=>
        \A p : p \in trapped <=> p # None /\ (p = etrap \/ \E c \in Chans : pPutNotify[c].asWritePvt = p)
BY DEF TrapsAreEnded

LEMMA PutStarts ==
    ASSUME PutsInv, TcpTypes, ClaimsInOrder, StartPut
    PROVE  PutsInv'
<1> USE Nones DEF PutsInv, PutStages, Clearing, StartPut, SetNotify, Goes, taskVars, sentVars
<1>0. /\ tchan \in Chans /\ tput \in 1 .. nextPut - 1 /\ tput \in Puts /\ tput # None
      /\ tchan \notin cleared /\ ~pPutNotify[tchan].busy
      /\ asked[tput] = tchan
  BY CaServerAssumption DEF TcpTypes, Puts, NotifyTypes, ClaimsInOrder, PutInHand
<1>1. /\ pPutNotify' \in [Chans -> Notifies]
      /\ \A d \in Chans \ {tchan} : pPutNotify'[d] = pPutNotify[d]
      /\ pPutNotify'[tchan].busy /\ pPutNotify'[tchan].there /\ ~pPutNotify'[tchan].onExtraLaborQueue
      /\ pPutNotify'[tchan].asWritePvt = tput /\ pPutNotify'[tchan].msg = tput
  BY <1>0 DEF NotifyTypes, Notifies
<1>2. NotifyTypes'
  BY <1>1 DEF NotifyTypes
<1>3. BlocksInOrder'
  <2>1. ASSUME NEW d \in Chans, d = tchan PROVE BlockInOrder(d)'
    BY <1>0, <1>1, <2>1 DEF BlocksInOrder, BlockInOrder, Underway, In
  <2>2. ASSUME NEW d \in Chans \ {tchan} PROVE BlockInOrder(d)'
    BY <1>1 DEF BlocksInOrder, BlockInOrder, Underway
  <2> QED
    BY <2>1, <2>2 DEF BlocksInOrder
<1>4. PutInHand'
  BY <1>0, <1>1 DEF PutInHand, BlocksInOrder, BlockInOrder
<1>5. FreedIsGone'
  BY <1>0, <1>1 DEF FreedIsGone, AfterFree, NotifyTypes
<1>6. PutsDiffer'
  BY <1>0, <1>1 DEF PutsDiffer
<1>7. TrapsAreEnded'
  <2>1. pPutNotify[tchan].asWritePvt = None
    BY <1>0 DEF BlocksInOrder, BlockInOrder
  <2>2. trapped' = trapped \cup {tput} /\ etrap' = etrap
    OBVIOUS
  <2>3. \A p : p \in trapped' <=> p # None /\ (p = etrap' \/ \E d \in Chans : pPutNotify'[d].asWritePvt = p)
    BY <1>0, <1>1, <2>1, <2>2, TrapsByElement
  <2> QED
    BY <2>3 DEF TrapsAreEnded
<1>8. PutsSettled'
  <2>1. ASSUME NEW p \in Puts PROVE Held(p)' <=> Held(p)
    BY <1>0, <1>1 DEF Held
  <2> QED
    BY <2>1 DEF PutsSettled, Settled, Dropped
<1> QED
  BY <1>2, <1>3, <1>4, <1>5, <1>6, <1>7, <1>8

LEMMA PutDoesNotStart ==
    ASSUME PutsInv, TcpTypes, ClaimsInOrder, StartPutFails
    PROVE  PutsInv'
<1> USE Nones DEF PutsInv, PutStages, Clearing, StartPutFails, Answer, Fails, taskVars, sentVars
<1>0. /\ tchan \in Chans /\ tput \in 1 .. nextPut - 1 /\ tput \in Puts /\ tput # None
      /\ ~pPutNotify[tchan].busy
  BY CaServerAssumption DEF TcpTypes, Puts, NotifyTypes, ClaimsInOrder, PutInHand
<1> PICK m \in Puts : m = tput /\ m < nextPut
  BY <1>0 DEF TcpTypes
<1>1. NotifyTypes' /\ TrapsAreEnded'
  BY DEF NotifyTypes, TrapsAreEnded
<1>2. BlocksInOrder'
  BY <1>0 DEF BlocksInOrder, BlockInOrder, Underway
<1>3. PutInHand' /\ FreedIsGone' /\ PutsDiffer'
  BY DEF PutInHand, FreedIsGone, AfterFree, PutsDiffer
<1>4. PutsSettled'
  <2>1. Settled(m)'
    <3>1. replies[m] = 0
      BY <1>0 DEF PutsSettled, Settled, Held
    <3>2. ~Held(m)'
      BY <1>0 DEF Held, PutsDiffer
    <3>3. replies'[m] = 1
      BY <3>1 DEF NotifyTypes
    <3> QED
      BY <1>0, <3>2, <3>3 DEF Settled
  <2>2. ASSUME NEW p \in Puts \ {m} PROVE Settled(p)'
    <3>1. replies'[p] = replies[p]
      BY <2>2 DEF NotifyTypes
    <3>2. Held(p)' <=> Held(p)
      BY <2>2 DEF Held
    <3>3. Dropped(p) => Dropped(p)'
      BY DEF Dropped
    <3> QED
      BY <3>1, <3>2, <3>3 DEF PutsSettled, Settled
  <2> QED
    BY <2>1, <2>2 DEF PutsSettled
<1> QED
  BY <1>1, <1>2, <1>3, <1>4

LEMMA PutIsProcessed ==
    ASSUME PutsInv, TcpTypes, ClaimsInOrder, ProcessNotify
    PROVE  PutsInv'
<1> USE Nones DEF PutsInv, PutStages, Clearing, ProcessNotify, Done, taskVars, sentVars
<1>0. /\ tchan \in Chans /\ tput # None
      /\ pPutNotify[tchan].busy /\ ~pPutNotify[tchan].onExtraLaborQueue /\ pPutNotify[tchan].msg = tput
  BY CaServerAssumption DEF TcpTypes, Puts, NotifyTypes, PutInHand
<1>1. NotifyTypes' /\ TrapsAreEnded'
  BY DEF NotifyTypes, TrapsAreEnded
<1>2. BlocksInOrder'
  <2>1. ASSUME NEW d \in Chans PROVE BlockInOrder(d)'
    BY <1>0 DEF BlocksInOrder, BlockInOrder, Underway, NotifyTypes
  <2> QED
    BY <2>1 DEF BlocksInOrder
<1>3. PutInHand' /\ FreedIsGone' /\ PutsDiffer'
  BY DEF PutInHand, FreedIsGone, AfterFree, PutsDiffer
<1>4. PutsSettled'
  <2>1. ASSUME NEW p \in Puts PROVE Held(p)' <=> Held(p)
    BY <1>0 DEF Held
  <2> QED
    BY <2>1 DEF PutsSettled, Settled, Dropped
<1> QED
  BY <1>1, <1>2, <1>3, <1>4

LEMMA PutIsFreed ==
    ASSUME PutsInv, TcpTypes, ClaimsInOrder, FreePutNotify
    PROVE  PutsInv'
<1> DEFINE n == pPutNotify[tchan]
<1> USE Nones DEF PutsInv, PutStages, Clearing, FreePutNotify, SetNotify, Unqueued, Goes, taskVars, sentVars
<1>0. tchan \in Chans /\ n \in Notifies /\ tput = None /\ BlockInOrder(tchan)
  BY DEF TcpTypes, NotifyTypes, BlocksInOrder
<1>1. /\ pPutNotify' \in [Chans -> Notifies]
      /\ \A d \in Chans \ {tchan} : pPutNotify'[d] = pPutNotify[d]
      /\ pPutNotify'[tchan] = NoNotify
      /\ ~NoNotify.busy /\ ~NoNotify.onExtraLaborQueue /\ NoNotify.asWritePvt = None
  BY <1>0 DEF NotifyTypes, Notifies, NoNotify
<1>2. /\ putNotifyQue' \in Seq(Chans) /\ Once(putNotifyQue)'
      /\ \A d \in Chans : In(d, putNotifyQue)' <=> d # tchan /\ In(d, putNotifyQue)
  <2>1. CASE n.onExtraLaborQueue
    <3>1. In(tchan, putNotifyQue)
      BY <1>0, <2>1 DEF BlockInOrder
    <3>2. putNotifyQue' = Removed(tchan)
      BY <2>1
    <3> QED
      BY <1>0, <3>1, <3>2, RemovedTakes DEF NotifyTypes
  <2>2. CASE ~n.onExtraLaborQueue
    <3>1. putNotifyQue' = putNotifyQue /\ ~In(tchan, putNotifyQue)
      BY <1>0, <2>2 DEF BlockInOrder
    <3> QED
      BY <3>1 DEF NotifyTypes
  <2> QED
    BY <2>1, <2>2
<1>3. NotifyTypes'
  BY <1>1, <1>2 DEF NotifyTypes
<1>4. BlocksInOrder'
  <2>1. ASSUME NEW d \in Chans, d = tchan PROVE BlockInOrder(d)'
    BY <1>0, <1>1, <1>2, <2>1 DEF BlockInOrder, PutInHand
  <2>2. ASSUME NEW d \in Chans \ {tchan} PROVE BlockInOrder(d)'
    <3>1. BlockInOrder(d)
      BY DEF BlocksInOrder
    <3>2. pPutNotify'[d] = pPutNotify[d] /\ (In(d, putNotifyQue)' <=> In(d, putNotifyQue))
      BY <1>1, <1>2
    <3>3. Underway(d)' <=> Underway(d)
      BY <3>2 DEF Underway, In
    <3> QED
      BY <3>1, <3>2, <3>3 DEF BlockInOrder
  <2> QED
    BY <2>1, <2>2 DEF BlocksInOrder
<1>5. PutInHand' /\ FreedIsGone'
  BY <1>0, <1>1 DEF PutInHand, FreedIsGone, AfterFree
<1>6. PutsDiffer'
  BY <1>0, <1>1 DEF PutsDiffer
<1>7. TrapsAreEnded'
  <2>1. n.busy => n.asWritePvt # None /\ n.asWritePvt # etrap
                  /\ \A d \in Chans \ {tchan} : pPutNotify[d].asWritePvt # n.asWritePvt
    <3> SUFFICES ASSUME n.busy PROVE /\ n.asWritePvt # None /\ n.asWritePvt # etrap
                                     /\ \A d \in Chans \ {tchan} : pPutNotify[d].asWritePvt # n.asWritePvt
      OBVIOUS
    <3>1. /\ n.msg \in 1 .. nextPut - 1 /\ n.asWritePvt = n.msg /\ asked[n.msg] = tchan
          /\ n.msg # eput /\ eput = etrap
      BY <1>0 DEF BlockInOrder, PutsDiffer, NotifyTypes
    <3>2. n.msg \in Puts
      BY <3>1, CaServerAssumption DEF Puts, TcpTypes
    <3> QED
      BY <3>1, <3>2 DEF BlocksInOrder, BlockInOrder
  <2>2. ~n.busy => n.asWritePvt = None
    BY <1>0 DEF BlockInOrder
  <2>3. trapped' = (IF n.busy THEN trapped \ {n.asWritePvt} ELSE trapped) /\ etrap' = etrap
    OBVIOUS
  <2>4. \A p : p \in trapped' <=> p # None /\ (p = etrap' \/ \E d \in Chans : pPutNotify'[d].asWritePvt = p)
    BY <1>0, <1>1, <2>1, <2>2, <2>3, TrapsByElement
  <2> QED
    BY <2>4 DEF TrapsAreEnded
<1>8. PutsSettled'
  <2>1. ASSUME NEW p \in Puts PROVE Settled(p)'
    <3>1. Held(p)' => Held(p)
      BY <1>0, <1>1 DEF Held
    <3>2. Held(p) => Held(p)' \/ asked[p] = tchan
      BY <1>0, <1>1 DEF Held, BlockInOrder
    <3> QED
      BY <3>1, <3>2 DEF PutsSettled, Settled, Dropped
  <2> QED
    BY <2>1 DEF PutsSettled
<1> QED
  BY <1>3, <1>4, <1>5, <1>6, <1>7, <1>8

LEMMA ClearGoesOn ==
    ASSUME PutsInv, TcpTypes, ClaimsInOrder,
           \/ FreeEvent \/ FlushLabor \/ ConfirmClear \/ asRemoveClient \/ Unlist
           \/ \E s \in Subs : ClearEvent(s)
    PROVE  PutsInv'
<1> USE Nones DEF PutsInv
<1>1. /\ UNCHANGED <<notifyVars, epc, eput, etrap>> /\ tput' = None /\ tput = None
      /\ tchan \in Chans /\ tchan \in claimed
      /\ tpc \in {"events", "event", "confirm", "leave", "unlist"}
  BY DEF FreeEvent, FlushLabor, ConfirmClear, asRemoveClient, Unlist, ClearEvent, Goes, Done,
         taskVars, TcpTypes, PutStages, ClaimsInOrder, SubStages
<1>2. \/ /\ tpc' \in {"events", "event", "confirm", "leave", "unlist"} /\ tchan' = tchan
         /\ (cleared' = cleared \/ (cleared' = cleared \cup {tchan} /\ tpc = "confirm"))
      \/ tpc' = "idle" /\ cleared' = cleared /\ tchan' = None /\ tchan \in cleared
  BY DEF FreeEvent, FlushLabor, ConfirmClear, asRemoveClient, Unlist, ClearEvent, Goes, Done,
         sentVars, ClaimsInOrder
<1>3. tpc' = "confirm" => epc # "reply"
  BY <1>1 DEF FreeEvent, FlushLabor, ConfirmClear, asRemoveClient, Unlist, ClearEvent, Goes, Done, Flushed, Laboring
<1>4. NotifyTypes' /\ TrapsAreEnded'
  BY <1>1 DEF NotifyTypes, TrapsAreEnded, notifyVars
<1>5. BlocksInOrder'
  BY <1>1, <1>2 DEF BlocksInOrder, BlockInOrder, Underway, notifyVars
<1>6. PutInHand' /\ PutsDiffer'
  BY <1>1, <1>2 DEF PutInHand, PutsDiffer, PutStages, notifyVars
<1>7. FreedIsGone'
  BY <1>1, <1>2, <1>3 DEF FreedIsGone, AfterFree, notifyVars
<1>8. PutsSettled'
  <2>1. ASSUME NEW p \in Puts PROVE (Held(p)' <=> Held(p)) /\ (Dropped(p) => Dropped(p)')
    BY <1>1, <1>2 DEF Held, Dropped, Clearing, notifyVars
  <2> QED
    BY <1>1, <2>1 DEF PutsSettled, Settled, notifyVars
<1> QED
  BY <1>4, <1>5, <1>6, <1>7, <1>8

LEMMA PutIsDone ==
    ASSUME PutsInv, TcpTypes, NEW c \in Chans, CompletePut(c) \/ write_notify_done_callback(c)
    PROVE  PutsInv'
<1> USE DEF PutsInv
<1>1. CASE CompletePut(c) \/ PostLabor(c)
  <2> USE <1>1 DEF CompletePut, PostLabor, tcpVars, taskVars, sentVars
  <2>1. NotifyTypes' /\ TrapsAreEnded'
    BY DEF NotifyTypes, TrapsAreEnded
  <2>2. BlocksInOrder'
    <3>1. ASSUME NEW d \in Chans PROVE BlockInOrder(d)'
      BY DEF BlocksInOrder, BlockInOrder, Underway, NotifyTypes
    <3> QED
      BY <3>1 DEF BlocksInOrder
  <2>3. PutInHand'
    <3>1. \A d \in Chans : dbpc'[d] \in {"processing", "done"} => dbpc[d] \in {"processing", "done"}
      BY DEF NotifyTypes
    <3> QED
      BY <3>1 DEF PutInHand, TcpTypes, PutStages
  <2>5. FreedIsGone' /\ PutsDiffer'
    BY DEF FreedIsGone, AfterFree, PutsDiffer
  <2>4. PutsSettled'
    BY DEF PutsSettled, Settled, Held, Dropped
  <2> QED
    BY <2>1, <2>2, <2>3, <2>4, <2>5
<1>2. CASE QueueNotify(c)
  <2>0. /\ dbpc[c] = "done" /\ pPutNotify[c].busy /\ ~pPutNotify[c].onExtraLaborQueue
        /\ ~In(c, putNotifyQue)
    BY <1>2 DEF QueueNotify, BlocksInOrder, BlockInOrder
  <2>1. /\ putNotifyQue' = Append(putNotifyQue, c)
        /\ pPutNotify' = [pPutNotify EXCEPT ![c] = [pPutNotify[c] EXCEPT !.onExtraLaborQueue = TRUE]]
        /\ dbpc' = [dbpc EXCEPT ![c] = "returning"]
        /\ UNCHANGED <<tcpVars, taskVars, sentVars, nextPut, asked, replies, trapped>>
    BY <1>2, <2>0 DEF QueueNotify, SetNotify
  <2> USE <2>1 DEF tcpVars, taskVars, sentVars
  <2>2. /\ pPutNotify' \in [Chans -> Notifies]
        /\ \A d \in Chans \ {c} : pPutNotify'[d] = pPutNotify[d]
        /\ \A d \in Chans : /\ pPutNotify'[d].busy = pPutNotify[d].busy
                            /\ pPutNotify'[d].msg = pPutNotify[d].msg
                            /\ pPutNotify'[d].asWritePvt = pPutNotify[d].asWritePvt
                            /\ pPutNotify'[d].there = pPutNotify[d].there
                            /\ pPutNotify'[d].onExtraLaborQueue
                                 = (d = c \/ pPutNotify[d].onExtraLaborQueue)
    BY DEF NotifyTypes, Notifies
  <2>3. /\ putNotifyQue' \in Seq(Chans) /\ Once(putNotifyQue)'
        /\ \A d \in Chans : In(d, putNotifyQue)' <=> d = c \/ In(d, putNotifyQue)
    BY <2>0, AppendQueues DEF NotifyTypes
  <2>4. NotifyTypes'
    BY <2>2, <2>3 DEF NotifyTypes
  <2>5. BlocksInOrder'
    <3>1. BlockInOrder(c)'
      BY <2>0, <2>2, <2>3 DEF BlocksInOrder, BlockInOrder, Underway, In, NotifyTypes
    <3>2. ASSUME NEW d \in Chans \ {c} PROVE BlockInOrder(d)'
      <4>1. BlockInOrder(d)
        BY DEF BlocksInOrder
      <4>2. /\ pPutNotify'[d] = pPutNotify[d] /\ dbpc'[d] = dbpc[d]
            /\ (In(d, putNotifyQue)' <=> In(d, putNotifyQue))
        BY <2>2, <2>3 DEF NotifyTypes
      <4>3. Underway(d)' <=> Underway(d)
        BY <4>2 DEF Underway, In
      <4> QED
        BY <4>1, <4>2, <4>3 DEF BlockInOrder
    <3> QED
      BY <3>1, <3>2 DEF BlocksInOrder
  <2>6. PutInHand'
    <3>1. tpc = "process" => tchan # c
      BY <2>0 DEF PutInHand
    <3> QED
      BY <3>1, <2>2 DEF PutInHand, NotifyTypes
  <2>7. FreedIsGone'
    <3>1. ~AfterFree(c)
      BY <2>0 DEF FreedIsGone, NoNotify
    <3> QED
      BY <3>1, <2>2 DEF FreedIsGone, AfterFree
  <2>8. PutsDiffer'
    BY <2>2 DEF PutsDiffer
  <2>9. TrapsAreEnded'
    BY <2>2 DEF TrapsAreEnded
  <2>10. PutsSettled'
    BY <2>2 DEF PutsSettled, Settled, Held, Dropped
  <2> QED
    BY <2>4, <2>5, <2>6, <2>7, <2>8, <2>9, <2>10
<1> QED
  BY <1>1, <1>2 DEF write_notify_done_callback

LEMMA PutIsTaken ==
    ASSUME PutsInv, TcpTypes, TakeNotify
    PROVE  PutsInv'
<1> USE Nones DEF PutsInv
<1> DEFINE h == Head(putNotifyQue)
           n == pPutNotify[h]
<1>1. /\ epc = "labor" /\ epc' = "reply" /\ putNotifyQue # <<>> /\ putNotifyQue' = Tail(putNotifyQue)
      /\ eput' = n.msg /\ etrap' = n.asWritePvt
      /\ pPutNotify' = [pPutNotify EXCEPT ![h] = [n EXCEPT !.busy = FALSE, !.asWritePvt = None,
                                                           !.onExtraLaborQueue = FALSE]]
      /\ UNCHANGED <<tpc, tchan, tput, dbpc, nextPut, asked, replies, trapped, cleared>>
  BY DEF TakeNotify, TaskGoes, SetNotify, tcpVars, sentVars
<1>2. /\ h \in Chans /\ In(h, putNotifyQue)
      /\ putNotifyQue' \in Seq(Chans) /\ Once(putNotifyQue)'
      /\ \A d \in Chans : In(d, putNotifyQue)' <=> d # h /\ In(d, putNotifyQue)
  BY <1>1, TailTakes DEF NotifyTypes
<1> PICK g \in Chans : g = h
  BY <1>2
<1>3. /\ pPutNotify[g].busy /\ pPutNotify[g].onExtraLaborQueue /\ dbpc[g] \notin {"processing", "done"}
      /\ pPutNotify[g].there /\ pPutNotify[g].asWritePvt = pPutNotify[g].msg
      /\ pPutNotify[g].msg \in 1 .. nextPut - 1 /\ asked[pPutNotify[g].msg] = g
      /\ pPutNotify[g].msg # tput
  <2>1. BlockInOrder(g)
    BY DEF BlocksInOrder
  <2>2. /\ pPutNotify[g].busy /\ pPutNotify[g].onExtraLaborQueue /\ dbpc[g] \notin {"processing", "done"}
        /\ pPutNotify[g].there /\ pPutNotify[g].asWritePvt = pPutNotify[g].msg
        /\ pPutNotify[g].msg \in 1 .. nextPut - 1 /\ asked[pPutNotify[g].msg] = g
    BY <1>2, <2>1 DEF BlockInOrder
  <2>3. pPutNotify[g].msg \in Puts
    BY <2>2, CaServerAssumption DEF Puts, TcpTypes
  <2>4. tpc = "process" => tchan # g
    BY <2>2 DEF PutInHand
  <2>5. CASE tpc = "process"
    BY <2>2, <2>4, <2>5 DEF PutInHand, PutStages
  <2>6. CASE tpc \in PutStages \ {"process"}
    BY <2>2, <2>6 DEF PutsDiffer
  <2>7. CASE tpc \notin PutStages
    <3>1. tput = None
      BY <2>7 DEF TcpTypes
    <3> QED
      BY <2>2, <2>3, <3>1
  <2> QED
    BY <2>2, <2>5, <2>6, <2>7
<1> PICK m \in Puts : m = pPutNotify[g].msg
  BY <1>3, CaServerAssumption DEF Puts, TcpTypes
<1>4. /\ pPutNotify' \in [Chans -> Notifies]
      /\ \A d \in Chans \ {g} : pPutNotify'[d] = pPutNotify[d]
      /\ ~pPutNotify'[g].busy /\ pPutNotify'[g].asWritePvt = None /\ ~pPutNotify'[g].onExtraLaborQueue
      /\ pPutNotify'[g].there
      /\ eput' = m /\ etrap' = m
  <2> DEFINE e == [pPutNotify[g] EXCEPT !.busy = FALSE, !.asWritePvt = None, !.onExtraLaborQueue = FALSE]
  <2>1. pPutNotify[g] \in Notifies
    BY DEF NotifyTypes
  <2>2. /\ e \in Notifies /\ ~e.busy /\ e.asWritePvt = None /\ ~e.onExtraLaborQueue
        /\ e.there = pPutNotify[g].there
    BY <2>1 DEF Notifies
  <2>3. pPutNotify' = [pPutNotify EXCEPT ![g] = e]
    BY <1>1
  <2> HIDE DEF e
  <2> QED
    BY <1>1, <1>3, <2>2, <2>3 DEF NotifyTypes
<1> HIDE DEF h, n
<1>5. NotifyTypes'
  BY <1>1, <1>2, <1>3, <1>4 DEF NotifyTypes
<1>6. BlocksInOrder'
  <2>1. ASSUME NEW d \in Chans, d = g PROVE BlockInOrder(d)'
    BY <1>1, <1>2, <1>3, <1>4, <2>1 DEF h, BlockInOrder
  <2>2. ASSUME NEW d \in Chans \ {g} PROVE BlockInOrder(d)'
    <3>1. BlockInOrder(d)
      BY DEF BlocksInOrder
    <3>2. pPutNotify'[d] = pPutNotify[d] /\ (In(d, putNotifyQue)' <=> In(d, putNotifyQue))
      BY <1>2, <1>4
    <3>3. Underway(d)' <=> Underway(d)
      BY <1>1, <3>2 DEF Underway, In
    <3> QED
      BY <1>1, <3>1, <3>2, <3>3 DEF BlockInOrder
  <2> QED
    BY <2>1, <2>2 DEF BlocksInOrder
<1>7. PutInHand'
  BY <1>1, <1>3, <1>4 DEF PutInHand, TcpTypes, PutStages
<1>8. FreedIsGone'
  <2>1. ~AfterFree(g)
    BY <1>3 DEF FreedIsGone, NoNotify
  <2> QED
    BY <1>1, <1>3, <1>4, <2>1 DEF FreedIsGone, AfterFree
<1>9. PutsDiffer'
  <2>1. \A d \in Chans \ {g} : pPutNotify[d].busy => pPutNotify[d].msg # m
    BY <1>3 DEF BlocksInOrder, BlockInOrder
  <2> QED
    BY <1>1, <1>3, <1>4, <2>1 DEF PutsDiffer
<1>10. TrapsAreEnded'
  <2>1. etrap = None
    BY <1>1 DEF NotifyTypes
  <2>2. \A p : p \in trapped' <=> p # None /\ (p = etrap' \/ \E d \in Chans : pPutNotify'[d].asWritePvt = p)
    BY <1>1, <1>3, <1>4, <2>1, TrapsByElement
  <2> QED
    BY <2>2 DEF TrapsAreEnded
<1>11. PutsSettled'
  <2>1. eput = None
    BY <1>1 DEF NotifyTypes
  <2>2. ASSUME NEW p \in Puts PROVE Held(p)' <=> Held(p)
    BY <1>1, <1>3, <1>4, <2>1 DEF Held
  <2> QED
    BY <1>1, <2>2 DEF PutsSettled, Settled, Dropped
<1> QED
  BY <1>5, <1>6, <1>7, <1>8, <1>9, <1>10, <1>11

LEMMA PutIsAnswered ==
    ASSUME PutsInv, TcpTypes, ReplyNotify
    PROVE  PutsInv'
<1> USE Nones DEF PutsInv, ReplyNotify, TaskGoes, Answer, tcpVars, sentVars
<1>0. eput \in 1 .. nextPut - 1 /\ eput \in Puts /\ etrap = eput /\ eput < nextPut
  BY CaServerAssumption DEF NotifyTypes, Puts, TcpTypes
<1> PICK m \in Puts : m = eput
  BY <1>0
<1>1. NotifyTypes'
  BY DEF NotifyTypes
<1>2. BlocksInOrder'
  BY DEF BlocksInOrder, BlockInOrder, Underway
<1>3. PutInHand' /\ FreedIsGone'
  BY DEF PutInHand, FreedIsGone, AfterFree
<1>4. PutsDiffer'
  <2>1. \A d \in Chans : pPutNotify[d].busy => pPutNotify[d].msg # None
    BY CaServerAssumption DEF BlocksInOrder, BlockInOrder, Puts, TcpTypes
  <2> QED
    BY <2>1 DEF PutsDiffer
<1>5. TrapsAreEnded'
  <2>1. \A d \in Chans : pPutNotify[d].asWritePvt # m
    BY <1>0 DEF BlocksInOrder, BlockInOrder, PutsDiffer
  <2>2. trapped' = trapped \ {m} /\ etrap' = None /\ etrap = m
    BY <1>0
  <2>3. \A p : p \in trapped' <=> p # None /\ (p = etrap' \/ \E d \in Chans : pPutNotify'[d].asWritePvt = p)
    BY <2>1, <2>2, TrapsByElement
  <2> QED
    BY <2>3 DEF TrapsAreEnded
<1>6. PutsSettled'
  <2>1. Settled(m)'
    <3>1. replies[m] = 0
      BY <1>0 DEF PutsSettled, Settled, Held
    <3>2. ~Held(m)'
      BY <1>0 DEF Held, PutsDiffer
    <3>3. replies'[m] = 1
      BY <3>1 DEF NotifyTypes
    <3> QED
      BY <1>0, <3>2, <3>3 DEF Settled
  <2>2. ASSUME NEW p \in Puts \ {m} PROVE Settled(p)'
    <3>1. replies'[p] = replies[p]
      BY <2>2 DEF NotifyTypes
    <3>2. Held(p)' <=> Held(p)
      BY <2>2 DEF Held
    <3>3. Dropped(p)' <=> Dropped(p)
      BY DEF Dropped
    <3> QED
      BY <3>1, <3>2, <3>3 DEF PutsSettled, Settled
  <2> QED
    BY <2>1, <2>2 DEF PutsSettled
<1> QED
  BY <1>1, <1>2, <1>3, <1>4, <1>5, <1>6

LEMMA PutsStep ==
    ServerTypes /\ ClaimsInOrder /\ PutsInv /\ [ServerNext]_serverVars => PutsInv'
<1> SUFFICES ASSUME TcpTypes, ClaimsInOrder, PutsInv, [ServerNext]_serverVars PROVE PutsInv'
  BY DEF ServerTypes
\* What has nothing to do with puts.
<1>1. CASE /\ UNCHANGED <<notifyVars, epc, eput, etrap, cleared>> /\ tput' = None
           /\ tpc \notin PutStages \cup Clearing \cup {"closed"} /\ tpc' \notin PutStages \cup Clearing
  BY <1>1, ElsewherePuts
<1>2. CASE /\ UNCHANGED <<notifyVars, eput, etrap, cleared, tpc, tchan, tput>>
           /\ (epc = "reply" <=> epc' = "reply")
  BY <1>2, SamePuts
<1>3. CASE ClientRequests /\ ~\E c \in Chans : RefusePut(c) \/ TakePut(c) \/ BeginClear(c)
  <2>1. UNCHANGED <<notifyVars, epc, eput, etrap, cleared>>
    BY <1>3 DEF ClientRequests, SetName, casCreateChannel, AddEvent, RemoveEvent, SetFlowCtrl, Disconnect,
                taskVars, sentVars
  <2>2. tpc = "idle" /\ tput = None
    BY <1>3 DEF ClientRequests, SetName, casCreateChannel, AddEvent, RemoveEvent, SetFlowCtrl, Disconnect,
                Begins, Fails, InUse, Idle, TcpTypes, PutStages
  <2>3. tput' = None /\ tpc' \in {"idle", "closed", "secure", "db_add", "db_cancel"}
    BY <1>3, <2>2 DEF ClientRequests, SetName, casCreateChannel, AddEvent, RemoveEvent, SetFlowCtrl, Disconnect,
                Begins, Fails, tcpVars
  <2> QED
    BY <1>1, <2>1, <2>2, <2>3 DEF PutStages, Clearing
<1>4. CASE ClientRequests
  BY <1>3, <1>4, PutRequests
<1>5. CASE \/ asAddClient \/ claim_ciu_reply \/ asRegisterClientCallback \/ Registered
           \/ AddDbEvent \/ AddDbEventFails \/ LookAccess \/ EnableEvent \/ CancelDbEvent \/ ConfirmCancel
  <2>1. UNCHANGED <<notifyVars, epc, eput, etrap, cleared>>
    BY <1>5 DEF asAddClient, claim_ciu_reply, asRegisterClientCallback, Registered, AddDbEvent,
                AddDbEventFails, LookAccess, EnableEvent, CancelDbEvent, ConfirmCancel, taskVars, sentVars
  <2>2. tpc \in ClaimStages \cup {"db_add", "access", "enable", "db_cancel", "cancelled"}
    BY <1>5 DEF asAddClient, claim_ciu_reply, asRegisterClientCallback, Registered, AddDbEvent,
                AddDbEventFails, LookAccess, EnableEvent, CancelDbEvent, ConfirmCancel, Goes, Done, Fails,
                ClaimStages
  <2>3. tput = None
    BY <2>2 DEF TcpTypes, PutStages, ClaimStages
  <2>4. tput' = None
        /\ tpc' \in {"idle", "closed", "access", "enable", "cancelled"} \cup ClaimStages
    BY <1>5, <2>3 DEF asAddClient, claim_ciu_reply, asRegisterClientCallback, Registered, AddDbEvent,
                AddDbEventFails, LookAccess, EnableEvent, CancelDbEvent, ConfirmCancel, Goes, Done, Fails,
                ClaimStages
  <2> QED
    BY <1>1, <2>1, <2>2, <2>4 DEF PutStages, Clearing, ClaimStages
<1>6. CASE TcpThread
  BY <1>5, <1>6, PutWaits, PutIsCancelled, PutExpires, PutStarts, PutDoesNotStart, PutIsProcessed,
     PutIsFreed, ClearGoesOn
  DEF TcpThread
<1>7. CASE EventTask /\ ~TakeNotify /\ ~ReplyNotify
  BY <1>2, <1>7 DEF EventTask, rsrv_extra_labor, TakeLabor, SignalBlocked, sendAllUpdateAS, read_reply, SendUpdate,
              ReadAccess, TaskGoes, notifyVars, tcpVars, sentVars
<1>8. CASE EventTask
  BY <1>7, <1>8, PutIsTaken, PutIsAnswered
<1>9. CASE casAccessRightsCB
  BY <1>2, <1>9 DEF casAccessRightsCB, MarkPendingAR, UpdateEvents, SignalTask, tcpVars, taskVars, sentVars
<1>10. CASE Database
  BY <1>10, PutIsDone DEF Database
<1>11. ASSUME NEW c \in Chans, NEW r, Change(c) \/ ChangeRights(c, r) PROVE PutsInv'
  BY <1>2, <1>11 DEF Change, ChangeRights, tcpVars, taskVars, sentVars
<1>12. CASE UNCHANGED serverVars
  BY <1>2, <1>12 DEF serverVars, tcpVars, taskVars, sentVars
<1> QED
  BY <1>4, <1>6, <1>8, <1>9, <1>10, <1>11, <1>12 DEF ServerNext

LEMMA PutsInitially == ServerInit => PutsInv
<1> SUFFICES ASSUME ServerInit PROVE PutsInv
  OBVIOUS
<1> USE CaServerAssumption DEF ServerInit
<1>1. NotifyTypes
  BY DEF NotifyTypes, Notifies, NoNotify, Once
<1>2. BlocksInOrder
  BY DEF BlocksInOrder, BlockInOrder, NoNotify, In
<1>3. PutInHand /\ FreedIsGone /\ PutsDiffer
  BY DEF PutInHand, FreedIsGone, AfterFree, PutsDiffer, NoNotify, PutStages
<1>4. PutsSettled
  BY DEF PutsSettled, Settled, Puts
<1>5. TrapsAreEnded
  BY DEF TrapsAreEnded, NoNotify
<1> QED
  BY <1>1, <1>2, <1>3, <1>4, <1>5 DEF PutsInv

LEMMA PutsAccounted == TcpTypes /\ PutsInv => PutsAreAccountedFor
<1> SUFFICES ASSUME TcpTypes, PutsInv PROVE PutsAreAccountedFor
  OBVIOUS
<1> USE Nones, CaServerAssumption DEF PutsInv
<1>1. EachPutHasAHolder
  <2>1. ASSUME NEW p \in 1 .. nextPut - 1
        PROVE  LET holders == {c \in Chans : pPutNotify[c].busy /\ pPutNotify[c].msg = p}
                   held    == holders # {} \/ eput = p \/ (tput = p /\ tpc # "process")
               IN  /\ replies[p] \in {0, 1}
                   /\ replies[p] = 1 => ~held
                   /\ replies[p] = 0 => \/ held
                                        \/ asked[p] \in cleared
                                        \/ (asked[p] = tchan /\ tpc \in Clearing)
                   /\ \A c \in holders : c = asked[p] /\ Underway(c)
    <3>1. p \in Puts /\ p < nextPut
      BY DEF TcpTypes, Puts
    <3>2. Settled(p)
      BY <3>1 DEF PutsSettled
    <3>3. tput = p /\ tpc = "process" => \E c \in Chans : pPutNotify[c].busy /\ pPutNotify[c].msg = p
      BY DEF PutInHand, TcpTypes
    <3>4. \A c \in Chans : pPutNotify[c].busy /\ pPutNotify[c].msg = p => c = asked[p] /\ Underway(c)
      BY DEF BlocksInOrder, BlockInOrder
    <3> QED
      BY <3>1, <3>2, <3>3, <3>4 DEF Settled, Held, Dropped
  <2> QED
    BY <2>1 DEF EachPutHasAHolder
<1>2. NoDoubleCallBack
  BY DEF NoDoubleCallBack, BlocksInOrder, BlockInOrder
<1> QED
  BY <1>1, <1>2 DEF PutsAreAccountedFor

LEMMA FreedAndGone == ServerTypes /\ ClaimsInOrder /\ PutsInv => ClearedIsFree
<1> SUFFICES ASSUME TcpTypes, TaskTypes, ChannelTypes, SubTypes, SubsPlaced, ClaimsInOrder, PutsInv
             PROVE  ClearedIsFree
  BY DEF ServerTypes
<1> USE Nones DEF PutsInv
<1>1. eput # None => asked[eput] \notin cleared
  BY DEF FreedIsGone, NotifyTypes
<1>2. ASSUME NEW c \in cleared
      PROVE  /\ dbpc[c] \notin {"processing", "done"} /\ ~pPutNotify[c].there
             /\ \A k \in 1 .. Len(putNotifyQue) : putNotifyQue[k] # c
  <2>1. c \in Chans /\ ~pPutNotify[c].there /\ ~pPutNotify[c].busy
    BY DEF ChannelTypes, FreedIsGone, AfterFree, NoNotify
  <2> QED
    BY <2>1 DEF BlocksInOrder, BlockInOrder, In
<1>3. \A c \in Chans : state[c] = "shutdown" =>
        aschan # c /\ c \notin chanList \cup chanPendingUpdateARList
  BY DEF ClaimsInOrder, TaskTypes
<1>4. \A s \in cancelled : esub # s /\ s \notin posted \cup enabled
  BY DEF SubsPlaced, SubTypes
<1> QED
  BY <1>1, <1>2, <1>3, <1>4 DEF ClearedIsFree

\* The invariants of the server hold together.
LEMMA ServerInvariants == ServerSpec => [](ServerTypes /\ ClaimsInOrder /\ PutsInv)
<1> DEFINE Inv == ClaimsInOrder /\ PutsInv
<1>1. ServerInit => Inv
  BY PutsInitially DEF ServerInit, ClaimsInOrder, ClaimStages, PutStages, SubStages
<1>2. ServerTypes /\ Inv /\ [ServerNext]_serverVars => Inv'
  BY ClaimsStep, PutsStep
<1> HIDE DEF Inv
<1>3. ServerSpec => []Inv
  BY <1>1, <1>2, ServerStaysTyped, PTL DEF ServerSpec
<1> QED
  BY <1>3, ServerStaysTyped, PTL DEF Inv

\* Every put callback is answered at most once and has exactly one holder until
\* then, and every write trap that was begun is ended: for all channels and
\* puts, whatever order time-out, completion, reply and clear come in.
THEOREM EveryPutIsAccountedFor == ServerSpec => []PutsAreAccountedFor
<1>1. ServerTypes /\ ClaimsInOrder /\ PutsInv => PutsAreAccountedFor
  BY PutsAccounted DEF ServerTypes
<1> QED
  BY <1>1, ServerInvariants, PTL

\* Nothing of a channel or subscription that clear_channel_reply has freed is
\* reached afterwards, by the database, the event task or access security.
THEOREM WhatIsClearedStaysFree == ServerSpec => []ClearedIsFree
BY FreedAndGone, ServerInvariants, PTL

-----------------------------------------------------------------------------
(* Wake-ups, lists and names.                                              *)

LEMMA LaborStep ==
    ServerTypes /\ PutsInv /\ LaborIsPosted /\ [ServerNext]_serverVars => LaborIsPosted'
<1> SUFFICES ASSUME TcpTypes, TaskTypes, ChannelTypes, PutsInv, LaborIsPosted, [ServerNext]_serverVars
             PROVE  LaborIsPosted'
  BY DEF ServerTypes
<1> USE DEF LaborIsPosted, Laboring
<1>1. CASE UNCHANGED <<putNotifyQue, extraLabor, epc, dbpc, chanPendingUpdateARList, sigReq>>
  BY <1>1
<1>2. CASE ClientRequests
  <2>1. UNCHANGED <<putNotifyQue, extraLabor, epc, dbpc, chanPendingUpdateARList, sigReq>>
    BY <1>2 DEF ClientRequests, SetName, casCreateChannel, RefusePut, TakePut, BeginClear, AddEvent,
                RemoveEvent, SetFlowCtrl, Disconnect, listVars, taskVars, asVars, notifyVars, wakeVars
  <2> QED
    BY <1>1, <2>1
\* The TCP thread only takes off the queue and off the list.
<1>3. CASE TcpThread
  <2>1. \A c \in Chans : dbpc[c] = "returning" => dbpc'[c] = "returning"
    BY <1>3
    DEF TcpThread, asAddClient, claim_ciu_reply, asRegisterClientCallback, Registered, LookBusy, Woken,
        TimesOut, CancelNotify, FreeCancels, Cancelled, ProcessNotify, Goes, Done, TcpTypes, PutsInv,
        NotifyTypes, Expire, StartPut, StartPutFails, AddDbEvent, AddDbEventFails, LookAccess, EnableEvent,
        CancelDbEvent, ConfirmCancel, FreePutNotify, ClearEvent, FreeEvent, FlushLabor, ConfirmClear,
        asRemoveClient, Unlist, notifyVars
  <2>2. /\ UNCHANGED <<extraLabor, epc, sigReq>>
        /\ chanPendingUpdateARList' \subseteq chanPendingUpdateARList
    BY <1>3
    DEF TcpThread, asAddClient, claim_ciu_reply, asRegisterClientCallback, Registered, LookBusy, Woken,
        TimesOut, CancelNotify, FreeCancels, ProcessNotify,
        Expire, StartPut, StartPutFails, AddDbEvent, AddDbEventFails, LookAccess, EnableEvent,
        CancelDbEvent, ConfirmCancel, FreePutNotify, ClearEvent, FreeEvent, FlushLabor, ConfirmClear,
        asRemoveClient, Unlist, taskVars, asVars, listVars, wakeVars
  <2>3. putNotifyQue = <<>> => putNotifyQue' = <<>>
    <3> SUFFICES ASSUME putNotifyQue = <<>> PROVE putNotifyQue' = <<>>
      OBVIOUS
    <3>1. \A c \in Chans : ~In(c, putNotifyQue)
      BY DEF In
    <3>2. CASE Expire
      <4>1. tchan \in Chans
        BY <3>2 DEF Expire, Goes, TcpTypes
      <4>2. ~(pPutNotify[tchan].busy /\ pPutNotify[tchan].onExtraLaborQueue)
        BY <3>1, <4>1 DEF PutsInv, BlocksInOrder, BlockInOrder
      <4> QED
        BY <3>2, <4>2 DEF Expire, StillBusy
    <3>3. CASE FreePutNotify
      <4>1. tchan \in Chans /\ tpc = "free"
        BY <3>3 DEF FreePutNotify, Goes, TcpTypes
      <4>2. ~pPutNotify[tchan].onExtraLaborQueue
        BY <3>1, <4>1 DEF PutsInv, BlocksInOrder, BlockInOrder
      <4> QED
        BY <3>3, <4>2 DEF FreePutNotify, Unqueued
    <3>4. CASE ~Expire /\ ~FreePutNotify
      BY <1>3, <3>4
      DEF TcpThread, asAddClient, claim_ciu_reply, asRegisterClientCallback, Registered, LookBusy, Woken,
        TimesOut, CancelNotify, FreeCancels, ProcessNotify,
        StartPut, StartPutFails, AddDbEvent, AddDbEventFails, LookAccess, EnableEvent,
        CancelDbEvent, ConfirmCancel, ClearEvent, FreeEvent, FlushLabor, ConfirmClear,
        asRemoveClient, Unlist, notifyVars
    <3> QED
      BY <3>2, <3>3, <3>4
  <2> QED
    BY <2>1, <2>2, <2>3
\* The event task.
<1>4. CASE rsrv_extra_labor
  BY <1>4 DEF rsrv_extra_labor, TakeLabor, TakeNotify, ReplyNotify, SignalBlocked, sendAllUpdateAS, TaskGoes,
              asVars, listVars, notifyVars, wakeVars
<1>5. CASE read_reply
  BY <1>5 DEF read_reply, SendUpdate, ReadAccess, TaskGoes, asVars, listVars, notifyVars, wakeVars
<1>6. CASE casAccessRightsCB
  BY <1>6 DEF casAccessRightsCB, MarkPendingAR, UpdateEvents, SignalTask, Signalled, listVars, taskVars, notifyVars,
              wakeVars
\* The database.
<1>7. ASSUME NEW c \in Chans, CompletePut(c) \/ PostLabor(c) PROVE LaborIsPosted'
  BY <1>7 DEF CompletePut, PostLabor, PutsInv, NotifyTypes, taskVars, asVars, listVars, wakeVars
<1>8. ASSUME NEW c \in Chans, QueueNotify(c) PROVE LaborIsPosted'
  <2>1. pPutNotify[c].busy /\ ~pPutNotify[c].onExtraLaborQueue
    BY <1>8 DEF QueueNotify, PutsInv, BlocksInOrder, BlockInOrder
  <2>2. dbpc'[c] = "returning"
    BY <1>8, <2>1 DEF QueueNotify, PutsInv, NotifyTypes
  <2> QED
    BY <1>8, <2>2 DEF QueueNotify, taskVars, asVars, listVars, wakeVars
<1>9. ASSUME NEW c \in Chans, NEW r, Change(c) \/ ChangeRights(c, r) PROVE LaborIsPosted'
  BY <1>1, <1>9 DEF Change, ChangeRights, listVars, taskVars, asVars, notifyVars, wakeVars
<1>10. CASE UNCHANGED serverVars
  BY <1>1, <1>10 DEF serverVars, listVars, taskVars, asVars, notifyVars, wakeVars
<1> HIDE DEF LaborIsPosted
<1> QED
  BY <1>2, <1>3, <1>4, <1>5, <1>6, <1>7, <1>8, <1>9, <1>10
  DEF ServerNext, EventTask, Database, write_notify_done_callback

\* No wake-up of the event task is lost: whatever waits for it, a put callback or
\* access rights, the flag of db_post_extra_labor is up or will be, or the task
\* is not yet past it.
THEOREM NoWakeUpIsLost == ServerSpec => []LaborIsPosted
<1>1. ServerInit => LaborIsPosted
  BY DEF ServerInit, LaborIsPosted
<1>2. ServerTypes /\ ClaimsInOrder /\ PutsInv /\ LaborIsPosted /\ [ServerNext]_serverVars => LaborIsPosted'
  BY LaborStep
<1> QED
  BY <1>1, <1>2, ServerInvariants, PTL DEF ServerSpec

\* A claim in progress is of a new channel, and only access security calls back.
ClaimsAreNew ==
    /\ \A c \in Chans : state[c] = "none" => ~hasCallback[c]
    /\ tpc \in {"secure", "serve", "register"} =>
         state[tchan] = "pendConnectResp" /\ ~hasCallback[tchan]

NamesInv ==
    /\ registeredAs = [c \in Chans |-> registeredAs[c]]
    /\ \A c \in chanList \cup chanPendingUpdateARList :
         (tchan = c /\ tpc \in {"secure", "unlist"}) \/ registeredAs[c] = names

ListsInv == ListsMatchStates /\ ClaimsAreNew /\ NamesInv

LEMMA ListsStep ==
    ServerTypes /\ ClaimsInOrder /\ ListsInv /\ [ServerNext]_serverVars => ListsInv'
<1> SUFFICES ASSUME TcpTypes, TaskTypes, ChannelTypes, SubsPlaced, ClaimsInOrder, ListsInv,
                    [ServerNext]_serverVars
             PROVE  ListsInv'
  BY DEF ServerTypes
<1> USE Nones DEF ListsInv
<1>0. /\ DOMAIN WithPendingAR = {"pendConnectResp", "inService"}
      /\ WithPendingAR["pendConnectResp"] = "pendConnectRespUpdatePendAR"
      /\ WithPendingAR["inService"] = "inServiceUpdatePendAR"
  BY DEF WithPendingAR
<1>a. ListsMatchStates <=>
        /\ chanList = {c \in Chans : state[c] \in {"pendConnectResp", "inService"}}
        /\ chanPendingUpdateARList =
             {c \in Chans : state[c] \in {"pendConnectRespUpdatePendAR", "inServiceUpdatePendAR"}}
  BY <1>0 DEF ListsMatchStates
<1>b. ListsMatchStates' <=>
        /\ chanList' = {c \in Chans : state'[c] \in {"pendConnectResp", "inService"}}
        /\ chanPendingUpdateARList' =
             {c \in Chans : state'[c] \in {"pendConnectRespUpdatePendAR", "inServiceUpdatePendAR"}}
  BY <1>0 DEF ListsMatchStates, WithPendingAR
\* Nothing changes of this, and no claim and no end of a clear is in progress.
<1>1. CASE /\ UNCHANGED <<listVars, hasCallback, registeredAs, names>>
           /\ \/ UNCHANGED <<tpc, tchan>>
              \/ tpc \notin {"secure", "unlist"} /\ tpc' \notin {"secure", "serve", "register"}
  BY <1>1, <1>a, <1>b DEF listVars, ClaimsAreNew, NamesInv
\* Requests.
<1>2. ASSUME NEW kind, NEW n, SetName(kind, n) PROVE ListsInv'
  BY <1>2, <1>a, <1>b DEF SetName, HasChannels, ClaimsAreNew, NamesInv, tcpVars, listVars
<1>3. ASSUME NEW c \in Chans, casCreateChannel(c) PROVE ListsInv'
  <2>1. state' = [state EXCEPT ![c] = "pendConnectResp"] /\ state[c] = "none"
    BY <1>3 DEF casCreateChannel
  <2>2. ListsMatchStates'
    BY <1>3, <2>1, <1>a, <1>b DEF casCreateChannel, ChannelTypes
  <2>3. ClaimsAreNew'
    BY <1>3, <2>1 DEF casCreateChannel, ClaimsAreNew, ChannelTypes, Begins, secVars
  <2>4. NamesInv'
    BY <1>3 DEF casCreateChannel, NamesInv, Begins, Idle, secVars
  <2> QED
    BY <2>2, <2>3, <2>4
<1>4. CASE ClientRequests /\ ~(\E kind, n : SetName(kind, n)) /\ ~\E c \in Chans : casCreateChannel(c)
  BY <1>1, <1>4 DEF ClientRequests, RefusePut, TakePut, BeginClear, AddEvent, RemoveEvent, SetFlowCtrl,
       Disconnect, Begins, Fails, InUse, Idle, tcpVars, secVars
\* The TCP thread goes on.
<1>5. CASE asAddClient
  BY <1>5, <1>a, <1>b DEF asAddClient, Goes, ClaimsAreNew, NamesInv, TcpTypes, ChannelTypes, listVars
<1>6. CASE claim_ciu_reply
  <2>1. tchan \in Chans /\ state[tchan] = "pendConnectResp" /\ state' = [state EXCEPT ![tchan] = "inService"]
    BY <1>6 DEF claim_ciu_reply, Done, TcpTypes, ClaimsAreNew
  <2>2. ListsMatchStates'
    BY <1>6, <2>1, <1>a, <1>b DEF claim_ciu_reply, ChannelTypes
  <2> QED
    BY <1>6, <2>1, <2>2 DEF claim_ciu_reply, Done, ClaimsAreNew, NamesInv, ChannelTypes, secVars
<1>7. CASE asRegisterClientCallback
  BY <1>7, <1>a, <1>b DEF asRegisterClientCallback, Goes, ClaimsAreNew, NamesInv, TcpTypes, ChannelTypes, listVars
<1>8. CASE asRemoveClient
  BY <1>8, <1>a, <1>b DEF asRemoveClient, Goes, ClaimsAreNew, NamesInv, TcpTypes, ChannelTypes, listVars
<1>9. CASE Unlist
  <2>1. tchan \in Chans /\ state' = [state EXCEPT ![tchan] = "shutdown"]
    BY <1>9 DEF Unlist, Done, TcpTypes
  <2>2. ListsMatchStates'
    BY <1>9, <2>1, <1>a, <1>b DEF Unlist, ChannelTypes
  <2> QED
    BY <1>9, <2>1, <2>2 DEF Unlist, Done, ClaimsAreNew, NamesInv, ChannelTypes, secVars
<1>10. CASE TcpThread /\ ~(asAddClient \/ claim_ciu_reply \/ asRegisterClientCallback \/ asRemoveClient
                            \/ Unlist)
  <2>1. UNCHANGED <<listVars, hasCallback, registeredAs, names>>
    BY <1>10
    DEF TcpThread, Registered, LookBusy, Woken, TimesOut, CancelNotify, Expire, StartPut, StartPutFails,
        ProcessNotify, AddDbEvent, AddDbEventFails, LookAccess, EnableEvent, CancelDbEvent, ConfirmCancel,
        FreeCancels, FreePutNotify, ClearEvent, FreeEvent, FlushLabor, ConfirmClear, secVars
  <2>2. tpc \notin {"secure", "unlist"} /\ tpc' \notin {"secure", "serve", "register"}
    BY <1>10
    DEF TcpThread, Registered, LookBusy, Woken, TimesOut, CancelNotify, Expire, StartPut, StartPutFails,
        ProcessNotify, AddDbEvent, AddDbEventFails, LookAccess, EnableEvent, CancelDbEvent, ConfirmCancel,
        FreeCancels, FreePutNotify, ClearEvent, FreeEvent, FlushLabor, ConfirmClear, Goes, Done, Fails
  <2> QED
    BY <1>1, <2>1, <2>2
\* The other threads.
<1>11. CASE sendAllUpdateAS
  <2>1. /\ \A c \in Chans : state'[c] = IF c \in chanPendingUpdateARList THEN "inService" ELSE state[c]
        /\ chanList' = chanList \cup chanPendingUpdateARList /\ chanPendingUpdateARList' = {}
        /\ UNCHANGED <<tpc, tchan, hasCallback, registeredAs, names>>
    BY <1>11 DEF sendAllUpdateAS, tcpVars, secVars
  <2>2. ListsMatchStates'
    BY <2>1, <1>a, <1>b
  <2>3. ClaimsAreNew'
    BY <2>1, <1>a DEF ClaimsAreNew, TcpTypes
  <2> QED
    BY <2>1, <2>2, <2>3 DEF NamesInv
<1>12. CASE EventTask /\ ~sendAllUpdateAS
  BY <1>1, <1>12 DEF EventTask, rsrv_extra_labor, TakeLabor, TakeNotify, ReplyNotify, SignalBlocked, read_reply,
       SendUpdate, ReadAccess, tcpVars, secVars
<1>13. CASE MarkPendingAR
  <2>0. aschan \in Chans /\ hasCallback[aschan] /\ UNCHANGED <<tpc, tchan, hasCallback, registeredAs, names>>
    BY <1>13 DEF MarkPendingAR, TaskTypes, ClaimsInOrder, tcpVars, secVars
  <2>1. CASE state[aschan] \in {"pendConnectResp", "inService"}
    <3>1. /\ state' = [state EXCEPT ![aschan] = WithPendingAR[state[aschan]]]
          /\ chanList' = chanList \ {aschan}
          /\ chanPendingUpdateARList' = chanPendingUpdateARList \cup {aschan}
      BY <1>0, <1>13, <2>1 DEF MarkPendingAR
    <3>2. ListsMatchStates'
      BY <1>0, <1>a, <1>b, <2>0, <2>1, <3>1 DEF ChannelTypes
    <3>3. ClaimsAreNew'
      BY <1>0, <2>0, <2>1, <3>1 DEF ClaimsAreNew, ChannelTypes, TcpTypes
    <3>4. NamesInv'
      BY <1>a, <2>0, <2>1, <3>1 DEF NamesInv
    <3> QED
      BY <3>2, <3>3, <3>4
  <2>2. CASE state[aschan] \notin {"pendConnectResp", "inService"}
    BY <1>0, <1>1, <1>13, <2>0, <2>2 DEF MarkPendingAR
  <2> QED
    BY <2>1, <2>2
<1>14. CASE UpdateEvents \/ SignalTask \/ Database
  BY <1>1, <1>14 DEF UpdateEvents, SignalTask, Database, CompletePut, write_notify_done_callback, QueueNotify,
       PostLabor, tcpVars, secVars
<1>15. ASSUME NEW c \in Chans, NEW r, Change(c) \/ ChangeRights(c, r) PROVE ListsInv'
  BY <1>1, <1>15 DEF Change, ChangeRights, tcpVars, secVars
<1>16. CASE UNCHANGED serverVars
  BY <1>1, <1>16 DEF serverVars, tcpVars, secVars
<1> HIDE DEF ListsInv
<1>17. CASE ClientRequests
  BY <1>2, <1>3, <1>4, <1>17
<1> QED
  BY <1>5, <1>6, <1>7, <1>8, <1>9, <1>10, <1>11, <1>12, <1>13, <1>14, <1>15, <1>16, <1>17
  DEF ServerNext, casAccessRightsCB

\* Each channel is on the list its state says, and was added to access security
\* with the names the client has: they are frozen while it has channels.
THEOREM ListsAndNamesAgree == ServerSpec => [](ListsMatchStates /\ NamesAreRegistered)
<1>1. ServerInit => ListsInv
  BY DEF ServerInit, ListsInv, ListsMatchStates, ClaimsAreNew, NamesInv, WithPendingAR
<1>2. ServerTypes /\ ClaimsInOrder /\ PutsInv /\ ListsInv /\ [ServerNext]_serverVars => ListsInv'
  BY ListsStep
<1>3. ListsInv => ListsMatchStates /\ NamesAreRegistered
  BY DEF ListsInv, NamesInv, NamesAreRegistered
<1> QED
  BY <1>1, <1>2, <1>3, ServerInvariants, PTL DEF ServerSpec

=============================================================================
