---------------------------- MODULE DiodeProofs -----------------------------
(***************************************************************************)
(* Proofs about Diode, for any number of PVs, threads and connections.     *)
(* The invariant orders the values of a PV along their way: what is in a   *)
(* slice is not older than what is in flight, a connection brings them in  *)
(* order, and, unless it was overtaken, memory and target are not newer    *)
(* than what is to come.                                                   *)
(***************************************************************************)
EXTENDS Diode, SequenceTheorems, TLAPS

Message == [pv : PVs, value : 1 .. MaxChanges]

\* A PV is in one slice, alone.
SlicesAreApart ==
    /\ \A t \in Threads : Len(slice[t]) <= 1
    /\ \A t, u \in Threads : \A k \in DOMAIN slice[t], l \in DOMAIN slice[u] :
           slice[t][k].pv = slice[u][l].pv => t = u

\* Every value was one of the source.
ValuesOfTheSource ==
    /\ \A t \in Threads : \A k \in DOMAIN slice[t] :
           slice[t][k].value <= source[slice[t][k].pv]
    /\ \A c \in Connections : \A k \in DOMAIN inFlight[c] :
           inFlight[c][k].value <= source[inFlight[c][k].pv]
    /\ \A p \in PVs : memory[p] <= source[p] /\ target[p] <= source[p]
    /\ \A p \in changeFlag : memory[p] >= 1

\* Along the way of a PV to the receiver values get older.
OrderInFlight ==
    /\ \A c \in Connections : \A k, l \in DOMAIN inFlight[c] :
           k < l /\ inFlight[c][k].pv = inFlight[c][l].pv
               => inFlight[c][k].value <= inFlight[c][l].value
    /\ \A t \in Threads, c \in Connections :
           \A k \in DOMAIN slice[t], l \in DOMAIN inFlight[c] :
               slice[t][k].pv = inFlight[c][l].pv => inFlight[c][l].value <= slice[t][k].value

\* And there too, unless it was overtaken.
OrderStored ==
    \A p \in PVs \ overtaken :
        /\ \A t \in Threads : \A k \in DOMAIN slice[t] : slice[t][k].pv = p =>
               memory[p] <= slice[t][k].value /\ target[p] <= slice[t][k].value
        /\ \A c \in Connections : \A k \in DOMAIN inFlight[c] : inFlight[c][k].pv = p =>
               memory[p] <= inFlight[c][k].value /\ target[p] <= inFlight[c][k].value
        /\ p \in changeFlag => target[p] <= memory[p]

IInv == TypeOK /\ SlicesAreApart /\ ValuesOfTheSource /\ OrderInFlight /\ OrderStored

LEMMA InitIInv == Init => IInv
<1> SUFFICES ASSUME Init PROVE IInv
  OBVIOUS
<1>1. TypeOK
  BY DiodeAssumption DEF Init, TypeOK
<1> QED
  BY <1>1 DEF Init, IInv, SlicesAreApart, ValuesOfTheSource, OrderInFlight, OrderStored

-----------------------------------------------------------------------------
(* Messages.                                                               *)

LEMMA RowOfMessages ==
    ASSUME NEW s \in Seq(Message)
    PROVE  /\ Len(s) \in Nat /\ DOMAIN s = 1 .. Len(s)
           /\ \A k \in DOMAIN s :
                 s[k] \in Message /\ s[k].pv \in PVs /\ s[k].value \in 1 .. MaxChanges
<1>1. Len(s) \in Nat /\ DOMAIN s = 1 .. Len(s) /\ \A k \in DOMAIN s : s[k] \in Message
  BY LenProperties
<1> QED
  BY <1>1 DEF Message

LEMMA AtMostOne ==
    /\ Len(<<>>) = 0 /\ DOMAIN <<>> = {}
    /\ \A x : Len(<<x>>) = 1 /\ DOMAIN <<x>> = 1 .. 1 /\ <<x>>[1] = x
OBVIOUS

\* A row with at most one message more.
LEMMA OneMore ==
    ASSUME NEW old \in Seq(Message), NEW new \in Seq(Message), Len(new) <= 1
    PROVE  /\ old \o new \in Seq(Message)
           /\ \A k \in DOMAIN old : k \in DOMAIN (old \o new) /\ (old \o new)[k] = old[k]
           /\ \A k \in DOMAIN (old \o new) :
                 \/ k \in DOMAIN old
                 \/ k \notin DOMAIN old /\ 1 \in DOMAIN new /\ (old \o new)[k] = new[1]
           /\ \A k, l \in DOMAIN (old \o new) : k < l => k \in DOMAIN old
<1> DEFINE both == old \o new
<1>1. /\ both \in Seq(Message) /\ Len(both) = Len(old) + Len(new)
      /\ \A i \in 1 .. Len(old) + Len(new) :
            both[i] = IF i <= Len(old) THEN old[i] ELSE new[i - Len(old)]
  BY ConcatProperties
<1>2. /\ Len(old) \in Nat /\ DOMAIN old = 1 .. Len(old)
      /\ Len(new) \in Nat /\ DOMAIN new = 1 .. Len(new)
      /\ DOMAIN both = 1 .. Len(both)
  BY <1>1, RowOfMessages
<1> HIDE DEF both
<1>3. \A k \in DOMAIN old : k \in DOMAIN both /\ both[k] = old[k]
  BY <1>1, <1>2
<1>4. ASSUME NEW k \in DOMAIN both, k \notin DOMAIN old
      PROVE  1 \in DOMAIN new /\ both[k] = new[1] /\ k = Len(both)
  BY <1>1, <1>2, <1>4
<1>5. \A k, l \in DOMAIN both : k < l => k \in DOMAIN old
  BY <1>2, <1>4
<1> QED
  BY <1>1, <1>3, <1>4, <1>5 DEF both

\* The beginning of a row, and what is behind its first message.
LEMMA Beginning ==
    ASSUME NEW s \in Seq(Message), NEW n \in 0 .. Len(s)
    PROVE  /\ SubSeq(s, 1, n) \in Seq(Message)
           /\ \A k \in DOMAIN SubSeq(s, 1, n) : k \in DOMAIN s /\ SubSeq(s, 1, n)[k] = s[k]
<1>1. Len(s) \in Nat /\ DOMAIN s = 1 .. Len(s) /\ \A k \in 1 .. n : s[k] \in Message
  BY RowOfMessages
<1>2. /\ SubSeq(s, 1, n) \in Seq(Message) /\ Len(SubSeq(s, 1, n)) = n
      /\ \A k \in 1 .. n : SubSeq(s, 1, n)[k] = s[k]
  BY <1>1, SubSeqProperties
<1>3. DOMAIN SubSeq(s, 1, n) = 1 .. n
  BY <1>2, RowOfMessages
<1> QED
  BY <1>1, <1>2, <1>3

LEMMA Rest ==
    ASSUME NEW s \in Seq(Message), s # <<>>
    PROVE  /\ Head(s) \in Message /\ 1 \in DOMAIN s /\ Head(s) = s[1]
           /\ Tail(s) \in Seq(Message)
           /\ \A k \in DOMAIN Tail(s) : 1 < k + 1 /\ k + 1 \in DOMAIN s /\ Tail(s)[k] = s[k + 1]
           /\ \A k, l \in DOMAIN Tail(s) : k < l => k + 1 < l + 1
<1>1. /\ Head(s) \in Message /\ Tail(s) \in Seq(Message) /\ Len(Tail(s)) = Len(s) - 1
      /\ \A k \in 1 .. Len(Tail(s)) : Tail(s)[k] = s[k + 1]
  BY HeadTailProperties
<1>2. /\ Len(s) \in Nat /\ DOMAIN s = 1 .. Len(s)
      /\ Len(Tail(s)) \in Nat /\ DOMAIN Tail(s) = 1 .. Len(Tail(s))
  BY <1>1, RowOfMessages
<1> QED
  BY <1>1, <1>2

LEMMA AllRows ==
    ASSUME TypeOK
    PROVE  /\ \A t \in Threads : slice[t] \in Seq(Message)
           /\ \A c \in Connections : inFlight[c] \in Seq(Message)
BY DEF TypeOK, Message

LEMMA InSlice ==
    ASSUME TypeOK, NEW t \in Threads, NEW k \in DOMAIN slice[t]
    PROVE  slice[t][k].pv \in PVs /\ slice[t][k].value \in 1 .. MaxChanges
BY AllRows, RowOfMessages

LEMMA InConnection ==
    ASSUME TypeOK, NEW c \in Connections, NEW k \in DOMAIN inFlight[c]
    PROVE  inFlight[c][k].pv \in PVs /\ inFlight[c][k].value \in 1 .. MaxChanges
BY AllRows, RowOfMessages

-----------------------------------------------------------------------------
(* The sender.                                                             *)

LEMMA ChangeStep == ASSUME NEW p \in PVs, IInv, Change(p) PROVE IInv'
<1>0. TypeOK /\ SlicesAreApart /\ ValuesOfTheSource /\ OrderInFlight /\ OrderStored
  BY DEF IInv
<1>1. UNCHANGED <<slice, connection, inFlight, broken, memory, changeFlag, target, overtaken, failures>>
  BY DEF Change, senderVars, receiverVars
<1>2. source' \in [PVs -> 1 .. MaxChanges] /\ \A q \in PVs : source[q] <= source'[q]
  BY <1>0, DiodeAssumption DEF TypeOK, Change
<1>3. TypeOK'
  BY <1>0, <1>1, <1>2 DEF TypeOK
<1>4. source \in [PVs -> Nat] /\ source' \in [PVs -> Nat]
  <2>1. 1 .. MaxChanges \subseteq Nat
    BY DiodeAssumption
  <2> QED
    BY <1>0, <1>2, <2>1 DEF TypeOK
<1>5. ValuesOfTheSource'
  <2>1. ASSUME NEW t \in Threads, NEW k \in DOMAIN slice[t]
        PROVE  slice[t][k].value <= source'[slice[t][k].pv]
    <3>1. slice[t][k].pv \in PVs /\ slice[t][k].value \in Nat
      BY <1>0, InSlice, DiodeAssumption
    <3>2. slice[t][k].value <= source[slice[t][k].pv]
      BY <1>0 DEF ValuesOfTheSource
    <3>3. source[slice[t][k].pv] <= source'[slice[t][k].pv]
      BY <1>2, <3>1
    <3>4. source[slice[t][k].pv] \in Nat /\ source'[slice[t][k].pv] \in Nat
      BY <1>4, <3>1
    <3> QED
      BY <3>1, <3>2, <3>3, <3>4
  <2>2. ASSUME NEW c \in Connections, NEW k \in DOMAIN inFlight[c]
        PROVE  inFlight[c][k].value <= source'[inFlight[c][k].pv]
    <3>1. inFlight[c][k].pv \in PVs /\ inFlight[c][k].value \in Nat
      BY <1>0, InConnection, DiodeAssumption
    <3>2. inFlight[c][k].value <= source[inFlight[c][k].pv]
      BY <1>0 DEF ValuesOfTheSource
    <3>3. source[inFlight[c][k].pv] <= source'[inFlight[c][k].pv]
      BY <1>2, <3>1
    <3>4. source[inFlight[c][k].pv] \in Nat /\ source'[inFlight[c][k].pv] \in Nat
      BY <1>4, <3>1
    <3> QED
      BY <3>1, <3>2, <3>3, <3>4
  <2>3. \A q \in PVs : memory[q] <= source'[q] /\ target[q] <= source'[q]
    BY <1>0, <1>2 DEF ValuesOfTheSource, TypeOK
  <2> QED
    BY <1>0, <1>1, <2>1, <2>2, <2>3 DEF ValuesOfTheSource
<1> QED
  BY <1>0, <1>1, <1>3, <1>5 DEF SlicesAreApart, OrderInFlight, OrderStored, IInv

LEMMA PublishStep == ASSUME NEW p \in PVs, IInv, Publish(p) PROVE IInv'
<1>0. TypeOK /\ SlicesAreApart /\ ValuesOfTheSource /\ OrderInFlight /\ OrderStored
  BY DEF IInv
<1>1. PICK window \in [Threads -> {<<q>> : q \in PVs} \cup {<<>>}] :
        /\ \A t, u \in Threads : t # u /\ window[t] # <<>> => window[t] # window[u]
        /\ slice' = [t \in Threads |->
               [k \in DOMAIN window[t] |-> [pv |-> window[t][k], value |-> source[window[t][k]]]]]
  BY DEF Publish
<1>2. UNCHANGED <<source, connection, inFlight, broken, memory, changeFlag, target, overtaken, failures>>
  BY DEF Publish, receiverVars
<1>3. ASSUME NEW t \in Threads
      PROVE  \/ window[t] = <<>> /\ slice'[t] = <<>>
             \/ \E q \in PVs : /\ window[t] = <<q>>
                              /\ slice'[t] = <<[pv |-> q, value |-> source[q]]>>
  <2>1. slice'[t] = [k \in DOMAIN window[t] |-> [pv |-> window[t][k], value |-> source[window[t][k]]]]
    BY <1>1
  <2>2. CASE window[t] = <<>>
    <3>1. DOMAIN window[t] = {}
      BY <2>2
    <3> QED
      BY <2>1, <2>2, <3>1
  <2>3. ASSUME NEW q \in PVs, window[t] = <<q>>
        PROVE  slice'[t] = <<[pv |-> q, value |-> source[q]]>>
    <3>1. DOMAIN window[t] = 1 .. 1 /\ window[t][1] = q
      BY <2>3
    <3> QED
      BY <2>1, <3>1
  <2> QED
    BY <2>2, <2>3
<1>4. ASSUME NEW t \in Threads, NEW k \in DOMAIN slice'[t]
      PROVE  /\ k = 1 /\ slice'[t][k].pv \in PVs /\ window[t] = <<slice'[t][k].pv>>
             /\ slice'[t][k].value = source[slice'[t][k].pv]
  <2>1. CASE slice'[t] = <<>>
    BY <1>4, <2>1, AtMostOne
  <2>2. ASSUME NEW q \in PVs, window[t] = <<q>>, slice'[t] = <<[pv |-> q, value |-> source[q]]>>
        PROVE  /\ k = 1 /\ slice'[t][k].pv \in PVs /\ window[t] = <<slice'[t][k].pv>>
               /\ slice'[t][k].value = source[slice'[t][k].pv]
    <3>1. k = 1 /\ slice'[t][k] = [pv |-> q, value |-> source[q]]
      BY <1>4, <2>2, AtMostOne
    <3> QED
      BY <2>2, <3>1
  <2> QED
    BY <1>3, <2>1, <2>2
<1>5. SlicesAreApart'
  <2>1. ASSUME NEW t \in Threads PROVE Len(slice'[t]) <= 1
    <3>1. CASE slice'[t] = <<>>
      BY <3>1, AtMostOne
    <3>2. CASE \E q \in PVs : slice'[t] = <<[pv |-> q, value |-> source[q]]>>
      BY <3>2, AtMostOne
    <3> QED
      BY <1>3, <3>1, <3>2
  <2>2. ASSUME NEW t \in Threads, NEW u \in Threads,
               NEW k \in DOMAIN slice'[t], NEW l \in DOMAIN slice'[u],
               slice'[t][k].pv = slice'[u][l].pv
        PROVE  t = u
    <3>1. window[t] = <<slice'[t][k].pv>> /\ window[u] = <<slice'[u][l].pv>>
      BY <1>4
    <3> QED
      BY <1>1, <2>2, <3>1
  <2> QED
    BY <1>0, <2>1, <2>2 DEF SlicesAreApart
<1>6. TypeOK'
  <2>1. ASSUME NEW t \in Threads PROVE slice'[t] \in Seq(Message)
    <3>1. ASSUME NEW q \in PVs PROVE [pv |-> q, value |-> source[q]] \in Message
      BY <1>0 DEF Message, TypeOK
    <3>2. <<>> \in Seq(Message) /\ \A x \in Message : <<x>> \in Seq(Message)
      OBVIOUS
    <3> QED
      BY <1>3, <3>1, <3>2
  <2>2. slice' \in [Threads -> Seq(Message)]
    BY <1>1, <2>1
  <2> QED
    BY <1>0, <1>2, <2>2 DEF TypeOK, Message
<1>7. ValuesOfTheSource'
  <2>1. ASSUME NEW t \in Threads, NEW k \in DOMAIN slice'[t]
        PROVE  slice'[t][k].value <= source[slice'[t][k].pv]
    BY <1>0, <1>4 DEF TypeOK
  <2> QED
    BY <1>0, <1>2, <2>1 DEF ValuesOfTheSource
<1>8. OrderInFlight'
  <2>1. ASSUME NEW t \in Threads, NEW c \in Connections,
               NEW k \in DOMAIN slice'[t], NEW l \in DOMAIN inFlight[c],
               slice'[t][k].pv = inFlight[c][l].pv
        PROVE  inFlight[c][l].value <= slice'[t][k].value
    BY <1>0, <1>4, <2>1 DEF ValuesOfTheSource
  <2> QED
    BY <1>0, <1>2, <2>1 DEF OrderInFlight
<1>9. OrderStored'
  <2>1. ASSUME NEW q \in PVs, NEW t \in Threads, NEW k \in DOMAIN slice'[t], slice'[t][k].pv = q
        PROVE  memory[q] <= slice'[t][k].value /\ target[q] <= slice'[t][k].value
    BY <1>0, <1>4, <2>1 DEF ValuesOfTheSource
  <2> QED
    BY <1>0, <1>2, <2>1 DEF OrderStored
<1> QED
  BY <1>5, <1>6, <1>7, <1>8, <1>9 DEF IInv

\* What a thread sends comes after what its connection has.
LEMMA SendStep == ASSUME NEW t \in Threads, IInv, Send(t) PROVE IInv'
<1>0. TypeOK /\ SlicesAreApart /\ ValuesOfTheSource /\ OrderInFlight /\ OrderStored
  BY DEF IInv
<1> DEFINE c == connection[t]
           old == inFlight[c]
           new == slice[t]
<1>1. UNCHANGED <<source, connection, broken, memory, changeFlag, target, overtaken, failures>>
  BY DEF Send, receiverVars
<1>2. /\ inFlight' = [inFlight EXCEPT ![c] = old \o new]
      /\ slice' = [slice EXCEPT ![t] = <<>>]
  BY DEF Send, Written
<1>3. c \in Connections /\ old \in Seq(Message) /\ new \in Seq(Message)
  BY <1>0, AllRows DEF TypeOK
<1>4. Len(new) <= 1
  BY <1>0 DEF SlicesAreApart
<1>5. /\ old \o new \in Seq(Message)
      /\ \A k \in DOMAIN old : k \in DOMAIN (old \o new) /\ (old \o new)[k] = old[k]
      /\ \A k \in DOMAIN (old \o new) :
            \/ k \in DOMAIN old
            \/ k \notin DOMAIN old /\ 1 \in DOMAIN new /\ (old \o new)[k] = new[1]
      /\ \A k, l \in DOMAIN (old \o new) : k < l => k \in DOMAIN old
  BY <1>3, <1>4, OneMore
<1>6. /\ \A u \in Threads : slice'[u] = IF u = t THEN <<>> ELSE slice[u]
      /\ \A d \in Connections : inFlight'[d] = IF d = c THEN old \o new ELSE inFlight[d]
  BY <1>0, <1>2, <1>3 DEF TypeOK
<1>7. \A u \in Threads : \A k \in DOMAIN slice'[u] : u # t /\ k \in DOMAIN slice[u] /\ slice'[u][k] = slice[u][k]
  BY <1>6, AtMostOne
<1>8. \A d \in Connections : \A k \in DOMAIN inFlight'[d] :
        \/ k \in DOMAIN inFlight[d] /\ inFlight'[d][k] = inFlight[d][k]
        \/ d = c /\ 1 \in DOMAIN new /\ inFlight'[d][k] = new[1]
  BY <1>5, <1>6
<1>9. TypeOK'
  <2>1. slice' \in [Threads -> Seq(Message)] /\ inFlight' \in [Connections -> Seq(Message)]
    <3>1. slice \in [Threads -> Seq(Message)] /\ inFlight \in [Connections -> Seq(Message)]
      BY <1>0 DEF TypeOK, Message
    <3>2. <<>> \in Seq(Message)
      OBVIOUS
    <3> QED
      BY <1>2, <1>5, <3>1, <3>2
  <2> QED
    BY <1>0, <1>1, <2>1 DEF TypeOK, Message
<1>10. SlicesAreApart'
  <2>1. \A u \in Threads : Len(slice'[u]) <= 1
    BY <1>0, <1>6, AtMostOne DEF SlicesAreApart
  <2> QED
    BY <1>0, <1>7, <2>1 DEF SlicesAreApart
<1>11. ValuesOfTheSource'
  BY <1>0, <1>1, <1>7, <1>8 DEF ValuesOfTheSource
<1>12. OrderInFlight'
  <2>1. ASSUME NEW d \in Connections, NEW k \in DOMAIN inFlight'[d], NEW l \in DOMAIN inFlight'[d],
               k < l, inFlight'[d][k].pv = inFlight'[d][l].pv
        PROVE  inFlight'[d][k].value <= inFlight'[d][l].value
    <3>1. CASE d # c
      BY <1>0, <1>6, <2>1, <3>1 DEF OrderInFlight
    <3>2. CASE d = c
      <4> DEFINE both == old \o new
      <4>1. inFlight'[d] = both /\ k \in DOMAIN both /\ l \in DOMAIN both
        BY <1>6, <3>2
      <4>2. k \in DOMAIN old /\ both[k] = old[k]
        BY <1>5, <2>1, <4>1
      <4>3. CASE l \in DOMAIN old
        <5>1. both[l] = old[l]
          BY <1>5, <4>3
        <5> QED
          BY <1>0, <1>3, <2>1, <4>1, <4>2, <4>3, <5>1 DEF OrderInFlight
      <4>4. CASE 1 \in DOMAIN new /\ both[l] = new[1]
        BY <1>0, <1>3, <2>1, <4>1, <4>2, <4>4 DEF OrderInFlight
      <4> QED
        BY <1>5, <4>1, <4>3, <4>4
    <3> QED
      BY <3>1, <3>2
  <2>2. ASSUME NEW u \in Threads, NEW d \in Connections,
               NEW k \in DOMAIN slice'[u], NEW l \in DOMAIN inFlight'[d],
               slice'[u][k].pv = inFlight'[d][l].pv
        PROVE  inFlight'[d][l].value <= slice'[u][k].value
    BY <1>0, <1>7, <1>8, <2>2 DEF OrderInFlight, SlicesAreApart
  <2> QED
    BY <1>0, <2>1, <2>2 DEF OrderInFlight
<1>13. OrderStored'
  BY <1>0, <1>1, <1>7, <1>8 DEF OrderStored
<1> QED
  BY <1>9, <1>10, <1>11, <1>12, <1>13 DEF IInv

\* A thread connects again, with nothing left to send.
LEMMA ReconnectStep == ASSUME NEW t \in Threads, IInv, Reconnect(t) PROVE IInv'
<1>0. TypeOK /\ SlicesAreApart /\ ValuesOfTheSource /\ OrderInFlight /\ OrderStored
  BY DEF IInv
<1>1. UNCHANGED <<source, memory, changeFlag, target, overtaken>>
  BY DEF Reconnect, receiverVars
<1>2. connection[t] \in Connections
  BY <1>0 DEF TypeOK
<1>3. PICK arrives \in 0 .. Len(inFlight[connection[t]]) :
        inFlight' = [inFlight EXCEPT ![connection[t]] = SubSeq(@, 1, arrives)]
  BY DEF Reconnect
<1>4. /\ SubSeq(inFlight[connection[t]], 1, arrives) \in Seq(Message)
      /\ \A k \in DOMAIN SubSeq(inFlight[connection[t]], 1, arrives) :
            /\ k \in DOMAIN inFlight[connection[t]]
            /\ SubSeq(inFlight[connection[t]], 1, arrives)[k] = inFlight[connection[t]][k]
  BY <1>0, <1>2, AllRows, Beginning
<1>5. /\ \A u \in Threads : slice'[u] = IF u = t THEN <<>> ELSE slice[u]
      /\ slice' \in [Threads -> Seq(Message)]
  BY <1>0 DEF Reconnect, TypeOK, Message
<1>6. /\ \A u \in Threads : \A k \in DOMAIN slice'[u] :
            k \in DOMAIN slice[u] /\ slice'[u][k] = slice[u][k]
      /\ \A u \in Threads : Len(slice'[u]) <= 1
  BY <1>0, <1>5, AtMostOne DEF SlicesAreApart
<1>7. inFlight' \in [Connections -> Seq(Message)]
  BY <1>0, <1>3, <1>4 DEF TypeOK, Message
<1>8. \A d \in Connections : \A k \in DOMAIN inFlight'[d] :
        k \in DOMAIN inFlight[d] /\ inFlight'[d][k] = inFlight[d][k]
  BY <1>0, <1>3, <1>4 DEF TypeOK
<1>9. TypeOK'
  <2>1. connection' \in [Threads -> Connections] /\ broken' \subseteq Connections
    BY <1>0 DEF Reconnect, TypeOK
  <2>2. failures' \in 0 .. MaxFailures
    <3>1. failures \in 0 .. MaxFailures /\ MaxFailures \in Nat
      BY <1>0, DiodeAssumption DEF TypeOK
    <3>2. failures' = failures \/ (failures < MaxFailures /\ failures' = failures + 1)
      BY DEF Reconnect
    <3> QED
      BY <3>1, <3>2
  <2> QED
    BY <1>0, <1>1, <1>5, <1>7, <2>1, <2>2 DEF TypeOK, Message
<1>10. SlicesAreApart'
  BY <1>0, <1>6 DEF SlicesAreApart
<1>11. ValuesOfTheSource' /\ OrderInFlight' /\ OrderStored'
  BY <1>0, <1>1, <1>6, <1>8 DEF ValuesOfTheSource, OrderInFlight, OrderStored
<1> QED
  BY <1>9, <1>10, <1>11 DEF IInv

-----------------------------------------------------------------------------
(* The receiver.                                                           *)

LEMMA StoreStep == ASSUME NEW c \in Connections, IInv, Store(c) PROVE IInv'
<1>0. TypeOK /\ SlicesAreApart /\ ValuesOfTheSource /\ OrderInFlight /\ OrderStored
  BY DEF IInv
<1> DEFINE m == Head(inFlight[c])
<1>1. UNCHANGED <<source, slice, connection, broken, target, failures>>
  BY DEF Store, senderVars
<1>2. /\ inFlight' = [inFlight EXCEPT ![c] = Tail(@)]
      /\ memory' = [memory EXCEPT ![m.pv] = m.value] /\ changeFlag' = Flagged(m)
      /\ overtaken' = IF IsOlder(c, m) THEN overtaken \cup {m.pv} ELSE overtaken
  BY DEF Store
<1>3. inFlight[c] \in Seq(Message) /\ inFlight[c] # <<>>
  BY <1>0, AllRows DEF Store
<1>4. /\ m \in Message /\ 1 \in DOMAIN inFlight[c] /\ m = inFlight[c][1]
      /\ Tail(inFlight[c]) \in Seq(Message)
      /\ \A k \in DOMAIN Tail(inFlight[c]) :
            /\ 1 < k + 1 /\ k + 1 \in DOMAIN inFlight[c]
            /\ Tail(inFlight[c])[k] = inFlight[c][k + 1]
      /\ \A k, l \in DOMAIN Tail(inFlight[c]) : k < l => k + 1 < l + 1
  BY <1>3, Rest
<1>5. m.pv \in PVs /\ m.value \in 1 .. MaxChanges /\ m.value \in Nat /\ m.value <= source[m.pv]
  BY <1>0, <1>4, DiodeAssumption DEF Message, ValuesOfTheSource
<1>6. \A d \in Connections : inFlight'[d] = IF d = c THEN Tail(inFlight[c]) ELSE inFlight[d]
  BY <1>0, <1>2 DEF TypeOK
<1>7. \A p \in PVs : memory'[p] = IF p = m.pv THEN m.value ELSE memory[p]
  BY <1>0, <1>2 DEF TypeOK
<1> HIDE DEF m
<1>8. TypeOK'
  <2>1. inFlight' \in [Connections -> Seq(Message)]
    BY <1>0, <1>2, <1>4 DEF TypeOK, Message
  <2>2. memory' \in [PVs -> 0 .. MaxChanges]
    BY <1>0, <1>2, <1>5, DiodeAssumption DEF TypeOK
  <2>3. changeFlag' \subseteq PVs /\ overtaken' \subseteq PVs
    BY <1>0, <1>2, <1>5 DEF TypeOK, Flagged
  <2> QED
    BY <1>0, <1>1, <2>1, <2>2, <2>3 DEF TypeOK, Message
<1>9. SlicesAreApart'
  BY <1>0, <1>1 DEF SlicesAreApart
\* What is in flight afterwards was so before, on the same connection.
<1>10. ASSUME NEW d \in Connections, NEW k \in DOMAIN inFlight'[d]
       PROVE  \E l \in DOMAIN inFlight[d] :
                 /\ inFlight'[d][k] = inFlight[d][l]
                 /\ d = c => 1 < l
  BY <1>4, <1>6, <1>10
<1>11. ValuesOfTheSource'
  <2>1. \A d \in Connections : \A k \in DOMAIN inFlight'[d] :
          inFlight'[d][k].value <= source[inFlight'[d][k].pv]
    BY <1>0, <1>10 DEF ValuesOfTheSource
  <2>2. \A p \in PVs : memory'[p] <= source[p]
    BY <1>0, <1>5, <1>7 DEF ValuesOfTheSource
  <2>3. \A p \in changeFlag' : memory'[p] >= 1
    BY <1>0, <1>2, <1>5, <1>7 DEF ValuesOfTheSource, Flagged, TypeOK
  <2> QED
    BY <1>0, <1>1, <2>1, <2>2, <2>3 DEF ValuesOfTheSource
<1>12. OrderInFlight'
  <2>1. ASSUME NEW d \in Connections, NEW k \in DOMAIN inFlight'[d], NEW l \in DOMAIN inFlight'[d],
               k < l, inFlight'[d][k].pv = inFlight'[d][l].pv
        PROVE  inFlight'[d][k].value <= inFlight'[d][l].value
    <3>1. CASE d # c
      BY <1>0, <1>6, <2>1, <3>1 DEF OrderInFlight
    <3>2. CASE d = c
      <4>1. /\ k \in DOMAIN Tail(inFlight[c]) /\ l \in DOMAIN Tail(inFlight[c])
            /\ inFlight'[d][k] = inFlight[c][k + 1] /\ inFlight'[d][l] = inFlight[c][l + 1]
        BY <1>4, <1>6, <3>2
      <4>2. k + 1 < l + 1 /\ k + 1 \in DOMAIN inFlight[c] /\ l + 1 \in DOMAIN inFlight[c]
        BY <1>4, <2>1, <4>1
      <4> QED
        BY <1>0, <2>1, <4>1, <4>2 DEF OrderInFlight
    <3> QED
      BY <3>1, <3>2
  <2>2. ASSUME NEW t \in Threads, NEW d \in Connections,
               NEW k \in DOMAIN slice[t], NEW l \in DOMAIN inFlight'[d],
               slice[t][k].pv = inFlight'[d][l].pv
        PROVE  inFlight'[d][l].value <= slice[t][k].value
    BY <1>0, <1>10, <2>2 DEF OrderInFlight
  <2> QED
    BY <1>1, <2>1, <2>2 DEF OrderInFlight
<1>13. OrderStored'
  <2> SUFFICES ASSUME NEW p \in PVs \ overtaken'
               PROVE  /\ \A t \in Threads : \A k \in DOMAIN slice[t] : slice[t][k].pv = p =>
                            memory'[p] <= slice[t][k].value /\ target[p] <= slice[t][k].value
                      /\ \A d \in Connections : \A k \in DOMAIN inFlight'[d] :
                            inFlight'[d][k].pv = p =>
                            memory'[p] <= inFlight'[d][k].value /\ target[p] <= inFlight'[d][k].value
                      /\ p \in changeFlag' => target[p] <= memory'[p]
    BY <1>1 DEF OrderStored
  <2>1. p \in PVs \ overtaken /\ (p = m.pv => ~IsOlder(c, m))
    BY <1>2
  <2>2. CASE p # m.pv
    <3>1. memory'[p] = memory[p] /\ (p \in changeFlag' => p \in changeFlag)
      BY <1>2, <1>7, <2>2 DEF Flagged
    <3> QED
      BY <1>0, <1>10, <2>1, <3>1 DEF OrderStored
  <2>3. CASE p = m.pv
    <3>1. memory'[p] = m.value /\ target[p] <= m.value
      BY <1>0, <1>4, <1>7, <2>1, <2>3 DEF OrderStored
    <3>2. ASSUME NEW t \in Threads, NEW k \in DOMAIN slice[t], slice[t][k].pv = p
          PROVE  m.value <= slice[t][k].value /\ target[p] <= slice[t][k].value
      BY <1>0, <1>4, <2>1, <2>3, <3>2 DEF OrderInFlight, OrderStored
    <3>3. ASSUME NEW d \in Connections, NEW k \in DOMAIN inFlight'[d], inFlight'[d][k].pv = p
          PROVE  m.value <= inFlight'[d][k].value /\ target[p] <= inFlight'[d][k].value
      <4>1. PICK l \in DOMAIN inFlight[d] : inFlight'[d][k] = inFlight[d][l] /\ (d = c => 1 < l)
        BY <1>10
      <4>2. target[p] <= inFlight[d][l].value
        BY <1>0, <2>1, <3>3, <4>1 DEF OrderStored
      <4>3. CASE d = c
        BY <1>0, <1>4, <2>3, <3>3, <4>1, <4>2, <4>3 DEF OrderInFlight
      <4>4. CASE d # c
        <5>1. ~(inFlight[d][l].value < m.value)
          BY <2>1, <2>3, <3>3, <4>1, <4>4 DEF IsOlder
        <5>2. inFlight[d][l].value \in Nat
          BY <1>0, InConnection, DiodeAssumption
        <5> QED
          BY <1>5, <4>1, <4>2, <5>1, <5>2
      <4> QED
        BY <4>3, <4>4
    <3> QED
      BY <3>1, <3>2, <3>3
  <2> QED
    BY <2>2, <2>3
<1> QED
  BY <1>8, <1>9, <1>11, <1>12, <1>13 DEF IInv

LEMMA PutStep == ASSUME NEW p \in PVs, IInv, Put(p) PROVE IInv'
<1>0. TypeOK /\ SlicesAreApart /\ ValuesOfTheSource /\ OrderInFlight /\ OrderStored
  BY DEF IInv
<1>1. /\ UNCHANGED <<source, slice, connection, inFlight, broken, memory, overtaken, failures>>
      /\ changeFlag' = changeFlag \ {p} /\ p \in changeFlag
  BY DEF Put, senderVars
<1>2. /\ \A q \in PVs : target'[q] = IF q = p THEN memory[p] ELSE target[q]
      /\ target' \in [PVs -> 0 .. MaxChanges]
  BY <1>0 DEF Put, TypeOK
<1>3. TypeOK'
  BY <1>0, <1>1, <1>2 DEF TypeOK
<1>4. ValuesOfTheSource'
  BY <1>0, <1>1, <1>2 DEF ValuesOfTheSource
<1>5. OrderStored'
  BY <1>0, <1>1, <1>2 DEF OrderStored
<1> QED
  BY <1>0, <1>1, <1>3, <1>4, <1>5 DEF IInv, SlicesAreApart, OrderInFlight

LEMMA RestartStep == ASSUME IInv, RestartReceiver PROVE IInv'
<1>0. TypeOK /\ SlicesAreApart /\ ValuesOfTheSource /\ OrderInFlight /\ OrderStored
  BY DEF IInv
<1>1. /\ UNCHANGED <<source, slice, connection, target, overtaken>>
      /\ memory' = [q \in PVs |-> 0] /\ changeFlag' = {}
      /\ inFlight' = [c \in Connections |-> <<>>] /\ broken' \subseteq Connections
  BY <1>0 DEF RestartReceiver, FlagsAtStart, senderVars, TypeOK
<1>2. \A c \in Connections : DOMAIN inFlight'[c] = {}
  BY <1>1, AtMostOne
<1>3. source \in [PVs -> Nat]
  <2>1. 1 .. MaxChanges \subseteq Nat
    BY DiodeAssumption
  <2> QED
    BY <1>0, <2>1 DEF TypeOK
<1>4. TypeOK'
  <2>1. failures' \in 0 .. MaxFailures
    BY <1>0, DiodeAssumption DEF RestartReceiver, TypeOK
  <2>2. memory' \in [PVs -> 0 .. MaxChanges]
    BY <1>1, DiodeAssumption
  <2>3. inFlight' \in [Connections -> Seq(Message)]
    BY <1>1
  <2> QED
    BY <1>0, <1>1, <2>1, <2>2, <2>3 DEF TypeOK, Message
<1>5. ValuesOfTheSource'
  BY <1>0, <1>1, <1>2, <1>3 DEF ValuesOfTheSource
<1>6. OrderStored'
  <2>1. ASSUME NEW t \in Threads, NEW k \in DOMAIN slice[t] PROVE 0 <= slice[t][k].value
    BY <1>0, InSlice, DiodeAssumption
  <2> QED
    BY <1>0, <1>1, <1>2, <2>1 DEF OrderStored, TypeOK
<1> QED
  BY <1>0, <1>1, <1>2, <1>4, <1>5, <1>6 DEF IInv, SlicesAreApart, OrderInFlight

-----------------------------------------------------------------------------

LEMMA NextIInv == IInv /\ [Next]_vars => IInv'
<1> SUFFICES ASSUME IInv, [Next]_vars PROVE IInv'
  OBVIOUS
<1>1. ASSUME NEW p \in PVs, Change(p) \/ Publish(p) \/ Put(p) PROVE IInv'
  BY <1>1, ChangeStep, PublishStep, PutStep
<1>2. ASSUME NEW t \in Threads, ThreadStep(t) PROVE IInv'
  BY <1>2, SendStep, ReconnectStep DEF ThreadStep
<1>3. ASSUME NEW c \in Connections, Store(c) PROVE IInv'
  BY <1>3, StoreStep
<1>4. CASE RestartReceiver
  BY <1>4, RestartStep
<1>5. CASE UNCHANGED vars
  BY <1>5 DEF vars, senderVars, receiverVars, IInv, TypeOK, SlicesAreApart, ValuesOfTheSource,
     OrderInFlight, OrderStored
<1> QED
  BY <1>1, <1>2, <1>3, <1>4, <1>5 DEF Next

LEMMA Inductive == Spec => []IInv
BY InitIInv, NextIInv, PTL DEF Spec

\* Type correctness.
THEOREM TypeCorrect == Spec => []TypeOK
<1>1. IInv => TypeOK
  BY DEF IInv
<1> QED
  BY <1>1, Inductive, PTL

\* A PV of the receiving side goes back to an older value only when its values
\* overtook one another on different connections: never because of a lost slice,
\* a broken connection or a receiver that is started again.
THEOREM ValuesComeInOrder == Spec => GoesBackOnlyIfOvertaken
<1>1. ASSUME IInv, [Next]_vars
      PROVE  [\A p \in PVs : target'[p] < target[p] => p \in overtaken]_vars
  <2>1. ASSUME NEW p \in PVs, p \notin overtaken PROVE ~(target'[p] < target[p])
    <3>1. target[p] \in Nat /\ memory[p] \in Nat /\ (p \in changeFlag => target[p] <= memory[p])
      BY <1>1, <2>1, DiodeAssumption DEF IInv, TypeOK, OrderStored
    <3>2. CASE \E q \in PVs : Put(q)
      BY <1>1, <3>1, <3>2 DEF Put, IInv, TypeOK
    <3>3. CASE target' = target
      BY <3>1, <3>3
    <3>4. (\E q \in PVs : Put(q)) \/ target' = target
      BY <1>1 DEF Next, Change, Publish, ThreadStep, Send, Reconnect, Store, RestartReceiver, vars
    <3> QED
      BY <3>2, <3>3, <3>4
  <2> QED
    BY <2>1
<1> QED
  BY <1>1, Inductive, PTL DEF Spec, GoesBackOnlyIfOvertaken

\* The diode implements the link: every value put on the receiving side is one
\* that the same PV has had, whatever is lost, late or restarted.
THEOREM DiodeIsALink == Spec => ImplementsTheLink
<1>1. Init => TheLink!Init
  BY DEF Init, TheLink!Init
<1>2. ASSUME IInv, [Next]_vars PROVE [TheLink!Next]_(TheLink!vars)
  <2>1. ASSUME NEW p \in PVs, Change(p) PROVE TheLink!Next
    BY <2>1 DEF Change, TheLink!Change, TheLink!Next
  <2>2. ASSUME NEW p \in PVs, Put(p) PROVE TheLink!Next
    <3>1. memory[p] \in 1 .. source[p]
      BY <1>2, <2>2, DiodeAssumption DEF IInv, TypeOK, ValuesOfTheSource, Put
    <3>2. TheLink!TakeOver(p)
      BY <2>2, <3>1 DEF Put, TheLink!TakeOver
    <3> QED
      BY <3>2 DEF TheLink!Next
  <2>3. CASE UNCHANGED <<source, target>>
    BY <2>3 DEF TheLink!vars
  <2>4. \/ \E p \in PVs : Change(p) \/ Put(p)
        \/ UNCHANGED <<source, target>>
    BY <1>2 DEF Next, Publish, ThreadStep, Send, Reconnect, Store, RestartReceiver, vars
  <2> QED
    BY <2>1, <2>2, <2>3, <2>4
<1> QED
  BY <1>1, <1>2, Inductive, PTL DEF Spec, ImplementsTheLink, TheLink!Spec

=============================================================================
