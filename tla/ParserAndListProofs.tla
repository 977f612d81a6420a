------------------------ MODULE ParserAndListProofs -------------------------
(***************************************************************************)
(* The two sequential parts of DiodeReceiver.                              *)
(*                                                                         *)
(* Proofs about PayloadParser, for every message and every way to cut it.  *)
(* Where bytes of a name, and the two quotes around it, are, there are no  *)
(* others that could be taken for them: so whatever the payload begins     *)
(* with, the first name the parser closes is that of a variable which      *)
(* begins in the payload, and none before it does.                         *)
(***************************************************************************)
EXTENDS PayloadParser, PvList, WellFoundedInduction, SequenceTheorems, TLAPS

-----------------------------------------------------------------------------
(* First and last of a set of positions.                                   *)

LEMMA Minimum ==
    ASSUME NEW S \in SUBSET Nat, S # {}
    PROVE  \E i \in S : \A j \in S : i <= j
<1> DEFINE R == OpToRel(<, Nat)
<1>1. IsWellFoundedOn(R, Nat)
  BY NatLessThanWellFounded
<1>2. \A i, j \in Nat : <<j, i>> \in R <=> j < i
  BY DEF OpToRel
<1> HIDE DEF R
<1>3. PICK i \in S : \A j \in S : ~(<<j, i>> \in R)
  BY <1>1, WFMin
<1>4. ASSUME NEW j \in S PROVE i <= j
  <2>1. i \in Nat /\ j \in Nat /\ ~(j < i)
    BY <1>2, <1>3
  <2> QED
    BY <2>1
<1> QED
  BY <1>4

LEMMA FirstIsLeast ==
    ASSUME NEW S \in SUBSET Nat, S # {}
    PROVE  First(S) \in S /\ \A j \in S : First(S) <= j
BY Minimum DEF First

LEMMA LastIsGreatest ==
    ASSUME NEW n \in Nat, NEW S \in SUBSET (0 .. n), S # {}
    PROVE  Last(S) \in S /\ \A j \in S : j <= Last(S)
<1> DEFINE D == {n - i : i \in S}
<1>1. D \in SUBSET Nat /\ D # {}
  <2>1. \A i \in S : n - i \in Nat
    OBVIOUS
  <2> QED
    BY <2>1
<1>2. PICK d \in D : \A e \in D : d <= e
  BY <1>1, Minimum
<1>3. PICK i \in S : d = n - i
  BY <1>2
<1>4. \A j \in S : i >= j
  BY <1>2, <1>3
<1> QED
  BY <1>4 DEF Last

-----------------------------------------------------------------------------
(* Where the variables of a message are.                                   *)

Begins(v) == message[v].begin
Opens(v)  == Opening(message[v])
Closes(v) == Closing(message[v])
Ends(v)   == EndOf(message[v])

LEMMA Places ==
    ASSUME message \in Messages
    PROVE  /\ Len(message) \in Nat \ {0}
           /\ \A v \in Variables :
                 /\ v \in Nat /\ Begins(v) \in Nat
                 /\ message[v].name \in Nat /\ message[v].size \in Nat
                 /\ message[v].valid \in BOOLEAN
                 /\ Opens(v) = Begins(v) + 1 /\ Closes(v) = Begins(v) + message[v].name + 2
                 /\ Ends(v) = Begins(v) + message[v].name + message[v].size + 27
           /\ \A v, w \in Variables : v < w => Ends(v) <= Begins(w)
<1>1. /\ Len(message) \in Nat \ {0}
      /\ \A v \in 1 .. Len(message) : IsVariable(message[v])
      /\ \A v, w \in 1 .. Len(message) : v < w => EndOf(message[v]) <= message[w].begin
  <2>1. /\ message \in Seq([begin : Nat, name : Nat, size : Nat, valid : BOOLEAN, quotes : SUBSET Nat])
        /\ Len(message) > 0
        /\ \A v \in 1 .. Len(message) : IsVariable(message[v])
        /\ \A v, w \in 1 .. Len(message) : v < w => EndOf(message[v]) <= message[w].begin
    BY MessagesAssumption
  <2>2. Len(message) \in Nat
    BY <2>1, LenProperties
  <2> QED
    BY <2>1, <2>2
<1>2. ASSUME NEW v \in Variables
      PROVE  /\ v \in Nat /\ Begins(v) \in Nat
             /\ message[v].name \in Nat /\ message[v].size \in Nat
             /\ message[v].valid \in BOOLEAN
             /\ Opens(v) = Begins(v) + 1 /\ Closes(v) = Begins(v) + message[v].name + 2
             /\ Ends(v) = Begins(v) + message[v].name + message[v].size + 27
  <2>1. v \in Nat
    BY <1>1 DEF Variables
  <2>2. /\ Begins(v) \in Nat /\ message[v].name \in Nat /\ message[v].size \in Nat
        /\ message[v].valid \in BOOLEAN
    BY <1>1 DEF Variables, IsVariable, Begins
  <2>3. Opens(v) = Begins(v) + 1
    BY DEF Opens, Opening, Begins
  <2>4. Closes(v) = Begins(v) + 1 + message[v].name + 1
    BY DEF Closes, Closing, Opening, Begins
  <2>5. Ends(v) = Closes(v) + 3 - 1 + 13 + message[v].size + 10
    BY DEF Ends, EndOf, Closes, PatternSize, HeaderSize, TailSize
  <2> QED
    BY <2>1, <2>2, <2>3, <2>4, <2>5
<1> QED
  BY <1>1, <1>2 DEF Variables, Begins, Ends

LEMMA Place ==
    ASSUME message \in Messages, NEW v \in Variables
    PROVE  /\ v \in Nat
           /\ Begins(v) \in Nat /\ Opens(v) \in Nat /\ Closes(v) \in Nat /\ Ends(v) \in Nat
           /\ Begins(v) < Opens(v) /\ Opens(v) < Closes(v) /\ Closes(v) + 25 <= Ends(v)
<1>1. /\ v \in Nat /\ Begins(v) \in Nat /\ message[v].name \in Nat /\ message[v].size \in Nat
      /\ Opens(v) = Begins(v) + 1 /\ Closes(v) = Begins(v) + message[v].name + 2
      /\ Ends(v) = Begins(v) + message[v].name + message[v].size + 27
  BY Places
<1> QED
  BY <1>1

LEMMA InTurn ==
    ASSUME message \in Messages, NEW v \in Variables, NEW w \in Variables, v < w
    PROVE  Ends(v) <= Begins(w)
BY Places

LEMMA QuotePlaces ==
    ASSUME message \in Messages, NEW q \in Quotes
    PROVE  /\ q \in Nat
           /\ \E w \in Variables : q = Opens(w) \/ q = Closes(w) \/ (Closes(w) < q /\ q <= Ends(w))
<1>1. CASE \E w \in Variables : q = Opens(w) \/ q = Closes(w)
  BY <1>1, Places
<1>2. ASSUME NEW w \in Variables, q \in message[w].quotes
      PROVE  q \in Nat /\ Closes(w) < q /\ q <= Ends(w)
  <2>1. IsVariable(message[w])
    BY MessagesAssumption DEF Variables
  <2>2. q \in Nat /\ Closes(w) + 3 <= q /\ q <= Ends(w)
    BY <1>2, <2>1 DEF IsVariable, Closes, Ends, PatternSize
  <2> QED
    BY <2>2, Places
<1>3. \/ \E w \in Variables : q = Opens(w) \/ q = Closes(w)
      \/ \E w \in Variables : q \in message[w].quotes
  BY DEF Quotes, Patterns, Opens, Closes
<1> QED
  BY <1>1, <1>2, <1>3

\* There is no quote between the two quotes of a name.
LEMMA NoQuoteInName ==
    ASSUME message \in Messages, NEW v \in Variables, NEW q \in Quotes
    PROVE  ~(Opens(v) < q /\ q < Closes(v))
<1>1. PICK w \in Variables : q = Opens(w) \/ q = Closes(w) \/ (Closes(w) < q /\ q <= Ends(w))
  BY QuotePlaces
<1>2. q \in Nat
  BY QuotePlaces
<1>3. /\ Begins(w) \in Nat /\ Opens(w) \in Nat /\ Closes(w) \in Nat /\ Ends(w) \in Nat
      /\ Begins(w) < Opens(w) /\ Opens(w) < Closes(w) /\ Closes(w) + 25 <= Ends(w)
      /\ Begins(v) \in Nat /\ Opens(v) \in Nat /\ Closes(v) \in Nat /\ Ends(v) \in Nat
      /\ Begins(v) < Opens(v) /\ Opens(v) < Closes(v) /\ Closes(v) + 25 <= Ends(v)
      /\ v \in Nat /\ w \in Nat
  BY Place
<1>4. CASE w = v
  BY <1>1, <1>2, <1>3, <1>4
<1>5. CASE w < v
  <2>1. Ends(w) <= Begins(v)
    BY <1>5, InTurn
  <2> QED
    BY <1>1, <1>2, <1>3, <2>1
<1>6. CASE v < w
  <2>1. Ends(v) <= Begins(w)
    BY <1>6, InTurn
  <2> QED
    BY <1>1, <1>2, <1>3, <2>1
<1> QED
  BY <1>3, <1>4, <1>5, <1>6

\* An opening quote never closes a name.
LEMMA OpeningIsNoPattern ==
    ASSUME message \in Messages, NEW v \in Variables
    PROVE  Opens(v) \in Quotes \ Patterns
<1>1. ASSUME NEW w \in Variables PROVE Opens(v) # Closes(w)
  <2>1. /\ Begins(w) \in Nat /\ Closes(w) \in Nat /\ Ends(w) \in Nat
        /\ Begins(w) < Closes(w) /\ Closes(w) + 25 <= Ends(w)
        /\ Begins(v) \in Nat /\ Opens(v) \in Nat /\ Ends(v) \in Nat
        /\ Begins(v) < Opens(v) /\ Opens(v) < Ends(v)
        /\ Opens(v) < Closes(v)
        /\ v \in Nat /\ w \in Nat
    <3>1. /\ Begins(v) \in Nat /\ Opens(v) \in Nat /\ Closes(v) \in Nat /\ Ends(v) \in Nat
          /\ Begins(v) < Opens(v) /\ Opens(v) < Closes(v) /\ Closes(v) + 25 <= Ends(v)
          /\ v \in Nat
      BY Place
    <3>2. /\ Begins(w) \in Nat /\ Opens(w) \in Nat /\ Closes(w) \in Nat /\ Ends(w) \in Nat
          /\ Begins(w) < Opens(w) /\ Opens(w) < Closes(w) /\ Closes(w) + 25 <= Ends(w)
          /\ w \in Nat
      BY Place
    <3> QED
      BY <3>1, <3>2
  <2>2. CASE w = v
    BY <2>1, <2>2
  <2>3. CASE w < v
    <3>1. Ends(w) <= Begins(v)
      BY <2>3, InTurn
    <3> QED
      BY <2>1, <3>1
  <2>4. CASE v < w
    <3>1. Ends(v) <= Begins(w)
      BY <2>4, InTurn
    <3> QED
      BY <2>1, <3>1
  <2> QED
    BY <2>1, <2>2, <2>3, <2>4
<1> QED
  BY <1>1 DEF Quotes, Patterns, Opens, Closes

\* A name is closed at one place only.
LEMMA ClosedName ==
    ASSUME message \in Messages, NEW closing \in Patterns
    PROVE  TheVariable(closing) \in Variables /\ Closes(TheVariable(closing)) = closing
BY DEF TheVariable, Patterns, Closes

-----------------------------------------------------------------------------
(* What the search for a name finds.                                       *)

\* The search is on: not all of the payload is consumed, and a variable may
\* begin at Opened.
Searching == TypeOK /\ start < recv /\ ~NoOpening

LEMMA Sizes ==
    ASSUME TypeOK
    PROVE  /\ message \in Messages
           /\ start \in Nat /\ recv \in Nat /\ dropped \in Nat /\ Total \in Nat
           /\ start <= recv /\ recv <= Total /\ dropped <= recv
<1>1. message \in Messages /\ start \in 0 .. recv /\ recv \in 0 .. Total /\ dropped \in 0 .. recv
  BY DEF TypeOK
<1>2. Total \in Nat
  <2>1. Len(message) \in Variables
    BY <1>1, Places DEF Variables
  <2>2. Ends(Len(message)) \in Nat
    BY <1>1, <2>1, Place
  <2> QED
    BY <2>2 DEF Total, Ends
<1>3. recv \in Nat
  BY <1>1, <1>2
<1> QED
  BY <1>1, <1>2, <1>3

LEMMA ReceivedIs ==
    ASSUME TypeOK, NEW i \in Received
    PROVE  i \in Quotes /\ i \in Nat /\ start < i /\ i <= recv
<1>1. i \in Quotes /\ start < i /\ i <= recv
  BY DEF Received
<1> QED
  BY <1>1, Sizes, QuotePlaces

LEMMA OpenedIs ==
    ASSUME Searching
    PROVE  /\ Opened \in Received
           /\ ~InSync => Opened \in Openings /\ \A i \in Openings : Opened <= i
<1>1. TypeOK /\ start < recv /\ ~NoOpening
  BY DEF Searching
<1>2. CASE InSync
  <2>1. Opened = start + 1 /\ start + 1 \in Quotes
    BY <1>2 DEF Opened, InSync
  <2>2. start \in Nat /\ recv \in Nat
    BY <1>1, Sizes
  <2>3. start < start + 1 /\ start + 1 <= recv
    BY <1>1, <2>2
  <2> QED
    BY <1>2, <2>1, <2>3 DEF Received
<1>3. CASE ~InSync
  <2>1. Openings # {} /\ Opened = First(Openings)
    BY <1>1, <1>3 DEF NoOpening, Opened
  <2>2. Openings \in SUBSET Received
    BY DEF Openings
  <2>3. Openings \in SUBSET Nat
    BY <1>1, <2>2, ReceivedIs
  <2> QED
    BY <2>1, <2>2, <2>3, FirstIsLeast
<1> QED
  BY <1>2, <1>3

\* No variable that begins in the payload is passed over.
LEMMA OpeningIsOpening ==
    ASSUME TypeOK, NEW v \in Variables, start <= Begins(v), Opens(v) <= recv
    PROVE  Opens(v) \in Received /\ Opens(v) \in Openings
<1>1. Opens(v) \in Quotes /\ Opens(v) \notin Patterns
  BY Sizes, OpeningIsNoPattern
<1>2. start < Opens(v)
  <2>1. start \in Nat /\ Begins(v) \in Nat /\ Opens(v) \in Nat /\ Begins(v) < Opens(v)
    BY Sizes, Place
  <2> QED
    BY <2>1
<1> QED
  BY <1>1, <1>2 DEF Received, Openings

LEMMA OpenedBefore ==
    ASSUME Searching, NEW v \in Variables, start <= Begins(v)
    PROVE  Opened <= Opens(v)
<1>1. TypeOK /\ start \in Nat /\ recv \in Nat /\ start < recv
  BY Sizes DEF Searching
<1>2. Begins(v) \in Nat /\ Opens(v) \in Nat /\ Opens(v) = Begins(v) + 1
  BY <1>1, Sizes, Places
<1>3. Opened \in Nat /\ Opened <= recv
  BY <1>1, OpenedIs, ReceivedIs
<1>4. CASE recv < Opens(v)
  BY <1>1, <1>2, <1>3, <1>4
<1>5. CASE Opens(v) <= recv /\ InSync
  <2>1. Opened = start + 1
    BY <1>5 DEF Opened
  <2> QED
    BY <1>1, <1>2, <2>1
<1>6. CASE Opens(v) <= recv /\ ~InSync
  BY <1>1, <1>6, OpeningIsOpening, OpenedIs
<1> QED
  BY <1>1, <1>2, <1>4, <1>5, <1>6

\* A quote before the end of a name is not after its beginning.
LEMMA BeforeTheName ==
    ASSUME TypeOK, NEW v \in Variables, NEW q \in Quotes, q < Closes(v)
    PROVE  q <= Opens(v)
<1>1. q \in Nat /\ Opens(v) \in Nat
  BY Sizes, QuotePlaces, Place
<1>2. ~(Opens(v) < q /\ q < Closes(v))
  BY Sizes, NoQuoteInName
<1> QED
  BY <1>1, <1>2

LEMMA NameOpeningIs ==
    ASSUME Searching
    PROVE  LET closings == Closings(Opened)
               opening  == NameOpening(Opened, closings)
           IN  /\ opening \in Received /\ Opened <= opening
               /\ \A j \in closings : opening < j
               /\ \A i \in Received :
                     Opened <= i /\ (\A j \in closings : i < j) => i <= opening
<1> DEFINE closings == Closings(Opened)
           S == {i \in Received : Opened <= i /\ \A j \in closings : i < j}
<1>1. TypeOK
  BY DEF Searching
<1>2. Opened \in Received /\ Opened \in Nat
  BY <1>1, OpenedIs, ReceivedIs
<1>3. \A j \in closings : Opened < j
  BY DEF Closings
<1>4. Opened \in S
  BY <1>2, <1>3
<1>5. recv \in Nat
  BY <1>1, Sizes
<1>6. S \in SUBSET (0 .. recv)
  <2>1. \A i \in S : i \in Nat /\ i <= recv
    BY <1>1, ReceivedIs
  <2> QED
    BY <1>5, <2>1
<1>7. NameOpening(Opened, closings) = Last(S)
  BY DEF NameOpening
<1>8. Last(S) \in S /\ \A j \in S : j <= Last(S)
  BY <1>4, <1>5, <1>6, LastIsGreatest
<1> QED
  BY <1>7, <1>8

\* The end of a variable's name, when it is in the payload, is a place where
\* the search stops.
LEMMA CloseIsClosing ==
    ASSUME Searching, NEW v \in Variables, start <= Begins(v), Closes(v) <= recv
    PROVE  Closes(v) \in Closings(Opened)
<1>1. TypeOK /\ start \in Nat
  BY Sizes DEF Searching
<1>2. Closes(v) \in Patterns /\ Closes(v) \in Quotes
  BY DEF Quotes, Patterns, Closes
<1>3. /\ Begins(v) \in Nat /\ Opens(v) \in Nat /\ Closes(v) \in Nat
      /\ Begins(v) < Opens(v) /\ Opens(v) < Closes(v)
  BY <1>1, Sizes, Place
<1>4. Opened <= Opens(v) /\ Opened \in Nat
  BY <1>1, OpenedBefore, OpenedIs, ReceivedIs
<1>5. start < Closes(v) /\ Opened < Closes(v)
  BY <1>1, <1>3, <1>4
<1> QED
  BY <1>2, <1>5 DEF Closings, Received

\* The name found is that of the first variable that begins in the payload.
LEMMA TheName ==
    ASSUME Searching, NameClosed(Closings(Opened))
    PROVE  LET closing == First(Closings(Opened))
               opening == NameOpening(Opened, Closings(Opened))
               v       == TheVariable(closing)
           IN  /\ v \in Variables
               /\ opening = Opens(v) /\ closing = Closes(v)
               /\ start <= Begins(v) /\ closing <= recv
               /\ \A w \in Variables : start <= Begins(w) => v <= w
<1> DEFINE closings == Closings(Opened)
           closing  == First(closings)
           opening  == NameOpening(Opened, closings)
           v        == TheVariable(closing)
<1>1. TypeOK /\ message \in Messages /\ start \in Nat /\ recv \in Nat
  BY Sizes DEF Searching
<1>2. closings \in SUBSET Received /\ closings # {} /\ Fits(closing)
  BY DEF Closings, NameClosed
<1>3. closings \in SUBSET Nat
  BY <1>1, <1>2, ReceivedIs
<1>4. closing \in closings /\ \A j \in closings : closing <= j
  BY <1>2, <1>3, FirstIsLeast
<1>5. closing \in Patterns /\ Opened < closing
  BY <1>2, <1>4 DEF Closings
<1>6. v \in Variables /\ Closes(v) = closing
  BY <1>1, <1>5, ClosedName
<1>7. closing \in Nat /\ start < closing /\ closing <= recv
  BY <1>1, <1>2, <1>4, ReceivedIs
<1>8. /\ Opened \in Received /\ opening \in Received
      /\ Opened \in Nat /\ start < Opened
      /\ opening \in Nat /\ opening \in Quotes /\ opening < closing
      /\ Opened <= opening
  BY <1>1, <1>4, OpenedIs, NameOpeningIs, ReceivedIs
<1>9. /\ v \in Nat /\ Begins(v) \in Nat /\ Opens(v) \in Nat /\ Closes(v) \in Nat /\ Ends(v) \in Nat
      /\ Begins(v) < Opens(v) /\ Opens(v) < Closes(v) /\ Closes(v) <= Ends(v)
      /\ Opens(v) = Begins(v) + 1
  <2>1. /\ v \in Nat /\ Begins(v) \in Nat /\ Opens(v) \in Nat /\ Closes(v) \in Nat /\ Ends(v) \in Nat
        /\ Begins(v) < Opens(v) /\ Opens(v) < Closes(v) /\ Closes(v) + 25 <= Ends(v)
    BY <1>1, <1>6, Place
  <2>2. Opens(v) = Begins(v) + 1
    BY <1>1, <1>6, Places
  <2> HIDE DEF v
  <2> QED
    BY <2>1, <2>2
<1> HIDE DEF v, opening, closing, closings
<1>10. Opened <= Opens(v) /\ opening <= Opens(v)
  <2>1. Opened \in Quotes /\ Opened < Closes(v) /\ opening < Closes(v)
    BY <1>1, <1>5, <1>6, <1>8, ReceivedIs
  <2> QED
    BY <1>1, <1>6, <1>8, <2>1, BeforeTheName
<1>11. start <= Begins(v)
  BY <1>1, <1>8, <1>9, <1>10
<1>12. Opens(v) <= opening
  <2>1. Opens(v) \in Received
    <3>1. Opens(v) <= recv
      BY <1>1, <1>6, <1>7, <1>9
    <3> QED
      BY <1>1, <1>6, <1>11, <3>1, OpeningIsOpening
  <2>2. \A j \in closings : Opens(v) < j
    BY <1>3, <1>4, <1>6, <1>7, <1>9
  <2> QED
    BY <1>10, <2>1, <2>2, NameOpeningIs DEF opening, closings
<1>13. opening = Opens(v)
  BY <1>8, <1>9, <1>10, <1>12
<1>14. ASSUME NEW w \in Variables, start <= Begins(w), w < v PROVE FALSE
  <2>1. /\ w \in Nat /\ Begins(w) \in Nat /\ Closes(w) \in Nat /\ Ends(w) \in Nat
        /\ Closes(w) + 25 <= Ends(w)
    BY <1>1, Place
  <2>2. Ends(w) <= Begins(v)
    BY <1>1, <1>6, <1>14, InTurn
  <2>3. Closes(w) < closing
    BY <1>6, <1>9, <2>1, <2>2
  <2>4. Closes(w) <= recv
    BY <1>1, <1>7, <2>1, <2>3
  <2>5. Closes(w) \in closings
    BY <1>14, <2>4, CloseIsClosing DEF closings
  <2> QED
    BY <1>4, <1>7, <2>1, <2>3, <2>5
<1>15. \A w \in Variables : start <= Begins(w) => v <= w
  <2>1. \A w \in Variables : w \in Nat
    BY <1>1, Place
  <2> QED
    BY <1>9, <1>14, <2>1
<1> QED
  BY <1>6, <1>7, <1>11, <1>13, <1>15 DEF v, opening, closing, closings

-----------------------------------------------------------------------------
(* The invariant.                                                          *)

NamesFit == \A v \in Variables : message[v].name <= PV_NAME_MAX_SIZE_REC

IsStored(v) == \E k \in DOMAIN stored : stored[k] = v

\* What is stored is before the payload.
StoredBefore == \A k \in DOMAIN stored : Ends(stored[k]) <= start

\* What is before the payload is stored, or was dropped.
NothingPassed ==
    NamesFit => \A v \in Variables :
        message[v].valid /\ dropped <= Begins(v) /\ Begins(v) < start => IsStored(v)

\* Before more is read, no variable in the payload is complete.
NothingWaits ==
    NamesFit /\ pc \in {"chunk", "ok"} =>
        \A v \in Variables : start <= Begins(v) => recv < Ends(v)

PInv == TypeOK /\ StoredInOrder /\ StoredBefore /\ NothingPassed /\ NothingWaits

\* What a step that takes nothing from the message has to show.
LEMMA Kept ==
    ASSUME PInv, TypeOK', UNCHANGED <<message, stored, dropped>>,
           start <= start',
           NamesFit => \A v \in Variables : start <= Begins(v) => start' <= Begins(v),
           NamesFit /\ pc' \in {"chunk", "ok"} =>
               \A v \in Variables : start <= Begins(v) => recv' < Ends(v)
    PROVE  PInv'
<1>0. TypeOK /\ StoredInOrder /\ StoredBefore /\ NothingPassed /\ NothingWaits
  BY DEF PInv
<1>1. /\ message \in Messages /\ start \in Nat /\ start' \in Nat
      /\ \A v \in Variables : Begins(v) \in Nat /\ Ends(v) \in Nat
  <2>1. message \in Messages /\ start \in Nat
    BY <1>0, Sizes
  <2>2. start' \in Nat
    <3>1. start' \in 0 .. recv' /\ recv' \in 0 .. Total'
      BY DEF TypeOK
    <3> QED
      BY <3>1
  <2> QED
    BY <2>1, <2>2, Place
<1>2. message' = message /\ stored' = stored /\ dropped' = dropped
  OBVIOUS
<1>3. StoredInOrder'
  BY <1>0, <1>2 DEF StoredInOrder
<1>4. StoredBefore'
  <2>1. ASSUME NEW k \in DOMAIN stored PROVE Ends(stored[k]) <= start'
    <3>1. stored[k] \in Variables
      BY <1>0 DEF TypeOK
    <3>2. Ends(stored[k]) <= start /\ Ends(stored[k]) \in Nat
      BY <1>0, <1>1, <3>1 DEF StoredBefore
    <3> QED
      BY <1>1, <3>2
  <2> QED
    BY <1>2, <2>1 DEF StoredBefore, Ends
<1>5. NothingPassed'
  <2>1. ASSUME NamesFit, NEW v \in Variables, message[v].valid, dropped <= Begins(v), Begins(v) < start'
        PROVE  IsStored(v)
    <3>1. Begins(v) < start
      BY <1>1, <2>1
    <3> QED
      BY <1>0, <2>1, <3>1 DEF NothingPassed
  <2> QED
    BY <1>2, <2>1 DEF NothingPassed, NamesFit, Variables, Begins, IsStored
<1>6. NothingWaits'
  <2>1. ASSUME NamesFit, pc' \in {"chunk", "ok"}, NEW v \in Variables, start' <= Begins(v)
        PROVE  recv' < Ends(v)
    <3>1. start <= Begins(v)
      BY <1>1, <2>1
    <3> QED
      BY <2>1, <3>1
  <2> QED
    BY <1>2, <2>1 DEF NothingWaits, NamesFit, Variables, Begins, Ends
<1> QED
  BY <1>3, <1>4, <1>5, <1>6 DEF PInv

\* A payload cut at its front, or consumed, when nothing in it is complete.
LEMMA RefillStep ==
    ASSUME PInv, NEW from \in Nat, Refill(from), start <= from, from <= recv,
           NamesFit => \A v \in Variables :
               start <= Begins(v) => from <= Begins(v) /\ recv < Ends(v)
    PROVE  PInv'
<1>0. TypeOK
  BY DEF PInv
<1>1. /\ start' = from /\ pc' = "chunk" /\ recv' = recv
      /\ UNCHANGED <<message, isChunked, stored, dropped>>
  BY DEF Refill, AfterRefill
<1>2. TypeOK'
  <2>1. start' \in 0 .. recv' /\ recv' \in 0 .. Total' /\ dropped' \in 0 .. recv'
    <3>1. recv \in Nat /\ dropped \in 0 .. recv /\ recv \in 0 .. Total
      BY <1>0, Sizes DEF TypeOK
    <3>2. from \in 0 .. recv
      BY <3>1
    <3> QED
      BY <1>1, <3>1, <3>2 DEF Total
  <2> QED
    BY <1>0, <1>1, <2>1 DEF TypeOK, Variables
<1> QED
  BY <1>1, <1>2, Kept

-----------------------------------------------------------------------------
(* The steps of the search.                                                *)

LEMMA PayloadIsEmptyStep ==
    ASSUME PInv, PayloadIsEmpty
    PROVE  PInv'
<1>1. TypeOK
  BY DEF PInv
<1>2. start = recv /\ Refill(start) /\ start \in Nat
  BY <1>1, Sizes DEF PayloadIsEmpty
<1>3. ASSUME NEW v \in Variables, start <= Begins(v) PROVE recv < Ends(v)
  <2>1. /\ Begins(v) \in Nat /\ Opens(v) \in Nat /\ Closes(v) \in Nat /\ Ends(v) \in Nat
        /\ Begins(v) < Opens(v) /\ Opens(v) < Closes(v) /\ Closes(v) + 25 <= Ends(v)
    BY <1>1, Sizes, Place
  <2> QED
    BY <1>2, <1>3, <2>1
<1> QED
  BY <1>2, <1>3, RefillStep

LEMMA UnsynchronisedStep ==
    ASSUME PInv, Unsynchronised
    PROVE  PInv'
<1>1. TypeOK
  BY DEF PInv
<1>2. /\ ~InSync /\ Openings = {} /\ Refill(recv)
      /\ start \in Nat /\ recv \in Nat /\ start <= recv
  BY <1>1, Sizes DEF Unsynchronised, NoOpening
<1>3. ASSUME NEW v \in Variables, start <= Begins(v)
      PROVE  recv <= Begins(v) /\ recv < Ends(v)
  <2>1. /\ Begins(v) \in Nat /\ Opens(v) \in Nat /\ Closes(v) \in Nat /\ Ends(v) \in Nat
        /\ Begins(v) < Opens(v) /\ Opens(v) < Closes(v) /\ Closes(v) + 25 <= Ends(v)
    BY <1>1, Sizes, Place
  <2>2. Opens(v) = Begins(v) + 1
    BY <1>1, Sizes, Places
  <2>3. ~(Opens(v) <= recv)
    BY <1>1, <1>2, <1>3, OpeningIsOpening
  <2> QED
    BY <1>2, <2>1, <2>2, <2>3
<1> QED
  BY <1>2, <1>3, RefillStep

LEMMA OpeningIsCutStep ==
    ASSUME PInv, Searching, OpeningIsCut(Opened)
    PROVE  PInv'
<1>1. TypeOK
  BY DEF PInv
<1>2. ~Fits(Opened) /\ Refill(Opened - 1)
  BY DEF OpeningIsCut, Unclear
<1>3. /\ start \in Nat /\ recv \in Nat /\ Opened \in Nat
      /\ start < Opened /\ Opened <= recv
  BY <1>1, Sizes, OpenedIs, ReceivedIs
<1>4. recv < Opened + 2
  BY <1>2, <1>3 DEF Fits, PatternSize
<1>5. ASSUME NEW v \in Variables, start <= Begins(v)
      PROVE  Opened - 1 <= Begins(v) /\ recv < Ends(v)
  <2>1. /\ Begins(v) \in Nat /\ Opens(v) \in Nat /\ Closes(v) \in Nat /\ Ends(v) \in Nat
        /\ Begins(v) < Opens(v) /\ Opens(v) < Closes(v) /\ Closes(v) + 25 <= Ends(v)
    BY <1>1, Sizes, Place
  <2>2. Opens(v) = Begins(v) + 1
    BY <1>1, Sizes, Places
  <2>3. Opened <= Opens(v)
    BY <1>5, OpenedBefore
  <2> QED
    BY <1>3, <1>4, <2>1, <2>2, <2>3
<1>6. Opened - 1 \in Nat /\ start <= Opened - 1 /\ Opened - 1 <= recv
  BY <1>3
<1> QED
  BY <1>2, <1>5, <1>6, RefillStep

LEMMA NameIsCutStep ==
    ASSUME PInv, Searching,
           NameIsCut(Closings(Opened), NameOpening(Opened, Closings(Opened)))
    PROVE  PInv'
<1> DEFINE closings == Closings(Opened)
           opening  == NameOpening(Opened, closings)
<1>1. TypeOK
  BY DEF PInv
<1>2. ~NameClosed(closings) /\ Refill(opening - 1)
  BY DEF NameIsCut
<1>3. /\ opening \in Received /\ Opened <= opening /\ Opened \in Received
      /\ \A j \in closings : opening < j
  BY NameOpeningIs, OpenedIs
<1>4. /\ start \in Nat /\ recv \in Nat /\ opening \in Nat /\ opening \in Quotes
      /\ start < opening /\ opening <= recv
  BY <1>1, <1>3, Sizes, ReceivedIs
<1>5. closings \in SUBSET Nat
  <2>1. closings \in SUBSET Received
    BY DEF Closings
  <2> QED
    BY <1>1, <2>1, ReceivedIs
<1>6. closings # {} => /\ First(closings) \in Nat /\ recv < First(closings) + 2
                       /\ \A j \in closings : First(closings) <= j
  <2>1. SUFFICES ASSUME closings # {}
                 PROVE  /\ First(closings) \in Nat /\ recv < First(closings) + 2
                        /\ \A j \in closings : First(closings) <= j
    OBVIOUS
  <2>2. First(closings) \in closings /\ \A j \in closings : First(closings) <= j
    BY <1>5, <2>1, FirstIsLeast
  <2>3. ~Fits(First(closings))
    BY <1>2, <2>1 DEF NameClosed
  <2>4. First(closings) \in Nat
    BY <1>5, <2>2
  <2>5. ~(recv - First(closings) + 1 >= 3)
    BY <2>3 DEF Fits, PatternSize
  <2> QED
    BY <1>4, <2>2, <2>4, <2>5
<1>7. ASSUME NEW v \in Variables, start <= Begins(v)
      PROVE  opening - 1 <= Begins(v) /\ recv < Ends(v)
  <2>1. /\ Begins(v) \in Nat /\ Opens(v) \in Nat /\ Closes(v) \in Nat /\ Ends(v) \in Nat
        /\ Begins(v) < Opens(v) /\ Opens(v) < Closes(v) /\ Closes(v) + 25 <= Ends(v)
    BY <1>1, Sizes, Place
  <2>2. Opens(v) = Begins(v) + 1
    BY <1>1, Sizes, Places
  <2>3. opening < Closes(v) /\ recv < Ends(v)
    <3>1. CASE Closes(v) <= recv
      <4>1. Closes(v) \in closings
        BY <1>7, <3>1, CloseIsClosing
      <4>2. First(closings) \in Nat /\ recv < First(closings) + 2 /\ First(closings) <= Closes(v)
        BY <1>6, <4>1
      <4>3. opening < Closes(v)
        BY <1>3, <4>1
      <4> QED
        BY <1>4, <2>1, <4>2, <4>3
    <3>2. CASE recv < Closes(v)
      BY <1>4, <2>1, <3>2
    <3> QED
      BY <1>4, <2>1, <3>1, <3>2
  <2>4. opening <= Opens(v)
    BY <1>1, <1>4, <2>3, BeforeTheName
  <2> QED
    BY <1>4, <2>1, <2>2, <2>3, <2>4
<1>8. opening - 1 \in Nat /\ start <= opening - 1 /\ opening - 1 <= recv
  BY <1>4
<1> HIDE DEF opening
<1> QED
  BY <1>2, <1>7, <1>8, RefillStep

-----------------------------------------------------------------------------
(* The steps once a name is found.                                         *)

\* The variable v is the first that begins in the payload, and its name is
\* all there.
Found(v) ==
    /\ v \in Variables
    /\ start <= Begins(v) /\ Closes(v) <= recv
    /\ \A w \in Variables : start <= Begins(w) => v <= w

\* The later variables begin and end later.
LEMMA TheFirst ==
    ASSUME TypeOK, NEW v \in Variables, NEW w \in Variables, v <= w
    PROVE  Begins(v) <= Begins(w) /\ Ends(v) <= Ends(w)
<1>1. /\ v \in Nat /\ Begins(v) \in Nat /\ Opens(v) \in Nat /\ Closes(v) \in Nat /\ Ends(v) \in Nat
      /\ Begins(v) < Opens(v) /\ Opens(v) < Closes(v) /\ Closes(v) + 25 <= Ends(v)
  BY Sizes, Place
<1>2. /\ w \in Nat /\ Begins(w) \in Nat /\ Opens(w) \in Nat /\ Closes(w) \in Nat /\ Ends(w) \in Nat
      /\ Begins(w) < Opens(w) /\ Opens(w) < Closes(w) /\ Closes(w) + 25 <= Ends(w)
  BY Sizes, Place
<1>3. CASE v = w
  BY <1>1, <1>3
<1>4. CASE v < w
  <2>1. Ends(v) <= Begins(w)
    BY <1>4, Sizes, InTurn
  <2> QED
    BY <1>1, <1>2, <2>1
<1> QED
  BY <1>1, <1>2, <1>3, <1>4

LEMMA FoundSizes ==
    ASSUME TypeOK, NEW v, Found(v)
    PROVE  /\ v \in Variables /\ v \in Nat
           /\ Begins(v) \in Nat /\ Opens(v) \in Nat /\ Closes(v) \in Nat /\ Ends(v) \in Nat
           /\ message[v].name \in Nat /\ message[v].size \in Nat
           /\ Opens(v) = Begins(v) + 1 /\ Closes(v) = Begins(v) + message[v].name + 2
           /\ Ends(v) = Begins(v) + message[v].name + message[v].size + 27
           /\ Closes(v) - Opens(v) - 1 = message[v].name
           /\ ProcessedSize(message[v].name, message[v].size) = Ends(v) - Begins(v)
           /\ start \in Nat /\ recv \in Nat /\ start <= Begins(v) /\ Closes(v) <= recv
<1>1. /\ v \in Variables /\ start <= Begins(v) /\ Closes(v) <= recv
      /\ start \in Nat /\ recv \in Nat /\ message \in Messages
  BY Sizes DEF Found
<1>2. /\ v \in Nat /\ Begins(v) \in Nat
      /\ message[v].name \in Nat /\ message[v].size \in Nat
      /\ Opens(v) = Begins(v) + 1 /\ Closes(v) = Begins(v) + message[v].name + 2
      /\ Ends(v) = Begins(v) + message[v].name + message[v].size + 27
  BY <1>1, Places
<1>3. ProcessedSize(message[v].name, message[v].size)
        = message[v].name + 3 + (13 - 1) + message[v].size + 10 + 2
  BY DEF ProcessedSize, NameProcessed, PatternSize, HeaderSize, TailSize
<1>4. Closes(v) \in Nat /\ Ends(v) \in Nat /\ Opens(v) \in Nat
  BY <1>1, Place
<1> QED
  BY <1>1, <1>2, <1>3, <1>4

\* The header or the value of v is cut.
LEMMA VariableIsCutStep ==
    ASSUME PInv, NEW v, Found(v), Refill(Opens(v) - 1), recv < Ends(v)
    PROVE  PInv'
<1>1. TypeOK
  BY DEF PInv
<1>2. /\ v \in Variables /\ Begins(v) \in Nat /\ Ends(v) \in Nat /\ Closes(v) \in Nat
      /\ Opens(v) = Begins(v) + 1 /\ Opens(v) \in Nat
      /\ start \in Nat /\ recv \in Nat /\ start <= Begins(v) /\ Closes(v) <= recv
      /\ Opens(v) < Closes(v)
  BY <1>1, FoundSizes, Place, Sizes
<1>3. Refill(Begins(v)) /\ Begins(v) <= recv
  <2>1. Opens(v) - 1 = Begins(v) /\ Begins(v) <= recv
    BY <1>2
  <2> QED
    BY <2>1
<1>4. ASSUME NEW w \in Variables, start <= Begins(w)
      PROVE  Begins(v) <= Begins(w) /\ recv < Ends(w)
  <2>1. Begins(v) <= Begins(w) /\ Ends(v) <= Ends(w) /\ Ends(w) \in Nat
    BY <1>1, <1>4, TheFirst, Place, Sizes DEF Found
  <2> QED
    BY <1>2, <2>1
<1> QED
  BY <1>2, <1>3, <1>4, RefillStep

LEMMA NameTooLongStep ==
    ASSUME PInv, NEW v, Found(v), NameTooLong(Opens(v), Closes(v))
    PROVE  PInv'
<1>1. TypeOK
  BY DEF PInv
<1>2. /\ v \in Variables /\ Begins(v) \in Nat /\ message[v].name \in Nat
      /\ Opens(v) = Begins(v) + 1 /\ Closes(v) = Begins(v) + message[v].name + 2
      /\ Closes(v) - Opens(v) - 1 = message[v].name
      /\ start \in Nat /\ recv \in Nat /\ start <= Begins(v) /\ Closes(v) <= recv
  BY <1>1, FoundSizes
<1>3. message[v].name > PV_NAME_MAX_SIZE_REC /\ Refill(Opens(v) - 1 + message[v].name)
  BY <1>2 DEF NameTooLong
<1>4. ~NamesFit
  BY <1>2, <1>3, MessagesAssumption DEF NamesFit
<1>5. /\ Opens(v) - 1 + message[v].name = Begins(v) + message[v].name
      /\ Begins(v) + message[v].name \in Nat
      /\ start <= Begins(v) + message[v].name /\ Begins(v) + message[v].name <= recv
  BY <1>2
<1> QED
  BY <1>3, <1>4, <1>5, RefillStep

LEMMA DropStep ==
    ASSUME PInv, NEW v, Drop(v)
    PROVE  PInv'
<1>0. TypeOK /\ StoredInOrder /\ StoredBefore
  BY DEF PInv
<1>1. /\ start' = recv /\ dropped' = recv /\ recv' = recv
      /\ message' = message /\ stored' = stored /\ isChunked' = isChunked /\ pc' = "chunk"
  BY DEF Drop
<1>2. /\ message \in Messages /\ start \in Nat /\ recv \in Nat /\ start <= recv
      /\ \A w \in Variables : Begins(w) \in Nat /\ Ends(w) \in Nat /\ Begins(w) < Ends(w)
  <2>1. message \in Messages /\ start \in Nat /\ recv \in Nat /\ start <= recv
    BY <1>0, Sizes
  <2>2. ASSUME NEW w \in Variables
        PROVE  Begins(w) \in Nat /\ Ends(w) \in Nat /\ Begins(w) < Ends(w)
    <3>1. /\ Begins(w) \in Nat /\ Opens(w) \in Nat /\ Closes(w) \in Nat /\ Ends(w) \in Nat
          /\ Begins(w) < Opens(w) /\ Opens(w) < Closes(w) /\ Closes(w) + 25 <= Ends(w)
      BY <2>1, Place
    <3> QED
      BY <3>1
  <2> QED
    BY <2>1, <2>2
<1>3. TypeOK'
  <2>1. recv \in 0 .. recv /\ recv' \in 0 .. Total'
    BY <1>0, <1>1, <1>2 DEF TypeOK, Total
  <2> QED
    BY <1>0, <1>1, <2>1 DEF TypeOK, Variables
<1>4. StoredInOrder'
  BY <1>0, <1>1 DEF StoredInOrder
<1>5. StoredBefore'
  <2>1. ASSUME NEW k \in DOMAIN stored PROVE Ends(stored[k]) <= recv
    <3>1. stored[k] \in Variables
      BY <1>0 DEF TypeOK
    <3>2. Ends(stored[k]) <= start /\ Ends(stored[k]) \in Nat
      BY <1>0, <1>2, <3>1 DEF StoredBefore
    <3> QED
      BY <1>2, <3>2
  <2> QED
    BY <1>1, <2>1 DEF StoredBefore, Ends
<1>6. NothingPassed'
  <2>1. \A w \in Variables : ~(recv <= Begins(w) /\ Begins(w) < recv)
    BY <1>2
  <2> QED
    BY <1>1, <2>1 DEF NothingPassed, Variables, Begins
<1>7. NothingWaits'
  <2>1. \A w \in Variables : recv <= Begins(w) => recv < Ends(w)
    BY <1>2
  <2> QED
    BY <1>1, <2>1 DEF NothingWaits, Variables, Begins, Ends
<1> QED
  BY <1>3, <1>4, <1>5, <1>6, <1>7 DEF PInv

\* Appending to a sequence.
LEMMA Appended ==
    ASSUME NEW S, NEW s \in Seq(S), NEW e \in S
    PROVE  /\ Append(s, e) \in Seq(S)
           /\ Len(s) \in Nat
           /\ DOMAIN s = 1 .. Len(s) /\ DOMAIN Append(s, e) = 1 .. (Len(s) + 1)
           /\ \A k \in 1 .. Len(s) : Append(s, e)[k] = s[k] /\ s[k] \in S
           /\ Append(s, e)[Len(s) + 1] = e
           /\ \A k \in DOMAIN Append(s, e) : k \in DOMAIN s \/ k = Len(s) + 1
<1>1. /\ Append(s, e) \in Seq(S) /\ Len(s) \in Nat
      /\ DOMAIN s = 1 .. Len(s) /\ DOMAIN Append(s, e) = 1 .. (Len(s) + 1)
      /\ \A k \in 1 .. Len(s) : Append(s, e)[k] = s[k]
      /\ Append(s, e)[Len(s) + 1] = e
  BY AppendProperties, LenProperties
<1>2. \A k \in 1 .. Len(s) : s[k] \in S
  BY ElementOfSeq
<1>3. \A k \in 1 .. (Len(s) + 1) : k \in 1 .. Len(s) \/ k = Len(s) + 1
  BY <1>1
<1> QED
  BY <1>1, <1>2, <1>3

LEMMA ReadVarStep ==
    ASSUME PInv, NEW v, Found(v), Accepted(v),
           ReadVarValueAndSkip(v, Opens(v), ProcessedSize(message[v].name, message[v].size))
    PROVE  PInv'
<1>0. TypeOK /\ StoredInOrder /\ StoredBefore /\ NothingPassed
  BY DEF PInv
<1>1. /\ v \in Variables /\ v \in Nat /\ Begins(v) \in Nat /\ Ends(v) \in Nat
      /\ Opens(v) = Begins(v) + 1
      /\ ProcessedSize(message[v].name, message[v].size) = Ends(v) - Begins(v)
      /\ start \in Nat /\ recv \in Nat /\ start <= Begins(v) /\ Begins(v) < Ends(v)
  <2>1. /\ v \in Variables /\ v \in Nat /\ Begins(v) \in Nat /\ Ends(v) \in Nat
        /\ Opens(v) = Begins(v) + 1
        /\ ProcessedSize(message[v].name, message[v].size) = Ends(v) - Begins(v)
        /\ start \in Nat /\ recv \in Nat /\ start <= Begins(v)
    BY <1>0, FoundSizes
  <2>2. Begins(v) < Ends(v)
    <3>1. /\ Begins(v) \in Nat /\ Opens(v) \in Nat /\ Closes(v) \in Nat /\ Ends(v) \in Nat
          /\ Begins(v) < Opens(v) /\ Opens(v) < Closes(v) /\ Closes(v) + 25 <= Ends(v)
      BY <1>0, <2>1, Sizes, Place
    <3> QED
      BY <3>1
  <2> QED
    BY <2>1, <2>2
<1> DEFINE processedSize == ProcessedSize(message[v].name, message[v].size)
<1>2. /\ recv - (Opens(v) - 1) >= processedSize
      /\ stored' = Append(stored, v) /\ start' = Opens(v) - 1 + processedSize
      /\ pc' = "parse" /\ recv' = recv /\ dropped' = dropped
      /\ message' = message /\ isChunked' = isChunked
  BY DEF ReadVarValueAndSkip, ValueIsIn, AfterVariable
<1> HIDE DEF processedSize
<1>3. start' = Ends(v) /\ Ends(v) <= recv
  <2>1. processedSize = Ends(v) - Begins(v)
    BY <1>1 DEF processedSize
  <2> QED
    BY <1>1, <1>2, <2>1
<1>4. message[v].valid
  BY DEF Accepted
<1>5. \A w \in Variables : w \in Nat /\ Begins(w) \in Nat /\ Ends(w) \in Nat /\ Begins(w) < Ends(w)
  <2>1. SUFFICES ASSUME NEW w \in Variables
                 PROVE  w \in Nat /\ Begins(w) \in Nat /\ Ends(w) \in Nat /\ Begins(w) < Ends(w)
    OBVIOUS
  <2>2. /\ w \in Nat
        /\ Begins(w) \in Nat /\ Opens(w) \in Nat /\ Closes(w) \in Nat /\ Ends(w) \in Nat
        /\ Begins(w) < Opens(w) /\ Opens(w) < Closes(w) /\ Closes(w) + 25 <= Ends(w)
    BY <1>0, Sizes, Place
  <2> QED
    BY <2>2
<1>6. stored \in Seq(Variables)
  BY <1>0 DEF TypeOK
<1>7. /\ Append(stored, v) \in Seq(Variables)
      /\ Len(stored) \in Nat
      /\ DOMAIN stored = 1 .. Len(stored) /\ DOMAIN stored' = 1 .. (Len(stored) + 1)
      /\ \A k \in DOMAIN stored : k \in DOMAIN stored' /\ stored'[k] = stored[k] /\ stored[k] \in Variables
      /\ Len(stored) + 1 \in DOMAIN stored' /\ stored'[Len(stored) + 1] = v
      /\ \A k \in DOMAIN stored' : k \in DOMAIN stored \/ k = Len(stored) + 1
  <2>1. /\ Append(stored, v) \in Seq(Variables)
        /\ Len(stored) \in Nat
        /\ DOMAIN stored = 1 .. Len(stored) /\ DOMAIN stored' = 1 .. (Len(stored) + 1)
        /\ \A k \in 1 .. Len(stored) : stored'[k] = stored[k] /\ stored[k] \in Variables
        /\ stored'[Len(stored) + 1] = v
        /\ \A k \in DOMAIN stored' : k \in DOMAIN stored \/ k = Len(stored) + 1
    BY <1>1, <1>2, <1>6, Appended
  <2> QED
    BY <2>1
<1>8. TypeOK'
  <2>1. start' \in 0 .. recv' /\ recv' \in 0 .. Total' /\ dropped' \in 0 .. recv'
    BY <1>0, <1>1, <1>2, <1>3 DEF TypeOK, Total
  <2> QED
    BY <1>0, <1>2, <1>7, <2>1 DEF TypeOK, Variables
<1>9. \A k \in DOMAIN stored : stored[k] < v
  <2>1. SUFFICES ASSUME NEW k \in DOMAIN stored, ~(stored[k] < v) PROVE FALSE
    OBVIOUS
  <2>2. stored[k] \in Variables /\ stored[k] \in Nat /\ Ends(stored[k]) \in Nat
    BY <1>5, <1>7
  <2>3. Ends(stored[k]) <= start
    BY <1>0 DEF StoredBefore
  <2>4. Ends(v) <= Ends(stored[k])
    BY <1>0, <1>1, <2>1, <2>2, TheFirst
  <2> QED
    BY <1>1, <2>2, <2>3, <2>4
<1>10. StoredInOrder'
  <2>1. ASSUME NEW k \in DOMAIN stored' PROVE message[stored'[k]].valid
    BY <1>0, <1>4, <1>7 DEF StoredInOrder
  <2>2. ASSUME NEW k \in DOMAIN stored', NEW l \in DOMAIN stored', k < l
        PROVE  stored'[k] < stored'[l]
    <3>1. k \in DOMAIN stored
      BY <1>7, <2>2
    <3>2. CASE l \in DOMAIN stored
      BY <1>0, <1>7, <2>2, <3>1, <3>2 DEF StoredInOrder
    <3>3. CASE l = Len(stored) + 1
      BY <1>7, <1>9, <3>1, <3>3
    <3> QED
      BY <1>7, <3>2, <3>3
  <2> QED
    BY <1>2, <2>1, <2>2 DEF StoredInOrder
<1>11. StoredBefore'
  <2>1. ASSUME NEW k \in DOMAIN stored' PROVE Ends(stored'[k]) <= Ends(v)
    <3>1. CASE k \in DOMAIN stored
      <4>1. stored[k] \in Variables /\ stored'[k] = stored[k] /\ Ends(stored[k]) \in Nat
        BY <1>5, <1>7, <3>1
      <4>2. Ends(stored[k]) <= start
        BY <1>0, <3>1 DEF StoredBefore
      <4>3. Ends(stored[k]) <= Ends(v)
        BY <1>1, <4>1, <4>2
      <4> QED
        BY <4>1, <4>3
    <3>2. CASE k = Len(stored) + 1
      BY <1>1, <1>7, <3>2
    <3> QED
      BY <1>7, <3>1, <3>2
  <2> QED
    BY <1>2, <1>3, <2>1 DEF StoredBefore, Ends
<1>12. NothingPassed'
  <2>1. ASSUME NamesFit, NEW w \in Variables, message[w].valid, dropped <= Begins(w), Begins(w) < Ends(v)
        PROVE  \E k \in DOMAIN stored' : stored'[k] = w
    <3>1. CASE Begins(w) < start
      <4>1. PICK k \in DOMAIN stored : stored[k] = w
        BY <1>0, <2>1, <3>1 DEF NothingPassed, IsStored
      <4> QED
        BY <1>7, <4>1
    <3>2. CASE start <= Begins(w)
      <4>1. v <= w /\ w \in Nat /\ Begins(w) \in Nat
        BY <1>5, <3>2 DEF Found
      <4>2. ~(v < w)
        <5>1. SUFFICES ASSUME v < w PROVE FALSE
          OBVIOUS
        <5>2. Ends(v) <= Begins(w)
          BY <1>0, <1>1, <5>1, Sizes, InTurn
        <5> QED
          BY <1>1, <2>1, <4>1, <5>2
      <4>3. v = w
        BY <1>1, <4>1, <4>2
      <4> QED
        BY <1>7, <4>3
    <3> QED
      BY <1>1, <1>5, <3>1, <3>2
  <2> QED
    BY <1>2, <1>3, <2>1 DEF NothingPassed, NamesFit, Variables, Begins, IsStored
<1>13. NothingWaits'
  BY <1>2 DEF NothingWaits
<1> QED
  BY <1>8, <1>10, <1>11, <1>12, <1>13 DEF PInv

LEMMA NameFoundStep ==
    ASSUME PInv, NEW v, Found(v), v = TheVariable(Closes(v)), NameFound(Opens(v), Closes(v))
    PROVE  PInv'
<1>1. TypeOK
  BY DEF PInv
<1>2. /\ Begins(v) \in Nat /\ Ends(v) \in Nat
      /\ message[v].name \in Nat /\ message[v].size \in Nat
      /\ Opens(v) = Begins(v) + 1
      /\ Ends(v) = Begins(v) + message[v].name + message[v].size + 27
      /\ Closes(v) - Opens(v) - 1 = message[v].name
      /\ ProcessedSize(message[v].name, message[v].size) = Ends(v) - Begins(v)
      /\ recv \in Nat
  BY <1>1, FoundSizes
<1> DEFINE processedSize == ProcessedSize(message[v].name, message[v].size)
<1>3. \/ NameTooLong(Opens(v), Closes(v))
      \/ HeaderIsCut(Opens(v), message[v].name)
      \/ Drop(v)
      \/ Accepted(v) /\ ValueIsCut(Opens(v), processedSize)
      \/ Accepted(v) /\ ReadVarValueAndSkip(v, Opens(v), processedSize)
  BY <1>2 DEF NameFound
<1>4. CASE NameTooLong(Opens(v), Closes(v))
  BY <1>4, NameTooLongStep
<1>5. CASE HeaderIsCut(Opens(v), message[v].name)
  <2>1. /\ Refill(Opens(v) - 1)
        /\ ~(recv - (Opens(v) - 1) - (message[v].name + 3) >= 13)
    BY <1>5 DEF HeaderIsCut, HeaderIsIn, NameProcessed, PatternSize, HeaderSize
  <2>2. recv < Ends(v)
    BY <1>2, <2>1
  <2> QED
    BY <2>1, <2>2, VariableIsCutStep
<1>6. CASE Drop(v)
  BY <1>6, DropStep
<1>7. CASE Accepted(v) /\ ValueIsCut(Opens(v), processedSize)
  <2>1. /\ Refill(Opens(v) - 1)
        /\ ~(recv - (Opens(v) - 1) >= Ends(v) - Begins(v))
    BY <1>2, <1>7 DEF ValueIsCut, ValueIsIn
  <2>2. recv < Ends(v)
    BY <1>2, <2>1
  <2> QED
    BY <2>1, <2>2, VariableIsCutStep
<1>8. CASE Accepted(v) /\ ReadVarValueAndSkip(v, Opens(v), processedSize)
  BY <1>8, ReadVarStep
<1> QED
  BY <1>3, <1>4, <1>5, <1>6, <1>7, <1>8

LEMMA ConsumeStep ==
    ASSUME PInv, Consume
    PROVE  PInv'
<1>1. \/ PayloadIsEmpty
      \/ Unsynchronised
      \/ Searching /\ OpeningIsCut(Opened)
      \/ Searching /\ OpeningFound(Opened)
  BY DEF Consume, PInv, Searching
<1>2. CASE PayloadIsEmpty
  BY <1>2, PayloadIsEmptyStep
<1>3. CASE Unsynchronised
  BY <1>3, UnsynchronisedStep
<1>4. CASE Searching /\ OpeningIsCut(Opened)
  BY <1>4, OpeningIsCutStep
<1>5. CASE Searching /\ OpeningFound(Opened)
  <2> DEFINE closing == First(Closings(Opened))
             opening == NameOpening(Opened, Closings(Opened))
             v       == TheVariable(closing)
  <2>1. \/ NameIsCut(Closings(Opened), opening)
        \/ NameClosed(Closings(Opened)) /\ NameFound(opening, closing)
    BY <1>5 DEF OpeningFound
  <2>2. CASE NameIsCut(Closings(Opened), opening)
    BY <1>5, <2>2, NameIsCutStep
  <2>3. CASE NameClosed(Closings(Opened)) /\ NameFound(opening, closing)
    <3>1. /\ v \in Variables
          /\ opening = Opens(v) /\ closing = Closes(v)
          /\ start <= Begins(v) /\ closing <= recv
          /\ \A w \in Variables : start <= Begins(w) => v <= w
      BY <1>5, <2>3, TheName
    <3>2. v = TheVariable(closing)
      OBVIOUS
    <3> HIDE DEF v, opening, closing
    <3>3. Found(v) /\ v = TheVariable(Closes(v)) /\ NameFound(Opens(v), Closes(v))
      BY <2>3, <3>1, <3>2 DEF Found
    <3> QED
      BY <3>3, NameFoundStep
  <2> QED
    BY <2>1, <2>2, <2>3
<1> QED
  BY <1>1, <1>2, <1>3, <1>4, <1>5

-----------------------------------------------------------------------------
(* The steps that read.                                                    *)

LEMMA InitPInv ==
    ASSUME Init
    PROVE  PInv
<1>1. /\ message \in Messages /\ isChunked \in BOOLEAN /\ pc = "chunk"
      /\ start = 0 /\ recv = 0 /\ stored = <<>> /\ dropped = 0
  BY DEF Init
<1>2. Total \in Nat
  <2>1. Len(message) \in Variables
    BY <1>1, Places DEF Variables
  <2>2. Ends(Len(message)) \in Nat
    BY <1>1, <2>1, Place
  <2> QED
    BY <2>2 DEF Total, Ends
<1>3. stored \in Seq(Variables) /\ DOMAIN stored = {}
  BY <1>1
<1>4. TypeOK
  BY <1>1, <1>2, <1>3 DEF TypeOK
<1>5. StoredInOrder /\ StoredBefore
  BY <1>3 DEF StoredInOrder, StoredBefore
<1>6. \A v \in Variables : ~(Begins(v) < 0) /\ 0 < Ends(v)
  <2>1. SUFFICES ASSUME NEW v \in Variables PROVE ~(Begins(v) < 0) /\ 0 < Ends(v)
    OBVIOUS
  <2>2. /\ Begins(v) \in Nat /\ Opens(v) \in Nat /\ Closes(v) \in Nat /\ Ends(v) \in Nat
        /\ Begins(v) < Opens(v) /\ Opens(v) < Closes(v) /\ Closes(v) + 25 <= Ends(v)
    BY <1>1, Place
  <2> QED
    BY <2>2
<1> QED
  BY <1>1, <1>4, <1>5, <1>6 DEF PInv, NothingPassed, NothingWaits

LEMMA ReadStep ==
    ASSUME PInv, ReadNewChunk
    PROVE  PInv'
<1>1. TypeOK
  BY DEF PInv
<1>2. start \in Nat /\ recv \in Nat /\ Total \in Nat /\ start <= recv /\ dropped \in Nat /\ dropped <= recv
  BY <1>1, Sizes
<1>3. /\ recv < Total /\ pc' = "parse" /\ start' = start
      /\ UNCHANGED <<message, stored, dropped>> /\ isChunked' = isChunked
  BY DEF ReadNewChunk
<1>4. PICK chunkSize \in ChunkSizes : recv' = recv + chunkSize
  BY DEF ReadNewChunk
<1>5. chunkSize \in 1 .. Total - recv
  <2>1. PieceSize \in Nat \ {0}
    BY MessagesAssumption
  <2>2. CASE isChunked
    BY <2>2 DEF ChunkSizes
  <2>3. CASE ~isChunked /\ Total - recv < PieceSize
    BY <1>2, <1>3, <2>3 DEF ChunkSizes
  <2>4. CASE ~isChunked /\ ~(Total - recv < PieceSize)
    BY <1>2, <1>3, <2>1, <2>4 DEF ChunkSizes
  <2> QED
    BY <2>2, <2>3, <2>4
<1>6. recv' \in 0 .. Total /\ start' \in 0 .. recv' /\ dropped' \in 0 .. recv'
  BY <1>2, <1>3, <1>4, <1>5
<1>7. TypeOK'
  BY <1>1, <1>3, <1>6 DEF TypeOK, Total, Variables
<1> QED
  BY <1>2, <1>3, <1>7, Kept

LEMMA ReplyStep ==
    ASSUME PInv, LastChunk \/ ReadFails
    PROVE  PInv'
<1>1. TypeOK /\ NothingWaits /\ start \in Nat
  BY Sizes DEF PInv
<1>2. /\ pc = "chunk" /\ pc' \in {"ok", "error"} /\ start' = start /\ recv' = recv
      /\ UNCHANGED <<message, stored, dropped>> /\ isChunked' = isChunked
  BY DEF LastChunk, ReadFails
<1>3. TypeOK'
  BY <1>1, <1>2 DEF TypeOK, Total, Variables
<1>4. NamesFit => \A v \in Variables : start <= Begins(v) => recv' < Ends(v)
  BY <1>1, <1>2 DEF NothingWaits
<1> QED
  BY <1>1, <1>2, <1>3, <1>4, Kept

LEMMA Invariance == Spec => []PInv
<1>1. Init => PInv
  BY InitPInv
<1>2. PInv /\ [Next]_vars => PInv'
  <2>1. SUFFICES ASSUME PInv, [Next]_vars PROVE PInv'
    OBVIOUS
  <2>2. CASE Next
    BY <2>1, <2>2, ReadStep, ReplyStep, ConsumeStep DEF Next
  <2>3. CASE UNCHANGED vars
    BY <2>1, <2>3 DEF vars, PInv, TypeOK, StoredInOrder, StoredBefore, NothingPassed, NothingWaits,
       NamesFit, IsStored, Variables, Total, Begins, Ends
  <2> QED
    BY <2>1, <2>2, <2>3
<1> QED
  BY <1>1, <1>2, PTL DEF Spec

-----------------------------------------------------------------------------
(* The theorems.                                                           *)

\* ReadNewChunk and Consume keep the payload inside what was received, and
\* take only variables of the message, whatever the message and its chunks.
THEOREM TypeCorrect == Spec => []TypeOK
<1>1. PInv => TypeOK
  BY DEF PInv
<1> QED
  BY <1>1, Invariance, PTL

\* ReadVarNameAndIndex finds the variables one after the other: what is stored
\* was sent, once and in this order, and had a header that was accepted.
THEOREM VariablesComeInOrder == Spec => []StoredInOrder
<1>1. PInv => StoredInOrder
  BY DEF PInv
<1> QED
  BY <1>1, Invariance, PTL

\* ClientService asks for more only when no variable in the payload is
\* complete: all of them are stored, but those that had begun when
\* GetLocalIndex had the payload dropped.
THEOREM NothingForgotten == Spec => []NothingIsLeft
<1>1. ASSUME PInv PROVE NothingIsLeft
  <2>0. TypeOK /\ NothingPassed /\ NothingWaits
    BY <1>1 DEF PInv
  <2>1. SUFFICES ASSUME pc \in {"chunk", "ok"}, NamesFit, NEW v \in Variables,
                        message[v].valid, dropped <= Begins(v), Ends(v) <= recv
                 PROVE  IsStored(v)
    BY DEF NothingIsLeft, NamesFit, IsStored, Begins, Ends
  <2>2. start \in Nat /\ recv \in Nat /\ Begins(v) \in Nat /\ Ends(v) \in Nat
    BY <2>0, Sizes, Place
  <2>3. CASE Begins(v) < start
    BY <2>0, <2>1, <2>3 DEF NothingPassed
  <2>4. CASE start <= Begins(v)
    BY <2>0, <2>1, <2>2, <2>4 DEF NothingWaits
  <2> QED
    BY <2>2, <2>3, <2>4
<1> QED
  BY <1>1, Invariance, PTL


-----------------------------------------------------------------------------
(***************************************************************************)
(* Proofs about PvList for every set of names and every length: the list   *)
(* is sorted, and the bisection finds exactly the names it holds.          *)
(***************************************************************************)

USE ListAssumption

\* What the arithmetic of the bisection needs of a half.
LEMMA HalfFacts ==
    ASSUME NEW n \in Nat
    PROVE  /\ Half(n) \in Nat /\ Half(n) <= n
           /\ n > 0 => Half(n) < n
           /\ n % 2 = 0 => n = 2 * Half(n)
           /\ n % 2 # 0 => n % 2 = 1 /\ n = 2 * Half(n) + 1
  BY DEF Half

LEMMA NamesOrder == \A a, b \in Names : a \in Int /\ b \in Int
  BY DEF ListAssumption

-----------------------------------------------------------------------------
(* The list.                                                               *)

ListInv ==
    /\ listPc \in {"read", "insert", "ready", "search", "done"}
    /\ numberOfNames \in 0 .. maxNumberOfVariables
    /\ pvs \in [Positions -> Names]
    /\ counter \in 0 .. numberOfNames /\ insertAt \in 0 .. counter
    /\ varName \in Names /\ ok \in BOOLEAN
    /\ SortedList

LEMMA ListInit == PvListInit => ListInv
<1> SUFFICES ASSUME PvListInit PROVE ListInv
  OBVIOUS
<1>1. counter \in 0 .. numberOfNames /\ insertAt \in 0 .. counter
  BY DEF PvListInit, ListAssumption
<1>2. SortedList
  BY DEF PvListInit, SortedList
<1> QED
  BY <1>1, <1>2 DEF PvListInit, ListInv

LEMMA ReadNameKeepsList ==
    ASSUME ListInv, NEW name \in Names, ReadName(name) PROVE ListInv'
<1>1. counter \in Positions /\ counter \in Nat
  BY DEF ListInv, ReadName, ListAssumption, Positions
<1>2. pvs' \in [Positions -> Names] /\ insertAt' \in 0 .. counter'
  BY <1>1 DEF ListInv, ReadName
<1>3. ASSUME NEW p \in 0 .. counter, NEW q \in 0 .. counter, p < q, q # insertAt'
      PROVE  ~Precedes(pvs'[q], pvs'[p])
  <2>1. p \in 0 .. counter - 1 /\ q \in 0 .. counter - 1
    BY <1>1, <1>3 DEF ReadName
  <2>2. pvs'[p] = pvs[p] /\ pvs'[q] = pvs[q]
    BY <1>1, <2>1 DEF ListInv, ReadName, Positions, ListAssumption
  <2> QED
    BY <1>3, <2>1, <2>2 DEF ListInv, SortedList, ReadName
<1> QED
  BY <1>1, <1>2, <1>3 DEF ListInv, SortedList, ReadName, searchVars

LEMMA MoveForwardKeepsList == ASSUME ListInv, MoveForward PROVE ListInv'
<1>0. /\ counter \in Nat /\ insertAt \in Nat /\ insertAt > 0 /\ insertAt <= counter /\ counter < numberOfNames
      /\ listPc = "insert" /\ Precedes(pvs[insertAt], pvs[insertAt - 1])
  BY DEF ListInv, SortedList, MoveForward, BeforePrevious, ListAssumption
<1>1. 0 .. counter \subseteq Positions /\ insertAt - 1 \in 0 .. counter /\ insertAt \in 0 .. counter
  BY <1>0 DEF ListInv, Positions, ListAssumption
<1>2. pvs' \in [Positions -> Names]
  BY <1>1 DEF ListInv, MoveForward
<1>3. \A p \in 0 .. counter :
        pvs'[p] = IF p = insertAt THEN pvs[insertAt - 1] ELSE IF p = insertAt - 1 THEN pvs[insertAt] ELSE pvs[p]
  BY <1>0, <1>1 DEF ListInv, MoveForward
<1>4. \A p \in 0 .. counter : pvs[p] \in Int
  BY <1>1, NamesOrder DEF ListInv
<1>5. \A p, q \in 0 .. counter : p < q /\ q # insertAt => ~(pvs[q] < pvs[p])
  BY <1>0 DEF ListInv, SortedList, Precedes
<1>6. ASSUME NEW p \in 0 .. counter, NEW q \in 0 .. counter, p < q, q # insertAt - 1
      PROVE  ~(pvs'[q] < pvs'[p])
  <2>1. CASE q = insertAt
    <3>1. CASE p = insertAt - 1
      BY <1>0, <1>1, <1>3, <1>4, <2>1, <3>1 DEF Precedes
    <3>2. CASE p # insertAt - 1
      <4>1. p < insertAt - 1 /\ insertAt - 1 # insertAt
        BY <1>0, <1>6, <2>1, <3>2
      <4> QED
        BY <1>0, <1>1, <1>3, <1>4, <1>5, <2>1, <3>2, <4>1
    <3> QED
      BY <3>1, <3>2
  <2>2. CASE q # insertAt
    <3>1. pvs'[q] = pvs[q] /\ q \in Int /\ p \in Int
      BY <1>3, <1>6, <2>2
    <3>2. CASE p = insertAt \/ p = insertAt - 1
      <4>1. insertAt < q /\ insertAt - 1 < q
        BY <1>0, <1>6, <2>2, <3>1, <3>2
      <4> QED
        BY <1>1, <1>3, <1>5, <2>2, <3>1, <3>2, <4>1
    <3>3. CASE p # insertAt /\ p # insertAt - 1
      BY <1>3, <1>5, <1>6, <2>2, <3>1, <3>3
    <3> QED
      BY <3>2, <3>3
  <2> QED
    BY <2>1, <2>2
<1> QED
  BY <1>0, <1>1, <1>2, <1>6 DEF ListInv, SortedList, MoveForward, searchVars, Precedes

LEMMA InPlaceKeepsList == ASSUME ListInv, InPlace PROVE ListInv'
<1>0. /\ counter \in Nat /\ insertAt \in Nat /\ insertAt <= counter /\ counter < numberOfNames
      /\ listPc = "insert" /\ (insertAt > 0 => ~(pvs[insertAt] < pvs[insertAt - 1])) /\ numberOfNames \in Nat
  BY DEF ListInv, SortedList, InPlace, BeforePrevious, Precedes, ListAssumption
<1>1. \A p \in 0 .. counter : pvs[p] \in Int
  <2>1. 0 .. counter \subseteq Positions
    BY <1>0 DEF ListInv, Positions, ListAssumption
  <2> QED
    BY <2>1, NamesOrder DEF ListInv
<1>2. \A p, q \in 0 .. counter : p < q /\ q # insertAt => ~(pvs[q] < pvs[p])
  BY <1>0 DEF ListInv, SortedList, Precedes
<1>3. ASSUME NEW p \in 0 .. counter, NEW q \in 0 .. counter, p < q
      PROVE  ~(pvs[q] < pvs[p])
  <2>1. CASE q # insertAt
    BY <1>2, <1>3, <2>1
  <2>2. CASE q = insertAt /\ p = insertAt - 1
    BY <1>0, <1>3, <2>2
  <2>3. CASE q = insertAt /\ p # insertAt - 1
    <3>1. p < insertAt - 1 /\ insertAt - 1 # insertAt /\ insertAt - 1 \in 0 .. counter /\ insertAt > 0
      BY <1>0, <1>3, <2>3
    <3> QED
      BY <1>0, <1>1, <1>2, <1>3, <2>3, <3>1
  <2> QED
    BY <2>1, <2>2, <2>3
<1>4. counter' = counter + 1 /\ pvs' = pvs /\ listPc' = "read" /\ insertAt' = 0
      /\ 0 .. counter' - 1 = 0 .. counter
  BY <1>0 DEF InPlace
<1>5. counter' \in 0 .. numberOfNames' /\ insertAt' \in 0 .. counter'
  BY <1>0, <1>4 DEF InPlace
<1> QED
  BY <1>3, <1>4, <1>5 DEF ListInv, SortedList, InPlace, searchVars, Precedes

LEMMA ListStep == ListInv /\ [PvListNext]_pvListVars => ListInv'
<1> SUFFICES ASSUME ListInv, [PvListNext]_pvListVars PROVE ListInv'
  OBVIOUS
<1>1. ASSUME NEW name \in Names, ReadName(name) PROVE ListInv'
  BY <1>1, ReadNameKeepsList
<1>2. ASSUME NEW name \in Names, BeginSearch(name) PROVE ListInv'
  BY <1>2 DEF BeginSearch, ListInv, SortedList, listVars
<1>3. CASE MoveForward
  BY <1>3, MoveForwardKeepsList
<1>4. CASE InPlace
  BY <1>4, InPlaceKeepsList
<1>5. CASE Initialised
  BY <1>5 DEF Initialised, ListInv, SortedList, listVars, searchVars
<1>6. CASE SearchStep
  BY <1>6 DEF SearchStep, PvFound, SearchLeft, SearchRight, NameIsAbsent, ListInv, SortedList,
              listVars, searchVars
<1>7. CASE ReturnIndex
  BY <1>7 DEF ReturnIndex, ListInv, SortedList, listVars, searchVars
<1>8. CASE UNCHANGED pvListVars
  BY <1>8 DEF pvListVars, listVars, searchVars, ListInv, SortedList
<1> QED
  BY <1>1, <1>2, <1>3, <1>4, <1>5, <1>6, <1>7, <1>8 DEF PvListNext

-----------------------------------------------------------------------------
(* The search.                                                             *)

IndInv ==
    /\ ListInv
    /\ range_1 \in Nat /\ range \in Nat /\ middle \in Nat
    /\ SearchInv /\ SearchFinds

\* The part of the list left by an iteration still holds every position of
\* the name, because the list is sorted.
LEMMA SearchLeftKeeps == ASSUME IndInv, SearchLeft PROVE IndInv'
<1>0. /\ range_1 \in Nat /\ range_1 > 0 /\ middle \in Nat /\ numberOfNames \in Nat
      /\ range = Half(range_1) /\ ~ok /\ LeftEnd >= 0 /\ RightEnd < numberOfNames
      /\ listPc = "search" /\ counter = numberOfNames /\ numberOfNames <= maxNumberOfVariables
  BY DEF IndInv, ListInv, SortedList, SearchLeft, SearchInv, ListAssumption
<1>1. /\ range \in Nat /\ range < range_1 /\ Half(range) \in Nat
      /\ \/ range % 2 = 0 /\ range = 2 * Half(range)
         \/ range % 2 = 1 /\ range = 2 * Half(range) + 1
  BY <1>0, HalfFacts
<1>2. middle < numberOfNames /\ varName < pvs[middle]
  BY <1>0, <1>1 DEF SearchLeft, GoLeft, LeftEnd, RightEnd, Precedes
<1>3. range_1' = range /\ range' = Half(range) /\ middle' = LeftEnd + Half(range)
  BY <1>0, <1>1 DEF SearchLeft, LeftEnd
<1>4. LeftEnd' = LeftEnd /\ RightEnd' = LeftEnd + range - 1 /\ LeftEnd \in Int
  BY <1>0, <1>1, <1>3 DEF LeftEnd, RightEnd
<1>5. ASSUME NEW p \in 0 .. numberOfNames - 1, pvs[p] = varName
      PROVE  p \in LeftEnd .. LeftEnd + range - 1
  <2>1. p \in LeftEnd .. RightEnd
    BY <1>0, <1>5 DEF IndInv, SearchInv
  <2>2. ~(p >= middle)
    <3> SUFFICES ASSUME p >= middle PROVE FALSE
      OBVIOUS
    <3>1. p # middle /\ middle \in 0 .. counter - 1 /\ p \in 0 .. counter - 1 /\ middle < p
      BY <1>0, <1>2, <1>5, NamesOrder DEF IndInv, ListInv
    <3> QED
      BY <1>0, <1>2, <1>5, <3>1 DEF IndInv, ListInv, SortedList, Precedes
  <2> QED
    BY <1>0, <1>1, <2>1, <2>2 DEF LeftEnd
<1>6. ListInv'
  BY ListStep DEF IndInv, PvListNext, SearchStep
<1>7. SearchInv'
  <2>1. range' = Half(range_1') /\ ~ok' /\ LeftEnd' >= 0 /\ RightEnd' < numberOfNames'
    BY <1>0, <1>1, <1>3, <1>4 DEF SearchLeft, listVars, RightEnd
  <2>2. \A p \in 0 .. numberOfNames' - 1 : pvs'[p] = varName' => p \in LeftEnd' .. RightEnd'
    BY <1>4, <1>5 DEF SearchLeft, listVars
  <2> QED
    BY <2>1, <2>2 DEF SearchInv
<1>8. range_1' \in Nat /\ range' \in Nat /\ middle' \in Nat
  BY <1>0, <1>1, <1>3, <1>4
<1> QED
  BY <1>0, <1>6, <1>7, <1>8 DEF IndInv, SearchFinds, SearchLeft

LEMMA SearchRightKeeps == ASSUME IndInv, SearchRight PROVE IndInv'
<1>0. /\ range_1 \in Nat /\ range_1 > 0 /\ middle \in Nat /\ numberOfNames \in Nat
      /\ range = Half(range_1) /\ ~ok /\ LeftEnd >= 0 /\ RightEnd < numberOfNames
      /\ listPc = "search" /\ counter = numberOfNames /\ numberOfNames <= maxNumberOfVariables
      /\ middle < numberOfNames /\ pvs[middle] < varName
  BY DEF IndInv, ListInv, SortedList, SearchRight, SearchInv, Precedes, ListAssumption
<1>1. /\ range \in Nat /\ range < range_1
      /\ \/ range_1 % 2 = 0 /\ range_1 = 2 * range
         \/ range_1 % 2 = 1 /\ range_1 = 2 * range + 1
  BY <1>0, HalfFacts
<1>2. Right = range_1 - range - 1 /\ Right \in Nat
  BY <1>0, <1>1 DEF Right
<1>3. Half(Right) \in Nat
  BY <1>2, HalfFacts
<1>4. range_1' = Right /\ range' = Half(Right) /\ middle' = middle + Half(Right) + 1
  BY DEF SearchRight
<1>5. LeftEnd' = middle + 1 /\ RightEnd' = RightEnd
  <2>1. LeftEnd' = middle' - range' /\ RightEnd' = LeftEnd' + range_1' - 1
    BY DEF LeftEnd, RightEnd
  <2>2. LeftEnd' = middle + 1
    BY <1>0, <1>3, <1>4, <2>1
  <2>3. RightEnd' = middle + 1 + (range_1 - range - 1) - 1
    BY <1>2, <1>4, <2>1, <2>2
  <2>4. RightEnd = middle - range + range_1 - 1
    BY DEF LeftEnd, RightEnd
  <2> QED
    BY <1>0, <1>1, <2>2, <2>3, <2>4
<1>6. ASSUME NEW p \in 0 .. numberOfNames - 1, pvs[p] = varName
      PROVE  p \in middle + 1 .. RightEnd
  <2>1. p \in LeftEnd .. RightEnd
    BY <1>0, <1>6 DEF IndInv, SearchInv
  <2>2. ~(p <= middle)
    <3> SUFFICES ASSUME p <= middle PROVE FALSE
      OBVIOUS
    <3>1. p # middle /\ middle \in 0 .. counter - 1 /\ p \in 0 .. counter - 1 /\ p < middle
      BY <1>0, <1>6, NamesOrder DEF IndInv, ListInv
    <3> QED
      BY <1>0, <1>6, <3>1 DEF IndInv, ListInv, SortedList, Precedes
  <2> QED
    BY <1>0, <2>1, <2>2 DEF LeftEnd, RightEnd
<1>7. ListInv'
  BY ListStep DEF IndInv, PvListNext, SearchStep
<1>8. SearchInv'
  <2>1. range' = Half(range_1') /\ ~ok' /\ LeftEnd' >= 0 /\ RightEnd' < numberOfNames'
    BY <1>0, <1>4, <1>5 DEF SearchRight, listVars
  <2>2. \A p \in 0 .. numberOfNames' - 1 : pvs'[p] = varName' => p \in LeftEnd' .. RightEnd'
    BY <1>5, <1>6 DEF SearchRight, listVars
  <2> QED
    BY <2>1, <2>2 DEF SearchInv
<1>9. range_1' \in Nat /\ range' \in Nat /\ middle' \in Nat
  BY <1>0, <1>2, <1>3, <1>4
<1> QED
  BY <1>0, <1>7, <1>8, <1>9 DEF IndInv, SearchFinds, SearchRight

LEMMA BeginSearchKeeps ==
    ASSUME IndInv, NEW name \in Names, BeginSearch(name) PROVE IndInv'
<1>1. ListInv'
  BY ListStep DEF IndInv, PvListNext
<1>2. numberOfNames \in Nat /\ Half(numberOfNames) \in Nat
  BY HalfFacts DEF IndInv, ListInv, ListAssumption
<1>3. /\ range_1' = numberOfNames /\ range' = Half(numberOfNames)
      /\ middle' = Half(numberOfNames) /\ numberOfNames' = numberOfNames
      /\ ok' = FALSE /\ listPc' = "search"
  BY DEF BeginSearch, listVars
<1>4. LeftEnd' = 0 /\ RightEnd' = numberOfNames' - 1
  BY <1>2, <1>3 DEF LeftEnd, RightEnd
<1>5. SearchInv'
  BY <1>2, <1>3, <1>4 DEF SearchInv
<1> QED
  BY <1>1, <1>2, <1>3, <1>5 DEF IndInv, SearchFinds

LEMMA NotFoundKeeps == ASSUME IndInv, NameIsAbsent PROVE IndInv'
<1>1. ListInv'
  BY ListStep DEF IndInv, PvListNext, SearchStep
<1>2. LeftEnd \in Int /\ RightEnd = LeftEnd - 1
  <2>1. range_1 = 0 /\ range \in Nat /\ middle \in Nat
    BY DEF NameIsAbsent, IndInv
  <2> QED
    BY <2>1 DEF LeftEnd, RightEnd
<1>3. \A p \in 0 .. numberOfNames - 1 : pvs[p] # varName
  BY <1>2 DEF NameIsAbsent, IndInv, SearchInv
<1>4. ~ok
  BY DEF NameIsAbsent, IndInv, SearchInv
<1> QED
  BY <1>1, <1>3, <1>4 DEF IndInv, SearchInv, SearchFinds, NameIsAbsent, listVars, searchVars

LEMMA IndStep == IndInv /\ [PvListNext]_pvListVars => IndInv'
<1> SUFFICES ASSUME IndInv, [PvListNext]_pvListVars PROVE IndInv'
  OBVIOUS
<1>0. ListInv'
  BY ListStep DEF IndInv
<1>1. ASSUME NEW name \in Names, ReadName(name) PROVE IndInv'
  BY <1>0, <1>1 DEF ReadName, IndInv, SearchInv, SearchFinds, searchVars
<1>2. ASSUME NEW name \in Names, BeginSearch(name) PROVE IndInv'
  BY <1>2, BeginSearchKeeps
<1>3. CASE MoveForward \/ InPlace \/ Initialised \/ ReturnIndex
  BY <1>0, <1>3 DEF MoveForward, InPlace, Initialised, ReturnIndex, IndInv, SearchInv, SearchFinds,
                    searchVars
<1>4. CASE PvFound
  BY <1>0, <1>4 DEF PvFound, GoLeft, IndInv, SearchInv, SearchFinds, listVars, ListInv
<1>5. CASE SearchLeft
  BY <1>5, SearchLeftKeeps
<1>6. CASE SearchRight
  BY <1>6, SearchRightKeeps
<1>7. CASE NameIsAbsent
  BY <1>7, NotFoundKeeps
<1>8. CASE UNCHANGED pvListVars
  BY <1>0, <1>8 DEF pvListVars, listVars, searchVars, IndInv, SearchInv, SearchFinds, LeftEnd, RightEnd
<1> QED
  BY <1>1, <1>2, <1>3, <1>4, <1>5, <1>6, <1>7, <1>8 DEF PvListNext, SearchStep

LEMMA ListInduction == PvListSpec => []IndInv
<1>1. PvListInit => IndInv
  BY ListInit DEF PvListInit, IndInv, SearchInv, SearchFinds
<1> QED
  BY <1>1, IndStep, PTL DEF PvListSpec

-----------------------------------------------------------------------------

\* The list, its counters and the variables of the search keep their types:
\* no unsigned position or size of GetLocalVariableIndex goes below zero.
THEOREM ListTypeCorrect == PvListSpec => []PvListTypeOK
<1>1. IndInv => PvListTypeOK
  BY DEF IndInv, ListInv, PvListTypeOK
<1> QED
  BY <1>1, ListInduction, PTL

\* The insertion of Initialise leaves the list sorted, whatever the file.
THEOREM ListIsSorted == PvListSpec => []SortedList
<1>1. IndInv => SortedList
  BY DEF IndInv, ListInv
<1> QED
  BY <1>1, ListInduction, PTL

\* The loop invariant of GetLocalVariableIndex.
THEOREM SearchInvariant == PvListSpec => []SearchInv
<1>1. IndInv => SearchInv
  BY DEF IndInv
<1> QED
  BY <1>1, ListInduction, PTL

\* GetLocalVariableIndex finds a name exactly when the list holds it.
THEOREM SearchIsCorrect == PvListSpec => []SearchFinds
<1>1. IndInv => SearchFinds
  BY DEF IndInv
<1> QED
  BY <1>1, ListInduction, PTL

\* Every iteration that goes on leaves a smaller part of the list.
THEOREM SearchTerminates == PvListSpec => SearchShrinks
<1>1. ASSUME IndInv, [PvListNext]_pvListVars
      PROVE  [listPc = "search" /\ listPc' = "search" => range_1' < range_1]_pvListVars
  <2> SUFFICES ASSUME PvListNext, listPc = "search", listPc' = "search" PROVE range_1' < range_1
    BY <1>1
  <2>0. range_1 \in Nat /\ range = Half(range_1)
    BY <1>1 DEF IndInv, SearchInv
  <2>1. CASE SearchLeft
    BY <2>0, <2>1, HalfFacts DEF SearchLeft
  <2>2. CASE SearchRight
    <3>1. range_1 > 0 /\ Half(range_1) < range_1 /\ Half(range_1) \in Nat
      BY <2>0, <2>2, HalfFacts DEF SearchRight
    <3>2. Right < range_1
      BY <2>0, <3>1 DEF Right
    <3> QED
      BY <2>2, <3>2 DEF SearchRight
  <2> QED
    BY <2>1, <2>2 DEF PvListNext, SearchStep, ReadName, BeginSearch, MoveForward, InPlace, Initialised,
                      PvFound, NameIsAbsent, ReturnIndex
<1> QED
  BY <1>1, ListInduction, PTL DEF PvListSpec, SearchShrinks

=============================================================================
