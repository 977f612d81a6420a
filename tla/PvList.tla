------------------------------- MODULE PvList -------------------------------
(***************************************************************************)
(* The list of PVs of DiodeReceiver: Initialise reads the names of a file  *)
(* and inserts each one in order; GetLocalVariableIndex finds a name in    *)
(* the list by bisection, keeping a size (range_1), its half (range) and   *)
(* the position half way (index, here middle) instead of two ends.         *)
(*                                                                         *)
(* A name is a number and Compare the order of the numbers: the code needs *)
(* of StringHelper::Compare only that it is one total order.               *)
(***************************************************************************)
EXTENDS Integers

CONSTANTS
    Names,                  \* the names a file may hold
    maxNumberOfVariables    \* bound on the length of the list

ASSUME ListAssumption ==
    /\ Names \subseteq Nat
    /\ maxNumberOfVariables \in Nat

Positions == 0 .. maxNumberOfVariables - 1

VARIABLES
    listPc,             \* "read", "insert", "ready", "search", "done"
    numberOfNames,      \* numberOfVariables, the names counted in the file
    pvs,                \* the name at each position
    counter,            \* names read
    insertAt,           \* where the last one is
    varName,            \* the name looked for
    range_1, range,     \* the size of the part that may hold it, and half of it
    middle,             \* index, the position in its middle
    ok                  \* it was found

listVars   == <<numberOfNames, pvs, counter, insertAt>>
searchVars == <<varName, range_1, range, middle, ok>>
pvListVars == <<listPc, listVars, searchVars>>

\* Compare(a, b) = 1: a comes before b.
Precedes(a, b) == a < b

Half(n) == n \div 2

\* The descriptors are allocated and not yet written.
PvListInit ==
    /\ listPc = "read"
    /\ numberOfNames \in 0 .. maxNumberOfVariables
    /\ pvs \in [Positions -> Names]
    /\ counter = 0 /\ insertAt = 0
    /\ varName \in Names
    /\ range_1 = 0 /\ range = 0 /\ middle = 0 /\ ok = FALSE

-----------------------------------------------------------------------------
(* Initialise.                                                             *)

\* The next name of the file is copied behind those read.
ReadName(name) ==
    /\ listPc = "read" /\ counter < numberOfNames
    /\ pvs' = [pvs EXCEPT ![counter] = name]
    /\ insertAt' = counter
    /\ listPc' = "insert"
    /\ UNCHANGED <<numberOfNames, counter, searchVars>>

\* Variant with a bug: the comparison is the wrong way round.
AfterBefore == insertAt > 0 /\ Precedes(pvs[insertAt - 1], pvs[insertAt])

\* The name comes before the one in front of it.
BeforePrevious == insertAt > 0 /\ Precedes(pvs[insertAt], pvs[insertAt - 1])

\* It changes places with it ...
MoveForward ==
    /\ listPc = "insert" /\ BeforePrevious
    /\ pvs' = [pvs EXCEPT ![insertAt] = pvs[insertAt - 1], ![insertAt - 1] = pvs[insertAt]]
    /\ insertAt' = insertAt - 1
    /\ UNCHANGED <<listPc, numberOfNames, counter, searchVars>>

\* ... until it is in place.
InPlace ==
    /\ listPc = "insert" /\ ~BeforePrevious
    /\ counter' = counter + 1 /\ insertAt' = 0
    /\ listPc' = "read"
    /\ UNCHANGED <<numberOfNames, pvs, searchVars>>

Initialised ==
    /\ listPc = "read" /\ counter = numberOfNames
    /\ listPc' = "ready"
    /\ UNCHANGED <<listVars, searchVars>>

-----------------------------------------------------------------------------
(* GetLocalVariableIndex.                                                  *)

BeginSearch(name) ==
    /\ listPc = "ready"
    /\ varName' = name
    /\ range_1' = numberOfNames
    /\ range' = Half(numberOfNames) /\ middle' = Half(numberOfNames)
    /\ ok' = FALSE
    /\ listPc' = "search"
    /\ UNCHANGED listVars

\* The middle lies beyond the list, or its name comes after the one looked for.
GoLeft == middle >= numberOfNames \/ Precedes(varName, pvs[middle])

PvFound ==
    /\ listPc = "search" /\ range_1 > 0 /\ ~GoLeft /\ pvs[middle] = varName
    /\ ok' = TRUE
    /\ listPc' = "done"
    /\ UNCHANGED <<listVars, varName, range_1, range, middle>>

\* The part before the middle holds range names.
SearchLeft ==
    /\ listPc = "search" /\ range_1 > 0 /\ GoLeft
    /\ range_1' = range
    /\ range' = Half(range)
    /\ middle' = (middle - (range % 2)) - Half(range)
    /\ UNCHANGED <<listPc, listVars, varName, ok>>

\* The part after the middle: one name less when range_1 is even.
Right == IF range_1 % 2 = 0 THEN range - 1 ELSE range

SearchRight ==
    /\ listPc = "search" /\ range_1 > 0
    /\ middle < numberOfNames /\ Precedes(pvs[middle], varName)
    /\ range_1' = Right
    /\ range' = Half(Right)
    /\ middle' = middle + Half(Right) + 1
    /\ UNCHANGED <<listPc, listVars, varName, ok>>

NameIsAbsent ==
    /\ listPc = "search" /\ range_1 = 0
    /\ listPc' = "done"
    /\ UNCHANGED <<listVars, searchVars>>

\* The list is never written again; another name may be looked for.
ReturnIndex == listPc = "done" /\ listPc' = "ready" /\ UNCHANGED <<listVars, searchVars>>

SearchStep == PvFound \/ SearchLeft \/ SearchRight \/ NameIsAbsent

PvListNext ==
    \/ (\E name \in Names : ReadName(name) \/ BeginSearch(name))
    \/ MoveForward \/ InPlace \/ Initialised \/ SearchStep \/ ReturnIndex

PvListSpec == PvListInit /\ [][PvListNext]_pvListVars

-----------------------------------------------------------------------------
(* Properties.                                                             *)

PvListTypeOK ==
    /\ listPc \in {"read", "insert", "ready", "search", "done"}
    /\ numberOfNames \in 0 .. maxNumberOfVariables
    /\ pvs \in [Positions -> Names]
    /\ counter \in 0 .. numberOfNames /\ insertAt \in 0 .. counter
    /\ varName \in Names
    /\ range_1 \in Nat /\ range \in Nat /\ middle \in Nat /\ ok \in BOOLEAN

\* The names read are in order; only the one being inserted may lie behind
\* its place (the loop of Initialise, lines 403-413).
SortedList ==
    LET Read == 0 .. counter - 1 IN
    /\ listPc # "insert" => \A p, q \in Read : p < q => ~Precedes(pvs[q], pvs[p])
    /\ listPc = "insert" =>
        /\ \A p, q \in 0 .. counter : p < q /\ q # insertAt => ~Precedes(pvs[q], pvs[p])
        /\ counter < numberOfNames
    /\ listPc \in {"ready", "search", "done"} => counter = numberOfNames

\* The first and the last position that the bisection has not left out.
LeftEnd == middle - range
RightEnd  == LeftEnd + range_1 - 1

\* The unsigned positions and sizes never wrap, the middle lies in the list,
\* and a name that is in the list lies in the part that is left.
SearchInv ==
    listPc = "search" =>
        /\ range = Half(range_1) /\ ~ok
        /\ LeftEnd >= 0 /\ RightEnd < numberOfNames
        /\ \A p \in 0 .. numberOfNames - 1 :
               pvs[p] = varName => p \in LeftEnd .. RightEnd

\* GetLocalVariableIndex returns true with a position of the name, or false
\* when the list does not hold it, for every list and every name.
SearchFinds ==
    listPc = "done" =>
        /\ ok => middle < numberOfNames /\ pvs[middle] = varName
        /\ ~ok => \A p \in 0 .. numberOfNames - 1 : pvs[p] # varName

\* Every iteration of the search leaves a smaller part (hence it ends).
SearchShrinks ==
    [][listPc = "search" /\ listPc' = "search" => range_1' < range_1]_pvListVars

=============================================================================
