----------------------- MODULE ReceiverLifecycleProofs -----------------------
(***************************************************************************)
(* Proofs about ReceiverLifecycle, for any number of threads and sockets.  *)
(* There are two invariants.  StartInv: threadSetContext counts the put    *)
(* threads that are connected, hence the memory is there only when all     *)
(* are, and the event is posted only when the memory is there.  SocketInv: *)
(* a socket that exists is in the context of one thread or is the one it   *)
(* waits with, which only a thread in its wait has.                        *)
(***************************************************************************)
EXTENDS ReceiverLifecycle, FiniteSetTheorems, TLAPS

Connected == {t \in CycleThreads : ppc[t] \in {"wait", "cycle", "ended"}}

StartInv ==
    /\ threadSetContext = Cardinality(Connected)
    /\ main \in {"spawn", "poll"} <=> ~allocated
    /\ allocated => Connected = CycleThreads
    /\ eventSem => allocated
    /\ \A t \in CycleThreads : ppc[t] \in {"cycle", "ended"} => allocated
    /\ \A c \in Services :
           main \in {"spawn", "poll", "listen"} => spc[c] = "none"

SocketInv ==
    /\ \A s \in open : \E c \in Services : s \in {context[c], newClient[c]}
    /\ \A c \in Services : {context[c], newClient[c]} \subseteq open \cup {NULL}
    /\ \A c, d \in Services : c # d =>
        /\ context[c] # NULL => context[c] \notin {context[d], newClient[d]}
        /\ newClient[c] # NULL => newClient[c] \notin {context[d], newClient[d]}
    /\ \A c \in Services :
        /\ newClient[c] # NULL <=> spc[c] = "wait"
        /\ spc[c] \in {"none", "startup", "request", "wait", "ended"} => context[c] = NULL
        /\ spc[c] \in {"serve", "client"} => context[c] # NULL

-----------------------------------------------------------------------------
(* The threads of Start().                                                 *)

\* The set that is counted has at most numberOfCycleThreads members, and is the
\* whole when it has as many.
LEMMA ConnectedIsFinite ==
    ASSUME NEW S \in SUBSET CycleThreads
    PROVE  /\ IsFiniteSet(S) /\ Cardinality(S) \in 0 .. numberOfCycleThreads
           /\ Cardinality(S) >= numberOfCycleThreads => S = CycleThreads
<1>1. /\ IsFiniteSet(CycleThreads) /\ Cardinality(CycleThreads) = numberOfCycleThreads
  BY LifecycleAssumption, FS_Interval DEF CycleThreads
<1>2. /\ IsFiniteSet(S) /\ Cardinality(S) <= Cardinality(CycleThreads)
      /\ Cardinality(S) = Cardinality(CycleThreads) => S = CycleThreads
  BY <1>1, FS_Subset
<1>3. Cardinality(S) \in Nat
  BY <1>2, FS_CardinalityType
<1> QED
  BY <1>1, <1>2, <1>3, LifecycleAssumption

StartOK == LifecycleTypeOK /\ StartInv

LEMMA StartInit == LifecycleInit => StartOK
<1> SUFFICES ASSUME LifecycleInit PROVE StartOK
  OBVIOUS
<1>1. Connected = {}
  BY DEF LifecycleInit, Connected
<1>2. LifecycleTypeOK
  <2>1. 0 \in 0 .. numberOfCycleThreads
    BY LifecycleAssumption
  <2> QED
    BY <2>1, Zenon DEF LifecycleInit, LifecycleTypeOK
<1> QED
  BY <1>1, <1>2, FS_EmptySet DEF LifecycleInit, StartOK, StartInv

\* Start() itself.
LEMMA StartStep == StartOK /\ Start => StartOK'
<1> SUFFICES ASSUME StartOK, Start PROVE StartOK'
  OBVIOUS
<1> USE DEF StartOK
<1>1. ASSUME NEW t \in CycleThreads, BeginThread(t) PROVE StartOK'
  <2>1. Connected' = Connected
    BY <1>1 DEF BeginThread, Connected, LifecycleTypeOK
  <2>2. LifecycleTypeOK'
    BY <1>1 DEF BeginThread, LifecycleTypeOK, serviceVars
  <2>3. ~allocated /\ ~allocated'
    BY <1>1 DEF BeginThread, StartInv
  <2> QED
    BY <1>1, <2>1, <2>2, <2>3 DEF BeginThread, StartInv, LifecycleTypeOK, serviceVars
<1>2. ASSUME AllocateMemory PROVE StartOK'
  <2>1. Connected = CycleThreads /\ Connected' = Connected
    BY <1>2, ConnectedIsFinite DEF AllocateMemory, AllAreSet, StartInv, Connected, cycleVars
  <2>2. LifecycleTypeOK'
    BY <1>2 DEF AllocateMemory, MainGoes, LifecycleTypeOK, cycleVars, serviceVars
  <2> QED
    BY <1>2, <2>1, <2>2 DEF AllocateMemory, MainGoes, StartInv, cycleVars, serviceVars
<1>3. ASSUME NEW ok \in BOOLEAN, StartService(ok) PROVE StartOK'
  <2>1. Connected' = Connected
    BY <1>3 DEF StartService, Connected, cycleVars
  <2>2. LifecycleTypeOK'
    BY <1>3 DEF StartService, MainGoes, LifecycleTypeOK, cycleVars
  <2>3. allocated /\ allocated'
    BY <1>3 DEF StartService, MainGoes, StartInv
  <2> QED
    BY <1>3, <2>1, <2>2, <2>3 DEF StartService, MainGoes, StartInv, cycleVars
<1>4. ASSUME Post PROVE StartOK'
  <2>1. Connected' = Connected
    BY <1>4 DEF Post, Connected, cycleVars
  <2>2. LifecycleTypeOK'
    BY <1>4 DEF Post, MainGoes, LifecycleTypeOK, cycleVars, serviceVars
  <2> QED
    BY <1>4, <2>1, <2>2 DEF Post, MainGoes, StartInv, cycleVars, serviceVars
<1> QED
  BY <1>1, <1>2, <1>3, <1>4 DEF Start

\* Stop(): by then the memory is there.
LEMMA StopStep == StartOK /\ (SetQuit \/ StopService \/ Joined) => StartOK'
<1> SUFFICES ASSUME StartOK, SetQuit \/ StopService \/ Joined PROVE StartOK'
  OBVIOUS
<1>1. Connected' = Connected
  BY DEF SetQuit, StopService, Joined, Connected, cycleVars
<1>2. LifecycleTypeOK'
  BY DEF StartOK, SetQuit, StopService, Joined, PostEvent, MainGoes, LifecycleTypeOK, cycleVars, serviceVars
<1>3. main \notin {"spawn", "poll"} /\ main' \notin {"spawn", "poll"} /\ allocated' = allocated
  BY DEF SetQuit, StopService, Joined, MainGoes
<1> QED
  BY <1>1, <1>2, <1>3 DEF StartOK, StartInv, SetQuit, StopService, Joined, PostEvent, MainGoes,
     cycleVars, serviceVars

\* A put thread.
LEMMA PutThreadStep ==
    ASSUME NEW t \in CycleThreads, StartOK, CycleLoop(t) PROVE StartOK'
<1> USE DEF StartOK
<1>1. CASE Count(t)
  <2>1. Connected' = Connected \cup {t} /\ t \notin Connected
    BY <1>1 DEF Count, PutGoes, Connected, LifecycleTypeOK
  <2>2. Cardinality(Connected') = Cardinality(Connected) + 1
    <3>1. IsFiniteSet(Connected)
      BY ConnectedIsFinite DEF Connected
    <3> QED
      BY <2>1, <3>1, FS_AddElement
  <2>3. Cardinality(Connected') \in 0 .. numberOfCycleThreads
    BY ConnectedIsFinite DEF Connected
  <2>4. ~allocated
    BY <2>1 DEF StartInv
  <2>5. threadSetContext' = Cardinality(Connected')
    BY <1>1, <2>2 DEF Count, Counted, StartInv
  <2>6. LifecycleTypeOK'
    BY <1>1, <2>3, <2>5 DEF Count, PutGoes, LifecycleTypeOK, startVars, serviceVars
  <2> QED
    BY <1>1, <2>4, <2>5, <2>6 DEF Count, PutGoes, StartInv, LifecycleTypeOK, startVars, serviceVars
<1>2. CASE Connect(t) \/ ResetEvent(t)
  <2>1. Connected' = Connected
    BY <1>2 DEF Connect, ResetEvent, PutGoes, Connected, LifecycleTypeOK
  <2>2. LifecycleTypeOK'
    BY <1>2 DEF Connect, ResetEvent, PutGoes, LifecycleTypeOK, startVars, serviceVars
  <2> QED
    BY <1>2, <2>1, <2>2 DEF Connect, ResetEvent, PutGoes, StartInv, LifecycleTypeOK, startVars, serviceVars
<1>3. CASE WaitEvent(t) \/ EndPuts(t)
  <2>1. Connected' = Connected
    BY <1>3 DEF WaitEvent, EndPuts, PutGoes, Connected, LifecycleTypeOK
  <2>2. LifecycleTypeOK'
    BY <1>3 DEF WaitEvent, EventKept, EndPuts, PutGoes, LifecycleTypeOK, startVars, serviceVars
  <2>3. allocated
    BY <1>3 DEF WaitEvent, EndPuts, PutGoes, StartInv
  <2> QED
    BY <1>3, <2>1, <2>2, <2>3 DEF WaitEvent, EventKept, EndPuts, PutGoes, StartInv, LifecycleTypeOK, startVars, serviceVars
<1> QED
  BY <1>1, <1>2, <1>3 DEF CycleLoop

-----------------------------------------------------------------------------
(* The threads of the service.                                             *)

ServiceOK == StartOK /\ SocketInv

\* They leave the invariant of Start() as it is.
LEMMA ServiceKeepsStart ==
    ASSUME NEW c \in Services, StartOK, ServerCycle(c) PROVE StartOK'
<1> USE DEF StartOK
<1>1. Connected' = Connected
  BY DEF ServerCycle, StartupStage, WaitRequest, WaitTimeout, Connection, ServiceRequest,
     ClientServed, ClientGone, QuitBranch, Termination, Connected, cycleVars
<1>2. main \notin {"spawn", "poll", "listen"}
  BY DEF ServerCycle, StartupStage, WaitRequest, WaitTimeout, Connection, ServiceRequest,
     ClientServed, ClientGone, QuitBranch, Termination, StartInv
<1>3. UNCHANGED <<startVars, cycleVars, eventSem>>
  BY DEF ServerCycle, StartupStage, WaitRequest, WaitTimeout, Connection, ServiceRequest,
     ClientServed, ClientGone, QuitBranch, Termination
<1>4. LifecycleTypeOK'
  <2> USE DEF LifecycleTypeOK, startVars, cycleVars
  <2>1. CASE StartupStage(c) \/ ServiceRequest(c) \/ ClientServed(c)
    BY <1>3, <2>1 DEF StartupStage, ServiceRequest, ClientServed, AfterSuccess
  <2>2. CASE WaitRequest(c)
    BY <1>3, <2>2 DEF WaitRequest
  <2>3. CASE WaitTimeout(c)
    BY <1>3, <2>3 DEF WaitTimeout, DeleteSocket, AfterError
  <2>4. CASE Connection(c)
    BY <1>3, <2>4 DEF Connection, AfterSuccess
  <2>5. CASE ClientGone(c)
    BY <1>3, <2>5 DEF ClientGone, DeleteSocket, NoContext, AfterError
  <2>6. CASE QuitBranch(c)
    BY <1>3, <2>6 DEF QuitBranch, CloseClient, DeleteSocket, NoContext, AfterError
  <2>7. CASE Termination(c)
    BY <1>3, <2>7 DEF Termination, CloseClient, DeleteSocket, NoContext
  <2> QED
    BY <2>1, <2>2, <2>3, <2>4, <2>5, <2>6, <2>7 DEF ServerCycle
<1> QED
  BY <1>1, <1>2, <1>3, <1>4 DEF StartInv, startVars, cycleVars

\* A thread that goes on with the sockets it has.
LEMMA SameSockets ==
    ASSUME NEW c \in Services, LifecycleTypeOK, SocketInv,
           StartupStage(c) \/ ServiceRequest(c) \/ ClientServed(c)
    PROVE  SocketInv'
BY DEF StartupStage, ServiceRequest, ClientServed, AfterSuccess, LifecycleTypeOK, SocketInv

\* A thread that makes a socket.
LEMMA NewSocket ==
    ASSUME NEW c \in Services, LifecycleTypeOK, SocketInv, WaitRequest(c) PROVE SocketInv'
<1>1. PICK s \in Sockets \ open : /\ newClient' = [newClient EXCEPT ![c] = s]
                                  /\ open' = open \cup {s}
  BY DEF WaitRequest
<1>2. s # NULL /\ newClient[c] = NULL /\ context[c] = NULL
  BY LifecycleAssumption DEF WaitRequest, SocketInv
<1>3. \A d \in Services : s \notin {context[d], newClient[d]}
  BY <1>1, <1>2 DEF SocketInv
<1> QED
  BY <1>1, <1>2, <1>3 DEF WaitRequest, LifecycleTypeOK, SocketInv

\* A thread whose socket becomes its context.
LEMMA SocketPassedOn ==
    ASSUME NEW c \in Services, LifecycleTypeOK, SocketInv, Connection(c) PROVE SocketInv'
<1>1. newClient[c] # NULL /\ context[c] = NULL
  BY DEF Connection, SocketInv
<1>2. /\ context' = [context EXCEPT ![c] = newClient[c]]
      /\ newClient' = [newClient EXCEPT ![c] = NULL] /\ open' = open
  BY DEF Connection
<1>3. /\ spc'[c] \in {"serve", "terminate"}
      /\ \A d \in Services \ {c} : spc'[d] = spc[d] \/ (spc[d] = "none" /\ spc'[d] = "startup")
  BY DEF Connection, AfterSuccess, LifecycleTypeOK
<1> QED
  BY <1>1, <1>2, <1>3 DEF LifecycleTypeOK, SocketInv

\* A thread that deletes the socket it waits with.
LEMMA WaitSocketDeleted ==
    ASSUME NEW c \in Services, LifecycleTypeOK, SocketInv, WaitTimeout(c) PROVE SocketInv'
<1>1. newClient[c] # NULL /\ context[c] = NULL
  BY DEF WaitTimeout, SocketInv
<1>2. /\ open' = open \ {newClient[c]}
      /\ newClient' = [newClient EXCEPT ![c] = NULL] /\ context' = context
  BY DEF WaitTimeout, DeleteSocket
<1>3. spc'[c] \in {"request", "terminate"} /\ \A d \in Services \ {c} : spc'[d] = spc[d]
  BY DEF WaitTimeout, AfterError, LifecycleTypeOK
<1> QED
  BY <1>1, <1>2, <1>3 DEF LifecycleTypeOK, SocketInv

\* A thread that deletes the socket of its client, if it has one.
LEMMA ClientSocketDeleted ==
    ASSUME NEW c \in Services, LifecycleTypeOK, SocketInv,
           ClientGone(c) \/ QuitBranch(c) \/ Termination(c)
    PROVE  SocketInv'
<1>1. newClient[c] = NULL /\ spc[c] \notin {"none", "wait", "ended"}
  BY DEF ClientGone, QuitBranch, Termination, SocketInv
<1>2. /\ open' = IF context[c] = NULL THEN open ELSE open \ {context[c]}
      /\ context' = [context EXCEPT ![c] = NULL] /\ newClient' = newClient
  BY DEF ClientGone, QuitBranch, Termination, CloseClient, DeleteSocket, NoContext, SocketInv
<1>3. /\ spc'[c] \in {"request", "terminate", "startup", "ended"}
      /\ \A d \in Services \ {c} : spc'[d] = spc[d]
  BY DEF ClientGone, QuitBranch, Termination, AfterError, LifecycleTypeOK
<1> QED
  BY <1>1, <1>2, <1>3 DEF LifecycleTypeOK, SocketInv

LEMMA ServiceStep ==
    ASSUME NEW c \in Services, ServiceOK, ServerCycle(c) PROVE ServiceOK'
<1>1. StartOK'
  BY ServiceKeepsStart DEF ServiceOK
<1>2. SocketInv'
  BY SameSockets, NewSocket, SocketPassedOn, WaitSocketDeleted, ClientSocketDeleted
     DEF ServiceOK, StartOK, ServerCycle
<1> QED
  BY <1>1, <1>2 DEF ServiceOK

-----------------------------------------------------------------------------

IInv == ServiceOK

LEMMA InitIInv == LifecycleInit => IInv
<1> SUFFICES ASSUME LifecycleInit PROVE SocketInv
  BY StartInit DEF IInv, ServiceOK
<1> QED
  BY DEF LifecycleInit, SocketInv

LEMMA NextIInv == IInv /\ [LifecycleNext]_lifecycleVars => IInv'
<1> SUFFICES ASSUME IInv, [LifecycleNext]_lifecycleVars PROVE IInv'
  OBVIOUS
<1> USE DEF IInv
<1>1. CASE Start
  <2>1. StartOK'
    BY <1>1, StartStep DEF ServiceOK
  <2>2. UNCHANGED <<context, newClient, open>>
    BY <1>1 DEF Start, BeginThread, AllocateMemory, StartService, Post, serviceVars
  <2>3. spc' = spc \/ (spc' = [spc EXCEPT ![1] = "startup"] /\ spc[1] = "none")
    <3>1. 1 \in Services
      BY LifecycleAssumption DEF Services
    <3> QED
      BY <1>1, <3>1 DEF Start, BeginThread, AllocateMemory, StartService, MainGoes, Post, serviceVars,
         ServiceOK, StartOK, StartInv
  <2> QED
    BY <2>1, <2>2, <2>3 DEF ServiceOK, SocketInv, StartOK, LifecycleTypeOK
<1>2. CASE SetQuit \/ StopService \/ Joined
  <2>1. StartOK'
    BY <1>2, StopStep DEF ServiceOK
  <2> QED
    BY <1>2, <2>1 DEF ServiceOK, SocketInv, SetQuit, StopService, Joined, serviceVars
<1>3. ASSUME NEW t \in CycleThreads, CycleLoop(t) PROVE IInv'
  <2>1. StartOK'
    BY <1>3, PutThreadStep DEF ServiceOK
  <2> QED
    BY <1>3, <2>1 DEF ServiceOK, SocketInv, CycleLoop, Connect, ResetEvent, Count, WaitEvent,
       EndPuts, serviceVars
<1>4. ASSUME NEW c \in Services, ServerCycle(c) PROVE IInv'
  BY <1>4, ServiceStep
<1>5. CASE UNCHANGED lifecycleVars
  <2>1. Connected' = Connected
    BY <1>5 DEF lifecycleVars, cycleVars, Connected
  <2> QED
    BY <1>5, <2>1 DEF lifecycleVars, startVars, cycleVars, serviceVars, ServiceOK, StartOK, LifecycleTypeOK, StartInv, SocketInv
<1> QED
  BY <1>1, <1>2, <1>3, <1>4, <1>5 DEF LifecycleNext

LEMMA Inductive == LifecycleSpec => []IInv
BY InitIInv, NextIInv, PTL DEF LifecycleSpec

\* Type correctness.
THEOREM TypeCorrect == LifecycleSpec => []LifecycleTypeOK
<1>1. IInv => LifecycleTypeOK
  BY DEF IInv, ServiceOK, StartOK
<1> QED
  BY <1>1, Inductive, PTL

\* No put thread and no thread of the service runs before Start() has made the
\* memory, which waits for the last put thread to be connected.
THEOREM MemoryIsThere == LifecycleSpec => []ThreadsFindTheMemory
<1>1. IInv => ThreadsFindTheMemory
  BY DEF IInv, ServiceOK, StartOK, StartInv, Connected, ThreadsFindTheMemory
<1> QED
  BY <1>1, Inductive, PTL

\* Every socket that exists belongs to one thread: none is deleted twice, used
\* after its end, or forgotten.
THEOREM OneOwner == LifecycleSpec => []SocketsHaveOneOwner
<1>1. ASSUME IInv PROVE SocketsHaveOneOwner
  <2> USE <1>1 DEF IInv, ServiceOK, SocketInv
  <2>1. NULL \notin open
    BY LifecycleAssumption DEF StartOK, LifecycleTypeOK
  <2>2. open = UNION {Held(c) : c \in Services}
    BY <2>1 DEF Held
  <2>3. \A c, d \in Services : c # d => Held(c) \cap Held(d) = {}
    BY DEF Held
  <2>4. \A c \in Services :
          /\ spc[c] \in {"none", "startup", "request", "ended"} => Held(c) = {}
          /\ spc[c] \in {"serve", "client"} => context[c] # NULL
          /\ spc[c] = "wait" => newClient[c] # NULL /\ context[c] = NULL
    BY DEF Held
  <2> QED
    BY <2>2, <2>3, <2>4 DEF SocketsHaveOneOwner
<1> QED
  BY <1>1, Inductive, PTL

=============================================================================
