------------------------- MODULE ReceiverLifecycle --------------------------
(***************************************************************************)
(* Start() and Stop() of DiodeReceiver with the threads they govern: those *)
(* that put (DiodeReceiverCycleLoop), which Start() begins and waits for   *)
(* before there is any memory, and which wait for its event; and those of  *)
(* the service, one for each connection (ServerCycle), that make and       *)
(* delete the sockets.  What the threads do with the variables is in       *)
(* ReceiverStore and PayloadParser.                                        *)
(*                                                                         *)
(* External: MultiClientEmbeddedThread calls ServerCycle once for its      *)
(* startup, then to wait for a connection until it has one, then to serve  *)
(* it until there is an error, and for its termination; after an error it  *)
(* waits again or terminates.                                              *)
(***************************************************************************)
EXTENDS Integers, FiniteSets

CONSTANTS
    numberOfCycleThreads,   \* numberOfInitThreads, threads that put
    maxNumberOfThreads,     \* threads of the service
    Sockets,                \* bound on the sockets at a time
    NULL

CycleThreads == 1 .. numberOfCycleThreads
Services     == 1 .. maxNumberOfThreads

ASSUME LifecycleAssumption ==
    /\ numberOfCycleThreads \in Nat \ {0} /\ maxNumberOfThreads \in Nat \ {0}
    /\ IsFiniteSet(Sockets) /\ Cardinality(Sockets) >= maxNumberOfThreads
    /\ NULL \notin Sockets

VARIABLES
    main,        \* the thread that calls Start() and Stop()
    ppc,         \* each put thread
    threadSetContext,
    eventSem,    \* posted
    allocated,   \* the memory of Start() is there
    quit,
    spc,         \* each thread of the service
    context,     \* its thread specific context
    newClient,   \* the socket it made to wait for a connection
    open         \* sockets made and not deleted

startVars   == <<main, allocated, quit>>
cycleVars     == <<ppc, threadSetContext>>
serviceVars == <<spc, context, newClient, open>>
lifecycleVars == <<startVars, cycleVars, eventSem, serviceVars>>

LifecycleInit ==
    /\ main = "spawn"
    /\ ppc = [t \in CycleThreads |-> "none"] /\ threadSetContext = 0
    /\ eventSem = FALSE /\ allocated = FALSE /\ quit = FALSE
    /\ spc = [c \in Services |-> "none"]
    /\ context = [c \in Services |-> NULL] /\ newClient = [c \in Services |-> NULL]
    /\ open = {}

-----------------------------------------------------------------------------
(* Start.                                                                  *)

MainGoes(from, to) == main = from /\ main' = to

\* One put thread after another begins.
BeginThread(t) ==
    /\ main = "spawn" /\ ppc[t] = "none"
    /\ \A u \in CycleThreads : u < t => ppc[u] # "none"
    /\ ppc' = [ppc EXCEPT ![t] = "connect"]
    /\ main' = IF t = numberOfCycleThreads THEN "poll" ELSE "spawn"
    /\ UNCHANGED <<threadSetContext, eventSem, allocated, quit, serviceVars>>

\* Variant with a bug: it waits for one thread.
OneIsSet == threadSetContext > 0

AllAreSet == threadSetContext >= numberOfCycleThreads

\* It polls until all have their context, and allocates.
AllocateMemory ==
    /\ MainGoes("poll", "listen")
    /\ AllAreSet
    /\ allocated' = TRUE
    /\ UNCHANGED <<quit, cycleVars, eventSem, serviceVars>>

\* Listen and MultiClientService::Start, which begins one thread: when one of
\* them fails the event is not posted.
StartService(ok) ==
    /\ MainGoes("listen", IF ok THEN "post" ELSE "failed")
    /\ spc' = IF ok THEN [spc EXCEPT ![1] = "startup"] ELSE spc
    /\ UNCHANGED <<allocated, quit, cycleVars, eventSem, context, newClient, open>>

Post ==
    /\ MainGoes("post", "running")
    /\ eventSem' = TRUE
    /\ UNCHANGED <<allocated, quit, cycleVars, serviceVars>>

Start == (\E t \in CycleThreads : BeginThread(t)) \/ AllocateMemory
         \/ (\E ok \in BOOLEAN : StartService(ok)) \/ Post

-----------------------------------------------------------------------------
(* Stop.                                                                   *)

SetQuit ==
    /\ main \in {"running", "failed"} /\ main' = "quitting"
    /\ quit' = TRUE
    /\ UNCHANGED <<allocated, cycleVars, eventSem, serviceVars>>

\* Variant with a bug: without the event.
NoPost == UNCHANGED eventSem

PostEvent == eventSem' = TRUE

StopService ==
    /\ MainGoes("quitting", "joining")
    /\ PostEvent
    /\ UNCHANGED <<allocated, quit, cycleVars, serviceVars>>

\* External: MultiClientService::Stop returns when its threads have ended.
Joined ==
    /\ MainGoes("joining", "stopped")
    /\ \A c \in Services : spc[c] \in {"none", "ended"}
    /\ UNCHANGED <<allocated, quit, cycleVars, eventSem, serviceVars>>

-----------------------------------------------------------------------------
(* DiodeReceiverCycleLoop.                                                 *)

PutGoes(t, from, to) == ppc[t] = from /\ ppc' = [ppc EXCEPT ![t] = to]

\* The thread connects the channels of its PVs, or fails to.
Connect(t) ==
    /\ PutGoes(t, "connect", "reset")
    /\ UNCHANGED <<startVars, threadSetContext, eventSem, serviceVars>>

ResetEvent(t) ==
    /\ PutGoes(t, "reset", "count")
    /\ eventSem' = FALSE
    /\ UNCHANGED <<startVars, threadSetContext, serviceVars>>

\* Variant with a bug: the first thread that it wakes resets the event.
ResetAfterWait == eventSem' = FALSE

EventKept == UNCHANGED eventSem

Counted == threadSetContext + 1

Count(t) ==
    /\ PutGoes(t, "count", "wait")
    /\ threadSetContext' = Counted
    /\ UNCHANGED <<startVars, eventSem, serviceVars>>

\* Between the count and the wait nothing happens.
WaitEvent(t) ==
    /\ PutGoes(t, "wait", "cycle")
    /\ eventSem
    /\ EventKept
    /\ UNCHANGED <<startVars, threadSetContext, serviceVars>>

EndPuts(t) ==
    /\ PutGoes(t, "cycle", "ended")
    /\ quit
    /\ UNCHANGED <<startVars, threadSetContext, eventSem, serviceVars>>

CycleLoop(t) == Connect(t) \/ ResetEvent(t) \/ Count(t) \/ WaitEvent(t) \/ EndPuts(t)

-----------------------------------------------------------------------------
(* ServerCycle.                                                            *)

\* External: what the thread does after an error.  Told to stop it terminates.
AfterError(c) ==
    \E to \in (IF main = "joining" THEN {"terminate"} ELSE {"request", "terminate"}) :
        spc' = [spc EXCEPT ![c] = to]

\* And otherwise.
AfterSuccess(c, to) == spc' = [spc EXCEPT ![c] = IF main = "joining" THEN "terminate" ELSE to]

StartupStage(c) ==
    /\ spc[c] = "startup"
    /\ AfterSuccess(c, "request")
    /\ UNCHANGED <<startVars, cycleVars, eventSem, context, newClient, open>>

\* WaitRequest stage: a socket is made for the connection to come.
WaitRequest(c) ==
    /\ spc[c] = "request" /\ ~quit
    /\ \E s \in Sockets \ open :
        /\ newClient' = [newClient EXCEPT ![c] = s]
        /\ open' = open \cup {s}
    /\ spc' = [spc EXCEPT ![c] = "wait"]
    /\ UNCHANGED <<startVars, cycleVars, eventSem, context>>

DeleteSocket(s) == open \ {s}

\* The accept timeout.
WaitTimeout(c) ==
    /\ spc[c] = "wait"
    /\ open' = DeleteSocket(newClient[c])
    /\ newClient' = [newClient EXCEPT ![c] = NULL]
    /\ AfterError(c)
    /\ UNCHANGED <<startVars, cycleVars, eventSem, context>>

\* A connection.  External: AddThread begins another thread to wait for the
\* next one, unless there are as many as there may be.
Connection(c) ==
    /\ spc[c] = "wait"
    /\ context' = [context EXCEPT ![c] = newClient[c]]
    /\ newClient' = [newClient EXCEPT ![c] = NULL]
    /\ \/ AfterSuccess(c, "serve")
       \/ \E new \in Services :
            /\ spc[new] = "none" /\ \A d \in Services : d < new => spc[d] # "none"
            /\ spc' = [spc EXCEPT ![c] = IF main = "joining" THEN "terminate" ELSE "serve",
                                  ![new] = "startup"]
            /\ main # "joining"
    /\ UNCHANGED <<startVars, cycleVars, eventSem, open>>

\* ServiceRequest stage: quit is looked at in ServerCycle, ...
ServiceRequest(c) ==
    /\ spc[c] = "serve" /\ ~quit
    /\ spc' = [spc EXCEPT ![c] = "client"]
    /\ UNCHANGED <<startVars, cycleVars, eventSem, context, newClient, open>>

\* ... and again in ClientService.  After a message that was read, the client
\* keeps the connection.
ClientServed(c) ==
    /\ spc[c] = "client"
    /\ AfterSuccess(c, "serve")
    /\ UNCHANGED <<startVars, cycleVars, eventSem, context, newClient, open>>

\* Variant with a bug: the context keeps the socket.
KeepContext(c) == context

NoContext(c) == [context EXCEPT ![c] = NULL]

\* A message that cannot be read (the error reply), or the last one of the
\* connection (the reply without keep-alive): the reply deletes the socket.
ClientGone(c) ==
    /\ spc[c] = "client" /\ ~quit
    /\ open' = DeleteSocket(context[c])
    /\ context' = NoContext(c)
    /\ AfterError(c)
    /\ UNCHANGED <<startVars, cycleVars, eventSem, newClient>>

\* A reply without keep-alive to a client that is still there.
CloseClient(c) ==
    /\ context' = NoContext(c)
    /\ open' = IF context[c] = NULL THEN open ELSE DeleteSocket(context[c])

\* Main stage, with quit: Completed.
QuitBranch(c) ==
    /\ spc[c] \in {"request", "serve"} /\ quit
    /\ CloseClient(c)
    /\ AfterError(c)
    /\ UNCHANGED <<startVars, cycleVars, eventSem, newClient>>

\* Termination: the thread ends, or starts again unless it is told to stop.
Termination(c) ==
    /\ spc[c] = "terminate"
    /\ CloseClient(c)
    /\ \E to \in (IF main = "joining" THEN {"ended"} ELSE {"startup", "ended"}) :
           spc' = [spc EXCEPT ![c] = to]
    /\ UNCHANGED <<startVars, cycleVars, eventSem, newClient>>

ServerCycle(c) ==
    \/ StartupStage(c) \/ WaitRequest(c) \/ WaitTimeout(c) \/ Connection(c)
    \/ ServiceRequest(c) \/ ClientServed(c) \/ ClientGone(c)
    \/ QuitBranch(c) \/ Termination(c)

LifecycleNext ==
    \/ Start \/ SetQuit \/ StopService \/ Joined
    \/ \E t \in CycleThreads : CycleLoop(t)
    \/ \E c \in Services : ServerCycle(c)

LifecycleSpec == LifecycleInit /\ [][LifecycleNext]_lifecycleVars

\* Every thread runs: the one that calls Start() and, if it is called, Stop();
\* and those of the two kinds, as a wait for a connection ends with its timeout
\* and a read with its own.
MainStep == Start \/ StopService \/ Joined

-----------------------------------------------------------------------------
(* Properties.                                                             *)

LifecycleTypeOK ==
    /\ main \in {"spawn", "poll", "listen", "post", "running", "failed", "quitting", "joining", "stopped"}
    /\ ppc \in [CycleThreads -> {"none", "connect", "reset", "count", "wait", "cycle", "ended"}]
    /\ threadSetContext \in 0 .. numberOfCycleThreads
    /\ eventSem \in BOOLEAN /\ allocated \in BOOLEAN /\ quit \in BOOLEAN
    /\ spc \in [Services -> {"none", "startup", "request", "wait", "serve", "client", "terminate", "ended"}]
    /\ context \in [Services -> Sockets \cup {NULL}]
    /\ newClient \in [Services -> Sockets \cup {NULL}]
    /\ open \subseteq Sockets

Held(c) == {context[c], newClient[c]} \ {NULL}

\* A socket is deleted once, never used after, and never forgotten: those that
\* exist are held each by one thread, and by none that has ended; and a thread
\* that serves has one.
SocketsHaveOneOwner ==
    /\ open = UNION {Held(c) : c \in Services}
    /\ \A c, d \in Services : c # d => Held(c) \cap Held(d) = {}
    /\ \A c \in Services :
        /\ spc[c] \in {"none", "startup", "request", "ended"} => Held(c) = {}
        /\ spc[c] \in {"serve", "client"} => context[c] # NULL
        /\ spc[c] = "wait" => newClient[c] # NULL /\ context[c] = NULL

\* A put thread that is past its wait finds the memory, and every other put
\* thread past the channels that it connects; so does a thread of the service.
ThreadsFindTheMemory ==
    /\ \A t \in CycleThreads : ppc[t] \in {"cycle", "ended"} =>
           allocated /\ \A u \in CycleThreads : ppc[u] \in {"wait", "cycle", "ended"}
    /\ \A c \in Services : spc[c] # "none" => allocated

\* When Start() succeeds every put thread gets to its cycles (or to its end):
\* none misses the event.
PutThreadsRun ==
    main = "running" ~> \A t \in CycleThreads : ppc[t] \in {"cycle", "ended"}

\* Stop() returns, no socket is left, and the put threads end, although none
\* waits for them; also after a Start() that failed.
StopEndsAll ==
    quit ~> main = "stopped" /\ open = {} /\ \A t \in CycleThreads : ppc[t] = "ended"

=============================================================================
