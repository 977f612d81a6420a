---------------------------- MODULE MCPatchedCa ----------------------------
(***************************************************************************)
(* The patched channel access: a put on its way to the record, or the      *)
(* server of one client.  They share no state here; a behaviour is an      *)
(* execution of one part.                                                  *)
(***************************************************************************)
EXTENDS MCStampedPut, CaServer

CONSTANTS FirstChannel

VARIABLE part

patchedVars == <<part, putVars, serverVars>>

FullRights == [read |-> TRUE, write |-> TRUE]

\* The names are set before or never.  With access security one channel and its
\* subscriptions, without it put callbacks on all channels.
WithinBounds ==
    /\ (\E c \in Chans : state[c] # "none") => \A n \in DOMAIN names : names[n] = None
    /\ IF asActive
       THEN /\ nextPut = 1
            /\ \A c \in Chans \ {FirstChannel} : state[c] = "none" /\ rights[c] = FullRights
       ELSE eventq = {}

PutsOnly ==
    /\ part = "puts" /\ PutInit /\ ServerInit
    /\ ~asActive /\ rights = [c \in Chans |-> FullRights]

ServerOnly ==
    /\ part = "server" /\ ServerInit /\ WithinBounds
    /\ PutInit /\ writable = [p \in PVs |-> TRUE]

OfPuts(A) == part = "puts" /\ A /\ UNCHANGED <<part, serverVars>>
OfServer(A) == part = "server" /\ A /\ UNCHANGED <<part, putVars>>

PatchedNext ==
    \/ OfPuts(PutNext)
    \/ OfServer(ServerNext) /\ WithinBounds'

PatchedSpec ==
    /\ PutsOnly \/ ServerOnly
    /\ [][PatchedNext]_patchedVars
    /\ WF_patchedVars(OfServer(TcpThread)) /\ WF_patchedVars(OfServer(rsrv_extra_labor))
    /\ SF_patchedVars(OfServer(CancelDbEvent \/ FreeEvent))
    /\ WF_patchedVars(OfServer(SendUpdate)) /\ WF_patchedVars(OfServer(casAccessRightsCB))
    /\ \A c \in Chans : WF_patchedVars(OfServer(write_notify_done_callback(c)))

=============================================================================
