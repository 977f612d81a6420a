------------------------------ MODULE CaServer ------------------------------
(***************************************************************************)
(* The server of channel access (camessage.c) for one client: the TCP      *)
(* thread that handles its requests one after another, the event task that *)
(* sends updates of subscriptions and does the "extra labor" other threads *)
(* leave it (replies to put callbacks, changes of access rights), the      *)
(* threads of the database that complete put callbacks, and the thread     *)
(* that changes access rights (casAccessRightsCB).                         *)
(*                                                                         *)
(* Every block of code under one lock is one step.  What SEND_LOCK guards  *)
(* is atomic; that sendAllUpdateAS holds chanListLock while it sends is    *)
(* why it is one step.  The client claims channels by name (V44), and asks *)
(* for a channel only what it may: after the answer to its claim and       *)
(* before it clears it.  After RSRV_ERROR the TCP thread leaves camessage  *)
(* for good.                                                               *)
(*                                                                         *)
(* External, as camessage.c relies on them: dbNotifyCancel and             *)
(* db_cancel_event return when no callback is running or will run; the     *)
(* flag of db_post_extra_labor stays until the event task takes it;        *)
(* db_flush_extra_labor_event waits for labor in progress; access security *)
(* calls casAccessRightsCB under its lock, asRegisterClientCallback once   *)
(* at once, and asRemoveClient waits for that lock.                        *)
(***************************************************************************)
EXTENDS Integers, Sequences, FiniteSets

CONSTANTS
    Chans,      \* channels (channel_in_use) the client may create
    Subs,       \* subscriptions (event_ext) it may add
    MaxCallbacks,    \* bound on its put callbacks
    Names,      \* names of users and hosts
    None

ASSUME CaServerAssumption ==
    /\ MaxCallbacks \in Nat
    /\ None \notin Chans \cup Subs \cup Names \cup (1 .. MaxCallbacks)

Puts == 1 .. MaxCallbacks
Rights == [read : BOOLEAN, write : BOOLEAN]
NoNotify == [there |-> FALSE, busy |-> FALSE, onExtraLaborQueue |-> FALSE,
             msg |-> None, asWritePvt |-> None]

VARIABLES
    tpc, tchan, tsub, tput, tflag,  \* the TCP thread and its locals
    epc, esub, eflag, eput, etrap,  \* the event task and its locals
    aspc, aschan, sigReq,           \* the thread in casAccessRightsCB
    dbpc,       \* put callback of each channel, in the database
    state,      \* of each channel
    chanList, chanPendingUpdateARList,
    asActive,   \* access security is in use, as its configuration says
    rights,     \* what access security grants on each channel, less writing a
                \* field that cannot be written (SPC_NOMOD)
    hasCallback,    \* casAccessRightsCB is registered for it
    registeredAs,   \* the names it was added with
    names,      \* pUserName and pHostName
    told,       \* access rights last sent for each channel
    claimed,    \* its claim was answered
    cleared,    \* its clear was answered
    pPutNotify, putNotifyQue,
    blockSem, extraLabor, flowCtrl,
    channel,    \* of each subscription
    eventq,     \* the subscriptions on the queues of their channels
    pdbev,      \* those installed in the database
    posted, enabled,    \* those with an update to send, with updates to come
    updated,    \* what the last update of each said
    cancelled,  \* those whose cancellation was answered
    nextPut,    \* the next put callback asked for
    asked,      \* the channel each was asked for
    replies,    \* how often each was answered
    trapped     \* those of which the write trap was told the beginning only

tcpVars  == <<tpc, tchan, tsub, tput, tflag>>
taskVars == <<epc, esub, eflag, eput, etrap>>
asVars   == <<aspc, aschan, sigReq>>
listVars == <<state, chanList, chanPendingUpdateARList>>
secVars  == <<asActive, rights, hasCallback, registeredAs, names>>
sentVars == <<told, claimed, cleared>>
notifyVars  == <<dbpc, pPutNotify, putNotifyQue, nextPut, asked, replies,
              trapped>>
wakeVars == <<blockSem, extraLabor, flowCtrl>>
subVars  == <<channel, eventq, pdbev, posted, enabled, updated, cancelled>>
serverVars == <<tcpVars, taskVars, asVars, listVars, secVars, sentVars, notifyVars,
                wakeVars, subVars>>

ServerInit ==
    /\ tpc = "idle" /\ tchan = None /\ tsub = None /\ tput = None /\ tflag = FALSE
    /\ epc = "idle" /\ esub = None /\ eflag = FALSE /\ eput = None /\ etrap = None
    /\ aspc = "idle" /\ aschan = None /\ sigReq = FALSE
    /\ dbpc = [c \in Chans |-> "idle"]
    /\ state = [c \in Chans |-> "none"]
    /\ chanList = {} /\ chanPendingUpdateARList = {}
    /\ asActive \in BOOLEAN
    /\ rights \in [Chans -> {r \in Rights : r.read \/ asActive}]
    /\ hasCallback = [c \in Chans |-> FALSE]
    /\ registeredAs = [c \in Chans |-> None]
    /\ names = [user |-> None, host |-> None]
    /\ told = [c \in Chans |-> None]
    /\ claimed = {} /\ cleared = {}
    /\ pPutNotify = [c \in Chans |-> NoNotify] /\ putNotifyQue = <<>>
    /\ blockSem = FALSE /\ extraLabor = FALSE /\ flowCtrl = FALSE
    /\ channel = [s \in Subs |-> None] /\ eventq = {}
    /\ pdbev = {} /\ posted = {} /\ enabled = {} /\ cancelled = {}
    /\ updated = [s \in Subs |-> None]
    /\ nextPut = 1 /\ asked = [p \in Puts |-> None] /\ replies = [p \in Puts |-> 0] /\ trapped = {}

Idle == tpc = "idle"

EventsOf(c) == {s \in eventq : channel[s] = c}

\* The TCP thread goes on, with the same locals or with none.
Goes(from, to) ==
    /\ tpc = from /\ tpc' = to
    /\ UNCHANGED <<tchan, tsub, tput, tflag>>
Done(from) ==
    /\ tpc = from /\ tpc' = "idle"
    /\ tchan' = None /\ tsub' = None /\ tput' = None /\ tflag' = FALSE
Begins(to, c, s, p) ==
    /\ Idle /\ tpc' = to
    /\ tchan' = c /\ tsub' = s /\ tput' = p /\ UNCHANGED tflag
Fails(from) ==
    /\ tpc = from /\ tpc' = "closed"
    /\ tchan' = None /\ tsub' = None /\ tput' = None /\ tflag' = FALSE

\* The client goes, or its request fails before anything was done: no memory,
\* or what it names is not there.
Disconnect ==
    /\ Fails("idle")
    /\ UNCHANGED <<taskVars, asVars, listVars, secVars, sentVars, notifyVars, wakeVars,
                   subVars>>

\* The client may ask something of channel c.
InUse(c) == Idle /\ c \in claimed \ cleared

-----------------------------------------------------------------------------
(* host_name_action and client_name_action.                                *)

\* chanCount
HasChannels == chanList \cup chanPendingUpdateARList # {}

\* The first channel freezes the names: later ones are refused.
SetName(kind, n) ==
    /\ Idle /\ ~HasChannels
    /\ names' = [names EXCEPT ![kind] = n]
    /\ UNCHANGED <<tcpVars, taskVars, asVars, listVars, asActive, rights, hasCallback,
                   registeredAs, sentVars, notifyVars, wakeVars, subVars>>

-----------------------------------------------------------------------------
(* claim_ciu_action.                                                       *)

casCreateChannel(c) ==
    /\ state[c] = "none" /\ Begins("secure", c, None, None)
    /\ state' = [state EXCEPT ![c] = "pendConnectResp"]
    /\ chanList' = chanList \cup {c}
    /\ UNCHANGED <<taskVars, asVars, chanPendingUpdateARList, secVars, sentVars,
                   notifyVars, wakeVars, subVars>>

asAddClient ==
    /\ aspc = "idle"
    /\ Goes("secure", IF asActive THEN "register" ELSE "serve")
    /\ registeredAs' = [registeredAs EXCEPT ![tchan] = names]
    /\ UNCHANGED <<taskVars, asVars, listVars, asActive, rights, hasCallback, names, sentVars,
                   notifyVars, wakeVars, subVars>>

\* Without access security the thread answers the claim itself.
claim_ciu_reply ==
    /\ Done("serve")
    /\ state' = [state EXCEPT ![tchan] = "inService"]
    /\ told' = [told EXCEPT ![tchan] = rights[tchan]]
    /\ claimed' = claimed \cup {tchan}
    /\ UNCHANGED <<taskVars, asVars, chanList, chanPendingUpdateARList, secVars,
                   cleared, notifyVars, wakeVars, subVars>>

\* With it, the first call of casAccessRightsCB, from this thread, has the
\* event task answer.
asRegisterClientCallback ==
    /\ aspc = "idle" /\ Goes("register", "registering")
    /\ hasCallback' = [hasCallback EXCEPT ![tchan] = TRUE]
    /\ aspc' = "state" /\ aschan' = tchan /\ UNCHANGED sigReq
    /\ UNCHANGED <<taskVars, listVars, asActive, rights, registeredAs, names, sentVars,
                   notifyVars, wakeVars, subVars>>

Registered ==
    /\ aspc = "idle" /\ Done("registering")
    /\ UNCHANGED <<taskVars, asVars, listVars, secVars, sentVars, notifyVars, wakeVars,
                   subVars>>

-----------------------------------------------------------------------------
(* casAccessRightsCB, under the lock of access security.                   *)

\* Access security grants other rights.  A channel with a callback hears it.
ChangeRights(c, r) ==
    /\ asActive /\ aspc = "idle" /\ r # rights[c]
    /\ rights' = [rights EXCEPT ![c] = r]
    /\ IF hasCallback[c] THEN aspc' = "state" /\ aschan' = c
                         ELSE UNCHANGED <<aspc, aschan>>
    /\ UNCHANGED <<sigReq, tcpVars, taskVars, listVars, asActive, hasCallback, registeredAs,
                   names, sentVars, notifyVars, wakeVars, subVars>>

\* Variant with a bug: a channel in service stays where it is.
WithPendingClaim == [pendConnectResp |-> "pendConnectRespUpdatePendAR"]

WithPendingAR == [pendConnectResp |-> "pendConnectRespUpdatePendAR",
                  inService |-> "inServiceUpdatePendAR"]

MarkPendingAR ==
    /\ aspc = "state" /\ aspc' = "events"
    /\ IF state[aschan] \in DOMAIN WithPendingAR
       THEN /\ state' = [state EXCEPT ![aschan] = WithPendingAR[@]]
            /\ chanList' = chanList \ {aschan}
            /\ chanPendingUpdateARList' = chanPendingUpdateARList \cup {aschan}
            /\ sigReq' = TRUE
       ELSE UNCHANGED <<listVars, sigReq>>
    /\ UNCHANGED <<aschan, tcpVars, taskVars, secVars, sentVars, notifyVars, wakeVars,
                   subVars>>

\* Variant with a bug: an event that is disabled does not post.
UpdateEnabledEvents ==
    LET installed == EventsOf(aschan) \cap pdbev IN
    /\ aspc = "events" /\ aspc' = "signal"
    /\ posted' = IF rights[aschan].read THEN posted \cup installed ELSE posted
    /\ enabled' = IF rights[aschan].read THEN enabled \cup installed
                                         ELSE enabled \ installed
    /\ UNCHANGED <<aschan, sigReq, tcpVars, taskVars, listVars, secVars, sentVars,
                   notifyVars, wakeVars, channel, eventq, pdbev, updated, cancelled>>

\* Each subscription in the database posts, and is enabled or not.
UpdateEvents ==
    LET installed == EventsOf(aschan) \cap pdbev IN
    /\ aspc = "events" /\ aspc' = "signal"
    /\ posted' = posted \cup installed
    /\ enabled' = IF rights[aschan].read THEN enabled \cup installed
                                         ELSE enabled \ installed
    /\ UNCHANGED <<aschan, sigReq, tcpVars, taskVars, listVars, secVars, sentVars,
                   notifyVars, wakeVars, channel, eventq, pdbev, updated, cancelled>>

\* Variant with a bug: the event task is not told.
NotSignalled == extraLabor

\* db_post_extra_labor, if a channel was moved.
Signalled == extraLabor \/ sigReq

SignalTask ==
    /\ aspc = "signal" /\ aspc' = "idle" /\ aschan' = None /\ sigReq' = FALSE
    /\ extraLabor' = Signalled
    /\ UNCHANGED <<tcpVars, taskVars, listVars, secVars, sentVars, notifyVars, blockSem,
                   flowCtrl, subVars>>

casAccessRightsCB == MarkPendingAR \/ UpdateEvents \/ SignalTask

-----------------------------------------------------------------------------
(* write_notify_action, on the TCP thread.                                 *)

Answer(p) == replies' = [replies EXCEPT ![p] = @ + 1]

SetNotify(c, n) == pPutNotify' = [pPutNotify EXCEPT ![c] = n]

\* Off the queue, where a block is at most once.
Removed(c) ==
    LET at == CHOOSE k \in 1 .. Len(putNotifyQue) : putNotifyQue[k] = c
    IN  SubSeq(putNotifyQue, 1, at - 1) \o SubSeq(putNotifyQue, at + 1, Len(putNotifyQue))

\* There is no write access.
RefusePut(c) ==
    /\ InUse(c) /\ nextPut \in Puts /\ ~rights[c].write
    /\ Answer(nextPut)
    /\ nextPut' = nextPut + 1 /\ asked' = [asked EXCEPT ![nextPut] = c]
    /\ UNCHANGED <<tcpVars, taskVars, asVars, listVars, secVars, sentVars, dbpc,
                   pPutNotify, putNotifyQue, trapped, wakeVars, subVars>>

\* rsrvAllocPutNotify, or the wait for the put that is busy.
TakePut(c) ==
    /\ InUse(c) /\ nextPut \in Puts /\ rights[c].write
    /\ Begins(IF pPutNotify[c].there THEN "wait" ELSE "start", c, None, nextPut)
    /\ nextPut' = nextPut + 1 /\ asked' = [asked EXCEPT ![nextPut] = c]
    /\ SetNotify(c, [pPutNotify[c] EXCEPT !.there = TRUE])
    /\ UNCHANGED <<taskVars, asVars, listVars, secVars, sentVars, dbpc, putNotifyQue,
                   replies, trapped, wakeVars, subVars>>

LookBusy ==
    /\ Goes("wait", IF pPutNotify[tchan].busy THEN "sem" ELSE "start")
    /\ UNCHANGED <<taskVars, asVars, listVars, secVars, sentVars, notifyVars, wakeVars,
                   subVars>>

Woken ==
    /\ Goes("sem", "wait") /\ blockSem /\ blockSem' = FALSE
    /\ UNCHANGED <<taskVars, asVars, listVars, secVars, sentVars, notifyVars,
                   extraLabor, flowCtrl, subVars>>

\* Variant with a bug: it waits again.
TimesOutForNothing ==
    /\ Goes("sem", "wait")
    /\ UNCHANGED <<taskVars, asVars, listVars, secVars, sentVars, notifyVars, wakeVars,
                   subVars>>

\* 60 seconds passed.
TimesOut ==
    /\ Goes("sem", IF pPutNotify[tchan].busy THEN "cancel" ELSE "expire")
    /\ UNCHANGED <<taskVars, asVars, listVars, secVars, sentVars, notifyVars, wakeVars,
                   subVars>>

\* dbNotifyCancel
Cancelled(c) ==
    /\ dbpc[c] \notin {"done", "returning"}
    /\ dbpc' = [dbpc EXCEPT ![c] = "idle"]

CancelNotify ==
    /\ Goes("cancel", "expire") /\ Cancelled(tchan)
    /\ UNCHANGED <<taskVars, asVars, listVars, secVars, sentVars, pPutNotify,
                   putNotifyQue, nextPut, asked, replies, trapped, wakeVars, subVars>>

\* Variant with a bug: busy is not looked at again after the cancellation.
WasBusy(n) == TRUE

\* Still busy: the put is over, unanswered until now.  onExtraLaborQueue stays.
StillBusy(n) == n.busy

Expire ==
    LET n == pPutNotify[tchan] IN
    /\ Goes("expire", "wait")
    /\ IF StillBusy(n)
       THEN /\ putNotifyQue' = IF n.onExtraLaborQueue THEN Removed(tchan) ELSE putNotifyQue
            /\ SetNotify(tchan, [n EXCEPT !.busy = FALSE, !.asWritePvt = None])
            /\ trapped' = trapped \ {n.asWritePvt}
            /\ Answer(n.msg)
       ELSE UNCHANGED <<putNotifyQue, pPutNotify, trapped, replies>>
    /\ UNCHANGED <<taskVars, asVars, listVars, secVars, sentVars, dbpc, nextPut, asked,
                   wakeVars, subVars>>

StartPut ==
    /\ Goes("start", "process")
    /\ SetNotify(tchan, [there |-> TRUE, busy |-> TRUE, onExtraLaborQueue |-> FALSE,
                         msg |-> tput, asWritePvt |-> tput])
    /\ trapped' = trapped \cup {tput}
    /\ UNCHANGED <<taskVars, asVars, listVars, secVars, sentVars, dbpc, putNotifyQue,
                   nextPut, asked, replies, wakeVars, subVars>>

\* dbProcessNotify, which waits for an earlier callback to return.
ProcessNotify ==
    /\ Done("process") /\ dbpc[tchan] = "idle"
    /\ dbpc' = [dbpc EXCEPT ![tchan] = "processing"]
    /\ UNCHANGED <<taskVars, asVars, listVars, secVars, sentVars, pPutNotify,
                   putNotifyQue, nextPut, asked, replies, trapped, wakeVars, subVars>>

\* rsrvExpandPutNotify, or rsrvAllocPutNotify before it, finds no memory.
StartPutFails ==
    /\ Fails("start") /\ Answer(tput)
    /\ UNCHANGED <<taskVars, asVars, listVars, secVars, sentVars, dbpc, pPutNotify,
                   putNotifyQue, nextPut, asked, trapped, wakeVars, subVars>>

-----------------------------------------------------------------------------
(* The database: dbProcessNotify ends in write_notify_done_callback.       *)

CompletePut(c) ==
    /\ dbpc[c] = "processing" /\ dbpc' = [dbpc EXCEPT ![c] = "done"]
    /\ UNCHANGED <<tcpVars, taskVars, asVars, listVars, secVars, sentVars, pPutNotify,
                   putNotifyQue, nextPut, asked, replies, trapped, wakeVars, subVars>>

\* A block that is not busy, or is on the queue, would be a double call back.
QueueNotify(c) ==
    /\ dbpc[c] = "done"
    /\ IF pPutNotify[c].busy /\ ~pPutNotify[c].onExtraLaborQueue
       THEN /\ putNotifyQue' = Append(putNotifyQue, c)
            /\ SetNotify(c, [pPutNotify[c] EXCEPT !.onExtraLaborQueue = TRUE])
            /\ dbpc' = [dbpc EXCEPT ![c] = "returning"]
       ELSE /\ dbpc' = [dbpc EXCEPT ![c] = "idle"]
            /\ UNCHANGED <<putNotifyQue, pPutNotify>>
    /\ UNCHANGED <<tcpVars, taskVars, asVars, listVars, secVars, sentVars, nextPut,
                   asked, replies, trapped, wakeVars, subVars>>

PostLabor(c) ==
    /\ dbpc[c] = "returning" /\ dbpc' = [dbpc EXCEPT ![c] = "idle"]
    /\ extraLabor' = TRUE
    /\ UNCHANGED <<tcpVars, taskVars, asVars, listVars, secVars, sentVars, pPutNotify,
                   putNotifyQue, nextPut, asked, replies, trapped, blockSem, flowCtrl, subVars>>

write_notify_done_callback(c) == QueueNotify(c) \/ PostLabor(c)

-----------------------------------------------------------------------------
(* The event task: rsrv_extra_labor.                                       *)

TaskGoes(from, to) == epc = from /\ epc' = to

Laboring == epc \in {"labor", "reply", "rights"}

TakeLabor ==
    /\ TaskGoes("idle", "labor") /\ extraLabor /\ extraLabor' = FALSE
    /\ UNCHANGED <<esub, eflag, eput, etrap, tcpVars, asVars, listVars, secVars,
                   sentVars, notifyVars, blockSem, flowCtrl, subVars>>

\* write_notify_reply takes the first block and copies what it needs ...
TakeNotify ==
    LET n == pPutNotify[Head(putNotifyQue)] IN
    /\ TaskGoes("labor", "reply") /\ putNotifyQue # <<>>
    /\ putNotifyQue' = Tail(putNotifyQue)
    /\ eput' = n.msg /\ etrap' = n.asWritePvt
    /\ SetNotify(Head(putNotifyQue), [n EXCEPT !.busy = FALSE, !.asWritePvt = None,
                                               !.onExtraLaborQueue = FALSE])
    /\ UNCHANGED <<esub, eflag, tcpVars, asVars, listVars, secVars, sentVars, dbpc,
                   nextPut, asked, replies, trapped, wakeVars, subVars>>

\* ... and answers without the lock.
ReplyNotify ==
    /\ TaskGoes("reply", "labor")
    /\ Answer(eput) /\ trapped' = trapped \ {etrap}
    /\ eput' = None /\ etrap' = None
    /\ UNCHANGED <<esub, eflag, tcpVars, asVars, listVars, secVars, sentVars, dbpc,
                   pPutNotify, putNotifyQue, nextPut, asked, wakeVars, subVars>>

SignalBlocked ==
    /\ TaskGoes("labor", "rights") /\ putNotifyQue = <<>> /\ blockSem' = TRUE
    /\ UNCHANGED <<esub, eflag, eput, etrap, tcpVars, asVars, listVars, secVars,
                   sentVars, notifyVars, extraLabor, flowCtrl, subVars>>

\* access_rights_reply tells the rights of now.  Of a channel that has left
\* access security it reads what is no longer there.
TellRights(cs) ==
    \E gone \in [{c \in cs : ~hasCallback[c]} -> Rights] :
        told' = [c \in Chans |-> IF c \notin cs THEN told[c]
                                ELSE IF hasCallback[c] THEN rights[c] ELSE gone[c]]

sendAllUpdateAS ==
    LET pending == chanPendingUpdateARList IN
    /\ TaskGoes("rights", "idle")
    /\ TellRights(pending)
    /\ claimed' = claimed \cup {c \in pending : state[c] = "pendConnectRespUpdatePendAR"}
    /\ state' = [c \in Chans |-> IF c \in pending THEN "inService" ELSE state[c]]
    /\ chanList' = chanList \cup pending
    /\ chanPendingUpdateARList' = {}
    /\ UNCHANGED <<esub, eflag, eput, etrap, tcpVars, asVars, secVars, cleared,
                   notifyVars, wakeVars, subVars>>

rsrv_extra_labor ==
    TakeLabor \/ TakeNotify \/ ReplyNotify \/ SignalBlocked \/ sendAllUpdateAS

-----------------------------------------------------------------------------
(* The event task: updates (read_reply).                                   *)

\* Without read access an update says so (no_read_access_event).
Says(readAccess) == IF readAccess THEN "value" ELSE "no access"

\* read_reply looks at the access first ...
ReadAccess(s) ==
    /\ TaskGoes("idle", "update") /\ s \in posted /\ ~flowCtrl
    /\ posted' = posted \ {s}
    /\ esub' = s /\ eflag' = rights[channel[s]].read
    /\ UNCHANGED <<eput, etrap, tcpVars, asVars, listVars, secVars, sentVars, notifyVars,
                   wakeVars, channel, eventq, pdbev, enabled, updated, cancelled>>

\* ... and takes SEND_LOCK to send the value, or that there is no access.
SendUpdate ==
    /\ TaskGoes("update", "idle")
    /\ updated' = [updated EXCEPT ![esub] = Says(eflag)]
    /\ esub' = None /\ eflag' = FALSE
    /\ UNCHANGED <<eput, etrap, tcpVars, asVars, listVars, secVars, sentVars, notifyVars,
                   wakeVars, channel, eventq, pdbev, posted, enabled, cancelled>>

read_reply == SendUpdate \/ \E s \in Subs : ReadAccess(s)

\* The value of a record changes.
Change(c) ==
    /\ posted' = posted \cup {s \in enabled : channel[s] = c}
    /\ UNCHANGED <<tcpVars, taskVars, asVars, listVars, secVars, sentVars, notifyVars,
                   wakeVars, channel, eventq, pdbev, enabled, updated, cancelled>>

\* events_on_action and events_off_action
SetFlowCtrl(mode) ==
    /\ Idle /\ flowCtrl' = mode
    /\ UNCHANGED <<tcpVars, taskVars, asVars, listVars, secVars, sentVars, notifyVars,
                   blockSem, extraLabor, subVars>>

-----------------------------------------------------------------------------
(* event_add_action.                                                       *)

AddEvent(c, s) ==
    /\ InUse(c) /\ channel[s] = None /\ Begins("db_add", c, s, None)
    /\ channel' = [channel EXCEPT ![s] = c] /\ eventq' = eventq \cup {s}
    /\ UNCHANGED <<taskVars, asVars, listVars, secVars, sentVars, notifyVars, wakeVars,
                   pdbev, posted, enabled, updated, cancelled>>

\* db_add_event, and db_post_single_event for the first update.
AddDbEvent ==
    /\ Goes("db_add", "access")
    /\ pdbev' = pdbev \cup {tsub} /\ posted' = posted \cup {tsub}
    /\ UNCHANGED <<taskVars, asVars, listVars, secVars, sentVars, notifyVars, wakeVars,
                   channel, eventq, enabled, updated, cancelled>>

\* There is no memory for it.
AddDbEventFails ==
    /\ Fails("db_add")
    /\ UNCHANGED <<taskVars, asVars, listVars, secVars, sentVars, notifyVars, wakeVars,
                   subVars>>

LookAccess ==
    /\ tpc = "access" /\ tpc' = "enable" /\ tflag' = rights[tchan].read
    /\ UNCHANGED <<tchan, tsub, tput, taskVars, asVars, listVars, secVars, sentVars,
                   notifyVars, wakeVars, subVars>>

EnableEvent ==
    /\ Done("enable")
    /\ enabled' = IF tflag THEN enabled \cup {tsub} ELSE enabled
    /\ UNCHANGED <<taskVars, asVars, listVars, secVars, sentVars, notifyVars, wakeVars,
                   channel, eventq, pdbev, posted, updated, cancelled>>

-----------------------------------------------------------------------------
(* event_cancel_reply.                                                     *)

\* db_cancel_event
DbCancelled(s) ==
    /\ ~(epc = "update" /\ esub = s)
    /\ pdbev' = pdbev \ {s} /\ posted' = posted \ {s} /\ enabled' = enabled \ {s}

RemoveEvent(s) ==
    /\ InUse(channel[s]) /\ s \in eventq /\ Begins("db_cancel", channel[s], s, None)
    /\ eventq' = eventq \ {s}
    /\ UNCHANGED <<taskVars, asVars, listVars, secVars, sentVars, notifyVars, wakeVars,
                   channel, pdbev, posted, enabled, updated, cancelled>>

CancelDbEvent ==
    /\ Goes("db_cancel", "cancelled") /\ DbCancelled(tsub)
    /\ UNCHANGED <<taskVars, asVars, listVars, secVars, sentVars, notifyVars, wakeVars,
                   channel, eventq, updated, cancelled>>

\* The confirmation is sent and the event block is free.
ConfirmCancel ==
    /\ Done("cancelled") /\ cancelled' = cancelled \cup {tsub}
    /\ UNCHANGED <<taskVars, asVars, listVars, secVars, sentVars, notifyVars, wakeVars,
                   channel, eventq, pdbev, posted, enabled, updated>>

-----------------------------------------------------------------------------
(* clear_channel_reply.                                                    *)

\* rsrvFreePutNotify looks whether the put is busy, cancels it, ...
BeginClear(c) ==
    /\ InUse(c)
    /\ Begins(IF pPutNotify[c].busy THEN "free_cancel" ELSE "free", c, None, None)
    /\ UNCHANGED <<taskVars, asVars, listVars, secVars, sentVars, notifyVars, wakeVars,
                   subVars>>

FreeCancels ==
    /\ Goes("free_cancel", "free") /\ Cancelled(tchan)
    /\ UNCHANGED <<taskVars, asVars, listVars, secVars, sentVars, pPutNotify,
                   putNotifyQue, nextPut, asked, replies, trapped, wakeVars, subVars>>

\* ... takes it off the queue, ends the write trap and frees the block.
Unqueued(c) == IF pPutNotify[c].onExtraLaborQueue THEN Removed(c) ELSE putNotifyQue

FreePutNotify ==
    LET n == pPutNotify[tchan] IN
    /\ Goes("free", "events")
    /\ putNotifyQue' = Unqueued(tchan)
    /\ trapped' = IF n.busy THEN trapped \ {n.asWritePvt} ELSE trapped
    /\ SetNotify(tchan, NoNotify)
    /\ UNCHANGED <<taskVars, asVars, listVars, secVars, sentVars, dbpc, nextPut, asked,
                   replies, wakeVars, subVars>>

\* Each event block is taken off the queue, then cancelled and freed.
ClearEvent(s) ==
    /\ tpc = "events" /\ tpc' = "event" /\ s \in EventsOf(tchan) /\ tsub' = s
    /\ eventq' = eventq \ {s}
    /\ UNCHANGED <<tchan, tput, tflag, taskVars, asVars, listVars, secVars, sentVars,
                   notifyVars, wakeVars, channel, pdbev, posted, enabled, updated, cancelled>>

FreeEvent ==
    /\ tpc = "event" /\ tpc' = "events" /\ tsub' = None /\ DbCancelled(tsub)
    /\ cancelled' = cancelled \cup {tsub}
    /\ UNCHANGED <<tchan, tput, tflag, taskVars, asVars, listVars, secVars, sentVars,
                   notifyVars, wakeVars, channel, eventq, updated>>

\* Variant with a bug: labor in progress is not waited for.
NotFlushed == TRUE

\* db_flush_extra_labor_event
Flushed == ~Laboring

FlushLabor ==
    /\ EventsOf(tchan) = {} /\ Flushed /\ Goes("events", "confirm")
    /\ UNCHANGED <<taskVars, asVars, listVars, secVars, sentVars, notifyVars, wakeVars,
                   subVars>>

ConfirmClear ==
    /\ Goes("confirm", "leave") /\ cleared' = cleared \cup {tchan}
    /\ UNCHANGED <<taskVars, asVars, listVars, secVars, told, claimed, notifyVars,
                   wakeVars, subVars>>

asRemoveClient ==
    /\ aspc = "idle" /\ Goes("leave", "unlist")
    /\ hasCallback' = [hasCallback EXCEPT ![tchan] = FALSE]
    /\ registeredAs' = [registeredAs EXCEPT ![tchan] = None]
    /\ UNCHANGED <<taskVars, asVars, listVars, asActive, rights, names, sentVars, notifyVars,
                   wakeVars, subVars>>

Unlist ==
    /\ Done("unlist")
    /\ chanList' = chanList \ {tchan}
    /\ chanPendingUpdateARList' = chanPendingUpdateARList \ {tchan}
    /\ state' = [state EXCEPT ![tchan] = "shutdown"]
    /\ UNCHANGED <<taskVars, asVars, secVars, sentVars, notifyVars, wakeVars, subVars>>

-----------------------------------------------------------------------------
ClientRequests ==
    \/ \E kind \in {"user", "host"}, n \in Names : SetName(kind, n)
    \/ \E c \in Chans : casCreateChannel(c) \/ RefusePut(c) \/ TakePut(c) \/ BeginClear(c)
    \/ \E s \in Subs : (\E c \in Chans : AddEvent(c, s)) \/ RemoveEvent(s)
    \/ \E mode \in BOOLEAN : SetFlowCtrl(mode)
    \/ Disconnect

\* A request once begun goes on.
TcpThread ==
    \/ asAddClient \/ claim_ciu_reply \/ asRegisterClientCallback \/ Registered
    \/ LookBusy \/ Woken \/ TimesOut \/ CancelNotify \/ Expire \/ StartPut \/ StartPutFails \/ ProcessNotify
    \/ AddDbEvent \/ AddDbEventFails \/ LookAccess \/ EnableEvent
    \/ CancelDbEvent \/ ConfirmCancel
    \/ FreeCancels \/ FreePutNotify \/ (\E s \in Subs : ClearEvent(s)) \/ FreeEvent
    \/ FlushLabor \/ ConfirmClear \/ asRemoveClient \/ Unlist

EventTask == rsrv_extra_labor \/ read_reply

Database == \E c \in Chans : CompletePut(c) \/ write_notify_done_callback(c)

ServerNext ==
    \/ ClientRequests \/ TcpThread \/ EventTask \/ casAccessRightsCB \/ Database
    \/ \E c \in Chans : Change(c) \/ \E r \in Rights : ChangeRights(c, r)

ServerSpec == ServerInit /\ [][ServerNext]_serverVars

\* Threads run; a put of the database need not end.  An event that
\* db_cancel_event waits for is not read again.
FairServerSpec ==
    /\ ServerSpec
    /\ WF_serverVars(TcpThread) /\ WF_serverVars(rsrv_extra_labor)
    /\ SF_serverVars(CancelDbEvent \/ FreeEvent)
    /\ WF_serverVars(SendUpdate) /\ WF_serverVars(casAccessRightsCB)
    /\ \A c \in Chans : WF_serverVars(write_notify_done_callback(c))

-----------------------------------------------------------------------------
(* Properties.                                                             *)

\* The block of channel c is on its way: in the database, on the queue of the
\* event task, or in the hands of the TCP thread.
Underway(c) ==
    \/ dbpc[c] \in {"processing", "done"}
    \/ \E k \in 1 .. Len(putNotifyQue) : putNotifyQue[k] = c
    \/ tchan = c /\ tpc \in {"process", "expire", "free"}

Clearing == {"free_cancel", "free", "events", "event", "confirm", "leave", "unlist"}

\* A put callback is answered once, and who will answer it is there: the busy
\* block of its channel, which is underway, the event task that has taken it,
\* or the TCP thread that has yet to start it.  Clearing its channel drops it.
EachPutHasAHolder ==
    \A p \in 1 .. nextPut - 1 :
        LET holders == {c \in Chans : pPutNotify[c].busy /\ pPutNotify[c].msg = p}
            held    == holders # {} \/ eput = p \/ (tput = p /\ tpc # "process")
        IN  /\ replies[p] \in {0, 1}
            /\ replies[p] = 1 => ~held
            /\ replies[p] = 0 => \/ held
                                \/ asked[p] \in cleared
                                \/ (asked[p] = tchan /\ tpc \in Clearing)
            /\ \A c \in holders : c = asked[p] /\ Underway(c)

\* write_notify_done_callback never finds a double call back, and finds its
\* block there, whatever was cancelled, timed out or cleared before.
NoDoubleCallBack ==
    \A c \in Chans : dbpc[c] = "done" =>
        pPutNotify[c].there /\ pPutNotify[c].busy /\ ~pPutNotify[c].onExtraLaborQueue

\* The write trap hears the end of every write it heard the beginning of: what
\* is open belongs to a block or to the reply the event task is sending.
TrapsAreEnded ==
    trapped = ({pPutNotify[c].asWritePvt : c \in Chans} \cup {etrap}) \ {None}

\* Whatever order completion, time-out, cancellation, reply and clear come in,
\* a put is answered once, by one callback, and its write trap is ended.
PutsAreAccountedFor == EachPutHasAHolder /\ NoDoubleCallBack /\ TrapsAreEnded

\* Whatever waits for extra labor, a reply or access rights, has the event
\* task on its way: the flag is up, or will be, or the task is not yet past it.
LaborIsPosted ==
    /\ putNotifyQue # <<>> =>
         \/ extraLabor \/ epc \in {"labor", "reply"}
         \/ \E c \in Chans : dbpc[c] = "returning"
    /\ chanPendingUpdateARList # {} =>
         extraLabor \/ Laboring \/ sigReq

\* Once the callback and the event task are done with it, the client knows the
\* access rights of a channel, however often they changed meanwhile.
ToldIsCurrent ==
    \A c \in Chans :
        state[c] = "inService" /\ hasCallback[c] /\ ~(aspc = "state" /\ aschan = c)
        => told[c] = rights[c]

\* A subscription that nobody is working on and that has nothing to send said
\* last what holds: a value if there is read access, and none if not.
LastUpdateTellsAccess ==
    \A s \in eventq \cap pdbev :
        s \notin posted /\ esub # s /\ ~(aschan = channel[s] /\ aspc \in {"state", "events"})
        => updated[s] = Says(rights[channel[s]].read)

\* With read access it is enabled, although event_add_action and the callback
\* of access security look and enable without a common lock.
EnabledIfReadable ==
    \A s \in eventq \cap pdbev :
        rights[channel[s]].read /\ tsub # s
        /\ ~(aschan = channel[s] /\ aspc \in {"state", "events"})
        => s \in enabled

\* What a subscription sent last, and whether more comes, follow the rights.
UpdatesTellAccess == LastUpdateTellsAccess /\ EnabledIfReadable

\* The names are those every channel was added to access security with.
NamesAreRegistered ==
    \A c \in chanList \cup chanPendingUpdateARList :
        tchan = c \/ registeredAs[c] = names

\* Each channel is on the list its state says, and so are all it counts.
ListsMatchStates ==
    /\ chanList = {c \in Chans : state[c] \in DOMAIN WithPendingAR}
    /\ chanPendingUpdateARList =
         {c \in Chans : state[c] \in {WithPendingAR[t] : t \in DOMAIN WithPendingAR}}

\* Nothing holds on to what clear_channel_reply has freed, and no put callback
\* is answered after the clear: not from the database, the queue or the reply
\* the event task has begun; nor do access rights, lists or updates reach what
\* is gone.
ClearedIsFree ==
    /\ eput # None => asked[eput] \notin cleared
    /\ \A c \in cleared : /\ dbpc[c] \notin {"processing", "done"} /\ ~pPutNotify[c].there
                          /\ \A k \in 1 .. Len(putNotifyQue) : putNotifyQue[k] # c
    /\ \A c \in Chans : state[c] = "shutdown" =>
         aschan # c /\ c \notin chanList \cup chanPendingUpdateARList
    /\ \A s \in cancelled : esub # s /\ s \notin posted \cup enabled

\* A request ends: write_notify_action waits for the put before 60 seconds at
\* a time, then gives up, if the wake-ups for other labor cease (each begins
\* the 60 seconds again).
RequestsEnd ==
    (<>[]~extraLabor) => ((tpc # "idle") ~> (tpc \in {"idle", "closed"}))

\* A claim is answered, however the access rights change meanwhile.
ClaimsAreAnswered ==
    \A c \in Chans : (state[c] # "none") ~> (c \in claimed \/ tpc = "closed")

=============================================================================
