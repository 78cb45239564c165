----------------------------- MODULE MagicDevice -----------------------------
(***************************************************************************)
(* One device of MagicDevicePlugin: MagicDevice with its m_RequestMap and  *)
(* ActionTimerManager, under the plugin's m_requestPacketMap and over a    *)
(* link of which only what CommandPort promises is used.  All of it runs   *)
(* in the plugin's thread and signals are direct calls, so a request, a    *)
(* frame, a timer or a disconnection is one action, responses included.    *)
(*                                                                         *)
(* Requests have distinct ids (DWebSocketServer numbers them).  An action  *)
(* waits for the end of a queued motion; an ask is answered by the reply;  *)
(* a tell wants none (SetJOGCmdTime).                                      *)
(***************************************************************************)
EXTENDS ActionTimerManager, FiniteSets

CONSTANTS Kind,        \* "action", "ask" or "tell"
          FirstIndex,  \* the device's queue index when the session starts
          MaxRuns,     \* bound: times the device runs one packet (resends)
          MaxQueries,  \* bound: index queries outstanding
          Faults       \* what may go wrong: "loss", "refusal", "unplug",
                       \* "offline" (a request while down), "stray"

ASSUME MagicDeviceAssumption ==
    /\ Kind \in [Ids -> {"action", "ask", "tell"}]
    /\ FirstIndex \in Nat
    /\ MaxRuns \in Nat
    /\ MaxQueries \in Nat
    /\ Faults \subseteq {"loss", "refusal", "unplug", "offline", "stray"}

VARIABLES
    called,          \* requests received so far (history)
    requestPackets,  \* MagicDevicePlugin::m_requestPacketMap
    responses,       \* responses sent upwards for each id (history)
    outcome,         \* the last of them (history)
    requestMap,      \* MagicDevicePrivate::m_RequestMap
    up,              \* the link runs
    pending,         \* packets the link has accepted and not answered
    queries,         \* index queries (id 0, private) among them
    dropped,         \* requests forgotten by a disconnection or a stray reply (history)
    missed,          \* a query of the tick was refused, lost or forgotten (history)
    \* The device, outside the repository.
    runs,            \* times it has run each packet
    queuedIndex,     \* queuedCmdIndex it gave each motion last, 0 for none
    replies,         \* its replies on the way
    indexReplies,    \* its answers to index queries on the way
    lastIndex,       \* index of the last motion put in its queue
    currentIndex     \* index of the last motion finished

pluginVars == <<called, requestPackets, responses, outcome>>
linkVars == <<up, pending, queries, dropped>>
firmwareVars == <<runs, queuedIndex, replies, indexReplies, lastIndex, currentIndex>>
vars == <<timerVars, pluginVars, requestMap, linkVars, missed, firmwareVars>>

Init ==
    /\ TimerInit
    /\ called = {}
    /\ requestPackets = {}
    /\ responses = [i \in Ids |-> 0]
    /\ outcome = [i \in Ids |-> "none"]
    /\ requestMap = {}
    /\ up = TRUE
    /\ pending = {}
    /\ queries = 0
    /\ dropped = {}
    /\ missed = FALSE
    /\ runs = [i \in Ids |-> 0]
    /\ queuedIndex = [i \in Ids |-> 0]
    /\ replies = {}
    /\ indexReplies = {}
    /\ lastIndex = FirstIndex
    /\ currentIndex = FirstIndex

-----------------------------------------------------------------------------
\* MUTANT of Respond: m_requestPacketMap.value(id) instead of take(id).
RespondKeeping(S, open, what) ==
    /\ requestPackets' = open
    /\ responses' = [i \in Ids |-> IF i \in S \cap open THEN responses[i] + 1 ELSE responses[i]]
    /\ outcome' = [i \in Ids |-> IF i \in S \cap open THEN what ELSE outcome[i]]

\* onResultMessage_signal for the ids of S: _handleReceiveMessage_slot answers
\* those it still has (open), and ignores the others.
Respond(S, open, what) ==
    /\ requestPackets' = open \ S
    /\ responses' = [i \in Ids |-> IF i \in S \cap open THEN responses[i] + 1 ELSE responses[i]]
    /\ outcome' = [i \in Ids |-> IF i \in S \cap open THEN what ELSE outcome[i]]

NoResponse == UNCHANGED <<requestPackets, responses, outcome>>

\* The first steps of a request: _handleMagicDeviceCommand and sendCommand up
\* to the call of the link.
Enter(i) ==
    /\ i \notin called
    /\ up \/ "offline" \in Faults
    /\ called' = called \cup {i}
    /\ IF Kind[i] = "action" THEN AddTimer(i) ELSE UNCHANGED timerVars
    /\ missed' = (missed /\ (Kind[i] = "action" => tickTimer))

\* The link takes the packet.
RequestAccepted(i) ==
    /\ Enter(i)
    /\ up
    /\ Kind[i] # "tell"
    /\ requestPackets' = requestPackets \cup {i}
    /\ requestMap' = requestMap \cup {i}
    /\ pending' = pending \cup {i}
    /\ UNCHANGED <<responses, outcome, up, queries, dropped, firmwareVars>>

\* The link answers a tell at once: recviceP2Data_slot inside sendCommand.
RequestTold(i) ==
    /\ Enter(i)
    /\ up
    /\ Kind[i] = "tell"
    /\ Respond({i}, requestPackets \cup {i}, "reply")
    /\ UNCHANGED <<requestMap, linkVars, firmwareVars>>

\* The link refuses (stopped, full, no packet): errorOccurred_slot inside
\* sendCommand.  The timer of an action stays.
RequestRefused(i) ==
    /\ Enter(i)
    /\ ~up \/ "refusal" \in Faults
    /\ Respond({i}, requestPackets \cup {i}, "error")
    /\ UNCHANGED <<requestMap, linkVars, firmwareVars>>

\* recviceP2Data_slot: the reply answers the request, unless a timer has its id
\* (an action): then it sets the timer's target, or, if it carries no index,
\* takes the request out of m_RequestMap.
Reply(m) ==
    /\ up
    /\ m \in replies
    /\ m.id \in pending
    /\ replies' = {r \in replies : r.id # m.id}
    /\ pending' = pending \ {m.id}
    /\ \/ /\ m.id \in TimerIds
          /\ m.index > 0
          /\ SetTargetIndexWithId(m.id, m.index)
          /\ NoResponse
          /\ UNCHANGED <<requestMap, dropped>>
       \/ /\ m.id \in TimerIds
          /\ m.index = 0
          /\ requestMap' = requestMap \ {m.id}
          /\ dropped' = dropped \cup {m.id}
          /\ NoResponse
          /\ UNCHANGED timerVars
       \/ /\ m.id \notin TimerIds
          /\ Respond({m.id}, requestPackets, "reply")
          /\ requestMap' = requestMap \ {m.id}
          /\ UNCHANGED <<timerVars, dropped>>
    /\ UNCHANGED <<missed, called, up, queries, runs, queuedIndex, indexReplies,
                   lastIndex, currentIndex>>

\* errorOccurred_slot after ERROR_COMMUNICATION_TIMEOUT.
LinkError(i) ==
    /\ "loss" \in Faults
    /\ up
    /\ i \in pending
    /\ pending' = pending \ {i}
    /\ requestMap' = requestMap \ {i}
    /\ Respond({i}, requestPackets, "error")
    /\ UNCHANGED <<missed, timerVars, called, up, queries, dropped, firmwareVars>>

-----------------------------------------------------------------------------
\* checkCurrentIndex_slot: the link takes the query, or refuses it, stopped or
\* full, with an error for id 0 that nobody waits for.
AskIndex ==
    /\ Tick
    /\ \/ /\ up
          /\ queries < MaxQueries
          /\ queries' = queries + 1
          /\ UNCHANGED missed
       \/ /\ ~up \/ "refusal" \in Faults
          /\ missed' = TRUE
          /\ UNCHANGED queries
    /\ UNCHANGED <<pluginVars, requestMap, up, pending, dropped, firmwareVars>>

\* The answer to a query ends the first motion: handleActionFinish_slot
\* answers it if m_RequestMap still has it ...
IndexEnds(n) ==
    /\ up
    /\ queries > 0
    /\ n \in indexReplies
    /\ IndexFinishes(n)
    /\ queries' = queries - 1
    /\ missed' = FALSE
    /\ indexReplies' = indexReplies \ {n}
    /\ Respond({Head(timerSetList)} \cap requestMap, requestPackets, "finished")
    /\ requestMap' = requestMap \ {Head(timerSetList)}
    /\ UNCHANGED <<called, up, pending, dropped, runs, queuedIndex, replies,
                   lastIndex, currentIndex>>

\* ... or does not.
IndexSeen(n) ==
    /\ up
    /\ queries > 0
    /\ n \in indexReplies
    /\ IndexNoted(n)
    /\ queries' = queries - 1
    /\ missed' = FALSE
    /\ indexReplies' = indexReplies \ {n}
    /\ UNCHANGED <<pluginVars, requestMap, up, pending, dropped, runs, queuedIndex,
                   replies, lastIndex, currentIndex>>

\* A query times out: errorOccurred_slot with id 0.
QueryLost ==
    /\ "loss" \in Faults
    /\ up
    /\ queries > 0
    /\ queries' = queries - 1
    /\ missed' = TRUE
    /\ UNCHANGED <<timerVars, pluginVars, requestMap, up, pending, dropped, firmwareVars>>

\* The finish timer: handleActionFinish_slot with TIMEOUT.
FinishTimeout ==
    /\ ActionFinishTimeover
    /\ Respond({Head(timerSetList)} \cap requestMap, requestPackets, "timeout")
    /\ requestMap' = requestMap \ {Head(timerSetList)}
    /\ UNCHANGED <<missed, called, linkVars, firmwareVars>>

-----------------------------------------------------------------------------
\* The link stops: what was in flight is forgotten, what was not yet sent is
\* kept (CommandPort: any part of the open calls).
LinkStops ==
    /\ up' = FALSE
    /\ pending' \in SUBSET pending
    /\ dropped' = dropped \cup (pending \ pending')
    /\ queries' \in 0..queries
    /\ missed' = (missed \/ queries' < queries)

\* MUTANT of DisConnectDevice: the timers are cleared without CANCELED.
DisConnectDeviceSilently ==
    /\ ClearTimers
    /\ NoResponse
    /\ LinkStops
    /\ requestMap' = {}
    /\ UNCHANGED <<called, firmwareVars>>

\* disConnectDevice: CANCELED for every timer, then the link, then the map.
DisConnectDevice ==
    /\ ClearTimers
    /\ Respond(TimerIds \cap requestMap, requestPackets, "canceled")
    /\ LinkStops
    /\ requestMap' = {}
    /\ UNCHANGED <<called, firmwareVars>>

\* The keep-alive timer misses the port: MessageHandler disconnects by itself;
\* the timers and m_RequestMap stay.
LostConnection ==
    /\ "unplug" \in Faults
    /\ up
    /\ LinkStops
    /\ UNCHANGED <<timerVars, pluginVars, requestMap, firmwareVars>>

ConnectDevice ==
    /\ ~up
    /\ up' = TRUE
    /\ UNCHANGED <<missed, timerVars, pluginVars, requestMap, pending, queries, dropped,
                   firmwareVars>>

-----------------------------------------------------------------------------
\* The device gets a packet, again after a resend: a motion is queued each time.
DeviceRuns(i) ==
    /\ up
    /\ i \in pending
    /\ runs[i] < (IF "loss" \in Faults THEN MaxRuns ELSE 1)
    /\ runs' = [runs EXCEPT ![i] = @ + 1]
    /\ IF Kind[i] = "action"
       THEN /\ lastIndex' = lastIndex + 1
            /\ queuedIndex' = [queuedIndex EXCEPT ![i] = lastIndex + 1]
            /\ replies' = replies \cup {[id |-> i, index |-> lastIndex + 1]}
       ELSE /\ UNCHANGED <<lastIndex, queuedIndex>>
            /\ replies' = replies \cup {[id |-> i, index |-> 0]}
    /\ UNCHANGED <<missed, timerVars, pluginVars, requestMap, linkVars, indexReplies, currentIndex>>

\* The link takes a late reply to an earlier call of the same command, one that
\* was not queued, for the reply to i: the frames carry no request number, so
\* P2Link can only promise RepliesBacked.
StrayReply(i) ==
    /\ "stray" \in Faults
    /\ up
    /\ i \in pending
    /\ replies' = replies \cup {[id |-> i, index |-> 0]}
    /\ UNCHANGED <<missed, timerVars, pluginVars, requestMap, linkVars, runs, queuedIndex,
                   indexReplies, lastIndex, currentIndex>>

DeviceTellsIndex ==
    /\ up
    /\ queries > 0
    /\ indexReplies' = indexReplies \cup {currentIndex}
    /\ UNCHANGED <<missed, timerVars, pluginVars, requestMap, linkVars, runs, queuedIndex,
                   replies, lastIndex, currentIndex>>

DeviceFinishesMotion ==
    /\ currentIndex < lastIndex
    /\ currentIndex' = currentIndex + 1
    /\ UNCHANGED <<missed, timerVars, pluginVars, requestMap, linkVars, runs, queuedIndex,
                   replies, indexReplies, lastIndex>>

Next ==
    \/ \E i \in Ids : RequestAccepted(i) \/ RequestTold(i) \/ RequestRefused(i)
    \/ \E m \in replies : Reply(m)
    \/ \E i \in Ids : LinkError(i)
    \/ AskIndex
    \/ \E n \in indexReplies : IndexEnds(n) \/ IndexSeen(n)
    \/ QueryLost
    \/ FinishTimeout
    \/ DisConnectDevice
    \/ LostConnection
    \/ ConnectDevice
    \/ \E i \in Ids : DeviceRuns(i) \/ StrayReply(i)
    \/ DeviceTellsIndex
    \/ DeviceFinishesMotion

Spec == Init /\ [][Next]_vars

\* Armed timers expire, the device works off its queue and answers, and what
\* has arrived is read.
Fairness ==
    /\ WF_vars(AskIndex)
    /\ WF_vars(FinishTimeout)
    /\ WF_vars(DeviceTellsIndex)
    /\ WF_vars(DeviceFinishesMotion)
    /\ \A i \in Ids : WF_vars(DeviceRuns(i))
    /\ WF_vars(\E m \in replies : Reply(m))
    /\ WF_vars(\E n \in indexReplies : IndexEnds(n) \/ IndexSeen(n))

FairSpec == Spec /\ Fairness

-----------------------------------------------------------------------------
TypeOK ==
    /\ timerSetList \in Seq(Ids)
    /\ targetIndex \in [Ids -> Nat]
    /\ tickTimer \in BOOLEAN
    /\ actionFinishTimer \in BOOLEAN
    /\ isUpdated \in BOOLEAN
    /\ called \in SUBSET Ids
    /\ requestPackets \in SUBSET Ids
    /\ responses \in [Ids -> Nat]
    /\ outcome \in [Ids -> {"none", "reply", "error", "finished", "timeout", "canceled"}]
    /\ requestMap \in SUBSET Ids
    /\ up \in BOOLEAN
    /\ pending \in SUBSET Ids
    /\ queries \in Nat
    /\ dropped \in SUBSET Ids
    /\ missed \in BOOLEAN
    /\ runs \in [Ids -> Nat]
    /\ queuedIndex \in [Ids -> Nat]
    /\ replies \in SUBSET [id : Ids, index : Nat]
    /\ indexReplies \in SUBSET Nat
    /\ lastIndex \in Nat
    /\ currentIndex \in Nat

\* A request is answered at most once although the layers below may report it
\* twice: a link error and later its orphaned timer, or a motion ended by an
\* early index and later the reply to its command.
RespondedOnce == \A i \in Ids : responses[i] <= 1

\* A request without a response is still owed one by somebody: the link has it,
\* or its timer runs and m_RequestMap knows it, unless a disconnection or a
\* stray reply made it forgotten.
NobodyForgotten ==
    \A i \in requestPackets \ dropped :
        i \in pending \/ (i \in TimerIds /\ i \in requestMap)

\* The tick waits for an answer that nobody will give: it asks no more.
TickStuck == tickTimer /\ ~isUpdated /\ queries = 0

\* Whatever refuses, loses and breaks off, the polling for the index dies in one
\* way only: a query of its own did not get through.  Timers that enter and
\* leave, late answers, disconnections and other people's errors never leave
\* isUpdated false behind.
PollingAlive == TickStuck => missed

\* Whatever refuses and loses, every request that waits (a tell is answered or
\* refused at once) is answered, unless the link stops
\* or the tick is stuck: a motion waits for those before it, each of which ends
\* or runs into the finish timer, the orphaned timer of a refused or failed
\* action included.
EventuallyResponded ==
    \A i \in {j \in Ids : Kind[j] # "tell"} :
        (i \in requestPackets \ dropped) ~> (responses[i] > 0 \/ i \in dropped \/ ~up \/ TickStuck)

\* The exits ActionTimerManager.cpp names for every timer that enters by
\* addTimer: it leaves by timeout or by the end of the motion.  It does not hold:
\* after a query that did not get through it leaves by neither.
TimerExits == \A i \in Ids : (i \in TimerIds) ~> (i \notin TimerIds \/ ~up)

\* "ACTION FINISH": a motion whose queue index had arrived and that is reported
\* as finished is one the device has done, however late, lost or interleaved
\* the answers to the index queries are.  Of a motion whose index had not
\* arrived (its target is replaced by 1) this cannot be said.
FinishedMeansDone ==
    \A i \in Ids :
        outcome[i] = "finished" /\ targetIndex[i] = queuedIndex[i]
            => currentIndex >= queuedIndex[i]
=============================================================================
