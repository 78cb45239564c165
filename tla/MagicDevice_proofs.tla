------------------------- MODULE MagicDevice_proofs -------------------------
(***************************************************************************)
(* The promises of a device of MagicDevicePlugin to the layer above, for   *)
(* any set of requests, any device and all the faults together: no request *)
(* is answered twice, none is forgotten, "finished" means done, and the    *)
(* polling for the queue index does not die.  Three ledgers make it so:    *)
(* m_requestPacketMap holds only what was never answered; a request with a *)
(* timer stays in m_RequestMap as long as it is in m_requestPacketMap; and *)
(* an id that has left the list of timers never comes back to it.          *)
(***************************************************************************)
EXTENDS MagicDevice, SequenceTheorems, TLAPS

\* The list of timers holds an id at most once, and only ids of requests.
TimersInv ==
    /\ \A m, n \in 1..Len(timerSetList) : timerSetList[m] = timerSetList[n] => m = n
    /\ TimerIds \subseteq called

\* What m_requestPacketMap holds has been asked and not been answered.
LedgerInv ==
    /\ requestPackets \subseteq called
    /\ \A i \in Ids : i \notin called \/ i \in requestPackets => responses[i] = 0
    /\ RespondedOnce

\* Both maps know a request that a timer will end.
OwedInv ==
    /\ NobodyForgotten
    /\ \A i \in requestPackets \cap TimerIds : i \in dropped \/ i \in requestMap

\* The motions reported as finished.
Finished == {i \in Ids : outcome[i] = "finished"}

\* No index is on the way that the device has not reached, and a motion that
\* was reported as finished has left the list, with its target reached.
DoneInv ==
    /\ \A n \in indexReplies : n <= currentIndex
    /\ \A i \in Finished :
           i \in called /\ i \notin TimerIds /\ targetIndex[i] <= currentIndex

DeviceInv == TypeOK /\ TimersInv /\ LedgerInv /\ OwedInv /\ DoneInv
-----------------------------------------------------------------------------
\* addTimer with a new id puts it, once, at the end of the list.
LEMMA AppendTimer ==
    ASSUME timerSetList \in Seq(Ids), NEW i \in Ids, i \notin TimerIds, AddTimer(i)
    PROVE  /\ timerSetList' \in Seq(Ids)
           /\ TimerIds' = TimerIds \cup {i}
           /\ TimersInv /\ i \in called' /\ called \subseteq called' => TimersInv'
<1> DEFINE s == timerSetList
           t == Append(timerSetList, i)
<1>1. /\ t \in Seq(Ids) /\ Len(t) = Len(s) + 1 /\ Len(s) \in Nat
      /\ \A n \in 1..Len(s) : t[n] = s[n]
      /\ t[Len(s) + 1] = i
      /\ DOMAIN s = 1..Len(s) /\ DOMAIN t = 1..Len(t)
  BY AppendProperties, LenProperties
<1>2. timerSetList' = t
  BY DEF AddTimer
<1> HIDE DEF t
<1>3. {t[n] : n \in DOMAIN t} = {s[n] : n \in DOMAIN s} \cup {i}
  BY <1>1
<1>4. ASSUME \A m, n \in 1..Len(s) : s[m] = s[n] => m = n, NEW m \in 1..Len(t),
             NEW n \in 1..Len(t), t[m] = t[n]
      PROVE  m = n
  <2>1. \A j \in 1..Len(s) : s[j] # i
    BY <1>1 DEF TimerIds
  <2>2. (m \in 1..Len(s) \/ m = Len(s) + 1) /\ (n \in 1..Len(s) \/ n = Len(s) + 1)
    BY <1>1
  <2> QED  BY <1>1, <1>4, <2>1, <2>2
<1>5. TimerIds' = TimerIds \cup {i}
  BY <1>2, <1>3 DEF TimerIds
<1> QED  BY <1>1, <1>2, <1>4, <1>5 DEF TimersInv

\* The first timer, and only it, leaves the list; with it goes its id.
LEMMA HeadLeaves ==
    ASSUME timerSetList \in Seq(Ids), timerSetList # <<>>, RemoveHead
    PROVE  /\ timerSetList' \in Seq(Ids)
           /\ Head(timerSetList) \in Ids
           /\ TimerIds = TimerIds' \cup {Head(timerSetList)}
           /\ TimersInv /\ called' = called =>
                  TimersInv' /\ Head(timerSetList) \notin TimerIds'
<1> DEFINE s == timerSetList
           t == Tail(timerSetList)
           h == Head(timerSetList)
<1>1. /\ t \in Seq(Ids) /\ Len(t) = Len(s) - 1 /\ Len(s) \in Nat \ {0}
      /\ \A n \in 1..Len(t) : t[n] = s[n + 1]
      /\ h \in Ids
      /\ DOMAIN s = 1..Len(s) /\ DOMAIN t = 1..Len(t)
  BY HeadTailProperties, LenProperties, EmptySeq
<1>2. h = s[1]
  OBVIOUS
<1>3. timerSetList' = t
  BY DEF RemoveHead
<1> HIDE DEF t, h
<1>4. {s[n] : n \in DOMAIN s} = {t[n] : n \in DOMAIN t} \cup {h}
  <2>1. ASSUME NEW n \in DOMAIN s PROVE s[n] = h \/ \E m \in DOMAIN t : s[n] = t[m]
    <3>1. CASE n = 1
      BY <1>2, <3>1
    <3>2. CASE n # 1
      <4>1. n - 1 \in 1..Len(t) /\ (n - 1) + 1 = n
        BY <1>1, <3>2
      <4> QED  BY <1>1, <4>1
    <3> QED  BY <3>1, <3>2
  <2>2. ASSUME NEW n \in DOMAIN t PROVE \E m \in DOMAIN s : t[n] = s[m]
    <3>1. n + 1 \in DOMAIN s
      BY <1>1
    <3> QED  BY <1>1, <3>1
  <2>3. 1 \in DOMAIN s
    BY <1>1
  <2> QED  BY <1>2, <2>1, <2>2, <2>3
<1>5. ASSUME \A m, n \in 1..Len(s) : s[m] = s[n] => m = n
      PROVE  /\ \A m, n \in 1..Len(t) : t[m] = t[n] => m = n
             /\ \A n \in 1..Len(t) : t[n] # h
  <2>1. \A n \in 1..Len(t) : n + 1 \in 1..Len(s) /\ n + 1 # 1
    BY <1>1
  <2>2. 1 \in 1..Len(s)
    BY <1>1
  <2>3. ASSUME NEW n \in 1..Len(t) PROVE t[n] # h
    BY <1>1, <1>2, <1>5, <2>1, <2>2
  <2>4. ASSUME NEW m \in 1..Len(t), NEW n \in 1..Len(t), t[m] = t[n] PROVE m = n
    <3>1. m + 1 = n + 1
      BY <1>1, <1>5, <2>1, <2>4
    <3> QED  BY <3>1
  <2> QED  BY <2>3, <2>4
<1>6. TimerIds = TimerIds' \cup {h}
  BY <1>3, <1>4 DEF TimerIds
<1>7. ASSUME TimersInv, called' = called PROVE TimersInv' /\ h \notin TimerIds'
  <2>1. h \notin TimerIds'
    BY <1>1, <1>3, <1>5, <1>7 DEF TimersInv, TimerIds
  <2>2. TimerIds' \subseteq called'
    BY <1>6, <1>7 DEF TimersInv
  <2> QED  BY <1>3, <1>5, <1>7, <2>1, <2>2 DEF TimersInv
<1> QED  BY <1>1, <1>3, <1>6, <1>7 DEF h

\* _handleMagicDeviceCommand: a request that was never seen enters the list of
\* timers if it is an action, and disturbs no other timer.
LEMMA EnterEffects ==
    ASSUME TypeOK, TimersInv, NEW i \in Ids, Enter(i)
    PROVE  /\ timerSetList' \in Seq(Ids) /\ targetIndex' \in [Ids -> Nat]
           /\ tickTimer' \in BOOLEAN /\ actionFinishTimer' \in BOOLEAN
           /\ isUpdated' \in BOOLEAN
           /\ i \notin called /\ called' = called \cup {i}
           /\ TimersInv'
           /\ TimerIds \subseteq TimerIds' /\ TimerIds' \subseteq TimerIds \cup {i}
           /\ \A j \in Ids \ {i} : targetIndex'[j] = targetIndex[j]
<1>1. i \notin called /\ called' = called \cup {i} /\ i \notin TimerIds
  BY DEF Enter, TimersInv
<1>2. CASE Kind[i] = "action"
  <2>1. AddTimer(i)
    BY <1>2 DEF Enter
  <2>2. timerSetList' \in Seq(Ids) /\ TimerIds' = TimerIds \cup {i} /\ TimersInv'
    BY <1>1, <2>1, AppendTimer DEF TypeOK
  <2>3. /\ targetIndex' \in [Ids -> Nat] /\ tickTimer' \in BOOLEAN
        /\ actionFinishTimer' \in BOOLEAN /\ isUpdated' \in BOOLEAN
        /\ \A j \in Ids \ {i} : targetIndex'[j] = targetIndex[j]
    BY <2>1 DEF AddTimer, TypeOK
  <2> QED  BY <1>1, <2>2, <2>3
<1>3. CASE Kind[i] # "action"
  <2>1. UNCHANGED timerVars
    BY <1>3 DEF Enter
  <2>2. TimerIds' = TimerIds /\ TimersInv'
    BY <1>1, <2>1 DEF timerVars, TimersInv, TimerIds
  <2> QED  BY <1>1, <2>1, <2>2 DEF timerVars, TypeOK
<1> QED  BY <1>2, <1>3

\* _handleReceiveMessage_slot: taking the id out of m_requestPacketMap before
\* the response goes up is what makes it the only one.
LEMMA RespondKeepsLedger ==
    ASSUME TypeOK, LedgerInv, NEW S, NEW open, NEW what, Respond(S, open, what),
           called \subseteq called', called' \subseteq Ids,
           open \subseteq requestPackets \cup (called' \ called)
    PROVE  LedgerInv' /\ requestPackets' \in SUBSET Ids /\ responses' \in [Ids -> Nat]
<1> USE DEF LedgerInv, RespondedOnce, TypeOK
<1>1. requestPackets' = open \ S /\ open \subseteq called' /\ open \subseteq Ids
  BY DEF Respond
<1>2. \A i \in open : responses[i] = 0
  BY <1>1
<1>3. ASSUME NEW i \in Ids
      PROVE  /\ responses'[i] \in Nat /\ responses'[i] <= 1
             /\ i \notin called' \/ i \in requestPackets' => responses'[i] = 0
  <2>1. responses'[i] = IF i \in S \cap open THEN responses[i] + 1 ELSE responses[i]
    BY DEF Respond
  <2>2. CASE i \in S \cap open
    <3>1. responses'[i] = 1
      BY <1>2, <2>1, <2>2
    <3>2. i \in called' /\ i \notin requestPackets'
      BY <1>1, <2>2
    <3> QED  BY <3>1, <3>2
  <2>3. CASE i \notin S \cap open
    BY <1>1, <1>2, <2>1, <2>3
  <2> QED  BY <2>2, <2>3
<1>4. responses' \in [Ids -> Nat]
  BY <1>3 DEF Respond
<1> QED  BY <1>1, <1>3, <1>4

\* One step preserves the ledger of the requests.
LEMMA LedgerStep ==
    ASSUME TypeOK, TimersInv, LedgerInv, [Next]_vars
    PROVE  LedgerInv'
<1>1. ASSUME NEW i \in Ids, RequestAccepted(i) PROVE LedgerInv'
  BY <1>1 DEF RequestAccepted, Enter, TypeOK, LedgerInv, RespondedOnce
<1>2. ASSUME NEW i \in Ids, RequestTold(i) \/ RequestRefused(i) PROVE LedgerInv'
  <2>1. called' = called \cup {i} /\ i \notin called
    BY <1>2 DEF RequestTold, RequestRefused, Enter
  <2>2. PICK what : Respond({i}, requestPackets \cup {i}, what)
    BY <1>2 DEF RequestTold, RequestRefused
  <2> QED  BY <2>1, <2>2, RespondKeepsLedger DEF TypeOK
<1>3. ASSUME NEW m \in replies, Reply(m) PROVE LedgerInv'
  <2>0. called' = called
    BY <1>3 DEF Reply
  <2>1. CASE NoResponse
    BY <2>0, <2>1 DEF NoResponse, LedgerInv, RespondedOnce
  <2>2. CASE Respond({m.id}, requestPackets, "reply")
    BY <2>0, <2>2, RespondKeepsLedger DEF TypeOK
  <2> QED  BY <1>3, <2>1, <2>2 DEF Reply
<1>4. ASSUME called' = called, NEW S, NEW what, Respond(S, requestPackets, what) PROVE LedgerInv'
  BY <1>4, RespondKeepsLedger DEF TypeOK
<1>5. ASSUME NEW i \in Ids, LinkError(i) PROVE LedgerInv'
  BY <1>4, <1>5 DEF LinkError
<1>6. ASSUME NEW n \in indexReplies, IndexEnds(n) PROVE LedgerInv'
  BY <1>4, <1>6 DEF IndexEnds
<1>7. CASE FinishTimeout
  BY <1>4, <1>7 DEF FinishTimeout
<1>8. CASE DisConnectDevice
  BY <1>4, <1>8 DEF DisConnectDevice
<1>9. ASSUME UNCHANGED pluginVars PROVE LedgerInv'
  BY <1>9 DEF pluginVars, LedgerInv, RespondedOnce
<1>10. ASSUME NEW n \in indexReplies, IndexSeen(n) PROVE LedgerInv'
  BY <1>9, <1>10 DEF IndexSeen
<1>11. CASE AskIndex \/ QueryLost \/ LostConnection \/ ConnectDevice
            \/ DeviceTellsIndex \/ DeviceFinishesMotion
  BY <1>9, <1>11 DEF AskIndex, QueryLost, LostConnection, ConnectDevice,
     DeviceTellsIndex, DeviceFinishesMotion
<1>12. ASSUME NEW i \in Ids, DeviceRuns(i) \/ StrayReply(i) PROVE LedgerInv'
  BY <1>9, <1>12 DEF DeviceRuns, StrayReply
<1>13. CASE UNCHANGED vars
  BY <1>9, <1>13 DEF vars
<1> QED
  BY <1>1, <1>2, <1>3, <1>5, <1>6, <1>7, <1>8, <1>10, <1>11, <1>12, <1>13 DEF Next

\* One step preserves what is said of the list of timers.
LEMMA TimersStep ==
    ASSUME TypeOK, TimersInv, [Next]_vars
    PROVE  TimersInv'
<1>1. ASSUME NEW i \in Ids, RequestAccepted(i) \/ RequestTold(i) \/ RequestRefused(i)
      PROVE  TimersInv'
  BY <1>1, EnterEffects DEF RequestAccepted, RequestTold, RequestRefused
<1>2. ASSUME timerSetList' = timerSetList, called' = called PROVE TimersInv'
  BY <1>2 DEF TimersInv, TimerIds
<1>3. ASSUME RemoveHead, timerSetList # <<>>, called' = called PROVE TimersInv'
  BY <1>3, HeadLeaves DEF TypeOK
<1>4. ASSUME NEW m \in replies, Reply(m) PROVE TimersInv'
  BY <1>2, <1>4 DEF Reply, SetTargetIndexWithId, timerVars
<1>5. ASSUME NEW i \in Ids, LinkError(i) \/ DeviceRuns(i) \/ StrayReply(i) PROVE TimersInv'
  BY <1>2, <1>5 DEF LinkError, DeviceRuns, StrayReply, timerVars, pluginVars
<1>6. ASSUME NEW n \in indexReplies, IndexEnds(n) PROVE TimersInv'
  BY <1>3, <1>6 DEF IndexEnds, IndexFinishes
<1>7. ASSUME NEW n \in indexReplies, IndexSeen(n) PROVE TimersInv'
  BY <1>2, <1>7 DEF IndexSeen, IndexNoted, pluginVars
<1>8. CASE FinishTimeout
  BY <1>3, <1>8 DEF FinishTimeout, ActionFinishTimeover
<1>9. CASE DisConnectDevice
  <2>1. timerSetList' = <<>>
    BY <1>9 DEF DisConnectDevice, ClearTimers
  <2>2. Len(timerSetList') = 0 /\ TimerIds' = {}
    BY <2>1 DEF TimerIds
  <2> QED  BY <2>2 DEF TimersInv
<1>10. CASE AskIndex \/ QueryLost \/ LostConnection \/ ConnectDevice
            \/ DeviceTellsIndex \/ DeviceFinishesMotion
  BY <1>2, <1>10 DEF AskIndex, Tick, QueryLost, LostConnection, ConnectDevice,
     DeviceTellsIndex, DeviceFinishesMotion, timerVars, pluginVars
<1>11. CASE UNCHANGED vars
  BY <1>2, <1>11 DEF vars, timerVars, pluginVars
<1> QED
  BY <1>1, <1>4, <1>5, <1>6, <1>7, <1>8, <1>9, <1>10, <1>11 DEF Next

\* One step preserves the types.
LEMMA TypeStep ==
    ASSUME TypeOK, TimersInv, LedgerInv, [Next]_vars
    PROVE  TypeOK'
<1> USE MagicDeviceAssumption DEF TypeOK
<1>0. missed' \in BOOLEAN
  <2>1. ASSUME NEW i \in Ids, Enter(i) PROVE missed' \in BOOLEAN
    BY <2>1, Zenon DEF Enter
  <2>2. ASSUME LinkStops PROVE missed' \in BOOLEAN
    BY <2>2, Zenon DEF LinkStops
  <2>3. CASE missed' \in {missed, TRUE, FALSE}
    BY <2>3
  <2>4. \/ \E i \in Ids : Enter(i)
        \/ LinkStops
        \/ missed' \in {missed, TRUE, FALSE}
    BY DEF Next, RequestAccepted, RequestTold, RequestRefused, Reply, LinkError, AskIndex,
           IndexEnds, IndexSeen, QueryLost, FinishTimeout, DisConnectDevice, LostConnection,
           ConnectDevice, DeviceRuns, StrayReply, DeviceTellsIndex, DeviceFinishesMotion, vars
  <2> QED  BY <2>1, <2>2, <2>3, <2>4
<1>1. ASSUME NEW i \in Ids, RequestAccepted(i) PROVE TypeOK'
  <2>1. /\ timerSetList' \in Seq(Ids) /\ targetIndex' \in [Ids -> Nat]
        /\ tickTimer' \in BOOLEAN /\ actionFinishTimer' \in BOOLEAN
        /\ isUpdated' \in BOOLEAN /\ called' = called \cup {i}
    BY <1>1, EnterEffects DEF RequestAccepted
  <2>2. /\ called' \in SUBSET Ids /\ requestPackets' \in SUBSET Ids
        /\ requestMap' \in SUBSET Ids /\ pending' \in SUBSET Ids
    BY <1>1, <2>1 DEF RequestAccepted
  <2> QED  BY <1>0, <1>1, <2>1, <2>2 DEF RequestAccepted, firmwareVars
<1>2. ASSUME NEW i \in Ids, RequestTold(i) \/ RequestRefused(i) PROVE TypeOK'
  <2>1. Enter(i) /\ UNCHANGED <<requestMap, linkVars, firmwareVars>>
    BY <1>2 DEF RequestTold, RequestRefused
  <2>2. PICK what \in {"reply", "error"} : Respond({i}, requestPackets \cup {i}, what)
    BY <1>2 DEF RequestTold, RequestRefused
  <2>3. called' \in SUBSET Ids /\ called' = called \cup {i} /\ i \notin called
    BY <2>1 DEF Enter
  <2>4. requestPackets' \in SUBSET Ids /\ responses' \in [Ids -> Nat]
    BY <2>2, <2>3, RespondKeepsLedger
  <2>5. outcome' \in [Ids -> {"none", "reply", "error", "finished", "timeout", "canceled"}]
    BY <2>2 DEF Respond
  <2> QED  BY <1>0, <2>1, <2>3, <2>4, <2>5, EnterEffects DEF linkVars, firmwareVars
<1>3. ASSUME called' = called, NEW S,
             NEW what \in {"none", "reply", "error", "finished", "timeout", "canceled"},
             Respond(S, requestPackets, what)
      PROVE  /\ requestPackets' \in SUBSET Ids /\ responses' \in [Ids -> Nat]
             /\ outcome' \in [Ids -> {"none", "reply", "error", "finished", "timeout", "canceled"}]
  <2>1. requestPackets' \in SUBSET Ids /\ responses' \in [Ids -> Nat]
    BY <1>3, RespondKeepsLedger
  <2>2. outcome' \in [Ids -> {"none", "reply", "error", "finished", "timeout", "canceled"}]
    BY <1>3 DEF Respond
  <2> QED  BY <2>1, <2>2
<1>4. ASSUME NEW m \in replies, Reply(m) PROVE TypeOK'
  <2>0. /\ m.id \in Ids /\ m.index \in Nat /\ called' = called
        /\ replies' \in SUBSET [id : Ids, index : Nat]
        /\ pending' \in SUBSET Ids
        /\ UNCHANGED <<called, up, queries, runs, queuedIndex, indexReplies,
                       lastIndex, currentIndex>>
    BY <1>4 DEF Reply
  <2>1. CASE /\ SetTargetIndexWithId(m.id, m.index) /\ NoResponse
             /\ UNCHANGED <<requestMap, dropped>>
    BY <1>0, <2>0, <2>1 DEF SetTargetIndexWithId, NoResponse
  <2>2. CASE /\ requestMap' = requestMap \ {m.id} /\ dropped' = dropped \cup {m.id}
             /\ NoResponse /\ UNCHANGED timerVars
    BY <1>0, <2>0, <2>2 DEF NoResponse, timerVars
  <2>3. CASE /\ Respond({m.id}, requestPackets, "reply")
             /\ requestMap' = requestMap \ {m.id}
             /\ UNCHANGED <<timerVars, dropped>>
    BY <1>0, <1>3, <2>0, <2>3 DEF timerVars
  <2> QED  BY <1>4, <2>1, <2>2, <2>3 DEF Reply
<1>5. ASSUME NEW i \in Ids, LinkError(i) PROVE TypeOK'
  BY <1>3, <1>5 DEF LinkError, timerVars, firmwareVars
<1>6. CASE AskIndex
  <2>1. queries' \in Nat
    BY <1>6 DEF AskIndex
  <2>2. /\ isUpdated' \in BOOLEAN
        /\ UNCHANGED <<timerSetList, targetIndex, tickTimer, actionFinishTimer>>
    BY <1>6 DEF AskIndex, Tick
  <2> QED  BY <1>6, <2>1, <2>2 DEF AskIndex, pluginVars, firmwareVars
<1>7. ASSUME timerSetList # <<>>, RemoveHead
      PROVE  /\ timerSetList' \in Seq(Ids) /\ tickTimer' \in BOOLEAN
             /\ actionFinishTimer' \in BOOLEAN
  <2>1. timerSetList' \in Seq(Ids)
    BY <1>7, HeadLeaves
  <2> QED  BY <1>7, <2>1 DEF RemoveHead
<1>8. ASSUME NEW n \in indexReplies, IndexEnds(n) PROVE TypeOK'
  <2>1. queries' \in Nat
    BY <1>8 DEF IndexEnds
  <2> QED  BY <1>3, <1>7, <1>8, <2>1 DEF IndexEnds, IndexFinishes
<1>9. ASSUME NEW n \in indexReplies, IndexSeen(n) PROVE TypeOK'
  <2>1. queries' \in Nat /\ indexReplies' \in SUBSET Nat
    BY <1>9 DEF IndexSeen
  <2>2. timerSetList' \in Seq(Ids) /\ tickTimer' \in BOOLEAN /\ isUpdated' \in BOOLEAN
    BY <1>9 DEF IndexSeen, IndexNoted
  <2>3. actionFinishTimer' \in BOOLEAN
    BY <1>9 DEF IndexSeen, IndexNoted
  <2>4. targetIndex' \in [Ids -> Nat]
    <3>1. CASE timerSetList = <<>>
      BY <1>9, <3>1 DEF IndexSeen, IndexNoted
    <3>2. CASE timerSetList # <<>>
      <4>1. Head(timerSetList) \in Ids
        BY <3>2, HeadTailProperties
      <4>2. HeadTarget \in Nat
        BY <4>1 DEF HeadTarget
      <4> QED  BY <1>9, <3>2, <4>1, <4>2 DEF IndexSeen, IndexNoted
    <3> QED  BY <3>1, <3>2
  <2> QED  BY <1>9, <2>1, <2>2, <2>3, <2>4 DEF IndexSeen, pluginVars
<1>10. CASE QueryLost
  <2>1. queries' \in Nat
    BY <1>10 DEF QueryLost
  <2> QED  BY <1>10, <2>1 DEF QueryLost, timerVars, pluginVars, firmwareVars
<1>11. CASE FinishTimeout
  BY <1>3, <1>7, <1>11 DEF FinishTimeout, ActionFinishTimeover, linkVars, firmwareVars
<1>12. ASSUME LinkStops
       PROVE  /\ up' \in BOOLEAN /\ queries' \in Nat
              /\ pending' \in SUBSET Ids /\ dropped' \in SUBSET Ids
  <2>1. up' \in BOOLEAN
    BY <1>12, Zenon DEF LinkStops
  <2>2. queries' \in Nat
    BY <1>12 DEF LinkStops
  <2>3. pending' \in SUBSET Ids /\ dropped' \in SUBSET Ids
    BY <1>12 DEF LinkStops
  <2> QED  BY <2>1, <2>2, <2>3
<1>13. CASE DisConnectDevice
  <2>1. timerSetList' = <<>> /\ UNCHANGED <<targetIndex, isUpdated>>
    BY <1>13 DEF DisConnectDevice, ClearTimers
  <2>2. timerSetList' \in Seq(Ids)
    BY <2>1, EmptySeq
  <2>3. tickTimer' = FALSE /\ actionFinishTimer' = FALSE
    BY <1>13, Zenon DEF DisConnectDevice, ClearTimers
  <2>4. LinkStops
    BY <1>13 DEF DisConnectDevice
  <2> QED
    BY <1>0, <1>3, <1>12, <1>13, <2>1, <2>2, <2>3, <2>4 DEF DisConnectDevice, firmwareVars
<1>14. CASE LostConnection
  BY <1>0, <1>12, <1>14 DEF LostConnection, timerVars, pluginVars, firmwareVars
<1>15. CASE ConnectDevice
  <2>1. up' \in BOOLEAN
    BY <1>15, Zenon DEF ConnectDevice
  <2> QED  BY <1>15, <2>1 DEF ConnectDevice, timerVars, pluginVars, firmwareVars
<1>16. ASSUME NEW i \in Ids, DeviceRuns(i) PROVE TypeOK'
  <2>1. runs' \in [Ids -> Nat]
    BY <1>16 DEF DeviceRuns
  <2>2. CASE Kind[i] = "action"
    <3>1. lastIndex' = lastIndex + 1 /\ lastIndex + 1 \in Nat
      BY <1>16, <2>2 DEF DeviceRuns
    <3>2. queuedIndex' \in [Ids -> Nat]
      BY <1>16, <2>2, <3>1 DEF DeviceRuns
    <3>3. replies' \in SUBSET [id : Ids, index : Nat]
      BY <1>16, <2>2, <3>1 DEF DeviceRuns
    <3> QED  BY <1>16, <2>1, <3>1, <3>2, <3>3 DEF DeviceRuns, timerVars, pluginVars, linkVars
  <2>3. CASE Kind[i] # "action"
    <3>1. replies' \in SUBSET [id : Ids, index : Nat]
      BY <1>16, <2>3 DEF DeviceRuns
    <3> QED  BY <1>16, <2>1, <2>3, <3>1 DEF DeviceRuns, timerVars, pluginVars, linkVars
  <2> QED  BY <2>2, <2>3
<1>17. ASSUME NEW i \in Ids, StrayReply(i) PROVE TypeOK'
  BY <1>17 DEF StrayReply, timerVars, pluginVars, linkVars
<1>18. CASE DeviceTellsIndex
  BY <1>18 DEF DeviceTellsIndex, timerVars, pluginVars, linkVars
<1>19. CASE DeviceFinishesMotion
  <2>1. currentIndex' \in Nat
    BY <1>19 DEF DeviceFinishesMotion
  <2> QED  BY <1>19, <2>1 DEF DeviceFinishesMotion, timerVars, pluginVars, linkVars
<1>20. CASE UNCHANGED vars
  BY <1>20 DEF vars, timerVars, pluginVars, linkVars, firmwareVars
<1> QED
  BY <1>1, <1>2, <1>4, <1>5, <1>6, <1>8, <1>9, <1>10, <1>11, <1>13, <1>14, <1>15, <1>16,
     <1>17, <1>18, <1>19, <1>20 DEF Next

\* One step preserves what is owed: the timer that ends a request finds it in
\* m_RequestMap, and disConnectDevice cancels before it clears the map.
LEMMA OwedStep ==
    ASSUME TypeOK, TimersInv, LedgerInv, OwedInv, [Next]_vars
    PROVE  OwedInv'
<1> USE DEF OwedInv, NobodyForgotten
<1>1. ASSUME NEW i \in Ids, RequestAccepted(i) PROVE OwedInv'
  <2>1. TimerIds \subseteq TimerIds' /\ TimerIds' \subseteq TimerIds \cup {i}
    BY <1>1, EnterEffects DEF RequestAccepted
  <2> QED  BY <1>1, <2>1 DEF RequestAccepted
<1>2. ASSUME NEW i \in Ids, RequestTold(i) \/ RequestRefused(i) PROVE OwedInv'
  <2>1. TimerIds \subseteq TimerIds' /\ TimerIds' \subseteq TimerIds \cup {i}
    BY <1>2, EnterEffects DEF RequestTold, RequestRefused
  <2>2. requestPackets' = requestPackets \ {i}
    BY <1>2 DEF RequestTold, RequestRefused, Respond
  <2> QED  BY <1>2, <2>1, <2>2 DEF RequestTold, RequestRefused, linkVars
<1>3. ASSUME NEW m \in replies, Reply(m) PROVE OwedInv'
  <2>1. TimerIds' = TimerIds /\ pending' = pending \ {m.id}
    BY <1>3 DEF Reply, SetTargetIndexWithId, timerVars, TimerIds
  <2>2. CASE /\ m.id \in TimerIds /\ NoResponse /\ UNCHANGED <<requestMap, dropped>>
    BY <2>1, <2>2 DEF NoResponse
  <2>3. CASE /\ requestMap' = requestMap \ {m.id} /\ dropped' = dropped \cup {m.id}
             /\ NoResponse
    BY <2>1, <2>3 DEF NoResponse
  <2>4. CASE /\ Respond({m.id}, requestPackets, "reply")
             /\ requestMap' = requestMap \ {m.id} /\ UNCHANGED dropped
    BY <2>1, <2>4 DEF Respond
  <2> QED  BY <1>3, <2>2, <2>3, <2>4 DEF Reply
<1>4. ASSUME NEW i \in Ids, LinkError(i) PROVE OwedInv'
  BY <1>4 DEF LinkError, Respond, timerVars, TimerIds
<1>5. ASSUME UNCHANGED <<timerSetList, requestPackets, requestMap, pending, dropped>>
      PROVE  OwedInv'
  BY <1>5 DEF TimerIds
<1>6. CASE AskIndex \/ QueryLost \/ ConnectDevice \/ DeviceTellsIndex
           \/ DeviceFinishesMotion
  BY <1>5, <1>6 DEF AskIndex, Tick, QueryLost, ConnectDevice, DeviceTellsIndex,
     DeviceFinishesMotion, timerVars, pluginVars, linkVars
<1>7. ASSUME timerSetList # <<>>, RemoveHead, NEW what,
             Respond({Head(timerSetList)} \cap requestMap, requestPackets, what),
             requestMap' = requestMap \ {Head(timerSetList)}, UNCHANGED <<pending, dropped>>
      PROVE  OwedInv'
  <2>1. TimerIds = TimerIds' \cup {Head(timerSetList)}
    BY <1>7, HeadLeaves DEF TypeOK
  <2>2. requestPackets' = requestPackets \ ({Head(timerSetList)} \cap requestMap)
    BY <1>7 DEF Respond
  <2> QED  BY <1>7, <2>1, <2>2
<1>8. ASSUME NEW n \in indexReplies, IndexEnds(n) PROVE OwedInv'
  BY <1>7, <1>8 DEF IndexEnds, IndexFinishes
<1>9. ASSUME NEW n \in indexReplies, IndexSeen(n) PROVE OwedInv'
  BY <1>5, <1>9 DEF IndexSeen, IndexNoted, pluginVars
<1>10. CASE FinishTimeout
  BY <1>7, <1>10 DEF FinishTimeout, ActionFinishTimeover, linkVars
<1>11. CASE DisConnectDevice
  <2>1. timerSetList' = <<>>
    BY <1>11 DEF DisConnectDevice, ClearTimers
  <2>2. TimerIds' = {}
    BY <2>1 DEF TimerIds
  <2>3. requestPackets' = requestPackets \ (TimerIds \cap requestMap)
    BY <1>11 DEF DisConnectDevice, Respond
  <2> QED  BY <1>11, <2>2, <2>3 DEF DisConnectDevice, LinkStops
<1>12. CASE LostConnection
  BY <1>12 DEF LostConnection, LinkStops, timerVars, pluginVars, TimerIds
<1>13. ASSUME NEW i \in Ids, DeviceRuns(i) \/ StrayReply(i) PROVE OwedInv'
  BY <1>5, <1>13 DEF DeviceRuns, StrayReply, timerVars, pluginVars, linkVars
<1>14. CASE UNCHANGED vars
  BY <1>5, <1>14 DEF vars, timerVars, pluginVars, linkVars
<1> QED
  BY <1>1, <1>2, <1>3, <1>4, <1>6, <1>8, <1>9, <1>10, <1>11, <1>12, <1>13, <1>14 DEF Next

\* Which motions a response adds to those reported as finished.
LEMMA FinishedBy ==
    ASSUME NEW S, NEW open, NEW what, Respond(S, open, what)
    PROVE  /\ what # "finished" => Finished' \subseteq Finished
           /\ Finished' \subseteq Finished \cup S
  BY DEF Respond, Finished

\* One step preserves what "finished" means: the index that ends the first
\* motion is one the device had reached when it was asked, and an id that has
\* left the list gets no new target.
LEMMA DoneStep ==
    ASSUME TypeOK, TimersInv, LedgerInv, DoneInv, [Next]_vars
    PROVE  DoneInv'
<1>0. /\ timerSetList \in Seq(Ids) /\ targetIndex \in [Ids -> Nat] /\ called \subseteq Ids
      /\ currentIndex \in Nat /\ indexReplies \subseteq Nat /\ Finished \subseteq Ids
  BY DEF TypeOK, Finished
<1>1. ASSUME indexReplies' \subseteq indexReplies, UNCHANGED currentIndex,
             Finished' \subseteq Finished, called \subseteq called',
             \A i \in Finished : i \notin TimerIds' /\ targetIndex'[i] = targetIndex[i]
      PROVE  DoneInv'
  BY <1>1 DEF DoneInv
<1>2. ASSUME UNCHANGED <<outcome, called, timerSetList, targetIndex>>
      PROVE  /\ Finished' = Finished /\ called \subseteq called'
             /\ \A i \in Finished : i \notin TimerIds' /\ targetIndex'[i] = targetIndex[i]
  BY <1>2 DEF Finished, TimerIds, DoneInv
<1>3. ASSUME NEW i \in Ids, Enter(i)
      PROVE  /\ called \subseteq called'
             /\ \A j \in Finished : j \notin TimerIds' /\ targetIndex'[j] = targetIndex[j]
  <2>1. /\ i \notin called /\ called' = called \cup {i}
        /\ TimerIds' \subseteq TimerIds \cup {i}
        /\ \A j \in Ids \ {i} : targetIndex'[j] = targetIndex[j]
    BY <1>3, EnterEffects
  <2>2. i \notin Finished
    BY <2>1 DEF DoneInv
  <2> QED  BY <1>0, <2>1, <2>2 DEF DoneInv
<1>4. ASSUME NEW i \in Ids, RequestAccepted(i) PROVE DoneInv'
  <2>1. Finished' = Finished /\ Enter(i) /\ UNCHANGED <<indexReplies, currentIndex>>
    BY <1>4 DEF RequestAccepted, Finished, firmwareVars
  <2> QED  BY <1>1, <1>3, <2>1
<1>5. ASSUME NEW i \in Ids, RequestTold(i) \/ RequestRefused(i) PROVE DoneInv'
  <2>1. Enter(i) /\ UNCHANGED <<indexReplies, currentIndex>>
    BY <1>5 DEF RequestTold, RequestRefused, firmwareVars
  <2>2. PICK what : what # "finished" /\ Respond({i}, requestPackets \cup {i}, what)
    BY <1>5 DEF RequestTold, RequestRefused
  <2>3. Finished' \subseteq Finished
    BY <2>2, FinishedBy
  <2> QED  BY <1>1, <1>3, <2>1, <2>3
<1>6. ASSUME NEW m \in replies, Reply(m) PROVE DoneInv'
  <2>1. UNCHANGED <<called, indexReplies, currentIndex, timerSetList>>
    BY <1>6 DEF Reply, SetTargetIndexWithId, timerVars
  <2>2. Finished' \subseteq Finished
    <3>1. CASE NoResponse
      BY <3>1 DEF NoResponse, Finished
    <3>2. CASE Respond({m.id}, requestPackets, "reply")
      BY <3>2, FinishedBy
    <3> QED  BY <1>6, <3>1, <3>2 DEF Reply
  <2>3. \A i \in Finished : i \notin TimerIds' /\ targetIndex'[i] = targetIndex[i]
    <3>1. CASE m.id \in TimerIds /\ SetTargetIndexWithId(m.id, m.index)
      BY <1>0, <3>1 DEF SetTargetIndexWithId, DoneInv, TimerIds
    <3>2. CASE UNCHANGED timerVars
      BY <3>2 DEF timerVars, DoneInv, TimerIds
    <3> QED  BY <1>6, <3>1, <3>2 DEF Reply
  <2> QED  BY <1>1, <2>1, <2>2, <2>3
<1>7. ASSUME NEW i \in Ids, LinkError(i) PROVE DoneInv'
  <2>1. UNCHANGED <<called, timerSetList, targetIndex, indexReplies, currentIndex>>
    BY <1>7 DEF LinkError, timerVars, firmwareVars
  <2>2. Finished' \subseteq Finished
    BY <1>7, FinishedBy DEF LinkError
  <2> QED  BY <1>1, <2>1, <2>2 DEF DoneInv, TimerIds
<1>8. CASE AskIndex \/ QueryLost \/ LostConnection \/ ConnectDevice
  BY <1>1, <1>2, <1>8 DEF AskIndex, Tick, QueryLost, LostConnection, ConnectDevice,
     timerVars, pluginVars, firmwareVars
<1>9. ASSUME NEW n \in indexReplies, IndexEnds(n) PROVE DoneInv'
  <2> DEFINE h == Head(timerSetList)
  <2>1. /\ timerSetList # <<>> /\ n >= HeadTarget /\ RemoveHead
        /\ UNCHANGED <<called, targetIndex, currentIndex>>
        /\ indexReplies' \subseteq indexReplies
    BY <1>9 DEF IndexEnds, IndexFinishes
  <2>2. /\ h \in Ids /\ TimerIds = TimerIds' \cup {h} /\ h \notin TimerIds'
    BY <1>0, <2>1, HeadLeaves
  <2>3. Finished' \subseteq Finished \cup {h}
    <3>1. Respond({h} \cap requestMap, requestPackets, "finished")
      BY <1>9 DEF IndexEnds
    <3>2. Finished' \subseteq Finished \cup ({h} \cap requestMap)
      BY ONLY <3>1, FinishedBy
    <3> QED  BY ONLY <3>2
  <2>4. targetIndex[h] <= currentIndex
    <3>1. n \in Nat /\ n <= currentIndex /\ targetIndex[h] \in Nat
      BY <1>0, <2>2 DEF DoneInv
    <3>2. HeadTarget = IF targetIndex[h] = 0 THEN 1 ELSE targetIndex[h]
      BY DEF HeadTarget
    <3> QED  BY ONLY <1>0, <2>1, <3>1, <3>2
  <2>5. h \in called
    BY <2>2 DEF TimersInv
  <2> HIDE DEF h
  <2> QED  BY <2>1, <2>2, <2>3, <2>4, <2>5 DEF DoneInv
<1>10. ASSUME NEW n \in indexReplies, IndexSeen(n) PROVE DoneInv'
  <2>1. /\ UNCHANGED <<called, outcome, currentIndex, timerSetList>>
        /\ indexReplies' \subseteq indexReplies
    BY <1>10 DEF IndexSeen, IndexNoted, pluginVars
  <2>2. \A i \in Finished : targetIndex'[i] = targetIndex[i]
    <3>1. CASE timerSetList = <<>>
      BY <1>10, <3>1 DEF IndexSeen, IndexNoted
    <3>2. CASE timerSetList # <<>>
      <4>1. targetIndex' = [targetIndex EXCEPT ![Head(timerSetList)] = HeadTarget]
        BY <1>10, <3>2 DEF IndexSeen, IndexNoted
      <4>2. Head(timerSetList) \in TimerIds
        <5>1. 1 \in DOMAIN timerSetList /\ Head(timerSetList) = timerSetList[1]
          BY <1>0, <3>2
        <5> QED  BY <5>1 DEF TimerIds
      <4> QED  BY <1>0, <4>1, <4>2 DEF DoneInv
    <3> QED  BY <3>1, <3>2
  <2> QED  BY <1>1, <2>1, <2>2 DEF DoneInv, Finished, TimerIds
<1>11. CASE FinishTimeout
  <2>1. /\ timerSetList # <<>> /\ RemoveHead
        /\ UNCHANGED <<called, targetIndex, indexReplies, currentIndex>>
    BY <1>11 DEF FinishTimeout, ActionFinishTimeover, firmwareVars
  <2>2. TimerIds' \subseteq TimerIds
    BY <1>0, <2>1, HeadLeaves
  <2>3. Finished' \subseteq Finished
    BY <1>11, FinishedBy DEF FinishTimeout
  <2> QED  BY <1>1, <2>1, <2>2, <2>3 DEF DoneInv
<1>12. CASE DisConnectDevice
  <2>1. timerSetList' = <<>> /\ UNCHANGED <<called, targetIndex, indexReplies, currentIndex>>
    BY <1>12 DEF DisConnectDevice, ClearTimers, firmwareVars
  <2>2. TimerIds' = {}
    BY <2>1 DEF TimerIds
  <2>3. Finished' \subseteq Finished
    BY <1>12, FinishedBy DEF DisConnectDevice
  <2> QED  BY <1>1, <2>1, <2>2, <2>3
<1>13. ASSUME NEW i \in Ids, DeviceRuns(i) \/ StrayReply(i) PROVE DoneInv'
  <2>1. UNCHANGED <<outcome, called, timerSetList, targetIndex, indexReplies, currentIndex>>
    BY <1>13 DEF DeviceRuns, StrayReply, timerVars, pluginVars
  <2> QED  BY <1>1, <1>2, <2>1
<1>14. CASE DeviceTellsIndex \/ DeviceFinishesMotion
  <2>1. UNCHANGED <<outcome, called, timerSetList, targetIndex>>
    BY <1>14 DEF DeviceTellsIndex, DeviceFinishesMotion, timerVars, pluginVars
  <2>2. currentIndex' \in Nat /\ currentIndex <= currentIndex'
    BY <1>0, <1>14 DEF DeviceTellsIndex, DeviceFinishesMotion
  <2>3. indexReplies' \subseteq indexReplies \cup {currentIndex}
    BY <1>14 DEF DeviceTellsIndex, DeviceFinishesMotion
  <2> QED  BY <1>0, <1>2, <2>1, <2>2, <2>3 DEF DoneInv
<1>15. CASE UNCHANGED vars
  BY <1>1, <1>2, <1>15 DEF vars, timerVars, pluginVars, firmwareVars
<1> QED
  BY <1>4, <1>5, <1>6, <1>7, <1>8, <1>9, <1>10, <1>11, <1>12, <1>13, <1>14, <1>15 DEF Next

\* One step keeps the ledger of the polling: whoever stops waiting for a query
\* without its answer has noted that it was missed.
LEMMA PollStep ==
    ASSUME TypeOK, PollingAlive, [Next]_vars
    PROVE  PollingAlive'
<1> USE DEF PollingAlive, TickStuck
<1>1. queries \in Nat
  BY DEF TypeOK
<1>2. ASSUME UNCHANGED <<tickTimer, isUpdated, queries, missed>> PROVE PollingAlive'
  BY <1>2
<1>3. ASSUME NEW i \in Ids, RequestAccepted(i) \/ RequestTold(i) \/ RequestRefused(i)
      PROVE  PollingAlive'
  <2>1. Enter(i) /\ UNCHANGED queries
    BY <1>3 DEF RequestAccepted, RequestTold, RequestRefused, linkVars
  <2>2. CASE Kind[i] = "action"
    <3>1. AddTimer(i) /\ missed' = (missed /\ tickTimer)
      BY <2>1, <2>2 DEF Enter
    <3>2. CASE tickTimer
      BY <2>1, <3>1, <3>2, Zenon DEF AddTimer
    <3>3. CASE ~tickTimer
      <4>1. isUpdated'
        BY <3>1, <3>3, Zenon DEF AddTimer
      <4> QED  BY <4>1
    <3> QED  BY <3>2, <3>3
  <2>3. CASE Kind[i] # "action"
    BY <1>2, <2>1, <2>3 DEF Enter, timerVars
  <2> QED  BY <2>2, <2>3
<1>4. ASSUME NEW m \in replies, Reply(m) PROVE PollingAlive'
  BY <1>2, <1>4 DEF Reply, SetTargetIndexWithId, timerVars
<1>5. ASSUME NEW i \in Ids, LinkError(i) \/ DeviceRuns(i) \/ StrayReply(i)
      PROVE  PollingAlive'
  BY <1>2, <1>5 DEF LinkError, DeviceRuns, StrayReply, timerVars, linkVars
<1>6. CASE AskIndex
  <2>1. missed' \/ queries' = queries + 1
    BY <1>6 DEF AskIndex
  <2>2. missed' \/ queries' # 0
    BY <1>1, <2>1
  <2> QED  BY <2>2
<1>7. ASSUME NEW n \in indexReplies, IndexEnds(n) \/ IndexSeen(n) PROVE PollingAlive'
  <2>1. isUpdated'
    BY <1>7, Zenon DEF IndexEnds, IndexSeen, IndexFinishes, IndexNoted
  <2> QED  BY <2>1
<1>8. CASE FinishTimeout
  <2>1. (tickTimer' => tickTimer) /\ UNCHANGED <<isUpdated, queries, missed>>
    BY <1>8, Zenon DEF FinishTimeout, ActionFinishTimeover, RemoveHead, linkVars
  <2> QED  BY <2>1
<1>9. CASE DisConnectDevice
  <2>1. ~tickTimer'
    BY <1>9, Zenon DEF DisConnectDevice, ClearTimers
  <2> QED  BY <2>1
<1>10. CASE LostConnection
  <2>1. UNCHANGED <<tickTimer, isUpdated>> /\ queries' \in 0..queries
    BY <1>10 DEF LostConnection, LinkStops, timerVars
  <2>2. queries' < queries => missed'
    BY <1>10, Zenon DEF LostConnection, LinkStops
  <2>3. missed => missed'
    BY <1>10, Zenon DEF LostConnection, LinkStops
  <2>4. queries' < queries \/ queries' = queries
    BY <1>1, <2>1
  <2> QED  BY <2>1, <2>2, <2>3, <2>4
<1>11. CASE QueryLost
  BY <1>11 DEF QueryLost
<1>12. CASE ConnectDevice \/ DeviceTellsIndex \/ DeviceFinishesMotion \/ UNCHANGED vars
  BY <1>2, <1>12
  DEF ConnectDevice, DeviceTellsIndex, DeviceFinishesMotion, vars, timerVars, linkVars
<1> QED
  BY <1>3, <1>4, <1>5, <1>6, <1>7, <1>8, <1>9, <1>10, <1>11, <1>12 DEF Next

-----------------------------------------------------------------------------
\* The inductive invariant holds, whatever faults there are.
THEOREM DeviceInvariant == Spec => []DeviceInv
<1>1. Init => DeviceInv
  <2> SUFFICES ASSUME Init PROVE DeviceInv
    OBVIOUS
  <2>1. timerSetList = <<>> /\ TimerIds = {} /\ Len(timerSetList) = 0
    BY DEF Init, TimerInit, TimerIds
  <2>2. TypeOK
    <3>1. timerSetList \in Seq(Ids)
      BY <2>1, EmptySeq
    <3>2. up \in BOOLEAN /\ tickTimer \in BOOLEAN /\ actionFinishTimer \in BOOLEAN
      BY Zenon DEF Init, TimerInit
    <3> QED  BY <3>1, <3>2, MagicDeviceAssumption DEF Init, TimerInit, TypeOK
  <2>3. TimersInv
    BY <2>1 DEF TimersInv
  <2>4. LedgerInv /\ OwedInv
    BY <2>1 DEF Init, LedgerInv, RespondedOnce, OwedInv, NobodyForgotten
  <2>5. DoneInv
    <3>1. Finished = {} /\ indexReplies = {}
      BY DEF Init, Finished
    <3> QED  BY <3>1 DEF DoneInv
  <2> QED  BY <2>2, <2>3, <2>4, <2>5 DEF DeviceInv
<1>2. DeviceInv /\ [Next]_vars => DeviceInv'
  BY TypeStep, TimersStep, LedgerStep, OwedStep, DoneStep DEF DeviceInv
<1> QED  BY <1>1, <1>2, PTL DEF Spec

\* The types of the plugin's maps and of the timers.
THEOREM DeviceTypes == Spec => []TypeOK
  BY DeviceInvariant, PTL DEF DeviceInv

\* MagicDevicePlugin answers a request at most once, although a link error and
\* the orphaned timer, or an early index and the reply, may both report it.
THEOREM AnsweredOnce == Spec => []RespondedOnce
  BY DeviceInvariant, PTL DEF DeviceInv, LedgerInv

\* MagicDevicePlugin forgets no request: the link has it, or a timer that will
\* find it in m_RequestMap, unless a disconnection or a stray reply took it.
THEOREM NoneForgotten == Spec => []NobodyForgotten
  BY DeviceInvariant, PTL DEF DeviceInv, OwedInv

\* ActionTimerManager reports a motion whose queue index had arrived as finished
\* only when the device has done it.
THEOREM FinishedIsDone == Spec => []FinishedMeansDone
<1>1. DeviceInv => FinishedMeansDone
  <2> SUFFICES ASSUME DeviceInv, NEW i \in Ids, outcome[i] = "finished",
                      targetIndex[i] = queuedIndex[i]
               PROVE  currentIndex >= queuedIndex[i]
    BY DEF FinishedMeansDone
  <2>1. targetIndex[i] <= currentIndex
    BY DEF DeviceInv, DoneInv, Finished
  <2>2. targetIndex[i] \in Nat /\ currentIndex \in Nat
    BY DEF DeviceInv, TypeOK
  <2> QED  BY <2>1, <2>2
<1> QED  BY <1>1, DeviceInvariant, PTL

\* isUpdated blocks ActionTimerManager's tick for good only when a query for the
\* index was refused, lost or broken off: nothing else that happens to the
\* device, its requests and its timers can.
THEOREM TickNeverBlocked == Spec => []PollingAlive
<1>1. Init => PollingAlive
  <2>1. Init => ~tickTimer
    BY Zenon DEF Init, TimerInit
  <2> QED  BY <2>1 DEF PollingAlive, TickStuck
<1>2. TypeOK /\ PollingAlive /\ [Next]_vars => PollingAlive'
  BY PollStep
<1> QED  BY <1>1, <1>2, DeviceTypes, PTL DEF Spec
=============================================================================
