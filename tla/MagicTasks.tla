----------------------------- MODULE MagicTasks ------------------------------
(***************************************************************************)
(* What MagicDevicePlugin does itself, above its devices: searches, with a *)
(* broadcast for M1 robots; downloads to the MagicBox, each on a thread of *)
(* its own; the space of the box; and GetEndEffectorStatus, which it makes *)
(* of three commands, one after the other, under one id.                   *)
(*                                                                         *)
(* The plugin and its devices run in one thread.  A device is here a link  *)
(* that takes a command, or refuses it inside the call, and later answers  *)
(* it or reports an error (CommandPort).                                   *)
(***************************************************************************)
EXTENDS Naturals, Sequences, FiniteSets, TLC

CONSTANTS
    Sessions,       \* what clients ask: [asks, mishaps, exit]
    MaxAsks,        \* requests of the longest session
    SerialNames,    \* serial ports there are
    Addresses       \* addresses of M1 robots that answer a broadcast

VARIABLES
    session,                \* the session that is played
    come,                   \* how many of its requests have come in
    mishaps,                \* failures still to come
    openPackets,            \* ids in MagicDevicePlugin::m_requestPacketMap
    m_deviceMap,            \* ports that have a MagicDevice
    linked,                 \* those of them that are connected
    inFlight,               \* commands a link has taken and not answered
    m_RequestMap,           \* of the devices: for an id, the command it stands for
    m_magicSpecialTask,     \* for an id, the commands still to send and the results
    m_isSearchingDevices,
    searcher,               \* id property of m_searchTimer
    m_m1deviceMap,          \* addresses that have answered
    m_preDeviceMap,         \* for every port found, its status
    downloads,              \* the DBoxDownload threads
    box,                    \* whether the box is there, and whose code it holds
    said,                   \* for every request, the answers to it
    served,                 \* for every request, the commands its device has answered
    unowed                  \* requests whose link stopped, or that get no answer at all

taskVars == <<session, come, mishaps, openPackets, m_deviceMap, linked, inFlight, m_RequestMap, m_magicSpecialTask,
              m_isSearchingDevices, searcher, m_m1deviceMap, m_preDeviceMap, downloads, box, said, served, unowed>>
linkVars == <<m_deviceMap, linked, inFlight, m_RequestMap, m_magicSpecialTask, served, unowed>>
searchVars == <<m_isSearchingDevices, searcher, m_m1deviceMap, m_preDeviceMap>>
boxVars == <<downloads, box>>
asks == session.asks
Asks == 1..MaxAsks
Effectors == <<"GetEndEffectorType", "GetEndEffectorSuctionCup", "GetEndEffectorGripper">>

TasksInit ==
    /\ session \in Sessions
    /\ come = 0
    /\ mishaps = session.mishaps
    /\ openPackets = {}
    /\ m_deviceMap = {}
    /\ linked = {}
    /\ inFlight = {}
    /\ m_RequestMap = <<>>
    /\ m_magicSpecialTask = <<>>
    /\ m_isSearchingDevices = FALSE
    /\ searcher = 0
    /\ m_m1deviceMap = {}
    /\ m_preDeviceMap = <<>>
    /\ downloads = {}
    /\ box = [there |-> TRUE, code |-> 0]
    /\ said = [id \in Asks |-> <<>>]
    /\ served = [id \in Asks |-> {}]
    /\ unowed = {}

Plain(ok) == [kind |-> "plain", ok |-> ok, doc |-> <<>>]
Found(doc) == [kind |-> "found", ok |-> TRUE, doc |-> doc]
Merged(doc) == [kind |-> "merged", ok |-> TRUE, doc |-> doc]
Says(id, as) == said' = [said EXCEPT ![id] = @ \o as]
Without(f, S) == [x \in DOMAIN f \ S |-> f[x]]
With(f, x, v) == [y \in DOMAIN f \cup {x} |-> IF y = x THEN v ELSE f[y]]
\* A mishap happens, or need not for this to happen.
Mishap == mishaps > 0 /\ mishaps' = mishaps - 1
Mishaps(n) == n <= mishaps /\ mishaps' = mishaps - n

-----------------------------------------------------------------------------
\* MUTANT of Results: the results of the first commands are lost.
ResultsLast(results, refused) == [c \in refused |-> FALSE]
\* What DoSpecialResponse has collected when the commands refused have failed too.
Results(results, refused) == [c \in refused \cup DOMAIN results |-> c \notin refused /\ results[c]]

\* SendCommandSpecial of the commands rest, given the results so far: the device may
\* refuse the first n of them inside the call, which brings each into DoSpecialResponse
\* again.  That function has no return statement at its end: each of its calls (there
\* have been done before) may make the plugin send the single result as well.  cost: the
\* mishap that led here.
Special(id, results, rest, done, cost) ==
    \E n \in 0..Len(rest) :
        LET refused == {rest[k] : k \in 1..n}
            all == Results(results, refused)
        IN \E parts \in 0..done + n :
            /\ IF asks[id].port \in linked THEN Mishaps(cost + n) ELSE n = Len(rest) /\ UNCHANGED mishaps
            /\ \/ /\ n = Len(rest)
                  /\ m_magicSpecialTask' = Without(m_magicSpecialTask, {id})
                  /\ openPackets' = openPackets \ {id}
                  /\ inFlight' = {c \in inFlight : c.id # id}
                  /\ Says(id, <<Merged(all)>> \o [k \in 1..parts |-> Plain(FALSE)])
               \/ /\ n < Len(rest)
                  /\ m_magicSpecialTask' = With(m_magicSpecialTask, id, [request |-> SubSeq(rest, n + 2, Len(rest)), result |-> all])
                  /\ openPackets' = openPackets \cup {id}
                  /\ inFlight' = {c \in inFlight : c.id # id} \cup {[id |-> id, cmd |-> rest[n + 1]]}
                  /\ Says(id, [k \in 1..parts |-> Plain(TRUE)])

\* _pSendCommand and its like: a command of one packet.
SendOne(id) ==
    \/ /\ asks[id].port \in linked
       /\ inFlight' = inFlight \cup {[id |-> id, cmd |-> asks[id].api]}
       /\ m_RequestMap' = With(m_RequestMap, id, asks[id].api)
       /\ openPackets' = openPackets \cup {id}
       /\ UNCHANGED <<mishaps, said>>
    \/ /\ IF asks[id].port \in linked THEN Mishap ELSE UNCHANGED mishaps
       /\ Says(id, <<Plain(FALSE)>>)
       /\ UNCHANGED <<inFlight, m_RequestMap, openPackets>>

\* The requests map with the command of request id that its link has now, if any.
Entered(map, id) ==
    LET sent == {c \in inFlight' : c.id = id}
    IN IF sent = {} THEN map ELSE With(map, id, (CHOOSE c \in sent : TRUE).cmd)

\* SendCommandInner.
SendCommandInner(id) ==
    /\ \/ asks[id].api # "GetEndEffectorStatus" /\ SendOne(id) /\ UNCHANGED m_magicSpecialTask
       \/ /\ asks[id].api = "GetEndEffectorStatus"
          /\ Special(id, <<>>, Effectors, 0, 0)
          /\ m_RequestMap' = Entered(m_RequestMap, id)
    /\ UNCHANGED <<m_deviceMap, linked, served, unowed, searchVars, boxVars>>

\* recviceP2Data_slot, and _handleReceiveMessage_slot inside it.  m_RequestMap loses
\* the id at the end, also when it stands for the next of the three commands by then.
LinkReplies(c) ==
    /\ asks[c.id].port \in linked
    /\ served' = [served EXCEPT ![c.id] = @ \cup {c.cmd}]
    /\ m_RequestMap' = Without(m_RequestMap, {c.id})
    /\ \/ /\ c.id \in DOMAIN m_magicSpecialTask
          /\ LET t == m_magicSpecialTask[c.id] IN Special(c.id, With(t.result, c.cmd, TRUE), t.request, 1, 0)
       \/ /\ c.id \notin DOMAIN m_magicSpecialTask
          /\ Says(c.id, <<Plain(TRUE)>>)
          /\ openPackets' = openPackets \ {c.id}
          /\ inFlight' = inFlight \ {c}
          /\ UNCHANGED <<mishaps, m_magicSpecialTask>>
    /\ UNCHANGED <<session, come, m_deviceMap, linked, unowed, searchVars, boxVars>>

\* errorOccurred_slot: the command's name is the one in m_RequestMap, if there is one.
LinkFails(c) ==
    LET name == IF c.id \in DOMAIN m_RequestMap THEN m_RequestMap[c.id] ELSE ""
    IN /\ asks[c.id].port \in linked
       /\ \/ /\ c.id \in DOMAIN m_magicSpecialTask
             /\ LET t == m_magicSpecialTask[c.id] IN Special(c.id, With(t.result, name, FALSE), t.request, 1, 1)
             /\ m_RequestMap' = Entered(Without(m_RequestMap, {c.id}), c.id)
          \/ /\ c.id \notin DOMAIN m_magicSpecialTask
             /\ Mishap
             /\ Says(c.id, <<Plain(FALSE)>>)
             /\ openPackets' = openPackets \ {c.id}
             /\ inFlight' = inFlight \ {c}
             /\ m_RequestMap' = Without(m_RequestMap, {c.id})
             /\ UNCHANGED m_magicSpecialTask
       /\ UNCHANGED <<session, come, m_deviceMap, linked, served, unowed, searchVars, boxVars>>

-----------------------------------------------------------------------------
\* _getAvailableSerialPort: the ports there are, but those of the filter.
AvailableSerialPort(filter) == [p \in SerialNames \ filter |-> IF p \in linked THEN "connected" ELSE "unconnected"]

\* _broadcastForSearchM1: the addresses that answer it come later, one by one.
BroadcastForSearchM1(id) ==
    /\ m_isSearchingDevices' = TRUE
    /\ m_m1deviceMap' = {}
    /\ searcher' = id
    /\ UNCHANGED said

\* pSearchDobot: the ports; with the addresses only after two seconds.  The id of a
\* search that is answered at once stays in m_requestPacketMap.
pSearchDobot(id) ==
    LET ports == AvailableSerialPort(asks[id].filter)
    IN /\ openPackets' = openPackets \cup {id}
       /\ \/ /\ m_isSearchingDevices
             /\ Says(id, <<Plain(FALSE)>>)
             /\ UNCHANGED searchVars
          \/ /\ ~m_isSearchingDevices
             /\ m_preDeviceMap' = ports
             /\ \/ asks[id].target = "M1" /\ BroadcastForSearchM1(id)
                \/ /\ asks[id].target # "M1"
                   /\ Says(id, <<Found(ports)>>)
                   /\ UNCHANGED <<m_isSearchingDevices, m_m1deviceMap, searcher>>
       /\ UNCHANGED <<mishaps, linkVars, boxVars>>

\* _onUdpReadyRead_slot and onUdpUSRReadyRead_slot: an answer to the broadcast, in time
\* or late.
Datagram(a) ==
    /\ searcher # 0
    /\ a \notin m_m1deviceMap
    /\ m_m1deviceMap' = m_m1deviceMap \cup {a}
    /\ UNCHANGED <<session, come, mishaps, openPackets, linkVars, m_isSearchingDevices, searcher, m_preDeviceMap, boxVars, said>>

\* _onSearchTimeout_slot.
SearchTimeout ==
    LET found == [a \in m_m1deviceMap |-> IF a \in linked THEN "connected" ELSE "unconnected"] @@ m_preDeviceMap
    IN /\ m_isSearchingDevices
       /\ m_isSearchingDevices' = FALSE
       /\ m_preDeviceMap' = found
       /\ openPackets' = openPackets \ {searcher}
       /\ Says(searcher, <<Found(found)>>)
       /\ UNCHANGED <<session, come, mishaps, linkVars, searcher, m_m1deviceMap, boxVars>>

-----------------------------------------------------------------------------
\* _handleDownloadCmd: without code there is no file name either.
DownloadProgram(id) ==
    /\ openPackets' = openPackets \cup {id}
    /\ downloads' = downloads \cup {[id |-> id, at |-> "search", ok |-> FALSE]}
    /\ UNCHANGED <<mishaps, box, said, linkVars, searchVars>>

Thread(t, at, ok) == downloads' = (downloads \ {t}) \cup {[t EXCEPT !.at = at, !.ok = ok]}
threadFrame == UNCHANGED <<session, come, openPackets, linkVars, searchVars, said>>

\* DBoxDownload::run: m_isDownloading is a member of the thread, so nothing keeps two of
\* them apart.  searchDeviceDrive ...
searchDeviceDrive(t) ==
    /\ t.at = "search"
    /\ IF box.there THEN Thread(t, "open", FALSE) ELSE Thread(t, "told", FALSE)
    /\ UNCHANGED <<mishaps, box>>
    /\ threadFrame
\* ... open, which empties the file ...
OpenFile(t) ==
    /\ t.at = "open"
    /\ \/ box.there /\ asks[t.id].code /\ box' = [box EXCEPT !.code = 0] /\ Thread(t, "write", FALSE) /\ UNCHANGED mishaps
       \/ /\ IF box.there /\ asks[t.id].code THEN Mishap ELSE UNCHANGED mishaps
          /\ Thread(t, "told", FALSE)
          /\ UNCHANGED box
    /\ threadFrame
\* ... and the text: whether it could be written nobody looks.
WriteCode(t) ==
    /\ t.at = "write"
    /\ \/ box.there /\ box' = [box EXCEPT !.code = t.id] /\ UNCHANGED mishaps
       \/ (IF box.there THEN Mishap ELSE UNCHANGED mishaps) /\ UNCHANGED box
    /\ Thread(t, "told", TRUE)
    /\ threadFrame

\* MUTANT of DownloadFinished: a failed download is not reported.
DownloadFinishedIfOk(t) ==
    /\ t.at = "told"
    /\ t.ok
    /\ downloads' = downloads \ {t}
    /\ openPackets' = openPackets \ {t.id}
    /\ Says(t.id, <<Plain(t.ok)>>)
    /\ UNCHANGED <<session, come, mishaps, linkVars, searchVars, box>>

\* _handleDownloadFinished_slot.
DownloadFinished(t) ==
    /\ t.at = "told"
    /\ downloads' = downloads \ {t}
    /\ openPackets' = openPackets \ {t.id}
    /\ Says(t.id, <<Plain(t.ok)>>)
    /\ UNCHANGED <<session, come, mishaps, linkVars, searchVars, box>>

\* DBoxDownload::isCanWriteCode: what it may find.
isCanWriteCode == IF box.there THEN BOOLEAN ELSE {FALSE}

\* _handleCheckBoxSpaceCmd: a request without code gets an error, and then a result too.
CheckBoxSpace(id) ==
    /\ \E fits \in isCanWriteCode :
           Says(id, IF asks[id].code THEN <<Plain(fits)>> ELSE <<Plain(FALSE), Plain(fits)>>)
    /\ UNCHANGED <<mishaps, openPackets, linkVars, searchVars, boxVars>>

\* _handleClearBoxSpaceCmd: what was downloaded goes, while a thread may be writing it.
ClearBoxSpace(id) ==
    /\ box' = IF box.there THEN [box EXCEPT !.code = 0] ELSE box
    /\ Says(id, <<Plain(box.there)>>)
    /\ UNCHANGED <<mishaps, openPackets, linkVars, searchVars, downloads>>

\* The box is taken off.
BoxGoes ==
    /\ box.there
    /\ Mishap
    /\ box' = [there |-> FALSE, code |-> 0]
    /\ UNCHANGED <<session, come, openPackets, linkVars, searchVars, downloads, said>>

-----------------------------------------------------------------------------
Refuses(id) == Says(id, <<Plain(FALSE)>>) /\ UNCHANGED <<mishaps, openPackets, linkVars, searchVars, boxVars>>

\* pConnectDobot: the port's device is made once.
pConnectDobot(id) ==
    LET p == asks[id].port
    IN /\ m_deviceMap' = m_deviceMap \cup {p}
       /\ \/ linked' = linked \cup {p} /\ Says(id, <<Plain(TRUE)>>) /\ UNCHANGED mishaps
          \/ Mishap /\ Says(id, <<Plain(FALSE)>>) /\ UNCHANGED linked
       /\ UNCHANGED <<openPackets, inFlight, m_RequestMap, m_magicSpecialTask, served, unowed, searchVars, boxVars>>

\* disConnectDevice of the ports P: the links forget some of what they have taken.
Disconnects(P) ==
    LET theirs == {c \in inFlight : asks[c.id].port \in P}
    IN /\ linked' = linked \ P
       /\ \E gone \in SUBSET theirs : inFlight' = inFlight \ gone
       /\ unowed' = unowed \cup {c.id : c \in theirs}
       /\ m_RequestMap' = Without(m_RequestMap, {id \in DOMAIN m_RequestMap : asks[id].port \in P})
       /\ UNCHANGED <<mishaps, openPackets, m_deviceMap, m_magicSpecialTask, served, searchVars, boxVars>>

\* MessageHandler::setCommuTimeout answers; a value that is not positive is ignored.
SetCommuTimeout(id) ==
    \/ asks[id].code /\ Says(id, <<Plain(TRUE)>>) /\ UNCHANGED <<mishaps, openPackets, linkVars, searchVars, boxVars>>
    \/ /\ ~asks[id].code
       /\ openPackets' = openPackets \cup {id}
       /\ unowed' = unowed \cup {id}
       /\ UNCHANGED <<mishaps, said, m_deviceMap, linked, inFlight, m_RequestMap, m_magicSpecialTask, served, searchVars, boxVars>>

\* _handleMagicDeviceCommand.
HandleMagicDeviceCommand ==
    /\ come < Len(asks)
    /\ come' = come + 1
    /\ LET id == come + 1
           r == asks[id]
       IN \/ r.api = "SearchDobot" /\ pSearchDobot(id)
          \/ r.api # "SearchDobot" /\ r.port = "" /\ Refuses(id)
          \/ r.api = "ConnectDobot" /\ r.port # "" /\ pConnectDobot(id)
          \/ r.api \notin {"SearchDobot", "ConnectDobot"} /\ r.port \notin m_deviceMap \cup {""} /\ Refuses(id)
          \/ /\ r.port \in m_deviceMap
             /\ \/ r.api = "DisconnectDobot" /\ Disconnects({r.port}) /\ Says(id, <<Plain(TRUE)>>)
                \/ r.api = "DownloadProgram" /\ DownloadProgram(id)
                \/ r.api = "CheckBoxSpace" /\ CheckBoxSpace(id)
                \/ r.api = "ClearBoxSpace" /\ ClearBoxSpace(id)
                \/ r.api = "SetCommuTimeout" /\ SetCommuTimeout(id)
                \/ r.api \in {"GetEndEffectorStatus", "GetPose", "QueuedCmdStop"} /\ SendCommandInner(id)
    /\ UNCHANGED session

\* _closeAllDevice, on EXIT.
CloseAllDevice ==
    /\ session.exit
    /\ come = Len(asks)
    /\ linked # {}
    /\ Disconnects(linked)
    /\ UNCHANGED <<session, come, said>>

TasksProgress ==
    \/ \E c \in inFlight : LinkReplies(c) \/ LinkFails(c)
    \/ SearchTimeout
    \/ \E t \in downloads : searchDeviceDrive(t) \/ OpenFile(t) \/ WriteCode(t) \/ DownloadFinished(t)

TasksNext ==
    \/ HandleMagicDeviceCommand
    \/ TasksProgress
    \/ \E a \in Addresses : Datagram(a)
    \/ BoxGoes
    \/ CloseAllDevice

-----------------------------------------------------------------------------
\* No request is answered twice, though search, threads and devices answer each on their
\* own, but for two: CheckBoxSpace without code, and GetEndEffectorStatus, of which there
\* may be single results beside the one that has them all.
TasksAnsweredOnce ==
    \A id \in 1..come :
        IF asks[id].api = "GetEndEffectorStatus"
        THEN \A m, n \in DOMAIN said[id] : said[id][m].kind # "plain" /\ said[id][n].kind # "plain" => m = n
        ELSE Len(said[id]) <= IF asks[id].api = "CheckBoxSpace" /\ ~asks[id].code THEN 2 ELSE 1

\* The merged answer to GetEndEffectorStatus reports as done exactly the commands the
\* device has answered, and has a place for each of the three, unless a failed one went
\* without its name because m_RequestMap had lost it (SendCommandInner, DoSpecialResponse).
MergedWhole ==
    \A id \in Asks : \A n \in DOMAIN said[id] :
        LET doc == said[id][n].doc
        IN said[id][n].kind = "merged" =>
               /\ {c \in DOMAIN doc : doc[c]} = served[id]
               /\ "" \in DOMAIN doc \/ DOMAIN doc = {Effectors[k] : k \in 1..3}

\* Every request has its answer, GetEndEffectorStatus the merged one, unless its link
\* was stopped or it is a SetCommuTimeout that changes nothing.
TasksSettled ==
    \A id \in Asks : come >= id =>
        \/ id \in unowed
        \/ \E n \in DOMAIN said[id] : said[id][n].kind = "merged" \/ asks[id].api # "GetEndEffectorStatus"
=============================================================================
