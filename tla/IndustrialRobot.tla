--------------------------- MODULE IndustrialRobot ---------------------------
(***************************************************************************)
(* The IndustrialRobotPlugin: the requests of several clients, the Devices *)
(* made for them, the HTTP requests and file tasks a Device sends to its   *)
(* controller, and the answers.                                            *)
(*                                                                         *)
(* Everything but the file tasks runs on the main thread, one event at a   *)
(* time, but a handler that waits for the controller's status opens an     *)
(* event loop of its own, in which every other event is handled: loops is  *)
(* the stack of those loops.  A file task runs on a thread of the pool.    *)
(*                                                                         *)
(* What a request writes is its id, into a document at a place (a url or a *)
(* path) of the controller; a document maps a key to who wrote it last.    *)
(***************************************************************************)
EXTENDS IndustrialRequests, FileTasks, CMyThreadPool, Functions, SequencesExt

CONSTANTS
    Scenarios,      \* what clients ask, and what is there: [reqs, faults, closes, reads, files]
    MaxRequests,    \* requests of the longest scenario
    PortNames,      \* port names (addresses) of controllers, in the order of a QMap
    VirtualPorts,   \* the one of the virtual controller
    Smb2Ports       \* those whose files are reached with SMB 2

ASSUME IndustrialAssumption ==
    /\ MaxRequests \in Nat
    /\ \A s \in Scenarios :
           /\ Len(s.reqs) \in 0..MaxRequests /\ s.faults \in Nat
           /\ \A n \in 1..Len(s.reqs) : s.reqs[n].port \in ToSet(PortNames) \cup {""}
    /\ VirtualPorts \cup Smb2Ports \subseteq ToSet(PortNames)
    /\ "SearchDobot" \notin DOMAIN MobFuncMap     \* a search is no command of the debugger

VARIABLES
    scenario,           \* the scenario that is played
    arrived,            \* how many of its requests have come in
    closed,             \* clients that have gone; 0 when all have to (EXIT)
    faults,             \* failures of the network or of a file still to come
    m_requestPacketMap, \* ids of requests not answered yet
    answers,            \* for every request, the answers that carried its id
    m_reqSearchPacket,  \* ids of those who wait for the search that is on
    probes,             \* for every address searched, how far the search has come
    m_portFCSmb,        \* what the last search found out about file access
    m_mapDevices,       \* for every port name, the devices clients connected
    device,             \* the devices, by the id of the request that made each
    owner,              \* for every request, the device that handles it
    replies,            \* HTTP requests on their way
    jobs,               \* file tasks whose result the device waits for
    connecting,         \* request whose file task runs and whose slot is not connected yet
    loops,              \* the nested event loops, the innermost last
    m_eventloopMap,     \* ids of the loops a reply may end
    controller,         \* the documents of every controller
    dropped,            \* requests the code forgot (see the places that add to it)
    crashed             \* freed memory was used: anything may follow

reqs == scenario.reqs
Ids == 1..MaxRequests
mainVars == <<scenario, arrived, closed, faults, m_reqSearchPacket, probes, m_portFCSmb, m_mapDevices, device, owner,
              controller, crashed>>
runVars == <<m_requestPacketMap, answers, replies, jobs, connecting, loops, m_eventloopMap, dropped, poolVars>>
vars == <<mainVars, runVars>>
\* What only a new request, a search or the end of a client changes.
calmVars == <<scenario, arrived, closed, m_reqSearchPacket, probes, m_portFCSmb, owner>>

NoDevice == [alive |-> FALSE, m_wsPort |-> 0, portName |-> "", m_isConnected |-> FALSE, control |-> "smb",
             tries |-> 0, mob |-> MobIdle, onListening |-> FALSE, onSuspended |-> FALSE]
\* Device::Device.
NewDevice(ws, portName) == [NoDevice EXCEPT !.alive = TRUE, !.m_wsPort = ws, !.portName = portName]

Init ==
    /\ scenario \in Scenarios
    /\ arrived = 0
    /\ closed = {}
    /\ faults = scenario.faults
    /\ m_requestPacketMap = {}
    /\ answers = [id \in Ids |-> <<>>]
    /\ m_reqSearchPacket = {}
    /\ probes = [p \in ToSet(PortNames) |-> "none"]
    /\ m_portFCSmb = <<>>
    /\ m_mapDevices = [p \in ToSet(PortNames) |-> {}]
    /\ device = [d \in {0} \cup Ids |-> IF d = 0 THEN NewDevice(0, "") ELSE NoDevice]
    /\ owner = [id \in Ids |-> 0]
    /\ replies = {}
    /\ jobs = {}
    /\ connecting = 0
    /\ loops = <<>>
    /\ m_eventloopMap = {}
    /\ controller = [p \in ToSet(PortNames) |-> scenario.files]
    /\ dropped = {}
    /\ crashed = FALSE
    /\ PoolInit

\* The main thread takes an event: it is in an event loop, not inside a handler.
Handles == ~crashed /\ connecting = 0

-----------------------------------------------------------------------------
\* Documents of a controller: the one at a url, and the controller with another one.
Document(p, url) == Content(controller[p], <<url>>)
Stored(p, url, doc) == [controller EXCEPT ![p] = Put(@, <<url>>, doc)]

\* What a file task of request id works on.
Target(id, step) ==
    LET folder == IF step.at = AnyFile THEN reqs[id].folder ELSE step.at
        made == step.at \in {AnyFile, Pallet, Trajectory}
    IN [place |-> IF made THEN <<folder, "file">> ELSE <<step.at>>, folder |-> folder, to |-> reqs[id].to,
        key |-> step.key, id |-> id]

Virtual(d) == device[d].portName \in VirtualPorts

\* The steps of request id on device d.
Steps(id, d) ==
    IF Virtual(d) /\ reqs[id].api \in DOMAIN VirtualFuncMap THEN VirtualFuncMap[reqs[id].api]
    ELSE m_FuncMap[reqs[id].api]

Good(doc) == [ok |-> TRUE, doc |-> doc]
Failed == [ok |-> FALSE, doc |-> <<>>]
\* Answer a to request id, and nothing else.
To(id, a) == [x \in {id} |-> a]

\* What waits to be handled, besides requests to come: packets not answered, HTTP
\* requests, file tasks, event loops.
Queues == [packets |-> m_requestPacketMap, replies |-> replies, jobs |-> jobs, loops |-> loops]

\* MUTANT of Emit: the packet stays in the map.
EmitKeeps(as, q) ==
    /\ answers' = [id \in Ids |-> IF id \in DOMAIN as \cap q.packets THEN Append(answers[id], as[id]) ELSE answers[id]]
    /\ m_requestPacketMap' = q.packets

\* handleReplyMessage_slot and handleErrorOccured_slot, for every answer of the function
\* as: the packet is taken out of the map.  If there is none the answer goes out
\* without an id, to nobody's request.
Emit(as, q) ==
    /\ answers' = [id \in Ids |-> IF id \in DOMAIN as \cap q.packets THEN Append(answers[id], as[id]) ELSE answers[id]]
    /\ m_requestPacketMap' = q.packets \ DOMAIN as

Left(q) ==
    /\ replies' = q.replies
    /\ jobs' = q.jobs
    /\ loops' = q.loops

\* A request ends with answer a.
Ends(id, a, q) ==
    /\ Emit(To(id, a), q)
    /\ Left(q)
    /\ UNCHANGED <<connecting, m_eventloopMap, dropped, poolVars>>

\* The code does nothing more for request id.
Forgets(id, q) ==
    /\ Emit(<<>>, q)
    /\ Left(q)
    /\ dropped' = dropped \cup {id}
    /\ UNCHANGED <<connecting, m_eventloopMap, poolVars>>

\* Nothing is answered now.
Waits(q) ==
    /\ Emit(<<>>, q)
    /\ Left(q)
    /\ UNCHANGED <<connecting, m_eventloopMap, dropped, poolVars>>

HttpRequest(id, d, k, act, doc) == [id |-> id, dev |-> d, k |-> k, act |-> act, doc |-> doc]
Frame(id, d, k, kind) == [id |-> id, dev |-> d, k |-> k, kind |-> kind, quit |-> FALSE, failed |-> FALSE, doc |-> <<>>]
FileTask(id, d, k) == [obj |-> <<d, device[d].control>>, id |-> id, k |-> k]
Job(t) == [task |-> t, st |-> "queued", ok |-> FALSE, doc |-> <<>>]

\* FileControll::closureHandler and its like in FileControllSmb: a task for the pool.
\* The handlers connect the slot for its result after that.
Open(id, d, k, q) ==
    /\ start(FileTask(id, d, k))
    /\ connecting' = id
    /\ Emit(<<>>, q)
    /\ Left([q EXCEPT !.jobs = @ \cup {Job(FileTask(id, d, k))}])
    /\ UNCHANGED <<m_eventloopMap, dropped>>

Connect ==
    /\ ~crashed
    /\ connecting # 0
    /\ connecting' = 0
    /\ UNCHANGED <<mainVars, m_requestPacketMap, answers, replies, jobs, loops, m_eventloopMap, dropped, poolVars>>

\* pStartAutoIdentify: a nested loop until the file is known to exist.
AwaitFile(id, d, k, q) ==
    /\ start(FileTask(id, d, k))
    /\ Emit(<<>>, q)
    /\ Left([q EXCEPT !.jobs = @ \cup {Job(FileTask(id, d, k))}, !.loops = Append(@, Frame(id, d, k, "await"))])
    /\ UNCHANGED <<connecting, m_eventloopMap, dropped>>

\* pSetJogMode and its like: the status is asked for under a nested loop.
EnterLoop(id, d, k, q) ==
    /\ Emit(<<>>, q)
    /\ Left([q EXCEPT !.replies = @ \cup {HttpRequest(id, d, k, "ask", <<>>)}, !.loops = Append(@, Frame(id, d, k, "loop"))])
    /\ m_eventloopMap' = m_eventloopMap \cup {id}
    /\ UNCHANGED <<connecting, dropped, poolVars>>

\* An HTTP request; the virtual controller's debugger is answered for before.
Send(id, d, k, act, doc, q) ==
    /\ Emit(IF Steps(id, d)[k].say = "first" THEN To(id, Good(<<>>)) ELSE <<>>, q)
    /\ Left([q EXCEPT !.replies = @ \cup {HttpRequest(id, d, k, act, doc)}])
    /\ UNCHANGED <<connecting, m_eventloopMap, dropped, poolVars>>

\* Step k of request id begins on device d.
Begins(id, d, k, q) ==
    LET do == Steps(id, d)[k].do IN
    \/ do \in {"get", "post"} /\ Send(id, d, k, do, "all" :> id, q)
    \/ do = "public" /\ \E act \in {"get", "post"} : Send(id, d, k, act, "all" :> id, q)
    \/ do = "samba" /\ Send(id, d, k, do, <<>>, q)
    \/ do = "file" /\ Open(id, d, k, q)
    \/ do = "loop" /\ EnterLoop(id, d, k, q)
    \/ do = "await" /\ AwaitFile(id, d, k, q)
    \/ do = "say" /\ Ends(id, Good(<<>>), q)
    \/ do = "local" /\ \E a \in {Good(<<>>), Failed} : Ends(id, a, q)
    \/ do = "silent" /\ Forgets(id, q)

\* The step comes after one that only looks at the parameters.
Goes(id, d, k, q) ==
    IF Steps(id, d)[k].do # "check" THEN Begins(id, d, k, q)
    ELSE IF reqs[id].complete THEN Begins(id, d, k + 1, q) ELSE Ends(id, Failed, q)

\* Step k has ended: the next step, or the answer.
GoesOn(id, d, k, ok, doc, q) ==
    LET step == Steps(id, d)[k]
        last == k = Len(Steps(id, d))
    IN IF ok /\ (last \/ step.else) THEN Ends(id, Good(doc), q)
       ELSE IF ok \/ step.else THEN Goes(id, d, k + 1, q)
       ELSE Ends(id, IF step.say = "anyhow" THEN Good(<<>>) ELSE Failed, q)

-----------------------------------------------------------------------------
\* Freed memory is used.
Crash ==
    /\ crashed' = TRUE
    /\ UNCHANGED <<calmVars, faults, m_mapDevices, device, controller, runVars>>

\* deleteLater of the devices D: their HTTP requests go with them, and so do the file
\* tasks nobody has taken (~FileControll).  The event loops inside their handlers stay.
Deletes(D) ==
    /\ device' = [d \in DOMAIN device |-> IF d \in D THEN [device[d] EXCEPT !.alive = FALSE] ELSE device[d]]
    /\ replies' = {r \in replies : r.dev \notin D}
    /\ jobs' = {j \in jobs : j.task.obj[1] \notin D}
    /\ m_tasks' = SelectSeq(m_tasks, LAMBDA t : t.obj[1] \notin D)
    /\ UNCHANGED <<connecting, loops, m_eventloopMap, dropped, m_iIdleCount, thread>>

\* pConnectDobot, on a device of its own.  The virtual controller has to be started,
\* which may fail.
ConnectDobot(id, q) ==
    LET r == reqs[id]
        made(alive) == [device EXCEPT ![id] = [NewDevice(r.ws, r.port) EXCEPT !.alive = alive]]
    IN \/ /\ device' = made(TRUE)
          /\ Left([q EXCEPT !.replies = @ \cup {HttpRequest(id, id, 1, "get", <<>>)}])
          /\ Emit(<<>>, q)
          /\ UNCHANGED <<faults, connecting, m_eventloopMap, dropped, poolVars>>
       \/ /\ r.port \in VirtualPorts
          /\ faults > 0
          /\ faults' = faults - 1
          /\ device' = made(FALSE)
          /\ Ends(id, Failed, q)

\* pSearchDobot: the first who asks starts the search, the others wait for its result.
SearchDobot(id, q) ==
    /\ m_reqSearchPacket' = m_reqSearchPacket \cup {id}
    /\ probes' = IF m_reqSearchPacket # {} THEN probes
                 ELSE [p \in DOMAIN probes |-> IF p \in VirtualPorts THEN "failed" ELSE "http"]
    /\ Waits(q)

\* pDisconnectDobot, and the plugin's part of it: the device is taken out of a copy
\* of the list, so the list itself changes only when nobody else is in it.
DisconnectDobot(id, d, q) ==
    /\ Emit(To(id, Good(<<>>)), q)
    /\ Deletes({d})
    /\ m_mapDevices' = IF m_mapDevices[reqs[id].port] \ {d} = {}
                       THEN [m_mapDevices EXCEPT ![reqs[id].port] = {}] ELSE m_mapDevices

\* A debugger command under isMobdebug.
UsesMob(id, d) ==
    /\ reqs[id].mob
    /\ reqs[id].api \in DOMAIN MobFuncMap
    /\ Virtual(d) => reqs[id].api \notin DOMAIN VirtualFuncMap

\* Whoever waits for the debugger is forgotten when its id is overwritten.
Overwritten(d) ==
    LET h == device[d].mob.m_handlingId
    IN IF h \in Ids /\ h \in m_requestPacketMap /\ reqs[h].api = "SetDebuggerStart" THEN {h} ELSE {}

\* pSetDebuggerStart with mobdebug: the process is started, the rest when it listens.
MobStart(id, d, q) ==
    \E ok \in BOOLEAN :
        /\ ok \/ faults > 0
        /\ faults' = IF ok THEN faults ELSE faults - 1
        /\ device' = [device EXCEPT ![d].mob = Started(@, id, ok), ![d].onListening = @ \/ ok]
        /\ dropped' = dropped \cup Overwritten(d)
        /\ Emit(IF ok THEN <<>> ELSE To(id, Failed), q)
        /\ Left(q)
        /\ UNCHANGED <<connecting, m_eventloopMap, poolVars>>

\* The other debugger commands: an HTTP request and a line for the process.  suspend
\* alone, which passes its id on, says so when there is no process; its request goes
\* out all the same.
MobCommand(id, d, q) ==
    LET f == MobFuncMap[reqs[id].api]
        act == IF f.cmd = "" THEN "stop" ELSE "post"
        by == IF f.cmd = "suspend" THEN id ELSE 0
    IN /\ device' = IF f.cmd = "" THEN device
                    ELSE [device EXCEPT ![d].mob = Written(@, f.cmd, by), ![d].onSuspended = @ \/ f.cmd = "suspend"]
       /\ dropped' = IF f.cmd = "" THEN dropped ELSE dropped \cup Overwritten(d)
       /\ Emit(IF f.cmd = "suspend" /\ ~device[d].mob.running THEN To(id, Failed) ELSE <<>>, q)
       /\ Left([q EXCEPT !.replies = @ \cup {HttpRequest(id, d, 1, act, <<>>)}])
       /\ UNCHANGED <<faults, connecting, m_eventloopMap, poolVars>>

Mob(id, d, q) ==
    \/ reqs[id].api = "SetDebuggerStart" /\ MobStart(id, d, q)
    \/ /\ reqs[id].api # "SetDebuggerStart"
       /\ reqs[id].api \in {"SetDebuggerSetb", "SetDebuggerDelb"} => reqs[id].complete
       /\ MobCommand(id, d, q)
    \/ /\ reqs[id].api \in {"SetDebuggerSetb", "SetDebuggerDelb"}
       /\ ~reqs[id].complete
       /\ Ends(id, Failed, q)
       /\ UNCHANGED <<device, faults>>

\* sendCommand on device d.
sendCommand(id, d, q) ==
    LET api == reqs[id].api IN
    \/ /\ api \notin DOMAIN m_FuncMap \/ (api \notin NeedsNoConnection /\ ~device[d].m_isConnected)
       /\ Ends(id, Failed, q)
       /\ UNCHANGED <<faults, device, m_reqSearchPacket, probes, m_mapDevices>>
    \/ /\ api \in DOMAIN m_FuncMap
       /\ api \in NeedsNoConnection \/ device[d].m_isConnected
       /\ \/ /\ api = "SearchDobot"
             /\ SearchDobot(id, q)
             /\ UNCHANGED <<faults, device, m_mapDevices>>
          \/ /\ api = "DisconnectDobot"
             /\ DisconnectDobot(id, d, q)
             /\ UNCHANGED <<faults, m_reqSearchPacket, probes>>
          \/ /\ UsesMob(id, d)
             /\ Mob(id, d, q)
             /\ UNCHANGED <<m_reqSearchPacket, probes, m_mapDevices>>
          \/ /\ api \notin {"SearchDobot", "DisconnectDobot"} /\ ~UsesMob(id, d)
             /\ Goes(id, d, 1, q)
             /\ UNCHANGED <<faults, device, m_reqSearchPacket, probes, m_mapDevices>>

\* GetDeviceByPortNameAndWsPort: a device of the client; the list may hold dead ones.
Found(ws, p) == {d \in m_mapDevices[p] : device[d].alive /\ device[d].m_wsPort = ws}
Dangling(p) == \E d \in m_mapDevices[p] : ~device[d].alive

\* All that was asked for has come to an end.
Quiet ==
    /\ replies = {}
    /\ jobs = {}
    /\ loops = <<>>
    /\ m_tasks = <<>>
    /\ In({"took", "busy"}) = {}
    /\ m_reqSearchPacket = {}

\* handleIndustrialRobotCommand.
Arrive ==
    /\ Handles
    /\ arrived < Len(reqs)
    /\ {0, reqs[arrived + 1].ws} \cap closed = {}
    /\ LET id == arrived + 1
           r == reqs[id]
           q == [Queues EXCEPT !.packets = @ \cup {id}]
           refused == Ends(id, Failed, q) /\ UNCHANGED <<faults, device, owner, m_reqSearchPacket, probes, m_mapDevices>>
       IN /\ r.waits => Quiet
          /\ \/ /\ r.api \notin SharedApis
                /\ r.port = ""
                /\ refused
             \/ /\ r.api = "ConnectDobot"
                /\ r.port # ""
                /\ ConnectDobot(id, q)
                /\ owner' = [owner EXCEPT ![id] = id]
                /\ UNCHANGED <<m_reqSearchPacket, probes, m_mapDevices>>
             \/ /\ r.api \in SharedApis
                /\ sendCommand(id, 0, q)
                /\ UNCHANGED owner
             \/ /\ r.api \notin SharedApis \cup {"ConnectDobot"}
                /\ r.port # ""
                /\ \/ Found(r.ws, r.port) = {} /\ refused
                   \/ \E d \in Found(r.ws, r.port) : sendCommand(id, d, q) /\ owner' = [owner EXCEPT ![id] = d]
          /\ arrived' = id
          /\ UNCHANGED <<scenario, closed, m_portFCSmb, controller, crashed>>

\* The search for the device meets a deleted one.
ArriveAtDead ==
    /\ Handles
    /\ arrived < Len(reqs)
    /\ {0, reqs[arrived + 1].ws} \cap closed = {}
    /\ LET r == reqs[arrived + 1] IN
           /\ r.api \notin SharedApis \cup {"ConnectDobot"}
           /\ r.port # "" /\ Dangling(r.port)
           /\ r.waits => Quiet
    /\ Crash

-----------------------------------------------------------------------------
\* The answer to a request that went out under the name of api: one field of the
\* status, for the apis that ask for one.
handleSelfExchange(api, doc) ==
    IF api \notin DOMAIN m_selfExchangeFunMap THEN doc
    ELSE Restrict(doc, DOMAIN doc \cap ({m_selfExchangeFunMap[api]} \ LostInConversion))

\* The name an HTTP request went out under.
Name(r) ==
    LET as == Steps(r.id, r.dev)[r.k].as IN IF as = "" THEN reqs[r.id].api ELSE as

Polls == {"GetConnectionState", "GetDobotStatus"}

\* What the controller has stored when request r has reached it; of a status that is
\* sent back it takes the fields that are there.
Reached(r) ==
    LET p == device[r.dev].portName
        step == Steps(r.id, r.dev)[r.k]
    IN IF r.act # "post" THEN controller
       ELSE Stored(p, step.at, IF step.do = "loop" THEN r.doc @@ Document(p, step.at) ELSE r.doc)

Without(r) == [Queues EXCEPT !.replies = @ \ {r}]
Unpolled(d) == [device EXCEPT ![d].tries = 0]

\* receiveData_slot and onReplyMessage_slot: the reply is there.
HttpOk(r) ==
    LET p == device[r.dev].portName
        doc == IF r.act = "get" THEN Document(p, Steps(r.id, r.dev)[r.k].at) ELSE <<>>
    IN /\ reqs[r.id].api # "ConnectDobot"
       /\ controller' = Reached(r)
       /\ device' = IF Name(r) \in Polls THEN Unpolled(r.dev) ELSE device
       /\ GoesOn(r.id, r.dev, r.k, TRUE, handleSelfExchange(Name(r), doc), Without(r))
       /\ UNCHANGED <<faults, m_mapDevices>>

\* The reply is no JSON: an error, but for the requests that succeed whatever comes.
HttpGarbled(r) ==
    LET ok == Name(r) \in {"SetDebuggerStepIn", "SetDebuggerSetb", "SetDebuggerStepOver"}
    IN /\ reqs[r.id].api # "ConnectDobot"
       /\ faults > 0
       /\ faults' = faults - 1
       /\ controller' = Reached(r)
       /\ device' = IF Name(r) \in Polls THEN Unpolled(r.dev) ELSE device
       /\ GoesOn(r.id, r.dev, r.k, ok, <<>>, Without(r))
       /\ UNCHANGED m_mapDevices

\* receiveError_slot: the network failed or took too long, before or after the
\* controller had the request.
HttpError(r) ==
    /\ reqs[r.id].api # "ConnectDobot"
    /\ Name(r) \in Polls => device[r.dev].tries < 2
    /\ faults > 0
    /\ faults' = faults - 1
    /\ controller' \in {controller, Reached(r)}
    /\ device' = IF Name(r) \in Polls THEN [device EXCEPT ![r.dev].tries = @ + 1] ELSE device
    /\ GoesOn(r.id, r.dev, r.k, FALSE, <<>>, Without(r))
    /\ UNCHANGED m_mapDevices

\* The third failure in a row of a poll: the connection is given up, and with it the
\* file tasks that go over SMB 2 and have not begun.
HttpGivesUp(r) ==
    LET gone == {t \in ToSet(m_tasks) : t.obj = <<r.dev, "smb">>}
    IN /\ Name(r) \in Polls
       /\ device[r.dev].tries = 2
       /\ faults > 0
       /\ faults' = faults - 1
       /\ device' = [device EXCEPT ![r.dev].tries = 0, ![r.dev].m_isConnected = FALSE]
       /\ Clear(<<r.dev, "smb">>)
       /\ dropped' = dropped \cup {t.id : t \in gone}
       /\ Emit(To(r.id, Failed), Queues)
       /\ Left([Without(r) EXCEPT !.jobs = {j \in jobs : j.task \notin gone}])
       /\ UNCHANGED <<controller, m_mapDevices, connecting, m_eventloopMap>>

\* Which way files are reached.
Control(p) ==
    IF p \in VirtualPorts THEN "virtual"
    ELSE IF p \in DOMAIN m_portFCSmb /\ m_portFCSmb[p] = "v2" THEN "smb" ELSE "plain"

\* The reply to ConnectDobot.
Connected(r) ==
    LET p == device[r.dev].portName
    IN /\ reqs[r.id].api = "ConnectDobot"
       /\ device' = [device EXCEPT ![r.dev].m_isConnected = TRUE, ![r.dev].control = Control(p)]
       /\ m_mapDevices' = [m_mapDevices EXCEPT ![p] = @ \cup {r.dev}]
       /\ Ends(r.id, Good(<<>>), Without(r))
       /\ UNCHANGED <<faults, controller>>

\* The controller is not there, or says it is not connected: the device is deleted.
NotConnected(r) ==
    /\ reqs[r.id].api = "ConnectDobot"
    /\ faults > 0
    /\ faults' = faults - 1
    /\ \E a \in {Good(<<>>), Failed} : Emit(To(r.id, a), Queues)
    /\ Deletes({r.dev})
    /\ UNCHANGED <<controller, m_mapDevices>>

\* The reply to a request of the debugger's that does not answer by itself.
Debugged(r) ==
    LET m == device[r.dev].mob
        failed == faults > 0 /\ faults' = faults - 1
    IN /\ \/ /\ r.act \in {"private", "again"}
             /\ \/ failed /\ Emit(To(r.id, Failed), Queues)
                \/ UNCHANGED faults /\ Emit(IF r.act = "again" THEN To(r.id, Good(<<>>)) ELSE <<>>, Queues)
             /\ UNCHANGED device
          \/ /\ r.act = "stop"
             /\ \/ failed /\ Emit(To(r.id, Failed), Queues) /\ UNCHANGED device
                \/ /\ UNCHANGED faults
                   /\ device' = [device EXCEPT ![r.dev].mob = Exited(m)]
                   /\ Emit([x \in {r.id, KilledReport(m)} |-> IF x = r.id THEN Good(<<>>) ELSE Failed], Queues)
       /\ Left(Without(r))
       /\ UNCHANGED <<controller, m_mapDevices, connecting, m_eventloopMap, dropped, poolVars>>

\* onReplyMessage_slot with the status an event loop waits for.
Asked(r) ==
    LET p == device[r.dev].portName
        ends(f) == f.kind = "loop" /\ f.id = r.id /\ r.id \in m_eventloopMap
    IN /\ r.act = "ask"
       /\ \/ /\ Left([Without(r) EXCEPT !.loops = [n \in DOMAIN loops |->
                    IF ends(loops[n]) THEN [loops[n] EXCEPT !.quit = TRUE, !.doc = Document(p, "/protocol/exchange")]
                    ELSE loops[n]]])
             /\ m_eventloopMap' = m_eventloopMap \ {r.id}
             /\ Emit(<<>>, Queues)
             /\ UNCHANGED faults
          \/ /\ faults > 0
             /\ faults' = faults - 1
             /\ Emit(To(r.id, Failed), Queues)
             /\ Left(Without(r))
             /\ UNCHANGED m_eventloopMap
       /\ UNCHANGED <<device, controller, m_mapDevices, connecting, dropped, poolVars>>

\* pCheckSamba and pOpenSamba: on other systems nothing is answered.
SambaChecked(r) ==
    /\ r.act = "samba"
    /\ \/ \E a \in {Good(<<>>), Failed} : Ends(r.id, a, Without(r))
       \/ Forgets(r.id, Without(r))
    /\ UNCHANGED <<faults, device, controller, m_mapDevices>>

HttpEnds(r) ==
    /\ Handles
    /\ \/ r.act \in {"get", "post"} /\ (HttpOk(r) \/ HttpGarbled(r) \/ HttpError(r) \/ HttpGivesUp(r) \/ Connected(r)
                                        \/ NotConnected(r))
       \/ Debugged(r) \/ Asked(r) \/ SambaChecked(r)
    /\ UNCHANGED <<calmVars, crashed>>

-----------------------------------------------------------------------------
\* MUTANT of Forgotten: the loop stays in the map.
ForgottenNot(id) == m_eventloopMap
\* m_eventloopMap.remove(id), of the timer.
Forgotten(id) == m_eventloopMap \ {id}

\* eventLoopSuccess: the timer of a loop, which runs until the handler goes on, even
\* when the status is there and only an inner loop holds the handler up.
LoopTimeout(n) ==
    LET f == loops[n]
        late == ~f.quit /\ \A r \in replies : ~(r.act = "ask" /\ r.id = f.id)
    IN /\ Handles
       /\ f.kind = "loop" /\ ~f.failed
       /\ device[f.dev].alive
       /\ late \/ faults > 0
       /\ faults' = IF late THEN faults ELSE faults - 1
       /\ m_eventloopMap' = Forgotten(f.id)
       /\ Emit(To(f.id, Failed), Queues)
       /\ Left([Queues EXCEPT !.loops[n].quit = TRUE, !.loops[n].failed = TRUE])
       /\ UNCHANGED <<calmVars, m_mapDevices, device, controller, crashed, connecting, dropped, poolVars>>

\* pStartAutoIdentify: two seconds are over.
AwaitTimeout(n) ==
    LET f == loops[n]
    IN /\ Handles
       /\ f.kind = "await" /\ ~f.quit
       /\ faults > 0
       /\ faults' = faults - 1
       /\ Left([Queues EXCEPT !.loops[n].quit = TRUE, !.loops[n].failed = TRUE])
       /\ UNCHANGED <<calmVars, m_mapDevices, device, controller, crashed, m_requestPacketMap, answers,
                      m_eventloopMap, connecting, dropped, poolVars>>

\* The innermost loop has been told to quit: its handler goes on.
Unwind ==
    LET f == Last(loops)
        q == [Queues EXCEPT !.loops = Front(@)]
        doc == getObjForSend(setPart(setStatus(f.doc), Steps(f.id, f.dev)[f.k].key, f.id, reqs[f.id].valid), f.id)
    IN /\ Handles
       /\ loops # <<>>
       /\ f.quit
       /\ device[f.dev].alive
       /\ \/ f.kind = "loop" /\ f.failed /\ Waits(q)
          \/ f.kind = "loop" /\ ~f.failed /\ Send(f.id, f.dev, f.k, "post", doc, q)
          \/ f.kind = "await" /\ GoesOn(f.id, f.dev, f.k, ~f.failed, <<>>, q)
       /\ UNCHANGED mainVars

\* The device of a loop was deleted while the loop ran: its timer and its handler
\* still use it.
LoopOfDead ==
    /\ Handles
    /\ \E n \in DOMAIN loops : ~device[loops[n].dev].alive /\ (loops[n].kind = "loop" \/ n = Len(loops))
    /\ Crash

-----------------------------------------------------------------------------
\* Another task of the same FileControllSmb runs: the two share one connection.
Shared(n) ==
    /\ thread[n].task.obj[2] = "smb"
    /\ \E m \in Threads \ {n} : thread[m].at = "busy" /\ thread[m].task.obj = thread[n].task.obj

\* The result of a task on its way to the main thread.  An SMB 2 result is lost
\* when nobody is connected to the signal yet.
Delivered(t, ok, doc) ==
    LET mine == {j \in jobs : j.task = t}
        lost == t.obj[2] = "smb" /\ connecting = t.id
    IN /\ jobs' = (jobs \ mine) \cup (IF lost THEN {} ELSE {[j EXCEPT !.st = "done", !.ok = ok, !.doc = doc] : j \in mine})
       /\ dropped' = IF lost THEN dropped \cup {t.id} ELSE dropped

TaskEnds(n) ==
    LET t == thread[n].task
        d == t.obj[1]
        p == device[d].portName
        step == Steps(t.id, d)[t.k]
        x == Target(t.id, step)
        fs == controller[p]
        results == IF t.obj[2] = "smb" THEN Smb(step.op, fs, x) ELSE Plain(step.op, fs, x)
    IN /\ ~crashed
       /\ thread[n].at = "busy"
       /\ device[d].alive \/ t.obj[2] # "smb"
       /\ End(n)
       /\ \/ /\ \E r \in results :
                    /\ controller' = [controller EXCEPT ![p] = r.fs]
                    /\ Delivered(t, r.ok, r.doc)
             /\ UNCHANGED faults
          \/ /\ \/ faults > 0 /\ faults' = faults - 1
                \/ (Shared(n) \/ step.do = "await") /\ UNCHANGED faults
             /\ controller' \in {[controller EXCEPT ![p] = left] : left \in Broken(step.op, fs, x)}
             /\ Delivered(t, FALSE, <<>>)
       /\ UNCHANGED <<calmVars, m_mapDevices, device, crashed, m_requestPacketMap, answers, replies, connecting, loops,
                      m_eventloopMap>>

\* A task of a deleted FileControllSmb goes on with its members.
TaskOfDead(n) ==
    /\ ~crashed
    /\ thread[n].at = "busy"
    /\ thread[n].task.obj[2] = "smb"
    /\ ~device[thread[n].task.obj[1]].alive
    /\ Crash

\* The other steps of a pool thread.
TaskBegins(n) ==
    /\ ~crashed
    /\ Begin(n)
    /\ jobs' = {IF j.task = thread[n].task THEN [j EXCEPT !.st = "running"] ELSE j : j \in jobs}
    /\ UNCHANGED <<mainVars, m_requestPacketMap, answers, replies, connecting, loops, m_eventloopMap, dropped>>

ThreadGoes(n) ==
    /\ ~crashed
    /\ Take(n) \/ Wait(n) \/ Idle(n)
    /\ UNCHANGED <<mainVars, m_requestPacketMap, answers, replies, jobs, connecting, loops, m_eventloopMap, dropped>>

\* The result of a task, at its handler, which takes a file that is no JSON for an error.
HandlerTold(j, ok, doc) ==
    LET t == j.task
        q == [Queues EXCEPT !.jobs = @ \ {j}]
        step == Steps(t.id, t.obj[1])[t.k]
        legible == step.op = "readFile" /\ doc = Damaged => reqs[t.id].api \in TextApis
        awaits(f) == f.kind = "await" /\ f.id = t.id /\ f.k = t.k
    IN IF step.do # "await" THEN GoesOn(t.id, t.obj[1], t.k, ok /\ legible, doc, q)
       ELSE Waits([q EXCEPT !.loops = [n \in DOMAIN loops |->
                      IF awaits(loops[n]) THEN [loops[n] EXCEPT !.quit = TRUE, !.failed = ~ok] ELSE loops[n]]])

JobDone(j) ==
    /\ Handles
    /\ j.st = "done"
    /\ HandlerTold(j, j.ok, j.doc)
    /\ UNCHANGED mainVars

\* closureHandler: the timer, which started with the task, may go off before the task
\* is through or while its result waits; the task itself goes on.
JobTimeout(j) ==
    /\ Handles
    /\ j.task.obj[2] # "smb"
    /\ j.st \in {"running", "done"}
    /\ faults > 0
    /\ faults' = faults - 1
    /\ HandlerTold(j, FALSE, <<>>)
    /\ UNCHANGED <<calmVars, m_mapDevices, device, controller, crashed>>

-----------------------------------------------------------------------------
\* sendSearchRequest, per address: HTTP, then SMB 2, then SMB 1.
Probed(p) ==
    CASE probes[p] = "http" -> {"smb2"}
      [] probes[p] = "smb2" -> IF p \in Smb2Ports THEN {"v2"} ELSE {"smb1"}
      [] probes[p] = "smb1" -> {"v1"}
      [] OTHER -> {}
ProbeFails(p) == IF probes[p] = "smb2" THEN "smb1" ELSE "failed"

\* handleReplyMessage_slot: everybody who waits for the search.
Searched == m_reqSearchPacket

\* _checkSearchFinish and onSearch_slot, when nothing is searched any more.
Probe(p) ==
    /\ Handles
    /\ \/ probes' \in {[probes EXCEPT ![p] = st] : st \in Probed(p)} /\ UNCHANGED faults
       \/ /\ Probed(p) # {}
          /\ faults > 0
          /\ faults' = faults - 1
          /\ probes' = [probes EXCEPT ![p] = ProbeFails(p)]
    /\ IF \E x \in DOMAIN probes : probes'[x] \in {"http", "smb2", "smb1"}
       THEN UNCHANGED <<m_portFCSmb, m_requestPacketMap, answers, m_reqSearchPacket>>
       ELSE /\ m_portFCSmb' = Restrict(probes', {x \in DOMAIN probes : probes'[x] # "failed"})
            /\ m_requestPacketMap' = m_requestPacketMap \ {Min(m_reqSearchPacket)}
            /\ answers' = [id \in Ids |-> IF id \in Searched THEN Append(answers[id], Good(<<>>)) ELSE answers[id]]
            /\ m_reqSearchPacket' = {}
    /\ UNCHANGED <<scenario, arrived, closed, m_mapDevices, device, owner, controller, crashed, replies, jobs, connecting,
                   loops, m_eventloopMap, dropped, poolVars>>

\* A signal of Mobdebug and what the device makes of it: an answer, or the request
\* that was put off until the debugger listens or has suspended the script.
MobEvent(d, event) ==
    LET m == device[d].mob
        h == m.m_handlingId
        report == Report(m, event)
        taken == \E e \in DOMAIN device \ {d} :
                     device[e].alive /\ device[e].mob.running /\ device[e].mob.said # "nothing"
    IN /\ Handles
       /\ device[d].alive
       /\ Possible(m, event, taken)
       /\ device' = [device EXCEPT ![d].mob = After(m, event),
                                   ![d].onListening = @ /\ report # "LISTENING",
                                   ![d].onSuspended = @ /\ report # "SUSPENDED"]
       /\ Emit(IF report = "finish" THEN To(h, Good(<<>>)) ELSE IF report = "error" THEN To(h, Failed) ELSE <<>>, Queues)
       /\ replies' = replies
             \cup (IF report = "LISTENING" /\ device[d].onListening THEN {HttpRequest(h, d, 1, "private", <<>>)} ELSE {})
             \cup (IF report = "SUSPENDED" /\ device[d].onSuspended THEN {HttpRequest(h, d, 1, "again", <<>>)} ELSE {})
       /\ UNCHANGED <<calmVars, faults, m_mapDevices, controller, crashed, jobs, connecting, loops, m_eventloopMap, dropped,
                      poolVars>>

-----------------------------------------------------------------------------
\* disconnectDobot(port): for each name, in order, one device of the client; it stops at
\* the first name that has no device left.
DevicesOf(ws, p) == {d \in m_mapDevices[p] : device[d].m_wsPort = ws}
Visited(ws) ==
    LET last == {n \in DOMAIN PortNames : \E d \in DevicesOf(ws, PortNames[n]) : m_mapDevices[PortNames[n]] = {d}}
    IN {PortNames[n] : n \in {m \in DOMAIN PortNames : \A l \in last : m <= l}}

CloseWebSocket(ws) ==
    LET names == {p \in Visited(ws) : DevicesOf(ws, p) # {}}
    IN /\ Handles
       /\ ws \in scenario.closes \ (closed \cup {0})
       /\ closed' = closed \cup {ws}
       /\ \E gone \in [names -> DOMAIN device] :
             /\ \A p \in names : gone[p] \in DevicesOf(ws, p)
             /\ m_mapDevices' = [p \in DOMAIN m_mapDevices |->
                                    IF p \in names THEN m_mapDevices[p] \ {gone[p]} ELSE m_mapDevices[p]]
             /\ Deletes(Range(gone))
       /\ ~\E p \in Visited(ws) : Dangling(p)
       /\ UNCHANGED <<scenario, arrived, faults, m_reqSearchPacket, probes, m_portFCSmb, owner, controller, crashed,
                      m_requestPacketMap, answers>>

\* EXIT: disconnectDobot() of all.
Exit ==
    /\ Handles
    /\ 0 \in scenario.closes \ closed
    /\ closed' = closed \cup {0}
    /\ ~\E p \in DOMAIN m_mapDevices : Dangling(p)
    /\ Deletes(UNION Range(m_mapDevices))
    /\ m_mapDevices' = [p \in DOMAIN m_mapDevices |-> {}]
    /\ UNCHANGED <<scenario, arrived, faults, m_reqSearchPacket, probes, m_portFCSmb, owner, controller, crashed,
                   m_requestPacketMap, answers>>

\* Both meet a deleted device.
CloseDead ==
    /\ Handles
    /\ \/ \E ws \in scenario.closes \ (closed \cup {0}) : \E p \in Visited(ws) : Dangling(p)
       \/ 0 \in scenario.closes \ closed /\ \E p \in DOMAIN m_mapDevices : Dangling(p)
    /\ Crash

-----------------------------------------------------------------------------
\* What goes on by itself once a request is there.
Progress ==
    \/ Connect
    \/ \E r \in replies : HttpEnds(r)
    \/ \E n \in DOMAIN loops : LoopTimeout(n) \/ AwaitTimeout(n)
    \/ Unwind
    \/ LoopOfDead
    \/ \E n \in Threads : TaskBegins(n) \/ TaskEnds(n) \/ TaskOfDead(n) \/ ThreadGoes(n)
    \/ \E j \in jobs : JobDone(j) \/ JobTimeout(j)
    \/ \E p \in DOMAIN probes : Probe(p)
    \/ \E d \in DOMAIN device, event \in MobEvents : MobEvent(d, event)

Next ==
    \/ Arrive
    \/ ArriveAtDead
    \/ Progress
    \/ \E ws \in scenario.closes : CloseWebSocket(ws)
    \/ Exit
    \/ CloseDead

\* Qt goes on handling events, HTTP requests end (Module aborts them after two
\* seconds), threads of the pool run, and the Lua process prints or ends.
Spec == Init /\ [][Next]_vars /\ WF_vars(Progress)

-----------------------------------------------------------------------------
\* No request is answered twice under its own id, whatever comes together: the timeout
\* of a loop and the late status, an HTTP error and the timeout, the debugger process
\* that ends and the request that stops it.  Whoever is answered is no longer in
\* m_requestPacketMap (those who joined another's search stay in it for good;
\* handleReplyMessage_slot and handleErrorOccured_slot).
AnsweredOnce ==
    \A id \in Ids :
        /\ Len(answers[id]) <= 1
        /\ answers[id] # <<>> /\ reqs[id].api # "SearchDobot" => id \notin m_requestPacketMap

\* A setting that was confirmed is what the matching Get returns: they name the same
\* file or url and the same field of the status, over HTTP, plain files, SMB 2 and the
\* virtual controller (the p... handlers of Device).  reads: the pairs of requests.
SetThenGet(set, get) ==
    /\ answers[set] # <<>> /\ answers[set][1].ok
    /\ answers[get] # <<>> /\ answers[get][1].ok
GetSeesSet ==
    \A pair \in scenario.reads :
        SetThenGet(pair.set, pair.get) => pair.set \in Range(answers[pair.get][1].doc)

\* m_eventloopMap points at local variables of handlers: every loop in it is still on
\* the stack and has not been told to quit, or the status that comes late would quit a
\* QEventLoop that is gone (eventLoopSuccess and onReplyMessage_slot).
LoopsLive ==
    \A id \in m_eventloopMap : \E n \in DOMAIN loops : loops[n].id = id /\ loops[n].kind = "loop" /\ ~loops[n].failed

\* Every request that came in is answered, unless it is one of those the code forgets,
\* its device was deleted or freed memory was used.
Settled ==
    \A id \in Ids :
        arrived >= id => answers[id] # <<>> \/ id \in dropped \/ ~device[owner[id]].alive \/ crashed
=============================================================================
