--------------------------- MODULE DMessageCenter ---------------------------
(***************************************************************************)
(* DMessageCenter, between the sessions of DWebSocketServer and a plugin   *)
(* that lives in a thread of its own: queued signals in both directions    *)
(* (first in, first out), the requests DobotLink answers itself, loading   *)
(* and unloading, and MagicDevicePlugin as far as the gateway sees it: one *)
(* device, bound to the port of the session that asked last to connect it. *)
(***************************************************************************)
EXTENDS DWebSocketServer, Sequences

CONSTANTS Kind   \* "garbage" (no JSON), "none" (no dobotlink method), "api",
                 \* "download", "nourl", "version"; of the plugin: "connect",
                 \* "disconnect", "command"

PluginKinds == {"connect", "disconnect", "command"}

ASSUME CenterAssumption ==
    Kind \in [Reqs -> PluginKinds \cup
                {"garbage", "none", "api", "download", "nourl", "version"}]

VARIABLES
    running,      \* the process is there
    handling,     \* m_handlingRequestMap
    handlingID,   \* DUpgrade::m_handlingID
    versions,     \* version requests the network has not answered
    downloads,    \* downloads it has not finished, by id
    loaded,       \* the plugin is loaded and its thread runs
    toPlugin,     \* DPluginManager::sendPluginMsg_signal, queued
    toCenter,     \* DPluginInterface::pSendMessage_signal, queued
    accepted,     \* commands the plugin has still to answer
    probing,      \* the connect request inside _checkMarlin's loop, as a set
    isConnected,  \* MessageHandler::m_isConnected
    portOpen,     \* m_ioDevice->isOpen()
    m_wsport,     \* MagicDevice's session port
    owner,        \* the session it belongs to (history)
    lost          \* requests forgotten by disconnecting or unloading (history)

selfVars == <<handling, handlingID, versions, downloads>>
deviceVars == <<probing, isConnected, portOpen, m_wsport, owner>>
pluginVars == <<accepted, deviceVars, lost>>
vars == <<serverVars, running, selfVars, loaded, toPlugin, toCenter, pluginVars>>

Init ==
    /\ ServerInit
    /\ running = TRUE
    /\ handling = {}
    /\ handlingID = 0
    /\ versions = 0
    /\ downloads = {}
    /\ loaded = TRUE
    /\ toPlugin = <<>>
    /\ toCenter = <<>>
    /\ accepted = {}
    /\ probing = {}
    /\ isConnected = FALSE
    /\ portOpen = FALSE
    /\ m_wsport = 0
    /\ owner = NoClient
    /\ lost = {}

\* The plugin's thread ends: its queue, its devices and what it had to answer go.
PluginGone ==
    /\ loaded' = FALSE
    /\ toPlugin' = <<>>
    /\ accepted' = {}
    /\ probing' = {}
    /\ isConnected' = FALSE
    /\ portOpen' = FALSE
    /\ m_wsport' = 0
    /\ owner' = NoClient
    /\ lost' = lost \cup {p.req : p \in accepted \cup probing
                                      \cup {toPlugin[n] : n \in DOMAIN toPlugin}}

-----------------------------------------------------------------------------
\* handleWSMessageReceived and handleSelfMessage: one action per way a message
\* is handled, all inside onClientMessageReceived_slot.
RequestPacket(r) == Packet(r, InnerId(r), PortOf[ClientOf[r]], ClientOf[r])

\* No JSON: a number is used up and nothing else happens.
Garbage(r) ==
    /\ ClientMessage(r)
    /\ Kind[r] = "garbage"
    /\ UNCHANGED <<mapClient, delivered, running, selfVars, loaded, toPlugin, toCenter,
                   pluginVars>>

\* MUTANT of AnsweredHere: sendMassage's result is ignored.
AnsweredHereLoaded(r) == Kind[r] \in {"api", "none"}

\* Answered within the slot: an api call, no method, or no such plugin.
AnsweredHere(r) == Kind[r] \in {"api", "none"} \/ (Kind[r] \in PluginKinds /\ ~loaded)

AnswerHere(r) ==
    /\ ClientMessage(r)
    /\ AnsweredHere(r)
    /\ SendMessage(RequestPacket(r), Entered(r))
    /\ UNCHANGED <<running, selfVars, loaded, toPlugin, toCenter, pluginVars>>

Forward(r) ==
    /\ ClientMessage(r)
    /\ Kind[r] \in PluginKinds
    /\ ~AnsweredHere(r)
    /\ mapClient' = Entered(r)
    /\ toPlugin' = IF loaded THEN Append(toPlugin, RequestPacket(r)) ELSE toPlugin
    /\ UNCHANGED <<delivered, running, selfVars, loaded, toCenter, pluginVars>>

\* DownloadFile (an empty url starts nothing) and GetLatestVersion: the network
\* is asked ...
AskNetwork(r) ==
    /\ ClientMessage(r)
    /\ Kind[r] \in {"download", "nourl", "version"}
    /\ mapClient' = Entered(r)
    /\ handling' = handling \cup {RequestPacket(r)}
    /\ downloads' = IF Kind[r] = "download" THEN downloads \cup {InnerId(r)} ELSE downloads
    /\ handlingID' = IF Kind[r] = "version" THEN InnerId(r) ELSE handlingID
    /\ versions' = IF Kind[r] = "version" THEN versions + 1 ELSE versions
    /\ UNCHANGED <<delivered, running, loaded, toPlugin, toCenter, pluginVars>>

\* ... unless the file cannot be opened for writing: downloadFile returns no
\* reply, a property of it is set all the same, and the process ends.
DownloadCrashes(r) ==
    /\ innerId[r] = 0
    /\ session[ClientOf[r]] = "open"
    /\ Kind[r] = "download"
    /\ running' = FALSE
    /\ session' = [c \in Clients |-> IF session[c] = "new" THEN "new" ELSE "closed"]
    /\ mapClient' = Without(mapClient, DOMAIN mapClient)
    /\ handling' = {}
    /\ versions' = 0
    /\ downloads' = {}
    /\ PluginGone
    /\ toCenter' = <<>>
    /\ UNCHANGED <<CLIENT_PORT, seqId, innerId, delivered, handlingID>>

\* handleDownloadFinish and handleLatestVersion: take(id) of an id that is not
\* there gives an empty packet, which is sent all the same.
Finish(id) ==
    LET P == {p \in handling : p.id = id}
    IN  /\ SendMessage(IF P = {} THEN Packet(NoReq, 0, 0, NoClient) ELSE CHOOSE p \in P : TRUE,
                       mapClient)
        /\ handling' = handling \ P

DownloadFinished(id) ==
    /\ id \in downloads
    /\ downloads' = downloads \ {id}
    /\ Finish(id)
    /\ UNCHANGED <<session, CLIENT_PORT, seqId, innerId, running, handlingID, versions,
                   loaded, toPlugin, toCenter, pluginVars>>

LatestVersion ==
    /\ versions > 0
    /\ versions' = versions - 1
    /\ Finish(handlingID)
    /\ UNCHANGED <<session, CLIENT_PORT, seqId, innerId, running, handlingID, downloads,
                   loaded, toPlugin, toCenter, pluginVars>>

Connection(c) ==
    /\ running
    /\ NewConnection(c) \/ BeginClose(c)
    /\ UNCHANGED <<running, selfVars, loaded, toPlugin, toCenter, pluginVars>>

ClosePacket(c) == Packet(NoReq, NoId, PortOf[c], c)

\* onClientDisconnection_slot with wsClientClose_slot: CloseWebSocket for ALL.
ClientClose(c) ==
    /\ ClientDisconnection(c)
    /\ toPlugin' = IF loaded THEN Append(toPlugin, ClosePacket(c)) ELSE toPlugin
    /\ UNCHANGED <<running, selfVars, loaded, toCenter, pluginVars>>

\* receivePluginMessage_slot of the plugin manager and of the center.
ReceivePluginMessage ==
    /\ toCenter # <<>>
    /\ SendMessage(Head(toCenter), mapClient)
    /\ toCenter' = Tail(toCenter)
    /\ UNCHANGED <<session, CLIENT_PORT, seqId, innerId, running, selfVars, loaded, toPlugin,
                   pluginVars>>

-----------------------------------------------------------------------------
\* The plugin's thread.  While connectDevice is inside its nested event loop
\* the other slots run.
Receive(p) ==
    /\ loaded
    /\ toPlugin # <<>>
    /\ p = Head(toPlugin)
    /\ toPlugin' = Tail(toPlugin)
    /\ UNCHANGED <<serverVars, running, selfVars, loaded>>

Asks(p, kind) == p.req # NoReq /\ Kind[p.req] = kind

PSendMessage(p) == toCenter' = Append(toCenter, p)

ReceiveCommand(p) ==
    /\ Receive(p)
    /\ Asks(p, "command")
    /\ accepted' = accepted \cup {p}
    /\ UNCHANGED <<toCenter, deviceVars, lost>>

\* MUTANT of ReceiveConnect: the device is not bound to the session.
ReceiveConnectUnbound(p) ==
    /\ Receive(p)
    /\ Asks(p, "connect")
    /\ probing = {} /\ ~isConnected
    /\ owner' = p.from
    /\ probing' = {p}
    /\ portOpen' = TRUE
    /\ UNCHANGED <<toCenter, accepted, isConnected, m_wsport, lost>>

\* pConnectDobot binds the device to the session first; then the port is
\* opened ...
ReceiveConnect(p) ==
    /\ Receive(p)
    /\ Asks(p, "connect")
    /\ probing = {} /\ ~isConnected
    /\ m_wsport' = p.port
    /\ owner' = p.from
    /\ probing' = {p}
    /\ portOpen' = TRUE
    /\ UNCHANGED <<toCenter, accepted, isConnected, lost>>

\* ... or not: it is busy, connected or cannot be opened.
ConnectFails(p) ==
    /\ Receive(p)
    /\ Asks(p, "connect")
    /\ m_wsport' = p.port
    /\ owner' = p.from
    /\ PSendMessage(p)
    /\ UNCHANGED <<accepted, probing, isConnected, portOpen, lost>>

ConnectReturns(p) ==
    /\ p \in probing
    /\ probing' = {}
    /\ isConnected' = TRUE
    /\ PSendMessage(p)
    /\ UNCHANGED <<serverVars, running, selfVars, loaded, toPlugin, accepted, portOpen, m_wsport,
                   owner, lost>>

\* disConnectDevice; some of the commands under way get no answer any more.
Disconnect ==
    /\ portOpen' = FALSE
    /\ isConnected' = FALSE
    /\ accepted' \in SUBSET accepted
    /\ lost' = lost \cup {p.req : p \in accepted \ accepted'}
    /\ UNCHANGED <<probing, m_wsport, owner>>

ReceiveDisconnect(p) ==
    /\ Receive(p)
    /\ Asks(p, "disconnect")
    /\ Disconnect
    /\ PSendMessage(p)

\* MUTANT of Bound: every device is disconnected.
BoundAll(p) == TRUE

Bound(p) == m_wsport = p.port

\* CloseWebSocket: pDisconnectDobot(port)
ReceiveClose(p) ==
    /\ Receive(p)
    /\ p.req = NoReq
    /\ IF Bound(p) THEN Disconnect ELSE UNCHANGED pluginVars
    /\ UNCHANGED toCenter

\* The device is unplugged: dobotlink.notification.lostConnection, without id.
LostConnection ==
    /\ portOpen
    /\ Disconnect
    /\ PSendMessage(Packet(NoReq, NoId, m_wsport, owner))
    /\ UNCHANGED <<serverVars, running, selfVars, loaded, toPlugin>>

\* _handleReceiveMessage_slot: the answer to a command.
AnswerCommand(p) ==
    /\ p \in accepted
    /\ accepted' = accepted \ {p}
    /\ PSendMessage(p)
    /\ UNCHANGED <<serverVars, running, selfVars, loaded, toPlugin, deviceVars, lost>>

\* unloadPlugin: the thread ends, the plugin goes with its queue and devices;
\* what it has sent still arrives.
UnloadPlugin ==
    /\ loaded
    /\ PluginGone
    /\ UNCHANGED <<serverVars, running, selfVars, toCenter>>

LoadPlugin ==
    /\ running
    /\ ~loaded
    /\ loaded' = TRUE
    /\ UNCHANGED <<serverVars, running, selfVars, toPlugin, toCenter, pluginVars>>

PluginReceives ==
    \E p \in {toPlugin[n] : n \in DOMAIN toPlugin} :
        \/ ReceiveCommand(p)
        \/ ReceiveConnect(p)
        \/ ConnectFails(p)
        \/ ReceiveDisconnect(p)
        \/ ReceiveClose(p)

Next ==
    \/ \E r \in Reqs : Garbage(r) \/ AnswerHere(r) \/ Forward(r) \/ AskNetwork(r)
                      \/ DownloadCrashes(r)
    \/ \E c \in Clients : Connection(c) \/ ClientClose(c)
    \/ \E id \in downloads : DownloadFinished(id)
    \/ LatestVersion
    \/ ReceivePluginMessage
    \/ PluginReceives
    \/ \E p \in probing : ConnectReturns(p)
    \/ \E p \in accepted : AnswerCommand(p)
    \/ LostConnection
    \/ UnloadPlugin
    \/ LoadPlugin

Spec == Init /\ [][Next]_vars

\* The event loops of both threads run, the network answers or times out and a
\* broken session is noticed.  That the plugin answers is not assumed.
Fairness ==
    /\ WF_vars(ReceivePluginMessage)
    /\ WF_vars(PluginReceives)
    /\ WF_vars(LatestVersion)
    /\ WF_vars(\E id \in downloads : DownloadFinished(id))
    /\ WF_vars(\E p \in probing : ConnectReturns(p))

FairSpec == Spec /\ Fairness

-----------------------------------------------------------------------------
PacketType ==
    [req : Reqs \cup {NoReq}, id : Nat \cup {NoId}, port : Nat, from : Clients \cup {NoClient}]

TypeOK ==
    /\ session \in [Clients -> {"new", "open", "closing", "closed"}]
    /\ CLIENT_PORT \in Nat
    /\ seqId \in Nat
    /\ DOMAIN mapClient \subseteq 1..seqId
    /\ \A n \in DOMAIN mapClient : mapClient[n] \in [src : Nat, client : Clients]
    /\ innerId \in [Reqs -> 0..seqId]
    /\ delivered \subseteq [client : Clients, id : Nat \cup {NoId}, req : Reqs \cup {NoReq},
                            way : {"table", "port"}]
    /\ handling \subseteq PacketType
    /\ handlingID \in Nat
    /\ versions \in Nat
    /\ downloads \subseteq Nat
    /\ running \in BOOLEAN
    /\ loaded \in BOOLEAN
    /\ toPlugin \in Seq(PacketType)
    /\ toCenter \in Seq(PacketType)
    /\ accepted \subseteq PacketType
    /\ probing \subseteq PacketType
    /\ isConnected \in BOOLEAN
    /\ portOpen \in BOOLEAN
    /\ m_wsport \in Nat
    /\ owner \in Clients \cup {NoClient}
    /\ lost \subseteq Reqs \cup {NoReq}

\* "To be compatible with several users that have the same id": whatever the
\* threads, reconnections and reused ports do, an answer sent by the table
\* goes to the session that asked, with the id it asked with.
RoutedHome ==
    \A d \in delivered :
        d.way = "table" => /\ d.req \in Reqs
                           /\ d.client = ClientOf[d.req]
                           /\ d.id = ToInt64(SrcId[d.req])

\* The table holds no session that has gone, so no answer is sent through a
\* stale socket pointer, and a request once answered has no entry left.
TableFresh ==
    /\ \A n \in DOMAIN mapClient : session[mapClient[n].client] \in {"open", "closing"}
    /\ \A r \in Reqs : innerId[r] \in DOMAIN mapClient =>
           ~\E d \in delivered : d.req = r /\ d.way = "table"

\* A CloseWebSocket closes only the device bound by the very session that
\* ended, never that of a later session on the same port.
ClosedByOwner ==
    [][(/\ portOpen /\ ~portOpen'
        /\ toPlugin # <<>> /\ toPlugin' = Tail(toPlugin) /\ loaded'
        /\ Head(toPlugin).req = NoReq)
       => Head(toPlugin).from = owner]_vars

\* The serial port of a session that has ended is released, also when the end
\* is noticed inside the nested event loop of the connect.
PortReleased ==
    \A c \in Clients :
        (session[c] = "closed" /\ portOpen /\ owner = c) ~> (~portOpen \/ owner # c)

\* The plugin has taken a command and may take any time, or for ever.
WithPlugin(r) == \E p \in accepted : p.req = r

Answering(r) == \E n \in DOMAIN toCenter : toCenter[n].req = r

\* No request is left lying between the threads, whenever the plugin is loaded
\* and unloaded: it is answered, or its session ends, or it reaches the plugin,
\* or the unloading finds it in the plugin's queue; and each answer the plugin
\* gives arrives.  (A download without an url is never answered.)
EventuallyAnswered ==
    \A r \in {q \in Reqs : Kind[q] # "nourl"} :
        /\ (innerId[r] \in DOMAIN mapClient)
               ~> (innerId[r] \notin DOMAIN mapClient \/ WithPlugin(r) \/ r \in lost)
        /\ Answering(r) ~> (innerId[r] \notin DOMAIN mapClient)

\* A packet that does not go by the table is a plugin's notification, which
\* "carries no id" (the comment in sendMessage): no answer goes astray.
PortWayNotifies == \A d \in delivered : d.way = "port" => d.id = NoId
=============================================================================
