-------------------------- MODULE DWebSocketServer --------------------------
(***************************************************************************)
(* DWebSocketServer: the front ends' sessions, and the table that gives    *)
(* every request a number of its own, because two front ends may use the   *)
(* same JSON-RPC id, and gives each answer its way and its id back.  Each  *)
(* operation is the conjunction of what it assigns; DMessageCenter makes   *)
(* actions of them, as the two are joined by direct signals in one thread. *)
(*                                                                         *)
(* A packet is a request, an answer or a message without id, with the port *)
(* of a session in it; req and from are history.  Packets of the plugin    *)
(* modelled hold no originRequestId.                                       *)
(***************************************************************************)
EXTENDS Naturals, FiniteSets

CONSTANTS Clients,   \* sessions, QWebSocket objects
          PortOf,    \* peer port of each; a later session may have it again
          Reqs,      \* requests
          ClientOf,  \* the session that makes each
          SrcId,     \* the JSON value its "id" has
          NoReq,     \* no request
          NoClient,  \* no session
          NoId       \* no "id" in the packet

ASSUME ServerAssumption ==
    /\ PortOf \in [Clients -> Nat \ {0}]
    /\ ClientOf \in [Reqs -> Clients]
    /\ NoReq \notin Reqs
    /\ NoClient \notin Clients
    /\ NoId \notin Nat

VARIABLES
    session,     \* "new", "open" (isValid), "closing", "closed"
    CLIENT_PORT, \* port of the session opened last
    seqId,       \* m_seqId
    mapClient,   \* m_mapClient: inner id -> source id and session
    innerId,     \* the inner id each request got, 0 before (history)
    delivered    \* what the sessions were sent (history)

serverVars == <<session, CLIENT_PORT, seqId, mapClient, innerId, delivered>>

ServerInit ==
    /\ session = [c \in Clients |-> "new"]
    /\ CLIENT_PORT \in {0} \cup {PortOf[c] : c \in Clients}   \* left unset
    /\ seqId = 0
    /\ mapClient = [n \in {} |-> NoReq]
    /\ innerId = [r \in Reqs |-> 0]
    /\ delivered = {}

Packet(r, id, port, from) == [req |-> r, id |-> id, port |-> port, from |-> from]

\* QJsonValue::toDouble of an id that is no number is 0.
ToInt64(id) == IF id \in Nat THEN id ELSE 0

GetJsonrpcId(p) == IF p.id = NoId THEN 0 ELSE p.id

Without(map, S) == [n \in DOMAIN map \ S |-> map[n]]

\* sendMessageObj and sendMessage with the table as it is at that moment: the
\* entry goes, and its session, if still valid, gets the packet with the id it
\* knows; any other packet goes to the valid session with the packet's port.
SendMessage(p, map) ==
    LET port == IF p.port = 0 THEN CLIENT_PORT ELSE p.port
        n == GetJsonrpcId(p)
    IN  /\ mapClient' = Without(map, {n})
        /\ delivered' = delivered \cup
             IF n \in DOMAIN map /\ session[map[n].client] = "open"
             THEN {[client |-> map[n].client, id |-> map[n].src,
                    req |-> p.req, way |-> "table"]}
             ELSE {[client |-> c, id |-> p.id, req |-> p.req, way |-> "port"] :
                      c \in {d \in Clients : session[d] = "open" /\ PortOf[d] = port}}

\* onNewConnection_slot.  A port is free again once its session has gone.
NewConnection(c) ==
    /\ session[c] = "new"
    /\ \A d \in Clients : PortOf[d] = PortOf[c] => session[d] \in {"new", "closed"}
    /\ session' = [session EXCEPT ![c] = "open"]
    /\ CLIENT_PORT' = PortOf[c]
    /\ UNCHANGED <<seqId, mapClient, innerId, delivered>>

\* The closing handshake begins, or the connection breaks.
BeginClose(c) ==
    /\ session[c] = "open"
    /\ session' = [session EXCEPT ![c] = "closing"]
    /\ UNCHANGED <<CLIENT_PORT, seqId, mapClient, innerId, delivered>>

\* MUTANT of InnerId: the front end's own id is kept.
InnerIdKept(r) == ToInt64(SrcId[r])

\* ++m_seqId
InnerId(r) == seqId + 1

\* onClientMessageReceived_slot up to its signal: the table with the entry for
\* a request that is JSON.
Entered(r) ==
    [n \in DOMAIN mapClient \cup {InnerId(r)} |->
        IF n = InnerId(r) THEN [src |-> ToInt64(SrcId[r]), client |-> ClientOf[r]]
        ELSE mapClient[n]]

ClientMessage(r) ==
    /\ innerId[r] = 0
    /\ session[ClientOf[r]] = "open"
    /\ seqId' = seqId + 1
    /\ innerId' = [innerId EXCEPT ![r] = InnerId(r)]
    /\ UNCHANGED <<session, CLIENT_PORT>>

\* MUTANT of EntriesOf: nothing is erased when a session ends.
EntriesOfNone(c) == {}

EntriesOf(c) == {n \in DOMAIN mapClient : mapClient[n].client = c}

\* onClientDisconnection_slot up to its signal.
ClientDisconnection(c) ==
    /\ session[c] = "closing"
    /\ session' = [session EXCEPT ![c] = "closed"]
    /\ mapClient' = Without(mapClient, EntriesOf(c))
    /\ UNCHANGED <<CLIENT_PORT, seqId, innerId, delivered>>
=============================================================================
