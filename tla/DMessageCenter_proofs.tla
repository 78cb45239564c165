----------------------- MODULE DMessageCenter_proofs -----------------------
(***************************************************************************)
(* Routing, for any number of sessions and requests, any choice of ids and *)
(* ports: an answer that goes by the table of DWebSocketServer reaches the *)
(* session that asked, with its own id, and the table is never stale.  The *)
(* invariant says what makes it so: inner ids are unique, an entry is the  *)
(* one made for the request with that id, and a packet anywhere between    *)
(* the threads still has the inner id of its request.                      *)
(***************************************************************************)
EXTENDS DMessageCenter, TLAPS

\* A packet that is a request or its answer, with the inner id it was given.
Genuine(p) ==
    /\ p \in PacketType
    /\ \/ p.req = NoReq /\ p.id \in {0, NoId}
       \/ p.req \in Reqs /\ p.id = innerId[p.req] /\ p.id > 0

Made(n, r) ==
    /\ innerId[r] = n
    /\ mapClient[n] = [src |-> ToInt64(SrcId[r]), client |-> ClientOf[r]]

NumbersInv ==
    /\ seqId \in Nat
    /\ innerId \in [Reqs -> 0..seqId]
    /\ \A q, r \in Reqs : innerId[q] = innerId[r] /\ innerId[q] > 0 => q = r

TableInv ==
    /\ session \in [Clients -> {"new", "open", "closing", "closed"}]
    /\ \A n \in DOMAIN mapClient :
           /\ n \in 1..seqId
           /\ \E r \in Reqs : Made(n, r)
           /\ session[mapClient[n].client] \in {"open", "closing"}

PacketsInv ==
    /\ toPlugin \in Seq(PacketType)
    /\ toCenter \in Seq(PacketType)
    /\ m_wsport \in Nat
    /\ owner \in Clients \cup {NoClient}
    /\ \A n \in 1..Len(toPlugin) : Genuine(toPlugin[n])
    /\ \A n \in 1..Len(toCenter) : Genuine(toCenter[n])
    /\ \A p \in handling \cup accepted \cup probing : Genuine(p)

\* Nothing is delivered for a request that has not been made, and nothing by
\* the table for one whose entry is still there.
DeliveredInv ==
    \A d \in delivered : d.way = "table" =>
        /\ d.req \in Reqs
        /\ d.client = ClientOf[d.req]
        /\ d.id = ToInt64(SrcId[d.req])
        /\ innerId[d.req] > 0
        /\ innerId[d.req] \notin DOMAIN mapClient

RouteInv == NumbersInv /\ TableInv /\ PacketsInv /\ DeliveredInv

\* Appending a packet to a queue adds no other.
LEMMA AppendElements ==
  ASSUME NEW S, NEW s \in Seq(S), NEW p \in S
  PROVE  /\ Append(s, p) \in Seq(S)
         /\ \A n \in 1..Len(Append(s, p)) :
                Append(s, p)[n] = p \/ \E m \in 1..Len(s) : Append(s, p)[n] = s[m]
  OBVIOUS

\* Taking the first packet off a queue adds none.
LEMMA TailElements ==
  ASSUME NEW S, NEW s \in Seq(S), s # <<>>
  PROVE  /\ Tail(s) \in Seq(S)
         /\ \A n \in 1..Len(Tail(s)) : \E m \in 1..Len(s) : Tail(s)[n] = s[m]
  <1>1. ASSUME NEW n \in 1..Len(Tail(s))
        PROVE  n + 1 \in 1..Len(s) /\ Tail(s)[n] = s[n + 1]
    OBVIOUS
  <1> QED
    BY <1>1

\* The initial states satisfy the invariant: every table is empty.
LEMMA RouteInit == Init => RouteInv
  <1> SUFFICES ASSUME Init PROVE RouteInv
    OBVIOUS
  <1>1. NumbersInv
    BY DEF Init, ServerInit, NumbersInv
  <1>2. TableInv
    BY DEF Init, ServerInit, TableInv
  <1>3. PacketsInv
    BY DEF Init, ServerInit, PacketsInv
  <1>4. DeliveredInv
    BY DEF Init, ServerInit, DeliveredInv
  <1> QED
    BY <1>1, <1>2, <1>3, <1>4 DEF RouteInv

\* Sending a genuine packet keeps what the table and the sessions promise,
\* whatever table (the present one or the one with a new entry) it goes by.
LEMMA SendKeeps ==
  ASSUME NEW p, NEW map,
         NumbersInv', Genuine(p)',
         session' = session, session \in [Clients -> {"new", "open", "closing", "closed"}],
         \A n \in DOMAIN map :
             /\ n \in 1..seqId'
             /\ \E r \in Reqs : /\ innerId'[r] = n
                                /\ map[n] = [src |-> ToInt64(SrcId[r]), client |-> ClientOf[r]]
             /\ session[map[n].client] \in {"open", "closing"},
         \A d \in delivered : d.way = "table" =>
             /\ d.req \in Reqs
             /\ d.client = ClientOf[d.req]
             /\ d.id = ToInt64(SrcId[d.req])
             /\ innerId'[d.req] > 0
             /\ innerId'[d.req] \notin DOMAIN map,
         SendMessage(p, map)
  PROVE  TableInv' /\ DeliveredInv'
  <1> DEFINE n == GetJsonrpcId(p)
  <1>1. mapClient' = [k \in DOMAIN map \ {n} |-> map[k]]
    BY DEF SendMessage, Without
  <1>2. TableInv'
    BY <1>1 DEF TableInv, Made
  <1>3. ASSUME NEW d \in delivered', d.way = "table"
        PROVE  /\ d.req \in Reqs
               /\ d.client = ClientOf[d.req]
               /\ d.id = ToInt64(SrcId[d.req])
               /\ innerId'[d.req] > 0
               /\ innerId'[d.req] \notin DOMAIN mapClient'
    <2>1. CASE d \in delivered
      BY <1>1, <1>3, <2>1
    <2>2. CASE d \notin delivered
      <3>1. /\ n \in DOMAIN map
            /\ d = [client |-> map[n].client, id |-> map[n].src, req |-> p.req, way |-> "table"]
        BY <1>3, <2>2 DEF SendMessage
      <3>2. p.req \in Reqs /\ n = innerId'[p.req] /\ n > 0
        <4>1. n \in 1..seqId'
          BY <3>1
        <4>2. seqId' \in Nat
          BY DEF NumbersInv
        <4> QED
          BY <4>1, <4>2, ServerAssumption DEF Genuine, GetJsonrpcId
      <3>3. PICK r \in Reqs : /\ innerId'[r] = n
                              /\ map[n] = [src |-> ToInt64(SrcId[r]), client |-> ClientOf[r]]
        BY <3>1
      <3>4. r = p.req
        BY <3>2, <3>3 DEF NumbersInv
      <3> QED
        BY <1>1, <3>1, <3>2, <3>3, <3>4
    <2> QED
      BY <2>1, <2>2
  <1>4. DeliveredInv'
    BY <1>3 DEF DeliveredInv
  <1> QED
    BY <1>2, <1>4

\* A step that neither numbers, sends nor closes leaves the table as it is.
LEMMA QuietKeeps ==
  ASSUME RouteInv, UNCHANGED <<session, seqId, mapClient, innerId, delivered>>
  PROVE  NumbersInv' /\ TableInv' /\ DeliveredInv'
  BY DEF RouteInv, NumbersInv, TableInv, DeliveredInv, Made

\* A new request gets a number nobody has; older packets keep theirs.
LEMMA MessageNumbers ==
  ASSUME RouteInv, NEW r \in Reqs, ClientMessage(r)
  PROVE  /\ NumbersInv'
         /\ \A p : p = RequestPacket(r) => Genuine(p)'
         /\ \A p : Genuine(p) => Genuine(p)'
         /\ session' = session
         /\ \A n \in DOMAIN Entered(r) :
                /\ n \in 1..seqId'
                /\ \E q \in Reqs : /\ innerId'[q] = n
                                   /\ Entered(r)[n] = [src |-> ToInt64(SrcId[q]), client |-> ClientOf[q]]
                /\ session[Entered(r)[n].client] \in {"open", "closing"}
         /\ \A d \in delivered : d.way = "table" =>
                /\ d.req \in Reqs
                /\ d.client = ClientOf[d.req]
                /\ d.id = ToInt64(SrcId[d.req])
                /\ innerId'[d.req] > 0
                /\ innerId'[d.req] \notin DOMAIN Entered(r)
  <1>1. /\ innerId[r] = 0
        /\ seqId' = seqId + 1
        /\ innerId' = [innerId EXCEPT ![r] = seqId + 1]
        /\ session[ClientOf[r]] = "open"
        /\ session' = session
    BY DEF ClientMessage, InnerId
  <1>2. /\ seqId \in Nat
        /\ innerId \in [Reqs -> 0..seqId]
    BY DEF RouteInv, NumbersInv
  <1>3. NumbersInv'
    BY <1>1, <1>2 DEF RouteInv, NumbersInv
  <1>4. ASSUME NEW p, p = RequestPacket(r)
        PROVE  Genuine(p)'
    <2>1. p \in PacketType
      BY <1>2, <1>4, ServerAssumption DEF RequestPacket, Packet, InnerId, PacketType
    <2>2. p.req = r /\ p.id = seqId + 1
      BY <1>4 DEF RequestPacket, Packet, InnerId
    <2> QED
      BY <1>1, <1>2, <2>1, <2>2 DEF Genuine
  <1>5. ASSUME NEW p, Genuine(p)
        PROVE  Genuine(p)'
    BY <1>1, <1>2, <1>5 DEF Genuine
  <1>6. DOMAIN Entered(r) = DOMAIN mapClient \cup {seqId + 1}
    BY DEF Entered, InnerId
  <1>7. ASSUME NEW n \in DOMAIN Entered(r)
        PROVE  /\ n \in 1..seqId'
               /\ \E q \in Reqs : /\ innerId'[q] = n
                                  /\ Entered(r)[n] = [src |-> ToInt64(SrcId[q]), client |-> ClientOf[q]]
               /\ session[Entered(r)[n].client] \in {"open", "closing"}
    <2>1. CASE n = seqId + 1
      <3>1. Entered(r)[n] = [src |-> ToInt64(SrcId[r]), client |-> ClientOf[r]]
        BY <2>1 DEF Entered, InnerId
      <3> QED
        BY <1>1, <1>2, <2>1, <3>1
    <2>2. CASE n # seqId + 1
      <3>1. n \in DOMAIN mapClient /\ Entered(r)[n] = mapClient[n]
        BY <1>6, <2>2 DEF Entered, InnerId
      <3>2. PICK q \in Reqs : Made(n, q)
        BY <3>1 DEF RouteInv, TableInv
      <3>3. n \in 1..seqId /\ session[mapClient[n].client] \in {"open", "closing"}
        BY <3>1 DEF RouteInv, TableInv
      <3>4. q # r
        BY <1>1, <1>2, <3>2, <3>3 DEF Made
      <3> QED
        BY <1>1, <1>2, <3>1, <3>2, <3>3, <3>4 DEF Made
    <2> QED
      BY <2>1, <2>2
  <1>8. ASSUME NEW d \in delivered, d.way = "table"
        PROVE  /\ d.req \in Reqs
               /\ d.client = ClientOf[d.req]
               /\ d.id = ToInt64(SrcId[d.req])
               /\ innerId'[d.req] > 0
               /\ innerId'[d.req] \notin DOMAIN Entered(r)
    BY <1>1, <1>2, <1>6, <1>8 DEF RouteInv, DeliveredInv
  <1> QED
    BY <1>1, <1>3, <1>4, <1>5, <1>7, <1>8

\* The invariant gives SendKeeps what it wants of the present table.
LEMMA SendNow ==
  ASSUME RouteInv, NEW p, Genuine(p), SendMessage(p, mapClient),
         UNCHANGED <<session, seqId, innerId>>
  PROVE  NumbersInv' /\ TableInv' /\ DeliveredInv'
  <1>1. NumbersInv' /\ Genuine(p)'
    BY DEF RouteInv, NumbersInv, Genuine
  <1>2. \A n \in DOMAIN mapClient :
            /\ n \in 1..seqId'
            /\ \E r \in Reqs : /\ innerId'[r] = n
                               /\ mapClient[n] = [src |-> ToInt64(SrcId[r]), client |-> ClientOf[r]]
            /\ session[mapClient[n].client] \in {"open", "closing"}
    BY DEF RouteInv, TableInv, Made
  <1>3. session \in [Clients -> {"new", "open", "closing", "closed"}]
    BY DEF RouteInv, TableInv
  <1>4. \A d \in delivered : d.way = "table" =>
            /\ d.req \in Reqs
            /\ d.client = ClientOf[d.req]
            /\ d.id = ToInt64(SrcId[d.req])
            /\ innerId'[d.req] > 0
            /\ innerId'[d.req] \notin DOMAIN mapClient
    BY DEF RouteInv, DeliveredInv
  <1> QED
    BY <1>1, <1>2, <1>3, <1>4, SendKeeps

\* Every step keeps the invariant.
LEMMA RouteStep == RouteInv /\ [Next]_vars => RouteInv'
  <1> SUFFICES ASSUME RouteInv, [Next]_vars PROVE RouteInv'
    OBVIOUS
  <1>t. /\ toPlugin \in Seq(PacketType)
        /\ toCenter \in Seq(PacketType)
        /\ m_wsport \in Nat
        /\ owner \in Clients \cup {NoClient}
        /\ \A n \in 1..Len(toPlugin) : Genuine(toPlugin[n])
        /\ \A n \in 1..Len(toCenter) : Genuine(toCenter[n])
        /\ \A p \in handling \cup accepted \cup probing : Genuine(p)
    BY DEF RouteInv, PacketsInv
  <1>g. ASSUME UNCHANGED innerId, NEW p, Genuine(p) PROVE Genuine(p)'
    BY <1>g DEF Genuine
  <1>1. ASSUME NEW r \in Reqs, Garbage(r) PROVE RouteInv'
    <2>1. ClientMessage(r)
      BY <1>1 DEF Garbage
    <2>2. UNCHANGED <<mapClient, delivered, selfVars, toPlugin, toCenter, pluginVars>>
      BY <1>1 DEF Garbage
    <2>3. NumbersInv' /\ session' = session /\ (\A p : Genuine(p) => Genuine(p)')
      BY <2>1, MessageNumbers
    <2>4. TableInv'
      <3>1. seqId' = seqId + 1 /\ innerId' = [innerId EXCEPT ![r] = seqId + 1] /\ innerId[r] = 0
        BY <2>1 DEF ClientMessage, InnerId
      <3> QED
        BY <2>2, <2>3, <3>1 DEF RouteInv, NumbersInv, TableInv, Made
    <2>5. DeliveredInv'
      <3>1. seqId' = seqId + 1 /\ innerId' = [innerId EXCEPT ![r] = seqId + 1] /\ innerId[r] = 0
        BY <2>1 DEF ClientMessage, InnerId
      <3> QED
        BY <2>2, <3>1 DEF RouteInv, NumbersInv, DeliveredInv
    <2>6. PacketsInv'
      BY <1>t, <2>2, <2>3 DEF PacketsInv, selfVars, pluginVars, deviceVars
    <2> QED
      BY <2>3, <2>4, <2>5, <2>6 DEF RouteInv
  <1>2. ASSUME NEW r \in Reqs, AnswerHere(r) PROVE RouteInv'
    <2>1. ClientMessage(r) /\ SendMessage(RequestPacket(r), Entered(r))
      BY <1>2 DEF AnswerHere
    <2>2. UNCHANGED <<selfVars, toPlugin, toCenter, pluginVars>>
      BY <1>2 DEF AnswerHere
    <2>3. TableInv' /\ DeliveredInv' /\ NumbersInv' /\ (\A p : Genuine(p) => Genuine(p)')
      <3>1. session \in [Clients -> {"new", "open", "closing", "closed"}]
        BY DEF RouteInv, TableInv
      <3> HIDE DEF RequestPacket, Entered
      <3> QED
        BY <2>1, <3>1, MessageNumbers, SendKeeps
    <2>4. PacketsInv'
      BY <1>t, <2>2, <2>3 DEF PacketsInv, selfVars, pluginVars, deviceVars
    <2> QED
      BY <2>3, <2>4 DEF RouteInv
  <1>3. ASSUME NEW r \in Reqs, ClientMessage(r), mapClient' = Entered(r), delivered' = delivered
        PROVE  NumbersInv' /\ TableInv' /\ DeliveredInv'
    <2>1. session \in [Clients -> {"new", "open", "closing", "closed"}]
      BY DEF RouteInv, TableInv
    <2> QED
      BY <1>3, <2>1, MessageNumbers DEF TableInv, DeliveredInv, Made
  <1>4. ASSUME NEW r \in Reqs, Forward(r) PROVE RouteInv'
    <2>1. ClientMessage(r) /\ mapClient' = Entered(r) /\ delivered' = delivered
      BY <1>4 DEF Forward
    <2>2. /\ UNCHANGED <<selfVars, toCenter, pluginVars>>
          /\ toPlugin' = toPlugin \/ toPlugin' = Append(toPlugin, RequestPacket(r))
      BY <1>4 DEF Forward
    <2>3. /\ \A p : Genuine(p) => Genuine(p)'
          /\ \A p : p = RequestPacket(r) => Genuine(p)'
      BY <2>1, MessageNumbers
    <2>4. RequestPacket(r) \in PacketType
      BY <2>3 DEF Genuine, PacketType
    <2>5. /\ toPlugin' \in Seq(PacketType)
          /\ \A n \in 1..Len(toPlugin') :
                 toPlugin'[n] = RequestPacket(r) \/ \E m \in 1..Len(toPlugin) : toPlugin'[n] = toPlugin[m]
      <3>1. CASE toPlugin' = toPlugin
        BY <1>t, <3>1
      <3>2. CASE toPlugin' = Append(toPlugin, RequestPacket(r))
        <4>1. /\ Append(toPlugin, RequestPacket(r)) \in Seq(PacketType)
              /\ \A n \in 1..Len(Append(toPlugin, RequestPacket(r))) :
                    \/ Append(toPlugin, RequestPacket(r))[n] = RequestPacket(r)
                    \/ \E m \in 1..Len(toPlugin) : Append(toPlugin, RequestPacket(r))[n] = toPlugin[m]
          BY <1>t, <2>4, AppendElements
        <4> QED
          BY <3>2, <4>1, Zenon
      <3> QED
        BY <2>2, <3>1, <3>2
    <2>6. PacketsInv'
      BY <1>t, <2>2, <2>3, <2>5 DEF PacketsInv, selfVars, pluginVars, deviceVars
    <2> QED
      BY <1>3, <2>1, <2>6 DEF RouteInv
  <1>5. ASSUME NEW r \in Reqs, AskNetwork(r) PROVE RouteInv'
    <2>1. ClientMessage(r) /\ mapClient' = Entered(r) /\ delivered' = delivered
      BY <1>5 DEF AskNetwork
    <2>2. /\ UNCHANGED <<toPlugin, toCenter, pluginVars>>
          /\ handling' = handling \cup {RequestPacket(r)}
      BY <1>5 DEF AskNetwork
    <2>3. /\ \A p : Genuine(p) => Genuine(p)'
          /\ \A p : p = RequestPacket(r) => Genuine(p)'
      BY <2>1, MessageNumbers
    <2>4. PacketsInv'
      BY <1>t, <2>2, <2>3 DEF PacketsInv, pluginVars, deviceVars
    <2> QED
      BY <1>3, <2>1, <2>4 DEF RouteInv
  <1>6. ASSUME NEW id, Finish(id), UNCHANGED <<session, seqId, innerId, toPlugin, toCenter, pluginVars>>
        PROVE  RouteInv'
    <2> DEFINE P == {p \in handling : p.id = id}
    <2>1. PICK p : Genuine(p) /\ SendMessage(p, mapClient)
      <3>1. CASE P = {}
        <4>1. SendMessage(Packet(NoReq, 0, 0, NoClient), mapClient)
          BY <1>6, <3>1 DEF Finish
        <4>2. Genuine(Packet(NoReq, 0, 0, NoClient))
          BY DEF Genuine, Packet, PacketType
        <4> QED
          BY <4>1, <4>2
      <3>2. CASE P # {}
        <4>1. SendMessage(CHOOSE p \in P : TRUE, mapClient)
          BY <1>6, <3>2 DEF Finish
        <4>2. (CHOOSE p \in P : TRUE) \in P
          BY <3>2
        <4>3. \A p \in P : Genuine(p)
          BY <1>t
        <4> QED
          BY <4>1, <4>2, <4>3
      <3> QED
        BY <3>1, <3>2
    <2>2. NumbersInv' /\ TableInv' /\ DeliveredInv'
      BY <1>6, <2>1, SendNow
    <2>3. handling' \subseteq handling
      BY <1>6 DEF Finish
    <2>4. PacketsInv'
      BY <1>6, <1>g, <1>t, <2>3 DEF PacketsInv, pluginVars, deviceVars
    <2> QED
      BY <2>2, <2>4 DEF RouteInv
  <1>7. ASSUME NEW id \in downloads, DownloadFinished(id) PROVE RouteInv'
    BY <1>6, <1>7 DEF DownloadFinished
  <1>8. CASE LatestVersion
    BY <1>6, <1>8 DEF LatestVersion
  <1>9. ASSUME NEW c \in Clients, Connection(c) PROVE RouteInv'
    <2>1. /\ UNCHANGED <<seqId, mapClient, innerId, delivered, selfVars, toPlugin, toCenter,
                         pluginVars>>
          /\ \/ session[c] = "new" /\ session' = [session EXCEPT ![c] = "open"]
             \/ session[c] = "open" /\ session' = [session EXCEPT ![c] = "closing"]
      BY <1>9 DEF Connection, NewConnection, BeginClose
    <2>2. TableInv'
      <3>1. ASSUME NEW n \in DOMAIN mapClient
            PROVE  /\ n \in 1..seqId'
                   /\ \E r \in Reqs : Made(n, r)'
                   /\ session'[mapClient[n].client] \in {"open", "closing"}
        <4>1. PICK r \in Reqs : Made(n, r)
          BY DEF RouteInv, TableInv
        <4>2. mapClient[n].client \in Clients
          BY <4>1, ServerAssumption DEF Made
        <4>3. n \in 1..seqId /\ session[mapClient[n].client] \in {"open", "closing"}
          BY DEF RouteInv, TableInv
        <4>4. session \in [Clients -> {"new", "open", "closing", "closed"}]
          BY DEF RouteInv, TableInv
        <4> QED
          BY <2>1, <4>1, <4>2, <4>3, <4>4 DEF Made
      <3> QED
        BY <2>1, <3>1 DEF RouteInv, TableInv
    <2>3. NumbersInv' /\ DeliveredInv'
      BY <2>1 DEF RouteInv, NumbersInv, DeliveredInv
    <2>4. PacketsInv'
      BY <1>g, <1>t, <2>1 DEF PacketsInv, selfVars, pluginVars, deviceVars
    <2> QED
      BY <2>2, <2>3, <2>4 DEF RouteInv
  <1>10. ASSUME NEW c \in Clients, ClientClose(c) PROVE RouteInv'
    <2>1. /\ UNCHANGED <<seqId, innerId, delivered, selfVars, toCenter, pluginVars>>
          /\ session' = [session EXCEPT ![c] = "closed"]
          /\ mapClient' = [n \in DOMAIN mapClient \ EntriesOf(c) |-> mapClient[n]]
          /\ toPlugin' = toPlugin \/ toPlugin' = Append(toPlugin, ClosePacket(c))
      BY <1>10 DEF ClientClose, ClientDisconnection, Without
    <2>2. \A n \in DOMAIN mapClient' :
              n \in DOMAIN mapClient /\ mapClient'[n] = mapClient[n] /\ mapClient[n].client # c
      BY <2>1 DEF EntriesOf
    <2>3. TableInv'
      BY <2>1, <2>2, ServerAssumption DEF RouteInv, TableInv, Made
    <2>4. NumbersInv' /\ DeliveredInv'
      BY <2>1, <2>2 DEF RouteInv, NumbersInv, DeliveredInv
    <2>5. Genuine(ClosePacket(c))
      BY ServerAssumption DEF Genuine, ClosePacket, Packet, PacketType
    <2>6. ClosePacket(c) \in PacketType
      BY <2>5 DEF Genuine
    <2>7. toPlugin' \in Seq(PacketType) /\ \A n \in 1..Len(toPlugin') : Genuine(toPlugin'[n])
      <3>1. /\ toPlugin' \in Seq(PacketType)
            /\ \A n \in 1..Len(toPlugin') : toPlugin'[n] = ClosePacket(c)
                                            \/ \E m \in 1..Len(toPlugin) : toPlugin'[n] = toPlugin[m]
        <4>1. CASE toPlugin' = toPlugin
          BY <1>t, <4>1
        <4>2. CASE toPlugin' = Append(toPlugin, ClosePacket(c))
          <5>1. /\ Append(toPlugin, ClosePacket(c)) \in Seq(PacketType)
                /\ \A n \in 1..Len(Append(toPlugin, ClosePacket(c))) :
                      \/ Append(toPlugin, ClosePacket(c))[n] = ClosePacket(c)
                      \/ \E m \in 1..Len(toPlugin) : Append(toPlugin, ClosePacket(c))[n] = toPlugin[m]
            BY <1>t, <2>6, AppendElements
          <5> QED
            BY <4>2, <5>1, Zenon
        <4> QED
          BY <2>1, <4>1, <4>2
      <3> QED
        BY <1>t, <2>5, <3>1
    <2>8. PacketsInv'
      BY <1>g, <1>t, <2>1, <2>7 DEF PacketsInv, selfVars, pluginVars, deviceVars
    <2> QED
      BY <2>3, <2>4, <2>8 DEF RouteInv
  <1>11. CASE ReceivePluginMessage
    <2>1. /\ toCenter # <<>>
          /\ SendMessage(Head(toCenter), mapClient)
          /\ toCenter' = Tail(toCenter)
          /\ UNCHANGED <<session, seqId, innerId, selfVars, toPlugin, pluginVars>>
      BY <1>11 DEF ReceivePluginMessage
    <2>2. Genuine(Head(toCenter))
      BY <1>t, <2>1
    <2>3. NumbersInv' /\ TableInv' /\ DeliveredInv'
      BY <2>1, <2>2, SendNow
    <2>4. toCenter' \in Seq(PacketType) /\ \A n \in 1..Len(toCenter') : Genuine(toCenter'[n])
      <3>1. /\ Tail(toCenter) \in Seq(PacketType)
            /\ \A n \in 1..Len(Tail(toCenter)) :
                   \E m \in 1..Len(toCenter) : Tail(toCenter)[n] = toCenter[m]
        BY <1>t, <2>1, TailElements
      <3>2. \A n \in 1..Len(Tail(toCenter)) : Genuine(Tail(toCenter)[n])
        BY <1>t, <3>1, Zenon
      <3> QED
        BY <2>1, <3>1, <3>2, Zenon
    <2>5. PacketsInv'
      BY <1>g, <1>t, <2>1, <2>4 DEF PacketsInv, selfVars, pluginVars, deviceVars
    <2> QED
      BY <2>3, <2>5 DEF RouteInv
  <1>12. ASSUME UNCHANGED <<serverVars, handling>>,
                toPlugin' \in {toPlugin, <<>>} \/ (toPlugin # <<>> /\ toPlugin' = Tail(toPlugin)),
                \/ toCenter' = toCenter
                \/ \E p : Genuine(p) /\ toCenter' = Append(toCenter, p),
                \A p \in accepted' \cup probing' : Genuine(p),
                m_wsport' \in Nat,
                owner' \in Clients \cup {NoClient}
         PROVE  RouteInv'
    <2>1. NumbersInv' /\ TableInv' /\ DeliveredInv'
      BY <1>12, QuietKeeps DEF serverVars
    <2>2. toPlugin' \in Seq(PacketType) /\ \A n \in 1..Len(toPlugin') : Genuine(toPlugin'[n])
      <3>1. CASE toPlugin' = toPlugin
        BY <1>t, <3>1
      <3>2. CASE toPlugin' = <<>>
        BY <3>2
      <3>3. CASE toPlugin # <<>> /\ toPlugin' = Tail(toPlugin)
        <4>1. /\ Tail(toPlugin) \in Seq(PacketType)
              /\ \A n \in 1..Len(Tail(toPlugin)) :
                     \E m \in 1..Len(toPlugin) : Tail(toPlugin)[n] = toPlugin[m]
          BY <1>t, <3>3, TailElements
        <4>2. \A n \in 1..Len(Tail(toPlugin)) : Genuine(Tail(toPlugin)[n])
          BY <1>t, <4>1, Zenon
        <4> QED
          BY <3>3, <4>1, <4>2, Zenon
      <3> QED
        BY <1>12, <3>1, <3>2, <3>3
    <2>3. toCenter' \in Seq(PacketType) /\ \A n \in 1..Len(toCenter') : Genuine(toCenter'[n])
      <3>1. CASE toCenter' = toCenter
        BY <1>t, <3>1
      <3>2. ASSUME NEW p, Genuine(p), toCenter' = Append(toCenter, p)
            PROVE  toCenter' \in Seq(PacketType) /\ \A n \in 1..Len(toCenter') : Genuine(toCenter'[n])
        <4>1. p \in PacketType
          BY <3>2 DEF Genuine
        <4>2. /\ Append(toCenter, p) \in Seq(PacketType)
              /\ \A n \in 1..Len(Append(toCenter, p)) :
                     \/ Append(toCenter, p)[n] = p
                     \/ \E m \in 1..Len(toCenter) : Append(toCenter, p)[n] = toCenter[m]
          BY <1>t, <4>1, AppendElements
        <4>3. \A n \in 1..Len(Append(toCenter, p)) : Genuine(Append(toCenter, p)[n])
          BY <1>t, <3>2, <4>2, Zenon
        <4> QED
          BY <3>2, <4>2, <4>3, Zenon
      <3> QED
        BY <1>12, <3>1, <3>2
    <2>4. innerId' = innerId
      BY <1>12 DEF serverVars
    <2>5. PacketsInv'
      BY <1>g, <1>t, <1>12, <2>2, <2>3, <2>4 DEF PacketsInv
    <2> QED
      BY <2>1, <2>5 DEF RouteInv
  <1>13. CASE PluginReceives
    <2>1. PICK n \in DOMAIN toPlugin :
               \/ ReceiveCommand(toPlugin[n]) \/ ReceiveConnect(toPlugin[n])
               \/ ConnectFails(toPlugin[n]) \/ ReceiveDisconnect(toPlugin[n])
               \/ ReceiveClose(toPlugin[n])
      BY <1>13 DEF PluginReceives
    <2> DEFINE p == toPlugin[n]
    <2>2. Genuine(p) /\ p \in PacketType
      BY <1>t DEF Genuine
    <2>3. p.port \in Nat /\ p.from \in Clients \cup {NoClient}
      BY <2>2 DEF PacketType
    <2>4. /\ UNCHANGED <<serverVars, handling>>
          /\ toPlugin # <<>> /\ toPlugin' = Tail(toPlugin)
      BY <2>1 DEF ReceiveCommand, ReceiveConnect, ConnectFails, ReceiveDisconnect, ReceiveClose,
                  Receive, selfVars
    <2> HIDE DEF p
    <2>5. \/ toCenter' = toCenter
          \/ \E q : Genuine(q) /\ toCenter' = Append(toCenter, q)
      BY <2>1, <2>2 DEF p, ReceiveCommand, ReceiveConnect, ConnectFails, ReceiveDisconnect,
                        ReceiveClose, PSendMessage
    <2>6. /\ accepted' \cup probing' \subseteq accepted \cup probing \cup {p}
          /\ m_wsport' \in {m_wsport, p.port}
          /\ owner' \in {owner, p.from}
      BY <2>1 DEF p, ReceiveCommand, ReceiveConnect, ConnectFails, ReceiveDisconnect,
                  ReceiveClose, Disconnect, deviceVars, pluginVars
    <2> QED
      BY <1>12, <1>t, <2>2, <2>3, <2>4, <2>5, <2>6
  <1>14. ASSUME NEW p \in probing, ConnectReturns(p) PROVE RouteInv'
    <2>1. /\ UNCHANGED <<serverVars, handling, toPlugin, accepted, m_wsport, owner>>
          /\ probing' = {}
          /\ toCenter' = Append(toCenter, p)
      BY <1>14 DEF ConnectReturns, PSendMessage, selfVars
    <2> QED
      BY <1>12, <1>t, <2>1
  <1>15. ASSUME NEW p \in accepted, AnswerCommand(p) PROVE RouteInv'
    <2>1. /\ UNCHANGED <<serverVars, handling, toPlugin, probing, m_wsport, owner>>
          /\ accepted' = accepted \ {p}
          /\ toCenter' = Append(toCenter, p)
      BY <1>15 DEF AnswerCommand, PSendMessage, selfVars, deviceVars
    <2> QED
      BY <1>12, <1>t, <2>1
  <1>16. CASE LostConnection
    <2> DEFINE p == Packet(NoReq, NoId, m_wsport, owner)
    <2>1. /\ UNCHANGED <<serverVars, handling, toPlugin, probing, m_wsport, owner>>
          /\ accepted' \subseteq accepted
          /\ toCenter' = Append(toCenter, p)
      BY <1>16 DEF LostConnection, Disconnect, PSendMessage, selfVars
    <2>2. Genuine(p)
      BY <1>t DEF Genuine, Packet, PacketType
    <2> HIDE DEF p
    <2> QED
      BY <1>12, <1>t, <2>1, <2>2
  <1>17. CASE UnloadPlugin \/ LoadPlugin
    <2>1. /\ UNCHANGED <<serverVars, handling, toCenter>>
          /\ toPlugin' \in {toPlugin, <<>>}
          /\ accepted' \cup probing' \subseteq accepted \cup probing
          /\ m_wsport' \in {0, m_wsport}
          /\ owner' \in {owner, NoClient}
      BY <1>17 DEF UnloadPlugin, PluginGone, LoadPlugin, selfVars, pluginVars, deviceVars
    <2> QED
      BY <1>12, <1>t, <2>1
  <1>19. ASSUME NEW r \in Reqs, DownloadCrashes(r) PROVE RouteInv'
    <2>1. /\ UNCHANGED <<seqId, innerId, delivered>>
          /\ DOMAIN mapClient' = {}
          /\ session' = [c \in Clients |-> IF session[c] = "new" THEN "new" ELSE "closed"]
      BY <1>19 DEF DownloadCrashes, Without
    <2>2. /\ toPlugin' = <<>> /\ toCenter' = <<>> /\ m_wsport' = 0 /\ owner' = NoClient
          /\ handling' = {} /\ accepted' = {} /\ probing' = {}
      BY <1>19 DEF DownloadCrashes, PluginGone
    <2>3. NumbersInv' /\ TableInv' /\ DeliveredInv'
      BY <2>1 DEF RouteInv, NumbersInv, TableInv, DeliveredInv
    <2>4. PacketsInv'
      BY <2>2 DEF PacketsInv
    <2> QED
      BY <2>3, <2>4 DEF RouteInv
  <1>18. CASE UNCHANGED vars
    <2>1. UNCHANGED <<serverVars, handling, toPlugin, toCenter, accepted, probing, m_wsport, owner>>
      BY <1>18 DEF vars, selfVars, pluginVars, deviceVars
    <2> QED
      BY <1>12, <1>t, <2>1
  <1> QED
    BY <1>1, <1>2, <1>4, <1>5, <1>7, <1>8, <1>9, <1>10, <1>11, <1>13, <1>14, <1>15, <1>16,
       <1>17, <1>18, <1>19 DEF Next

\* The invariant holds in every behaviour.
THEOREM RouteInvariant == Spec => []RouteInv
  BY RouteInit, RouteStep, PTL DEF Spec

\* An answer that goes by the table reaches the session that asked, with the
\* id it used, for any number of sessions, requests and equal ids.
THEOREM AnswersRoutedHome == Spec => []RoutedHome
  <1>1. RouteInv => RoutedHome
    BY DEF RouteInv, DeliveredInv, RoutedHome
  <1> QED
    BY <1>1, RouteInvariant, PTL

\* No entry of the table outlives its session or its request's answer.
THEOREM TableNeverStale == Spec => []TableFresh
  <1>1. RouteInv => TableFresh
    BY DEF RouteInv, TableInv, DeliveredInv, TableFresh
  <1> QED
    BY <1>1, RouteInvariant, PTL

-----------------------------------------------------------------------------
Live(c) == session[c] \in {"open", "closing"}

\* p is the CloseWebSocket of session c.
IsClose(p, c) == p.req = NoReq /\ p.from = c

\* What a session c that is known to the plugin up to place i of its queue may
\* rely on: its own CloseWebSocket is still to come, and comes before that of
\* any later session with the same port.
Settled(c, i) ==
    /\ Live(c) \/ \E k \in 1..Len(toPlugin) : i < k /\ IsClose(toPlugin[k], c)
    /\ \A j \in 1..Len(toPlugin) :
           /\ i < j
           /\ toPlugin[j].req = NoReq
           /\ toPlugin[j].port = PortOf[c]
           /\ toPlugin[j].from # c
           => \E k \in 1..Len(toPlugin) : i < k /\ k < j /\ IsClose(toPlugin[k], c)

\* No two sessions have a port at the same time.
PortsInv == \A c, d \in Clients : Live(c) /\ Live(d) /\ PortOf[c] = PortOf[d] => c = d

\* Every session that asks something in the queue is settled from there on.
QueueInv ==
    \A i \in 1..Len(toPlugin) :
        /\ toPlugin[i].from \in Clients
        /\ toPlugin[i].port = PortOf[toPlugin[i].from]
        /\ toPlugin[i].req # NoReq => Settled(toPlugin[i].from, i)

\* And so is the session that has the device.
OwnerInv ==
    portOpen => owner \in Clients /\ m_wsport = PortOf[owner] /\ Settled(owner, 0)

CloseInv ==
    /\ PortsInv /\ QueueInv /\ OwnerInv
    /\ ~loaded => toPlugin = <<>> /\ ~portOpen

\* A packet at the end of the queue unsettles nobody, unless it is the
\* CloseWebSocket of another session with the port of a live one.
LEMMA SettledAppend ==
  ASSUME toPlugin \in Seq(PacketType), NEW p \in PacketType,
         toPlugin' = Append(toPlugin, p),
         NEW c \in Clients, NEW i \in Nat, i <= Len(toPlugin), Settled(c, i),
         IsClose(p, c) \/ (Live(c) => Live(c)'),
         p.req = NoReq /\ p.port = PortOf[c] /\ p.from # c => ~Live(c)
  PROVE  Settled(c, i)'
  <1> DEFINE n == Len(toPlugin)
  <1>1. n \in Nat
    OBVIOUS
  <1>2. /\ Len(toPlugin') = n + 1
        /\ \A k \in 1..n : toPlugin'[k] = toPlugin[k]
        /\ toPlugin'[n + 1] = p
    OBVIOUS
  <1> HIDE DEF n
  <1>3. \A k \in 1..n : k \in 1..(n + 1) /\ k < n + 1
    BY <1>1
  <1>4. n + 1 \in 1..(n + 1) /\ i < n + 1
    BY <1>1 DEF n
  <1>5. ASSUME NEW k \in 1..n, i < k, IsClose(toPlugin[k], c)
        PROVE  k \in 1..Len(toPlugin') /\ i < k /\ k < n + 1 /\ IsClose(toPlugin'[k], c)
    BY <1>2, <1>3, <1>5
  <1>6. Live(c)' \/ \E k \in 1..Len(toPlugin') : i < k /\ IsClose(toPlugin'[k], c)
    <2>1. CASE IsClose(p, c)
      BY <1>2, <1>4, <2>1
    <2>2. CASE Live(c) /\ Live(c)'
      BY <2>2
    <2>3. CASE ~Live(c)
      BY <1>5, <2>3 DEF Settled, n
    <2> QED
      BY <2>1, <2>2, <2>3
  <1>7. ASSUME NEW j \in 1..Len(toPlugin'), i < j, toPlugin'[j].req = NoReq,
               toPlugin'[j].port = PortOf[c], toPlugin'[j].from # c
        PROVE  \E k \in 1..Len(toPlugin') : i < k /\ k < j /\ IsClose(toPlugin'[k], c)
    <2>1. j \in 1..n \/ j = n + 1
      BY <1>1, <1>2
    <2>2. CASE j \in 1..n
      <3>1. PICK k \in 1..n : i < k /\ k < j /\ IsClose(toPlugin[k], c)
        BY <1>2, <1>7, <2>2 DEF Settled, n
      <3> QED
        BY <1>5, <3>1
    <2>3. CASE j = n + 1
      <3>1. ~Live(c)
        BY <1>2, <1>7, <2>3
      <3>2. PICK k \in 1..n : i < k /\ IsClose(toPlugin[k], c)
        BY <3>1 DEF Settled, n
      <3> QED
        BY <1>5, <2>3, <3>2
    <2> QED
      BY <2>1, <2>2, <2>3
  <1> QED
    BY <1>6, <1>7 DEF Settled, IsClose

\* With the first packet gone, every place moves up by one.
LEMMA SettledTail ==
  ASSUME toPlugin \in Seq(PacketType), toPlugin # <<>>, toPlugin' = Tail(toPlugin),
         NEW c \in Clients, NEW i \in Nat, Settled(c, i + 1), Live(c) => Live(c)'
  PROVE  Settled(c, i)'
  <1> DEFINE n == Len(toPlugin')
  <1>1. /\ n \in Nat /\ Len(toPlugin) = n + 1
        /\ \A k \in 1..n : toPlugin'[k] = toPlugin[k + 1]
    OBVIOUS
  <1> HIDE DEF n
  <1>2. ASSUME NEW k \in 1..Len(toPlugin), i + 1 < k, IsClose(toPlugin[k], c)
        PROVE  /\ k - 1 \in 1..n /\ i < k - 1 /\ IsClose(toPlugin'[k - 1], c)
               /\ \A j \in 1..n : k < j + 1 => k - 1 < j
    <2>1. k - 1 \in 1..n /\ i < k - 1 /\ (k - 1) + 1 = k
      BY <1>1, <1>2
    <2>2. toPlugin'[k - 1] = toPlugin[k]
      BY <1>1, <2>1
    <2>3. \A j \in 1..n : k < j + 1 => k - 1 < j
      BY <1>1, <2>1
    <2> QED
      BY <1>2, <2>1, <2>2, <2>3
  <1>3. Live(c)' \/ \E k \in 1..n : i < k /\ IsClose(toPlugin'[k], c)
    <2>1. CASE Live(c)
      BY <2>1
    <2>2. CASE ~Live(c)
      <3>1. PICK k \in 1..Len(toPlugin) : i + 1 < k /\ IsClose(toPlugin[k], c)
        BY <2>2 DEF Settled
      <3> QED
        BY <1>2, <3>1
    <2> QED
      BY <2>1, <2>2
  <1>4. ASSUME NEW j \in 1..n, i < j, toPlugin'[j].req = NoReq,
               toPlugin'[j].port = PortOf[c], toPlugin'[j].from # c
        PROVE  \E k \in 1..n : i < k /\ k < j /\ IsClose(toPlugin'[k], c)
    <2>1. j + 1 \in 1..Len(toPlugin) /\ i + 1 < j + 1 /\ toPlugin'[j] = toPlugin[j + 1]
      BY <1>1, <1>4
    <2>2. PICK k \in 1..Len(toPlugin) : i + 1 < k /\ k < j + 1 /\ IsClose(toPlugin[k], c)
      BY <1>4, <2>1 DEF Settled
    <2> QED
      BY <1>2, <2>2
  <1> QED
    BY <1>3, <1>4 DEF Settled, IsClose, n

\* The first packet tells a session that has the device nothing, unless it is
\* its own CloseWebSocket.
LEMMA SettledFirst ==
  ASSUME toPlugin \in Seq(PacketType), toPlugin # <<>>, NEW c \in Clients,
         Settled(c, 0), ~IsClose(toPlugin[1], c)
  PROVE  Settled(c, 1)
  <1>1. \A k \in 1..Len(toPlugin) : 0 < k /\ IsClose(toPlugin[k], c) => 1 < k
    OBVIOUS
  <1>2. \A j \in 1..Len(toPlugin) : 1 < j => 0 < j
    OBVIOUS
  <1> QED
    BY <1>1, <1>2 DEF Settled

\* Being settled is a matter of the sessions and the queue only.
LEMMA SettledSame ==
  ASSUME UNCHANGED toPlugin, NEW c, NEW i, Live(c) => Live(c)', Settled(c, i)
  PROVE  Settled(c, i)'
  BY DEF Settled, IsClose

\* The queue without its first packet.
LEMMA QueueTail ==
  ASSUME toPlugin \in Seq(PacketType), QueueInv, toPlugin # <<>>,
         toPlugin' = Tail(toPlugin), UNCHANGED session
  PROVE  QueueInv'
  <1> SUFFICES ASSUME NEW i \in 1..Len(toPlugin')
               PROVE  /\ toPlugin'[i].from \in Clients
                      /\ toPlugin'[i].port = PortOf[toPlugin'[i].from]
                      /\ (toPlugin[i].req # NoReq => Settled(toPlugin[i].from, i))'
    BY DEF QueueInv
  <1>1. i + 1 \in 1..Len(toPlugin) /\ toPlugin'[i] = toPlugin[i + 1] /\ i \in Nat
    OBVIOUS
  <1>2. PICK c \in Clients : c = toPlugin[i + 1].from
    BY <1>1 DEF QueueInv
  <1>3. toPlugin[i + 1].port = PortOf[c]
    BY <1>1, <1>2 DEF QueueInv
  <1>4. ASSUME toPlugin[i + 1].req # NoReq PROVE Settled(c, i)'
    <2>1. Settled(c, i + 1)
      BY <1>1, <1>2, <1>4 DEF QueueInv
    <2> QED
      BY <1>1, <2>1, SettledTail DEF Live
  <1>5. (toPlugin[i].req # NoReq => Settled(toPlugin[i].from, i))'
    BY <1>1, <1>2, <1>4 DEF Settled, IsClose, Live
  <1> QED
    BY <1>1, <1>2, <1>3, <1>5

\* The queue with a packet of session c at its end: a request of a live
\* session, or the CloseWebSocket of one that ends now.
LEMMA QueueAppend ==
  ASSUME toPlugin \in Seq(PacketType), QueueInv, NEW p \in PacketType,
         toPlugin' = Append(toPlugin, p), p.from \in Clients, p.port = PortOf[p.from],
         \A c \in Clients : IsClose(p, c) \/ (Live(c) => Live(c)'),
         \A c \in Clients :
             p.req = NoReq /\ p.port = PortOf[c] /\ p.from # c => ~Live(c),
         p.req # NoReq => Live(p.from)'
  PROVE  QueueInv'
  <1> SUFFICES ASSUME NEW i \in 1..Len(toPlugin')
               PROVE  /\ toPlugin'[i].from \in Clients
                      /\ toPlugin'[i].port = PortOf[toPlugin'[i].from]
                      /\ (toPlugin[i].req # NoReq => Settled(toPlugin[i].from, i))'
    BY DEF QueueInv
  <1>1. CASE i \in 1..Len(toPlugin)
    <2>1. toPlugin'[i] = toPlugin[i] /\ i \in Nat /\ i <= Len(toPlugin)
      BY <1>1
    <2>2. PICK c \in Clients : c = toPlugin[i].from
      BY <1>1 DEF QueueInv
    <2>3. toPlugin[i].port = PortOf[c]
      BY <1>1, <2>2 DEF QueueInv
    <2>4. ASSUME toPlugin[i].req # NoReq PROVE Settled(c, i)'
      <3>1. Settled(c, i)
        BY <1>1, <2>2, <2>4 DEF QueueInv
      <3> QED
        BY <2>1, <3>1, SettledAppend
    <2>5. (toPlugin[i].req # NoReq => Settled(toPlugin[i].from, i))'
      BY ONLY <2>1, <2>2, <2>4 DEF Settled, IsClose, Live
    <2> QED
      BY <2>1, <2>2, <2>3, <2>5
  <1>2. CASE i \notin 1..Len(toPlugin)
    <2>1. toPlugin'[i] = p /\ i = Len(toPlugin')
      BY <1>2
    <2>2. \A j \in 1..Len(toPlugin') : ~(i < j)
      BY <2>1
    <2>3. (toPlugin[i].req # NoReq => Settled(toPlugin[i].from, i))'
      BY <2>1, <2>2 DEF Settled, IsClose, Live
    <2> QED
      BY <2>1, <2>3
  <1> QED
    BY <1>1, <1>2

\* A step that leaves the queue, the sessions and the device alone, but for
\* closing the port, keeps the invariant.
LEMMA CloseQuiet ==
  ASSUME CloseInv, UNCHANGED <<session, toPlugin, m_wsport, owner, loaded>>,
         portOpen' => portOpen
  PROVE  CloseInv'
  <1>1. \A c : Live(c)' = Live(c)
    BY DEF Live
  <1>2. \A c, i : Settled(c, i) => Settled(c, i)'
    BY <1>1, SettledSame
  <1>3. PortsInv' /\ (~loaded' => toPlugin' = <<>> /\ ~portOpen')
    BY <1>1 DEF CloseInv, PortsInv
  <1>4. QueueInv'
    BY DEF CloseInv, QueueInv, Settled, IsClose, Live
  <1>5. OwnerInv'
    BY DEF CloseInv, OwnerInv, Settled, IsClose, Live
  <1> QED
    BY <1>3, <1>4, <1>5 DEF CloseInv

\* The slots of the plugin: one packet leaves the queue, and the port stays as
\* it was with its owner, is closed, or belongs to the session that asked.
LEMMA CloseReceive ==
  ASSUME RouteInv, CloseInv, NEW p, Receive(p),
         \/ ~portOpen'
         \/ UNCHANGED <<portOpen, m_wsport, owner>> /\ (p.req = NoReq => m_wsport # p.port)
         \/ p.req # NoReq /\ m_wsport' = p.port /\ owner' = p.from
  PROVE  CloseInv'
  <1>1. /\ toPlugin \in Seq(PacketType) /\ toPlugin # <<>> /\ toPlugin' = Tail(toPlugin)
        /\ p = toPlugin[1] /\ 1 \in 1..Len(toPlugin) /\ UNCHANGED <<session, loaded>> /\ loaded
    BY DEF RouteInv, PacketsInv, Receive, serverVars
  <1>2. \A c : Live(c)' = Live(c)
    BY <1>1 DEF Live
  <1>3. PortsInv' /\ QueueInv'
    BY <1>1, <1>2, QueueTail DEF CloseInv, PortsInv
  <1>4. p.from \in Clients /\ p.port = PortOf[p.from] /\ (p.req # NoReq => Settled(p.from, 1))
    BY <1>1 DEF CloseInv, QueueInv
  <1>5. ASSUME NEW c \in Clients, Settled(c, 1) PROVE Settled(c, 0)'
    <2>1. Settled(c, 0 + 1)
      BY <1>5
    <2> QED
      BY <1>1, <1>2, <2>1, SettledTail
  <1>6. OwnerInv'
    <2>1. CASE ~portOpen'
      BY <2>1 DEF OwnerInv
    <2>2. CASE portOpen' /\ UNCHANGED <<portOpen, m_wsport, owner>>
               /\ (p.req = NoReq => m_wsport # p.port)
      <3>1. PICK c \in Clients : c = owner /\ m_wsport = PortOf[c] /\ Settled(c, 0)
        BY <2>2 DEF CloseInv, OwnerInv
      <3>2. ~IsClose(toPlugin[1], c)
        BY <1>1, <1>4, <2>2, <3>1 DEF IsClose
      <3>3. Settled(c, 0)'
        BY <1>1, <1>5, <3>1, <3>2, SettledFirst
      <3> QED
        BY ONLY <2>2, <3>1, <3>3 DEF OwnerInv, Settled, IsClose, Live
    <2>3. CASE p.req # NoReq /\ m_wsport' = p.port /\ owner' = p.from
      <3>1. PICK c \in Clients : c = p.from /\ p.port = PortOf[c] /\ Settled(c, 1)
        BY <1>4, <2>3
      <3>2. Settled(c, 0)'
        BY <1>5, <3>1
      <3> QED
        BY ONLY <2>3, <3>1, <3>2 DEF OwnerInv, Settled, IsClose, Live
    <2> QED
      BY <2>1, <2>2, <2>3
  <1> QED
    BY <1>1, <1>3, <1>6 DEF CloseInv

\* onClientDisconnection_slot: the CloseWebSocket of the session goes to the
\* end of the queue, behind all the session has asked.
LEMMA CloseEnds ==
  ASSUME RouteInv, CloseInv, NEW c \in Clients, ClientClose(c)
  PROVE  CloseInv'
  <1>0. /\ toPlugin \in Seq(PacketType)
        /\ session \in [Clients -> {"new", "open", "closing", "closed"}]
    BY DEF RouteInv, PacketsInv, TableInv
  <1>1. /\ session[c] = "closing" /\ session' = [session EXCEPT ![c] = "closed"]
        /\ UNCHANGED <<loaded, portOpen, m_wsport, owner>>
    BY DEF ClientClose, ClientDisconnection, pluginVars, deviceVars
  <1>2. Live(c) /\ ~Live(c)' /\ \A d \in Clients \ {c} : Live(d)' = Live(d)
    BY <1>0, <1>1 DEF Live
  <1>3. PortsInv'
    BY <1>2 DEF CloseInv, PortsInv
  <1>4. CASE ~loaded
    <2>1. toPlugin' = <<>> /\ ~portOpen' /\ ~loaded'
      BY <1>1, <1>4 DEF ClientClose, CloseInv
    <2>2. QueueInv'
      BY <2>1 DEF QueueInv
    <2> QED
      BY <1>3, <2>1, <2>2 DEF CloseInv, OwnerInv
  <1>5. CASE loaded
    <2> DEFINE p == ClosePacket(c)
    <2>1. toPlugin' = Append(toPlugin, p)
      BY <1>5 DEF ClientClose
    <2>2. p \in PacketType /\ p.req = NoReq /\ p.from = c /\ p.port = PortOf[c]
      BY ServerAssumption DEF ClosePacket, Packet, PacketType
    <2> HIDE DEF p
    <2>3. \A d \in Clients : IsClose(p, d) \/ (Live(d) => Live(d)')
      BY <1>2, <2>2 DEF IsClose
    <2>4. \A d \in Clients : p.port = PortOf[d] /\ p.from # d => ~Live(d)
      BY <1>2, <2>2 DEF CloseInv, PortsInv
    <2>5. QueueInv'
      BY <1>0, <2>1, <2>2, <2>3, <2>4, QueueAppend DEF CloseInv
    <2>6. OwnerInv'
      <3>1. CASE ~portOpen
        BY <1>1, <3>1 DEF OwnerInv
      <3>2. CASE portOpen
        <4>1. PICK d \in Clients : d = owner /\ m_wsport = PortOf[d] /\ Settled(d, 0)
          BY <3>2 DEF CloseInv, OwnerInv
        <4>2. 0 \in Nat /\ 0 <= Len(toPlugin)
          BY <1>0
        <4>3. Settled(d, 0)'
          BY <1>0, <2>1, <2>2, <2>3, <2>4, <4>1, <4>2, SettledAppend
        <4> QED
          BY ONLY <1>1, <4>1, <4>3 DEF OwnerInv, Settled, IsClose, Live
      <3> QED
        BY <3>1, <3>2
    <2> QED
      BY <1>1, <1>3, <1>5, <2>5, <2>6 DEF CloseInv
  <1> QED
    BY <1>4, <1>5

\* A request of an open session goes to the end of the queue.
LEMMA CloseForward ==
  ASSUME RouteInv, CloseInv, NEW r \in Reqs, Forward(r)
  PROVE  CloseInv'
  <1>0. toPlugin \in Seq(PacketType)
    BY DEF RouteInv, PacketsInv
  <1>1. /\ session[ClientOf[r]] = "open" /\ UNCHANGED <<session, loaded, portOpen, m_wsport, owner>>
        /\ ClientMessage(r)
    BY DEF Forward, ClientMessage, pluginVars, deviceVars
  <1>2. (\A c : Live(c)' = Live(c)) /\ Live(ClientOf[r])
    BY <1>1 DEF Live
  <1>3. CASE ~loaded
    BY <1>1, <1>3, CloseQuiet DEF Forward
  <1>4. CASE loaded
    <2>1. PICK p : p = RequestPacket(r) /\ toPlugin' = Append(toPlugin, p)
      BY <1>4 DEF Forward
    <2>2. p \in PacketType
      BY <1>1, <2>1, MessageNumbers DEF Genuine, PacketType
    <2>3. p.req = r /\ p.from = ClientOf[r] /\ p.port = PortOf[ClientOf[r]]
      BY <2>1 DEF RequestPacket, Packet
    <2>4. ClientOf[r] \in Clients /\ r # NoReq
      BY ServerAssumption
    <2>5. QueueInv'
      <3>1. /\ p.from \in Clients /\ p.port = PortOf[p.from] /\ p.req # NoReq
            /\ \A c \in Clients : IsClose(p, c) \/ (Live(c) => Live(c)')
        BY <1>2, <2>3, <2>4
      <3>2. Live(p.from)'
        BY <1>2, <2>3
      <3> QED
        BY <1>0, <2>1, <2>2, <3>1, <3>2, QueueAppend DEF CloseInv
    <2>6. OwnerInv'
      <3>1. CASE ~portOpen
        BY <1>1, <3>1 DEF OwnerInv
      <3>2. CASE portOpen
        <4>1. PICK d \in Clients : d = owner /\ m_wsport = PortOf[d] /\ Settled(d, 0)
          BY <3>2 DEF CloseInv, OwnerInv
        <4>2. 0 \in Nat /\ 0 <= Len(toPlugin)
          BY <1>0
        <4>3. Settled(d, 0)'
          BY <1>0, <1>2, <2>1, <2>2, <2>3, <2>4, <4>1, <4>2, SettledAppend
        <4> QED
          BY ONLY <1>1, <4>1, <4>3 DEF OwnerInv, Settled, IsClose, Live
      <3> QED
        BY <3>1, <3>2
    <2>7. PortsInv'
      BY <1>2 DEF CloseInv, PortsInv
    <2> QED
      BY <1>1, <1>4, <2>5, <2>6, <2>7 DEF CloseInv
  <1> QED
    BY <1>3, <1>4

\* A session begins on a free port, or starts to close: no live session gets
\* a rival, and none stops being live.
LEMMA CloseConnection ==
  ASSUME RouteInv, CloseInv, NEW c \in Clients, Connection(c)
  PROVE  CloseInv'
  <1>0. session \in [Clients -> {"new", "open", "closing", "closed"}]
    BY DEF RouteInv, TableInv
  <1>1. UNCHANGED <<toPlugin, loaded, portOpen, m_wsport, owner>>
    BY DEF Connection, pluginVars, deviceVars
  <1>2. \A d \in Clients : Live(d) => Live(d)'
    BY <1>0 DEF Connection, NewConnection, BeginClose, Live
  <1>3. PortsInv'
    <2>1. CASE NewConnection(c)
      <3>1. /\ \A d \in Clients \ {c} : Live(d)' = Live(d)
            /\ \A d \in Clients : PortOf[d] = PortOf[c] => ~Live(d)
        BY <1>0, <2>1 DEF NewConnection, Live
      <3> QED
        BY <3>1 DEF CloseInv, PortsInv
    <2>2. CASE BeginClose(c)
      <3>1. \A d \in Clients : Live(d)' = Live(d)
        BY <1>0, <2>2 DEF BeginClose, Live
      <3> QED
        BY <3>1 DEF CloseInv, PortsInv
    <2> QED
      BY <2>1, <2>2 DEF Connection
  <1>4. ASSUME NEW d \in Clients, NEW i, Settled(d, i) PROVE Settled(d, i)'
    BY <1>1, <1>2, <1>4, SettledSame
  <1>5. QueueInv'
    <2> SUFFICES ASSUME NEW i \in 1..Len(toPlugin)
                 PROVE  /\ toPlugin[i].from \in Clients
                        /\ toPlugin[i].port = PortOf[toPlugin[i].from]
                        /\ (toPlugin[i].req # NoReq => Settled(toPlugin[i].from, i))'
      BY <1>1 DEF QueueInv
    <2>1. PICK d \in Clients : d = toPlugin[i].from
      BY DEF CloseInv, QueueInv
    <2>2. toPlugin[i].req # NoReq => Settled(d, i)'
      BY <1>4, <2>1 DEF CloseInv, QueueInv
    <2>3. (toPlugin[i].req # NoReq => Settled(toPlugin[i].from, i))'
      BY ONLY <1>1, <2>1, <2>2 DEF Settled, IsClose, Live
    <2> QED
      BY <2>1, <2>3 DEF CloseInv, QueueInv
  <1>6. OwnerInv'
    <2>1. CASE ~portOpen
      BY <1>1, <2>1 DEF OwnerInv
    <2>2. CASE portOpen
      <3>1. PICK d \in Clients : d = owner /\ m_wsport = PortOf[d] /\ Settled(d, 0)
        BY <2>2 DEF CloseInv, OwnerInv
      <3>2. Settled(d, 0)'
        BY <1>4, <3>1
      <3> QED
        BY ONLY <1>1, <3>1, <3>2 DEF OwnerInv, Settled, IsClose, Live
    <2> QED
      BY <2>1, <2>2
  <1> QED
    BY <1>1, <1>3, <1>5, <1>6 DEF CloseInv

\* Every step keeps the order of the CloseWebSockets.
LEMMA CloseStep == RouteInv /\ CloseInv /\ [Next]_vars => CloseInv'
  <1> SUFFICES ASSUME RouteInv, CloseInv, [Next]_vars PROVE CloseInv'
    OBVIOUS
  <1>1. ASSUME NEW r \in Reqs, Garbage(r) \/ AnswerHere(r) \/ AskNetwork(r) PROVE CloseInv'
    <2>1. UNCHANGED <<session, toPlugin, m_wsport, owner, loaded, portOpen>>
      BY <1>1 DEF Garbage, AnswerHere, AskNetwork, ClientMessage, pluginVars, deviceVars
    <2> QED
      BY <2>1, CloseQuiet
  <1>2. ASSUME NEW r \in Reqs, Forward(r) PROVE CloseInv'
    BY <1>2, CloseForward
  <1>3. ASSUME NEW c \in Clients, Connection(c) PROVE CloseInv'
    BY <1>3, CloseConnection
  <1>4. ASSUME NEW c \in Clients, ClientClose(c) PROVE CloseInv'
    BY <1>4, CloseEnds
  <1>5. ASSUME NEW id \in downloads, DownloadFinished(id) PROVE CloseInv'
    BY <1>5, CloseQuiet DEF DownloadFinished, pluginVars, deviceVars
  <1>6. CASE LatestVersion \/ ReceivePluginMessage
    BY <1>6, CloseQuiet DEF LatestVersion, ReceivePluginMessage, pluginVars, deviceVars
  <1>7. ASSUME NEW p, ReceiveCommand(p) PROVE CloseInv'
    <2>1. Receive(p) /\ p.req # NoReq /\ UNCHANGED <<portOpen, m_wsport, owner>>
      BY <1>7 DEF ReceiveCommand, Asks, deviceVars
    <2> QED
      BY <2>1, CloseReceive
  <1>8. ASSUME NEW p, ReceiveConnect(p) \/ ConnectFails(p) PROVE CloseInv'
    <2>1. Receive(p) /\ p.req # NoReq /\ m_wsport' = p.port /\ owner' = p.from
      BY <1>8 DEF ReceiveConnect, ConnectFails, Asks
    <2> QED
      BY <2>1, CloseReceive
  <1>9. ASSUME NEW p, ReceiveDisconnect(p) PROVE CloseInv'
    <2>1. Receive(p) /\ ~portOpen'
      BY <1>9, Zenon DEF ReceiveDisconnect, Disconnect
    <2> QED
      BY <2>1, CloseReceive
  <1>10. ASSUME NEW p, ReceiveClose(p) PROVE CloseInv'
    <2>1. CASE Bound(p)
      <3>1. Receive(p) /\ ~portOpen'
        BY <1>10, <2>1, Zenon DEF ReceiveClose, Disconnect
      <3> QED
        BY <3>1, CloseReceive
    <2>2. CASE ~Bound(p)
      <3>1. Receive(p) /\ UNCHANGED <<portOpen, m_wsport, owner>> /\ m_wsport # p.port
        BY <1>10, <2>2 DEF ReceiveClose, Bound, pluginVars, deviceVars
      <3> QED
        BY <3>1, CloseReceive
    <2> QED
      BY <2>1, <2>2
  <1>11. ASSUME NEW p \in probing, ConnectReturns(p) PROVE CloseInv'
    BY <1>11, CloseQuiet DEF ConnectReturns, serverVars
  <1>12. ASSUME NEW p \in accepted, AnswerCommand(p) PROVE CloseInv'
    BY <1>12, CloseQuiet DEF AnswerCommand, serverVars, deviceVars
  <1>13. CASE LostConnection
    <2>1. UNCHANGED <<session, toPlugin, m_wsport, owner, loaded>> /\ portOpen
      BY <1>13 DEF LostConnection, Disconnect, serverVars
    <2> QED
      BY <2>1, CloseQuiet
  <1>14. CASE UnloadPlugin
    <2>1. toPlugin' = <<>> /\ UNCHANGED session
      BY <1>14 DEF UnloadPlugin, PluginGone, serverVars
    <2>2. ~portOpen'
      BY <1>14, Zenon DEF UnloadPlugin, PluginGone
    <2>3. PortsInv' /\ QueueInv' /\ OwnerInv'
      BY <2>1, <2>2 DEF CloseInv, PortsInv, QueueInv, OwnerInv, Live
    <2> QED
      BY <2>1, <2>2, <2>3 DEF CloseInv
  <1>18. ASSUME NEW r \in Reqs, DownloadCrashes(r) PROVE CloseInv'
    <2>1. /\ toPlugin' = <<>>
          /\ session' = [c \in Clients |-> IF session[c] = "new" THEN "new" ELSE "closed"]
      BY <1>18 DEF DownloadCrashes, PluginGone
    <2>2. ~portOpen'
      BY <1>18, Zenon DEF DownloadCrashes, PluginGone
    <2>3. PortsInv' /\ QueueInv' /\ OwnerInv'
      BY <2>1, <2>2 DEF PortsInv, QueueInv, OwnerInv, Live
    <2> QED
      BY <2>1, <2>2, <2>3 DEF CloseInv
  <1>15. CASE LoadPlugin
    <2>1. toPlugin' = <<>> /\ ~portOpen' /\ UNCHANGED session
      BY <1>15 DEF LoadPlugin, serverVars, pluginVars, deviceVars, CloseInv
    <2>2. PortsInv' /\ QueueInv' /\ OwnerInv'
      BY <2>1 DEF CloseInv, PortsInv, QueueInv, OwnerInv, Live
    <2> QED
      BY <2>1, <2>2 DEF CloseInv
  <1>16. CASE UNCHANGED vars
    BY <1>16, CloseQuiet DEF vars, serverVars, pluginVars, deviceVars
  <1>17. CASE PluginReceives
    BY <1>7, <1>8, <1>9, <1>10, <1>17 DEF PluginReceives
  <1> QED
    BY <1>1, <1>2, <1>3, <1>4, <1>5, <1>6, <1>11, <1>12, <1>13, <1>14, <1>15, <1>16, <1>17,
       <1>18
    DEF Next

\* pDisconnectDobot(port) cannot take the device from the wrong session: a
\* CloseWebSocket that closes the serial port is that of the session the
\* device belongs to, although ports are used again and the notice of the end
\* is queued between two threads.
THEOREM OnlyOwnerCloses == Spec => ClosedByOwner
  <1>1. Init => CloseInv
    <2> SUFFICES ASSUME Init PROVE CloseInv
      OBVIOUS
    <2>1. toPlugin = <<>> /\ ~portOpen /\ \A c \in Clients : session[c] = "new"
      BY DEF Init, ServerInit
    <2> QED
      BY <2>1 DEF CloseInv, PortsInv, QueueInv, OwnerInv, Live
  <1>2. RouteInv /\ CloseInv /\ [Next]_vars =>
            [(/\ portOpen /\ ~portOpen'
              /\ toPlugin # <<>> /\ toPlugin' = Tail(toPlugin) /\ loaded'
              /\ Head(toPlugin).req = NoReq)
             => Head(toPlugin).from = owner]_vars
    <2> SUFFICES ASSUME RouteInv, CloseInv, Next, portOpen, ~portOpen', toPlugin # <<>>,
                        toPlugin' = Tail(toPlugin), loaded', Head(toPlugin).req = NoReq
                 PROVE  Head(toPlugin).from = owner
      OBVIOUS
    <2>1. toPlugin \in Seq(PacketType) /\ toPlugin' # toPlugin
      <3>1. toPlugin \in Seq(PacketType)
        BY DEF RouteInv, PacketsInv
      <3>2. Len(Tail(toPlugin)) # Len(toPlugin)
        BY <3>1
      <3> QED
        BY <3>1, <3>2
    <2>2. PICK p : ReceiveClose(p) /\ Bound(p)
      <3>1. ~LostConnection
        BY <2>1 DEF LostConnection
      <3>2. ~UnloadPlugin /\ \A r : ~DownloadCrashes(r)
        BY Zenon DEF UnloadPlugin, DownloadCrashes, PluginGone
      <3>3. ASSUME NEW r \in Reqs, Garbage(r) \/ AnswerHere(r) \/ Forward(r) \/ AskNetwork(r)
            PROVE  FALSE
        BY <3>3 DEF Garbage, AnswerHere, Forward, AskNetwork, pluginVars, deviceVars
      <3>4. ASSUME NEW c \in Clients, Connection(c) \/ ClientClose(c) PROVE FALSE
        BY <3>4 DEF Connection, ClientClose, pluginVars, deviceVars
      <3>5. ASSUME NEW id \in downloads, DownloadFinished(id) PROVE FALSE
        BY <3>5 DEF DownloadFinished, pluginVars, deviceVars
      <3>6. ~LatestVersion /\ ~ReceivePluginMessage /\ ~LoadPlugin
        BY DEF LatestVersion, ReceivePluginMessage, LoadPlugin, pluginVars, deviceVars
      <3>7. ASSUME NEW p \in probing, ConnectReturns(p) PROVE FALSE
        BY <3>7 DEF ConnectReturns
      <3>8. ASSUME NEW p \in accepted, AnswerCommand(p) PROVE FALSE
        BY <3>8 DEF AnswerCommand, deviceVars
      <3>9. PluginReceives
        BY <3>1, <3>2, <3>3, <3>4, <3>5, <3>6, <3>7, <3>8 DEF Next
      <3>10. PICK p : ReceiveCommand(p) \/ ReceiveConnect(p) \/ ConnectFails(p)
                      \/ ReceiveDisconnect(p) \/ ReceiveClose(p)
        BY <3>9 DEF PluginReceives
      <3>11. p.req = NoReq
        BY <3>10 DEF ReceiveCommand, ReceiveConnect, ConnectFails, ReceiveDisconnect,
           ReceiveClose, Receive
      <3>12. ReceiveClose(p)
        BY <3>10, <3>11 DEF ReceiveCommand, ReceiveConnect, ConnectFails,
           ReceiveDisconnect, Asks
      <3>13. Bound(p)
        BY <3>12 DEF ReceiveClose, pluginVars, deviceVars
      <3> QED
        BY <3>12, <3>13
    <2>3. p = toPlugin[1] /\ p = Head(toPlugin) /\ 1 \in 1..Len(toPlugin)
      BY <2>1, <2>2 DEF ReceiveClose, Receive
    <2>4. owner \in Clients /\ p.port = PortOf[owner] /\ Settled(owner, 0)
      BY <2>2 DEF Bound, CloseInv, OwnerInv
    <2>5. \A k \in 1..Len(toPlugin) : ~(0 < k /\ k < 1)
      BY <2>1
    <2>6. toPlugin[1].from = owner
      BY <2>3, <2>4, <2>5 DEF Settled
    <2> QED
      BY <2>3, <2>6
  <1>3. RouteInv /\ CloseInv /\ [Next]_vars => CloseInv'
    BY CloseStep
  <1> QED
    BY <1>1, <1>2, <1>3, RouteInvariant, PTL DEF Spec, ClosedByOwner
=============================================================================
