----------------------------- MODULE DProtocol3 -----------------------------
(***************************************************************************)
(* Protocol3 from the client's request to its answer: one DProtocol3 per   *)
(* device in the plugin's thread, the adapter and the DobotV3.0 stack they *)
(* all share in a thread of its own, and the devices.  The threads talk    *)
(* through queued signals, which keep their order: toAdapter and toPlugin. *)
(*                                                                         *)
(* A packet and its reply are named by the request's sequence number,      *)
(* which is its place in asked; the number itself wraps only after 2^32    *)
(* requests.  Frames arrive whole: a damaged one counts as lost (the bytes *)
(* are cut in MessageHandler, see RxFrame).  So does a reply of more than  *)
(* 255 bytes, whose length DecodeLinkPacket keeps in eight bits.           *)
(***************************************************************************)
EXTENDS P3Requests, P3Callbacks, FiniteSets

CONSTANTS
    Devices,      \* the devices, each with its DProtocol3
    Alone,        \* requests made as the only one of a behaviour
    Together,     \* sets of requests of which several are made
    Tuned,        \* requests in whose behaviours setCommPars is called
    MaxRequests,  \* so many
    PacketNum,    \* slots of the stack (100)
    RepeatNum,    \* sends of a packet (3)
    TimeOut,      \* ticks between two of them (400)
    NewRepeatNum, NewTimeOut,  \* what setCommPars changes the two to
    ClockMod,     \* the clock counts modulo this (2^32 ms)
    TicksPerExec  \* ticks of the 10 ms timer between two of the 5 ms timer

ASSUME RequestsAssumption == Alone \union UNION Together \subseteq Requests
ASSUME SizesAssumption == MaxRequests \in Nat /\ PacketNum \in Nat \ {0} /\ TicksPerExec \in Nat
ASSUME ParmsAssumption ==
    /\ RepeatNum \in Nat /\ NewRepeatNum \in Nat
    /\ \A t \in {TimeOut, NewTimeOut} : t \in Nat /\ t + TicksPerExec < ClockMod

VARIABLES
    order,         \* which of the Apis was constructed last
    started,       \* the adapter's thread runs
    connected,     \* the lambda that starts the timers is connected to started()
    timers,        \* the timers run
    load,          \* the requests of this behaviour
    asked,         \* the requests made, by sequence number
    idPortSeqMap,  \* m_idPortSeqMap of each device: the numbers in it
    calibrating,   \* m_seqNum of CameraCalibration while its program runs, or 0
    toAdapter,     \* events queued for the adapter's thread
    toPlugin,      \* events queued for the plugin's thread
    recviveBytes,  \* sm_recviveBytes
    slots,         \* pPacketParmList
    sendParm,      \* the stack's default for new packets
    timeCNT,       \* gProtocolFrame_TimeCNT
    sinceExec,     \* ticks since the last Exec
    air,           \* how many frames of a request are on their way to the device
    sends, tries,  \* how often it was written, and may be; not in the code
    replied, dropped,  \* requests a device has replied to, the stack has no room for
    ousted, misread,   \* requests whose slot another's reply has freed, and whose reply
                       \* the callback of another rule has read
    answers        \* what the client got

request == <<load, asked, calibrating>>
stack == <<slots, sendParm, timeCNT, sinceExec, recviveBytes>>
thread == <<order, started, connected, timers>>
ghosts == <<sends, tries, replied, dropped, ousted, misread>>
vars == <<thread, request, idPortSeqMap, toAdapter, toPlugin, stack, air, ghosts, answers>>

Numbers == 1..MaxRequests
ApiOf(s) == asked[s].api
PacketOf(s) == Packets[ApiOf(s)]
Free == [seq |-> 0, timeStart |-> 0, timeOut |-> 0, repeatNum |-> 0, ackMark |-> FALSE,
         sendMark |-> FALSE]

Init ==
    /\ order \in Orders
    /\ started = FALSE /\ connected = FALSE /\ timers = FALSE
    /\ load \in {{api} : api \in Alone} \union Together
    /\ asked = <<>>
    /\ idPortSeqMap = [d \in Devices |-> {}]
    /\ calibrating = 0
    /\ toAdapter = <<>> /\ toPlugin = <<>> /\ recviveBytes = <<>>
    /\ slots = [i \in 1..PacketNum |-> Free]
    /\ sendParm = <<RepeatNum, TimeOut>>
    /\ timeCNT = 0
    /\ sinceExec = 0
    /\ air = [s \in Numbers |-> 0]
    /\ sends = [s \in Numbers |-> 0] /\ tries = [s \in Numbers |-> 0]
    /\ replied = {} /\ dropped = {} /\ ousted = {} /\ misread = {}
    /\ answers = [s \in Numbers |-> <<>>]

Answer(ans, s, d, what) == [ans EXCEPT ![s] = Append(@, [device |-> d, what |-> what])]

-----------------------------------------------------------------------------
(***************************************************************************)
(* P3FrameAdapter::instance starts the thread and then connects to its     *)
(* started(): the signal may have gone by.                                 *)
(***************************************************************************)
ThreadStarts ==
    /\ ~started
    /\ started' = TRUE
    /\ timers' = connected
    /\ UNCHANGED <<order, connected, request, idPortSeqMap, toAdapter, toPlugin, stack, air,
                   ghosts, answers>>

ConnectStarted ==
    /\ ~connected
    /\ connected' = TRUE
    /\ UNCHANGED <<order, started, timers, request, idPortSeqMap, toAdapter, toPlugin, stack,
                   air, ghosts, answers>>

-----------------------------------------------------------------------------
(***************************************************************************)
(* The plugin's thread.                                                    *)
(***************************************************************************)
MayAsk(api) ==
    /\ connected
    /\ api \in load
    /\ Len(asked) < (IF load \in Together THEN MaxRequests ELSE 1)

\* A handler: notes the request under the next sm_seqNum and has the Api send it.
\* Only SetMoveSpeedTime takes isAck from the client.
SendData(d, api, isAck) ==
    LET s == Len(asked) + 1 IN
    /\ MayAsk(api) /\ api \in DOMAIN Packets
    /\ isAck \/ api = "SetMoveSpeedTime"
    /\ asked' = Append(asked, [api |-> api, device |-> d, isAck |-> isAck])
    /\ idPortSeqMap' = [idPortSeqMap EXCEPT ![d] = @ \union {s}]
    /\ toAdapter' = Append(toAdapter, [kind |-> "cmd", seq |-> s])
    /\ UNCHANGED <<thread, load, calibrating, toPlugin, stack, air, ghosts, answers>>

\* A name without a handler is answered with an error.
RefuseData(d, api) ==
    LET s == Len(asked) + 1 IN
    /\ MayAsk(api) /\ api \in Unknown
    /\ asked' = Append(asked, [api |-> api, device |-> d, isAck |-> TRUE])
    /\ answers' = Answer(answers, s, d, <<"unknown">>)
    /\ UNCHANGED <<thread, load, calibrating, idPortSeqMap, toAdapter, toPlugin, stack, air, ghosts>>

\* A name that ends in Port gets no answer at all.
IgnoreData(d, api) ==
    /\ MayAsk(api) /\ api \in Ignored
    /\ asked' = Append(asked, [api |-> api, device |-> d, isAck |-> TRUE])
    /\ UNCHANGED <<thread, load, calibrating, idPortSeqMap, toAdapter, toPlugin, stack, air, ghosts, answers>>

\* handleGetCameraCalibrationData, GOManualCalibration: without its lists nothing is
\* started.  A second calibration during the first is left out: its process replaces
\* the one that is read from.
Calibrate(d, hasLists) ==
    LET s == Len(asked) + 1 IN
    /\ MayAsk(Calibration) /\ calibrating = 0
    /\ asked' = Append(asked, [api |-> Calibration, device |-> d, isAck |-> TRUE])
    /\ idPortSeqMap' = [idPortSeqMap EXCEPT ![d] = @ \union {s}]
    /\ calibrating' = IF hasLists THEN s ELSE 0
    /\ UNCHANGED <<thread, load, toAdapter, toPlugin, stack, air, ghosts, answers>>

\* MUTANT of ReceiveData: the number stays in the map.
ReceiveDataKeeps(s, what, map, ans) ==
    [map |-> map,
     ans |-> IF \E d \in Devices : s \in map[d]
             THEN Answer(ans, s, CHOOSE d \in Devices : s \in map[d], what) ELSE ans]

\* receiveData_slot of every device: the one with the number in its map answers.
ReceiveData(s, what, map, ans) ==
    [map |-> [d \in Devices |-> map[d] \ {s}],
     ans |-> IF \E d \in Devices : s \in map[d]
             THEN Answer(ans, s, CHOOSE d \in Devices : s \in map[d], what) ELSE ans]

\* onProcessReadyRead_slot: once or several times, or never.
CalibrationOutput ==
    /\ calibrating # 0
    /\ LET r == ReceiveData(calibrating, <<"data">>, idPortSeqMap, answers)
       IN idPortSeqMap' = r.map /\ answers' = r.ans
    /\ UNCHANGED <<thread, request, toAdapter, toPlugin, stack, air, ghosts>>

CalibrationEnds ==
    /\ calibrating # 0
    /\ calibrating' = 0
    /\ UNCHANGED <<thread, load, asked, idPortSeqMap, toAdapter, toPlugin, stack, air, ghosts, answers>>

\* setCommPars of any one device changes what all of them use.
SetCommPars ==
    LET p == <<NewRepeatNum, NewTimeOut>> IN
    /\ connected /\ load \subseteq Tuned /\ sendParm # p
    /\ \A i \in DOMAIN toAdapter : toAdapter[i].kind # "parm"
    /\ toAdapter' = Append(toAdapter, [kind |-> "parm", seq |-> 0, parm |-> p])
    /\ UNCHANGED <<thread, request, idPortSeqMap, toPlugin, stack, air, ghosts, answers>>

\* The lambda on sendRawData_signal: the owner writes the frame to its device, and
\* answers a request that wants no reply.
WriteFrame ==
    /\ toPlugin # <<>> /\ Head(toPlugin).kind = "write"
    /\ LET s == Head(toPlugin).seq
           owned == \E d \in Devices : s \in idPortSeqMap[d]
           r == IF owned /\ ~asked[s].isAck
                THEN ReceiveData(s, True, idPortSeqMap, answers)
                ELSE [map |-> idPortSeqMap, ans |-> answers]
       IN /\ air' = IF owned THEN [air EXCEPT ![s] = @ + 1] ELSE air
          /\ sends' = IF owned THEN [sends EXCEPT ![s] = @ + 1] ELSE sends
          /\ idPortSeqMap' = r.map
          /\ answers' = r.ans
    /\ toPlugin' = Tail(toPlugin)
    /\ UNCHANGED <<thread, request, toAdapter, stack, tries, replied, dropped, ousted, misread>>

TakeAnswer ==
    /\ toPlugin # <<>> /\ Head(toPlugin).kind = "answer"
    /\ LET r == ReceiveData(Head(toPlugin).seq, Head(toPlugin).what, idPortSeqMap, answers)
       IN idPortSeqMap' = r.map /\ answers' = r.ans
    /\ toPlugin' = Tail(toPlugin)
    /\ UNCHANGED <<thread, request, toAdapter, stack, air, ghosts>>

-----------------------------------------------------------------------------
(***************************************************************************)
(* The line and the devices, outside the repository: a frame is replied to *)
(* or lost, on its way or back.  handleRawData passes the reply on.        *)
(***************************************************************************)
Reply(s) ==
    /\ air[s] > 0
    /\ air' = [air EXCEPT ![s] = @ - 1]
    /\ replied' = replied \union {s}
    /\ toAdapter' = Append(toAdapter, [kind |-> "raw", seq |-> s])
    /\ UNCHANGED <<thread, request, idPortSeqMap, toPlugin, stack, sends, tries, dropped,
                   ousted, misread, answers>>

Lose(s) ==
    /\ air[s] > 0
    /\ air' = [air EXCEPT ![s] = @ - 1]
    /\ UNCHANGED <<thread, request, idPortSeqMap, toAdapter, toPlugin, stack, ghosts, answers>>

-----------------------------------------------------------------------------
(***************************************************************************)
(* The adapter's thread.                                                   *)
(***************************************************************************)
\* PacketEncoder takes the payload's length in eight bits; head and CRC are 17 bytes,
\* a slot holds 256.
EncodedLength(p) == (p.len % 256) + 17
TooLong(p) == EncodedLength(p) > 256

\* sendCmd_slot, DobotV3_SendCmd: the first free slot.  With no free slot the packet
\* is forgotten; a packet too long to be written keeps the slot and is never sent.
SendCmd ==
    /\ started /\ toAdapter # <<>> /\ Head(toAdapter).kind = "cmd"
    /\ LET s == Head(toAdapter).seq
           frees == {i \in 1..PacketNum : slots[i].seq = 0}
           slot == [seq |-> s, repeatNum |-> sendParm[1], timeOut |-> sendParm[2],
                    timeStart |-> (timeCNT + ClockMod - sendParm[2]) % ClockMod,
                    ackMark |-> asked[s].isAck, sendMark |-> ~TooLong(PacketOf(s))]
       IN /\ slots' = IF frees = {} THEN slots ELSE [slots EXCEPT ![Min(frees)] = slot]
          /\ dropped' = IF frees = {} \/ TooLong(PacketOf(s)) THEN dropped \union {s} ELSE dropped
          /\ tries' = [tries EXCEPT ![s] = sendParm[1]]
    /\ toAdapter' = Tail(toAdapter)
    /\ UNCHANGED <<thread, request, idPortSeqMap, toPlugin, sendParm, timeCNT, sinceExec,
                   recviveBytes, air, sends, replied, ousted, misread, answers>>

\* addRawData_slot
AddRawData ==
    /\ started /\ toAdapter # <<>> /\ Head(toAdapter).kind = "raw"
    /\ recviveBytes' = Append(recviveBytes, Head(toAdapter).seq)
    /\ toAdapter' = Tail(toAdapter)
    /\ UNCHANGED <<thread, request, idPortSeqMap, toPlugin, slots, sendParm, timeCNT, sinceExec,
                   air, ghosts, answers>>

\* setComPars_slot: the slots in use keep what they have.
SetSendParm ==
    /\ started /\ toAdapter # <<>> /\ Head(toAdapter).kind = "parm"
    /\ sendParm' = Head(toAdapter).parm
    /\ toAdapter' = Tail(toAdapter)
    /\ UNCHANGED <<thread, request, idPortSeqMap, toPlugin, slots, timeCNT, sinceExec,
                   recviveBytes, air, ghosts, answers>>

\* cntTimeout_slot
TimeCNT ==
    /\ timers /\ sinceExec < TicksPerExec
    /\ timeCNT' = (timeCNT + 1) % ClockMod
    /\ sinceExec' = sinceExec + 1
    /\ UNCHANGED <<thread, request, idPortSeqMap, toAdapter, toPlugin, slots, sendParm,
                   recviveBytes, air, ghosts, answers>>

\* General_RulesMatch looks neither at the number nor at the command set, MGo_RulesMatch
\* not at the sender; a reply carries its request's number.
RulesMatch(s, reply) ==
    LET p == PacketOf(s)
        r == PacketOf(reply)
    IN /\ p.queue = r.queue /\ p.rw = r.rw /\ p.id = r.id
       /\ p.rule \notin {"General", "MGo"} => p.rule = r.rule
       /\ p.rule # "General" => s = reply

AnswerSignal(s, what) == [kind |-> "answer", seq |-> s, what |-> what]

\* The slots whose rule takes a reply.
Matching(slotList, reply) ==
    {i \in 1..PacketNum : slotList[i].sendMark /\ RulesMatch(slotList[i].seq, reply)}

\* DobotV3CmdInter_PacketCallBack: the first of them is freed, after the callback of its
\* rule has passed the reply on under the reply's number.
PacketCallBack(slotList, reply) ==
    LET matching == Matching(slotList, reply)
    IN IF matching = {} THEN slotList ELSE [slotList EXCEPT ![Min(matching)] = Free]

\* MUTANT of CallBackSignal: rwType is read the wrong way round.
CallBackSignalOther(slotList, reply) ==
    LET matching == Matching(slotList, reply)
        slot == slotList[Min(matching)]
        cb == CmdCallBack(order, PacketOf(slot.seq).rule, PacketOf(reply).id)
    IN IF matching = {} \/ cb = {} \/ ~slot.ackMark THEN <<>>
       ELSE LET c == CHOOSE c \in cb : TRUE
            IN <<AnswerSignal(reply, IF PacketOf(reply).rw = R THEN c.write ELSE c.read)>>

\* What the callback makes of the reply.
CallBackSignal(slotList, reply) ==
    LET matching == Matching(slotList, reply)
        slot == slotList[Min(matching)]
        cb == CmdCallBack(order, PacketOf(slot.seq).rule, PacketOf(reply).id)
    IN IF matching = {} \/ cb = {} \/ ~slot.ackMark THEN <<>>
       ELSE LET c == CHOOSE c \in cb : TRUE
            IN <<AnswerSignal(reply, IF PacketOf(reply).rw = W THEN c.write ELSE c.read)>>

\* MUTANT of IsTimeOut: the difference is not taken modulo the clock.
IsTimeOutNoWrap(slot) == timeCNT > slot.timeStart + slot.timeOut

\* The difference of two readings of a clock that wraps.
IsTimeOut(slot) == (timeCNT + ClockMod - slot.timeStart) % ClockMod > slot.timeOut

\* DobotV3CmdInter_Loop for one slot: nothing, sent again, or given up and answered.
Due(slot) == slot.sendMark /\ IsTimeOut(slot)

LoopSlot(slot) ==
    IF ~Due(slot) THEN slot
    ELSE IF slot.repeatNum = 0 \/ ~slot.ackMark THEN Free
    ELSE [slot EXCEPT !.repeatNum = @ - 1, !.timeStart = timeCNT]

LoopSignal(slot) ==
    IF ~Due(slot) THEN <<>>
    ELSE IF slot.repeatNum > 0 THEN <<[kind |-> "write", seq |-> slot.seq]>>
    ELSE LET cb == CmdCallBack(order, PacketOf(slot.seq).rule, PacketOf(slot.seq).id)
         IN IF cb = {} THEN <<>> ELSE <<AnswerSignal(slot.seq, (CHOOSE c \in cb : TRUE).timeout)>>

\* The slot a reply frees that is not its request's own, for the history.
WrongSlot(slotList, reply) ==
    {slotList[i] : i \in {j \in Matching(slotList, reply) :
                             /\ j = Min(Matching(slotList, reply))
                             /\ slotList[j].seq # reply}}

\* execTimeout_slot: every frame received, then every slot.
Exec ==
    /\ timers
    /\ LET after[n \in 0..Len(recviveBytes)] ==
               IF n = 0 THEN slots ELSE PacketCallBack(after[n - 1], recviveBytes[n])
           decoded == after[Len(recviveBytes)]
       IN /\ slots' = [i \in 1..PacketNum |-> LoopSlot(decoded[i])]
          /\ toPlugin' = toPlugin
                 \o FlattenSeq([n \in DOMAIN recviveBytes |-> CallBackSignal(after[n - 1], recviveBytes[n])])
                 \o FlattenSeq([i \in 1..PacketNum |-> LoopSignal(decoded[i])])
          /\ ousted' = ousted \union
                 {slot.seq : slot \in UNION {WrongSlot(after[n - 1], recviveBytes[n]) :
                                               n \in DOMAIN recviveBytes}}
          /\ misread' = misread \union
                 {recviveBytes[n] : n \in {m \in DOMAIN recviveBytes :
                     \E slot \in WrongSlot(after[m - 1], recviveBytes[m]) :
                         PacketOf(slot.seq).rule # PacketOf(recviveBytes[m]).rule}}
    /\ recviveBytes' = <<>>
    /\ sinceExec' = 0
    /\ UNCHANGED <<thread, request, idPortSeqMap, toAdapter, sendParm, timeCNT, air, sends, tries,
                   replied, dropped, answers>>

-----------------------------------------------------------------------------
\* What the event loops of the two threads do next.
PluginEvent == WriteFrame \/ TakeAnswer
AdapterEvent == SendCmd \/ AddRawData \/ SetSendParm

Next ==
    \/ ThreadStarts \/ ConnectStarted
    \/ \E d \in Devices :
          \/ \E api \in load, isAck \in BOOLEAN : SendData(d, api, isAck)
          \/ \E api \in load : RefuseData(d, api) \/ IgnoreData(d, api)
          \/ \E hasLists \in BOOLEAN : Calibrate(d, hasLists)
    \/ CalibrationOutput \/ CalibrationEnds
    \/ SetCommPars
    \/ PluginEvent
    \/ \E s \in Numbers : Reply(s) \/ Lose(s)
    \/ AdapterEvent
    \/ TimeCNT \/ Exec

\* Both threads run, take the next event of their queue and fire their timers; devices
\* and line owe nothing.  Only Exec sets sinceExec to zero and a tick enables it, so the
\* last conjunct is the weak fairness of Exec.
Fairness ==
    /\ WF_vars(ThreadStarts) /\ WF_vars(ConnectStarted)
    /\ WF_vars(PluginEvent) /\ WF_vars(AdapterEvent)
    /\ WF_vars(TimeCNT) /\ []<>(sinceExec = 0)

Spec == Init /\ [][Next]_vars /\ Fairness

-----------------------------------------------------------------------------
Asked == DOMAIN asked
Sum(sizes) == FoldSeq(LAMBDA n, m : n + m, 0, sizes)

\* The requests whose text the Api copies from the address of its pointer.
PointerCopied == {"SetDeviceSN", "SetDeviceName", "SetMagicBoxScriptMode"}

\* Every parameter a handler reads is copied into the packet, and the payload is long
\* enough for the sub id and all of them: the device gets what the client gave.  Of three
\* requests it gets other bytes, as many.
PayloadWhole ==
    \A s \in Asked : ApiOf(s) \in DOMAIN Packets =>
        LET p == PacketOf(s)
        IN /\ Len(p.args) = Len(Handlers[ApiOf(s)])
           /\ p.sub + Sum(p.args) <= p.len
           /\ ApiOf(s) \in PointerCopied \/ p.stray = {}

\* A request is answered at most once and to the client of the device it was made of.  A
\* timeout is reported only when the packet was sent as often as it may be, and anything
\* else only when the device has replied, unless no reply was wanted or
\* SetMoveSpeedTime_CB took the timeout for a success.
AnswersHonest ==
    \A s \in Asked :
        /\ Len(answers[s]) <= 1
        /\ \A i \in DOMAIN answers[s] :
              LET a == answers[s][i] IN
              /\ a.device = asked[s].device
              /\ a.what = TimedOut => sends[s] = tries[s]
              /\ a.what # TimedOut /\ ApiOf(s) \in DOMAIN Packets =>
                    \/ s \in replied
                    \/ ~asked[s].isAck /\ sends[s] > 0
                    \/ ApiOf(s) = "SetMoveSpeedTime" /\ sends[s] = tries[s]

\* The commands whose id and rule two requests share with one callback between them.
Contested == {"SetSpeedometer", "SetStopPointServer", "SetStopPointParam", "GetStopPointState",
              "SetTraceLoop", "SetMagicBoxScriptMode"}

\* The answer is of the request's own kind: the index of a queued command, "true" for
\* another write, for a read the values its own callback gives; also when two requests of
\* one command wait and the reply to one takes the other's slot.  Only a reply that took
\* the slot of a General request, whose rule does not look at the command set, may have
\* been read by a stranger's callback.
AnswerFits ==
    \A s \in Asked \ misread : ApiOf(s) \in DOMAIN Packets \ Contested =>
        \A i \in DOMAIN answers[s] :
            LET p == PacketOf(s)
                what == answers[s][i].what
            IN \/ what = TimedOut
               \/ p.queue = Queued /\ what = <<"index">>
               \/ p.queue = Direct /\ p.rw = W /\ what = True
               \/ p.queue = Direct /\ p.rw = R /\ what # True
                  /\ \E c \in CmdCallBack(order, p.rule, p.id) : what = c.read

Owed(s) == s \in Asked /\ ApiOf(s) \notin Ignored \union {Calibration}

\* Whatever the line does and wherever the clock stands, a request the stack has taken is
\* answered, if the adapter's timers run and no other request's reply takes its slot.
\* Names nobody handles and the calibration, whose program may fail, are exempt.
EventuallyAnswered ==
    \A s \in Numbers :
        Owed(s) ~> (answers[s] # <<>> \/ s \in dropped \union ousted \/ (started /\ ~timers))
=============================================================================
