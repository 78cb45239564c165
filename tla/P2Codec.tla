------------------------------ MODULE P2Codec -------------------------------
(***************************************************************************)
(* P2Packet and the two codecs between the JSON commands of the clients    *)
(* and the params of the frames.  A call is encoded when it is made,       *)
(* answered by its device and decoded when the answer arrives.  The codecs *)
(* are singletons: all ports share DMagicianProtocol::m_Device, which a    *)
(* version request overwrites.  The devices are outside the repository:    *)
(* they give back what was set, echo or acknowledge a Set, and answer a    *)
(* queued Set with its index.                                              *)
(***************************************************************************)
EXTENDS MagicianCodec, M1Codec

CONSTANTS
    Types,     \* devices the clients use
    MaxCalls   \* calls in a behaviour

ASSUME TypesAssumption == 
    Types \subseteq {"Magician", "MagicianLite", "MagicBox", "M1", "VirtualLite"}
ASSUME MaxCallsAssumption == MaxCalls \in Nat \ {0}

VARIABLES
    calls,     \* the calls made so far
    m_Device,  \* DMagicianProtocol::m_Device
    memory     \* the last Set a device has carried out

vars == <<calls, m_Device, memory>>

Nothing == [cmd |-> "", hasParams |-> FALSE, values |-> {}]

Init ==
    /\ calls = <<>>
    /\ m_Device = ""
    /\ memory = [type |-> "", key |-> <<0, 0>>, params |-> <<>>]

-----------------------------------------------------------------------------
\* The commands of the virtual Magician Lite: the classes of cmd.cpp, each registered
\* under its id.  A row says how many bytes of its params a command uses in a write and in
\* a read, how many it answers each with, and whether a read gives back what the last write
\* left.  The limits the stored numbers are cut to are left out, and so are the classes
\* registered under the id 0, which no frame of DobotLink carries.

Command(id, takes, asks, gives, acks, holds) ==
    [id |-> id, takes |-> takes, asks |-> asks, gives |-> gives, acks |-> acks,
     holds |-> holds]
\* Params that are stored and given back whole.
Holds(id, n) == Command(id, n, 0, {n}, 0, TRUE)
\* The same for each of several ports, the first byte being the port.
HoldsPort(id, n) == Command(id, n, 1, {n}, 0, TRUE)
\* Something to be read only.
Gives(id, asks, gives) == Command(id, 0, asks, gives, 0, FALSE)
\* Something to be done, answered without params.
Acts(id, takes) == Command(id, takes, 0, {0}, 0, FALSE)

\* sizeof(gAlarmSysState)
Alarms == 16

\* The product name is a text with its final zero; Codec abstracts a text to 3 bytes.
PoseCommands ==
    {Command(7, 0, 0, {3}, 3, FALSE), Command(10, 0, 0, {32}, 32, FALSE)}

\* CheckPoseLimitCmd looks at the length of the whole frame, 17 for no frame of the
\* host's, and so never answers.
LimitAndAlarmCommands == {Acts(15, 0), Command(20, 0, 0, {Alarms}, 0, FALSE)}

\* HomeCmd answers with the msg_id of the request, read or write.
HomeCommands == {Holds(30, 16), Command(31, 0, 0, {8}, 8, FALSE)}

EffectorCommands == {Holds(60, 12), Holds(64, 1)}

\* A Get of the ratio names what it is the ratio of.
RatioCommands == {HoldsPort(66, 2)}

\* The state of the effector comes along for a suction cup and a gripper only.
StatusCommands == {Gives(68, 0, {1, 3}), Gives(69, 0, {32 + Alarms + 8})}

\* MUTANT of ParamCommands: the coordinate params are given per axis.
ParamCommandsWide == {Holds(70, 32), Holds(71, 32), Holds(80, 32), Holds(81, 32)}

ParamCommands == {Holds(70, 32), Holds(71, 32), Holds(80, 32), Holds(81, 16)}

MotionCommands ==
    {Holds(82, 8), Holds(83, 8), Acts(84, 17), Holds(72, 8), Acts(73, 2), Holds(172, 5)}

QueueCommands ==
    {Acts(240, 0), Acts(241, 0), Acts(242, 0), Acts(243, 8), Acts(244, 0), Acts(245, 0),
     Command(246, 0, 0, {8}, 8, FALSE), Command(247, 0, 0, {8}, 8, FALSE)}

SwitchCommands == {Holds(62, 2), Holds(63, 2), Acts(110, 4), Holds(170, 4), Acts(171, 0)}

PoseUpdateCommands ==
    {Acts(11, 9), Command(12, 0, 0, {8}, 8, FALSE), Acts(14, 0), Acts(32, 1),
     Holds(50, 1), Holds(51, 1)}

\* The common params scale the params they are read as.
PathCommands ==
    {Holds(90, 13), Holds(93, 1), Command(94, 8, 0, {13}, 0, FALSE), Holds(100, 16)}

ArcCommands ==
    {Acts(101, 32), Acts(102, 36), Command(103, 8, 0, {16}, 0, FALSE), Acts(120, 5)}

IOCommands ==
    {HoldsPort(131, 2), HoldsPort(132, 9), Command(133, 1, 1, {2}, 2, FALSE),
     Gives(134, 1, {3}), Command(139, 1, 3, {0, 5}, 0, FALSE)}

CalibrationCommands ==
    {Acts(140, 0), Acts(141, 0), Acts(145, 0), Command(146, 5, 1, {0, 5, 9}, 0, FALSE),
     Gives(147, 0, {64})}

TestCommands ==
    {Gives(215, 0, {16}), Command(221, 17, 16, {16}, 4, FALSE), Gives(224, 0, {16})}

EncoderCommands ==
    {Acts(225, 2), Gives(226, 1, {0, 1}), Command(228, 1, 0, {0}, 1, FALSE),
     Command(229, 3, 2, {0, 16}, 0, FALSE)}

\* DobotCmdManage::cmd_map_
CmdMap ==
    PoseCommands \cup LimitAndAlarmCommands \cup HomeCommands \cup EffectorCommands
    \cup RatioCommands \cup StatusCommands \cup ParamCommands \cup MotionCommands
    \cup QueueCommands \cup SwitchCommands \cup PoseUpdateCommands \cup PathCommands
    \cup ArcCommands \cup IOCommands \cup CalibrationCommands \cup TestCommands
    \cup EncoderCommands

FindCmd(id) == {c \in CmdMap : c.id = id}

-----------------------------------------------------------------------------
\* P2Packet::setPacket: the codec of a target type.
Requests(type) == IF type = "M1" THEN M1EncodeFuncMap ELSE EncodeFuncMap

\* The commands with a sub id in the first byte of their params.
HasSub(type, id) == type # "M1" /\ id \in {216, 217}

\* getSubID, decodeDobotSensor, decodeBoxFunc
SubId(type, id, params) == IF HasSub(type, id) /\ params # <<>> THEN params[1][4] ELSE 0

\* m_encodeFuncMap to m_decodeBoxFuncMap: the decoder of a reply, at most one.
DecoderOf(type, device, id, params) ==
    LET rows == CASE type = "M1" -> M1DecodeFuncMap
                  [] type # "M1" /\ id = 2 -> {DecodeDeviceVersion(device)}
                  [] type # "M1" /\ id = 216 -> DecodeDobotSensorFuncMap
                  [] type # "M1" /\ id = 217 -> DecodeBoxFuncMap
                  [] OTHER -> DecodeFuncMap
    IN {r \in rows : r.id = id /\ r.sub = SubId(type, id, params)}

\* decodeDobotSensor cuts the sub id off, decodeBoxFunc leaves it.
Body(type, id, params) ==
    IF type # "M1" /\ id = 216 /\ params # <<>> THEN Tail(params) ELSE params

\* MUTANT of ParseParams: the rw bit of the reply is read the wrong way round.
ParseParamsRwFlipped(type, device, id, rw, params) ==
    LET rows == DecoderOf(type, device, id, params)
    IN IF rows = {} THEN Nothing
       ELSE Decode(CHOOSE r \in rows : TRUE, 1 - rw, Body(type, id, params))

\* parseParams
ParseParams(type, device, id, rw, params) ==
    LET rows == DecoderOf(type, device, id, params)
    IN IF rows = {} THEN Nothing
       ELSE Decode(CHOOSE r \in rows : TRUE, rw, Body(type, id, params))

-----------------------------------------------------------------------------
\* The params an encoder has written when it returns early: too short arrays, or
\* a length or MD5 that is not hexadecimal of the right size.
Incomplete(r) ==
    CASE r.fields = Velocities -> {<<>>}
      [] r.fields # Velocities /\ r.id = 194 -> {<<>>, SubSeq(r.fields, 1, 1)}
      [] OTHER -> {}

\* Calls that share state: the same command id and sub id of the same codec.
Related(type, r) ==
    \A i \in DOMAIN calls :
        LET c == calls[i]
        IN /\ c.id = r.id /\ (c.type = "M1") = (type = "M1")
           /\ HasSub(type, r.id) => c.params[1] = CellsOf(r.fields[1], 0)[1]

IsVersion(type, id) == type # "M1" /\ id = 2

\* MUTANT of NewDevice: the device named first is kept.
NewDeviceOnce(type, id) == IF IsVersion(type, id) /\ m_Device = "" THEN type ELSE m_Device

\* encodeGetDeviceVersion: the client names the device it asks.
NewDevice(type, id) ==
    CASE ~IsVersion(type, id) -> m_Device
      [] IsVersion(type, id) /\ type = "VirtualLite" -> "MagicianLite"
      [] OTHER -> type

\* sendData: the call is encoded and listed.  SetJOGCmdTime waits for no reply: its
\* own frame is decoded in place of one.
Call(type, r, queued, fields) ==
    LET params == Encode(fields, Len(calls) + 1)
        own == r.cmd = "SetJOGCmdTime"
        before == [i \in DOMAIN calls |-> [calls[i] EXCEPT
                       !.overtaken = @ \/ (NewDevice(type, r.id) # m_Device /\ calls[i].stage # "done")]]
    IN /\ Len(calls) < MaxCalls
       /\ Related(type, r)
       /\ m_Device' = NewDevice(type, r.id)
       /\ calls' = Append(before,
            [type |-> type, cmd |-> r.cmd, id |-> r.id, rw |-> r.rw, queued |-> queued,
             params |-> params, stage |-> IF own THEN "done" ELSE "sent",
             reply |-> <<>>, fromMemory |-> FALSE, overtaken |-> FALSE,
             result |-> IF own THEN ParseParams(type, m_Device, r.id, r.rw, params)
                               ELSE Nothing])
       /\ UNCHANGED memory

\* The key of m_sendingPackets: the sub id counts for the sensor box only.
KeyOf(c) == <<c.id, IF c.id = 216 THEN SubId(c.type, c.id, c.params) ELSE 0>>

\* Bytes a branch of a decoder reads.
Extent(case) ==
    Max({case.min} \cup {Start(case.fields, i) + case.fields[i].width : i \in DOMAIN case.fields})

\* A device's replies to a Get of what was never set: one for every branch of the
\* decoder, as long as that branch reads.
OwnReplies(c) ==
    LET sub == IF HasSub(c.type, c.id) THEN <<c.params[1]>> ELSE <<>>
        cases == UNION {ToSet(r.cases) : r \in DecoderOf(c.type, c.type, c.id, c.params)}
    IN (IF cases = {} THEN {sub} ELSE {})
       \cup {sub \o [n \in 1..(Extent(case) - (IF c.id = 217 THEN 1 ELSE 0)) |->
                        <<FromDevice, "", "", n>>] :
                case \in {d \in cases : c.rw \in d.rws}}

IndexCells == Encode(U64(<<"queuedCmdIndex">>), IndexValue)

Place(c) == <<c.id, SubId(c.type, c.id, c.params)>>

\* The device still has what was set.  The virtual arm takes what it uses from
\* behind a request that is too short; that is nothing anyone set.
Known(c) ==
    /\ memory.type = c.type /\ memory.key = Place(c)
    /\ c.type = "VirtualLite" =>
           \A d \in FindCmd(c.id) : d.holds /\ Len(memory.params) >= d.takes

\* Bytes of the device's own.
OwnCells(n) == [i \in 1..n |-> <<FromDevice, "", "", i>>]

\* The virtual arm's answer is that of the command's class.
VirtualReplies(c) ==
    LET d == CHOOSE x \in FindCmd(c.id) : TRUE
    IN CASE c.rw = 1 -> {OwnCells(d.acks)}
         [] c.rw = 0 /\ Known(c) -> {SubSeq(memory.params, 1, d.takes)}
         [] OTHER -> {OwnCells(n) : n \in d.gives}

Replies(c) ==
    CASE c.queued -> {IndexCells}
      [] ~c.queued /\ c.type = "VirtualLite" -> VirtualReplies(c)
      [] ~c.queued /\ c.type # "VirtualLite" /\ c.rw = 1 -> {c.params, IF HasSub(c.type, c.id) THEN <<c.params[1]>> ELSE <<>>}
      [] ~c.queued /\ c.type # "VirtualLite" /\ c.rw = 0 /\ Known(c) -> {memory.params}
      [] OTHER -> OwnReplies(c)

\* The device carries a call out and answers it.  Calls with the same key are sent
\* one after the other.
DeviceAnswers(i) ==
    LET c == calls[i]
    IN /\ c.stage = "sent"
       /\ c.type = "VirtualLite" => FindCmd(c.id) # {}
       /\ \A j \in 1..(i - 1) :
              calls[j].type = c.type /\ KeyOf(calls[j]) = KeyOf(c) => calls[j].stage = "done"
       /\ \E reply \in Replies(c) :
              calls' = [calls EXCEPT ![i].stage = "answered", ![i].reply = reply,
                                     ![i].fromMemory = c.rw = 0 /\ Known(c)]
       /\ memory' = IF c.rw = 1 /\ ~c.queued
                    THEN [type |-> c.type, key |-> Place(c), params |-> c.params] ELSE memory
       /\ UNCHANGED m_Device

\* handleRawData and getMessage: rw is that of the reply, which is that of the
\* request.
HandleReply(i) ==
    LET c == calls[i]
    IN /\ c.stage = "answered"
       /\ calls' = [calls EXCEPT ![i].stage = "done",
                        ![i].result = ParseParams(c.type, m_Device, c.id, c.rw, c.reply)]
       /\ UNCHANGED <<m_Device, memory>>

\* The commands clients queue: those whose decoder knows of an index, and the circle.
MayQueue(type, r) ==
    /\ r.rw = 1
    /\ \/ \E d \in DecoderOf(type, type, r.id, <<>>) : QueueIndex \in ToSet(d.cases)
       \/ r.cmd = "SetCircleCmd"

Next ==
    \/ \E type \in Types : \E r \in Requests(type) :
          \E queued \in {FALSE, MayQueue(type, r)}, fields \in {r.fields} \cup Incomplete(r) :
              Call(type, r, queued, fields)
    \/ \E i \in DOMAIN calls : DeviceAnswers(i)
    \/ \E i \in DOMAIN calls : HandleReply(i)

Spec == Init /\ [][Next]_vars

-----------------------------------------------------------------------------
Done == {calls[i] : i \in {j \in DOMAIN calls : calls[j].stage = "done"}}

\* Commands whose reply goes by another name than the command, or by none.
Misnamed ==
    {"SetBaseDecoderStaticError", "GetBaseDecoderStaticError", "SetCPRHeadHoldEnable",
     "GetCPRHeadHoldEnable", "SetLostStepValue", "SetDeviceRestart", "SetDeviceRunAPP",
     "SetRunUpgrade", "SetStartTransmit", "SetUpgradeVeify", "QueuedCmdForceStop",
     "SensorUltrasonicInit", "SensorUltrasonicGet", "SensorColorInit", "SensorGetColor",
     "SensorXBeeClear", "GetServoPower"}

\* Whatever calls are under way on whichever devices, the message made of a reply
\* carries the name of the command it answers: the id, sub id and rw an encoder
\* writes lead back to that command in the decoders' maps.  Seventeen commands are
\* known not to.
NamedAsAsked == \A c \in Done : c.result.cmd = c.cmd \/ c.cmd \in Misnamed

\* The value of a key is all the bytes of one field of the same type, in order.
Whole(v) ==
    \/ v.type \in {"rest", "text"}
    \/ v.cells[1][1] = Constant
    \/ \A n \in DOMAIN v.cells : v.cells[n] = <<v.cells[1][1], v.cells[1][2], v.type, n>>

\* Keys that a Set and its Get call differently; decodePTPJumpParams of the M1 takes
\* isUsingZLimit from zLimit.
Renamed ==
    {<<"enable", "isEnabled">>, <<"on", "isOn">>, <<"value", "angle">>, <<"value", "level">>,
     <<"zLimit", "isUsingZLimit">>}
SameKey(v) ==
    \/ v.cells[1][2] = v.key
    \/ <<v.cells[1][2], v.key>> \in Renamed
    \/ v.cells[1][1] = Constant

\* What a Get answers is not what the Set of the same id wrote: a colour sensor's
\* reading, a coloured object.
Measured(c) == c.type # "M1" /\ c.id \in {137, 200}

\* What was set is read back: when a device returns the params it was last given
\* and the decoder accepts them, every value of the message is the value that was
\* set under that key, from no other field's bytes and from no other call's.
ReadBack ==
    \A c \in Done : c.fromMemory /\ ~Measured(c) =>
        \A v \in c.result.values : v.cells # <<>> => Whole(v) /\ SameKey(v)

\* decodeColorObj does not look at the length of its params.
Unguarded(c) == c.type # "M1" /\ c.id = 200

\* A decoder reads no byte behind the end of the reply.  Only the one of the version
\* relies on m_Device for it, and when another device's version is asked for before its
\* reply has come in, one value suffers and no more: the hardware version of a device
\* that is taken for a Magician, whose reply is longer.
ReadsInside ==
    \A c \in Done : ~Unguarded(c) =>
        \A v \in c.result.values : Outside \in ToSet(v.cells) =>
            c.overtaken /\ IsVersion(c.type, c.id) /\ c.type # "Magician" /\ v.key = "hwVersion"

\* Commands the codec makes no params of (effector state, real-time state, head hold,
\* common params, IIC, temperature), and the start of a download, whose two numbers
\* it sends as bytes where the arm takes two words.
Stubs == {68, 69, 93, 94, 103, 139, 215, 243}
\* SetJOGJointParams, SetJOGCoordinateParams or SetPTPJointParams with too short arrays.
TooShort(c) == c.id \in {70, 71, 80} /\ c.params = <<>>

\* The virtual arm and the codec agree on their layouts: a request carries all the
\* bytes the command's class uses, and what it answers to a Get is of a length the
\* decoder makes params of.
Understood ==
    \A c \in Done : c.type = "VirtualLite" /\ c.id \notin Stubs =>
        \A d \in FindCmd(c.id) :
            /\ Len(c.params) >= (IF c.rw = 1 THEN d.takes ELSE d.asks) \/ TooShort(c)
            /\ c.rw = 0 /\ c.reply # <<>> => c.result.hasParams
=============================================================================
