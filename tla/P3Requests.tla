----------------------------- MODULE P3Requests -----------------------------
(***************************************************************************)
(* The requests a client can make of a Protocol3 device: the parameters a  *)
(* handler of DProtocol3 takes out of the JSON, and the packet the Api     *)
(* method it calls hands to the protocol stack.  A packet is known by its  *)
(* rule (command set and receiver), cmdId, rwType and queueType; of its    *)
(* payload the length and the size of each argument copied into it remain, *)
(* in the order of the parameters, whether a constant sub id leads, and    *)
(* which of the arguments are bytes of a pointer instead of its text's.    *)
(***************************************************************************)
EXTENDS Naturals, Sequences, TLC

\* Bytes of the name of a script, of which there may be more than a packet holds.
CONSTANT NameLen
ASSUME NameLenAssumption == NameLen \in Nat

W == 1
R == 0
Queued == 1
Direct == 0

Packet(rule, id, rw, queue, len, args) ==
    [rule |-> rule, id |-> id, rw |-> rw, queue |-> queue, len |-> len, args |-> args,
     sub |-> 0, stray |-> {}]
Go(id, rw, queue, len, args) == Packet("MGo", id, rw, queue, len, args)
Box(id, rw, queue, len, args) == Packet("MBox", id, rw, queue, len, args)
General(id, rw, queue, len, args) == Packet("General", id, rw, queue, len, args)
Arm(id, rw, queue, len, args) == Packet("K210Arm", id, rw, queue, len, args)
Car(id, rw, queue, len, args) == Packet("K210Car", id, rw, queue, len, args)
\* The payload starts with a sub id.
Sub(packet) == [packet EXCEPT !.sub = 1]
\* memcpy(.., &pointer, ..): argument n is whatever lies where the pointer does.
Stray(packet, n) == [packet EXCEPT !.stray = {n}]

-----------------------------------------------------------------------------
\* Handlers of handleGeneralCommand: the parameters each reads.
GeneralHandlers ==
    "HeartBeat" :> <<>> @@
    "SetDeviceSN" :> <<"deviceSN">> @@
    "GetDeviceSN" :> <<>> @@
    "SetDeviceName" :> <<"deviceName">> @@
    "GetDeviceName" :> <<>> @@
    "GetDeviceFwSoftwareVersion" :> <<>> @@
    "GetDeviceFwHardwareVersion" :> <<>> @@
    "GetDeviceTime" :> <<>> @@
    "GetDeviceID" :> <<>> @@
    "GetProductName" :> <<>> @@
    "DeviceReboot" :> <<>>

\* Handlers of handleMagicianGoCommand: modes and moves.
BaseHandlers ==
    "SetRunningState" :> <<"runningState">> @@
    "GetRunningState" :> <<>> @@
    "SetRunningMode" :> <<"runningMode">> @@
    "GetRunningMode" :> <<>> @@
    "SetBaseMode" :> <<"baseMode">> @@
    "SetBaseSpeedRatio" :> <<"speedRatio">> @@
    "GetBaseSpeedRatio" :> <<>> @@
    "SetMoveSpeed" :> <<"x", "y", "r">> @@
    "GetMoveSpeed" :> <<>> @@
    "SetRotate" :> <<"r", "Vr">> @@
    "SetMoveDist" :> <<"x", "y", "Vx", "Vy">> @@
    "SetMovePos" :> <<"x", "y", "s">> @@
    "SetArcRad" :> <<"velocity", "radius", "angle", "mode">> @@
    "SetArcCent" :> <<"velocity", "x", "y", "angle", "mode">>

\* Lights, sound, sensors, alarms.
EquipmentHandlers ==
    "SetLightRGB" :> <<"number", "effect", "r", "g", "b", "cycle", "counts">> @@
    "SetLightPrompt" :> <<"index">> @@
    "SetTraceLoop" :> <<"enable">> @@
    "SetBuzzerSound" :> <<"index", "tone", "beat">> @@
    "SetOriginPoint" :> <<"enable">> @@
    "GetUltrasoundData" :> <<>> @@
    "GetSwitchState" :> <<>> @@
    "SetSpeedometer" :> <<"x", "y", "yaw">> @@
    "GetSpeedometer" :> <<>> @@
    "GetStallProtection" :> <<>> @@
    "GetOffGround" :> <<>> @@
    "GetBatteryVoltage" :> <<>> @@
    "GetImuAngle" :> <<>> @@
    "GetAlarmInfo" :> <<>> @@
    "CleanAlarmInfo" :> <<>>

\* Line tracing and the command queue.
TraceHandlers ==
    "SetTraceAuto" :> <<"isTrace">> @@
    "SetTraceLineInfo" :> <<"lineInfo">> @@
    "SetTraceSpeed" :> <<"speed">> @@
    "SetLineSensorState" :> <<"frontIsEnable", "backIsEnable">> @@
    "GetLineSensorState" :> <<>> @@
    "SetLineSensorAdjust" :> <<"deviceNum">> @@
    "SetLineSensorDefault" :> <<"deviceNum">> @@
    "GetLineSensorData" :> <<>> @@
    "SetCmdQueueStart" :> <<>> @@
    "SetCmdQueueStop" :> <<>> @@
    "SetCmdQueueForcelyStop" :> <<>> @@
    "CleanCmdQueue" :> <<>> @@
    "GetQueuedCmdCurrentIndex" :> <<>> @@
    "GetCmdQueueAvailableSpace" :> <<>>

\* Handlers of handleCameraCommand.
CameraHandlers ==
    "GetArmCameraAngle" :> <<>> @@
    "GetArmCameraColor" :> <<>> @@
    "GetArmCameraObj" :> <<>> @@
    "GetArmCameraTag" :> <<>> @@
    "SetArmCameraCalibrationMode" :> <<"isEnableCali">> @@
    "GetArmCameraCalibrationMode" :> <<>> @@
    "GetCarCameraAngle" :> <<>> @@
    "GetCarCameraColor" :> <<>> @@
    "GetCarCameraObj" :> <<>> @@
    "GetCarCameraTag" :> <<>> @@
    "SetCarCameraCalibrationMode" :> <<"isEnableCali">> @@
    "GetCarCameraCalibrationMode" :> <<>> @@
    "GetCameraCalibrationData" :> <<"april_list", "device_list">> @@
    "SetCarCameraRunModel" :> <<"runModelIndex">> @@
    "SetArmCameraRunModel" :> <<"runModelIndex">> @@
    "GetCarCameraRunModel" :> <<>> @@
    "GetArmCameraRunModel" :> <<>>

\* handleSetMoveSpeedTime, which also reads isAck.
MoveTimeHandlers ==
    "SetMoveSpeedTime" :> <<"time", "x", "y", "r">>

\* Handlers of handleMagicBoxCommand.
MagicBoxHandlers ==
    "GetMagicBoxMode" :> <<>> @@
    "GetMagicBoxNum" :> <<>> @@
    "SetMagicBoxScriptMode" :> <<"isEnable", "name">>

\* More handlers of handleMagicianGoCommand.
LateHandlers ==
    "SetCoordClosedLoop" :> <<"isEnable", "angle">> @@
    "SetIncrementClosedLoop" :> <<"x", "y", "angle">> @@
    "GetImuSpeed" :> <<>> @@
    "SetTracePid" :> <<"p", "i", "d">> @@
    "SetMoveSpeedDirect" :> <<"dir", "speed">> @@
    "SetStopPointServer" :> <<"PointX", "PointY">> @@
    "SetStopPointParam" :> <<"scopeErr", "stopErr">> @@
    "GetStopPointState" :> <<>> @@
    "GetImgToArmXY" :> <<"imgX", "imgY", "need_tranxy", "suck_apriltag">>

-----------------------------------------------------------------------------
\* GeneralApi: serial number, name, versions.
GeneralDevice ==
    "HeartBeat" :> General(0, W, Direct, 0, <<>>) @@
    "SetDeviceSN" :> Stray(General(10, W, Direct, 64, <<64>>), 1) @@
    "GetDeviceSN" :> General(10, R, Direct, 0, <<>>) @@
    "SetDeviceName" :> Stray(General(11, W, Direct, 64, <<64>>), 1) @@
    "GetDeviceName" :> General(11, R, Direct, 0, <<>>) @@
    "GetDeviceFwSoftwareVersion" :> General(12, R, Direct, 0, <<>>) @@
    "GetDeviceFwHardwareVersion" :> General(13, R, Direct, 0, <<>>)

\* GeneralApi: clock, id, product, reboot.
GeneralTime ==
    "GetDeviceTime" :> General(14, R, Direct, 0, <<>>) @@
    "GetDeviceID" :> General(15, R, Direct, 0, <<>>) @@
    "GetProductName" :> General(17, R, Direct, 0, <<>>) @@
    "DeviceReboot" :> General(20, W, Direct, 0, <<>>)

\* MagicianGoApi: running state, mode, speed ratio.
GoModes ==
    "SetRunningState" :> Go(0, W, Direct, 1, <<1>>) @@
    "GetRunningState" :> Go(0, R, Direct, 0, <<>>) @@
    "SetRunningMode" :> Go(1, W, Direct, 1, <<1>>) @@
    "GetRunningMode" :> Go(1, R, Direct, 0, <<>>) @@
    "SetBaseMode" :> Go(3, W, Direct, 1, <<1>>) @@
    "SetBaseSpeedRatio" :> Go(4, W, Direct, 1, <<1>>) @@
    "GetBaseSpeedRatio" :> Go(4, R, Direct, 0, <<>>)

\* MUTANT of GoMoves: SetMoveDist sends as much as SetMovePos.
GoMovesShort == "SetMoveDist" :> Go(12, W, Queued, 12, <<4, 4, 4, 4>>)

\* MagicianGoApi: moves by speed, angle and distance.
GoMoves ==
    "SetMoveSpeedTime" :> Go(8, W, Direct, 16, <<4, 4, 4, 4>>) @@
    "SetMoveSpeedDirect" :> Go(9, W, Direct, 16, <<4, 4>>) @@
    "SetMoveSpeed" :> Go(10, W, Direct, 12, <<4, 4, 4>>) @@
    "GetMoveSpeed" :> Go(10, R, Direct, 0, <<>>) @@
    "SetRotate" :> Go(11, W, Queued, 8, <<4, 4>>) @@
    "SetMoveDist" :> Go(12, W, Queued, 16, <<4, 4, 4, 4>>)

\* MagicianGoApi: positions, arcs, closed loops, the first light.
GoArcs ==
    "SetMovePos" :> Go(13, W, Queued, 12, <<4, 4, 4>>) @@
    "SetArcRad" :> Go(15, W, Queued, 16, <<4, 4, 4, 4>>) @@
    "SetArcCent" :> Go(16, W, Queued, 20, <<4, 4, 4, 4, 4>>) @@
    "SetCoordClosedLoop" :> Go(17, W, Direct, 5, <<1, 4>>) @@
    "SetIncrementClosedLoop" :> Go(18, W, Queued, 12, <<4, 4, 4>>) @@
    "SetLightRGB" :> Go(20, W, Direct, 14, <<2, 1, 1, 1, 1, 4, 4>>)

\* MagicianGoApi: light, buzzer, origin, distances.
GoLights ==
    "SetLightPrompt" :> Go(21, W, Direct, 1, <<1>>) @@
    "SetBuzzerSound" :> Go(25, W, Direct, 6, <<1, 1, 4>>) @@
    "SetOriginPoint" :> Go(26, W, Direct, 1, <<1>>) @@
    "GetUltrasoundData" :> Go(30, R, Direct, 0, <<>>) @@
    "GetSwitchState" :> Go(31, R, Direct, 0, <<>>) @@
    "SetSpeedometer" :> Go(33, W, Direct, 12, <<4, 4, 4>>)

\* MagicianGoApi: odometer, battery, inertial unit, alarms.
GoSensors ==
    "GetSpeedometer" :> Go(33, R, Direct, 0, <<>>) @@
    "GetStallProtection" :> Go(34, R, Direct, 0, <<>>) @@
    "GetOffGround" :> Go(35, R, Direct, 0, <<>>) @@
    "GetBatteryVoltage" :> Go(36, R, Direct, 0, <<>>) @@
    "GetImuAngle" :> Go(37, R, Direct, 0, <<>>) @@
    "GetImuSpeed" :> Go(38, R, Direct, 0, <<>>) @@
    "GetAlarmInfo" :> Go(40, R, Direct, 0, <<>>)

\* MagicianGoApi: line tracing.
GoTrace ==
    "CleanAlarmInfo" :> Go(40, W, Direct, 0, <<>>) @@
    "SetTraceAuto" :> Go(50, W, Direct, 1, <<1>>) @@
    "SetTraceLineInfo" :> Go(51, W, Direct, 1, <<1>>) @@
    "SetTraceSpeed" :> Go(52, W, Direct, 4, <<4>>) @@
    "SetTraceLoop" :> Sub(Box(217, W, Direct, 2, <<1>>)) @@
    "SetLineSensorState" :> Go(53, W, Direct, 2, <<1, 1>>)

\* MagicianGoApi: line sensors, the start of the queue.
GoLineSensors ==
    "GetLineSensorState" :> Go(53, R, Direct, 0, <<>>) @@
    "SetLineSensorAdjust" :> Go(54, W, Direct, 1, <<1>>) @@
    "SetLineSensorDefault" :> Go(55, W, Direct, 1, <<1>>) @@
    "GetLineSensorData" :> Go(56, R, Direct, 0, <<>>) @@
    "SetTracePid" :> Go(57, W, Direct, 12, <<4, 4, 4>>) @@
    "SetCmdQueueStart" :> Go(240, W, Direct, 0, <<>>)

\* MagicianGoApi: the command queue.
GoQueue ==
    "SetCmdQueueStop" :> Go(241, W, Direct, 0, <<>>) @@
    "SetCmdQueueForcelyStop" :> Go(242, W, Direct, 0, <<>>) @@
    "CleanCmdQueue" :> Go(245, W, Direct, 0, <<>>) @@
    "GetQueuedCmdCurrentIndex" :> Go(246, R, Direct, 0, <<>>) @@
    "GetCmdQueueAvailableSpace" :> Go(247, R, Direct, 0, <<>>) @@
    "GetImgToArmXY" :> Sub(Go(217, R, Direct, 11, <<4, 4, 1, 1>>))

\* CameraApi: the camera of the arm.
ArmCamera ==
    "GetArmCameraAngle" :> Arm(10, R, Direct, 0, <<>>) @@
    "GetArmCameraColor" :> Arm(20, R, Direct, 0, <<>>) @@
    "GetArmCameraObj" :> Arm(30, R, Direct, 0, <<>>) @@
    "GetArmCameraTag" :> Arm(50, R, Direct, 0, <<>>) @@
    "SetArmCameraCalibrationMode" :> Arm(103, W, Direct, 1, <<1>>) @@
    "GetArmCameraCalibrationMode" :> Arm(103, R, Direct, 0, <<>>) @@
    "SetArmCameraRunModel" :> Arm(102, W, Direct, 1, <<1>>)

\* CameraApi: the model the arm camera runs.
ArmCameraModel ==
    "GetArmCameraRunModel" :> Arm(102, R, Direct, 0, <<>>)

\* CameraApi: the camera of the car.
CarCamera ==
    "GetCarCameraAngle" :> Car(10, R, Direct, 0, <<>>) @@
    "GetCarCameraColor" :> Car(20, R, Direct, 0, <<>>) @@
    "GetCarCameraObj" :> Car(30, R, Direct, 0, <<>>) @@
    "GetCarCameraTag" :> Car(50, R, Direct, 0, <<>>) @@
    "SetCarCameraCalibrationMode" :> Car(103, W, Direct, 1, <<1>>) @@
    "GetCarCameraCalibrationMode" :> Car(103, R, Direct, 0, <<>>) @@
    "SetCarCameraRunModel" :> Car(102, W, Direct, 1, <<1>>)

\* CameraApi: the model the car camera runs.
CarCameraModel ==
    "GetCarCameraRunModel" :> Car(102, R, Direct, 0, <<>>)

\* MagicBoxApi
MagicBox ==
    "GetMagicBoxMode" :> Box(192, R, Direct, 0, <<>>) @@
    "GetMagicBoxNum" :> Box(193, R, Direct, 0, <<>>) @@
    "SetMagicBoxScriptMode" :> Stray(Box(199, R, Direct, 1 + NameLen, <<1, NameLen>>), 2) @@
    "SetStopPointServer" :> Sub(Box(217, W, Direct, 5, <<2, 2>>)) @@
    "SetStopPointParam" :> Sub(Box(217, W, Direct, 5, <<2, 2>>)) @@
    "GetStopPointState" :> Sub(Box(217, R, Direct, 1, <<>>))

-----------------------------------------------------------------------------
Packets ==
    GeneralDevice @@ GeneralTime @@ GoModes @@ GoMoves @@ GoArcs @@ GoLights @@ GoSensors @@
    GoTrace @@ GoLineSensors @@ GoQueue @@ ArmCamera @@ ArmCameraModel @@ CarCamera @@
    CarCameraModel @@ MagicBox

Handlers ==
    GeneralHandlers @@ BaseHandlers @@ EquipmentHandlers @@ TraceHandlers @@ CameraHandlers @@
    MoveTimeHandlers @@ MagicBoxHandlers @@ LateHandlers

\* The one handler that asks a program on this computer and not the device.
Calibration == "GetCameraCalibrationData"

\* Names no handler has, of each of the four groups a name is sorted into.
Unknown == {"NoDevice", "NoCamera", "NoMagicBox", "NoGo"}

\* A name that ends in Port is sorted into none of them.
Ignored == {"NoPort"}

Apis == DOMAIN Handlers
Requests == Apis \union Unknown \union Ignored
=============================================================================
