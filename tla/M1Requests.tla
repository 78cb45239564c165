----------------------------- MODULE M1Requests ------------------------------
(***************************************************************************)
(* What the M1Plugin makes of a request: which handler takes it by its     *)
(* name, which call of the DobotDll the handler makes, which parameters it *)
(* reads with which conversion into which cells of the call's structure,   *)
(* and which cells of it a Get reports under which names.                  *)
(***************************************************************************)
EXTENDS TLC

\* Parameters S, each read with conversion as into the cell of the same name.
Read(as, S) == [n \in S |-> [to |-> n, as |-> as]]
Doubles(S) == Read("toDouble", S)
Ints(S) == Read("toInt", S)
Bools(S) == Read("toBool", S)
\* toDouble, cast to an integer: the fraction is cut off.
Casts(S) == Read("cast", S)
Strings(S) == Read("toString", S)
\* Arrays: as many elements as are given, or always four.
Counted(S) == Read("counted", S)
Four(S) == Read("four", S)
Into(n, to, as) == n :> [to |-> to, as |-> as]
None == <<>>

\* A call that may go into the robot's queue: always at once, queued unless isQueued
\* says no, or queued only if it says yes.
Set(call, queue, fields) == [do |-> "set", call |-> call, queue |-> queue, fields |-> fields, waits |-> FALSE]
\* One whose handler may wait until the robot has done it.
Move(call, fields) == [Set(call, "unless", fields) EXCEPT !.waits = TRUE]
Get(call, fields) == [Set(call, "never", fields) EXCEPT !.do = "get"]
\* A call without a structure.
Tell(do) == [Set("", "never", None) EXCEPT !.do = do]

-----------------------------------------------------------------------------
LinkApis ==
    "SearchDobot" :> Tell("search") @@ "ConnectDobot" :> Tell("connect") @@ "DisconnectDobot" :> Tell("disconnect")

QueueApis ==
    "SetQueuedCmd" :> Tell("queue") @@ "QueuedCmdStart" :> Tell("Start") @@ "QueuedCmdStop" :> Tell("Stop")
    @@ "QueuedCmdClear" :> Tell("Clear") @@ "SetQueuedCmdForceStopExec" :> Tell("ForceStop")
    @@ "SetQueuedCmdStartDownload" :> Set("StartDownload", "never", Ints({"totalLoop", "linePerLoop"}))
    @@ "SetQueuedCmdStopDownload" :> Set("StopDownload", "never", None)
    @@ "GetQueuedCmdLeftSpace" :> Get("LeftSpace", Doubles({"leftSpace"}))

DeviceApis ==
    "SetDeviceSN" :> Set("DeviceSN", "never", Strings({"deviceSN"})) @@ "GetDeviceSN" :> Get("DeviceSN", Strings({"deviceSN"}))
    @@ "SetDeviceName" :> Set("DeviceName", "never", Strings({"deviceName"}))
    @@ "GetDeviceName" :> Get("DeviceName", Strings({"deviceName"}))
    @@ "SetDeviceWithL" :> Set("DeviceWithL", "never", Bools({"isEnable"}))
    @@ "GetDeviceWithL" :> Get("DeviceWithL", Bools({"isEnable"}))
    @@ "GetDeviceVersion" :> Get("DeviceVersion", Ints({"majorVersion", "minorVersion", "revision", "A9_version"}))
    @@ "GetHardwareVersion" :> Get("HardwareVersion", Ints({"machineNum", "mainBoard", "driverRearArm", "driverFrontArm",
           "driverZArm", "driverRArm", "encoderRearArm", "encoderFrontArm", "encoderZArm", "encoderRArm", "brakeBoard",
           "endIOBoard"}))

PoseApis ==
    "GetPose" :> Get("Pose", Doubles({"x", "y", "z", "r"}) @@ Four({"jointAngle"}))
    @@ "ResetPose" :> Set("Pose", "never", Bools({"manualEnable"}) @@ Doubles({"rearArmAngle", "frontArmAngle"}))
    @@ "GetAlarmsState" :> Get("AlarmsState", Counted({"state"}))
    @@ "ClearAllAlarmsState" :> Set("AlarmsState", "never", None)

HomeApis ==
    "SetHOMECmd" :> Move("HOMECmd", Ints({"isResetPars"}))
    @@ "SetHOMEParams" :> Set("HOMEParams", "unless", Doubles({"x", "y", "z", "r"}))
    @@ "GetHomeParams" :> Get("HOMEParams", Doubles({"x", "y", "z", "r"}))

HHTTrigApis ==
    "SetHHTTrigMode" :> Set("HHTTrigMode", "never", Ints({"HHTTrigMode"}))
    @@ "GetHHTTrigMode" :> Get("HHTTrigMode", Ints({"HHTTrigMode"}))
    @@ "SetHHTTrigOutputEnabled" :> Set("HHTTrigOutputEnabled", "never", Bools({"isEnabled"}))
    @@ "GetHHTTrigOutputEnabled" :> Get("HHTTrigOutputEnabled", Bools({"isEnabled"}))
    @@ "GetHHTTrigOutput" :> Get("HHTTrigOutput", Bools({"isTriggered"}))

\* The laser, the suction cup and the gripper are set as enable and on, and reported
\* as isEnabled and isOn.
Switch(call) == Set(call, "unless", Bools({"enable", "on"}))
Switched(call) == Get(call, Into("isEnabled", "enable", "toBool") @@ Into("isOn", "on", "toBool"))

EndEffectorApis ==
    "SetEndEffectorParams" :> Set("EndEffectorParams", "unless", Into("xOffset", "xBias", "toDouble")
        @@ Into("yOffset", "yBias", "toDouble") @@ Into("zOffset", "zBias", "toDouble"))
    @@ "GetEndEffectorParams" :> Get("EndEffectorParams", Into("xOffset", "xBias", "toDouble")
        @@ Into("yOffset", "yBias", "toDouble") @@ Into("zOffset", "zBias", "toDouble"))
    @@ "SetEndEffectorLaser" :> Switch("Laser") @@ "GetEndEffectorLaser" :> Switched("Laser")

\* The gripper is set by the call for the suction cup.
GripApis ==
    "SetEndEffectorSuctionCup" :> Switch("SuctionCup") @@ "GetEndEffectorSuctionCup" :> Switched("SuctionCup")
    @@ "SetEndEffectorGripper" :> Switch("SuctionCup") @@ "GetEndEffectorGripper" :> Switched("Gripper")

JOGApis ==
    "SetJOGJointParams" :> Set("JOGJointParams", "unless", Counted({"velocity", "acceleration"}))
    @@ "GetJOGJointParams" :> Get("JOGJointParams", Four({"velocity", "acceleration"}))
    @@ "SetJOGCoordinateParams" :> Set("JOGCoordinateParams", "if", Counted({"velocity", "acceleration"}))
    @@ "GetJOGCoordinateParams" :> Get("JOGCoordinateParams", Four({"velocity", "acceleration"}))

JOGLApis ==
    "SetJOGLParams" :> Set("JOGLParams", "if", Ints({"velocity", "acceleration"}))
    @@ "GetJOGLParams" :> Get("JOGLParams", Doubles({"velocity", "acceleration"}))
    @@ "SetJOGCommonParams" :> Set("JOGCommonParams", "if", Ints({"velocityRatio", "accelerationRatio"}))
    @@ "GetJOGCommonParams" :> Get("JOGCommonParams", Doubles({"velocityRatio", "accelerationRatio"}))
    @@ "SetJOGCmd" :> Set("JOGCmd", "if", Bools({"isJoint"}) @@ Ints({"cmd"}))

Speeds == Doubles({"xyzVelocity", "rVelocity", "xyzAcceleration", "rAcceleration"})

PTPApis ==
    "SetPTPJointParams" :> Set("PTPJointParams", "if", Four({"velocity", "acceleration"}))
    @@ "GetPTPJointParams" :> Get("PTPJointParams", Four({"velocity", "acceleration"}))
    @@ "SetPTPCoordinateParams" :> Set("PTPCoordinateParams", "if", Speeds)
    @@ "GetPTPCoordinateParams" :> Get("PTPCoordinateParams", Speeds)

\* The handlers of SetPTPJump2Params and its Get are there too, but nothing calls them.
PTPJumpApis ==
    "SetPTPJumpParams" :> Set("PTPJumpParams", "if", Doubles({"jumpHeight", "zLimit"}))
    @@ "GetPTPJumpParams" :> Get("PTPJumpParams", Doubles({"jumpHeight", "zLimit"}))

PTPCommonApis ==
    "SetPTPCommonParams" :> Set("PTPCommonParams", "if", Doubles({"velocityRatio", "accelerationRatio"}))
    @@ "GetPTPCommonParams" :> Get("PTPCommonParams", Doubles({"velocityRatio", "accelerationRatio"}))

PTPCmds ==
    "SetPTPCmd" :> Move("PTPCmd", Ints({"ptpMode"}) @@ Doubles({"x", "y", "z", "r"}))
    @@ "SetPTPPOCmd" :> Move("PTPPOCmd", Ints({"ptpMode", "ratio", "address", "level", "poCmdCount"})
        @@ Doubles({"x", "y", "z", "r"}))

\* accOrPeriod is period when isRealTimeTrack is 1 and acc otherwise, both ways.
CPParams == Doubles({"junctionVel", "accOrPeriod"}) @@ Into("targetAcc", "planAcc", "toDouble")
    @@ Into("isRealTimeTrack", "realTimeTrack", "toInt")
CPPoint == Ints({"cpMode"}) @@ Doubles({"x", "y", "z", "velocity", "power"})

CPApis ==
    "SetCPParams" :> Set("CPParams", "if", CPParams) @@ "GetCPParams" :> Get("CPParams", CPParams)
    @@ "SetCPCmd" :> Move("CPCmd", CPPoint) @@ "SetCPLECmd" :> Move("CPLECmd", CPPoint)

ARCApis ==
    "SetARCParams" :> Set("ARCParams", "if", Speeds) @@ "GetARCParams" :> Get("ARCParams", Speeds)
    @@ "SetARCCmd" :> Move("ARCCmd", Doubles({"cirPoint", "toPoint"}))
    @@ "SetCircleCmd" :> Move("CircleCmd", Doubles({"cirPoint", "toPoint"}) @@ Ints({"count"}))

WAITApis ==
    "SetWAITCmd" :> Set("WAITCmd", "unless", Casts({"timeout"}))
    @@ "SetTRIGCmd" :> Set("TRIGCmd", "unless", Ints({"address", "mode", "condition", "threshold"}))

IOApis ==
    "SetIODO" :> Set("IODO", "if", Ints({"address", "level"})) @@ "GetIODO" :> Get("IODO", Ints({"address", "level"}))
    @@ "GetIODI" :> Get("IODI", Ints({"address", "level"})) @@ "GetIOADC" :> Get("IOADC", Ints({"address", "value"}))

ArmApis ==
    "SetArmOrientation" :> Set("ArmOrientation", "if", Ints({"armOrientation"}))
    @@ "GetArmOrientation" :> Get("ArmOrientation", Ints({"armOrientation"}))

\* The addresses are arrays when set and reported as text; dns reports the gateway.
FirmwareApis ==
    "SetFirmwareLanConfig" :> Set("LanConfig", "never", Ints({"status", "dhcp"}) @@ Counted({"addr", "mask", "gateway", "dns"}))
    @@ "GetFirmwareLanConfig" :> Get("LanConfig", Ints({"status", "dhcp"}) @@ Read("text", {"addr", "mask", "gateway"})
        @@ Into("dns", "gateway", "text"))
    @@ "FirmwareReboot" :> Set("FirmwareReboot", "never", None)

TrajectoryApis ==
    "GetTrajectory" :> Get("Trajectory", Doubles({"TrajectoryData"}))
    @@ "GetCollisionCount" :> Get("CollisionCount", Ints({"data1", "data2", "data3"}))

SafeApis ==
    "SetSafeStrategy" :> Set("SafeStrategy", "never", Casts({"flag"})) @@ "GetSafeStrategy" :> Get("SafeStrategy", Doubles({"flag"}))
    @@ "SetSafeGuardMode" :> Set("SafeGuardMode", "never", Casts({"mode"}))
    @@ "GetSafeGuardMode" :> Get("SafeGuardMode", Doubles({"mode"}))
    @@ "SetSafeGuardStatus" :> Set("SafeGuardStatus", "never", Casts({"status"}))
    @@ "GetSafeGuardStatus" :> Get("SafeGuardStatus", Doubles({"status"}))

IndexApis == "GetQueuedCmdCurrentIndex" :> Get("CurrentIndex", Doubles({"queuedCmdIndex"}))

BasicDynamics == Doubles({"FS1", "FS2", "FV1", "FV2", "IA2", "MX2", "MY2", "ZZ1", "ZZ2"})
DynamicApis ==
    "SetBasicDynamicParams" :> Set("BasicDynamicParams", "never", BasicDynamics)
    @@ "GetBasicDynamicParams" :> Get("BasicDynamicParams", BasicDynamics)
    @@ "SetPlayLoad" :> Set("PlayLoad", "never", Doubles({"playLoad"})) @@ "GetPlayLoad" :> Get("PlayLoad", Doubles({"playLoad"}))

\* GetExcitMode answers with the bare value, under no name.
Torques == Doubles({"torDiffJ1", "torDiffJ2", "torDiffJ3", "torDiffJ4"})
ExcitApis ==
    "SetExcitMode" :> Set("ExcitMode", "never", Ints({"excitMode"}))
    @@ "GetExcitMode" :> Get("ExcitMode", Into("", "excitMode", "toInt"))
    @@ "SetCollisionThreshold" :> Set("CollisionThreshold", "never", Torques)
    @@ "GetCollisionThreshold" :> Get("CollisionThreshold", Torques)
    @@ "SetExcitCmd" :> Move("ExcitCmd", Doubles({"q1", "q2", "dq1", "dq2", "ddq1", "ddq2"}))
    @@ "SetSafeMode" :> Set("SafeMode", "never", Casts({"safeMode"})) @@ "GetSafeMode" :> Get("SafeMode", Doubles({"safeMode"}))

Handler ==
    LinkApis @@ QueueApis @@ DeviceApis @@ PoseApis @@ HomeApis @@ HHTTrigApis @@ EndEffectorApis @@ GripApis @@ JOGApis
    @@ JOGLApis @@ PTPApis @@ PTPJumpApis @@ PTPCommonApis @@ PTPCmds @@ CPApis @@ ARCApis @@ WAITApis @@ IOApis @@ ArmApis
    @@ FirmwareApis @@ TrajectoryApis @@ SafeApis @@ IndexApis @@ DynamicApis @@ ExcitApis

-----------------------------------------------------------------------------
\* The names the plugin's handlers know, for every test a name is put to.
handleActionCmd == {"SetHOMECmd", "SetPTPCmd", "SetPTPPOCmd", "SetJOGCmd", "SetCPCmd", "SetCPLECmd", "SetQueuedCmd",
    "SetARCCmd", "SetCircleCmd", "SetExcitCmd", "SetCmdTimeout", "SetTRIGCmd", "SetWAITCmd"}
handleStateCmd == {"GetAlarmsState", "ClearAllAlarmsState"}
handleParamsCmd == {"SetHOMEParams", "GetHomeParams", "SetEndEffectorParams", "GetEndEffectorParams", "SetPTPJointParams",
    "GetPTPJointParams", "SetJOGJointParams", "GetJOGJointParams", "SetJOGCoordinateParams", "GetJOGCoordinateParams",
    "SetJOGLParams", "GetJOGLParams", "SetJOGCommonParams", "GetJOGCommonParams", "SetCPParams", "GetCPParams",
    "SetPTPCommonParams", "GetPTPCommonParams", "SetPTPJumpParams", "GetPTPJumpParams", "SetPTPCoordinateParams",
    "SetARCParams", "GetARCParams", "SetBasicDynamicParams", "GetBasicDynamicParams", "GetPTPCoordinateParams"}
handleDobotCmd == DOMAIN LinkApis
handleIOCmd == {"SetIODO", "GetIODO", "GetIODI", "GetIOADC"}
handleDeviceCmd == {"SetDeviceName", "GetDeviceSN", "SetDeviceSN", "GetDeviceName", "SetDeviceWithL", "GetDeviceWithL",
    "GetDeviceVersion"}
handleHHTTrigCmd == DOMAIN HHTTrigApis
handleFirmwareCmd == DOMAIN FirmwareApis
handleOtherCmd == DOMAIN GripApis \cup DOMAIN ArmApis \cup DOMAIN TrajectoryApis \cup DOMAIN SafeApis \cup DOMAIN IndexApis
    \cup {"SetEndEffectorLaser", "GetEndEffectorLaser", "GetHardwareVersion", "SetExcitMode", "GetExcitMode", "ResetPose",
          "SetSafeMode", "GetSafeMode", "SetCollisionThreshold", "GetCollisionThreshold", "SetPlayLoad", "GetPlayLoad"}
    \cup (DOMAIN QueueApis \ {"SetQueuedCmd"})

\* Names clients may use that no handler knows, by the test each passes.
Strays == [GetPose |-> {"GetPoseL"}, Cmd |-> {"SetPTPWithLCmd"}, State |-> {"GetState"}, Params |-> {"GetHOMEParams"},
    Dobot |-> {"ResetDobot"}, IO |-> {"SetIOMultiplexing"}, Device |-> {"GetDeviceTime"}, Sensor |-> {"GetColorSensor"},
    HHTTrig |-> {"ClearHHTTrig"}, Firmware |-> {"GetFirmwareMode"}, Other |-> {"NoSuchApi"}]
Known == [GetPose |-> {"GetPose"}, Cmd |-> handleActionCmd, State |-> handleStateCmd, Params |-> handleParamsCmd,
    Dobot |-> handleDobotCmd, IO |-> handleIOCmd, Device |-> handleDeviceCmd, Sensor |-> {}, HHTTrig |-> handleHHTTrigCmd,
    Firmware |-> handleFirmwareCmd, Other |-> handleOtherCmd]

\* SetCmdTimeout does not end in Cmd: it comes to handleOtherCmd, which does not know it.
Passes(api, test) ==
    \/ api \in Strays[test]
    \/ api \in Known[test] /\ api # "SetCmdTimeout"

\* What becomes of a request named api: it is handled, refused with error 82, or, when
\* its name ends in Sensor, forgotten.
handleM1Command(api) ==
    IF \E test \in DOMAIN Known : Passes(api, test) /\ api \in Known[test] THEN "handled"
    ELSE IF Passes(api, "Sensor") THEN "silent" ELSE "refused"
=============================================================================
