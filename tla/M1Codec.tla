------------------------------- MODULE M1Codec ------------------------------
(***************************************************************************)
(* The encoders and decoders of DM1Protocol, for the M1.                   *)
(***************************************************************************)
EXTENDS Codec

LanPortInfo ==
    U8(<<"status", "isdhcp">>) \o Chars("addr", 16) \o Chars("mask", 16) \o Chars("gateway", 16)
        \o Chars("dns", 16)

\* Names, versions, pose and alarms.
M1EncodeDevice ==
    { Set(0, "SetDeviceSN", Text("deviceSN")),
      Get(0, "GetDeviceSN", <<>>),
      Set(1, "SetDeviceName", Text("deviceName")),
      Get(1, "GetDeviceName", <<>>),
      Get(2, "GetDeviceVersion", U8(<<"type">>)),
      Get(5, "GetHardwareVersion", <<>>),
      Get(10, "GetPose", <<>>),
      Set(11, "ResetPose", U8(<<"manual">>) \o F32(<<"frontAngle1", "frontAngle2">>)),
      Get(20, "GetAlarmsState", <<>>),
      Set(20, "ClearAllAlarmsState", <<>>),
      Set(28, "SetServoPower", U8(<<"on">>)),
      Get(20, "GetServoPower", <<>>) }

\* Homing, hand-held trigger and orientation.
M1EncodeHome ==
    { Get(29, "GetRunState", <<>>),
      Set(31, "SetHOMECmd", U8(<<"isResetPars">>)),
      Set(34, "SetHOMEInitialPos", <<>>),
      Set(40, "SetHHTTrigMode", U8(<<"mode">>)),
      Get(40, "GetHHTTrigMode", <<>>),
      Set(41, "SetHHTTrigOutputEnabled", U8(<<"enable">>)),
      Get(41, "GetHHTTrigOutputEnabled", <<>>),
      Get(42, "GetHHTTrigOutput", <<>>),
      Set(50, "SetArmOrientation", U8(<<"orientation">>)),
      Get(50, "GetArmOrientation", <<>>) }

\* The tools at the end of the arm.
M1EncodeEndEffector ==
    { Set(60, "SetEndEffectorParams", F32(<<"xOffset", "yOffset", "zOffset">>)),
      Get(60, "GetEndEffectorParams", <<>>),
      Set(61, "SetEndEffectorLaser", U8(<<"enable", "on">>)),
      Get(61, "GetEndEffectorLaser", <<>>),
      Set(62, "SetEndEffectorSuctionCup", U8(<<"enable", "on">>)),
      Get(62, "GetEndEffectorSuctionCup", <<>>),
      Set(63, "SetEndEffectorGripper", U8(<<"enable", "on">>)),
      Get(63, "GetEndEffectorGripper", <<>>) }

\* Jogging.
M1EncodeJOG ==
    { Set(70, "SetJOGJointParams", Velocities),
      Get(70, "GetJOGJointParams", <<>>),
      Set(71, "SetJOGCoordinateParams", Velocities),
      Get(71, "GetJOGCoordinateParams", <<>>),
      Set(72, "SetJOGCommonParams", F32(<<"velocityRatio", "accelerationRatio">>)),
      Get(72, "GetJOGCommonParams", <<>>),
      Set(73, "SetJOGCmd", U8(<<"isJoint", "cmd">>)),
      Set(75, "SetInchMode", U8(<<"mode">>)),
      Get(75, "GetInchMode", <<>>),
      Set(76, "SetInchParam", F32(<<"distanceMM", "distanceANG">>)),
      Get(76, "GetInchParam", <<>>) }

\* Point to point motion.
M1EncodePTP ==
    { Set(80, "SetPTPJointParams", Velocities),
      Get(80, "GetPTPJointParams", <<>>),
      Set(81, "SetPTPCoordinateParams", F32(<<"xyzVelocity", "rVelocity", "xyzAcceleration",
          "rAcceleration">>)),
      Get(81, "GetPTPCoordinateParams", <<>>),
      Set(82, "SetPTPJumpParams", F32(<<"jumpHeight", "zLimit">>) \o U32(<<"isUsingZLimit">>)),
      Get(82, "GetPTPJumpParams", <<>>),
      Set(83, "SetPTPCommonParams", F32(<<"velocityRatio", "accelerationRatio">>)),
      Get(83, "GetPTPCommonParams", <<>>),
      Set(84, "SetPTPCmd", U8(<<"ptpMode">>) \o F32(<<"x", "y", "z", "r">>)) }

\* Outputs on the way and continuous paths.
M1EncodeCP ==
    { Set(88, "SetPTPPOCmd", U8(<<"ptpMode">>) \o F32(<<"x", "y", "z", "r">>) \o ParallelOutput),
      Set(90, "SetCPParams", CPParams),
      Get(90, "GetCPParams", <<>>),
      Set(91, "SetCPCmd", U8(<<"cpMode">>) \o F32(<<"x", "y", "z", "power">>)),
      Set(92, "SetCPLECmd", U8(<<"cpMode">>) \o F32(<<"x", "y", "z", "power">>)) }

\* Arcs.
M1EncodeARC ==
    { Set(100, "SetARCParams", F32(<<"xyzVelocity", "rVelocity", "xyzAcceleration",
          "rAcceleration">>)),
      Get(100, "GetARCParams", <<>>),
      Set(101, "SetARCCmd", F32(CirPoint \o ToPoint)),
      Set(102, "SetCircleCmd", F32(CirPoint \o ToPoint) \o U32(<<"count">>)),
      Set(103, "SetMotivateCmd", F32(<<"q1", "q2", "dq1", "dq2", "ddq1", "ddq2">>)) }

\* Arcs with outputs on the way.
M1EncodeARCWithPO ==
    { Set(104, "SetMotivateZCmd", F32(<<"qz", "dqz", "ddqz">>)),
      Set(108, "SetARCPOCmd", F32(CirPoint \o ToPoint) \o ParallelOutput),
      Set(109, "SetCirclePOCmd", F32(CirPoint \o ToPoint) \o U32(<<"count">>) \o ParallelOutput) }

\* Waiting, triggers, inputs and outputs.
M1EncodeIO ==
    { Set(110, "SetWAITCmd", U32(<<"delay">>)),
      Set(120, "SetTRIGCmd", U8(<<"port", "mode", "condition">>) \o U16(<<"threshold">>)),
      Set(131, "SetIODO", U8(<<"port", "level">>)),
      Get(131, "GetIODO", U8(<<"port">>)),
      Get(133, "GetIODI", U8(<<"port">>)),
      Get(134, "GetIOADC", U8(<<"port">>)),
      Set(136, "SetIODOs", U8(<<"address", "number">>) \o Chars("value", TextLen - 1)),
      Get(136, "GetIODOs", U8(<<"address", "number">>)),
      Get(137, "GetIODIs", U8(<<"address", "number">>)),
      Get(138, "GetIOADCs", U8(<<"address", "number">>)) }

\* Encoder, firmware mode and network.
M1EncodeFirmware ==
    { Set(141, "SetRebootEncoderICPVL", F32(<<"jointNumber">>) \o Fix(0) \o Fix(0)
            \o Fix(162) \o Fix(67)),
      Set(161, "SetFirmwareMode", U8(<<"firmwareMode">>) \o Fix(1)),
      Get(161, "GetFirmwareMode", Fix(0) \o Fix(0)),
      Set(166, "SetFirmwareReboot", Fix(1)),
      Set(167, "SetLanPortConfig", LanPortInfo),
      Get(167, "GetLanPortConfig", <<>>),
      Set(168, "SetFirmwareNotifyM4Mode", U8(<<"mode">>)),
      Get(168, "GetFirmwareNotifyM4Mode", <<>>) }

\* Collisions and dynamics.
M1EncodeDynamics ==
    { Set(200, "SetSafeModeEnabled", U8(<<"enable">>)),
      Get(200, "GetSafeModeEnabled", <<>>),
      Set(201, "SetCollisionThreshold", F32(<<"torDiffJ1", "torDiffJ2", "torDiffJ3",
          "torDiffJ4">>)),
      Get(201, "GetCollisionThreshold", <<>>),
      Set(202, "SetBasicDynamicParams", F32(<<"ZZ1", "FS1", "FV1", "ZZ2", "MX2", "MY2", "IA2",
          "FS2", "FV2">>)),
      Get(202, "GetBasicDynamicParams", <<>>),
      Set(203, "SetLoadParams", F32(<<"loadParams">>)),
      Get(203, "GetLoadParams", <<>>) }

\* Feedforward, trajectories and safety.
M1EncodeSafety ==
    { Set(204, "SetFeedforward", U8(<<"value">>)),
      Get(204, "GetFeedforward", <<>>),
      Set(205, "SetMotivationMode", U8(<<"mode">>)),
      Get(205, "GetMotivationMode", <<>>),
      Get(206, "GetTrajectory", U8(<<"countMax">>) \o U64(<<"index">>)),
      Set(208, "SetSafeStrategy", U8(<<"strategy">>)),
      Get(208, "GetSafeStrategy", <<>>),
      Set(210, "SetSafeGuardMode", U8(<<"mode">>)),
      Get(210, "GetSafeGuardMode", <<>>),
      Get(211, "GetSafeGuardStatus", <<>>),
      Get(220, "GetUserParams", <<>>) }

\* The command queue and the coordinate systems.
M1EncodeQueue ==
    { Set(240, "QueuedCmdStart", <<>>),
      Set(241, "QueuedCmdStop", <<>>),
      Set(242, "QueuedCmdForceStop", <<>>),
      Set(243, "QueuedCmdStartDownload", U8(<<"totalLoop", "linePerLoop">>)),
      Set(244, "QueuedCmdStopDownload", <<>>),
      Set(245, "QueuedCmdClear", <<>>),
      Get(246, "GetQueuedCmdCurrentIndex", <<>>),
      Get(247, "GetQueuedCmdLeftSpace", <<>>),
      Set(250, "SetUserCoordinate", F32(<<"x", "y", "z", "r">>)),
      Get(250, "GetUserCoordinate", <<>>),
      Set(251, "SetToolCoordinate", F32(<<"x", "y", "z", "r">>)),
      Get(251, "GetToolCoordinate", <<>>) }

-----------------------------------------------------------------------------
\* The eleven characters of each of the first ten boards.
BoardVersions ==
    FlattenSeq([i \in 1..10 |-> Chars(
        <<"machineNum", "mainBoard", "driverRearArm", "driverFrontArm", "driverZArm", "driverRArm",
          "encoderRearArm", "encoderFrontArm", "encoderZArm", "encoderRArm">>[i], 11)])

\* Names, versions, pose.
M1DecodeDevice ==
    { Reply(0, 0, "GetDeviceSN", "SetDeviceSN", <<AtLeast(1, Rest("deviceSN"))>>),
      Reply(1, 0, "GetDeviceName", "SetDeviceName", <<AtLeast(1, Rest("deviceName"))>>),
      Reply(2, 0, "GetDeviceVersion", "",
              <<Exactly(U8(<<"type", "majorVersion", "minorVersion", "revision">>)),
                AtLeast(9, U8(<<"type">>) \o Chars("majorVersion", 2) \o Chars("minorVersion", 2)
                             \o Chars("revision", 2) \o Chars("debug", 2))>>),
      Reply(5, 0, "GetHardwareVersion", "",
              <<Case({0, 1}, 132, 132, BoardVersions \o CharsAt(120, "brakeBoard", 11)
                                           \o CharsAt(131, "endIOBoard", 1))>>),
      Reading(10, "GetPose", F32(<<"x", "y", "z", "r", "joint0", "joint1", "joint2", "joint3">>)) }

\* Alarms, power, homing, hand-held trigger.
M1DecodeState ==
    { Names(11, "", "ResetPose"),
      Reply(20, 0, "GetAlarmsState", "ClearAllAlarmsState", <<AtLeast(1, Rest("alarmsState"))>>),
      Register(28, "GetServoPower", "SetServoPower", U8(<<"on">>)),
      Reading(29, "GetRunState", U32(<<"state">>)),
      Queued(31, "SetHOMECmd"),
      Names(34, "", "SetHOMEInitialPos"),
      Register(40, "GetHHTTrigMode", "SetHHTTrigMode", U8(<<"mode">>)) }

\* Trigger output, orientation and tools.
M1DecodeTools ==
    { Register(41, "GetHHTTrigOutputEnabled", "SetHHTTrigOutputEnabled", U8(<<"isEnabled">>)),
      Reading(42, "GetHHTTrigOutput", U8(<<"isTriggered">>)),
      QueuedRegister(50, "GetArmOrientation", "SetArmOrientation", U8(<<"orientation">>)),
      QueuedRegister(60, "GetEndEffectorParams", "SetEndEffectorParams", F32(<<"xOffset",
          "yOffset", "zOffset">>)),
      QueuedRegister(61, "GetEndEffectorLaser", "SetEndEffectorLaser", U8(<<"isEnabled",
          "isOn">>)),
      QueuedRegister(62, "GetEndEffectorSuctionCup", "SetEndEffectorSuctionCup",
          U8(<<"isEnabled", "isOn">>)) }

\* Gripper and jogging.
M1DecodeJOG ==
    { QueuedRegister(63, "GetEndEffectorGripper", "SetEndEffectorGripper", U8(<<"isEnabled",
          "isOn">>)),
      QueuedRegister(70, "GetJOGJointParams", "SetJOGJointParams", Velocities),
      QueuedRegister(71, "GetJOGCoordinateParams", "SetJOGCoordinateParams", Velocities),
      QueuedRegister(72, "GetJOGCommonParams", "SetJOGCommonParams", F32(<<"velocityRatio",
          "accelerationRatio">>)),
      Queued(73, "SetJOGCmd") }

\* Steps and point to point params.  isUsingZLimit is read from zLimit.
M1DecodeInch ==
    { Register(75, "GetInchMode", "SetInchMode", U8(<<"mode">>)),
      Register(76, "GetInchParam", "SetInchParam", F32(<<"distanceMM", "distanceANG">>)),
      QueuedRegister(80, "GetPTPJointParams", "SetPTPJointParams", Velocities),
      QueuedRegister(81, "GetPTPCoordinateParams", "SetPTPCoordinateParams",
          F32(<<"xyzVelocity", "rVelocity", "xyzAcceleration", "rAcceleration">>)),
      Reply(82, 0, "GetPTPJumpParams", "SetPTPJumpParams",
              <<Case({0, 1}, 12, 12, F32(<<"jumpHeight", "zLimit">>) \o At(4, "f32", "isUsingZLimit")),
                QueueIndex>>) }

\* Point to point motion and continuous path params.
M1DecodePTP ==
    { Reply(83, 0, "GetPTPCommonParams", "SetPTPCommonParams",
              <<ReadExactly(F32(<<"velocityRatio", "accelerationRatio">>)),
                Case({1}, 8, 8, U64(<<"queuedCmdIndex">>))>>),
      Queued(84, "SetPTPCmd"),
      Queued(88, "SetPTPPOCmd"),
      QueuedRegister(90, "GetCPParams", "SetCPParams", CPParams),
      Queued(91, "SetCPCmd") }

\* Continuous paths and arcs.
M1DecodeARC ==
    { Queued(92, "SetCPLECmd"),
      QueuedRegister(100, "GetARCParams", "SetARCParams", F32(<<"xyzVelocity", "rVelocity",
          "xyzAcceleration", "rAcceleration">>)),
      Queued(101, "SetARCCmd"),
      Queued(102, "SetCircleCmd"),
      Queued(103, "SetMotivateCmd"),
      Queued(104, "SetMotivateZCmd"),
      Queued(108, "SetARCPOCmd"),
      Queued(109, "SetCirclePOCmd"),
      Queued(110, "SetWAITCmd") }

\* Triggers, inputs and outputs.
M1DecodeIO ==
    { Queued(120, "SetTRIGCmd"),
      QueuedRegister(131, "GetIODO", "SetIODO", U8(<<"port", "level">>)),
      Reading(133, "GetIODI", U8(<<"port", "level">>)),
      Reading(134, "GetIOADC", U8(<<"port">>) \o U16(<<"value">>)),
      Reply(136, 0, "GetIODOs", "SetIODOs", <<Case({0}, 2, 255, U8(<<"address", "number">>)
            \o Rest("level"))>>) }

\* Inputs and firmware mode; decodeGetIODACs answers nothing.
M1DecodeFirmware ==
    { Reply(137, 0, "GetIODIs", "", <<Case({0}, 2, 255, U8(<<"address", "number">>)
            \o Rest("value"))>>),
      Reply(138, 0, "GetIOADCs", "", <<Case({0}, 2, 255, U8(<<"address", "number">>)
            \o Rest("level"))>>),
      Names(141, "", "SetRebootEncoderICPVL"),
      Reply(161, 0, "GetFirmwareMode", "SetFirmwareMode",
              <<ReadExactly(U8(<<"firmwareMode", "ctrl">>)), QueueIndex>>),
      Names(166, "", "SetFirmwareReboot"),
      Register(167, "GetLanPortConfig", "SetLanPortConfig", LanPortInfo) }

\* Collisions and dynamics.
M1DecodeDynamics ==
    { Reply(168, 0, "GetFirmwareNotifyM4Mode", "SetFirmwareNotifyM4Mode",
          <<ReadExactly(U8(<<"mode">>))>>),
      Register(200, "GetSafeModeEnabled", "SetSafeModeEnabled", U8(<<"isEnabled">>)),
      Register(201, "GetCollisionThreshold", "SetCollisionThreshold", F32(<<"torDiffJ1",
          "torDiffJ2", "torDiffJ3", "torDiffJ4">>)),
      Register(202, "GetBasicDynamicParams", "SetBasicDynamicParams", F32(<<"ZZ1", "FS1",
          "FV1", "ZZ2", "MX2", "MY2", "IA2", "FS2", "FV2">>)),
      Register(203, "GetLoadParams", "SetLoadParams", F32(<<"loadParams">>)),
      Register(204, "GetFeedforward", "SetFeedforward", U8(<<"value">>)) }

\* Trajectories and safety.
M1DecodeSafety ==
    { Register(205, "GetMotivationMode", "SetMotivationMode", U8(<<"mode">>)),
      Reply(206, 0, "GetTrajectory", "", <<AtLeast(1, Skip(1) \o Rest("data"))>>),
      Register(208, "GetSafeStrategy", "SetSafeStrategy", U8(<<"strategy">>)),
      Register(210, "GetSafeGuardMode", "SetSafeGuardMode", U8(<<"mode">>)),
      Reading(211, "GetSafeGuardStatus", U8(<<"status">>)) }

\* User params and the command queue.
M1DecodeUser ==
    { Reading(220, "GetUserParams", F32(<<"params0", "params1", "params2", "params3",
                                       "params4", "params5", "params6", "params7">>)),
      Names(240, "", "QueuedCmdStart"),
      Names(241, "", "QueuedCmdStop"),
      Names(242, "QueuedCmdForceStop", ""),
      Names(243, "", "QueuedCmdStartDownload"),
      Names(244, "", "QueuedCmdStopDownload"),
      Names(245, "", "QueuedCmdClear"),
      Reading(246, "GetQueuedCmdCurrentIndex", U64(<<"queuedCmdIndex">>)) }

\* Free space and coordinate systems.
M1DecodeCoordinates ==
    { Reading(247, "GetQueuedCmdLeftSpace", U32(<<"leftSpace">>)),
      Register(250, "GetUserCoordinate", "SetUserCoordinate", F32(<<"x", "y", "z", "r">>)),
      Register(251, "GetToolCoordinate", "SetToolCoordinate", F32(<<"x", "y", "z", "r">>)) }


\* m_encodeFuncMap
M1EncodeFuncMap ==
    M1EncodeDevice \cup M1EncodeHome \cup M1EncodeEndEffector \cup M1EncodeJOG
    \cup M1EncodePTP \cup M1EncodeCP \cup M1EncodeARC \cup M1EncodeARCWithPO
    \cup M1EncodeIO \cup M1EncodeFirmware \cup M1EncodeDynamics
    \cup M1EncodeSafety \cup M1EncodeQueue

\* m_decodeFuncMap
M1DecodeFuncMap ==
    M1DecodeDevice \cup M1DecodeState \cup M1DecodeTools \cup M1DecodeJOG
    \cup M1DecodeInch \cup M1DecodePTP \cup M1DecodeARC \cup M1DecodeIO
    \cup M1DecodeFirmware \cup M1DecodeDynamics \cup M1DecodeSafety
    \cup M1DecodeUser \cup M1DecodeCoordinates
=============================================================================
