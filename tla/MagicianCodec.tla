--------------------------- MODULE MagicianCodec ----------------------------
(***************************************************************************)
(* The encoders and decoders of DMagicianProtocol, for a Magician, a       *)
(* Magician Lite and a MagicBox: one row per command of m_encodeFuncMap,   *)
(* and one per function of m_decodeFuncMap, m_decodeDobotSensorFuncMap     *)
(* (id 216) and m_decodeBoxFuncMap (id 217).                               *)
(***************************************************************************)
EXTENDS Codec

\* Serial number, name, version, OLED text.
EncodeDevice ==
    { Set(0, "SetDeviceSN", Text("deviceSN")),
      Get(0, "GetDeviceSN", <<>>),
      Set(1, "SetDeviceName", Text("deviceName")),
      Get(1, "GetDeviceName", <<>>),
      Get(2, "GetDeviceVersion", <<>>),
      Set(3, "SetDeviceWithL", U8(<<"enable", "version">>)),
      Get(3, "GetDeviceWithL", <<>>),
      Get(4, "GetDeviceTime", <<>>),
      Get(5, "GetDeviceID", <<>>),
      Get(7, "GetProductName", <<>>),
      Set(8, "SetOLEDDisplay", Text("text")),
      Set(9, "SetProgressBar", U8(<<"value">>)) }

\* Pose and alarms.
EncodePose ==
    { Get(10, "GetPose", <<>>),
      Set(11, "ResetPose", U8(<<"manual">>) \o F32(<<"rearArmAngle", "frontArmAngle">>)),
      Get(13, "GetPoseL", <<>>),
      Set(15, "CheckPoseLimit", U8(<<"isJoint">>) \o F32(<<"x", "y", "z", "r">>)),
      Get(20, "GetAlarmsState", <<>>),
      Set(20, "ClearAllAlarmsState", <<>>) }

\* Homing, levelling and the hand-held trigger.
EncodeHome ==
    { Set(30, "SetHOMEParams", F32(<<"x", "y", "z", "r">>)),
      Get(30, "GetHOMEParams", <<>>),
      Set(31, "SetHOMECmd", <<>>),
      Set(32, "SetAutoLeveling", U8(<<"enable">>) \o F32(<<"precision">>)),
      Get(32, "GetAutoLeveling", <<>>),
      Get(33, "GetGoHomeStatus", <<>>),
      Set(40, "SetHHTTrigMode", U8(<<"mode">>)),
      Get(40, "GetHHTTrigMode", <<>>),
      Set(41, "SetHHTTrigOutputEnabled", U8(<<"enable">>)),
      Get(41, "GetHHTTrigOutputEnabled", <<>>),
      Get(42, "GetHHTTrigOutput", <<>>) }

\* The tools at the end of the arm.
EncodeEndEffector ==
    { Set(60, "SetEndEffectorParams", F32(<<"xOffset", "yOffset", "zOffset">>)),
      Get(60, "GetEndEffectorParams", <<>>),
      Set(61, "SetEndEffectorLaser", U8(<<"enable", "on">>)),
      Get(61, "GetEndEffectorLaser", <<>>),
      Set(62, "SetEndEffectorSuctionCup", U8(<<"enable", "on">>)),
      Get(62, "GetEndEffectorSuctionCup", <<>>),
      Set(63, "SetEndEffectorGripper", U8(<<"enable", "on">>)),
      Get(63, "GetEndEffectorGripper", <<>>),
      Set(64, "SetEndEffectorType", U8(<<"type">>)),
      Get(64, "GetEndEffectorType", <<>>) }

\* Servo angle, speed ratios, status.
EncodeSpeed ==
    { Set(65, "SetServoAngle", U8(<<"index">>) \o F32(<<"value">>)),
      Get(65, "GetServoAngle", U8(<<"index">>)),
      Set(66, "SetArmSpeedRatio", U8(<<"type", "value">>)),
      Get(66, "GetArmSpeedRatio", U8(<<"type">>)),
      Set(67, "SetLSpeedRatio", U8(<<"type", "value">>)),
      Get(67, "GetLSpeedRatio", U8(<<"type">>)),
      Get(68, "GetConfigAndStatus", <<>>),
      Get(69, "GetRTStatus", <<>>) }

\* Jogging.
EncodeJOG ==
    { Set(70, "SetJOGJointParams", Velocities),
      Get(70, "GetJOGJointParams", <<>>),
      Set(71, "SetJOGCoordinateParams", Velocities),
      Get(71, "GetJOGCoordinateParams", <<>>),
      Set(72, "SetJOGCommonParams", F32(<<"velocityRatio", "accelerationRatio">>)),
      Get(72, "GetJOGCommonParams", <<>>),
      Set(73, "SetJOGCmd", U8(<<"isJoint", "cmd">>)),
      Set(74, "SetJOGLParams", F32(<<"velocity", "acceleration">>)),
      Set(75, "SetJOGCmdTime", U8(<<"isJoint", "cmd">>) \o F32(<<"time">>)),
      Get(74, "GetJOGLParams", <<>>) }

\* Point to point motion.
EncodePTP ==
    { Set(80, "SetPTPJointParams", Velocities),
      Get(80, "GetPTPJointParams", <<>>),
      Set(81, "SetPTPCoordinateParams", F32(<<"xyzVelocity", "rVelocity", "xyzAcceleration",
          "rAcceleration">>)),
      Get(81, "GetPTPCoordinateParams", <<>>),
      Set(82, "SetPTPJumpParams", F32(<<"jumpHeight", "zLimit">>)),
      Get(82, "GetPTPJumpParams", <<>>),
      Set(83, "SetPTPCommonParams", F32(<<"velocityRatio", "accelerationRatio">>)),
      Get(83, "GetPTPCommonParams", <<>>),
      Set(84, "SetPTPCmd", U8(<<"ptpMode">>) \o F32(<<"x", "y", "z", "r">>)) }

\* Point to point motion with the rail and with outputs on the way.
EncodePTPRail ==
    { Set(85, "SetPTPLParams", F32(<<"velocity", "acceleration">>)),
      Get(85, "GetPTPLParams", <<>>),
      Set(86, "SetPTPWithLCmd", U8(<<"ptpMode">>) \o F32(<<"x", "y", "z", "r", "l">>)),
      Set(87, "SetPTPJump2Params", F32(<<"startJumpHeight", "endJumpHeight", "zLimit">>)),
      Get(87, "GetPTPJump2Params", <<>>),
      Set(88, "SetPTPPOCmd", U8(<<"ptpMode">>) \o F32(<<"x", "y", "z", "r">>) \o ParallelOutput) }

\* Outputs on the way and continuous paths; the rail's l is cut off by the size of
\* PTPCmdStruct in encodeSetPTPPOWithLCmd.
EncodeCP ==
    { Set(89, "SetPTPPOWithLCmd", U8(<<"ptpMode">>) \o F32(<<"x", "y", "z", "r">>)
            \o ParallelOutput),
      Set(90, "SetCPParams", CPParams),
      Get(90, "GetCPParams", <<>>),
      Set(91, "SetCPCmd", U8(<<"cpMode">>) \o F32(<<"x", "y", "z", "power">>)),
      Set(92, "SetCPLECmd", U8(<<"cpMode">>) \o F32(<<"x", "y", "z", "power">>)) }

\* Continuous path params and arcs.
EncodeARC ==
    { Set(93, "SetCPRHeadHoldEnable", <<>>),
      Get(93, "GetCPRHeadHoldEnable", <<>>),
      Set(94, "SetCPCommonParams", <<>>),
      Get(94, "GetCPCommonParams", <<>>),
      Set(95, "SetCP2Cmd", U8(<<"cpMode">>) \o F32(<<"x", "y", "z">>)),
      Set(100, "SetARCParams", F32(<<"xyzVelocity", "rVelocity", "xyzAcceleration",
          "rAcceleration">>)),
      Get(100, "GetARCParams", <<>>),
      Set(101, "SetARCCmd", F32(CirPoint \o ToPoint)),
      Set(102, "SetCircleCmd", F32(CirPoint \o ToPoint) \o U32(<<"count">>)) }

\* Waiting, triggers and outputs.
EncodeIO ==
    { Set(103, "SetARCCommonParams", <<>>),
      Get(103, "GetARCCommonParams", <<>>),
      Set(110, "SetWAITCmd", U32(<<"delay">>)),
      Set(120, "SetTRIGCmd", U8(<<"port", "mode", "condition">>) \o U16(<<"threshold">>)),
      Set(130, "SetIOMultiplexing", U8(<<"port", "multiplex">>)),
      Get(130, "GetIOMultiplexing", U8(<<"port">>)),
      Set(131, "SetIODO", U8(<<"port", "level">>)),
      Get(131, "GetIODO", U8(<<"port">>)),
      Set(132, "SetIOPWM", U8(<<"port">>) \o F32(<<"frequency", "dutyCycle">>)),
      Get(132, "GetIOPWM", U8(<<"port">>)) }

\* Inputs, motors and sensors on the base.
EncodeSensors ==
    { Get(133, "GetIODI", U8(<<"port">>)),
      Get(134, "GetIOADC", U8(<<"port">>)),
      Set(135, "SetEMotor", U8(<<"index", "enable">>) \o I32(<<"speed">>)),
      Set(136, "SetEMotorS", U8(<<"index", "enable">>) \o I32(<<"speed">>) \o U32(<<"distance">>)),
      Set(137, "SetColorSensor", U8(<<"enable", "port", "version">>)),
      Get(137, "GetColorSensor", <<>>),
      Set(138, "SetInfraredSensor", U8(<<"enable", "port", "version">>)),
      Get(138, "GetInfraredSensor", U8(<<"port">>)) }

\* I2C and calibration values.
EncodeCalibration ==
    { Set(139, "SetIICInfo", U8(<<"mode", "mainIndex">>)),
      Get(139, "GetIICInfo", U8(<<"mode", "mainIndex", "subIndex">>)),
      Set(140, "SetAngleSensorStaticError", F32(<<"rearArmAngleError", "frontArmAngleError">>)),
      Get(140, "GetAngleSensorStaticError", <<>>),
      Set(141, "SetAngleSensorCoef", F32(<<"rearArmAngle", "frontArmAngle">>)),
      Get(141, "GetAngleSensorCoef", <<>>),
      Set(142, "SetBaseDecoderStaticError", F32(<<"baseDecoderError">>)),
      Get(142, "GetBaseDecoderStaticError", <<>>),
      Set(143, "SetLRHandCalibrateValue", <<>>),
      Get(143, "GetLRHandCalibrateValue", <<>>) }

\* The WiFi module.
EncodeWIFI ==
    { Set(150, "SetWIFIConfigMode", U8(<<"enable">>)),
      Get(150, "GetWIFIConfigMode", <<>>),
      Set(151, "SetWIFISSID", Text("ssid")),
      Get(151, "GetWIFISSID", <<>>),
      Set(152, "SetWIFIPassword", Text("password")),
      Get(152, "GetWIFIPassword", <<>>),
      Set(153, "SetWIFIIPAddress", U8(<<"dhcp">>) \o Address),
      Get(153, "GetWIFIIPAddress", <<>>),
      Set(154, "SetWIFINetmask", Address),
      Get(154, "GetWIFINetmask", <<>>) }

\* WiFi gateway and DNS, lost steps, collisions, device status.
EncodeWIFIAndStatus ==
    { Set(155, "SetWIFIGateway", Address),
      Get(155, "GetWIFIGateway", <<>>),
      Set(156, "SetWIFIDNS", Address),
      Get(156, "GetWIFIDNS", <<>>),
      Get(157, "GetWIFIConnectStatus", <<>>),
      Set(170, "SetLostStepValue", F32(<<"value">>)),
      Set(171, "SetLostStepCmd", <<>>),
      Set(172, "SetCollisionCheck", U8(<<"enable">>) \o F32(<<"threshold">>)),
      Get(172, "GetCollisionCheck", <<>>),
      Get(192, "GetDeviceStatus", <<>>),
      Get(193, "SetDeviceRunAPP", <<>>) }

\* Firmware upgrade.  A length or MD5 of the wrong size leaves the params short.
EncodeUpgrade ==
    { Set(194, "SetUpgradeStatus", Chars("length", 4) \o Chars("md5", 16)),
      Get(194, "GetUpgradeStatus", Chars("length", 4) \o Chars("md5", 16)),
      Get(195, "SetRunUpgrade", <<>>),
      Get(196, "SetStartTransmit", <<>>),
      Get(197, "SetUpgradeVeify", <<>>),
      Set(198, "SetDeviceRestart", <<>>) }

\* Seeed sensors and the camera's coloured objects.
EncodeSeeed ==
    { Set(200, "GetColorObjExist", U8(<<"port", "color">>)),
      Get(200, "GetColorObjCoordinate", U8(<<"port", "color", "coordinate">>)),
      Get(210, "GetSeeedDistanceSensor", U8(<<"port">>)),
      Set(211, "SetSeeedTempSensor", U8(<<"port">>)),
      Get(211, "GetSeeedTempSensor", <<>>),
      Set(212, "SetSeeedLightSensor", U8(<<"port">>)),
      Get(212, "GetSeeedLightSensor", U8(<<"mode">>)),
      Set(213, "SetSeeedColorSensor", U8(<<"port">>)),
      Get(213, "GetSeeedColorSensor", <<>>),
      Set(214, "SetSeeedRGBLed", U8(<<"port">>) \o F32(<<"rgbValue">>)),
      Get(215, "GetMCUTemperature", <<>>) }

\* The command queue.
EncodeQueue ==
    { Set(240, "QueuedCmdStart", <<>>),
      Set(241, "QueuedCmdStop", <<>>),
      Set(242, "QueuedCmdForceStop", <<>>),
      Set(243, "QueuedCmdStartDownload", U8(<<"totalLoop", "linePerLoop">>)),
      Set(244, "QueuedCmdStopDownload", <<>>),
      Set(245, "QueuedCmdClear", <<>>),
      Get(246, "GetQueuedCmdCurrentIndex", <<>>),
      Get(247, "GetQueuedCmdLeftSpace", <<>>) }

\* Sensor box, sub ids 1 to 12.
EncodeRGBAndOled ==
    { Set(216, "SensorRGBLEDInit", Fix(1) \o U8(<<"port">>)),
      Set(216, "SensorSetRGBLEDVlaue", Fix(2) \o U8(<<"port", "index", "red", "green", "blue">>)),
      Set(216, "SensorRGBLEDTurnOFFAll", Fix(3) \o U8(<<"port">>)),
      Set(216, "SensorSetRGBLEDState", Fix(4) \o U8(<<"port", "index", "on">>)),
      Set(216, "SensorOledInit", Fix(10) \o U8(<<"port">>)),
      Set(216, "SensorOledClear", Fix(11) \o U8(<<"port">>)),
      Set(216, "SensorOledDisplay", Fix(12) \o U8(<<"port", "x", "y">>) \o Text("text")) }

\* Sub ids 20 to 28.
EncodeAnalog ==
    { Set(216, "SensorKnobInit", Fix(20) \o U8(<<"port">>)),
      Get(216, "SensorGetKnob", Fix(21) \o U8(<<"port">>)),
      Set(216, "SensorVoiceInit", Fix(22) \o U8(<<"port">>)),
      Get(216, "SensorGetVoice", Fix(23) \o U8(<<"port">>)),
      Set(216, "SensorLightInit", Fix(24) \o U8(<<"port">>)),
      Get(216, "SensorGetLight", Fix(25) \o U8(<<"port">>)),
      Set(216, "SensorPEInit", Fix(26) \o U8(<<"port", "version">>)),
      Get(216, "SensorGetPEState", Fix(27) \o U8(<<"port", "version">>)),
      Set(216, "SensorUltrasonicInit", Fix(28) \o U8(<<"port">>)) }

\* Sub ids 29 to 41.
EncodeColorAndXBee ==
    { Set(216, "SensorUltrasonicGet", Fix(29) \o U8(<<"port">>)),
      Get(216, "SensorSHT31Init", Fix(30) \o U8(<<"port">>)),
      Get(216, "SensorGetSHT31", Fix(31) \o U8(<<"port">>)),
      Set(216, "SensorColorInit", Fix(32) \o U8(<<"port">>)),
      Set(216, "SensorGetColor", Fix(33) \o U8(<<"port", "index">>)),
      Get(216, "SensorGetColorRes", Fix(34) \o U8(<<"port">>)),
      Set(216, "SensorXBeeInit", Fix(40) \o U8(<<"port">>) \o U32(<<"baud">>)),
      Set(216, "SensorXBeeSend", Fix(41) \o U8(<<"port">>) \o Text("text")) }

\* Sub ids 42 to 54.
EncodeSYN ==
    { Get(216, "SensorXBeeReceive", Fix(42) \o U8(<<"port">>)),
      Set(216, "SensorXBeeClear", Fix(43) \o U8(<<"port">>)),
      Set(216, "SensorSYNInit", Fix(50) \o U8(<<"port">>) \o U32(<<"baud">>)),
      Set(216, "SensorSetSYN", Fix(51) \o U8(<<"port", "sound", "speed">>)),
      Set(216, "SensorSetSYNMusic", Fix(52) \o U8(<<"port", "type", "index">>)),
      Set(216, "SensorSendSYN", Fix(53) \o U8(<<"port">>) \o Chars("text", 2 * TextLen)),
      Set(216, "SensorSetSYNCmd", Fix(54) \o U8(<<"port", "cmd">>)) }

\* Sub ids 60 to 68.
EncodeBle ==
    { Set(216, "SetBleInf", Fix(60) \o U8(<<"mode">>) \o Text("name")),
      Get(216, "GetBleInf", Fix(60)),
      Set(216, "BleConnect", Fix(61) \o U8(<<"time">>) \o Text("name")),
      Set(216, "BleReadOneData", Fix(63)),
      Set(216, "BleWriteOneData", Fix(64) \o Text("data")),
      Set(216, "SetBleMesh", Fix(65) \o U8(<<"devID">>) \o Chars("groupID", TextLen - 1)),
      Set(216, "BleReadMeshData", Fix(66)),
      Set(216, "BleWriteMeshData", Fix(67) \o U8(<<"devID", "length">>) \o Text("data")),
      Set(216, "BleClearMeshData", Fix(68)) }

\* Sub ids 70 to 79.
EncodeJoystick ==
    { Set(216, "SetSensorHandModel", Fix(70) \o U8(<<"port">>)),
      Get(216, "GetSensorHandModel", Fix(71) \o U8(<<"port">>)),
      Get(216, "IsSensorHandModel", Fix(72) \o U8(<<"port", "data">>)),
      Get(216, "IsJoystickButton", Fix(73) \o U8(<<"port", "index">>)),
      Get(216, "GetJoystickPos", Fix(74) \o U8(<<"port">>)),
      Get(216, "GetJoystickButton", Fix(75) \o U8(<<"port">>)),
      Get(216, "IsPirDetected", Fix(76) \o U8(<<"port">>)),
      Get(216, "GetButtonStatus", Fix(77) \o U8(<<"port">>)),
      Get(216, "GetRedButtonStatus", Fix(78) \o U8(<<"port">>)),
      Get(216, "GetBlueButtonStatus", Fix(79) \o U8(<<"port">>)) }

\* Sub ids 90 to 95.
EncodeBluetooth ==
    { Set(216, "BluetoothSetMaster", Fix(90) \o Chars("mac", 12)),
      Set(216, "BluetoothSetSlave", Fix(91)),
      Set(216, "BluetoothRecvData", Fix(92)),
      Set(216, "BluetoothSendData", Fix(93) \o U8(<<"length">>) \o Chars("data", TextLen + 1)),
      Set(216, "BluetoothClearCacheData", Fix(94)),
      Set(216, "BluetoothGetMacAddress", Fix(95)) }

\* The MagicBox's own functions (id 217).
EncodeBox ==
    { Set(217, "SetStopPointServer", Fix(10) \o U16(<<"PointX", "PointY">>)),
      Set(217, "SetStopPointParam", Fix(11) \o U8(<<"scopeErr", "stopErr">>)),
      Get(217, "GetStopPointState", Fix(12)),
      Get(217, "GetImgToArmXY", Fix(20) \o F32(<<"imgX", "imgY">>)
            \o U8(<<"needTranxy", "suckApriltag", "apriltagHeight">>)) }


\* m_encodeFuncMap
EncodeFuncMap ==
    EncodeDevice \cup EncodePose \cup EncodeHome \cup EncodeEndEffector
    \cup EncodeSpeed \cup EncodeJOG \cup EncodePTP \cup EncodePTPRail
    \cup EncodeCP \cup EncodeARC \cup EncodeIO \cup EncodeSensors
    \cup EncodeCalibration \cup EncodeWIFI \cup EncodeWIFIAndStatus
    \cup EncodeUpgrade \cup EncodeSeeed \cup EncodeQueue \cup EncodeRGBAndOled
    \cup EncodeAnalog \cup EncodeColorAndXBee \cup EncodeSYN \cup EncodeBle
    \cup EncodeJoystick \cup EncodeBluetooth \cup EncodeBox

-----------------------------------------------------------------------------

\* The hardware version is another byte in a Magician's reply than in that of the
\* other devices; m_Device tells them apart.  The length is not looked at.
DecodeDeviceVersion(device) ==
    LET hwVersion == IF device = "Magician" THEN 13 ELSE 3
    IN Reply(2, 0, "GetDeviceVersion", "",
             <<AtLeast(0, U8(<<"majorVersion", "minorVersion", "revision">>)
                              \o At(hwVersion, "u8", "hwVersion"))>>)

\* decodeDeviceSN to decodeDeviceID, but for the version (see DecodeDeviceVersion).
DecodeDevice ==
    { Reply(0, 0, "GetDeviceSN", "SetDeviceSN", <<AtLeast(1, Rest("deviceSN"))>>),
      Reply(1, 0, "GetDeviceName", "SetDeviceName", <<AtLeast(1, Rest("deviceName"))>>),
      Register(3, "GetDeviceWithL", "SetDeviceWithL", U8(<<"isEnabled">>)),
      Reading(4, "GetDeviceTime", U32(<<"gSystick">>)),
      Reply(5, 0, "GetDeviceID", "", <<Case({0, 1}, 12, 12, U8(<<"id0", "id1", "id2">>))>>) }

\* Device information and pose.
DecodePose ==
    { Reading(6, "GetDeviceInfo", U64(<<"deviceRunTime">>)
            \o U32(<<"devicePowerOn", "devicePowerOff">>)),
      Reply(7, 0, "GetProductName", "", <<AtLeast(1, Rest("productName"))>>),
      Names(8, "", "SetOLEDDisplay"),
      Names(9, "", "SetProgressBar"),
      Reading(10, "GetPose", F32(<<"x", "y", "z", "r", "joint0", "joint1", "joint2", "joint3">>)),
      Names(11, "", "ResetPose"),
      Reading(13, "GetPoseL", F32(<<"positionL">>)) }

\* Limits, alarms and homing.
DecodeHome ==
    { Register(15, "", "CheckPoseLimit", U8(<<"isLimited">>)),
      Reply(20, 0, "GetAlarmsState", "ClearAllAlarmsState", <<AtLeast(1, Rest("alarmsState"))>>),
      QueuedRegister(30, "GetHOMEParams", "SetHOMEParams", F32(<<"x", "y", "z", "r">>)),
      Queued(31, "SetHOMECmd"),
      Reply(32, 0, "GetAutoLeveling", "SetAutoLeveling",
              <<ReadExactly(F32(<<"precision">>)), Case({1}, 8, 8, U64(<<"queuedCmdIndex">>))>>),
      Reading(33, "GetGoHomeStatus", U8(<<"isFinished">>)) }

\* Hand-held trigger, arm and tool offset.
DecodeArm ==
    { Reply(40, 0, "GetHHTTrigMode", "SetHHTTrigMode", <<AtLeast(1, U8(<<"mode">>))>>),
      Register(41, "GetHHTTrigOutputEnabled", "SetHHTTrigOutputEnabled", U8(<<"isEnabled">>)),
      Reading(42, "GetHHTTrigOutput", U8(<<"isTriggered">>)),
      QueuedRegister(50, "GetArmOrientation", "SetArmOrientation", U8(<<"armOrientation">>)),
      Names(51, "GetMotorMode", "SetMotorMode"),
      QueuedRegister(60, "GetEndEffectorParams", "SetEndEffectorParams", F32(<<"xOffset",
          "yOffset", "zOffset">>)) }

\* The tools at the end of the arm.
DecodeEndEffector ==
    { QueuedRegister(61, "GetEndEffectorLaser", "SetEndEffectorLaser", U8(<<"isEnabled",
          "isOn">>)),
      QueuedRegister(62, "GetEndEffectorSuctionCup", "SetEndEffectorSuctionCup",
          U8(<<"isEnabled", "isOn">>)),
      QueuedRegister(63, "GetEndEffectorGripper", "SetEndEffectorGripper", U8(<<"isEnabled",
          "isOn">>)),
      Register(64, "GetEndEffectorType", "SetEndEffectorType", U8(<<"type">>)),
      Register(65, "GetServoAngle", "SetServoAngle", U8(<<"index">>) \o F32(<<"angle">>)) }

\* Speed ratios and jogging params.
DecodeSpeed ==
    { Register(66, "GetArmSpeedRatio", "SetArmSpeedRatio", U8(<<"type", "value">>)),
      Register(67, "GetLSpeedRatio", "SetLSpeedRatio", U8(<<"type", "value">>)),
      Names(68, "GetConfigAndStatus", ""),
      Names(69, "GetRTStatus", ""),
      QueuedRegister(70, "GetJOGJointParams", "SetJOGJointParams", Velocities),
      QueuedRegister(71, "GetJOGCoordinateParams", "SetJOGCoordinateParams", Velocities) }

\* Jogging.
DecodeJOG ==
    { QueuedRegister(72, "GetJOGCommonParams", "SetJOGCommonParams", F32(<<"velocityRatio",
          "accelerationRatio">>)),
      Queued(73, "SetJOGCmd"),
      QueuedRegister(74, "GetJOGLParams", "SetJOGLParams", F32(<<"velocity", "acceleration">>)),
      Queued(75, "SetJOGCmdTime"),
      QueuedRegister(80, "GetPTPJointParams", "SetPTPJointParams", Velocities) }

\* Point to point params.  Five of the structs are as long as a queue index.
DecodePTP ==
    { QueuedRegister(81, "GetPTPCoordinateParams", "SetPTPCoordinateParams",
          F32(<<"xyzVelocity", "rVelocity", "xyzAcceleration", "rAcceleration">>)),
      QueuedRegister(82, "GetPTPJumpParams", "SetPTPJumpParams", F32(<<"jumpHeight", "zLimit">>)),
      QueuedRegister(83, "GetPTPCommonParams", "SetPTPCommonParams", F32(<<"velocityRatio",
          "accelerationRatio">>)),
      Queued(84, "SetPTPCmd"),
      QueuedRegister(85, "GetPTPLParams", "SetPTPLParams", F32(<<"velocity", "acceleration">>)) }

\* Point to point motion with the rail and with outputs.
DecodePTPRail ==
    { Queued(86, "SetPTPWithLCmd"),
      QueuedRegister(87, "GetPTPJump2Params", "SetPTPJump2Params", F32(<<"startJumpHeight",
          "endJumpHeight", "zLimit">>)),
      Queued(88, "SetPTPPOCmd"),
      Queued(89, "SetPTPPOWithLCmd"),
      QueuedRegister(90, "GetCPParams", "SetCPParams", CPParams),
      Queued(91, "SetCPCmd") }

\* Continuous paths and arcs.
DecodeCP ==
    { Queued(92, "SetCPLECmd"),
      Names(93, "GetCPRHoldEnable", "SetCPRHoldEnable"),
      Names(94, "GetCPCommonParams", "SetCPCommonParams"),
      Queued(95, "SetCP2Cmd"),
      QueuedRegister(100, "GetARCParams", "SetARCParams", F32(<<"xyzVelocity", "rVelocity",
          "xyzAcceleration", "rAcceleration">>)),
      Queued(101, "SetARCCmd"),
      Names(102, "", "SetCircleCmd"),
      Names(103, "GetARCCommonParams", "SetARCCommonParams"),
      Queued(110, "SetWAITCmd") }

\* Triggers and outputs.
DecodeIO ==
    { Queued(120, "SetTRIGCmd"),
      Reply(130, 0, "GetIOMultiplexing", "SetIOMultiplexing", <<Exactly(U8(<<"port">>)),
          Exactly(U8(<<"port", "multiplex">>)), QueueIndex>>),
      QueuedRegister(131, "GetIODO", "SetIODO", U8(<<"port", "level">>)),
      QueuedRegister(132, "GetIOPWM", "SetIOPWM", U8(<<"port">>)
            \o F32(<<"frequency", "dutyCycle">>)),
      Reading(133, "GetIODI", U8(<<"port", "level">>)) }

\* Inputs, motors and sensors on the base.
DecodeSensors ==
    { Reading(134, "GetIOADC", U8(<<"port">>) \o U16(<<"value">>)),
      Queued(135, "SetEMotor"),
      Queued(136, "SetEMotorS"),
      QueuedRegister(137, "GetColorSensor", "SetColorSensor", U8(<<"red", "green", "blue">>)),
      QueuedRegister(138, "GetInfraredSensor", "SetInfraredSensor", U8(<<"status">>)),
      Names(139, "GetIICInfo", "SetIICInfo") }

\* Calibration values and WiFi mode.
DecodeCalibration ==
    { Register(140, "GetAngleSensorStaticError", "SetAngleSensorStaticError",
          F32(<<"rearArmAngleError", "frontArmAngleError">>)),
      Register(141, "GetAngleSensorCoef", "SetAngleSensorCoef", F32(<<"rearArmAngle",
          "frontArmAngle">>)),
      Register(142, "SetBaseDecoderStaticError", "GetBaseDecoderStaticError",
          F32(<<"baseDecoderError">>)),
      Names(143, "GetLRHandCalibrateValue", "SetLRHandCalibrateValue"),
      Register(150, "GetWIFIConfigMode", "SetWIFIConfigMode", U8(<<"enable">>)),
      Reply(151, 0, "GetWIFISSID", "SetWIFISSID", <<AtLeast(1, Rest("ssid"))>>) }

\* The WiFi module.
DecodeWIFI ==
    { Reply(152, 0, "GetWIFIPassword", "SetWIFIPassword", <<AtLeast(1, Rest("password"))>>),
      Register(153, "GetWIFIIPAddress", "SetWIFIIPAddress", U8(<<"dhcp">>) \o Address),
      Register(154, "GetWIFINetmask", "SetWIFINetmask", Address),
      Register(155, "GetWIFIGateway", "SetWIFIGateway", Address),
      Register(156, "GetWIFIDNS", "SetWIFIDNS", Address) }

\* Lost steps, collisions, device status.
DecodeStatus ==
    { Reading(157, "GetWIFIConnectStatus", U8(<<"isConnected">>)),
      Names(170, "", "SetLostStepParams"),
      Names(171, "", "SetLostStepCmd"),
      Register(172, "GetCollisionCheck", "SetCollisionCheck", U8(<<"isEnabled">>)
            \o F32(<<"threshold">>)),
      Names(192, "GetDeviceStatus", "SetDeviceStatus"),
      Names(193, "GetDeviceRunAPP", "SetDeviceRunAPP"),
      Register(194, "GetUpgradeStatus", "SetUpgradeStatus", U8(<<"latest">>)) }

\* Firmware upgrade, coloured objects, Seeed sensors.
DecodeUpgrade ==
    { Names(195, "GetRunUpgrade", "SetRunUpgrade"),
      Names(196, "GetStartTransmit", "SetStartTransmit"),
      Names(197, "GetUpgradeVeify", "SetUpgradeVeify"),
      Names(198, "", "SetRestartDeviceCmd"),
      Reply(200, 0, "GetColorObjCoordinate", "GetColorObjExist",
              <<Case({1}, 0, 255, U8(<<"status">>)),
                Case({0}, 0, 255, U8(<<"color">>) \o U16(<<"coordinate">>))>>),
      Reading(210, "GetSeeedDistanceSensor", U8(<<"distance">>)),
      Register(211, "GetSeeedTempSensor", "SetSeeedTempSensor", U8(<<"temperature", "humidity">>)),
      Register(212, "GetSeeedLightSensor", "SetSeeedLightSensor", U32(<<"intensity">>)) }

\* Seeed sensors and the queue; 216 and 217 are in the tables below.
DecodeSeeed ==
    { Register(213, "GetSeeedColorSensor", "SetSeeedColorSensor", U16(<<"red", "green", "blue",
          "cct">>)),
      Names(214, "", "SetSeeedRGBLed"),
      Names(215, "GetMCUTemperature", ""),
      Names(240, "", "QueuedCmdStart"),
      Names(241, "", "QueuedCmdStop"),
      Names(242, "QueuedCmdForceStop", ""),
      Names(243, "", "QueuedCmdStartDownload") }

\* The command queue, sub ids 1 to 4 of the sensor box.
DecodeQueue ==
    { Names(244, "", "QueuedCmdStopDownload"),
      Names(245, "", "QueuedCmdClear"),
      Reading(246, "GetQueuedCmdCurrentIndex", U64(<<"queuedCmdIndex">>)),
      Reply(247, 0, "GetQueuedCmdLeftSpace", "", <<Exactly(U64(<<"leftSpace">>)),
          Exactly(U32(<<"leftSpace">>))>>),
      Names(248, "GetQueuedCmdMotionFinish", ""),
      SetDone(216, 1, "SensorRGBLEDInit"),
      SetDone(216, 2, "SensorSetRGBLEDVlaue"),
      SetDone(216, 3, "SensorRGBLEDTurnOFFAll"),
      SetDone(216, 4, "SensorSetRGBLEDState") }

\* Sub ids 10 to 25.
DecodeAnalog ==
    { SetDone(216, 10, "SensorOledInit"),
      SetDone(216, 11, "SensorOledClear"),
      SetDone(216, 12, "SensorOledDisplay"),
      SetDone(216, 20, "SensorKnobInit"),
      Reply(216, 21, "SensorGetKnob", "", <<Exactly(U16(<<"value">>))>>),
      SetDone(216, 22, "SensorVoiceInit"),
      Reply(216, 23, "SensorGetVoice", "", <<Exactly(U16(<<"value">>))>>),
      SetDone(216, 24, "SensorLightInit"),
      Reply(216, 25, "SensorGetLight", "", <<Exactly(U16(<<"value">>))>>) }

\* Sub ids 26 to 32.
DecodeDistance ==
    { SetDone(216, 26, "SensorPEInit"),
      Reply(216, 27, "SensorGetPEState", "", <<Exactly(U8(<<"value">>))>>),
      GetDone(216, 28, "SensorUltrasonicInit"),
      Reply(216, 29, "SensorUltrasonicGet", "", <<Exactly(U8(<<"value">>))>>),
      GetDone(216, 30, "SensorSHT31Init"),
      Reply(216, 31, "SensorGetSHT31", "", <<Exactly(U8(<<"tem", "hum">>))>>),
      GetDone(216, 32, "SensorColorInit") }

\* Sub ids 33 to 51.
DecodeXBee ==
    { Reply(216, 33, "SensorGetColor", "", <<Exactly(U16(<<"value">>))>>),
      Reply(216, 34, "SensorGetColorRes", "", <<Exactly(U8(<<"color">>))>>),
      SetDone(216, 40, "SensorXBeeInit"),
      SetDone(216, 41, "SensorXBeeSend"),
      Reply(216, 42, "SensorXBeeReceive", "", <<AtLeast(0, Skip(1) \o Rest("text"))>>),
      GetDone(216, 43, "SensorXBeeClear"),
      SetDone(216, 50, "SensorSYNInit"),
      SetDone(216, 51, "SensorSetSYN") }

\* Sub ids 52 to 65.
DecodeBle ==
    { SetDone(216, 52, "SensorSetSYNMusic"),
      SetDone(216, 53, "SensorSendSYN"),
      SetDone(216, 54, "SensorSetSYNCmd"),
      Reply(216, 60, "GetBleInf", "SetBleInf",
              <<WrittenAtLeast(1, U8(<<"state">>)), Case({0}, 2, 255, Skip(2) \o Rest("name"))>>),
      Reply(216, 61, "", "BleConnect", <<WrittenAtLeast(1, U8(<<"state">>))>>),
      Reply(216, 63, "", "BleReadOneData", <<AtLeast(1, Skip(1) \o U8(<<"data">>))>>),
      SetDone(216, 64, "BleWriteOneData"),
      Reply(216, 65, "", "SetBleMesh", <<WrittenAtLeast(1, <<>>)>>) }

\* Sub ids 66 to 72.
DecodeMesh ==
    { Reply(216, 66, "", "BleReadMeshData",
              <<WrittenAtLeast(1, U8(<<"state", "devID">>) \o Skip(1) \o Rest("data"))>>),
      Reply(216, 67, "", "BleWriteMeshData", <<WrittenAtLeast(1, U8(<<"state">>))>>),
      Reply(216, 68, "", "BleClearMeshData", <<Case({1}, 1, 1, U8(<<"result">>))>>),
      Reply(216, 70, "SetSensorHandModel", "SetSensorHandModel", <<Exactly(U8(<<"InitState">>))>>),
      Reply(216, 71, "GetSensorHandModel", "GetSensorHandModel", <<Exactly(U8(<<"data">>))>>),
      Reply(216, 72, "IsSensorHandModel", "IsSensorHandModel", <<Exactly(U8(<<"data">>))>>) }

\* Sub ids 73 to 79.
DecodeJoystick ==
    { Reply(216, 73, "IsJoystickButton", "IsJoystickButton", <<Exactly(U8(<<"res">>))>>),
      Reply(216, 74, "GetJoystickPos", "GetJoystickPos", <<Exactly(U8(<<"x", "y", "z">>))>>),
      Reply(216, 75, "GetJoystickButton", "GetJoystickButton",
              <<AtLeast(0, U8(<<"count">>) \o Rest("res"))>>),
      Reply(216, 76, "IsPirDetected", "IsPirDetected", <<Exactly(U8(<<"res">>))>>),
      Reply(216, 77, "GetButtonStatus", "GetButtonStatus", <<Exactly(U8(<<"redBtn",
          "blueBtn">>))>>),
      Reply(216, 78, "GetRedButtonStatus", "GetRedButtonStatus", <<Exactly(U8(<<"status">>))>>),
      Reply(216, 79, "GetBlueButtonStatus", "GetBlueButtonStatus", <<Exactly(U8(<<"status">>))>>) }

\* Sub ids 90 to 95.
DecodeBluetooth ==
    { Reply(216, 90, "", "BluetoothSetMaster", <<WrittenAtLeast(1, U8(<<"state">>))>>),
      Reply(216, 91, "", "BluetoothSetSlave", <<WrittenAtLeast(1, U8(<<"state">>))>>),
      Reply(216, 92, "", "BluetoothRecvData", <<AtLeast(2, U8(<<"state">>) \o Skip(1)
            \o Rest("data"))>>),
      Reply(216, 93, "", "BluetoothSendData", <<WrittenAtLeast(1, U8(<<"state">>))>>),
      SetDone(216, 94, "BluetoothClearCacheData"),
      Reply(216, 95, "", "BluetoothGetMacAddress", <<AtLeast(2, U8(<<"state">>) \o Skip(1)
            \o Rest("mac"))>>) }

\* The MagicBox's own functions, the sub id left in the params.
DecodeBox ==
    { SetDone(217, 10, "SetStopPointServer"),
      SetDone(217, 11, "SetStopPointParam"),
      Reply(217, 12, "GetStopPointState", "", <<Case({0}, 0, 255, Skip(1) \o U8(<<"result">>))>>),
      Reply(217, 20, "GetImgToArmXY", "",
              <<Case({0}, 0, 255, Skip(1) \o F32(<<"armX", "armY">>) \o U8(<<"okflag">>))>>) }


\* m_decodeFuncMap
DecodeFuncMap ==
    DecodeDevice \cup DecodePose \cup DecodeHome \cup DecodeArm
    \cup DecodeEndEffector \cup DecodeSpeed \cup DecodeJOG \cup DecodePTP
    \cup DecodePTPRail \cup DecodeCP \cup DecodeIO \cup DecodeSensors
    \cup DecodeCalibration \cup DecodeWIFI \cup DecodeStatus \cup DecodeUpgrade
    \cup DecodeSeeed
    \cup {r \in DecodeQueue : r.id # 216}

\* m_decodeDobotSensorFuncMap
DecodeDobotSensorFuncMap ==
    DecodeAnalog \cup DecodeDistance \cup DecodeXBee \cup DecodeBle
    \cup DecodeMesh \cup DecodeJoystick \cup DecodeBluetooth
    \cup {r \in DecodeQueue : r.id = 216}

\* m_decodeBoxFuncMap
DecodeBoxFuncMap == DecodeBox
=============================================================================
