---------------------------- MODULE P3Callbacks -----------------------------
(***************************************************************************)
(* The callbacks the Apis register with the protocol stack: what each      *)
(* makes of a reply, and which one is in force for a command id of a rule. *)
(* A later registration of an id replaces the earlier one.                 *)
(***************************************************************************)
EXTENDS Naturals, Sequences, SequencesExt, TLC

\* What a callback puts into the result: "true", the values under its keys, or one or
\* the other as the reply's rwType says.  Every callback passes a timeout on, but one.
Callback(forRead, forWrite, forTimeout) == [read |-> forRead, write |-> forWrite, timeout |-> forTimeout]
True == <<"true">>
TimedOut == <<"timeout">>
Done == Callback(True, True, TimedOut)
Data(keys) == Callback(keys, keys, TimedOut)
ByAccess(keys) == Callback(keys, True, TimedOut)
\* SetMoveSpeedTime_CB overwrites the timeout in the else branch of its second test.
DoneAnyway == Callback(True, True, True)

-----------------------------------------------------------------------------
\* GeneralApi
GeneralCallbacks ==
    "HeartBeat_CB" :> Done @@
    "DeviceSN_CB" :> ByAccess(<<"deviceSN">>) @@
    "DeviceName_CB" :> ByAccess(<<"deviceName">>) @@
    "GetDeviceFwSoftwareVersion_CB" :> Data(<<"previousVersionNum", "revisionVersionNum",
        "secondVersionNum", "majorVersionNum">>) @@
    "GetDeviceFwHardwareVersion_CB" :> Data(<<"previousVersionNum", "revisionVersionNum",
        "secondVersionNum", "majorVersionNum">>) @@
    "GetDeviceTime_CB" :> Data(<<"deviceTime", "passtime">>) @@
    "GetDeviceID_CB" :> Data(<<"deviceID">>)

\* GeneralApi, continued.
GeneralLateCallbacks ==
    "GetProductName_CB" :> Data(<<"productName">>) @@
    "DeviceReboot_CB" :> Done

\* MagicianGoApi: modes and speeds.
GoModeCallbacks ==
    "RunningState_CB" :> ByAccess(<<"runningState">>) @@
    "RunningMode_CB" :> ByAccess(<<"runningMode">>) @@
    "SetBaseMode_CB" :> Done @@
    "BaseSpeedRatio_CB" :> ByAccess(<<"speedRatio">>) @@
    "SetMoveSpeedTime_CB" :> DoneAnyway @@
    "SetMoveSpeedDirect_CB" :> Done @@
    "MoveSpeed_CB" :> ByAccess(<<"x", "y", "r">>)

\* MagicianGoApi: moves; a queued command is answered with its index.
GoMoveCallbacks ==
    "SetRotate_CB" :> Data(<<"index">>) @@
    "SetMoveDist_CB" :> Data(<<"index">>) @@
    "SetMovePos_CB" :> Data(<<"index">>) @@
    "SetArcRad_CB" :> Data(<<"index">>) @@
    "SetArcCent_CB" :> Data(<<"index">>) @@
    "SetCoordClosedLoop_CB" :> Done @@
    "SetIncrementClosedLoop_CB" :> Data(<<"index">>) @@
    "SetLightRGB_CB" :> Done

\* MagicianGoApi: light, sound, distances.
GoLightCallbacks ==
    "SetLightPrompt_CB" :> Done @@
    "SetBuzzerSound_CB" :> Done @@
    "SetOriginPoint_CB" :> Done @@
    "GetUltrasoundData_CB" :> Data(<<"front", "back", "left", "right">>) @@
    "GetSwitchState_CB" :> Data(<<"front_left", "back_right", "rear_left",
        "rear_right">>) @@
    "SetSpeedometer_CB" :> Done @@
    "GetSpeedometer_CB" :> Data(<<"x", "y", "yaw">>)

\* MagicianGoApi: sensors and alarms.
GoSensorCallbacks ==
    "GetStallProtection_CB" :> Data(<<"isHappened">>) @@
    "GetOffGround_CB" :> Data(<<"isHappened">>) @@
    "GetBatteryVoltage_CB" :> Data(<<"powerVoltage", "powerPercentage",
        "powerSourceStatus">>) @@
    "GetImuAngle_CB" :> Data(<<"yaw", "roll", "pitch">>) @@
    "GetImuSpeed_CB" :> Data(<<"ax", "ay", "az", "gx", "gy", "gz">>) @@
    "AlarmInfo_CB" :> ByAccess(<<"warning">>) @@
    "SetTraceAuto_CB" :> Done

\* MagicianGoApi: tracing and the queue.
GoTraceCallbacks ==
    "SetTraceLineInfo_CB" :> Done @@
    "SetTraceSpeed_CB" :> Done @@
    "LineSensorState_CB" :> ByAccess(<<"frontIsEnable", "backIsEnable">>) @@
    "SetLineSensorAdjust_CB" :> Done @@
    "SetLineSensorDefault_CB" :> Done @@
    "GetLineSensorData_CB" :> Data(<<"front", "back">>) @@
    "SetCmdQueueStart_CB" :> Done @@
    "SetCmdQueueStop_CB" :> Done @@
    "SetCmdQueueForcelyStop_CB" :> Done @@
    "CleanCmdQueue_CB" :> Done

\* MagicianGoApi: what the queue says of itself.
GoQueueCallbacks ==
    "GetQueuedCmdCurrentIndex_CB" :> Data(<<"queueCmdCurrentIndex">>) @@
    "GetCmdQueueAvailableSpace_CB" :> Data(<<"space">>) @@
    "SetTracePid_CB" :> Done @@
    "SetTraceLoop_CB" :> Done @@
    "GetImgToArmXY_CB" :> Data(<<"armX", "armY", "okflag">>)

\* CameraApi: lists of what the arm camera sees.
ArmCameraCallbacks ==
    "GetArmCameraAngle_CB" :> Data(<<"count", "crc", "angle">>) @@
    "GetArmCameraColor_CB" :> Data(<<"count", "color_obj">>) @@
    "GetArmCameraObj_CB" :> Data(<<"count", "dl_obj">>)

\* CameraApi: tags and settings of the arm camera.
ArmModelCallbacks ==
    "GetArmCameraTag_CB" :> Data(<<"count", "crc", "aptag_obj">>) @@
    "SetArmCameraCalibrationMode_CB" :> Done @@
    "ArmCameraCalibrationMode_CB" :> ByAccess(<<"isEnableCali">>) @@
    "SetArmCameraRunModel_CB" :> Done @@
    "ArmCameraRunModel_CB" :> ByAccess(<<"runModelIndex">>)

\* CameraApi: lists of what the car camera sees.
CarCameraCallbacks ==
    "GetCarCameraAngle_CB" :> Data(<<"count", "angle">>) @@
    "GetCarCameraColor_CB" :> Data(<<"count", "color_obj">>) @@
    "GetCarCameraObj_CB" :> Data(<<"count", "dl_obj">>)

\* CameraApi: tags and settings of the car camera.
CarModelCallbacks ==
    "GetCarCameraTag_CB" :> Data(<<"count", "aptag_obj">>) @@
    "SetCarCameraCalibrationMode_CB" :> Done @@
    "CarCameraCalibrationMode_CB" :> ByAccess(<<"isEnableCali">>) @@
    "SetCarCameraRunModel_CB" :> Done @@
    "CarCameraRunModel_CB" :> ByAccess(<<"runModelIndex">>)

\* MagicBoxApi
BoxCallbacks ==
    "GetMagicBoxMode_CB" :> Data(<<"mode">>) @@
    "GetMagicBoxNum_CB" :> Data(<<"num", "Device">>) @@
    "SetMagicBoxScriptMode_CB" :> Data(<<"result">>) @@
    "SetStopPointServer_CB" :> Done @@
    "SetStopPointParam_CB" :> Done @@
    "GetStopPointState_CB" :> Data(<<"result">>)

-----------------------------------------------------------------------------
\* RegisterCB calls of one rule, in the order they are made.
Reg(rule, pairs) == [i \in DOMAIN pairs |-> [rule |-> rule, id |-> pairs[i][1], cb |-> pairs[i][2]]]

\* The constructor of GeneralApi.
GeneralRegistrations ==
    Reg("General", <<
        <<0, "HeartBeat_CB">>, <<10, "DeviceSN_CB">>, <<11, "DeviceName_CB">>,
        <<12, "GetDeviceFwSoftwareVersion_CB">>, <<13, "GetDeviceFwHardwareVersion_CB">>,
        <<14, "GetDeviceTime_CB">>, <<15, "GetDeviceID_CB">>,
        <<17, "GetProductName_CB">>, <<20, "DeviceReboot_CB">>>>)

\* The constructor of MagicianGoApi.
GoRegistrations ==
    Reg("MGo", <<
        <<0, "RunningState_CB">>, <<1, "RunningMode_CB">>, <<3, "SetBaseMode_CB">>,
        <<10, "MoveSpeed_CB">>, <<4, "BaseSpeedRatio_CB">>,
        <<9, "SetMoveSpeedDirect_CB">>, <<11, "SetRotate_CB">>, <<12, "SetMoveDist_CB">>,
        <<13, "SetMovePos_CB">>, <<15, "SetArcRad_CB">>, <<16, "SetArcCent_CB">>,
        <<17, "SetCoordClosedLoop_CB">>, <<18, "SetIncrementClosedLoop_CB">>,
        <<20, "SetLightRGB_CB">>, <<21, "SetLightPrompt_CB">>,
        <<25, "SetBuzzerSound_CB">>, <<26, "SetOriginPoint_CB">>,
        <<30, "GetUltrasoundData_CB">>, <<31, "GetSwitchState_CB">>,
        <<56, "GetLineSensorData_CB">>, <<33, "SetSpeedometer_CB">>,
        <<33, "GetSpeedometer_CB">>, <<34, "GetStallProtection_CB">>,
        <<35, "GetOffGround_CB">>, <<36, "GetBatteryVoltage_CB">>,
        <<37, "GetImuAngle_CB">>, <<38, "GetImuSpeed_CB">>, <<40, "AlarmInfo_CB">>,
        <<50, "SetTraceAuto_CB">>, <<51, "SetTraceLineInfo_CB">>,
        <<52, "SetTraceSpeed_CB">>, <<53, "LineSensorState_CB">>,
        <<54, "SetLineSensorAdjust_CB">>, <<55, "SetLineSensorDefault_CB">>,
        <<56, "GetLineSensorData_CB">>, <<57, "SetTracePid_CB">>,
        <<240, "SetCmdQueueStart_CB">>, <<241, "SetCmdQueueStop_CB">>,
        <<242, "SetCmdQueueForcelyStop_CB">>, <<245, "CleanCmdQueue_CB">>,
        <<246, "GetQueuedCmdCurrentIndex_CB">>, <<247, "GetCmdQueueAvailableSpace_CB">>,
        <<8, "SetMoveSpeedTime_CB">>>>) \o
    Reg("MBox", <<
        <<217, "SetTraceLoop_CB">>>>) \o
    Reg("MGo", <<
        <<217, "GetImgToArmXY_CB">>>>)

\* The constructor of CameraApi.
CameraRegistrations ==
    Reg("K210Car", <<
        <<10, "GetCarCameraAngle_CB">>, <<20, "GetCarCameraColor_CB">>,
        <<30, "GetCarCameraObj_CB">>, <<50, "GetCarCameraTag_CB">>,
        <<103, "CarCameraCalibrationMode_CB">>, <<103, "CarCameraCalibrationMode_CB">>,
        <<102, "CarCameraRunModel_CB">>, <<102, "CarCameraRunModel_CB">>>>) \o
    Reg("K210Arm", <<
        <<10, "GetArmCameraAngle_CB">>, <<20, "GetArmCameraColor_CB">>,
        <<30, "GetArmCameraObj_CB">>, <<50, "GetArmCameraTag_CB">>,
        <<103, "ArmCameraCalibrationMode_CB">>, <<103, "ArmCameraCalibrationMode_CB">>,
        <<102, "ArmCameraRunModel_CB">>, <<102, "ArmCameraRunModel_CB">>>>)

\* The constructor of MagicBoxApi.
BoxRegistrations ==
    Reg("MBox", <<
        <<192, "GetMagicBoxMode_CB">>, <<193, "GetMagicBoxNum_CB">>,
        <<199, "SetMagicBoxScriptMode_CB">>, <<217, "SetStopPointServer_CB">>,
        <<217, "SetStopPointParam_CB">>, <<217, "GetStopPointState_CB">>>>)

-----------------------------------------------------------------------------
Callbacks ==
    GeneralCallbacks @@ GeneralLateCallbacks @@ GoModeCallbacks @@ GoMoveCallbacks @@
    GoLightCallbacks @@ GoSensorCallbacks @@ GoTraceCallbacks @@ GoQueueCallbacks @@
    ArmCameraCallbacks @@ ArmModelCallbacks @@ CarCameraCallbacks @@ CarModelCallbacks @@
    BoxCallbacks

\* The Apis are constructed when the program is loaded, each before main and in no
\* order the language fixes between two source files.  MagicianGoApi and MagicBoxApi
\* register for one id of the same rule, so their order matters.
Orders == {"MagicBoxLast", "MagicianGoLast"}
RegistrationsBoxLast ==
    GeneralRegistrations \o CameraRegistrations \o GoRegistrations \o BoxRegistrations
RegistrationsGoLast ==
    GeneralRegistrations \o CameraRegistrations \o BoxRegistrations \o GoRegistrations

\* RegisterCB: of the registrations of an id the last one is in force.
RegisterCB(places) == Max(places)

\* CmdCallBackHandle: the callback of a packet, if there is one.
CmdCallBack(order, rule, id) ==
    LET list == IF order = "MagicBoxLast" THEN RegistrationsBoxLast ELSE RegistrationsGoLast
        places == {i \in DOMAIN list : list[i].rule = rule /\ list[i].id = id}
    IN IF places = {} THEN {} ELSE {Callbacks[list[RegisterCB(places)].cb]}
=============================================================================
