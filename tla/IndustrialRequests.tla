------------------------- MODULE IndustrialRequests -------------------------
(***************************************************************************)
(* What the handlers of Device (IndustrialRobotPlugin) do with a request.  *)
(* A handler is a sequence of steps, each an HTTP request to the           *)
(* controller, an operation on one of its files, or something local; a     *)
(* step that succeeds leads to the next one, the last one to the answer,   *)
(* and a step that fails to an error.  The place a step works on is kept   *)
(* (the url or the path), for what one request writes another one reads.   *)
(* At the end: the status that a handler takes over and sends back, and    *)
(* the Lua debugger it writes to.                                          *)
(***************************************************************************)
EXTENDS Naturals, TLC

Step(do, at, key) == [do |-> do, at |-> at, key |-> key, op |-> "", as |-> "", else |-> FALSE, say |-> ""]

\* m_module->sendGetRequest and sendPostRequest.
Get(url) == Step("get", url, "all")
Post(url) == Step("post", url, "all")
\* The request goes out under another api name, or under none.
As(name, step) == [step EXCEPT !.as = name]
Unnamed(step) == As("none", step)
\* One of the two, as the request says.
Public == Step("public", "/url", "all")
\* _getStatus: the answer is the field of the status the api is about.
Status == Get("/protocol/exchange")
\* A nested event loop waits for the status; one field of it changes and all is posted.
Loop(key) == Step("loop", "/protocol/exchange", key)

\* A task of m_fileControll on a file or a folder.
OnFile(op, at) == [Step("file", at, "all") EXCEPT !.op = op]
Read(path) == OnFile("readFile", path)
Write(path) == OnFile("writeFile", path)
Change(path, key) == [OnFile("changeFile", path) EXCEPT !.key = key]
\* pathIsExist under a nested event loop.
Await(path) == [Step("await", path, "all") EXCEPT !.op = "pathIsExist"]

\* The step answers when it succeeds; only a failure leads to the next step.
Else(step) == [step EXCEPT !.else = TRUE]
\* Answered at once, and the request goes out all the same; answered whatever comes back.
AndSay(step) == [step EXCEPT !.say = "first"]
Anyhow(step) == [step EXCEPT !.say = "anyhow"]

\* Answered on the spot: always, by what a local call returns, if the
\* parameters are there; or never.
Say == Step("say", "", "all")
Local == Step("local", "", "all")
Check == Step("check", "", "all")
Silent == Step("silent", "", "all")
\* CheckSamba and OpenSamba answer on Windows 7 and 10 only.
Samba == Step("samba", "", "all")
Search == Step("search", "", "all")
AddIP == Step("say", "", "all")
Disconnect == Step("disconnect", "", "all")

\* Places named by the request, and the two folders that may not be there.
AnyUrl == "/url"
AnyFile == "/project/file"
Pallet == "/project/process/pallet/"
Trajectory == "/project/process/trajectory/"
\* These answer with whatever the file holds, JSON or not.
TextApis == {"ReadFile", "ReadFileString"}

-----------------------------------------------------------------------------

\* Searching, raw requests and reading a file.
Gateways ==
    "SearchDobot" :> <<Search>> @@
    "SendPostCmd" :> <<Unnamed(Post(AnyUrl))>> @@
    "SendGetCmd" :> <<Unnamed(Get(AnyUrl))>> @@
    "ReadFile" :> <<Read(AnyFile)>> @@
    "ReadFileString" :> <<Read(AnyFile)>>

\* Writing, creating and decoding a file.
FileWrites ==
    "WriteFile" :> <<Check, Write(AnyFile)>> @@
    "NewFile" :> <<Check, OnFile("newFile", AnyFile)>> @@
    "DecodeBase64File" :> <<OnFile("decodeFile", AnyFile)>>

\* Folders.
Folders ==
    "NewFolder" :> <<OnFile("newFolder", AnyFile)>> @@
    "ReadFolder" :> <<OnFile("readFolder", AnyFile)>> @@
    "DeleteFolder" :> <<OnFile("deleteFolder", AnyFile)>> @@
    "RenameFolder" :> <<OnFile("renameFolder", AnyFile)>> @@
    "CopyFolder" :> <<OnFile("copyFolder", AnyFile)>>

\* Paths, the connection and the control mode.
PathsAndModes ==
    "PathIsExist" :> <<Check, OnFile("pathIsExist", AnyFile)>> @@
    "CopyFileFromLocaleToSmb" :> <<OnFile("copyFileFromLocaleToSmb", AnyFile)>> @@
    "GetConnectionState" :> <<Get("/connection/state")>> @@
    "Exchange" :> <<Check, Post("/protocol/exchange")>> @@
    "GetDobotStatus" :> <<Status>> @@
    "SetControlMode" :> <<Post("/settings/controlMode")>> @@
    "GetControlMode" :> <<Status>> @@
    "SetCoordinateMode" :> <<Check, Loop("coordinate")>>

\* Jog and coordinate modes, poses and alarms, out of the status.
Modes ==
    "GetCoordinateMode" :> <<Status>> @@
    "SetCoordinateMode2" :> <<Post("/interface/coordinate")>> @@
    "SetJogMode" :> <<Check, Loop("jogMode")>> @@
    "GetJogMode" :> <<Status>> @@
    "SetJogMode2" :> <<Post("/interface/jogMode")>> @@
    "SetToolCoordPattern" :> <<Check, Loop("toolCoordinate")>> @@
    "GetToolCoordPattern" :> <<Status>> @@
    "SetUserCoordPattern" :> <<Check, Loop("userCoordinate")>> @@
    "GetUserCoordPattern" :> <<Status>> @@
    "GetAutoManualMode" :> <<Status>> @@
    "GetJointCoordinate" :> <<Status>> @@
    "GetCartesianCoordinate" :> <<Status>> @@
    "GetisCollision" :> <<Status>> @@
    "GetProjectState" :> <<Status>> @@
    "GetAlarms" :> <<Status>>

\* Alarms, outputs and the common settings.
Outputs ==
    "ClearAlarms" :> <<Loop("alarms")>> @@
    "ClearAlarms2" :> <<Post("/interface/clearAlarms")>> @@
    "GetInput" :> <<Status>> @@
    "SetOutput" :> <<Check, Loop("outputs")>> @@
    "SetOutput2" :> <<Post("/interface/outputs")>> @@
    "GetOutput" :> <<Status>> @@
    "SetExtendIO" :> <<Post("/interface/extendIO")>> @@
    "GetExtendDI" :> <<Status>> @@
    "GetExtendDO" :> <<Status>> @@
    "SetCommonSetting" :> <<Write("/project/settings/common.json"), Post("/settings/common")>> @@
    "GetCommonSetting" :> <<Read("/project/settings/common.json")>>

\* Speeds while teaching.
TeachSettings ==
    "SetTeachJoint" :> <<Write("/project/settings/teach/joint.json"), Post("/settings/teach/joint")>> @@
    "GetTeachJoint" :> <<Read("/project/settings/teach/joint.json")>> @@
    "SetTeachCoordinate" :> <<Write("/project/settings/teach/coordinate.json"), Post("/settings/teach/coordinate")>> @@
    "GetTeachCoordinate" :> <<Read("/project/settings/teach/coordinate.json")>> @@
    "SetTeachInch" :> <<Write("/project/settings/teach/inch.json"), Post("/settings/teach/inch")>> @@
    "GetTeachInch" :> <<Read("/project/settings/teach/inch.json")>>

\* Speeds while playing back.
PlaybackSettings ==
    "SetPlaybackJoint" :> <<Write("/project/settings/playback/joint.json"), Post("/settings/playback/joint")>> @@
    "GetPlaybackJoint" :> <<Read("/project/settings/playback/joint.json")>> @@
    "SetPlaybackCoordinate" :> <<Write("/project/settings/playback/coordinate.json"), Post("/settings/playback/coordinate")>> @@
    "GetPlaybackCoordinate" :> <<Read("/project/settings/playback/coordinate.json")>> @@
    "SetPlaybackArch" :> <<Write("/project/settings/playback/arch.json"), Post("/settings/playback/arch")>> @@
    "GetPlaybackArch" :> <<Read("/project/settings/playback/arch.json")>>

\* Tool and user coordinates, teach files.
CoordinateSettings ==
    "SetToolCoordinate" :> <<Write("/project/settings/coordinate/tool.json"), Post("/settings/coordinate/tool")>> @@
    "SetToolCoordinate2" :> <<Post("/interface/coordinate")>> @@
    "GetToolCoordinate" :> <<Read("/project/settings/coordinate/tool.json")>> @@
    "SetUserCoordinate" :> <<Write("/project/settings/coordinate/user.json"), Post("/settings/coordinate/user")>> @@
    "SetUserCoordinate2" :> <<Post("/interface/userCoordinate")>> @@
    "GetUserCoordinate" :> <<Read("/project/settings/coordinate/user.json")>> @@
    "SetTeachFileUpdate" :> <<Post("/project/teachFileUpdate")>> @@
    "DelTeachFileDelete" :> <<Post("/project/teachFileDelete")>>

\* Drag sensivity, calibration, start of the debugger.
Calibration ==
    "SetDragSensivity" :> <<Write("/project/settings/function/dragSensivity.json"), Post("/settings/function/dragSensivity")>> @@
    "GetDragSensivity" :> <<Read("/project/settings/function/dragSensivity.json")>> @@
    "SetCalibrateToolCoor" :> <<Post("/calibrate/coordinate/tool")>> @@
    "SetCalibrateToolPosition" :> <<Post("/calibrate/coordinate/tool/position")>> @@
    "SetCalibrateToolPose" :> <<Post("/calibrate/coordinate/tool/pose")>> @@
    "SetCalibrateUserCoor" :> <<Post("/calibrate/coordinate/user")>> @@
    "SetCalibrateLeftRightHand" :> <<Check, Post("/calibrate/leftRightHand")>> @@
    "SetCalibrateHome" :> <<Post("/calibrate/home")>> @@
    "SetCalibrateAxis" :> <<Post("/calibrate/homeSingleAxis")>> @@
    "GetDebuggerState" :> <<Get("/debugger/state")>> @@
    "SetDebuggerStart" :> <<Post("/debugger/start")>>

\* The debugger without mobdebug.
Debugger ==
    "SetDebuggerStop" :> <<Post("/debugger/stop")>> @@
    "SetDebuggerRun" :> <<Post("/debugger/run")>> @@
    "SetDebuggerSuspend" :> <<Post("/debugger/suspend")>> @@
    "SetDebuggerStepIn" :> <<Post("/debugger/stepIn")>> @@
    "SetDebuggerStepOver" :> <<Post("/debugger/stepOver")>> @@
    "SetDebuggerSetb" :> <<Post("/debugger/setb")>>

\* Break points, the panel and the network.
Panel ==
    "SetDebuggerDelb" :> <<Post("/debugger/delb")>> @@
    "SetDebuggerDelAllb" :> <<Post("/debugger/delallb")>> @@
    "SetAutoManualMode" :> <<Post("/panel/autoManual")>> @@
    "SetThreeSwitch" :> <<Post("/panel/threeSwitch")>> @@
    "SetEmergencyStop" :> <<Post("/panel/emergencyStop")>> @@
    "GetEmergencyStop" :> <<Get("/panel/emergencyStop")>> @@
    "SetJogCmd" :> <<Post("/panel/jog")>> @@
    "SetEthernet" :> <<Post("/interface/ethernet")>> @@
    "GetEthernet" :> <<Get("/interface/ethernet")>> @@
    "SetAP" :> <<Post("/interface/setAP")>> @@
    "GetAP" :> <<Get("/interface/setAP")>> @@
    "SetVisionCoordinate" :> <<Post("/interface/visionCoordinate")>>

\* Motion, encoders and digital inputs.
Motion ==
    "SetMoveCmd" :> <<Post("/interface/move")>> @@
    "GetCurrentEncoder" :> <<Post("/interface/readCurrentEncoder")>> @@
    "GetSensorEncoder" :> <<Post("/interface/readSensorEncoder")>> @@
    "SetSensorEncoderListen" :> <<Check, Post("/interface/listenSensor")>> @@
    "SetManualSpeedRatio" :> <<Post("/interface/manualCommon")>> @@
    "GetManualSpeedRatio" :> <<Get("/interface/manualCommon")>> @@
    "SetDIMode" :> <<Post("/interface/setDIMode")>> @@
    "GetDIMode" :> <<Post("/interface/getDIMode")>> @@
    "SetDIValue" :> <<Post("/interface/setDIValue")>> @@
    "SetGPIOAO" :> <<Write("/project/settings/function/gpioAO.json"), Post("/settings/function/gpioAO")>> @@
    "GetGPIOAO" :> <<Read("/project/settings/function/gpioAO.json")>>

\* Analogue inputs, load and collision.
SafetyFiles ==
    "SetGPIOAI" :> <<Write("/project/settings/function/gpioAI.json"), Post("/settings/function/gpioAI")>> @@
    "GetGPIOAI" :> <<Read("/project/settings/function/gpioAI.json")>> @@
    "SetGeneralSafeSetting" :> <<Post("/settings/function/generalSafeSetting")>> @@
    "SetLoadParams" :> <<Write("/project/settings/function/loadParams.json"), Post("/settings/function/loadParams")>> @@
    "GetLoadParams" :> <<Get("/settings/function/loadParams")>> @@
    "SetAdvancedFunc" :> <<Post("/settings/function/advancedFunction")>> @@
    "SetCollisionDetect" :> <<Change("/project/settings/function/collisionDect.json", "value"), Post("/settings/function/collisionDect")>>

\* Collision and skin.
Collision ==
    "SetCollisionDetectLevel" :> <<Change("/project/settings/function/collisionDect.json", "level"), Post("/settings/function/collisionDect")>> @@
    "SetCollisionDetectResumeType" :> <<Change("/project/settings/function/collisionDect.json", "resumeType"), Post("/settings/function/collisionDect")>> @@
    "SetCollisionDetectParam" :> <<Check, Change("/project/settings/function/collisionDect.json", "value"), As("SetCollisionParameter", Post("/settings/function/collisionDect"))>> @@
    "GetCollisionDetect" :> <<Read("/project/settings/function/collisionDect.json")>> @@
    "SetSafeParams" :> <<Post("/settings/safeparams")>> @@
    "SetElecSkinEnable" :> <<Post("/settings/function/elecSkin")>> @@
    "SetElecSkinReset" :> <<Post("/interface/resetElecSkin")>> @@
    "GetElecSkinReset" :> <<Get("/interface/resetElecSkin")>>

\* Homing, brakes, traces and grippers.
Attachments ==
    "SetElecSkinParams" :> <<Post("/settings/function/elecSkinParams")>> @@
    "GetElecSkinParams" :> <<Get("/settings/function/elecSkinParams")>> @@
    "SetGoHomeCmd" :> <<Post("/interface/goHome")>> @@
    "GetGoHomeCmd" :> <<Get("/interface/goHome")>> @@
    "SetAxisJointBrake" :> <<Post("/interface/6axisJointBrake")>> @@
    "GetAxisJointBrake" :> <<Get("/interface/6axisJointBrake")>> @@
    "SetRecurrentTrack" :> <<Post("/interface/recurrentTrack")>> @@
    "SetDebugReTrace" :> <<Post("/interface/debugReTrace")>> @@
    "GetDebugReTrace" :> <<Get("/interface/debugReTrace")>> @@
    "SetAutoIdentify" :> <<Post("/settings/autoIdentify")>> @@
    "SetInstallPosture" :> <<Post("/setting/installPosture")>> @@
    "SetSimulatedAxies" :> <<Post("/setting/setSimulatedAxies")>> @@
    "GetPropertyAxis" :> <<Get("/properties/axis")>> @@
    "GetBusinessType" :> <<Get("/properties/businessType")>> @@
    "SetRobottiqGripperEnable" :> <<Post("/setting/function/robotiqGripperEnable")>> @@
    "GetRobottiqGripperEnable" :> <<Get("/setting/function/robotiqGripperEnable")>> @@
    "SetRobottiqGripperEnableK" :> <<Post("/interface/robotiqGripperEnable")>> @@
    "SetHitbotGripperEnable" :> <<Post("/interface/hitbotGripper")>> @@
    "GetHitbotGripperEnable" :> <<Get("/interface/hitbotGripper")>> @@
    "SetHitbotGripper" :> <<Post("/interface/DHGripper")>>

\* Grippers, end inputs, power, version.
Gripping ==
    "SetDHGripperEnable" :> <<Post("/interface/DHGripperEnable")>> @@
    "GetDHGripperEnable" :> <<Get("/interface/DHGripperEnable")>> @@
    "SetDHGripper" :> <<Post("/interface/DHGripper")>> @@
    "GetDHGripper" :> <<Get("/interface/DHGripper")>> @@
    "SetRobotiqSixForce" :> <<Post("/settings/function/robotiqSixForce")>> @@
    "GetRobotiqSixForce" :> <<Get("/settings/function/robotiqSixForce")>> @@
    "SetEndAI" :> <<Write("/project/settings/function/endAI.json"), Post("/settings/function/endAI")>> @@
    "GetEndAI" :> <<Read("/project/settings/function/endAI.json")>> @@
    "SetPowerControl" :> <<Post("/interface/powerControl")>> @@
    "GetPowerControl" :> <<Get("/interface/powerControl")>> @@
    "SetCRRunTo" :> <<Post("/interface/go")>> @@
    "GetCRRunTo" :> <<Get("/interface/go")>> @@
    "GetVersion" :> <<Post("/settings/version")>> @@
    "PublicInterface" :> <<Public>>

\* Driver parameters and alarm texts.
Drivers ==
    "SetPanelDragTeach" :> <<Post("/panel/dragTeach")>> @@
    "SetDriverBasicParam" :> <<Post("/settings/driver/userParam")>> @@
    "GetDriverBasicParam" :> <<Get("/settings/driver/userParam")>> @@
    "SetDriverParam" :> <<Write("/project/properties/driverParams.json")>> @@
    "GetDrivercParam" :> <<Read("/project/properties/driverParams.json")>> @@
    "GetAlarmController" :> <<Read("/project/properties/alarm_controller.json")>> @@
    "GetAlarmServo" :> <<Read("/project/properties/alarm_servo.json")>> @@
    "SetFunctionIoctrl" :> <<Write("/project/settings/function/ioctrl.json"), Post("/settings/function/ioctrl")>>

\* Remote control, Modbus, search addresses.
IoFiles ==
    "GetFunctionIoctrl" :> <<Read("/project/settings/function/ioctrl.json")>> @@
    "SetFunctionRemoteControl" :> <<Write("/project/settings/function/remoteControl.json"), Post("/settings/function/remoteControl")>> @@
    "GetModbusctrl" :> <<Read("/project/settings/function/modbusctrl.json")>> @@
    "SetModbusctrl" :> <<Write("/project/settings/function/modbusctrl.json"), Post("/settings/function/modbusctrl")>> @@
    "AddSearchIP" :> <<AddIP>>

\* Cabinet and work modes.
Cabinet ==
    "GetCabinetType" :> <<Get("/properties/cabinetType")>> @@
    "GetCCBoxVoltage" :> <<Get("/settings/function/ccboxVoltage")>> @@
    "SetCCBoxVoltage" :> <<Post("/settings/function/ccboxVoltage")>> @@
    "GetWorkModeDI" :> <<Get("/settings/function/workModeDI")>> @@
    "SetWorkModeDI" :> <<Post("/settings/function/workModeDI")>> @@
    "GetWorkModeDO" :> <<Get("/settings/function/workModeDO")>> @@
    "SetWorkModeDO" :> <<Post("/settings/function/workModeDO")>> @@
    "GetFunctionRemoteControl" :> <<Read("/project/settings/function/remoteControl.json")>> @@
    "SetUserParam" :> <<Write("/project/settings/productInfo/userParam.json")>> @@
    "GetUserParam" :> <<Read("/project/settings/productInfo/userParam.json")>>

\* Hardware information, time, reboot, scripts.
Product ==
    "SetPropertiesHardwareInfo" :> <<Write("/project/settings/productInfo/hardwareInfo.json")>> @@
    "GetPropertiesHardwareInfo" :> <<Read("/project/settings/productInfo/hardwareInfo.json")>> @@
    "SetSystemTime" :> <<Post("/settings/systemTime")>> @@
    "GetSystemTime" :> <<Get("/settings/systemTime")>> @@
    "SetFirmwareUpgrade" :> <<Post("/firmware/upgrade")>> @@
    "SetWorkTimeRec" :> <<Post("/settings/workTimeRec")>> @@
    "GetWorkTimeRec" :> <<Get("/settings/workTimeRec")>> @@
    "SetReboot" :> <<Post("/interface/reboot")>> @@
    "ResetCollision" :> <<Post("/interface/resetCollision")>> @@
    "SetScriptRun" :> <<Post("/debugger/run")>> @@
    "SetScriptStop" :> <<Post("/debugger/stop")>> @@
    "SetFunctionPostureCalc" :> <<Post("/settings/function/postureCalc")>>

\* True motion.
TrueMotion ==
    "SetTruemotion" :> <<Read("/project/properties/AdvancedFunction.json"), Write("/project/properties/AdvancedFunction.json")>> @@
    "GetTruemotion" :> <<Read("/project/properties/AdvancedFunction.json")>> @@
    "SetTruemotionWithHttp" :> <<Post("/properties/advancedFunction")>> @@
    "GetTruemotionWithHttp" :> <<Get("/properties/advancedFunction")>>

\* Pallets and auxiliary joints.
Pallets ==
    "SetPallet" :> <<Else(Write(Pallet)), OnFile("newFolderRecursive", Pallet), Write(Pallet)>> @@
    "GetPallet" :> <<Read(Pallet)>> @@
    "SetWiFiParams" :> <<Post("/interface/setAP")>> @@
    "GetFunctionScriptParams" :> <<Get("/settings/function/scriptParams")>> @@
    "AuxSetSwitch" :> <<Post("/process/auxJoint/switch")>> @@
    "AuxGetSwitch" :> <<Get("/process/auxJoint/switch")>> @@
    "AuxSetJogCmd" :> <<Post("/panel/auxjog")>> @@
    "AuxSetTeachJoint" :> <<Post("/settings/teach/auxJoint")>> @@
    "AuxGetTeachJoint" :> <<Get("/settings/teach/auxJoint")>> @@
    "AuxSetPlaybackJoint" :> <<Post("/settings/playback/auxJoint")>> @@
    "AuxGetPlaybackJoint" :> <<Get("/settings/playback/auxJoint")>> @@
    "AuxSetStructure" :> <<Post("/process/auxJoint/structure")>>

\* Hot keys and custom points.
HotKeys ==
    "AuxGetStructure" :> <<Get("/process/auxJoint/structure")>> @@
    "SetHotkey" :> <<Write("/project/settings/hot_key.json")>> @@
    "GetHotkey" :> <<Read("/project/settings/hot_key.json")>> @@
    "SetCustomPoint" :> <<Write("/project/settings/function/CustomPoint.json")>> @@
    "GetCustomPoint" :> <<Read("/project/settings/function/CustomPoint.json")>> @@
    "SetMoveJCmd" :> <<Post("/interface/moveJ")>> @@
    "GetMoveJCmd" :> <<Get("/interface/moveJ")>> @@
    "SetPackPoint" :> <<Write("/project/settings/function/PackPoint.json")>>

\* Pack points, structure, default speeds, globals.
Points ==
    "GetPackPoint" :> <<Read("/project/settings/function/PackPoint.json")>> @@
    "SetJumpStructure" :> <<Write("/project/properties/structure.json")>> @@
    "GetJumpStructure" :> <<Read("/project/properties/structure.json")>> @@
    "SetSpeedDefault" :> <<Write("/project/properties/default.json")>> @@
    "GetSpeedDefault" :> <<Read("/project/properties/default.json")>> @@
    "SetApiUpdate" :> <<Post("/interface/apiUpdate")>> @@
    "SetGlobalVar" :> <<Write("/project/project/globalVar.json"), Post("/debugger/globalVar")>> @@
    "GetGlobalVar" :> <<Get("/debugger/globalVar")>>

\* Installation and fields of the status.
Install ==
    "SetCalcInstall" :> <<Post("/settings/calcInstall")>> @@
    "SetFunctionInstall" :> <<Write("/project/settings/function/install.json"), Post("/settings/function/install")>> @@
    "GetFunctionInstall" :> <<Else(Get("/settings/function/install")), Read("/project/settings/function/install.json")>> @@
    "SetHardwareEnable" :> <<Post("/interface/hardware")>> @@
    "GetDragPlayback" :> <<Status>> @@
    "GetSkinCollison" :> <<Status>> @@
    "GetSkinValue" :> <<Status>> @@
    "GetControlParams" :> <<Status>> @@
    "GetJointCurrent" :> <<Status>> @@
    "GetJointVoltage" :> <<Status>> @@
    "GetJointTemp" :> <<Status>> @@
    "GetRDNCoordinate" :> <<Status>>

\* Further fields, retracing, dragging, safe signals.
Fields ==
    "GetGPIOAIField" :> <<Status>> @@
    "GetEndAIField" :> <<Status>> @@
    "SetRetraceParams" :> <<Write("/project/settings/function/reTraceParams.json"), Post("/settings/function/reTraceParams")>> @@
    "GetRetraceParams" :> <<Read("/project/settings/function/reTraceParams.json")>> @@
    "SetDragAndTeach" :> <<Post("/panel/threeSwitch")>> @@
    "GetDragTeachFileList" :> <<OnFile("getFullFileNameList", Trajectory)>> @@
    "DeleteDragTeachFile" :> <<OnFile("DeleteFileName", Trajectory)>> @@
    "SetForwardCal" :> <<Post("/interface/ForwardCal")>> @@
    "SetInverseCal" :> <<Post("/interface/InverseCal")>> @@
    "GetSafeSignal" :> <<Get("/settings/function/safeSignal")>> @@
    "SetSafeSignal" :> <<Post("/settings/function/safeSignal")>>

\* Tools that look at the Windows this runs on.
SambaTools ==
    "CheckSamba" :> <<Samba>> @@
    "OpenSamba" :> <<Samba>> @@
    "OpenNetUse" :> <<Say>>

\* Tools that run a local program.
LocalTools ==
    "GetDeviceName" :> <<Local>> @@
    "RestartComputer" :> <<Silent>> @@
    "OpenFireWall" :> <<Local>>

\* Notes on the inputs and outputs.
Notes ==
    "SetIONote" :> <<Write("/project/project/IONote.json")>> @@
    "GetIONote" :> <<Read("/project/project/IONote.json")>>

\* Two nested loops, each on a file that must exist, then a library call.
AutoIdentify ==
    "StartAutoIdentify" :> <<Await("/project/process/identify/identify1.csv"), Await("/project/process/identify/identify2.csv"), Local>>

-----------------------------------------------------------------------------
\* _apiFunctionInit: the handler of every api.
FilesAndMotion == Gateways @@ FileWrites @@ Folders @@ PathsAndModes @@ Modes @@ Outputs @@ TeachSettings @@
    PlaybackSettings @@ CoordinateSettings @@ Calibration @@ "DisconnectDobot" :> <<Disconnect>>
PanelAndSafety == Debugger @@ Panel @@ Motion @@ SafetyFiles @@ Collision @@ Attachments @@ Gripping
Processes == Drivers @@ IoFiles @@ Cabinet @@ Product @@ TrueMotion @@ Pallets @@ HotKeys @@ Points @@ Install @@
    Fields @@ SambaTools @@ LocalTools @@ Notes @@ AutoIdentify
m_FuncMap == FilesAndMotion @@ PanelAndSafety @@ Processes @@ "ConnectDobot" :> <<Get("/connection/state")>>

\* The handlers that do something else when the controller is the virtual one.
VirtualFuncMap ==
    "SetTeachFileUpdate" :> <<Say>> @@
    "SetLoadParams" :> <<Say>> @@
    "GetLoadParams" :> <<Say>> @@
    "GetCabinetType" :> <<Read("/project/properties/cabinetType.json")>> @@
    "SetFunctionInstall" :> <<Write("/project/settings/function/install.json")>> @@
    "GetFunctionInstall" :> <<Read("/project/settings/function/install.json")>> @@
    "GetEmergencyStop" :> <<Anyhow(Get("/panel/emergencyStop"))>> @@
    "SetDebuggerStart" :> <<AndSay(Post("/debugger/start"))>> @@
    "SetDebuggerStop" :> <<AndSay(Post("/debugger/stop"))>> @@
    "SetDebuggerRun" :> <<AndSay(Post("/debugger/run"))>> @@
    "SetDebuggerSuspend" :> <<AndSay(Post("/debugger/suspend"))>>

\* The debugger's handlers when the request says isMobdebug: the request, if one goes
\* out at once, and the command written to the mobdebug process.
MobFuncMap ==
    "SetDebuggerStart" :> [post |-> Post(""), cmd |-> "start"] @@
    "SetDebuggerStop" :> [post |-> As("SetPrivateDebuggerStop", Post("/debugger/stop")), cmd |-> ""] @@
    "SetDebuggerRun" :> [post |-> Post("/debugger/run"), cmd |-> "run"] @@
    "SetDebuggerSuspend" :> [post |-> Post("/debugger/suspend"), cmd |-> "suspend"] @@
    "SetDebuggerStepIn" :> [post |-> Post("/debugger/stepIn"), cmd |-> "step"] @@
    "SetDebuggerStepOver" :> [post |-> Post("/debugger/stepOver"), cmd |-> "over"] @@
    "SetDebuggerSetb" :> [post |-> Post("/debugger/setb"), cmd |-> "setb"] @@
    "SetDebuggerDelb" :> [post |-> Post("/debugger/delb"), cmd |-> "delb"] @@
    "SetDebuggerDelAllb" :> [post |-> Post("/debugger/delallb"), cmd |-> "delallb"]

\* m_selfExchangeFunMap: the field of the status an api answers with.
m_selfExchangeFunMap ==
    "SetControlMode" :> "controlMode" @@ "GetControlMode" :> "controlMode" @@
    "SetCoordinateMode" :> "coordinate" @@ "GetCoordinateMode" :> "coordinate" @@
    "SetJogMode" :> "jogMode" @@ "GetJogMode" :> "jogMode" @@
    "SetToolCoordPattern" :> "toolCoordinate" @@ "GetToolCoordPattern" :> "toolCoordinate" @@
    "SetUserCoordPattern" :> "userCoordinate" @@ "GetUserCoordPattern" :> "userCoordinate" @@
    "GetAutoManualMode" :> "autoManual" @@ "GetJointCoordinate" :> "jointCoordinate" @@
    "GetCartesianCoordinate" :> "cartesianCoordinate" @@ "ClearAlarms" :> "alarms" @@ "GetAlarms" :> "alarms" @@
    "GetInput" :> "inputs" @@ "SetOutput" :> "outputs" @@ "GetOutput" :> "outputs" @@
    "GetExtendDI" :> "extendDI" @@ "GetExtendDO" :> "extendDO" @@ "GetisCollision" :> "isCollision" @@
    "GetProjectState" :> "prjState" @@ "GetDragPlayback" :> "dragPlayback" @@ "GetSkinCollison" :> "skinCollison" @@
    "GetSkinValue" :> "skinValue" @@ "GetControlParams" :> "controlParams" @@ "GetJointCurrent" :> "jointCurrent" @@
    "GetJointVoltage" :> "jointVoltage" @@ "GetJointTemp" :> "jointTemp" @@ "GetRDNCoordinate" :> "rdnCoordinate" @@
    "GetGPIOAIField" :> "gpioAI" @@ "GetEndAIField" :> "endAI"

\* handleSelfExchange turns every field into what its name suggests.  These are no
\* arrays in the controller's status, and come out of the conversion to one as [].
LostInConversion == {"dragPlayback", "skinCollison"}

\* sendCommand: the apis that need no connection.
NeedsNoConnection == {"SearchDobot", "ConnectDobot", "DisconnectDobot", "OpenNetUse", "OpenFireWall",
    "CheckSamba", "OpenSamba", "RestartComputer", "AddSearchIP"}
\* handleIndustrialRobotCommand: the apis m_device handles, which belongs to nobody.
SharedApis == {"SearchDobot", "AddSearchIP", "OpenNetUse", "OpenFireWall", "CheckSamba", "OpenSamba", "RestartComputer"}

-----------------------------------------------------------------------------
\* RobotStatus: the status of a controller as a handler of Device takes it over, changes
\* one part of it and sends it back.  A field holds the id of the request that wrote it,
\* 0 for the default of a new RobotStatus.

\* The fields setStatus takes over.
Modes5 == {"controlMode", "coordinate", "jogMode", "toolCoordinate", "userCoordinate"}
Readings == {"autoManual", "armOrientation", "jointCoordinate", "cartesianCoordinate", "alarms", "outputs", "inputs",
    "isCollision", "extendDO", "extendDI", "dragPlayback", "skinCollison", "skinValue", "controlParams", "jointCurrent",
    "jointVoltage", "jointTemp", "gpioAI", "endAI"}

\* A new RobotStatus, then setStatus: alarms are not cleared and outputs not enabled,
\* whatever the controller says of them.
setStatus(obj) ==
    [field |-> [k \in Modes5 \cup Readings |-> IF k \in DOMAIN obj THEN obj[k] ELSE 0],
     alarmClear |-> FALSE, outputEnable |-> FALSE]

\* clearAlarms and setOutputs.
clearAlarms(st) == [st EXCEPT !.alarmClear = TRUE]
setOutputs(st, id) == [st EXCEPT !.outputEnable = TRUE, !.field["outputs"] = id]

\* setCoordinateMode, setJogMode, setToolCoordPattern, setUserCoordPattern: a value that
\* is none of the known ones changes nothing.
setMode(st, key, id, valid) == IF valid THEN [st EXCEPT !.field[key] = id] ELSE st

setPart(st, key, id, valid) ==
    CASE key = "alarms" -> clearAlarms(st)
      [] key = "outputs" -> setOutputs(st, id)
      [] OTHER -> setMode(st, key, id, valid)

\* getObjForSend, as the controller takes it: alarms is the order to clear them, outputs
\* counts only when enabled.
getObjForSend(st, id) ==
    [k \in Modes5 |-> st.field[k]]
        @@ (IF st.alarmClear THEN "alarms" :> id ELSE <<>>)
        @@ (IF st.outputEnable THEN "outputs" :> st.field["outputs"] ELSE <<>>)

-----------------------------------------------------------------------------
\* Mobdebug: the Lua debugger a Device runs as a process of its own.  What it prints moves
\* m_state on and is reported under m_handlingId, the id of whoever wrote to the process
\* last, which is 0 for every command but start and suspend.  The operators map the
\* debugger's state m to the state after an event; Report says which signal leaves it.

\* said: how far the output of the process has come; cmd: a command it has not echoed;
\* delay: the 100 ms between "Waitting client" and its report; timer: m_timerMobdebug.
MobIdle == [m_state |-> "IDLE", m_handlingId |-> 0, m_isStarting |-> FALSE, running |-> FALSE,
            said |-> "nothing", cmd |-> "", delay |-> FALSE, timer |-> FALSE]

\* start: the process may fail to start in time; m_isStarting is set all the same.
Started(m, id, ok) ==
    [m EXCEPT !.m_handlingId = id, !.m_isStarting = TRUE, !.running = @ \/ ok,
              !.said = IF m.running THEN @ ELSE "nothing"]

\* _processWrite.
Written(m, cmd, id) == [m EXCEPT !.m_handlingId = id, !.cmd = IF m.running THEN cmd ELSE ""]

\* _killProcess: onProcessFinished_slot runs inside it.
Killed(m) == [m EXCEPT !.running = FALSE, !.m_isStarting = @ /\ ~m.running, !.said = "nothing", !.cmd = ""]
\* The id onProcessFinished_slot reports as crashed, if the debugger was starting.
KilledReport(m) == IF m.running /\ m.m_isStarting THEN m.m_handlingId ELSE 0

\* mo_exit.
Exited(m) == [Killed(m) EXCEPT !.m_state = "STOP"]

\* onProcessReadyRead_slot, by what the process prints, and the two timers.
MobEvents == {"Can't bind", "Waitting client", "delay", "timeout", "Client connected", "Comm: run", "Comm: suspend",
    "Server closed", "crash"}

\* The output of the process comes in this order; only one may listen on the port.
Possible(m, event, portTaken) ==
    CASE event = "Can't bind" -> m.running /\ m.said = "nothing" /\ portTaken
      [] event = "Waitting client" -> m.running /\ m.said = "nothing" /\ ~portTaken
      [] event = "delay" -> m.delay
      [] event = "timeout" -> m.timer
      [] event = "Client connected" -> m.running /\ m.said = "waiting"
      [] event = "Comm: run" -> m.running /\ m.said = "connected" /\ m.cmd = "run"
      [] event = "Comm: suspend" -> m.running /\ m.said = "connected" /\ m.cmd = "suspend"
      [] event = "Server closed" -> m.running /\ m.said = "connected" /\ m.cmd = ""
      [] event = "crash" -> m.running /\ m.said \in {"nothing", "waiting"}

After(m, event) ==
    CASE event = "Can't bind" -> [Killed(m) EXCEPT !.m_state = "STOP"]
      [] event = "Waitting client" -> [m EXCEPT !.m_state = "LISTENING", !.said = "waiting", !.delay = TRUE]
      [] event = "delay" -> [m EXCEPT !.delay = FALSE, !.timer = @ \/ m.m_isStarting]
      [] event = "timeout" ->
            IF m.m_isStarting THEN [Killed([m EXCEPT !.m_isStarting = FALSE]) EXCEPT !.m_state = "STOP", !.timer = FALSE]
            ELSE [m EXCEPT !.timer = FALSE]
      [] event = "Client connected" ->
            IF m.m_isStarting
            THEN [m EXCEPT !.m_isStarting = FALSE, !.timer = FALSE, !.m_state = "CONNECTED", !.said = "connected"]
            ELSE [m EXCEPT !.said = "connected"]
      [] event = "Comm: run" -> [m EXCEPT !.m_state = "RUNNING", !.cmd = ""]
      [] event = "Comm: suspend" -> [m EXCEPT !.m_state = "SUSPENDED", !.cmd = ""]
      [] event = "Server closed" -> [m EXCEPT !.m_state = "STOP", !.running = FALSE, !.said = "nothing"]
      [] event = "crash" -> Killed(m)

\* The signal the event leads to, in state m.
Report(m, event) ==
    CASE event \in {"Can't bind"} -> "error"
      [] event = "delay" -> IF m.m_isStarting THEN m.m_state ELSE "none"
      [] event = "timeout" -> IF m.m_isStarting THEN "error" ELSE "none"
      [] event = "Client connected" -> IF m.m_isStarting THEN "finish" ELSE "none"
      [] event \in {"Comm: run", "Server closed"} -> "finish"
      [] event = "Comm: suspend" -> "SUSPENDED"
      [] event = "crash" -> IF m.m_isStarting THEN "error" ELSE "none"
      [] OTHER -> "none"
=============================================================================
