--------------------------- MODULE MCRobotPlugins ----------------------------
(***************************************************************************)
(* Instances of the plugins: every api once, every Set with its Get,       *)
(* and the scenarios in which requests, clients and failures meet.         *)
(***************************************************************************)
EXTENDS RobotPlugins

Robot1 == "192.168.1.6"     \* reached over SMB 2
Robot2 == "192.168.5.1"     \* reached over SMB 1, that is, as plain files
Local1 == "127.0.0.1"       \* the virtual controller
MCPorts == <<Local1, Robot1, Robot2>>
MCVirtual == {Local1}
MCSmb2 == {Robot1}
MCControls == {"smb", "plain", "virtual"}
MCObjects == (0..MaxRequests) \X MCControls
MCTasks == [obj : MCObjects, id : 1..MaxRequests, k : 1..4]

\* A request of client ws; one that waits is sent when all before it has come to an end.
Req(api, ws, port) == [api |-> api, ws |-> ws, port |-> port, complete |-> TRUE, mob |-> FALSE, waits |-> FALSE,
    valid |-> TRUE, folder |-> "a", to |-> "b"]
After1(r) == [r EXCEPT !.waits = TRUE]
Mobbed(r) == [r EXCEPT !.mob = TRUE]
Incomplete(r) == [r EXCEPT !.complete = FALSE]
Invalid(r) == [r EXCEPT !.valid = FALSE]
In2(r) == [r EXCEPT !.folder = "b"]
\* A controller with one project folder; one with a folder in it.
OneFolder == Folder("a") :> Dir
Nested == OneFolder @@ <<"a", "sub">> :> Dir
Scenario(rs, n, closes) == [reqs |-> rs, faults |-> n, closes |-> closes, reads |-> {}, files |-> OneFolder]

\* The requests that set something and the ones that read it back.
SetGetPairs == {
    <<"AuxSetPlaybackJoint", "AuxGetPlaybackJoint">>, <<"AuxSetStructure", "AuxGetStructure">>,
    <<"AuxSetSwitch", "AuxGetSwitch">>, <<"AuxSetTeachJoint", "AuxGetTeachJoint">>, <<"SetAP", "GetAP">>,
    <<"SetAxisJointBrake", "GetAxisJointBrake">>, <<"SetCCBoxVoltage", "GetCCBoxVoltage">>,
    <<"SetCRRunTo", "GetCRRunTo">>, <<"SetCollisionDetect", "GetCollisionDetect">>,
    <<"SetCommonSetting", "GetCommonSetting">>, <<"SetCoordinateMode", "GetCoordinateMode">>,
    <<"SetCustomPoint", "GetCustomPoint">>, <<"SetDHGripper", "GetDHGripper">>,
    <<"SetDHGripperEnable", "GetDHGripperEnable">>, <<"SetDebugReTrace", "GetDebugReTrace">>,
    <<"SetDragSensivity", "GetDragSensivity">>, <<"SetDriverBasicParam", "GetDriverBasicParam">>,
    <<"SetElecSkinParams", "GetElecSkinParams">>, <<"SetElecSkinReset", "GetElecSkinReset">>,
    <<"SetEmergencyStop", "GetEmergencyStop">>, <<"SetEndAI", "GetEndAI">>, <<"SetEthernet", "GetEthernet">>,
    <<"SetFunctionInstall", "GetFunctionInstall">>, <<"SetFunctionIoctrl", "GetFunctionIoctrl">>,
    <<"SetFunctionRemoteControl", "GetFunctionRemoteControl">>, <<"SetGPIOAI", "GetGPIOAI">>,
    <<"SetGPIOAO", "GetGPIOAO">>, <<"SetGlobalVar", "GetGlobalVar">>, <<"SetGoHomeCmd", "GetGoHomeCmd">>,
    <<"SetHitbotGripperEnable", "GetHitbotGripperEnable">>, <<"SetHotkey", "GetHotkey">>,
    <<"SetIONote", "GetIONote">>, <<"SetJogMode", "GetJogMode">>, <<"SetJumpStructure", "GetJumpStructure">>,
    <<"SetLoadParams", "GetLoadParams">>, <<"SetManualSpeedRatio", "GetManualSpeedRatio">>,
    <<"SetModbusctrl", "GetModbusctrl">>, <<"SetMoveJCmd", "GetMoveJCmd">>, <<"SetOutput", "GetOutput">>,
    <<"SetPackPoint", "GetPackPoint">>, <<"SetPallet", "GetPallet">>, <<"SetPlaybackArch", "GetPlaybackArch">>,
    <<"SetPlaybackCoordinate", "GetPlaybackCoordinate">>, <<"SetPlaybackJoint", "GetPlaybackJoint">>,
    <<"SetPowerControl", "GetPowerControl">>, <<"SetPropertiesHardwareInfo", "GetPropertiesHardwareInfo">>,
    <<"SetRetraceParams", "GetRetraceParams">>, <<"SetRobotiqSixForce", "GetRobotiqSixForce">>,
    <<"SetRobottiqGripperEnable", "GetRobottiqGripperEnable">>, <<"SetSafeSignal", "GetSafeSignal">>,
    <<"SetSpeedDefault", "GetSpeedDefault">>, <<"SetSystemTime", "GetSystemTime">>,
    <<"SetTeachCoordinate", "GetTeachCoordinate">>, <<"SetTeachInch", "GetTeachInch">>,
    <<"SetTeachJoint", "GetTeachJoint">>, <<"SetToolCoordPattern", "GetToolCoordPattern">>,
    <<"SetToolCoordinate", "GetToolCoordinate">>, <<"SetTruemotion", "GetTruemotion">>,
    <<"SetTruemotionWithHttp", "GetTruemotionWithHttp">>, <<"SetUserCoordPattern", "GetUserCoordPattern">>,
    <<"SetUserCoordinate", "GetUserCoordinate">>, <<"SetUserParam", "GetUserParam">>,
    <<"SetWorkModeDI", "GetWorkModeDI">>, <<"SetWorkModeDO", "GetWorkModeDO">>,
    <<"SetWorkTimeRec", "GetWorkTimeRec">>, <<"SetCollisionDetectLevel", "GetCollisionDetect">>,
    <<"SetCollisionDetectResumeType", "GetCollisionDetect">>,
    <<"SetCollisionDetectParam", "GetCollisionDetect">>, <<"SetDriverParam", "GetDrivercParam">>,
    <<"WriteFile", "ReadFile">>, <<"NewFile", "ReadFileString">>, <<"DecodeBase64File", "ReadFile">>,
    <<"SetWiFiParams", "GetAP">>, <<"Exchange", "GetDobotStatus">>}

\* <<connect, set, get>>, on each kind of controller.
Reads(port, n) == {[Scenario(<<Req("ConnectDobot", 1, port), After1(Req(p[1], 1, port)), After1(Req(p[2], 1, port))>>, n, {})
                    EXCEPT !.reads = {[set |-> 2, get |-> 3]}] : p \in SetGetPairs}
\* What the virtual controller does not keep.
Unkept == {<<"SetLoadParams", "GetLoadParams">>}
VirtualReads == {s \in Reads(Local1, 0) : <<s.reqs[2].api, s.reqs[3].api>> \notin Unkept}
\* The same, with files over SMB 2, which only a search finds out.
SmbReads == {[Scenario(<<Req("SearchDobot", 1, "")>> \o [n \in 1..3 |-> After1(s.reqs[n])], 0, {})
              EXCEPT !.reads = {[set |-> 3, get |-> 4]}] : s \in Reads(Robot1, 0)}

\* A file that was written is found where its folder was copied or renamed to.
Moves(port, files, n) ==
    {[Scenario(<<Req("SearchDobot", 1, ""), After1(Req("ConnectDobot", 1, port)), After1(Req("WriteFile", 1, port)),
                 After1(Req(move, 1, port)), After1(In2(Req("ReadFile", 1, port)))>>, n, {})
      EXCEPT !.reads = {[set |-> 3, get |-> 5]}, !.files = files] : move \in {"CopyFolder", "RenameFolder"}}

\* Every api by itself, once with a failure and once with parameters missing.
Singles == {Scenario(<<Req("ConnectDobot", 1, Robot2), After1(Req(api, 1, Robot2))>>, 1, {}) : api \in DOMAIN m_FuncMap}
Missing == {Scenario(<<Req("ConnectDobot", 1, Robot2), After1(Incomplete(Req(api, 1, Robot2)))>>, 0, {}) :
                api \in {a \in DOMAIN m_FuncMap : m_FuncMap[a][1].do = "check"}}

C(ws) == Req("ConnectDobot", ws, Robot2)
R(api, ws) == After1(Req(api, ws, Robot2))
S(api, ws) == Req(api, ws, Robot2)
Mixed == {
    \* Handlers that wait in loops inside one another.
    Scenario(<<C(1), R("SetJogMode", 1), S("SetCoordinateMode", 1), S("SetOutput", 1)>>, 1, {}),
    Scenario(<<C(1), R("SetJogMode", 1), S("SetToolCoordPattern", 1), S("GetJogMode", 1)>>, 2, {}),
    Scenario(<<C(1), R("StartAutoIdentify", 1), S("SetUserCoordPattern", 1)>>, 1, {}),
    \* The device goes while a handler waits.
    Scenario(<<C(1), R("ClearAlarms", 1), S("DisconnectDobot", 1), S("GetAlarms", 1)>>, 0, {}),
    Scenario(<<C(1), R("SetJogMode", 1), S("SetTeachJoint", 1)>>, 0, {1}),
    Scenario(<<C(1), R("SetTeachJoint", 1), S("SetTeachInch", 1)>>, 0, {0}),
    \* Two clients of one controller, and one client twice.
    Scenario(<<C(1), C(2), R("DisconnectDobot", 1), R("GetAP", 2)>>, 0, {2}),
    Scenario(<<C(1), C(1), R("SetHotkey", 1), S("GetHotkey", 1)>>, 0, {1}),
    Scenario(<<C(1), Req("ConnectDobot", 1, Robot1), R("SetHotkey", 1)>>, 0, {1}),
    \* Searches that join.
    Scenario(<<Req("SearchDobot", 1, ""), Req("SearchDobot", 2, ""), Req("SearchDobot", 3, "")>>, 1, {}),
    \* The poll that fails three times, with file tasks over SMB 2.
    Scenario(<<Req("SearchDobot", 1, ""), After1(Req("ConnectDobot", 1, Robot1)), After1(Req("GetDobotStatus", 1, Robot1)),
               Req("GetConnectionState", 1, Robot1), Req("GetDobotStatus", 1, Robot1), Req("ReadFile", 1, Robot1)>>, 3, {}),
    \* File tasks at once, over SMB 2 and as plain files.
    Scenario(<<Req("SearchDobot", 1, ""), After1(Req("ConnectDobot", 1, Robot1)), After1(Req("WriteFile", 1, Robot1)),
               Req("ReadFile", 1, Robot1)>>, 1, {}),
    Scenario(<<Req("SearchDobot", 1, ""), After1(Req("ConnectDobot", 1, Robot1)), After1(Req("WriteFile", 1, Robot1)),
               Req("DisconnectDobot", 1, Robot1)>>, 0, {}),
    Scenario(<<C(1), R("WriteFile", 1), S("ReadFile", 1), S("SetPallet", 1)>>, 1, {}),
    \* Folders that are made twice, deleted, listed.
    Scenario(<<C(1), In2(R("NewFolder", 1)), R("CopyFolder", 1), R("DeleteFolder", 1), R("ReadFile", 1), R("RenameFolder", 1)>>,
             1, {}),
    Scenario(<<C(1), R("WriteFile", 1), R("CopyFileFromLocaleToSmb", 1), R("PathIsExist", 1), R("ReadFolder", 1)>>, 0, {}),
    \* A value the code does not know.
    Scenario(<<C(1), Invalid(R("SetJogMode", 1)), R("GetJogMode", 1)>>, 0, {}),
    \* The debugger as a process of its own.
    Scenario(<<C(1), Mobbed(R("SetDebuggerStart", 1)), Mobbed(S("SetDebuggerSetb", 1)), Mobbed(S("SetDebuggerStop", 1))>>, 0, {}),
    Scenario(<<C(1), Mobbed(R("SetDebuggerStart", 1)), Mobbed(R("SetDebuggerRun", 1)), Mobbed(S("SetDebuggerSuspend", 1))>>, 1, {}),
    Scenario(<<C(1), Mobbed(R("SetDebuggerStart", 1)), Mobbed(S("SetDebuggerStart", 1))>>, 1, {}),
    Scenario(<<C(1), C(2), Mobbed(R("SetDebuggerStart", 1)), Mobbed(S("SetDebuggerStart", 2))>>, 0, {}),
    Scenario(<<C(1), Mobbed(Incomplete(R("SetDebuggerSetb", 1))), Mobbed(R("SetDebuggerStepIn", 1))>>, 1, {}),
    \* The virtual controller's debugger.
    Scenario(<<Req("ConnectDobot", 1, Local1), After1(Req("SetDebuggerStart", 1, Local1)), Req("SetDebuggerStop", 1, Local1)>>,
             1, {}),
    \* Requests that are refused.
    Scenario(<<Req("ConnectDobot", 1, ""), Req("GetAP", 1, ""), S("GetAP", 1), Req("NoSuchApi", 1, Robot2)>>, 0, {}),
    Scenario(<<C(1), R("NoSuchApi", 1), Req("RestartComputer", 1, "")>>, 0, {})}

MCScenarios == Moves(Robot1, Nested, 0) \cup Moves(Robot2, Nested, 0) \cup Moves(Robot2, OneFolder, 1)
    \cup Reads(Robot2, 1) \cup VirtualReads \cup SmbReads \cup Singles \cup Missing \cup Mixed
    \cup {Scenario(<<>>, 0, {})}

-----------------------------------------------------------------------------
MCSerialPorts == {"COM3", "COM4"}

\* A request to the M1Plugin; a quiet one is sent when no queue moves.
Packet(api, ws, port) == [api |-> api, ws |-> ws, port |-> port, isQueued |-> "", isWaitForFinish |-> TRUE, type |-> "",
    fraction |-> FALSE, short |-> FALSE, quiet |-> FALSE]
Script(ps, n, closes) == [reqs |-> ps, faults |-> n, closes |-> closes, reads |-> {}]
P3(api) == Packet(api, 1, "COM3")
Link1 == P3("ConnectDobot")
Unwaited(p) == [p EXCEPT !.isWaitForFinish = FALSE]
Typed(type) == [P3("SetQueuedCmd") EXCEPT !.type = type]

M1Pairs == {
    <<"SetDeviceSN", "GetDeviceSN">>, <<"SetDeviceName", "GetDeviceName">>, <<"SetDeviceWithL", "GetDeviceWithL">>,
    <<"SetHOMEParams", "GetHomeParams">>, <<"SetHHTTrigMode", "GetHHTTrigMode">>,
    <<"SetHHTTrigOutputEnabled", "GetHHTTrigOutputEnabled">>, <<"SetEndEffectorParams", "GetEndEffectorParams">>,
    <<"SetJOGJointParams", "GetJOGJointParams">>, <<"SetJOGCoordinateParams", "GetJOGCoordinateParams">>,
    <<"SetJOGLParams", "GetJOGLParams">>, <<"SetJOGCommonParams", "GetJOGCommonParams">>,
    <<"SetPTPJointParams", "GetPTPJointParams">>, <<"SetPTPCoordinateParams", "GetPTPCoordinateParams">>,
    <<"SetPTPJumpParams", "GetPTPJumpParams">>, <<"SetPTPCommonParams", "GetPTPCommonParams">>,
    <<"SetCPParams", "GetCPParams">>, <<"SetARCParams", "GetARCParams">>, <<"SetIODO", "GetIODO">>,
    <<"SetArmOrientation", "GetArmOrientation">>, <<"SetSafeStrategy", "GetSafeStrategy">>,
    <<"SetSafeGuardMode", "GetSafeGuardMode">>, <<"SetSafeGuardStatus", "GetSafeGuardStatus">>,
    <<"SetBasicDynamicParams", "GetBasicDynamicParams">>, <<"SetPlayLoad", "GetPlayLoad">>,
    <<"SetCollisionThreshold", "GetCollisionThreshold">>, <<"SetSafeMode", "GetSafeMode">>}
M1Reads ==
    {[Script(<<Link1, [P3(pair[1]) EXCEPT !.isQueued = q, !.fraction = f, !.short = ~f], [P3(pair[2]) EXCEPT !.quiet = TRUE]>>, 0, {})
      EXCEPT !.reads = {[set |-> 2, get |-> 3]}] : pair \in M1Pairs, q \in {"", "yes"}, f \in BOOLEAN}
M1Table == INSTANCE M1Requests
M1Singles ==
    {Script(<<Link1, P3(api)>>, 1, {}) : api \in DOMAIN M1Table!Handler \cup UNION Range(M1Table!Strays) \cup {"SetCmdTimeout"}}
M1Mixed == {
    \* Two commands waited for, and one that passes the other by.
    Script(<<Link1, P3("SetPTPCmd"), P3("SetCPCmd"), P3("GetQueuedCmdCurrentIndex")>>, 1, {}),
    Script(<<Link1, P3("SetHOMECmd"), Unwaited(P3("SetARCCmd")), P3("SetTRIGCmd")>>, 0, {1}),
    \* The queue is stopped or cleared while they wait.
    Script(<<Link1, P3("SetPTPCmd"), Typed("Clear"), P3("SetPTPCmd")>>, 0, {}),
    Script(<<Link1, Typed("Stop"), P3("SetCPLECmd"), P3("QueuedCmdClear"), Typed("Start")>>, 0, {}),
    Script(<<Link1, P3("SetExcitCmd"), P3("SetQueuedCmdForceStopExec"), Typed("ForceStop"), Typed("Pause")>>, 0, {}),
    Script(<<Link1, P3("SetCircleCmd"), P3("DisconnectDobot"), Link1, P3("SetPTPPOCmd")>>, 1, {1}),
    \* Two clients, one robot; one client, two robots; two of each.
    Script(<<Link1, Packet("ConnectDobot", 2, "COM3"), P3("SetPTPCmd"), P3("DisconnectDobot")>>, 0, {1, 2}),
    Script(<<Link1, Packet("ConnectDobot", 1, "COM4"), Packet("SearchDobot", 2, ""), P3("SetPlayLoad")>>, 1, {0, 1}),
    Script(<<Link1, P3("SetPTPCmd"), Packet("ConnectDobot", 2, "COM4"), Packet("SetPTPCmd", 2, "COM4")>>, 0, {1, 2}),
    \* Without a connection, without a robot, and without a port.
    Script(<<Packet("ConnectDobot", 1, "COM9"), P3("SetPTPCmd"), P3("QueuedCmdStart"), P3("DisconnectDobot"), Packet("GetPose", 1, "")>>, 0, {0})}
MCScripts == {Script(<<>>, 0, {})} \cup M1Reads \cup M1Singles \cup M1Mixed

-----------------------------------------------------------------------------
MCSerialNames == {"COM3", "COM4"}
MCAddresses == {"192.168.33.2"}
M1Address == "192.168.33.2"

\* A request to MagicDevicePlugin.
Ask(api, port) == [api |-> api, port |-> port, target |-> "Magician", code |-> TRUE, filter |-> {}]
Codeless(a) == [a EXCEPT !.code = FALSE]
SearchFor(target, filter) == [Ask("SearchDobot", "") EXCEPT !.target = target, !.filter = filter]
Session(as, n) == [asks |-> as, mishaps |-> n, exit |-> FALSE]
Exiting(s) == [s EXCEPT !.exit = TRUE]
Open3 == Ask("ConnectDobot", "COM3")
A3(api) == Ask(api, "COM3")
MCSessions == {
    Session(<<>>, 0),
    \* Searches that meet, and what becomes connected between.
    Session(<<SearchFor("M1", {}), SearchFor("M1", {"COM4"}), Ask("ConnectDobot", M1Address), SearchFor("Magician", {"COM3"})>>, 1),
    Session(<<Open3, SearchFor("M1", {}), A3("DisconnectDobot"), SearchFor("Magician", {})>>, 0),
    \* Three commands under one id, twice at once, with errors, refusals and the end of the link.
    Session(<<Open3, A3("GetEndEffectorStatus"), A3("GetEndEffectorStatus")>>, 2),
    Session(<<Open3, A3("GetEndEffectorStatus"), A3("GetPose")>>, 3),
    Exiting(Session(<<Open3, A3("GetEndEffectorStatus"), A3("DisconnectDobot"), A3("GetEndEffectorStatus")>>, 1)),
    Exiting(Session(<<Open3, A3("GetPose"), A3("QueuedCmdStop")>>, 1)),
    \* Downloads at once, with the box cleared or taken off meanwhile.
    Session(<<Open3, A3("DownloadProgram"), A3("DownloadProgram"), A3("ClearBoxSpace")>>, 1),
    Session(<<Open3, A3("DownloadProgram"), Codeless(A3("DownloadProgram")), A3("CheckBoxSpace")>>, 1),
    Session(<<Open3, Codeless(A3("CheckBoxSpace")), A3("SetCommuTimeout"), Codeless(A3("SetCommuTimeout"))>>, 1),
    \* Refused: no port, no device.
    Session(<<Ask("GetPose", ""), A3("GetPose"), A3("ClearBoxSpace")>>, 0)}

-----------------------------------------------------------------------------
\* A call to RunCmd or Debuggerlite; of is the call that made the process it names.
Call(api, ws, of) == [api |-> api, ws |-> ws, of |-> of]
Play(plugin, cs, n, closes) == [plugin |-> plugin, calls |-> cs, troubles |-> n, closes |-> closes]
\* A script that is stopped, and two that end while neither is waited for.
OneStopped == Play("Debuggerlite", <<Call("Prepare", 1, 0), Call("Start", 1, 1), Call("Wait", 1, 1), Call("Stop", 1, 1)>>, 1, {})
TwoEnd == Play("Debuggerlite", <<Call("Prepare", 1, 0), Call("Prepare", 1, 0), Call("Start", 1, 1), Call("Start", 1, 2),
                                 Call("Wait", 1, 1)>>, 0, {})
MCPlays == {
    OneStopped, TwoEnd,
    Play("RunCmd", <<>>, 0, {}),
    \* The end, the Wait and the Stop of a command in every order, with a second client.
    Play("RunCmd", <<Call("Start", 1, 0), Call("Wait", 1, 1), Call("Stop", 1, 1), Call("Wait", 1, 1)>>, 1, {1, 2}),
    Play("RunCmd", <<Call("Start", 1, 0), Call("Wait", 1, 1), Call("Start", 2, 0), Call("Wait", 2, 3), Call("Stop", 1, 1)>>, 0, {2}),
    Play("RunCmd", <<Call("Start", 1, 0), Call("Stop", 1, 1), Call("Start", 2, 0), Call("Wait", 2, 3), Call("Pause", 2, 3)>>, 0, {0}),
    \* A third command after one that was deleted while it ran.
    Play("RunCmd", <<Call("Start", 1, 0), Call("Stop", 1, 1), Call("Start", 1, 0), Call("Wait", 1, 3), Call("Start", 1, 0),
                     Call("Wait", 1, 5)>>, 0, {}),
    \* One script: prepared, started, waited for, stopped, started again.
    Play("Debuggerlite", <<Call("Prepare", 1, 0), Call("Start", 1, 1), Call("Wait", 1, 1), Call("Stop", 1, 1), Call("Wait", 1, 1)>>,
         2, {1}),
    Play("Debuggerlite", <<Call("Prepare", 1, 0), Call("Wait", 1, 1), Call("Start", 1, 1), Call("Start", 1, 1), Call("Wait", 1, 1)>>,
         1, {2}),
    Play("Debuggerlite", <<Call("Prepare", 1, 0), Call("Start", 1, 1), Call("EmergencyStop", 1, 1), Call("Stop", 1, 1), Call("Stop", 2, 1)>>,
         1, {0}),
    Play("Debuggerlite", <<Call("Prepare", 1, 0), Call("Start", 1, 1), Call("Start", 1, 1), Call("Wait", 1, 1), Call("Start", 1, 1)>>,
         0, {}),
    \* Started again before stop() has returned: the destructor kills it once more.
    Play("Debuggerlite", <<Call("Prepare", 1, 0), Call("Start", 1, 1), Call("Stop", 1, 1), Call("Start", 1, 1), Call("Wait", 1, 1)>>,
         1, {}),
    \* Two scripts, whose slots lie on one another.
    Play("Debuggerlite", <<Call("Prepare", 1, 0), Call("Prepare", 1, 0), Call("StartAll", 1, 0), Call("Wait", 1, 1), Call("Wait", 1, 2),
                           Call("StopAll", 1, 0)>>, 1, {}),
    Play("Debuggerlite", <<Call("Prepare", 1, 0), Call("Prepare", 2, 0), Call("Start", 1, 1), Call("Start", 2, 2), Call("Wait", 1, 1),
                           Call("Stop", 2, 2)>>, 0, {0, 1}),
    Play("Debuggerlite", <<Call("Prepare", 1, 0), Call("Wait", 2, 1), Call("Start", 1, 1), Call("Wait", 1, 1)>>, 0, {1}),
    \* The calls that change nothing.
    Play("Debuggerlite", <<Call("Prepare", 1, 0), Call("Input", 1, 1), Call("Start", 1, 1), Call("Input", 1, 1), Call("SetupCustomModule", 1, 0),
                           Call("GetProcessStatus", 1, 0)>>, 1, {}),
    Play("Debuggerlite", <<Call("Input", 1, 0), Call("Debug", 1, 0)>>, 0, {})}

-----------------------------------------------------------------------------
\* A call to a plugin that runs tools.
Place(api, board, file) == [api |-> api, device |-> board, file |-> file]
Order(plugin, cs, n, shipped) == [plugin |-> plugin, calls |-> cs, luck |-> n, shipped |-> shipped, short |-> {}, exit |-> FALSE,
    linux |-> FALSE]
Burn(board, file) == Place("StartFirmware", board, file)
Board(api, file) == Place(api, "", file)
\* A firmware that is given for one device, then one that is shipped for none.
ShippedForNone == Order("Download", <<Burn("MagicBox", "given"), Burn("MagicianLite", "default")>>, 0, {})
MCOrders == {
    ShippedForNone,
    Order("Download", <<>>, 0, {}),
    \* A firmware on top of another, stopped, with files given, shipped, missing.
    Order("Download", <<Burn("MagicBox", "default"), Burn("MagicianLite", "default"), Place("StopFirmware", "MagicBox", "default")>>,
          2, {"MagicBox"}),
    [Order("Download", <<Burn("CameraCar", "given"), Burn("CameraArm", "default"), Burn("Magician", "missing")>>, 1, {"CameraArm"})
     EXCEPT !.exit = TRUE],
    Order("Download", <<Burn("MagicianGO", "default"), Place("StopFirmware", "MagicianGO", "default"), Burn("MagicianGO", "given")>>,
          2, {"MagicianGO"}),
    \* Versions of one device after another.
    Order("Download", <<Place("GetLatestVersion", "MagicBox", ""), Place("GetLatestVersion", "Magician", ""),
                        Place("GetLatestVersion", "CameraCar", ""), Place("GetLatestVersionInfo", "Camera", "")>>,
          1, {"MagicBox", "Magician"}),
    Order("Download", <<Place("GetVersionInfo", "Magician", ""), Place("GetVersionInfo", "CameraCar", ""),
                        Place("GetLatestVersion", "Magician", ""), Burn("M1", "given")>>, 1, {}),
    [Order("Download", <<Place("GetLatestVersion", "MagicBox", ""), Place("GetLatestVersion", "MagicianLite", "")>>,
           0, {"MagicBox", "MagicianLite"}) EXCEPT !.short = {"MagicianLite"}],
    \* On Linux the Magician is started again after its firmware was put on.
    [Order("Download", <<Burn("Magician", "given"), Burn("Magician", "default"), Place("StopFirmware", "Magician", "default")>>,
           2, {"Magician"}) EXCEPT !.linux = TRUE],
    Order("Download", <<Place("Update", "Magician", ""), Place("GetLatestVersionInfo", "CameraCar", "")>>, 0, {"CameraCar"}),
    \* Programs for a board while it is being programmed.
    Order("Arduino", <<Board("ArduinoProgram", "given"), Board("ArduinoProgram", "given"), Board("ArduinoProgram", "missing")>>, 2, {}),
    [Order("Arduino", <<Board("ArduinoProgram", "missing"), Board("ArduinoProgram", "given")>>, 1, {}) EXCEPT !.exit = TRUE],
    Order("Microbit", <<Board("MicrobitProgram", "given"), Board("MicrobitProgram", "given"), Board("MicrobitProgram", "missing")>>, 2, {})}

-----------------------------------------------------------------------------
\* One part of the plugins by itself.
NoScenarios == {Scenario(<<>>, 0, {})}
NoScripts == {Script(<<>>, 0, {})}
NoSessions == {Session(<<>>, 0)}
NoPlays == {Play("RunCmd", <<>>, 0, {})}
NoOrders == {Order("Download", <<>>, 0, {})}
StoppedOnly == NoPlays \cup {OneStopped}
EndingOnly == NoPlays \cup {TwoEnd}
ShippedOnly == NoOrders \cup {ShippedForNone}
=============================================================================
