----------------------------- MODULE ToolRunners -----------------------------
(***************************************************************************)
(* The plugins that run a vendor's tool to put a program on a board:       *)
(* DownloadPlugin (a firmware, with a tool per kind of device),            *)
(* ArduinoPlugin (compiles a client's code, then uploads it) and           *)
(* MicrobitPlugin.  Each remembers the request it works for in one field   *)
(* (start_id, requestId, requstPacket) that the next request overwrites,   *)
(* and answers under it when the tool prints or ends.                      *)
(*                                                                         *)
(* A run of a tool is known by the request that started it.                *)
(***************************************************************************)
EXTENDS Naturals, FiniteSets, SequencesExt

CONSTANTS
    Orders,     \* what clients ask: [plugin, calls, luck, shipped, short, exit, linux]
    MaxOrders   \* calls of the longest order

VARIABLES
    order,              \* the one that is carried out
    placed,             \* how many of its calls have come in
    luck,               \* failures still to come
    runs,               \* for every call, what the tool run for it is at
    current,            \* for every tool, the run that m_process is, or 0
    start_id,           \* for every tool, the request it answers, or 0
    m_isBusy,           \* ArduinoPlugin
    unfinished,         \* the compiler that waitForFinished gave up on, or ""
    m_fileName,         \* for every tool, the device whose firmware it puts on, or ""
    burned,             \* for every call, the device whose firmware was put on for it
    m_firmwareName, m_length,   \* DGetVersion: the devices whose file they are from
    told,               \* for every call, the answers to it
    exited,             \* runs that ended normally or have printed 100
    overlapped,         \* calls made while the tool ran for another
    abandoned,          \* calls that no code is left to answer
    ended               \* the program has ended

toolVars == <<order, placed, luck, runs, current, start_id, m_isBusy, unfinished, m_fileName, burned, m_firmwareName,
              m_length, told, exited, overlapped, abandoned, ended>>
compilerVars == <<m_isBusy, unfinished>>
fileVars == <<m_fileName, burned, m_firmwareName, m_length>>
orders == order.calls
Orderings == 1..MaxOrders

\* The four classes of DownloadPlugin that run a tool, which differ in the devices they are
\* for and in whether a printed 100 counts as the end.
DDfufile == [tool |-> "dfucmd", devices |-> {"MagicBox", "MagicianLite"}, prints100 |-> FALSE]
DMcuisp == [tool |-> "Mcuisp", devices |-> {"Magician"}, prints100 |-> FALSE]
DKflash == [tool |-> "kflash", devices |-> {"CameraCar", "CameraArm"}, prints100 |-> FALSE]
DMultiFunc == [tool |-> "MultiFuncTool", devices |-> {"MagicianGO"}, prints100 |-> TRUE]
Firmwares == {DDfufile, DMcuisp, DKflash, DMultiFunc}

\* handleDownloadCmd, by the device that is named.
ToolOf == [device \in UNION {f.devices : f \in Firmwares} |-> (CHOOSE f \in Firmwares : device \in f.devices).tool]
Tools == Range(ToolOf) \cup {"avrdude", "uflash"}
Tool(id) ==
    IF order.plugin = "Arduino" THEN "avrdude" ELSE IF order.plugin = "Microbit" THEN "uflash" ELSE ToolOf[orders[id].device]

ToolsInit ==
    /\ order \in Orders
    /\ placed = 0
    /\ luck = order.luck
    /\ runs = [id \in Orderings |-> "none"]
    /\ current = [t \in Tools |-> 0]
    /\ start_id = [t \in Tools |-> 0]
    /\ m_isBusy = FALSE
    /\ unfinished = ""
    /\ m_fileName = [t \in Tools |-> ""]
    /\ burned = [id \in Orderings |-> ""]
    /\ m_firmwareName = ""
    /\ m_length = ""
    /\ told = [id \in Orderings |-> <<>>]
    /\ exited = {}
    /\ overlapped = {}
    /\ abandoned = {}
    /\ ended = FALSE

\* Answers: that it went well or not; and a version, of these two devices' files.
Version(v, l) == [ok |-> TRUE, version |-> v, length |-> l]
Yes == Version("", "")
No == [Yes EXCEPT !.ok = FALSE]
Told(id, as) == IF id = 0 THEN told ELSE [told EXCEPT ![id] = @ \o as]
Tell(id, as) == told' = Told(id, as)
BadLuck == luck > 0 /\ luck' = luck - 1
Refuse(id) == Tell(id, <<No>>) /\ UNCHANGED <<runs, current, start_id, overlapped, abandoned, compilerVars, fileVars>>

\* The runs of tool t that have not ended.
Busy(t) == {j \in 1..placed : runs[j] \in {"running", "killed", "restarting"} /\ Tool(j) = t}

\* On Linux DMcuisp burns with stm32flash, and starts it again to start the board.
Restarts(t) == order.linux /\ t = "Mcuisp"

-----------------------------------------------------------------------------
\* setFileName: the file that is given, or the firmware that DobotLink ships for the device;
\* when it ships none the name of an earlier call stays.
setFileName(id) ==
    LET device == orders[id].device
    IN CASE orders[id].file = "missing" -> ""
         [] orders[id].file = "given" \/ (orders[id].file = "default" /\ device \in order.shipped) -> device
         [] OTHER -> m_fileName[Tool(id)]

\* startDownload of the four tools: a new QProcess, whatever becomes of the former one,
\* whose end will be answered under the new id.  Without the file nothing is answered.
startDownload(id) ==
    LET t == Tool(id)
        taken == Busy(t) # {}
        name == setFileName(id)
    IN /\ start_id' = [start_id EXCEPT ![t] = id]
       /\ current' = [current EXCEPT ![t] = id]
       /\ m_fileName' = [m_fileName EXCEPT ![t] = name]
       /\ overlapped' = IF taken THEN overlapped \cup {id} ELSE overlapped
       /\ abandoned' = abandoned \cup (IF taken THEN {start_id[t]} ELSE {}) \cup (IF name = "" THEN {id} ELSE {})
       /\ \/ name = "" /\ UNCHANGED <<runs, burned, luck, told>>
          \/ /\ name # ""
             /\ runs' = [runs EXCEPT ![id] = "running"]
             /\ burned' = [burned EXCEPT ![id] = name]
             /\ UNCHANGED <<luck, told>>
          \* errorHandle_slot: FailedToStart
          \/ name # "" /\ BadLuck /\ Tell(id, <<No>>) /\ UNCHANGED <<runs, burned>>
       /\ UNCHANGED <<compilerVars, m_firmwareName, m_length>>

\* stopProcess of tool t: whatever runs under its name is killed; on Linux, where the names
\* do not fit or are not looked for, m_process alone.
Killed(t) == {j \in Busy(t) : runs[j] # "restarting" /\ (order.linux => j = current[t])}
Kill(t) ==
    /\ runs' = [j \in Orderings |-> IF j \in Killed(t) THEN "killed" ELSE runs[j]]
    /\ current' = [current EXCEPT ![t] = 0]
stopDownload(id) ==
    /\ Kill(Tool(id))
    /\ Tell(id, <<Yes>>)
    /\ UNCHANGED <<luck, start_id, overlapped, abandoned, compilerVars, fileVars>>

\* DGetVersion::_getLatestVersion: the last file whose name begins with the device's prefix,
\* or the one that was found before; an unknown device has an empty prefix, which fits all.
Firmware(device) ==
    IF device \in order.shipped THEN {device}
    ELSE IF device \notin DOMAIN ToolOf /\ order.shipped # {} THEN order.shipped
    ELSE {m_firmwareName} \ {""}
Described == {"Magician", "MagicianLite", "MagicBox", "Camera", "MagicianGO"}

\* getVersionInfo; getLatestVersionInfo and getLatestVersion, which takes the length from a
\* name of more than four parts and otherwise keeps the one of an earlier call.
getVersionInfo(id) ==
    /\ Tell(id, <<IF orders[id].device \in Described THEN Yes ELSE No>>)
    /\ UNCHANGED <<luck, fileVars, runs, current, start_id, overlapped, abandoned, ended, compilerVars>>
getLatestVersion(id) ==
    LET device == orders[id].device
    IN /\ \/ /\ Firmware(device) # {}
             /\ m_firmwareName' \in Firmware(device)
             /\ m_length' = IF device \in {"MagicianLite", "MagicBox"} /\ m_firmwareName' \notin order.short
                            THEN m_firmwareName' ELSE m_length
             /\ Tell(id, <<IF orders[id].api = "GetLatestVersion" THEN Version(m_firmwareName', m_length')
                           ELSE IF device \in Described THEN Yes ELSE No>>)
             /\ UNCHANGED <<abandoned, ended>>
          \* list[1] of the empty name: beyond the end of the list
          \/ /\ Firmware(device) = {}
             /\ ended' = TRUE
             /\ abandoned' = Orderings
             /\ UNCHANGED <<told, m_firmwareName, m_length>>
       /\ UNCHANGED <<luck, m_fileName, burned, runs, current, start_id, overlapped, compilerVars>>

\* handleDownloadCmd.
Versions == {"GetVersionInfo", "GetLatestVersionInfo", "GetLatestVersion"}
handleDownloadCmd(id) ==
    LET api == orders[id].api
        known == orders[id].device \in DOMAIN ToolOf
    IN \/ api = "GetVersionInfo" /\ getVersionInfo(id)
       \/ api \in {"GetLatestVersionInfo", "GetLatestVersion"} /\ getLatestVersion(id)
       \/ api \in Versions /\ BadLuck /\ Refuse(id) /\ UNCHANGED ended
       \/ api = "StartFirmware" /\ known /\ startDownload(id) /\ UNCHANGED ended
       \/ api = "StopFirmware" /\ known /\ stopDownload(id) /\ UNCHANGED ended
       \/ api \notin Versions /\ (api \notin {"StartFirmware", "StopFirmware"} \/ ~known) /\ Refuse(id) /\ UNCHANGED <<luck, ended>>

\* onProcessReadyRead_slot: a line with "error" is an answer, and so is the 100 of the
\* MultiFuncTool.  What a replaced run prints nobody reads.  After a Stop there is no
\* m_process to read from.
ReadyRead(j) ==
    LET t == Tool(j)
    IN /\ order.plugin = "Download"
       /\ ~ended
       /\ \/ /\ runs[j] = "running" /\ current[t] = j
             /\ \/ BadLuck /\ Tell(start_id[t], <<No>>) /\ UNCHANGED exited
                \/ /\ \E f \in Firmwares : f.tool = t /\ f.prints100
                   /\ j \notin exited
                   /\ Tell(start_id[t], <<Yes>>)
                   /\ exited' = exited \cup {j}
                   /\ UNCHANGED luck
             /\ UNCHANGED <<ended, abandoned>>
          \/ /\ runs[j] = "killed" /\ current[t] = 0
             /\ BadLuck
             /\ ended' = TRUE
             /\ abandoned' = Orderings
             /\ UNCHANGED <<told, exited>>
       /\ UNCHANGED <<order, placed, runs, current, start_id, overlapped, compilerVars, fileVars>>

-----------------------------------------------------------------------------
\* DAvrUploader::startUpload of the code of request id, under whose id it is answered,
\* after the answers as; the process that runs already goes on.
startUpload(id, as) ==
    \/ /\ BadLuck       \* no such port, or the tool does not start
       /\ Tell(id, as \o <<No>>)
       /\ m_isBusy' = FALSE
       /\ UNCHANGED <<runs, current>>
    \/ /\ Busy("avrdude") = {}
       /\ runs' = [runs EXCEPT ![id] = "running"]
       /\ current' = [current EXCEPT !["avrdude"] = id]
       /\ Tell(id, as)
       /\ m_isBusy' = TRUE
       /\ UNCHANGED luck
    \/ /\ Busy("avrdude") # {}
       /\ Tell(id, as)
       /\ m_isBusy' = TRUE
       /\ UNCHANGED <<luck, runs, current>>

\* DAvrCompiler::startCompile, the three tools one after the other, each waited for.
\* What can go wrong, with the answers it gives: a tool or the code file is missing, or the
\* code is not good and there is no out.hex; a tool crashes, which is reported twice, and
\* the others still run; a tool takes more than ten seconds, which nobody is told.
\* The requests lost are not answered any more.
CompileErrors == {<<No>>, <<No, No>>, <<No, No, No>>}
startCompile(id, as, lost) ==
    \/ startUpload(id, as) /\ unfinished' = "" /\ abandoned' = abandoned \cup lost
    \/ /\ BadLuck
       /\ \E es \in CompileErrors : Tell(id, as \o es)
       /\ m_isBusy' = FALSE
       /\ unfinished' = ""
       /\ abandoned' = abandoned \cup lost
       /\ UNCHANGED <<runs, current>>
    \/ /\ BadLuck
       /\ Tell(id, as)
       /\ m_isBusy' = TRUE
       /\ unfinished' \in {"avr-g++", "avr-gcc", "avr-objcopy"}
       /\ abandoned' = abandoned \cup lost \cup {id}
       /\ UNCHANGED <<runs, current>>

\* ArduinoPlugin: handleProgram answers that it is busy, and goes on.  When the code file
\* cannot be written, the answer goes to the request before.
ArduinoProgram(id) ==
    LET busy == IF m_isBusy THEN <<No>> ELSE <<>>
        former == start_id["avrdude"]
        taken == Busy("avrdude") # {} \/ unfinished # ""
    IN \/ /\ orders[id].file = "given"
          /\ start_id' = [start_id EXCEPT !["avrdude"] = id]
          /\ overlapped' = IF taken THEN overlapped \cup {id} ELSE overlapped
          /\ startCompile(id, busy, IF taken THEN {former} ELSE {})
          /\ UNCHANGED fileVars
       \/ /\ orders[id].file = "missing"    \* no data, or of an unknown type
          /\ Tell(id, busy \o <<No>>)
          /\ UNCHANGED <<luck, runs, current, start_id, overlapped, abandoned, compilerVars, fileVars>>
       \/ BadLuck /\ Refuse(id)             \* the port is occupied
       \/ /\ orders[id].file = "given" /\ BadLuck
          /\ told' = [Told(former, <<No>>) EXCEPT ![id] = @ \o busy]
          /\ abandoned' = abandoned \cup {id}
          /\ UNCHANGED <<runs, current, start_id, overlapped, compilerVars, fileVars>>

\* The compiler that was given up ends: the last of the three starts the upload.
CompilerEnds ==
    /\ ~ended
    /\ unfinished # ""
    /\ unfinished' = ""
    /\ \/ unfinished # "avr-objcopy" /\ UNCHANGED <<luck, runs, current, told, m_isBusy>>
       \/ unfinished = "avr-objcopy" /\ startUpload(start_id["avrdude"], <<>>)
       \/ BadLuck /\ Tell(start_id["avrdude"], <<No, No>>) /\ m_isBusy' = FALSE /\ UNCHANGED <<runs, current>>
    /\ UNCHANGED <<order, placed, start_id, exited, overlapped, abandoned, ended, fileVars>>

\* MicrobitPlugin: the tool is waited for ten seconds, and may still run then; one that does
\* not start is not reported; one that still runs is not started again but waited for.
MicrobitProgram(id) ==
    LET former == Busy("uflash")
        j == IF former = {} THEN id ELSE CHOOSE k \in former : TRUE
    IN \/ /\ orders[id].file = "given"
          /\ start_id' = [start_id EXCEPT !["uflash"] = id]
          /\ overlapped' = IF former = {} THEN overlapped ELSE overlapped \cup {id}
          /\ LET lost == IF former = {} THEN {} ELSE {start_id["uflash"]}
             IN \/ /\ runs' = [runs EXCEPT ![j] = "ended"]
                   /\ \/ Tell(id, <<Yes>>) /\ exited' = exited \cup {j} /\ UNCHANGED luck
                      \/ BadLuck /\ Tell(id, <<No>>) /\ UNCHANGED exited
                   /\ abandoned' = abandoned \cup lost
                \/ /\ BadLuck
                   /\ \/ runs' = [runs EXCEPT ![j] = "running"] /\ abandoned' = abandoned \cup lost
                      \/ former = {} /\ abandoned' = abandoned \cup {id} /\ UNCHANGED runs
                   /\ UNCHANGED <<told, exited>>
          /\ UNCHANGED <<current, compilerVars, fileVars>>
       \/ orders[id].file = "missing" /\ Refuse(id) /\ UNCHANGED <<luck, exited>>
       \/ orders[id].file = "given" /\ BadLuck /\ Refuse(id) /\ UNCHANGED exited

-----------------------------------------------------------------------------
\* pReceiveMassage_slot of the three plugins.
OrderComes ==
    /\ ~ended
    /\ placed < Len(orders)
    /\ placed' = placed + 1
    /\ \/ order.plugin = "Download" /\ handleDownloadCmd(placed + 1) /\ UNCHANGED exited
       \/ order.plugin = "Arduino" /\ ArduinoProgram(placed + 1) /\ UNCHANGED <<exited, ended>>
       \/ order.plugin = "Microbit" /\ MicrobitProgram(placed + 1) /\ UNCHANGED ended
    /\ UNCHANGED order

\* onProcessFinished_slot and errorHandle_slot: the exit code is not looked at; a run that
\* crashes or is killed is reported twice, by uflash once.  avrdude's log is searched for
\* errors.
ToolEnds(j) ==
    LET t == Tool(j)
        crash == IF t = "uflash" THEN <<No>> ELSE <<No, No>>
    IN /\ ~ended
       /\ runs' = [runs EXCEPT ![j] = "ended"]
       /\ \/ /\ runs[j] = "running"
             /\ ~Restarts(t)
             /\ Tell(start_id[t], <<Yes>>)
             /\ exited' = exited \cup {j}
             /\ UNCHANGED luck
          \/ /\ runs[j] = "running"
             /\ BadLuck
             /\ \/ Tell(start_id[t], crash)
                \/ t = "avrdude" /\ Tell(start_id[t], <<No>>)
             /\ UNCHANGED exited
          \/ /\ runs[j] = "killed"
             /\ Tell(start_id[t], crash)
             /\ UNCHANGED <<luck, exited>>
       /\ m_isBusy' = (m_isBusy /\ t # "avrdude")
       /\ UNCHANGED <<order, placed, current, start_id, unfinished, overlapped, abandoned, ended, fileVars>>

\* The burner has ended on Linux; restartSTM32FlashForLinux 100 ms later, whose process may
\* not start, or crash, which is reported twice.
BurnerEnds(j) ==
    /\ ~ended
    /\ runs[j] = "running"
    /\ Restarts(Tool(j))
    /\ runs' = [runs EXCEPT ![j] = "restarting"]
    /\ UNCHANGED <<order, placed, luck, current, start_id, told, exited, overlapped, abandoned, ended, compilerVars, fileVars>>

restartSTM32FlashForLinux(j) ==
    LET id == start_id[Tool(j)] IN
    /\ ~ended
    /\ runs[j] = "restarting"
    /\ runs' = [runs EXCEPT ![j] = "ended"]
    /\ \/ Tell(id, <<Yes>>) /\ exited' = exited \cup {j} /\ UNCHANGED luck
       \/ BadLuck /\ (Tell(id, <<No>>) \/ Tell(id, <<No, No>>)) /\ UNCHANGED exited
    /\ UNCHANGED <<order, placed, current, start_id, overlapped, abandoned, ended, compilerVars, fileVars>>

\* EXIT: the Download plugin kills its tools.
ToolsExit ==
    /\ order.exit
    /\ ~ended
    /\ ended' = TRUE
    /\ runs' = [j \in Orderings |-> IF order.plugin = "Download" /\ runs[j] = "running" THEN "killed" ELSE runs[j]]
    /\ current' = [t \in Tools |-> IF order.plugin = "Download" THEN 0 ELSE current[t]]
    /\ UNCHANGED <<order, placed, luck, start_id, compilerVars, fileVars, told, exited, overlapped, abandoned>>

ToolsNext ==
    \/ OrderComes
    \/ \E j \in Orderings : ReadyRead(j)
    \/ \E j \in Orderings : ToolEnds(j) \/ BurnerEnds(j) \/ restartSTM32FlashForLinux(j)
    \/ CompilerEnds
    \/ ToolsExit

\* A tool that was started ends.
ToolsProgress ==
    (\E j \in Orderings : ToolEnds(j) \/ BurnerEnds(j) \/ restartSTM32FlashForLinux(j)) \/ CompilerEnds

-----------------------------------------------------------------------------
\* A request is told that its program is on the board only when a run of the tool for its
\* board has ended normally (or printed 100; on Linux, when the board was started again
\* after that): its own run, or, when the tool was busy as it came, that of an earlier
\* request.  The one id that all runs of a tool are answered under may be too new, as there,
\* but never that of a request before the run.
SuccessBacked ==
    \A id \in 1..placed : \A n \in DOMAIN told[id] :
        told[id][n].ok /\ orders[id].api \in {"StartFirmware", "ArduinoProgram", "MicrobitProgram"} =>
            \/ id \in exited
            \/ id \in overlapped /\ \E j \in exited : j < id /\ Tool(j) = Tool(id)

\* What is put on a board is the firmware of the device asked for: what the comment in
\* setFileName says (DDfufile.cpp 73).  When none is shipped it is that of an earlier call.
FirmwareOwn == \A id \in 1..placed : burned[id] \in {"", orders[id].device}

\* Every request is answered, but those the code is known to abandon.
ToolsSettled == ended \/ \A id \in 1..placed : told[id] # <<>> \/ id \in abandoned
=============================================================================
