# DobotLink: models, checks and proofs

DobotLink is the desktop service between web front ends (DobotStudio, DobotLab)
and Dobot robots. A front end opens a WebSocket and sends JSON-RPC requests; DobotLink
passes them to a plugin; the plugin speaks the robot's own protocol over a serial
port, UDP, Modbus or HTTP, and the answer travels back.

This directory holds TLA+ modules translated from that code, the TLC configurations
that check them on small instances, and theorems about them checked by TLAPS. Every
definition that models code is listed in `PROJECT.json` under `map` with the lines
it stands for. Paths below are relative to `src/`.

## 1. The system

```
 front ends --WebSocket--> DWebSocketServer -> DMessageCenter     main thread
                                                 |        ^
                             queued signals      v        |
                                             DPluginManager
                                                 |        ^        one thread per plugin
                                                 v        |
   MagicDevicePlugin -> MagicDevice -> MessageHandler -> DProtocol2 --serial/UDP--> device
        |                 |                 |         -> DProtocol3 -> P3FrameAdapter
        |         ActionTimerManager   receive buffer      (a thread of its own)
        +--> searches, box downloads (threads), special tasks
   IndustrialRobotPlugin -> Device --HTTP, SMB, files, Lua debugger--> controller
   M1Plugin -> M1Controller --DobotDll--> M1
   RunCmd, Debuggerlite, Download, Arduino, Microbit --> processes
```

Within a thread signals are direct calls; the queues exist only between the main
thread and the plugins' threads.

### 1.1 Inventory

| Component | State | Operations | What makes it correct |
|---|---|---|---|
| **DWebSocketServer** (`DobotLink/Module`) | the open sockets, `m_seqId`, `m_mapClient` (inner id → front end's id and socket), `CLIENT_PORT` | new connection, text message, disconnection, `sendMessage` by table or by port | an answer reaches the session that asked, under its id; no entry outlives its socket |
| **DMessageCenter** (`DobotLink/MessageCenter`) | `m_handlingRequestMap` of the requests DobotLink answers itself | dispatch by method name, own api, DownloadFile, GetLatestVersion, CloseWebSocket to all plugins | every request is answered once; the end of a session frees what it holds |
| **DPluginManager** | loaded plugins and their threads | load, unload, queued signals both ways | requests to a missing plugin are answered |
| **DUpgrade, DNetworkManager** | `m_handlingID`, replies under way | ask for the version, download | the answer carries the id of its request |
| **MagicDevicePlugin** | `m_requestPacketMap`, the devices, `m_magicSpecialTask`, the search under way, `DBoxDownload` threads | route a request to a device, connect, disconnect, search, download, box space, tasks made of several commands | one response per request, whole and true |
| **MagicDevice** | `m_RequestMap`, `m_status`, `m_wsport` | `sendCommand`, replies, errors, end of motions, connect, disconnect | nobody who waits is forgotten |
| **ActionTimerManager** | list of motions waited for, tick, finish timer, `isUpdated` | add, set target, tick, index update, timeout, clear | each motion leaves the list; "finished" means done |
| **MessageHandler** | the port, `m_isConnecting`, `m_isConnected`, keep-alive timer, `m_rxBuffer` | connect (with a nested event loop), disconnect, errors, cutting frames | one connect at a time; no port leaked; no good frame lost |
| **DProtocol2 / P2AsyncPacket** | `m_sendingList`, `m_sendingPackets`, a resend timer per packet | `sendData`, periodic slot, resend, give up, `handleRawData`, start, stop, `setCommPars` | each call answered once, in order per command, bounded resends |
| **P2Packet, DMagicianProtocol, DM1Protocol** | tables of encoders and decoders; `m_Device`, one for all ports | an encoder and a decoder per command | what is set is read back; nothing is read behind the end of a reply; replies keep the name of their command |
| **DProtocol3, P3FrameAdapter, the C stack DobotV3.0** | table of sequence numbers per device; packet list, callbacks, clock and frame buffer shared by all devices, in a thread of their own | requests, send, resend, give up, receive, callbacks, `setCommPars`, start of the thread | one answer, of the right kind, to the right client; payloads that hold their params; the thread runs |
| **magicianlite_virtual** | command queue, current command, plans, `gQueuedCmdIsFinished` | one class per command, the profile's 40 ms tick | the index it reports is that of a command done; a motion follows its own plan; the queue is worked off |
| **IndustrialRobotPlugin** | a `Device` per client and controller, the poll, nested loops, file tasks on `CMyThreadPool`, the Lua debugger | every api as a chain of HTTP requests and file tasks; search, connect, disconnect, the debugger | one answer; a Get sees the Set before it; no task sleeps beside a free thread |
| **M1Plugin** | one connection of the DobotDll, clients per port, `m_waitFinishMap` | connect, disconnect, Get, Set, queued commands that are waited for | "finished" means done; a Get reports the cells a Set filled |
| **RunCmdPlugin, DebuggerlitePlugin** | a process, or one per script; flags; the slots that spin | Start, Wait, Stop, end of a process, end of a session | a Wait is answered when its own process has ended |
| **DownloadPlugin, ArduinoPlugin, MicrobitPlugin** | one tool each, the request it works for, firmware files and versions | download, compile, upload, exec, the tool's output and end | success means the tool has ended, with the firmware asked for |
| Debugger, CodingAgent, PyImageOM, DynamicAlgorithm, Joystick | one external process each | started in the constructor, killed at the end | – |
| Views, logger, settings, errors; vendored libsmb2 and curl | none or files | display, files, transfers | – |

The M1 plugin is no longer in the build list; its sources are kept, and so is its model.

### 1.2 What is hard

* **Nested event loops.** `MessageHandler::_checkMarlin` runs a `QEventLoop` inside
  `connectDevice`; handlers of `IndustrialRobotPlugin` wait for the controller's status in
  a loop of their own; RunCmd and Debuggerlite spin in `processEvents` until a Wait has
  come. Whatever else arrives runs inside, loops lie on one another and return in reverse,
  and the object a loop belongs to may be gone by then.
* **No sequence numbers.** Protocol2 pairs replies with requests by command id only;
  resends and late replies meet later requests with the same command.
* **Several answerers.** Reply, link timeout, end of a motion, finish timer and
  disconnection compete for the one response of a request; a special task is answered
  from several functions, a search from a timer, a download from its thread.
* **Polling that waits for its own answer.** The index tick asks again only after the
  last answer has come.
* **Threads and reused ports.** Sessions end and their TCP ports are given again while
  packets are in the queues; devices are bound to a session by port number.
* **Shared statics.** All Protocol3 devices share one stack, one packet list, one frame
  buffer; all Protocol2 devices share `m_Device`; the DobotDll has one connection.
* **A thread started before its slot is connected** (`P3FrameAdapter.cpp:16`).
* **A clock that wraps**: the Protocol3 stack's timeouts are differences of a 32-bit
  count of milliseconds.
* **A condition variable and a count outside its lock** (`CMyThreadPool`).
* **Read, change, write back** of the controller's status by handlers that interleave.
* **A byte stream** in arbitrary pieces, with header bytes inside payloads.
* **Single slots for many.** One `m_handlingID` for any number of version requests; one
  `start_id` or `requestId` for the tool that is running.
* **Hundreds of layouts** written by hand on both sides of a link.

`PROJECT.json` lists these under `hazards`, each at its line with the properties that
would catch it going wrong, or a note where nothing covers it.

## 2. Modules

| Module | Models | Extends or instantiates |
|---|---|---|
| `CommandPort` | what a link promises the layer above it (`DProtocolInterface`): abstract specification | – |
| `DProtocol2` | the Protocol2 link; implements `CommandPort`; the slot's loop, against `SentBySlot` | – |
| `P2Link` | the link joined to a lossy, reordering wire and a device | `DProtocol2` |
| `Codec` | the language of the codec tables: bytes as cells of symbolic values | – |
| `MagicianCodec`, `M1Codec` | the encoders and decoders, one row each | `Codec` |
| `P2Codec` | calls encoded, answered, decoded, with the shared `m_Device`; what every command class of the virtual arm takes and gives | the three above |
| `VirtualLite` | the virtual arm at run time: slave, queue, profile | – |
| `P3Requests`, `P3Callbacks` | the requests of Protocol3 and their payloads; its callbacks | – |
| `DProtocol3` | Protocol3 from request to answer: per-device objects, adapter, stack, devices | the two above |
| `RxFrame` | the receive buffer: bytes to Protocol2 and Protocol3 frames | – |
| `MessageHandler` | the life of a serial connection | – |
| `ActionTimerManager` | the motions waited for; operations without `Next` | – |
| `MagicDevice` | one device under the plugin's request map | `ActionTimerManager` |
| `MagicTasks` | what `MagicDevicePlugin` does above its devices | – |
| `IndustrialRequests` | the chain of steps of every api; the status object; the debugger's states | – |
| `FileTasks` | the file operations | – |
| `CMyThreadPool` | the pool the file tasks run on | – |
| `IndustrialRobot` | the plugin: clients, devices, loops, poll, answers | the three above |
| `M1Requests`, `M1Controller` | the calls of every M1 request; connections and waits | – |
| `ScriptRunners` | RunCmdPlugin and DebuggerlitePlugin | – |
| `ToolRunners` | DownloadPlugin, ArduinoPlugin, MicrobitPlugin | – |
| `RobotPlugins` | the plugins side by side | `IndustrialRobot`; instances of the four above and `MagicTasks` |
| `DWebSocketServer` | sessions and the id table; operations without `Next` | – |
| `DMessageCenter` | the gateway: center, queues, a plugin with one device | `DWebSocketServer` |
| `*_proofs` | theorems and their lemmas | the module they are about |
| `MC*` | instances for TLC | the module they instantiate |

### 2.1 The link (`DProtocol2`, `P2Link`, `CommandPort`)

State: `worker` is `m_timerSendWorker->isActive()`; `sendingList` is `m_sendingList`;
`sendingPackets` maps each (cmdId, subId) to the packet in flight; `resendTimes` and
`limit` are the fields of `P2AsyncPacket`; the rest is history. The list is kept as a
set with the order of arrival beside it, because the code only appends to it and erases
from it. That makes the slot one set comprehension, `SentBySlot`, and the proofs
short; `Iterate` is the loop itself, with its erasing iterator, and the run checks
on every reachable list that it computes that set in that order (`LoopSendsThose`).

Actions: `SendData` has one disjunct per exit of `sendData` (`SendRefused` for the three
errors, `SendQueued`, `SendAtOnce`); `PeriodicTask` is the slot; `Resend` and `GiveUp`
are the two branches of the packet's timer; `HandleRawData` a frame that matches
(one that does not changes nothing); `Start`, `Stop`, `SetCommPars`. `stop()` deletes
what is in flight and keeps the list: so does the model, and calls deleted there are in
`deleted`. The counter is a quint8 (`% 256`); the limits are at most 254, otherwise the
test `resendTimes++ <= resendTimesMax` is never false.

`P2Link` adds copies of frames in both directions, loss, reordering (UDP) and a device
that runs every frame it gets. Frames carry a command's key and no request number:
answers on their way (`fromDevice`) and the device's runs (`runs`) are counted per key.

### 2.2 The receive buffer (`RxFrame`)

One action per branch of the loop in `_HandleNewDataFromDevice`, `Break` for its exits.
`ReadyRead(n)` appends any number of bytes of the device's stream once the loop has
rested. Length and checksum tests are those of the two `handleRawData`; the checksum of
Protocol2 is computed, Protocol3's CRC is a parameter. The script of frames, damaged
frames and noise is known to the properties only. Noise may hold the first byte of a
header anywhere. Where a noise byte and the byte after it make a whole header
(`FalseHeader`: a stray AA before AA AA 02 is one), the parser takes what follows for a
length and may hold back the good frame; `PromptAndExact` is about the other streams,
and section 5.1 says what is lost here.

### 2.3 The connection (`MessageHandler`)

`connectDevice` is two actions, split at the nested loop: `ConnectOpens` and
`ConnectReturns`; `ConnectFails` is every return with an error. The port may be
unplugged at any time (`Plug`, environment); `KeepAliveTimeout` and `ResourceError`
notice it in either order. `m_isConnecting` is reset by the connect only, as in the code.

### 2.4 The device (`ActionTimerManager`, `MagicDevice`)

A request enters the plugin's map (`requestPackets`), a motion also the timer list, and
goes to the link, of which only the promise of `CommandPort` is used: accepted calls
(`pending`) are answered at most once, or abandoned by a disconnection. `Reply`,
`LinkError`, `IndexEnds`, `FinishTimeout` and `DisConnectDevice` respond through
`Respond`, which answers only ids still in the map, as `m_requestPacketMap.take(id)`
does. `AskIndex` is the tick's query: an up link takes it or, its list being full, refuses
it as a stopped one does, and then `isUpdated` stays false. `missed` (history) says that a
query of the tick did not get through. `dropped` records the ways in which the code gives a
request up without a word: in flight at a disconnection, or a motion whose reply carried no
index. The device's
firmware is external: it queues a motion per frame, answers queries, finishes motions in
order. `Faults` says what the environment may do in a run.

### 2.5 The gateway (`DWebSocketServer`, `DMessageCenter`)

The whole path of a text message in the main thread is one action: the table entry, the
dispatch and, for what DobotLink answers itself, the answer. `toPlugin` and `toCenter`
are the queued signals, first in first out. The plugin keeps the commands it has to
answer, the connect inside the nested loop, and the port number of the session the
device is bound to; `owner` is the session meant (history). Unloading drops the plugin's
queue and device; what it has sent still arrives. A download whose file cannot be opened
ends the process (`DownloadCrashes`): `downloadFile` returns a null reply and a property of
it is set all the same. A session passes from `open` through
`closing`, in which the socket is no longer valid but its slot has not run, to `closed`.
A packet holds the port, so a later session with that port can get it.

### 2.6 The codecs (`Codec`, `MagicianCodec`, `M1Codec`, `P2Codec`)

A byte is a cell: the n-th byte of a value of some width given under some key. An encoder
is a row with the cells it writes, a decoder a row with the length it tests, the cells it
takes and the keys it reports them under. How a number becomes a float is left out; which
bytes are taken for which value is not, so crossed fields, a wrong width, a wrong length
test and a read behind the end of a reply all show. `P2Codec` holds the other end too,
the layouts the virtual arm reads and writes (`FindCmd`). It makes calls, lets an external
device (or the virtual arm's table) answer them in any order, and decodes: the decoder of
a version reply depends on `m_Device`, which belongs to all ports and is overwritten by
every version request. `overtaken` marks the calls during which it was; they are not
excepted from `ReadsInside`, which says how far the damage goes. The few ids where the code does otherwise are named before the
property that excepts them (`Measured`, `Unguarded`, `Stubs`, `TooShort`).

### 2.7 The virtual Magician Lite (`VirtualLite`)

`PushPacket`, `PushIntoFull` and `DirectPacket` are the slave's handling of a frame:
queued, refused by a full queue, or run at once; `Elapse` is the profile's 40 ms timer: a
step of the motion, the end of one, the start of the next queued command. The index that
`GetQueueIndex` gives is computed modulo `IndexSpan`, so that it wraps as the unsigned one
does. Jogs are kept by kind: which of them raise the finish flag, while a key is held or
when the axis has slowed down, is different for each (`SinglePos`, `SingleNeg`, `SingleStop`
and their counterparts in space). Positions and durations are left out, so any tick
may be the last one of a motion; whose plan is in use, and for whom it was made, is kept.

### 2.8 Protocol3 (`P3Requests`, `P3Callbacks`, `DProtocol3`)

`P3Requests` has the packet every request becomes: rule, command id, access, queue type,
length of the payload, the size of each argument copied into it, and whether the bytes
come from the text or from the address of its pointer (`stray`; three requests do that).
`P3Callbacks` has the
callback in force for each id, in the order of registration, and what it makes of a reply
for a read, a write and a timeout. `DProtocol3` joins the objects in the plugin's thread
to the adapter and the stack in theirs through two ordered queues. The adapter's thread
may run before `started()` is connected (its timers are then never started); the stack
takes packets into a list of `PacketNum` slots, sends by rule, resends after a timeout
measured on a clock modulo `ClockMod`, gives up, and hands replies to the callback found by
rule and id. Losses in both directions are possible at every send. A reply frees the first
slot whose rule it matches, which for General requests does not look at the command set:
`ousted` are the requests that lost their slot to another's reply, `misread` those whose
reply another rule's callback has read (history).

### 2.9 The plugin's own tasks (`MagicTasks`)

Searches at once or with the two seconds of the M1 broadcast; downloads, each a thread
that finds the drive, opens the file, writes and reports, while `ClearBoxSpace` and other
downloads go on; `GetEndEffectorStatus`, three commands under one id whose results
`DoSpecialResponse` merges. A device is here the promise of `CommandPort`. Mishaps (a
refused command, a lost answer, a file that cannot be opened, the box taken off) come out
of a budget of the session.

### 2.10 Industrial robots (`IndustrialRequests`, `FileTasks`, `CMyThreadPool`, `IndustrialRobot`)

`m_FuncMap` in `IndustrialRequests` gives each api its steps: check of parameters, HTTP
Get or Post with its url, file operation with its path and key, wait for the status,
answer. `IndustrialRobot` runs them: `loops` is the stack of nested event loops, `Device`s
come and go with their clients, the poll fails three times and disconnects, file tasks
run on the pool's threads, and the Lua debugger reports under the id of whoever wrote to
it last. A document maps a key to the request that wrote it last, so that a lost update or
a Get from the wrong url is a difference of values. `CMyThreadPool` has one action per
stretch of its code between lock and unlock; the idle count changes in steps of their own,
outside the lock, as in the code, and a thread may wake without a signal.

### 2.11 M1, scripts, tools (`M1Requests`, `M1Controller`, `ScriptRunners`, `ToolRunners`)

`M1Requests` gives every name its handler, the dll call and the cells read and reported,
with what a conversion does to a fraction (kept, lost to `toInt`, cut off by a cast);
`M1Controller` has the one connection of the dll, clients per port, and the timers of
`m_waitFinishMap`. In `ScriptRunners`, `frames` is the stack of slots that spin inside one
another. `stop()` waits in a loop of its own for the end of the process it has killed; that
end may never be reported (`KillUnseen`), and the timer meant for that case is never started
in the code, so there is no action for it. In `ToolRunners` a tool prints and ends, and
whoever stands in the plugin's one field is answered; on Linux a burned Magician is started
by a second process before that (`restartSTM32FlashForLinux`). `RobotPlugins` puts these, `MagicTasks` and `IndustrialRobot` side by
side. Each plugin has its thread and they share nothing, so `PluginsInit` lets one of them
be asked something in a behaviour: an interleaving of two would add states and no case.

## 3. Runs

Eleven runs pass; one shows a statement of the repository's own that the code does not keep
(section 5.1). Every property of a passing run has a mutant in `PROJECT.json`: an operator beside the
definition, marked `MUTANT of`, which changes it as a plausible bug would and under which
TLC finds the property violated.

| Run | Checks |
|---|---|
| `p2_link` | calls answered once and accounted for (`CallsAccounted`), no flight after stop, order per command (`KeyOrder`), resend budget, the slot's loop against its description (`LoopSendsThose`), refinement of `CommandPort` (`PortSpec`), every accepted call eventually answered or the link stopped |
| `p2_wire` | successes told under a command never outnumber the device's runs of it |
| `codec` | replies decoded under their command's name (`NamedAsAsked`), values set are values read (`ReadBack`), no decoder reads behind its reply but for one value of an overtaken version reply (`ReadsInside`), the virtual arm takes what the codec writes (`Understood`) |
| `virtual` | the reported index is never that of a command under way, and is the wrapped one only when nothing is done yet or a motion is under way (`IndexHonest`), motions follow their own plans (`PlanFresh`), queued commands start one after the other (`StartsAfterEnd`), the queue is worked off while it runs (`QueueDrains`) |
| `p3` | payloads hold the params that were given (`PayloadWhole`); one answer, from the device, to the client who asked (`AnswersHonest`); of the kind asked for (`AnswerFits`); every request taken is answered unless another's reply has taken its slot |
| `rx_frames` | of an undamaged stream exactly the good frames are handed over, at once |
| `handler` | one connect at a time and one answer each; an open port is owned and watched; unplugging is noticed |
| `device` | one response per request; nobody forgotten except in the named ways; a motion whose index is known is not reported finished before it is done; over a link that refuses and loses the polling dies only by a query of its own that did not get through (`PollingAlive`), and until then every motion is answered (`EventuallyResponded`) |
| `robot_plugins` | of the five groups of plugins: at most one answer (`OneAnswer`), answers that are so (`AnswersTrue`), motions reported as finished are done (`M1FinishHonest`), nested loops whose event can still come (`LoopsLive`), no task asleep beside a sleeping thread (`NoTaskSleeps`), everybody answered but in the ways named (`AllAnswered`) |
| `gateway` | answers by the table go home; the table is never stale; CloseWebSocket closes the device of its own session only |
| `gateway_live` | the serial port of an ended session is released; every request is answered or reaches the plugin, unless its session or plugin goes, and every answer of the plugin arrives |
| `scripts_kill` | violated: `StopsReturn`, a Stop is answered (section 5.1) |

### 3.1 Bounds, and why they are enough

* `p2_link`: three calls that want a reply, two of them with one key, one call that does
  not; a list of two places; resend limits 0 and 1. Two packets with one key give order,
  blocking and the free key; the third fills the list; two limits let the setting change
  while a packet is in flight.
* `p2_wire`: two calls of one command and one of another, one resend each, so that a
  late copy of the first meets the second.
* `codec`: every row on its own device, and every pair of calls (`MaxCalls = 2`) over
  five kinds of device. A pair is what a Get after a Set needs, and a version reply of one
  port between request and reply of another; the codecs keep nothing else.
* `virtual`: a queue of two places and four packets, each of any kind, queued or direct.
  Two places give a full queue and a command behind the current one; four packets give
  a start, a motion, another in its midst and a stop.
* `p3`: every request alone, so that every row of the tables is used; two requests at once
  on two devices with a list of two slots, twice `SetMoveSpeedTime` and any two of
  `GetDeviceSN` and `GetMoveSpeed`, which have one id under two command sets, so that replies
  take each other's slots; a clock modulo 3, so that it wraps within every
  resend; `setCommPars` in between.
* `rx_frames`: all pairs of five frames of both protocols (payloads that are headers, a
  checksum that is 0xAA), with and without noise before each (header bytes of either protocol
  among it), and with the first one damaged, cut in every way. The bytes between frames cannot reach further than the next header,
  so pairs show what longer streams do.
* `handler`: four connects: one inside the loop, one refused meanwhile, one refused in
  the connection, and a next connection.
* `device`: two motions, one behind the other, and a command that wants no
  reply; two index queries outstanding (the one the tick waits for and one left from
  before a reconnection); each packet run once by the device; every fault.
* `robot_plugins`: `MCRobotPlugins` lists what clients ask. For industrial robots every
  api alone with one failure, without its parameters, every Set with its Get on each of
  three kinds of controller, and scenarios of up to six requests in which handlers wait
  inside one another, clients come and go, searches join, file tasks meet on a pool of two
  threads; the same in kind for the M1, the tasks, the scripts and the tools. Requests of a
  scenario arrive at any time unless marked to wait.
* `gateway`: three sessions, the third on the port of the first; a connect on each of
  those two, a download on the other one, and a message that is no JSON.
  `gateway_live`: one session with a request of every kind that waits for somebody.
  Loading, unloading and losing the device are unrestricted.

Deadlock checking is on except where a behaviour ends because its script does: `codec`,
`virtual`, `p3`, `rx_frames`, `robot_plugins` and `scripts_kill`; and
in `gateway`, where a download can end the process.

### 3.2 Fairness

* Armed `QTimer`s fire while the thread's event loop runs: the periodic slot, resend
  timers, the tick, the finish timer, keep-alive, the 100 ms of the nested loop, the two
  seconds of a search, the virtual arm's 40 ms, the adapter's timers once they are started.
* Posted events are delivered: both queues of the gateway, both of Protocol3, bytes that
  have arrived.
* The network answers or fails: `QNetworkReply::finished` and the end of a curl transfer
  always come; a call of the DobotDll returns.
* Threads of the pool and of downloads are scheduled. A client's script need not end; one
  that is killed ends if QProcess is told of it, which is not assumed either. A vendor's tool
  ends.
* `virtual`: the tick comes, and a motion with a plan or a wait lasts finitely many of them.
* Only `device` assumes that the device answers and works its queue off. No fairness
  is assumed for front ends, users, plugging, loading or unloading; `p2_link` and `p3`
  hold with a device that never answers.
* `gateway_live` assumes nothing of the plugin: it may keep what it has accepted for ever.

## 4. Proofs

All theorems hold for every value of the constants that satisfies the named assumptions,
which TLC evaluates in the runs.

**`P2Link_proofs`, the link** (assumption `P2Assumption`: every call has a key and a kind, and
the resend limits are at most 254). `TypeCorrect`; `EachCallAnsweredOnce`
(`CallsAccounted`); `StopClearsFlight` (`StoppedMeansIdle`); `SentInCallOrder`
(`KeyOrder`). The inductive invariant `LinkInv` is the conjunction of these with
`Bookkeeping`: calls are numbered without ties and at most up to `calls`, only accepted
calls wait or are in flight, a waiting packet has not been sent, and the resend counter
of a packet in flight is one less than its sends. `KeyOrder` alone is not inductive: that
a packet is sent only when no earlier one of its key waits follows from the slot's
choice, but that none arrives later with an earlier place needs the bound on places, and
that a packet cannot go back from flight to the list needs `CallsAccounted`.
`BudgetKept` (`ResendBudget`) says that a packet is sent at most `resendTimesMax` + 2
times and reported as timed out after exactly that many; `BudgetInv` adds to it that a
packet that timed out has its answer, so its sends are final, and rests on `LinkInv` for
the counter, which `setCommPars` leaves alone.
`LinkImplementsPort` (`PortSpec`): every behaviour of the link is one of `CommandPort`.
`PortStep` maps each step under `LinkInv`: a queued call is accepted, a refused or told one
answered at once, a packet that leaves the flight is an answer (`AnswerStep`), `Stop` gives
up what was in flight, and the slot, a resend and `SetCommPars` are stutters. That the call
answered is the first open one of its key, which `CommandPort` promises, is `FlightIsFirst`,
from `KeyOrder`.

**`P2Link_proofs`, the wire** (the same assumption). `WireKeepsLink`: the link over the wire is the
link, so all of the above holds there. `SuccessIsBacked` (`RepliesBacked`): a command is
never reported as successful more often than the device ran it. The invariant `Backed`
counts, per key, the successes together with the answers still on their way: each answer
comes from one run, is lost or ends one call. The successes alone are not inductive, since
they say nothing of the answers that will be delivered.

**`MagicDevice_proofs`** (`MagicDeviceAssumption`). From the
inductive invariant `DeviceInv`: `AnsweredOnce` (`RespondedOnce`), `NoneForgotten`
(`NobodyForgotten`), `FinishedIsDone` (`FinishedMeansDone`). Its parts: the timer list has
no id twice and only those of requests made (`TimersInv`); what is in the plugin's map was
asked and has no answer (`LedgerInv`); a request in both the map and the list is known to
`m_RequestMap` or given up in a named way, so its timer can answer it (`OwedInv`); no index
is on its way that the device has not reached, and a motion reported as finished has left
the list for good, with its target reached (`DoneInv`). `RespondedOnce` needs the first two,
because an orphaned timer must find its request gone from the map, `FinishedMeansDone` the
last, because a target may be set after the report.
`TickNeverBlocked` (`PollingAlive`): the tick is stuck (it runs, waits for an answer, and no
query is under way) only if a query of its own was refused, lost or forgotten. It needs no
further assumption, and with the types it is inductive by itself (`PollStep`).

**`IndustrialRobot_proofs`, the pool** (`PoolAssumption`: at least one thread, every task
has an owner). `NoWakeupLost` (`NoTaskSleeps`): no task waits while a thread sleeps, unless
enough others are on their way to take it. `IdleCountTrue` (`IdleCounts`): the idle count,
changed outside the lock, is the number of threads not inside a task. Neither is inductive
by itself: that a new task wakes or makes a thread depends on the count being true, and
the count on which threads sleep, wake or work; `PoolInv` is both with the types. The
theorems are about `PoolSpec`, the pool under any owner; `IndustrialRobot` takes exactly
its operations as part of its own steps.

**`IndustrialRobot_proofs`, the plugin** (`IndustrialAssumption`: a scenario has at most
`MaxRequests` requests, to known ports; no row of the api tables is a search).
`RobotAnswersOnce` (`AnsweredOnce`) and `NoLoopGone` (`LoopsLive`), for any scenarios,
ports and faults. Neither is inductive: an answer goes out under an id that a reply, a file
task, a loop or the debugger of a device has kept since it was asked, so `IndustrialInv`
follows the ids. `AnswersInv`: who has come and is still in `m_requestPacketMap` has no
answer, unless it is a search, and those who joined a search have none either.
`RepliesInv`, `JobsInv`, `LoopsInv`, `DevicesInv`: what waits to be handled belongs to no
search, which is why the one kind of request that stays in the map is never answered
again. `LiveInv`: every id in `m_eventloopMap` has a loop on the stack that has
neither failed nor been told to quit; it is about the whole stack, because a loop further
down is quit while others run above it. One lemma per handler says what it does to the queues and the answers;
`Emit` is where all answers go out, and takes those it answers out of the map in the same
step.

**`MessageHandler_proofs`** (`MessageHandlerAssumption`). `ConnectsOneAtATime`
(`OneProbe`) and `PortNeverLeaked` (`OpenIsOwned`), from the invariant `HandlerInv`, which
adds that a request not made has no answer and is not inside the loop.

**`DMessageCenter_proofs`** (`ServerAssumption`, `CenterAssumption`; a port is given
again only after its former session's `disconnected` slot has run). `AnswersRoutedHome`
(`RoutedHome`) and `TableNeverStale` (`TableFresh`). The invariant `RouteInv` follows a
request's number wherever a packet may carry it (both queues, the plugin, the connect
under way, `m_handlingRequestMap`): numbers are given once, a packet with a number belongs
to the request that got it, and the table's entry for that number holds that request's
session and id. Without the clauses about packets in the queues the theorem is not
inductive, since the table says nothing about who is about to use it.
`OnlyOwnerCloses` (`ClosedByOwner`) is the action property that a CloseWebSocket closes the
device of the session that ended and of no other, although a packet names the session by a
port that may have been given again. It rests on the order of the queue to the plugin
(`CloseInv`): two live sessions never have one port (`PortsInv`), and a session with a
request in the queue (`QueueInv`), or with the device (`OwnerInv`), is `Settled` from that
place on: its own close is still to come, and comes before that of any later session with
the port. A port is given again only after the `disconnected` slot has put that close into
the queue.

**`VirtualLite_proofs`** (`SizeAssumption`, `CommandAssumption`, and `SpanAssumption`: the indexes given out
stay below the end of their type): for any packets, a queue
of any size and any number of ticks, `ReportedIsDone` (`IndexHonest`), `PlanIsItsOwn`
(`PlanFresh`) and `OneAtATime` (`StartsAfterEnd`). `LiteInv` says of the arm that a finished
one has no motion under way (`Owned`) and that, as long as nothing was broken off, a plan or
a path stands only while the motion it was made for is under way (`Fresh`); of the queue
that its indexes ascend and are later than the current one (`OrderInv`); of a wait that its
type is the current one's and not finished (`WaitInv`). `CountInv` bounds the indexes by the
number of packets, so that of the differences `GetQueueIndex` forms only those below zero
wrap; `IndexHonest` is proved for these too. One lemma per function of the motion
algorithm shows that it keeps what is said of the arm; `JumpKeeps` follows the three legs,
between which the flags say "finished" for a moment within one tick.

**`ScriptRunners_proofs`** (`RunnersAssumption`: a play is of one of the two plugins and has
at most `MaxCalls` calls, clients are numbered from 1, and a call is about a process that an
earlier call has made). The lemmas of
`ScriptsOneAnswer`, from the invariant `ScriptsInv`. A process of Debuggerlite is *calm*
while no client has hung up, its own client has stopped nothing, and it has not been
started in the slot for its own end. Of a calm process at most one slot waits with its end, and
none while it runs (`Apart`, `CalmInv`); the Wait it knows has no answer before that slot
returns; and no slot that stops something stands for it or has it among those to come
(`FrameInv`). A call with two answers is a Wait for a process that is not calm (`Excused`),
which is what `ScriptsAnsweredOnce` excepts. Of RunCmd only this is needed: the Wait in
`m_waitResultPack` has no answer. The attempt to prove it found an error of the model:
`nested`, which marks a process started within its own slot, was computed anew by every
start, so that a start after that slot had returned cleared it while the Wait of the earlier
run could still be answered twice. It now stays set, and a play of the run goes that way.

The lemmas of `ScriptsWaitHonest` follow, from `HonestInv`. In Debuggerlite a process that is
not listed any more was stopped, waited for or left, `stop()` waits for what it has killed,
and a process that runs while a slot for its end spins was started inside it (`GoneInv`). In
RunCmd the process there is is the last one, and one that goes on without being it, or runs
while a slot spins, comes of a start inside a slot (`OnlyInv`). What refuses a Wait has left
its `Reason` among the calls before it. Two statements of an earlier
version of `WaitHonest` could not be proved and turned out to be untrue of longer plays: a
process of RunCmd that is deleted while it runs still reports its end, which answers any
Wait; and another client's process is refused. A third obstacle was an error of the
model: the destructor of a `DProcess` that is stopped can kill a script that was started
again before `stop()` returned.

**`RobotPlugins_proofs`, the tools** (`ToolsAssumption`: no request series is longer than
`MaxOrders`). A tool has one id under which everything it prints and its end are answered,
and a later request overwrites it. `OwnerInv` therefore says whose run goes on: if a run for
request *j* has not ended, the tool's id is *j*, or that of a later request that came while
the tool was busy. `ToldInv` says that every success told so far is `Earned`: the own run has
ended normally, or, for a request that came on top of an earlier one, an earlier run of the
same tool has (it stays so, since runs that ended only become more). `StartIdInv` keeps the
ids of the tools apart.

**`RobotPlugins_proofs`, together** (`TasksAssumption`: no session longer than `MaxAsks`; and those of the modules it uses).
`PluginsAnswerOnce` (`OneAnswer`): of the plugins side by side, no request is answered twice
but for the exceptions named in the properties. It puts together `RobotBesideOthers`,
`M1OneAnswer`, `TasksOneAnswer` and `ScriptsOneAnswer`, one part each; `PartsStep` is the
frame argument, that a step of one plugin leaves the invariants of the others alone.
`ToolsAnswerTrue`, `ScriptsWaitHonest` and `TasksMergedWhole` are parts of `AnswersTrue`, by
the same frame argument.

**`IndustrialRobot_proofs`, the M1** (`M1Assumption`: no script is longer than
`MaxPackets`). For any scripts and ports, `WaitedIsDone` (`M1FinishHonest`) and
`M1OneAnswer`. `IsDone` compares two numbers and the robot asked may have
been cleared, exchanged or reconnected since, so `M1Inv` follows the numbers: a robot's
queue ascends, above the last one done and below the next (`RobotInv`); an object that
waits holds a number that no other command of its robot has, and when the robot stands at
that number its command is done (`Numbered`). `Keeps` is what every operation on a robot
preserves of this; `TamerKeeps` serves starting, stopping and clearing, `AppendKeeps` a
queued call, `ExecuteKeeps` the work itself. A second answer is excluded because an object
with a timer running has none yet (`WaiterInv`) and takes its timers away as it answers.

**`RobotPlugins_proofs`, the tasks.** `TasksOneAnswer`. `TasksInv` says that a request that is
with a link, a download or the search has no answer yet (`AskInv`) and is with one of them,
once: links, threads and the search hold requests of different apis (`LinkInv`,
`ThreadInv`, `SearchInv`). A `GetEndEffectorStatus` that still has commands to come has none
but plain answers, so the merged one is its only one (`TripleInv`). `TasksMergedWhole`
(`MergedWhole`): `MergedInv` says of each of the three commands whether it is still to come,
is with the link or has left its result, and that the results that say done are those of the
commands the device has served; so a merged answer, given when none is to come, has all three.

### 4.1 Only model-checked

Liveness (`EventuallyAnswered`, `UnplugNoticed`, `EventuallyResponded`, `QueueDrains`,
`AllAnswered`, `PortReleased`) is out of the prover's reach, and so is what a recursive
definition computes (`RxFrame`; `AnswersHonest` of Protocol3 too, whose tick hands the frames
received on by a recursive function over the buffer; `LoopSendsThose`). What the tables say
(`codec`, `PayloadWhole`, `AnswerFits`, and `GetSeesSet` and `M1GetSeesSet` in `AnswersTrue`)
concerns concrete rows, all of which TLC visits. The other parts of `AnswersTrue`
(`SuccessBacked`, `WaitHonest`, `MergedWhole`) are proved.

## 5. What was found

### 5.1 Statements of the repository that do not hold

The modules state each as a property and TLC finds it violated. The first has a run of its
own, `scripts_kill`, and an entry under `findings`; the others are found by adding the property
to the configuration named.

1. `StopsReturn` (`scripts_kill`; `DProcess.cpp:207`): the comment at `:205` names the case
   in which killing a process does not bring about `finished`, and a timer of 200 ms is
   prepared for it and never started. `stop()` then stays in its loop and the Stop has no answer.
2. `TimerExits` (`MagicDevice.cfg`; `ActionTimerManager.cpp:166`): the comment at the head of
   the file names two exits of a timer, timeout and the end of the motion. The tick asks only
   when `isUpdated`; a query that is refused at the list limit (`DProtocol2.cpp:88`) or lost
   is never asked again, and its motion and those behind it leave by neither.
3. `DamageIsLocal` (`RxFrame.cfg` with `DamagedScripts`; `MessageHandler.cpp:643`): `_ClearBuffer` "clears the data
   before the next header". It looks for two header bytes: if the last byte in the buffer is
   the first one of the next frame, the whole buffer is cleared and that good frame is lost.
   A stray AA before AA AA 02 costs a good frame too (the TODO at `:620`).
4. `ScriptWaitsReturn` (`ScriptsKill.cfg` with `EndingOnly`; `DebuggerlitePlugin.cpp:120`): the comment at
   `:113-118` says that spinning in the slot keeps a front end from waiting for ever. When
   slots of two scripts lie on one another the lower one is not reached, and its Wait is not
   answered while nobody waits for the upper one.
5. `FirmwareOwn` (`ScriptsKill.cfg` with `NoPlays` and `ShippedOnly`; `DDfufile.cpp:86`): the comment at `:73` says that
   without a file the firmware under `firmware/` is used. If none of the device is there,
   `m_fileName` keeps the file of the call before, which may be another device's.

Two statements that nothing in the repository makes are kept as definitions and are violated
when added to a configuration: `StatusTruthful` (`MessageHandler.cpp:326`: `m_isConnected =
true` after the nested loop, whatever happened to the port inside it) and `PortWayNotifies`
(`DMessageCenter` with the `Ask` constants; `DUpgrade.cpp:24`: one `m_handlingID`, so with
two version requests under way an answer loses its request and goes to the session opened
last). `GetSeesSet` fails when two Sets of the controller's status (`SetJogMode`,
`SetToolCoordPattern`) are under way at once: each writes back the status it read before,
and one is lost.

### 5.2 Observations built into the models

* A packet of Protocol2 is resent once more often than `DEFAULT_RESEND_TIMES_MAX` says
  (limit + 2 sends). A late reply may answer a later call of the same command (`P2Link`).
  A motion whose index has not arrived is ended by the first index of at least 1.
* `m_Device` (`DMagicianProtocol.cpp:3944`): when another device's version is asked for before
  a reply to the first has come, the reply is read by the rules of the wrong device: the
  hardware version of a device taken for a Magician is read behind the end of its reply.
* The virtual arm: `GetQueueIndex` reports 2^64-1 or 2^64-2 before the first queued command
  or during a motion (`dcps.cpp:364-374`), which as an index is later than any target. Jogs in
  the positive direction and jogs in space that are let go do not raise the finish flag
  (`teach.cpp:32`, `:286-382`): sent in the midst of a queued motion they hold the queue up
  until another packet comes (`Blocked`).
* Protocol3: `SetMoveSpeedTime_CB` reports a timeout as success. `SetDeviceSN`,
  `SetDeviceName` and `SetMagicBoxScriptMode` send bytes of a pointer instead of the text
  (`GeneralApi.cpp:98`, `:141`, `MagicBoxApi.cpp:106`). A General request may lose its slot to
  the reply of a request of another command set with its id, and is then never answered
  (`GeneralCmdRules.c:62-68`); if the adapter's thread is quicker than `connect`, nothing is.
* A request that is in a plugin's queue when the plugin is unloaded is answered by nobody. A
  download whose file cannot be opened ends the process (`DNetworkManager.cpp:116-137`).
* `MagicTasks`: `DoSpecialResponse` has no return, so single results may go out beside the
  merged one; `CheckBoxSpace` without code is answered twice; the id of a search answered
  at once stays in `m_requestPacketMap`; a `SetCommuTimeout` that is not positive is never
  answered.
* M1: the safe-mode calls cast their doubles to bytes and so cut a fraction off. The end of a queued command is recognised by equality of indices; `DisconnectDobot`
  of one client drops the waits of all; the gripper is reported with the suction cup's
  call; `dns` is the gateway.
* Industrial robots: an `Exchange` answered with no data is reported as an error; cancelled SMB tasks and `RestartComputer` are never answered;
  `SetToolCoordinate2` and `SetHitbotGripper` post to another api's url; a setter given an
  unknown value sends the status back unchanged.
* Scripts: a Start while a command runs resets the flags of the one before; Debuggerlite's
  slots return last in, first out.
* Tools: the exit code of dfu-util is not looked at, and a success may stand for the run of
  an earlier request for the same tool; the length reported with a version is that of an
  earlier call when the file's name has too few parts (`DGetVersion.cpp:134`); the Arduino plugin goes on after it has said it is busy; a compiler
  that times out and a Microbit tool that fails to start are never answered.

## 6. Not modelled, and why

* UDP transport and the WebAssembly build of `MessageHandler`: the same state machine
  with fewer errors; `P2Link` covers UDP's reordering.
* The MagicianGO branch of `MagicDevice`: it uses the same `ActionTimerManager` over
  `DProtocol3`, each of which is modelled on its own.
* The virtual arm's kinematics, look-ahead and limits: arithmetic on reals.
* The transfers inside curl, libsmb2, QNetworkAccessManager: vendored or external; how
  they are used, and that they may fail, is modelled.
* DebuggerPlugin, CodingAgentPlugin, PyImageOMPlugin, DynamicAlgorithmRPCPlugin and the
  joystick: one process started and killed. ProtocolFramePlugin and DemoPlugin are not
  loaded.
* `closeServer` and the exit of DobotLink, the watch over the front end's process: the
  process ends.
* `originRequestId` in answers: used by the Arduino plugin only.
* Views, logger, settings, tables of error texts.
* Memory safety of slots that delete their sender (`DProtocol2.cpp:167`).

## 7. Plan

Done: the gateway, the connection, the receive buffer, both links with their codecs and
tables, one device, the plugin's tasks, the virtual arm, the plugins for industrial
robots, the M1, scripts and tools; the proofs of section 4. Next:

1. A version of Protocol3's tick without recursion, so that `AnswersHonest` can be proved.
2. That `Iterate` computes `SentBySlot`, proved for lists of any length.
