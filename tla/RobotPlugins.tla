---------------------------- MODULE RobotPlugins -----------------------------
(***************************************************************************)
(* What the plugins do above the links to their robots: IndustrialRobot    *)
(* and M1 with libraries of their own (the sources of M1 are kept, though  *)
(* the build list no longer names it), the tasks of MagicDevicePlugin, and *)
(* those that run a client's scripts or a vendor's tools.  Each runs in a  *)
(* thread of its own (DPluginManager.cpp 204-207) and shares nothing with  *)
(* the others, so one at a time is asked something.                        *)
(***************************************************************************)
EXTENDS IndustrialRobot

CONSTANTS Scripts, MaxPackets, SerialPorts, Sessions, MaxAsks, SerialNames, Addresses,
          Plays, MaxCalls, Orders, MaxOrders

VARIABLES script, taken, left, failures, m_DevInfoMap, m_portNameClientMap, m_waitFinishMap, link, robot, done, given, out,
          forgotten,
          session, come, mishaps, openPackets, m_deviceMap, linked, inFlight, m_RequestMap, m_magicSpecialTask,
          m_isSearchingDevices, searcher, m_m1deviceMap, m_preDeviceMap, downloads, box, said, served, unowed,
          play, heard, troubles, hungUp, procs, m_procs, m_process, m_waitResultPack, m_bWaitCommandCalled,
          m_bStopCommandCalled, frames, results, lost,
          order, placed, luck, runs, current, start_id, m_isBusy, unfinished, m_fileName, burned, m_firmwareName, m_length, told,
          exited, overlapped, abandoned, ended

m1Vars == <<script, taken, left, failures, m_DevInfoMap, m_portNameClientMap, m_waitFinishMap, link, robot, done, given,
            out, forgotten>>
M1 == INSTANCE M1Controller
taskVars == <<session, come, mishaps, openPackets, m_deviceMap, linked, inFlight, m_RequestMap, m_magicSpecialTask,
              m_isSearchingDevices, searcher, m_m1deviceMap, m_preDeviceMap, downloads, box, said, served, unowed>>
Tasks == INSTANCE MagicTasks
runnerVars == <<play, heard, troubles, hungUp, procs, m_procs, m_process, m_waitResultPack, m_bWaitCommandCalled,
                m_bStopCommandCalled, frames, results, lost>>
Runners == INSTANCE ScriptRunners
toolVars == <<order, placed, luck, runs, current, start_id, m_isBusy, unfinished, m_fileName, burned, m_firmwareName,
              m_length, told, exited, overlapped, abandoned, ended>>
Burners == INSTANCE ToolRunners

\* Every name the M1Plugin's dispatch knows has a handler, but the one it never reaches.
ASSUME M1Assumption ==
    /\ MaxPackets \in Nat
    /\ \A s \in Scripts : Len(s.reqs) \in 0..MaxPackets
    /\ (UNION Range(M1!Known)) \ {"SetCmdTimeout"} = DOMAIN M1!Handler

ASSUME TasksAssumption == MaxAsks \in Nat /\ \A s \in Sessions : Len(s.asks) \in 0..MaxAsks

\* Clients are numbered from 1: 0 stands for all of them (EXIT).  A process is known to a
\* client by the answer to the call that made it.
ASSUME RunnersAssumption ==
    /\ MaxCalls \in Nat
    /\ \A p \in Plays : /\ Len(p.calls) \in 0..MaxCalls
                        /\ p.plugin \in {"RunCmd", "Debuggerlite"}
                        /\ \A n \in 1..Len(p.calls) : p.calls[n].ws # 0 /\ p.calls[n].of \in 0..n - 1

ASSUME ToolsAssumption == MaxOrders \in Nat /\ \A o \in Orders : Len(o.calls) \in 0..MaxOrders

\* One of the plugins is asked something.
PluginsInit ==
    /\ \E asked \in 1..5 :
        /\ scenario \in {x \in Scenarios : x.reqs # <<>> <=> asked = 1}
        /\ script \in {x \in Scripts : x.reqs # <<>> <=> asked = 2}
        /\ session \in {x \in Sessions : x.asks # <<>> <=> asked = 3}
        /\ play \in {x \in Plays : x.calls # <<>> <=> asked = 4}
        /\ order \in {x \in Orders : x.calls # <<>> <=> asked = 5}
    /\ Init
    /\ M1!M1Init
    /\ Tasks!TasksInit
    /\ Runners!ScriptsInit
    /\ Burners!ToolsInit

PluginsNext ==
    \/ Next /\ UNCHANGED <<m1Vars, taskVars, runnerVars, toolVars>>
    \/ M1!M1Next /\ UNCHANGED <<vars, taskVars, runnerVars, toolVars>>
    \/ Tasks!TasksNext /\ UNCHANGED <<vars, m1Vars, runnerVars, toolVars>>
    \/ Runners!ScriptsNext /\ UNCHANGED <<vars, m1Vars, taskVars, toolVars>>
    \/ Burners!ToolsNext /\ UNCHANGED <<vars, m1Vars, taskVars, runnerVars>>

PluginsSpec ==
    /\ PluginsInit
    /\ [][PluginsNext]_<<vars, m1Vars, taskVars, runnerVars, toolVars>>
    /\ WF_vars(Progress)
    /\ M1!M1Fairness
    /\ WF_taskVars(Tasks!TasksProgress)
    /\ WF_runnerVars(Runners!ScriptsProgress)
    /\ WF_toolVars(Burners!ToolsProgress)

-----------------------------------------------------------------------------
\* No request is answered twice, but those the four parts except: AnsweredOnce,
\* M1AnsweredOnce, TasksAnsweredOnce and ScriptsAnsweredOnce.
OneAnswer == AnsweredOnce /\ M1!M1AnsweredOnce /\ Tasks!TasksAnsweredOnce /\ Runners!ScriptsAnsweredOnce

\* What an answer says is so: a Get returns what the Set before it stored (GetSeesSet,
\* M1GetSeesSet), a merged answer has all its parts (MergedWhole), and a Wait is answered
\* when the process it names has ended (WaitHonest), and a board is said to be programmed
\* when a tool of its kind has ended normally (SuccessBacked).
AnswersTrue ==
    /\ GetSeesSet
    /\ M1!M1GetSeesSet
    /\ Tasks!MergedWhole
    /\ Runners!WaitHonest
    /\ Burners!SuccessBacked

\* What was waited for and reported as finished has been done: FinishHonest.
M1FinishHonest == M1!FinishHonest

\* What DobotLink's comments say of a stop, of a Wait and of a firmware: KillsReported,
\* WaitsReturn and FirmwareOwn.  They do not hold.
StopsReturn == Runners!KillsReported
ScriptWaitsReturn == Runners!WaitsReturn
FirmwareOwn == Burners!FirmwareOwn

\* Every request is answered or among those the code is known to forget: again and again
\* nobody waits, for what is settled stays so.
AllAnswered == []<>(Settled /\ M1!M1Settled /\ Tasks!TasksSettled /\ Runners!ScriptsSettled /\ Burners!ToolsSettled)
=============================================================================
