---------------------------- MODULE ScriptRunners ----------------------------
(***************************************************************************)
(* The two plugins that run a client's programs: RunCmdPlugin, one command *)
(* at a time, and DebuggerlitePlugin, with a DProcess per script.  A       *)
(* client starts a program and sends Wait, which is to be answered when it *)
(* has ended.  Since the program may be quicker than the Wait, the slot    *)
(* for its end spins in processEvents until the Wait has come; stopping a  *)
(* script waits in an event loop of its own.  Both run whatever else       *)
(* arrives inside, so that these slots pile up and return in reverse.      *)
(*                                                                         *)
(* A process is known by the request that made it.                         *)
(***************************************************************************)
EXTENDS Naturals, FiniteSets, SequencesExt

CONSTANTS
    Plays,      \* what clients ask: [plugin, calls, troubles, closes]
    MaxCalls    \* calls of the longest play

VARIABLES
    play,                   \* the one that is played
    heard,                  \* how many of its calls have come in
    troubles,               \* failures still to come
    hungUp,                 \* clients that have closed their socket
    procs,                  \* the processes that were made
    m_procs,                \* DebuggerLitePlugin: those it lists
    m_process,              \* RunCmdPlugin: the one it has, or 0
    m_waitResultPack,       \* RunCmdPlugin: the Wait to answer, or 0
    m_bWaitCommandCalled, m_bStopCommandCalled,
    frames,                 \* the slots that spin or wait, the innermost last
    results,                \* for every call, the answers to it
    lost                    \* calls that no code is left to answer

scriptVars == <<play, heard, troubles, hungUp, procs, m_procs, m_process, m_waitResultPack, m_bWaitCommandCalled,
                m_bStopCommandCalled, frames, results, lost>>
runCmdVars == <<m_process, m_waitResultPack, m_bWaitCommandCalled, m_bStopCommandCalled>>
calls == play.calls
Calls == 1..MaxCalls

ScriptsInit ==
    /\ play \in Plays
    /\ heard = 0
    /\ troubles = play.troubles
    /\ hungUp = {}
    /\ procs = <<>>
    /\ m_procs = {}
    /\ m_process = 0
    /\ m_waitResultPack = 0
    /\ m_bWaitCommandCalled = FALSE
    /\ m_bStopCommandCalled = FALSE
    /\ frames = <<>>
    /\ results = [id \in Calls |-> <<>>]
    /\ lost = {}

\* A process: its client, what it is at ("prepared", "running", "killed" by taskkill or by
\* its destructor but not yet seen to end, "unseen" when QProcess is never told of that
\* end, "ended", "deleted"), the Wait for it and isWaitCmdFinished; and whether it was
\* started inside the slot for an end.
Process(ws, at) == [ws |-> ws, at |-> at, waitId |-> 0, waitCmdFinished |-> FALSE, nested |-> frames # <<>>]
With(pr, p, made) == [q \in DOMAIN pr \cup {p} |-> IF q = p THEN made ELSE pr[q]]
Alive(p, pr) == p \in DOMAIN pr /\ pr[p].at \in {"running", "killed", "unseen"}
Slain(at) == IF at = "unseen" THEN at ELSE "killed"
isRunning(p) == Alive(p, procs)

\* The answers with one more, to call id (0: nobody), while the processes are pr: alive says
\* whether the one that the call names still runs.
Replied(rs, id, ok, pr) ==
    IF id = 0 THEN rs
    ELSE [rs EXCEPT ![id] = Append(@, [ok |-> ok, alive |-> Alive(calls[id].of, pr) /\ pr[calls[id].of].at = "running"])]
Replies(id, ok) == results' = Replied(results, id, ok, procs)
Trouble == troubles > 0 /\ troubles' = troubles - 1

\* A slot that waits: for the Wait of process p ("finish"), or for p to end ("stop"), in
\* which case rest are to be stopped next, for call id, and delete says whether the
\* stopped ones are deleted: "no", "then", or "now" in the destructor.
Frame(kind, p, id, rest, delete) ==
    [kind |-> kind, p |-> p, id |-> id, rest |-> rest, delete |-> delete, quit |-> FALSE]
Top == Last(frames)
Under == Front(frames)

-----------------------------------------------------------------------------
\* RunCmdPlugin::_checkProcess.
checkProcess(p) == m_process # 0 /\ m_process = p

\* A Start while there is a process makes an error and sends nothing; but the two flags
\* are reset, so that a Wait that has come counts no more.
handleStartCommand(id) ==
    /\ m_bWaitCommandCalled' = FALSE
    /\ m_bStopCommandCalled' = FALSE
    /\ \/ m_process # 0 /\ lost' = lost \cup {id} /\ UNCHANGED <<troubles, procs, m_process, results>>
       \/ /\ m_process = 0
          /\ \/ /\ procs' = With(procs, id, Process(calls[id].ws, "running"))
                /\ m_process' = id
                /\ Replies(id, TRUE)
                /\ UNCHANGED troubles
             \/ Trouble /\ Replies(id, FALSE) /\ UNCHANGED <<procs, m_process>>
          /\ UNCHANGED lost
    /\ UNCHANGED <<m_waitResultPack, m_procs, frames>>

\* The packet of an earlier Wait is overwritten.
handleWaitCommand(id) ==
    /\ m_bWaitCommandCalled' = TRUE
    /\ \/ /\ checkProcess(calls[id].of)
          /\ m_waitResultPack' = id
          /\ lost' = lost \cup ({m_waitResultPack} \ {0})
          /\ UNCHANGED results
       \/ ~checkProcess(calls[id].of) /\ Replies(id, FALSE) /\ UNCHANGED <<m_waitResultPack, lost>>
    /\ UNCHANGED <<troubles, procs, m_procs, m_process, m_bStopCommandCalled, frames>>

\* The processes once m_process was deleted; deleted running, it is killed by its destructor.
Deleted(pr) ==
    IF m_process = 0 THEN pr ELSE [pr EXCEPT ![m_process].at = IF Alive(m_process, pr) THEN "killed" ELSE "deleted"]

\* _sendWaitResult below its loop: the Wait is answered and the process deleted, also
\* when these belong to a process that was started meanwhile.
WaitResult(rs, pr) ==
    /\ results' = Replied(rs, m_waitResultPack, TRUE, pr)
    /\ m_waitResultPack' = 0
    /\ procs' = Deleted(pr)
    /\ m_process' = 0

\* _stopProcess closes the process, whose signals are disconnected.
Closed == [procs EXCEPT ![m_process].at = "ended"]
handleStopCommand(id) ==
    /\ \/ /\ checkProcess(calls[id].of)
          /\ m_bStopCommandCalled' = TRUE
          /\ WaitResult(Replied(results, id, TRUE, Closed), Closed)
       \/ /\ ~checkProcess(calls[id].of)
          /\ Replies(id, FALSE)
          /\ UNCHANGED <<m_bStopCommandCalled, m_waitResultPack, procs, m_process>>
    /\ UNCHANGED <<troubles, m_procs, m_bWaitCommandCalled, frames, lost>>

\* _stopProcess when a client's socket closes or DobotLink exits: the flag is set whoever
\* it is; the process of that client goes and its Wait stays.
stopProcess(ws) ==
    LET its == m_process # 0 /\ ws \in {0, procs[m_process].ws}
    IN /\ m_bStopCommandCalled' = TRUE
       /\ procs' = IF its THEN Deleted(Closed) ELSE procs
       /\ m_process' = IF its THEN 0 ELSE m_process
       /\ lost' = lost \cup (IF its THEN {m_waitResultPack} \ {0} ELSE {})
       /\ UNCHANGED <<m_procs, m_waitResultPack, m_bWaitCommandCalled, frames, results>>

\* _sendWaitResult, with the processes pr: its loop ends when one of the flags is set.
Called == m_bWaitCommandCalled \/ m_bStopCommandCalled
SendWaitResult(pr) == WaitResult(results, pr) /\ UNCHANGED <<m_procs, m_bWaitCommandCalled, m_bStopCommandCalled>>

-----------------------------------------------------------------------------
\* DebuggerLitePlugin::_getProc.
getProc(id) == LET p == calls[id].of IN p \in m_procs /\ procs[p].ws = calls[id].ws
Refused(id) == Replies(id, FALSE) /\ UNCHANGED <<troubles, procs, m_procs, frames, lost>>

\* _handlePrepareCommand: without a script, and when the file cannot be made, an error.
handlePrepareCommand(id) ==
    \/ /\ procs' = With(procs, id, Process(calls[id].ws, "prepared"))
       /\ m_procs' = m_procs \cup {id}
       /\ Replies(id, TRUE)
       /\ UNCHANGED <<troubles, frames, lost>>
    \/ Trouble /\ Replies(id, FALSE) /\ UNCHANGED <<procs, m_procs, frames, lost>>

\* DProcess::start of the processes S; some do not start.  Those that run go on.
SpinsFor(p) == \E n \in DOMAIN frames : frames[n].kind = "finish" /\ frames[n].p = p
Started(p, ok) == [procs[p] EXCEPT !.waitCmdFinished = FALSE, !.at = IF ok THEN "running" ELSE @, !.nested = @ \/ SpinsFor(p)]
StartThese(id, S) ==
    LET idle == {p \in S : ~isRunning(p)}
    IN \E failed \in SUBSET idle :
        /\ Cardinality(failed) <= troubles
        /\ troubles' = troubles - Cardinality(failed)
        /\ procs' = [p \in DOMAIN procs |-> IF p \in idle THEN Started(p, p \notin failed) ELSE procs[p]]
        /\ Replies(id, failed = {})
        /\ UNCHANGED <<m_procs, frames, lost>>

\* DebuggerLitePlugin::_handleWaitCommand: an earlier Wait of that script is overwritten;
\* one that comes before the start, or after the slot for the end has returned, finds nobody.
handleDebugWait(id) ==
    LET p == calls[id].of
        late == ~isRunning(p) /\ ~SpinsFor(p)
    IN /\ procs' = [procs EXCEPT ![p].waitId = id, ![p].waitCmdFinished = TRUE]
       /\ lost' = lost \cup ({procs[p].waitId} \ {0}) \cup (IF late THEN {id} ELSE {})
       /\ UNCHANGED <<troubles, m_procs, frames, results>>

\* Stops the processes ps for call id (0: nobody asked), up to the first that runs, whose
\* end is waited for; below are the slots that go on after that, pr the processes and
\* listed those that are listed so far.
StopNext(id, ps, delete, below, pr, listed) ==
    \E first \in 1..Len(ps) + 1 :
        LET runs == first <= Len(ps)
            deleted == IF delete = "no" THEN {} ELSE {ps[n] : n \in 1..first - 1}
        IN /\ \A n \in 1..first - 1 : ~Alive(ps[n], pr)
           /\ runs => Alive(ps[first], pr)
           /\ m_procs' = listed \ deleted
           /\ procs' = [p \in DOMAIN pr |->
                           IF p \in deleted THEN [pr[p] EXCEPT !.at = "deleted", !.waitCmdFinished = TRUE]
                           ELSE IF runs /\ p = ps[first] THEN [pr[p] EXCEPT !.at = Slain(@), !.waitCmdFinished = TRUE]
                           ELSE pr[p]]
           /\ \/ ~runs /\ frames' = below /\ results' = Replied(results, id, TRUE, procs)
              \/ /\ runs
                 /\ frames' = Append(below, Frame("stop", ps[first], id, SubSeq(ps, first + 1, Len(ps)), delete))
                 /\ UNCHANGED results

\* The listed processes of client ws, or all for ws = 0, as QMap has them.
Of(ws) == {p \in m_procs : ws \in {0, procs[p].ws}}
InOrder(S) == {s \in [1..Cardinality(S) -> S] : \A m, n \in DOMAIN s : m < n => s[m] < s[n]}
StopThese(id, S, delete) == \E ps \in InOrder(S) : StopNext(id, ps, delete, frames, procs, m_procs)

\* _handleStopCommand, _handleStopAllCommand (which deletes nothing).
handleStop(id) == StopNext(id, <<calls[id].of>>, "then", frames, procs, m_procs) /\ UNCHANGED <<troubles, lost>>
handleStopAllCommand(id) == StopThese(id, Of(calls[id].ws), "no") /\ UNCHANGED <<troubles, lost>>

\* _handleCloseWebSocket, for a client or, at the exit, for all.
handleCloseWebSocket(ws) == StopThese(0, Of(ws), "then") /\ UNCHANGED lost

\* The loops that wait for the end of p quit, also when its destructor ends it.
Quit(fs, p) == [n \in DOMAIN fs |-> [fs[n] EXCEPT !.quit = @ \/ (fs[n].kind = "stop" /\ fs[n].p = p)]]

\* stop() returns: with "then" the process is deleted, whose destructor stops it once more
\* if the kill has not come through yet.  A Stop has it off the list before that.
StopReturns ==
    LET p == Top.p
        again == Top.delete = "then" /\ isRunning(p)
    IN /\ Top.quit
       /\ \/ /\ again
             /\ frames' = Append(Under, [Top EXCEPT !.delete = "now", !.quit = FALSE])
             /\ m_procs' = IF Top.id = 0 THEN m_procs ELSE m_procs \ {p}
             /\ procs' = [procs EXCEPT ![p].at = Slain(@), ![p].waitCmdFinished = TRUE]
             /\ UNCHANGED results
          \/ ~again /\ Top.delete = "no" /\ StopNext(Top.id, Top.rest, "no", Under, procs, m_procs)
          \/ /\ ~again /\ Top.delete # "no"
             /\ LET gone == [procs EXCEPT ![p].at = "deleted", ![p].waitCmdFinished = @ \/ Top.delete = "then"]
                IN StopNext(Top.id, Top.rest, "then", Quit(Under, p), gone, m_procs \ {p})

\* slotFinish once isWaitCmdFinished: the Wait is answered; without one, id 0 is.
slotFinish(p, pr) == results' = Replied(results, procs[p].waitId, TRUE, pr)

-----------------------------------------------------------------------------
\* pReceiveMassage_slot of the two plugins.
RunCmdCall(id) ==
    \/ calls[id].api = "Start" /\ handleStartCommand(id)
    \/ calls[id].api = "Wait" /\ handleWaitCommand(id)
    \/ calls[id].api = "Stop" /\ handleStopCommand(id)
    \/ calls[id].api \notin {"Start", "Wait", "Stop"} /\ Refused(id) /\ UNCHANGED runCmdVars

DebuggerliteApis == {"Prepare", "Start", "StartAll", "Wait", "Stop", "EmergencyStop", "StopAll", "Input", "SetupCustomModule",
                     "GetProcessStatus"}
DebuggerliteCall(id) ==
    LET api == calls[id].api IN
    /\ \/ api = "Prepare" /\ handlePrepareCommand(id)
       \/ api \in {"Start", "Wait", "Stop", "EmergencyStop", "Input"} /\ ~getProc(id) /\ Refused(id)
       \/ api = "Start" /\ getProc(id) /\ StartThese(id, {calls[id].of})
       \/ api = "StartAll" /\ StartThese(id, Of(calls[id].ws))
       \/ api = "Wait" /\ getProc(id) /\ handleDebugWait(id)
       \/ api \in {"Stop", "EmergencyStop"} /\ getProc(id) /\ handleStop(id)
       \/ api = "StopAll" /\ handleStopAllCommand(id)
       \/ api \notin DebuggerliteApis /\ Refused(id)
       \* _handleInputCommand, _handleSetupCustomModuleCommand, _handleGetProcessStatusCommand.
       \/ /\ api \in {"Input", "SetupCustomModule", "GetProcessStatus"}
          /\ api = "Input" => getProc(id)
          /\ \/ Replies(id, api = "Input" => isRunning(calls[id].of)) /\ UNCHANGED troubles
             \/ api # "GetProcessStatus" /\ Trouble /\ Replies(id, FALSE)
          /\ UNCHANGED <<procs, m_procs, frames, lost>>
    /\ UNCHANGED runCmdVars

Receive ==
    /\ heard < Len(calls)
    /\ {0, calls[heard + 1].ws} \cap hungUp = {}
    /\ heard' = heard + 1
    /\ \/ play.plugin = "RunCmd" /\ RunCmdCall(heard + 1)
       \/ play.plugin = "Debuggerlite" /\ DebuggerliteCall(heard + 1)
    /\ UNCHANGED <<play, hungUp>>

\* EXIT (ws = 0) and CloseWebSocket.
Close(ws) ==
    /\ ws \in play.closes \ hungUp
    /\ 0 \notin hungUp
    /\ hungUp' = hungUp \cup {ws}
    /\ \/ play.plugin = "RunCmd" /\ stopProcess(ws)
       \/ play.plugin = "Debuggerlite" /\ handleCloseWebSocket(ws) /\ UNCHANGED runCmdVars
    /\ UNCHANGED <<play, heard, troubles>>

\* A program ends, which runs the slot for it: it answers at once or spins in a frame of
\* its own.
Ended(p) == [procs EXCEPT ![p].at = "ended"]
Finished(p) ==
    /\ procs[p].at \in {"running", "killed"}
    /\ \/ /\ play.plugin = "RunCmd" /\ Called
          /\ SendWaitResult(Ended(p))
          /\ UNCHANGED frames
       \/ /\ play.plugin = "Debuggerlite" /\ procs[p].waitCmdFinished
          /\ slotFinish(p, Ended(p))
          /\ procs' = Ended(p)
          /\ frames' = Quit(frames, p)
          /\ UNCHANGED <<m_procs, runCmdVars>>
       \/ /\ IF play.plugin = "RunCmd" THEN ~Called ELSE ~procs[p].waitCmdFinished
          /\ procs' = Ended(p)
          /\ frames' = Append(Quit(frames, p), Frame("finish", p, 0, <<>>, "no"))
          /\ UNCHANGED <<m_procs, runCmdVars, results>>
    /\ UNCHANGED <<play, heard, troubles, hungUp, lost>>

\* On Windows QProcess may not learn of a kill (DProcess.cpp 205).  The timer that is there
\* for that, timerWaitFinish, is given an interval and is never started.
KillUnseen(p) ==
    /\ play.plugin = "Debuggerlite"
    /\ procs[p].at = "killed"
    /\ Trouble
    /\ procs' = [procs EXCEPT ![p].at = "unseen"]
    /\ UNCHANGED <<play, heard, hungUp, m_procs, runCmdVars, frames, results, lost>>

\* The innermost slot returns, if what it waits for is there.
Return ==
    /\ frames # <<>>
    /\ \/ play.plugin = "RunCmd" /\ Called /\ SendWaitResult(procs) /\ frames' = Under
       \/ /\ play.plugin = "Debuggerlite" /\ Top.kind = "finish" /\ procs[Top.p].waitCmdFinished
          /\ slotFinish(Top.p, procs)
          /\ frames' = Under
          /\ UNCHANGED <<procs, m_procs, runCmdVars>>
       \/ play.plugin = "Debuggerlite" /\ Top.kind = "stop" /\ StopReturns /\ UNCHANGED runCmdVars
    /\ UNCHANGED <<play, heard, troubles, hungUp, lost>>

\* A slot whose process, or one it is to stop next, was deleted under it reads freed memory:
\* it goes on as if that were still there (Return), or the program dies.
Crash ==
    /\ play.plugin = "Debuggerlite"
    /\ frames # <<>>
    /\ \E p \in {Top.p} \cup Range(Top.rest) : procs[p].at = "deleted"
    /\ lost' = Calls
    /\ frames' = <<>>
    /\ hungUp' = hungUp \cup {0}
    /\ UNCHANGED <<play, heard, troubles, procs, m_procs, runCmdVars, results>>

ScriptsNext ==
    \/ Receive
    \/ \E ws \in play.closes : Close(ws)
    \/ \E p \in DOMAIN procs : Finished(p)
    \/ \E p \in DOMAIN procs : KillUnseen(p)
    \/ Return
    \/ Crash

\* Slots return when they can.  A program need not end, unless it is killed and QProcess is
\* told of it.
ScriptsProgress == Return \/ \E p \in DOMAIN procs : procs[p].at = "killed" /\ Finished(p)

-----------------------------------------------------------------------------
\* A call is answered once, but for the Wait for a script that was started again in the
\* slot for its end, or whose client has stopped one or left: the waitId of an earlier run
\* is still there when the next one is stopped (DProcess.cpp 203, DebuggerlitePlugin.cpp
\* 120-125).
StopsOf(ws) == {id \in 1..heard : calls[id].api \in {"Stop", "EmergencyStop", "StopAll"} /\ calls[id].ws = ws}
ScriptsAnsweredOnce ==
    \A id \in 1..heard : Len(results[id]) > 1 =>
        /\ calls[id].api = "Wait"
        /\ play.plugin = "Debuggerlite"
        /\ procs[calls[id].of].nested \/ hungUp # {} \/ StopsOf(calls[id].ws) # {}

\* A Wait is answered when its process has ended, however the slots pile up: but not if the
\* process was started inside the slot of an earlier one, which may take the Wait for its
\* own (RunCmdPlugin.cpp 204-219, DebuggerlitePlugin.cpp 120-125); nor if, in RunCmd, an
\* earlier one was: that is deleted while it runs, and its end takes any Wait.  And it is not
\* refused because the process was quicker, only if it was stopped, waited for or left by
\* its client, or is another client's (_getProc).
WaitHonest ==
    \A id \in 1..heard : \A n \in DOMAIN results[id] :
        LET p == calls[id].of
            before == {k \in 1..id - 1 : calls[k].api \in {"Stop", "EmergencyStop", "Wait"}}
        IN calls[id].api = "Wait" =>
            IF results[id][n].ok
            THEN results[id][n].alive =>
                     \/ procs[p].nested
                     \/ play.plugin = "RunCmd" /\ \E q \in DOMAIN procs : q < p /\ procs[q].nested
            ELSE \/ p \notin DOMAIN procs \/ before # {} \/ hungUp # {}
                 \/ play.plugin = "Debuggerlite" /\ procs[p].ws # calls[id].ws

\* Every call is answered, but those that are lost; a Wait also when the process was
\* quicker than it.  Who may go on waiting: the Wait for a process that has not ended or
\* whose end is unseen; those whose slot is under one that spins for a Wait nobody has sent
\* or that waits for an unseen end, and that one's Stop; and, in such a spin, the Wait that a
\* later Start has made void.  KillsReported and WaitsReturn are what DobotLink claims of the
\* last two, and they fail.
StillRuns(id) == calls[id].api = "Wait" /\ procs[calls[id].of].at \in {"running", "unseen"}
Spins ==
    /\ frames # <<>>
    /\ Top.kind = "finish"
    /\ IF play.plugin = "RunCmd" THEN ~Called ELSE ~procs[Top.p].waitCmdFinished
Hangs == frames # <<>> /\ Top.kind = "stop" /\ ~Top.quit /\ procs[Top.p].at = "unseen"
Buried(id) == \E n \in 1..Len(frames) - 1 : frames[n].id = id \/ (calls[id].api = "Wait" /\ frames[n].p = calls[id].of)
Voided(id) == calls[id].api = "Wait" /\ \E s \in id + 1..heard : calls[s].api \in {"Start", "StartAll"}
ScriptsSettled ==
    \A id \in 1..heard :
        \/ results[id] # <<>> \/ id \in lost \/ StillRuns(id)
        \/ Spins /\ (Buried(id) \/ Voided(id))
        \/ Hangs /\ (Buried(id) \/ Top.id = id)

\* stop() returns also when QProcess is not told of the kill: what the comment and the timer
\* in DProcess.cpp 205-212 are for.
StopWaits == \E n \in DOMAIN frames : frames[n].kind = "stop"
KillsReported == StopWaits ~> ~StopWaits

\* The Wait for a script that has ended is answered: what the loop of slotFinish is for
\* (DebuggerlitePlugin.cpp 110-119).
Waited(id) ==
    /\ id <= heard
    /\ calls[id].api = "Wait"
    /\ id \notin lost
    /\ procs[calls[id].of].at = "ended"
WaitsReturn == \A id \in Calls : Waited(id) ~> id \in lost \/ results[id] # <<>>
=============================================================================
