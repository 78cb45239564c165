---------------------------- MODULE VirtualLite -----------------------------
(***************************************************************************)
(* The virtual Magician Lite at run time: the slave that takes packets     *)
(* (dcps.cpp), the queue of commands, and the profile whose 40 ms timer    *)
(* moves the arm and starts the next queued command.  All of it lives in   *)
(* one thread, so a packet and a tick are each one step.                   *)
(*                                                                         *)
(* Where the arm is, how fast it goes and how long a motion or a wait      *)
(* takes are left out: a tick may or may not be the last one.  owner,      *)
(* planOf, jumpOf, torn and waiting are not in the code: they say whose    *)
(* motion is under way, for whom the plan in use was made, whether a plan  *)
(* was left behind, and whether a wait is still to pass.                   *)
(***************************************************************************)
EXTENDS Naturals, Sequences

CONSTANTS
    Queued,     \* what the host sends as queued commands
    Direct,     \* what it sends to be done at once
    QueueSize,  \* the queue holds so many
    IndexSpan,  \* how many values a uint64_t has
    MaxPackets  \* bound on the packets of a behaviour

ASSUME SizeAssumption == QueueSize \in Nat \ {0} /\ MaxPackets \in Nat
\* The indexes themselves never come near the end of their type.
ASSUME SpanAssumption == IndexSpan \in Nat /\ IndexSpan >= MaxPackets + 4

\* The commands the queue and the arm tell apart; the ids are those of cmd_id.h.
Motions == {"MOVJ", "MOVL", "JUMP", "PTPOther", "Home"}
Commands ==
    Motions \union {"Jog", "Arc", "Circle", "Leveling", "Effector", "Wait", "Trig", "IO"}
Controls == {"Start", "Stop", "ForceStop", "Clear"}

ASSUME CommandAssumption == Queued \subseteq Commands /\ Direct \subseteq Commands \union Controls

VARIABLES
    queue,          \* msg_queue_: [cmd, index]
    lastIndex,      \* the idx of genIndexID
    current,        \* msg_id of current_proc_packet_, 0 for none
    runQueuedCmd,
    queuedCmdType,
    isFinished,     \* gQueuedCmdIsFinished
    arm,            \* the globals of the motion algorithm
    waiting,
    alive,          \* the program runs
    packets

vars == <<queue, lastIndex, current, runQueuedCmd, queuedCmdType, isFinished, arm, waiting,
          alive, packets>>

Types == {"motion", "wait", "io", "trig"}
Modes == {"NONE", "SINGLE", "SINGLEXYZ", "HOME", "PLAYBACK", "ARC", "LEVELING", "STOP"}

QueuedCmdTypeCalc(cmd) ==
    CASE cmd \in Motions \union {"Jog", "Arc"} -> "motion"
      [] cmd = "Wait" -> "wait"
      [] cmd = "Trig" -> "trig"
      [] OTHER -> "io"

InitInterpolation ==
    [mode |-> "NONE", motion |-> "MOVJ", finishFlag |-> TRUE, stopFinishFlag |-> FALSE,
     planFlag |-> FALSE, jumPlanFlag |-> FALSE, transFlag |-> FALSE, downFlag |-> FALSE,
     key |-> "up", owner |-> 0, planOf |-> 0, jumpOf |-> 0, torn |-> FALSE]

Init ==
    /\ queue = <<>> /\ lastIndex = 1 /\ current = 0
    /\ runQueuedCmd = TRUE
    /\ queuedCmdType = "motion"
    /\ isFinished = [t \in Types |-> TRUE]
    /\ arm = InitInterpolation
    /\ waiting = FALSE /\ alive = TRUE
    /\ packets = 0

-----------------------------------------------------------------------------
\* The commands.

\* A motion that is broken off with its plan still in place.
Tear(a) == [a EXCEPT !.torn = @ \/ (~a.finishFlag /\ (a.planFlag \/ a.jumPlanFlag))]

StartPTPCmd(a, cmd, index) ==
    [Tear(a) EXCEPT !.mode = "PLAYBACK", !.motion = cmd, !.finishFlag = FALSE, !.owner = index]

HomeCmd(a, index) ==
    [Tear(a) EXCEPT !.mode = "HOME", !.motion = "MOVJ", !.finishFlag = FALSE, !.owner = index]

\* gSingleMode: a key held down in the positive or the negative direction, or let go.
Keys == {"P", "N", "up"}

\* The flag of the motion broken off stays as it is.
JOGCmdSet(a) ==
    UNION {{[Tear(a) EXCEPT !.mode = m, !.key = k, !.owner = 0] : k \in Keys} :
               m \in {"SINGLE", "SINGLEXYZ"}}

ArcCmd(a, index) ==
    [Tear(a) EXCEPT !.mode = "ARC", !.finishFlag = FALSE, !.owner = index]

\* Only the levelling of the base has a mode of its own.
AutoLevelingCmd(a, index) ==
    {[Tear(a) EXCEPT !.mode = m, !.finishFlag = FALSE, !.owner = index] :
        m \in {"LEVELING", a.mode}}

EndEffectorParamsCmd(a) == [Tear(a) EXCEPT !.mode = "NONE", !.owner = 0]

\* What a command other than a control makes of the arm.
Exec(a, cmd, index) ==
    CASE cmd \in Motions \ {"Home"} -> {StartPTPCmd(a, cmd, index)}
      [] cmd = "Home" -> {HomeCmd(a, index)}
      [] cmd = "Jog" -> JOGCmdSet(a)
      [] cmd \in {"Arc", "Circle"} -> {ArcCmd(a, index)}
      [] cmd = "Leveling" -> AutoLevelingCmd(a, index)
      [] cmd = "Effector" -> {EndEffectorParamsCmd(a)}
      [] OTHER -> {a}

\* MUTANT of StartQueueCmd: the plan of the motion broken off is kept.
StartQueueCmdKeepsPlan ==
    /\ runQueuedCmd' = TRUE
    /\ arm' = [arm EXCEPT !.finishFlag = TRUE, !.owner = 0]
    /\ UNCHANGED <<queue, isFinished, waiting>>

StartQueueCmd ==
    /\ runQueuedCmd' = TRUE
    /\ arm' = [arm EXCEPT !.finishFlag = TRUE, !.planFlag = FALSE, !.jumPlanFlag = FALSE,
                          !.owner = 0]
    /\ UNCHANGED <<queue, isFinished, waiting>>

StopQueueCmd ==
    /\ runQueuedCmd' = FALSE
    /\ arm' = [arm EXCEPT !.stopFinishFlag = @ \/ queuedCmdType = "motion"]
    /\ isFinished' = [isFinished EXCEPT ![queuedCmdType] = @ \/ queuedCmdType # "motion"]
    /\ waiting' = (waiting /\ queuedCmdType = "motion")
    /\ UNCHANGED queue

ForceStopQueueCmd ==
    /\ runQueuedCmd' = FALSE
    /\ arm' = [arm EXCEPT !.finishFlag = TRUE, !.planFlag = FALSE, !.jumPlanFlag = FALSE,
                          !.mode = "STOP", !.owner = 0]
    /\ isFinished' = [t \in Types |-> TRUE]
    /\ waiting' = FALSE
    /\ UNCHANGED queue

ClearQueueCmd ==
    /\ arm' = [Tear(arm) EXCEPT !.finishFlag = TRUE, !.owner = 0]
    /\ queue' = <<>>
    /\ UNCHANGED <<runQueuedCmd, isFinished, waiting>>

-----------------------------------------------------------------------------
\* packetProc

\* MUTANT of GetQueueIndex: the command that is waited for counts as done.
GetQueueIndexAhead ==
    IF arm.finishFlag /\ current # 0 THEN current ELSE IndexSpan - 1

\* The -1 that stands for "no index" is unsigned: the largest number there is, or with one
\* taken off the last but one.
GetQueueIndex ==
    LET index == IF arm.finishFlag /\ current # 0 THEN current ELSE IndexSpan - 1
    IN  IF isFinished[queuedCmdType] THEN index ELSE index - 1

\* A queued command is answered with its index.
PushPacket ==
    \E cmd \in Queued :
        /\ alive /\ packets < MaxPackets /\ packets' = packets + 1
        /\ lastIndex' = lastIndex + 1
        /\ Len(queue) < QueueSize
        /\ queue' = Append(queue, [cmd |-> cmd, index |-> lastIndex'])
        /\ UNCHANGED <<current, runQueuedCmd, queuedCmdType, isFinished, arm, waiting, alive>>

\* A push into a full queue throws, and nothing between it and the event loop catches.
PushIntoFull ==
    /\ alive /\ packets < MaxPackets /\ packets' = packets + 1
    /\ Queued # {} /\ Len(queue) = QueueSize
    /\ lastIndex' = lastIndex + 1
    /\ alive' = FALSE
    /\ UNCHANGED <<queue, current, runQueuedCmd, queuedCmdType, isFinished, arm, waiting>>

\* Nobody's index: genIndexID begins with 2.
DirectOwner == 1

DirectPacket ==
    /\ alive /\ packets < MaxPackets /\ packets' = packets + 1
    /\ \/ \E cmd \in Direct \intersect Commands :
            /\ arm' \in Exec(arm, cmd, DirectOwner)
            /\ UNCHANGED <<queue, runQueuedCmd, isFinished, waiting>>
       \/ "Start" \in Direct /\ StartQueueCmd
       \/ "Stop" \in Direct /\ StopQueueCmd
       \/ "ForceStop" \in Direct /\ ForceStopQueueCmd
       \/ "Clear" \in Direct /\ ClearQueueCmd
    /\ UNCHANGED <<lastIndex, current, queuedCmdType, alive>>

-----------------------------------------------------------------------------
\* The tick of the profile.

Ended(a) == [a EXCEPT !.finishFlag = TRUE, !.planFlag = FALSE, !.owner = 0]
Planned(a) ==
    IF a.planFlag THEN a ELSE [a EXCEPT !.planFlag = TRUE, !.planOf = a.owner]

\* Plan if there is no plan, then go on, or end: the point cannot be reached or the axes
\* are there.
GetSpeedJoint(a) == {a}
MOVJ(a) == {Ended(a)} \union GetSpeedJoint(Planned(a))

\* On a line a point between may turn out to be out of reach.
GetSpeedLine(a) == {a, Ended(a)}
MOVL(a) == {Ended(a)} \union GetSpeedLine(Planned(a))

\* Up, across and down, each a motion with a plan of its own; the ends of the first two
\* are not the end of the command, and a leg may begin in the tick that ends the last.
JUMP(a) ==
    LET failed == [Ended(a) EXCEPT !.jumPlanFlag = FALSE]
        start == IF a.jumPlanFlag
                 THEN a
                 ELSE [a EXCEPT !.jumPlanFlag = TRUE, !.transFlag = FALSE,
                                !.downFlag = FALSE, !.jumpOf = a.owner]
        go(b) == [b EXCEPT !.finishFlag = FALSE, !.owner = a.owner]
        leg1 == IF start.transFlag THEN {start} ELSE MOVJ(start)
        up == {IF b.finishFlag /\ ~b.transFlag THEN [go(b) EXCEPT !.transFlag = TRUE] ELSE b :
                 b \in leg1}
        leg2 == UNION {IF b.transFlag /\ ~b.downFlag THEN MOVJ(b) ELSE {b} : b \in up}
        across == {IF b.finishFlag /\ b.transFlag THEN [go(b) EXCEPT !.downFlag = TRUE] ELSE b :
                     b \in leg2}
        leg3 == UNION {IF b.downFlag THEN MOVJ(b) ELSE {b} : b \in across}
        down == {IF b.finishFlag
                 THEN [b EXCEPT !.jumPlanFlag = FALSE, !.transFlag = FALSE, !.downFlag = FALSE]
                 ELSE b : b \in leg3}
    IN  down \union IF a.jumPlanFlag THEN {} ELSE {failed}

\* A PTP mode the code does not know moves nothing and never ends.
Playback(a, motion) ==
    LET after == CASE a.finishFlag -> {a}
                   [] ~a.finishFlag /\ motion = "JUMP" -> JUMP(a)
                   [] ~a.finishFlag /\ motion = "MOVJ" -> MOVJ(a)
                   [] ~a.finishFlag /\ motion = "MOVL" -> MOVL(a)
                   [] OTHER -> {a}
    IN  {IF ~a.finishFlag /\ b.finishFlag /\ b.stopFinishFlag
         THEN [b EXCEPT !.mode = "NONE", !.stopFinishFlag = FALSE] ELSE b : b \in after}

\* Only SingleNeg sets the flag while a key is held, and only SingleStop when the axis has
\* slowed down.
AtRest(a) == [a EXCEPT !.finishFlag = TRUE, !.owner = 0]
SingleNeg(a) == AtRest(a)
SingleStop(a) == {a, AtRest(a)}
Single(a) ==
    CASE a.key = "P" -> {a}
      [] a.key = "N" -> {SingleNeg(a)}
      [] OTHER -> SingleStop(a)

\* Along an axis of the space slowing down does not set the flag; a point out of reach does.
SingleXYStop(a) == a
SingleXY(a) ==
    {AtRest(a), CASE a.key = "P" -> a
                  [] a.key = "N" -> SingleNeg(a)
                  [] OTHER -> SingleXYStop(a)}

\* A force stop has set the flag, and with it the speeds are 0: nothing is slowed down,
\* unless the flag was taken back before the tick.
StopArm(a) ==
    {[a EXCEPT !.finishFlag = TRUE, !.mode = "NONE", !.owner = 0]} \union
        IF a.finishFlag THEN {} ELSE {a}

ProfileCalculate(a) ==
    CASE a.mode = "SINGLE" -> Single(a)
      [] a.mode = "SINGLEXYZ" -> SingleXY(a)
      [] a.mode = "HOME" -> Playback(a, "MOVJ")
      [] a.mode = "PLAYBACK" -> Playback(a, a.motion)
      [] a.mode = "STOP" -> StopArm(a)
      [] OTHER -> {a}

\* A joint at its limit that is driven on ends the motion, but not the plan of a jump.  In
\* the modes without code it is driven by the speeds a motion broken off has left.
JointCal(a) ==
    {a} \union IF a.mode \notin {"HOME", "NONE"}
                  /\ (~a.finishFlag \/ a.mode \in {"SINGLE", "SINGLEXYZ"})
               THEN {[Ended(a) EXCEPT !.torn = a.torn \/ a.jumPlanFlag]} ELSE {}

\* MUTANT of QueuedCmdFinishFlagRefresh: an I/O command is waited for like a trigger.
RefreshForgetsIO(a) ==
    CASE queuedCmdType = "motion" -> a.finishFlag
      [] queuedCmdType = "wait" -> ~waiting'
      [] OTHER -> FALSE

QueuedCmdFinishFlagRefresh(a) ==
    CASE queuedCmdType = "motion" -> a.finishFlag
      [] queuedCmdType = "wait" -> ~waiting'
      [] queuedCmdType = "io" -> TRUE
      [] OTHER -> FALSE

\* MUTANT of MayStart: the next command does not wait for a motion that is under way.
MayStartAtOnce(a) == runQueuedCmd /\ queue # <<>>

MayStart(a) == a.finishFlag /\ runQueuedCmd /\ queue # <<>>

\* over: the time of the wait is over.
DoQueueCmd(a, over) ==
    \/ /\ ~isFinished[queuedCmdType]
       /\ waiting' = (waiting /\ ~over)
       /\ isFinished' = [isFinished EXCEPT ![queuedCmdType] = QueuedCmdFinishFlagRefresh(a)]
       /\ arm' = a
       /\ UNCHANGED <<queue, current, queuedCmdType>>
    \/ /\ isFinished[queuedCmdType]
       /\ ~MayStart(a)
       /\ arm' = a
       /\ UNCHANGED <<queue, current, queuedCmdType, isFinished, waiting>>
    \/ /\ isFinished[queuedCmdType]
       /\ MayStart(a)
       /\ queue' = Tail(queue)
       /\ current' = Head(queue).index
       /\ queuedCmdType' = QueuedCmdTypeCalc(Head(queue).cmd)
       /\ arm' \in Exec(a, Head(queue).cmd, Head(queue).index)
       /\ waiting' = (Head(queue).cmd = "Wait")
       /\ isFinished' = [isFinished EXCEPT ![queuedCmdType'] = FALSE]

Elapse ==
    /\ alive
    /\ \E a \in ProfileCalculate(arm), over \in BOOLEAN :
        \E b \in JointCal(a) : DoQueueCmd(b, over)
    /\ UNCHANGED <<lastIndex, runQueuedCmd, alive, packets>>

\* A jog that was sent while a motion was under way and that does not raise the flag the
\* motion took down: a key held in the positive direction, and a key let go in space.
JogHolds(a) ==
    /\ ~a.finishFlag
    /\ \/ a.mode = "SINGLE" /\ a.key = "P"
       \/ a.mode = "SINGLEXYZ" /\ a.key # "N"

\* The tick in which what is under way comes to its end, if it has one.
ElapseLast ==
    /\ alive
    /\ \E a \in ProfileCalculate(arm) :
        /\ \/ a.finishFlag
           \/ JogHolds(arm)
           \/ \A b \in ProfileCalculate(arm) : ~b.finishFlag
        /\ DoQueueCmd(a, TRUE)
    /\ UNCHANGED <<lastIndex, runQueuedCmd, alive, packets>>

Next == PushPacket \/ PushIntoFull \/ DirectPacket \/ Elapse

\* The timer never stops, every motion with a plan is a finite number of ticks long, and
\* so is every wait.
Spec == Init /\ [][Next]_vars /\ WF_vars(ElapseLast)

-----------------------------------------------------------------------------
Arms ==
    [mode : Modes, motion : Motions, finishFlag : BOOLEAN, stopFinishFlag : BOOLEAN,
     planFlag : BOOLEAN, jumPlanFlag : BOOLEAN, transFlag : BOOLEAN, downFlag : BOOLEAN,
     key : Keys, owner : Nat, planOf : Nat, jumpOf : Nat, torn : BOOLEAN]

TypeOK ==
    /\ queue \in Seq([cmd : Commands, index : Nat])
    /\ lastIndex \in Nat /\ current \in Nat /\ packets \in Nat
    /\ runQueuedCmd \in BOOLEAN /\ waiting \in BOOLEAN /\ alive \in BOOLEAN
    /\ queuedCmdType \in Types
    /\ isFinished \in [Types -> BOOLEAN]
    /\ arm \in Arms

\* A queued command is still being carried out.
Busy(i) == i # 0 /\ (arm.owner = i \/ (waiting /\ current = i))

\* The index the arm reports (GetQueueIndex) is read in one of two ways.  Up to the last
\* index given out it says "all up to here are done", and it is never that of a command
\* that waits in the queue, whose motion is under way or whose wait is not over.  Beyond
\* that it is the wrapped -1 or -2, and then no queued command has been started yet or a
\* motion is under way: a host that compares it as an index would take everything for
\* done just when something is not.
IndexHonest ==
    LET n == GetQueueIndex
    IN  /\ n <= lastIndex => /\ \A k \in DOMAIN queue : queue[k].index > n
                             /\ \A i \in 1..n : ~Busy(i)
        /\ n > lastIndex => /\ n \in {IndexSpan - 1, IndexSpan - 2}
                            /\ current = 0 \/ ~arm.finishFlag

\* A motion follows the plan made for it, and a jump the path made for it, as long as no
\* motion was broken off by a command that leaves plans standing (Clear, a jog, another
\* motion or end effector params at once) or by a limit on its way.  Starting the queue
\* and stopping it by force do not leave any.
PlanFresh ==
    (~arm.finishFlag /\ ~arm.torn /\ arm.mode \in {"PLAYBACK", "HOME"}) =>
        /\ arm.planFlag => arm.planOf = arm.owner
        /\ (arm.jumPlanFlag /\ arm.motion = "JUMP") => arm.jumpOf = arm.owner

\* Queued commands start one at a time, in the order of their indexes, and none while a
\* motion, of the queue or not, or a wait is under way (doQueueCmd).
StartsAfterEnd ==
    [][current' # current =>
        current' > current /\ \A i \in 1..lastIndex : i # current' => ~Busy(i)']_vars

\* What nothing but another packet need get out of: a motion the profile has no code for,
\* a trigger, whose condition is never looked at, and a jog in place of a motion, of the
\* kinds that do not raise the finish flag.
Blocked ==
    \/ JogHolds(arm)
    \/ ~isFinished["trig"]
    \/ ~arm.finishFlag /\ arm.mode \in {"NONE", "ARC", "LEVELING"}
    \/ ~arm.finishFlag /\ arm.mode = "PLAYBACK" /\ arm.motion = "PTPOther"

\* The queue is worked off: again and again it is empty with nothing under way, unless it
\* is stopped or blocked by a command that the virtual arm cannot end.
QueueDrains ==
    []<>((queue = <<>> /\ isFinished[queuedCmdType])
         \/ ~runQueuedCmd \/ Blocked \/ ~alive)
=============================================================================
