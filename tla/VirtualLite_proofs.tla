------------------------- MODULE VirtualLite_proofs -------------------------
(***************************************************************************)
(* The virtual Magician Lite, for any packets, a queue of any size and any *)
(* number of ticks: the index it reports is honest, queued commands start  *)
(* in order and one at a time, and a motion follows its own plan.  What    *)
(* makes it so is said of the arm (Owned, Fresh), of the queue (OrderInv)  *)
(* and of the wait (WaitInv); each function of the motion algorithm is     *)
(* shown to keep what is said of the arm.                                  *)
(***************************************************************************)
EXTENDS VirtualLite, SequenceTheorems, TLAPS

\* Whose motion it is, is known as long as it is under way.
Owned(a) == a.finishFlag => a.owner = 0

\* As long as no motion was broken off with its plan: a plan is in place only
\* while the motion it was made for is under way, and a path only while its
\* jump is.
Fresh(a) ==
    ~a.torn =>
        /\ a.planFlag =>
               ~a.finishFlag /\ a.mode \in {"PLAYBACK", "HOME"} /\ a.planOf = a.owner
        /\ a.jumPlanFlag =>
               ~a.finishFlag /\ a.mode = "PLAYBACK" /\ a.motion = "JUMP" /\ a.jumpOf = a.owner

ArmInv(a) == a \in Arms /\ Owned(a) /\ Fresh(a)

Entries == [cmd : Commands, index : Nat]

Ordered(q, low, high) ==
    /\ q \in Seq(Entries)
    /\ \A k \in 1..Len(q) : low < q[k].index /\ q[k].index <= high
    /\ \A j, k \in 1..Len(q) : j < k => q[j].index < q[k].index

\* The indexes in the queue are in order and later than that of the command
\* taken from it last.
OrderInv ==
    lastIndex > 0 /\ current <= lastIndex /\ Ordered(queue, current, lastIndex)

\* Indexes are given out one a packet, from 2.
CountInv == packets <= MaxPackets /\ lastIndex <= packets + 1

\* A wait that is not over is that of the command taken last.
WaitInv == waiting => queuedCmdType = "wait" /\ ~isFinished["wait"]

LiteInv == TypeOK /\ OrderInv /\ WaitInv /\ ArmInv(arm)

-----------------------------------------------------------------------------
\* A command that breaks a motion off either leaves no plan, or says so.
LEMMA TearKeeps ==
    ASSUME NEW a, ArmInv(a)
    PROVE  /\ Tear(a) \in Arms
           /\ Tear(a).finishFlag = a.finishFlag /\ Tear(a).owner = a.owner
           /\ Tear(a).mode = a.mode
           /\ ~Tear(a).torn => ~Tear(a).planFlag /\ ~Tear(a).jumPlanFlag
  BY DEF ArmInv, Owned, Fresh, Arms, Tear

\* The handlers of the commands (startPTPCmd ... endEffectorParamsCmd) keep
\* what is said of the arm, and a finished arm gets no owner but the command.
LEMMA ExecKeeps ==
    ASSUME NEW a, ArmInv(a), NEW cmd \in Commands, NEW i \in Nat, NEW b \in Exec(a, cmd, i)
    PROVE  ArmInv(b) /\ (a.finishFlag => b.owner \in {0, i})
<1> DEFINE t == Tear(a)
<1>0. /\ t \in Arms /\ t.finishFlag = a.finishFlag /\ t.owner = a.owner /\ t.mode = a.mode
      /\ ~t.torn => ~t.planFlag /\ ~t.jumPlanFlag
  BY TearKeeps
<1>1. a.finishFlag => a.owner = 0
  BY DEF ArmInv, Owned
<1> HIDE DEF t
<1>2. ASSUME NEW m \in Modes, NEW o \in Motions,
             b = [t EXCEPT !.mode = m, !.motion = o, !.finishFlag = FALSE, !.owner = i]
      PROVE  ArmInv(b) /\ b.owner = i
  BY <1>0, <1>2 DEF ArmInv, Owned, Fresh, Arms
<1>3. ASSUME NEW m \in Modes, b = [t EXCEPT !.mode = m, !.finishFlag = FALSE, !.owner = i]
      PROVE  ArmInv(b) /\ b.owner = i
  BY <1>0, <1>3 DEF ArmInv, Owned, Fresh, Arms
<1>4. CASE cmd \in Motions \ {"Home"}
  <2>1. b = [t EXCEPT !.mode = "PLAYBACK", !.motion = cmd, !.finishFlag = FALSE, !.owner = i]
    <3>1. b = StartPTPCmd(a, cmd, i)
      BY <1>4 DEF Exec, Motions
    <3> QED  BY <3>1 DEF StartPTPCmd, t
  <2> QED  BY <1>2, <1>4, <2>1 DEF Modes
<1>5. CASE cmd = "Home"
  <2>1. b = [t EXCEPT !.mode = "HOME", !.motion = "MOVJ", !.finishFlag = FALSE, !.owner = i]
    BY <1>5 DEF Exec, HomeCmd, t, Motions
  <2> QED  BY <1>2, <2>1 DEF Modes, Motions
<1>6. CASE cmd = "Jog"
  <2>1. PICK m \in {"SINGLE", "SINGLEXYZ"}, k \in Keys :
            b = [t EXCEPT !.mode = m, !.key = k, !.owner = 0]
    <3>1. b \in JOGCmdSet(a)
      BY <1>6 DEF Exec, Motions
    <3> QED  BY <3>1 DEF JOGCmdSet, t
  <2>2. /\ b.torn = t.torn /\ b.planFlag = t.planFlag /\ b.jumPlanFlag = t.jumPlanFlag
        /\ b.owner = 0
    BY <1>0, <2>1 DEF Arms
  <2>3. b \in Arms
    BY <1>0, <2>1 DEF Arms, Modes
  <2> QED  BY <1>0, <2>2, <2>3 DEF ArmInv, Owned, Fresh
<1>7. CASE cmd \in {"Arc", "Circle"}
  <2>1. b = [t EXCEPT !.mode = "ARC", !.finishFlag = FALSE, !.owner = i]
    BY <1>7 DEF Exec, ArcCmd, t, Motions
  <2> QED  BY <1>3, <2>1 DEF Modes
<1>8. CASE cmd = "Leveling"
  <2>1. PICK m \in {"LEVELING", a.mode} :
            b = [t EXCEPT !.mode = m, !.finishFlag = FALSE, !.owner = i]
    BY <1>8 DEF Exec, AutoLevelingCmd, t, Motions
  <2>2. m \in Modes
    BY DEF ArmInv, Arms, Modes
  <2> QED  BY <1>3, <2>1, <2>2
<1>9. CASE cmd = "Effector"
  <2>1. b = [t EXCEPT !.mode = "NONE", !.owner = 0]
    BY <1>9 DEF Exec, EndEffectorParamsCmd, t, Motions
  <2> QED  BY <1>0, <2>1 DEF ArmInv, Owned, Fresh, Arms, Modes
<1>10. CASE cmd \in {"Wait", "Trig", "IO"}
  <2>1. b = a
    BY <1>10 DEF Exec, Motions
  <2> QED  BY <1>1, <2>1
<1> QED  BY <1>4, <1>5, <1>6, <1>7, <1>8, <1>9, <1>10 DEF Commands

-----------------------------------------------------------------------------
\* The motions.  The end of one and the making of a plan keep what is said of
\* the arm, unless the end forgets the path of a jump.
LEMMA EndKeeps ==
    ASSUME NEW a, ArmInv(a), a.torn \/ ~a.jumPlanFlag
    PROVE  ArmInv(Ended(a))
  BY DEF ArmInv, Owned, Fresh, Arms, Ended

LEMMA PlanKeeps ==
    ASSUME NEW a, ArmInv(a), ~a.finishFlag, a.mode \in {"PLAYBACK", "HOME"}
    PROVE  /\ ArmInv(Planned(a))
           /\ Planned(a).torn = a.torn /\ Planned(a).jumPlanFlag = a.jumPlanFlag
  BY DEF ArmInv, Owned, Fresh, Arms, Planned

LEMMA MotionKeeps ==
    ASSUME NEW a, ArmInv(a), ~a.finishFlag, a.mode \in {"PLAYBACK", "HOME"},
           a.mode = "PLAYBACK" => a.motion # "JUMP",
           NEW b \in MOVJ(a) \union MOVL(a)
    PROVE  ArmInv(b)
<1>1. a.torn \/ ~a.jumPlanFlag
  BY DEF ArmInv, Fresh
<1>2. ArmInv(Ended(a))
  BY <1>1, EndKeeps
<1>3. ArmInv(Planned(a)) /\ (Planned(a).torn \/ ~Planned(a).jumPlanFlag)
  BY <1>1, PlanKeeps
<1>4. ArmInv(Ended(Planned(a)))
  BY <1>3, EndKeeps
<1> QED  BY <1>2, <1>3, <1>4 DEF MOVJ, MOVL, GetSpeedJoint, GetSpeedLine

\* In the middle of a jump (a, when its tick began): the path is that of the
\* command, and so is the plan of the leg that is under way.
Leg(b, a) ==
    /\ b \in Arms
    /\ b.jumPlanFlag
    /\ b.torn = a.torn /\ b.mode = a.mode /\ b.motion = a.motion
    /\ b.owner = IF b.finishFlag THEN 0 ELSE a.owner
    /\ ~a.torn => b.jumpOf = a.owner /\ (b.planFlag => ~b.finishFlag /\ b.planOf = a.owner)

LEMMA LegKeeps ==
    ASSUME NEW a, ArmInv(a), NEW b, Leg(b, a), ~b.finishFlag, NEW c \in MOVJ(b)
    PROVE  Leg(c, a) /\ c.transFlag = b.transFlag /\ c.downFlag = b.downFlag
<1>1. CASE c = Ended(b)
  BY <1>1 DEF Leg, Ended, Arms
<1>2. CASE c = Planned(b)
  BY <1>2 DEF Leg, Planned, Arms
<1> QED  BY <1>1, <1>2 DEF MOVJ, GetSpeedJoint

\* The end of a leg is not the end of the command.
LEMMA GoOn ==
    ASSUME NEW a, ArmInv(a), NEW b, Leg(b, a), NEW t \in BOOLEAN, NEW d \in BOOLEAN, NEW c,
           c = [b EXCEPT !.finishFlag = FALSE, !.owner = a.owner, !.transFlag = t,
                         !.downFlag = d]
    PROVE  Leg(c, a) /\ ~c.finishFlag
<1>1. b \in Arms /\ a.owner \in Nat
  BY DEF Leg, ArmInv, Arms
<1>2. c \in Arms
  BY <1>1 DEF Arms
<1>3. /\ ~c.finishFlag /\ c.owner = a.owner /\ c.jumPlanFlag = b.jumPlanFlag
      /\ c.torn = b.torn /\ c.mode = b.mode /\ c.motion = b.motion
      /\ c.jumpOf = b.jumpOf /\ c.planFlag = b.planFlag /\ c.planOf = b.planOf
  BY <1>1 DEF Arms
<1> QED  BY <1>2, <1>3 DEF Leg

\* A jump, whichever of its legs the tick begins and ends.
LEMMA JumpKeeps ==
    ASSUME NEW a, ArmInv(a), ~a.finishFlag, a.mode = "PLAYBACK", a.motion = "JUMP",
           NEW b \in JUMP(a)
    PROVE  ArmInv(b)
<1> DEFINE failed == [Ended(a) EXCEPT !.jumPlanFlag = FALSE]
           start == IF a.jumPlanFlag
                    THEN a
                    ELSE [a EXCEPT !.jumPlanFlag = TRUE, !.transFlag = FALSE,
                                   !.downFlag = FALSE, !.jumpOf = a.owner]
           go(c) == [c EXCEPT !.finishFlag = FALSE, !.owner = a.owner]
           leg1 == IF start.transFlag THEN {start} ELSE MOVJ(start)
           onUp(c) == IF c.finishFlag /\ ~c.transFlag THEN [go(c) EXCEPT !.transFlag = TRUE]
                      ELSE c
           up == {onUp(c) : c \in leg1}
           leg2 == UNION {IF c.transFlag /\ ~c.downFlag THEN MOVJ(c) ELSE {c} : c \in up}
           onAcross(c) == IF c.finishFlag /\ c.transFlag THEN [go(c) EXCEPT !.downFlag = TRUE]
                          ELSE c
           across == {onAcross(c) : c \in leg2}
           leg3 == UNION {IF c.downFlag THEN MOVJ(c) ELSE {c} : c \in across}
           onDown(c) == IF c.finishFlag
                        THEN [c EXCEPT !.jumPlanFlag = FALSE, !.transFlag = FALSE,
                                       !.downFlag = FALSE]
                        ELSE c
           down == {onDown(c) : c \in leg3}
<1>1. b \in down \/ b = failed
  BY DEF JUMP
<1>2. ArmInv(failed)
  BY DEF ArmInv, Owned, Fresh, Arms, Ended
<1>3. Leg(start, a) /\ ~start.finishFlag
  BY DEF ArmInv, Owned, Fresh, Arms, Leg
<1>4. ASSUME NEW c \in leg1
      PROVE  Leg(c, a) /\ (c.finishFlag => ~c.transFlag)
  <2> HIDE DEF start
  <2> QED  BY <1>3, LegKeeps
<1>5. ASSUME NEW c, Leg(c, a)
      PROVE  /\ Leg([go(c) EXCEPT !.transFlag = TRUE], a)
             /\ ~[go(c) EXCEPT !.transFlag = TRUE].finishFlag
             /\ Leg([go(c) EXCEPT !.downFlag = TRUE], a)
             /\ ~[go(c) EXCEPT !.downFlag = TRUE].finishFlag
  <2>1. c \in Arms
    BY <1>5 DEF Leg
  <2>2. [go(c) EXCEPT !.transFlag = TRUE] =
            [c EXCEPT !.finishFlag = FALSE, !.owner = a.owner, !.transFlag = TRUE,
                      !.downFlag = c.downFlag]
    BY <2>1 DEF Arms
  <2>3. [go(c) EXCEPT !.downFlag = TRUE] =
            [c EXCEPT !.finishFlag = FALSE, !.owner = a.owner, !.transFlag = c.transFlag,
                      !.downFlag = TRUE]
    BY <2>1 DEF Arms
  <2>4. c.transFlag \in BOOLEAN /\ c.downFlag \in BOOLEAN
    BY <2>1 DEF Arms
  <2> HIDE DEF go
  <2> QED  BY <1>5, <2>2, <2>3, <2>4, GoOn
<1> HIDE DEF leg1, go
<1>6. ASSUME NEW c \in up
      PROVE  Leg(c, a) /\ ~c.finishFlag
  <2>1. PICK d \in leg1 : c = onUp(d)
    OBVIOUS
  <2> QED  BY <1>4, <1>5, <2>1
<1> HIDE DEF up
<1>7. ASSUME NEW c \in leg2
      PROVE  Leg(c, a) /\ (c.finishFlag => c.transFlag)
  <2>1. PICK d \in up : c \in IF d.transFlag /\ ~d.downFlag THEN MOVJ(d) ELSE {d}
    OBVIOUS
  <2> QED  BY <1>6, <2>1, LegKeeps
<1> HIDE DEF leg2
<1>8. ASSUME NEW c \in across
      PROVE  Leg(c, a) /\ ~c.finishFlag
  <2>1. PICK d \in leg2 : c = onAcross(d)
    OBVIOUS
  <2> QED  BY <1>5, <1>7, <2>1
<1> HIDE DEF across
<1>9. ASSUME NEW c \in leg3
      PROVE  Leg(c, a)
  <2>1. PICK d \in across : c \in IF d.downFlag THEN MOVJ(d) ELSE {d}
    OBVIOUS
  <2> QED  BY <1>8, <2>1, LegKeeps
<1> HIDE DEF leg3
<1>10. ASSUME NEW c, Leg(c, a)
       PROVE  ArmInv(onDown(c))
  <2>1. CASE c.finishFlag
    BY <1>10, <2>1 DEF Leg, ArmInv, Owned, Fresh, Arms
  <2>2. CASE ~c.finishFlag
    BY <1>10, <2>2 DEF Leg, ArmInv, Owned, Fresh
  <2> QED  BY <2>1, <2>2
<1>11. ASSUME NEW c \in down
       PROVE  ArmInv(c)
  <2>1. PICK d \in leg3 : c = onDown(d)
    OBVIOUS
  <2> HIDE DEF onDown
  <2> QED  BY <1>9, <1>10, <2>1
<1> HIDE DEF down, failed
<1> QED  BY <1>1, <1>2, <1>11

LEMMA PlaybackKeeps ==
    ASSUME NEW a, ArmInv(a), NEW m,
           \/ a.mode = "PLAYBACK" /\ m = a.motion
           \/ a.mode = "HOME" /\ m = "MOVJ",
           NEW b \in Playback(a, m)
    PROVE  ArmInv(b)
<1> DEFINE after == CASE a.finishFlag -> {a}
                      [] ~a.finishFlag /\ m = "JUMP" -> JUMP(a)
                      [] ~a.finishFlag /\ m = "MOVJ" -> MOVJ(a)
                      [] ~a.finishFlag /\ m = "MOVL" -> MOVL(a)
                      [] OTHER -> {a}
           rest(c) == IF ~a.finishFlag /\ c.finishFlag /\ c.stopFinishFlag
                      THEN [c EXCEPT !.mode = "NONE", !.stopFinishFlag = FALSE] ELSE c
<1>1. ASSUME NEW c \in after
      PROVE  ArmInv(c)
  <2>1. CASE a.finishFlag
    BY <2>1
  <2>2. CASE ~a.finishFlag /\ m = "JUMP"
    <3>1. a.mode = "PLAYBACK" /\ a.motion = "JUMP" /\ c \in JUMP(a)
      BY <2>2
    <3> QED  BY <2>2, <3>1, JumpKeeps
  <2>3. CASE ~a.finishFlag /\ m = "MOVJ"
    <3>1. c \in MOVJ(a)
      BY <2>3
    <3> QED  BY <2>3, <3>1, MotionKeeps
  <2>4. CASE ~a.finishFlag /\ m = "MOVL"
    <3>1. c \in MOVL(a)
      BY <2>4
    <3> QED  BY <2>4, <3>1, MotionKeeps
  <2>5. CASE ~a.finishFlag /\ m \notin {"JUMP", "MOVJ", "MOVL"}
    BY <2>5
  <2> QED  BY <2>1, <2>2, <2>3, <2>4, <2>5
<1>2. PICK c \in after : b = rest(c)
  BY DEF Playback
<1> HIDE DEF after
<1>3. ArmInv(c)
  BY <1>1
<1>4. CASE c.finishFlag /\ c.stopFinishFlag /\ ~a.finishFlag
  BY <1>2, <1>3, <1>4 DEF ArmInv, Owned, Fresh, Arms, Modes
<1>5. CASE ~(c.finishFlag /\ c.stopFinishFlag /\ ~a.finishFlag)
  BY <1>2, <1>3, <1>5
<1> QED  BY <1>4, <1>5

\* A tick of the profile, in every mode.
LEMMA ProfileKeeps ==
    ASSUME NEW a, ArmInv(a), NEW b \in ProfileCalculate(a)
    PROVE  ArmInv(b)
<1>1. CASE a.mode \in {"SINGLE", "SINGLEXYZ"}
  <2>1. b = a \/ b = AtRest(a)
    <3>1. CASE a.mode = "SINGLE"
      <4>1. b \in Single(a)
        BY <3>1 DEF ProfileCalculate
      <4> QED  BY <4>1 DEF Single, SingleNeg, SingleStop
    <3>2. CASE a.mode = "SINGLEXYZ"
      <4>1. b \in SingleXY(a)
        BY <3>2 DEF ProfileCalculate
      <4> QED  BY <4>1 DEF SingleXY, SingleNeg, SingleXYStop
    <3> QED  BY <1>1, <3>1, <3>2
  <2>2. ArmInv(AtRest(a))
    BY <1>1 DEF ArmInv, Owned, Fresh, Arms, AtRest
  <2> QED  BY <2>1, <2>2
<1>2. CASE a.mode = "HOME"
  <2>1. b \in Playback(a, "MOVJ")
    BY <1>2 DEF ProfileCalculate
  <2> QED  BY <1>2, <2>1, PlaybackKeeps
<1>3. CASE a.mode = "PLAYBACK"
  <2>1. b \in Playback(a, a.motion)
    BY <1>3 DEF ProfileCalculate
  <2> QED  BY <1>3, <2>1, PlaybackKeeps
<1>4. CASE a.mode = "STOP"
  <2>1. b = a \/ b = [a EXCEPT !.finishFlag = TRUE, !.mode = "NONE", !.owner = 0]
    BY <1>4 DEF ProfileCalculate, StopArm
  <2>2. a \in Arms /\ (~a.torn => ~a.planFlag /\ ~a.jumPlanFlag)
    BY <1>4 DEF ArmInv, Fresh
  <2>3. ASSUME b = [a EXCEPT !.finishFlag = TRUE, !.mode = "NONE", !.owner = 0]
        PROVE  ArmInv(b)
    <3>1. b \in Arms
      BY <2>2, <2>3 DEF Arms, Modes
    <3>2. /\ b.owner = 0 /\ b.torn = a.torn
          /\ b.planFlag = a.planFlag /\ b.jumPlanFlag = a.jumPlanFlag
      BY <2>2, <2>3 DEF Arms
    <3> QED  BY <2>2, <3>1, <3>2 DEF ArmInv, Owned, Fresh
  <2> QED  BY <2>1, <2>3
<1>5. CASE a.mode \in {"NONE", "ARC", "LEVELING"}
  <2>1. b = a
    BY <1>5 DEF ProfileCalculate
  <2> QED  BY <2>1
<1> QED  BY <1>1, <1>2, <1>3, <1>4, <1>5 DEF ArmInv, Arms, Modes

\* A joint at its limit.
LEMMA JointKeeps ==
    ASSUME NEW a, ArmInv(a), NEW b \in JointCal(a)
    PROVE  ArmInv(b)
<1>1. b = a \/ b = [Ended(a) EXCEPT !.torn = a.torn \/ a.jumPlanFlag]
  BY DEF JointCal
<1>2. a \in Arms /\ a.torn \in BOOLEAN /\ a.jumPlanFlag \in BOOLEAN
  BY DEF ArmInv, Arms
<1>3. ASSUME b = [Ended(a) EXCEPT !.torn = a.torn \/ a.jumPlanFlag]
      PROVE  ArmInv(b)
  <2>1. b \in Arms
    BY <1>2, <1>3 DEF Arms, Ended
  <2>2. b.owner = 0 /\ ~b.planFlag /\ b.jumPlanFlag = a.jumPlanFlag
    BY <1>2, <1>3 DEF Arms, Ended
  <2>3. b.torn = (a.torn \/ a.jumPlanFlag)
    BY <1>2, <1>3 DEF Arms, Ended
  <2> QED  BY <2>1, <2>2, <2>3 DEF ArmInv, Owned, Fresh
<1> QED  BY <1>1, <1>3

-----------------------------------------------------------------------------
\* The order of the indexes in the queue, when one is put in (PushPacket) and
\* when one is taken out (doQueueCmd).
LEMMA PushOrdered ==
    ASSUME NEW q, NEW low \in Nat, NEW high \in Nat, low <= high, Ordered(q, low, high),
           NEW e \in Entries, e.index = high + 1
    PROVE  Ordered(Append(q, e), low, high + 1)
<1> DEFINE p == Append(q, e)
<1>1. q \in Seq(Entries)
  BY DEF Ordered
<1>2. p \in Seq(Entries) /\ Len(p) = Len(q) + 1 /\ Len(q) \in Nat
  BY <1>1, AppendProperties
<1>3. \A k \in 1..Len(q) : p[k] = q[k] /\ q[k].index \in Nat
  <2>1. \A k \in 1..Len(q) : q[k] \in Entries
    BY <1>1
  <2>2. \A k \in 1..Len(q) : p[k] = q[k]
    BY <1>1, AppendProperties
  <2> HIDE DEF p
  <2> QED  BY <2>1, <2>2 DEF Entries
<1>4. p[Len(q) + 1] = e
  BY <1>1, AppendProperties
<1> HIDE DEF p
<1>5. \A k \in 1..Len(p) : low < p[k].index /\ p[k].index <= high + 1
  BY <1>2, <1>3, <1>4 DEF Ordered
<1>6. \A j, k \in 1..Len(p) : j < k => p[j].index < p[k].index
  <2>1. ASSUME NEW j \in 1..Len(p), NEW k \in 1..Len(p), j < k
        PROVE  p[j].index < p[k].index
    <3>1. j \in 1..Len(q) /\ p[j].index <= high
      BY <1>2, <1>3, <2>1 DEF Ordered
    <3>2. CASE k \in 1..Len(q)
      BY <1>3, <2>1, <3>1, <3>2 DEF Ordered
    <3>3. CASE k = Len(q) + 1
      BY <1>3, <1>4, <3>1, <3>3
    <3> QED  BY <1>2, <3>2, <3>3
  <2> QED  BY <2>1
<1>7. Ordered(p, low, high + 1)
  BY <1>2, <1>5, <1>6 DEF Ordered
<1> QED  BY <1>7 DEF p

LEMMA TakeOrdered ==
    ASSUME NEW q, NEW low \in Nat, NEW high \in Nat, Ordered(q, low, high), q # <<>>
    PROVE  /\ Head(q) \in Entries /\ low < Head(q).index /\ Head(q).index <= high
           /\ Ordered(Tail(q), Head(q).index, high)
<1> DEFINE p == Tail(q)
<1>1. q \in Seq(Entries)
  BY DEF Ordered
<1>2. /\ p \in Seq(Entries) /\ Len(p) = Len(q) - 1 /\ Len(q) \in Nat \ {0}
      /\ \A k \in 1..Len(p) : p[k] = q[k + 1]
  BY <1>1, HeadTailProperties, EmptySeq
<1>3. Head(q) = q[1] /\ q[1] \in Entries
  BY <1>1, <1>2
<1> HIDE DEF p
<1>4. \A k \in 1..Len(p) : k + 1 \in 1..Len(q) /\ 1 < k + 1
  BY <1>2
<1>5. \A k \in 1..Len(p) : q[1].index < p[k].index /\ p[k].index <= high
  BY <1>2, <1>4 DEF Ordered
<1>6. \A j, k \in 1..Len(p) : j < k => p[j].index < p[k].index
  <2>1. ASSUME NEW j \in 1..Len(p), NEW k \in 1..Len(p), j < k
        PROVE  p[j].index < p[k].index
    <3>1. j + 1 < k + 1
      BY <1>2, <2>1
    <3> QED  BY <1>2, <1>4, <3>1 DEF Ordered
  <2> QED  BY <2>1
<1>7. Ordered(p, q[1].index, high)
  BY <1>2, <1>5, <1>6 DEF Ordered
<1>8. low < q[1].index /\ q[1].index <= high
  BY <1>2 DEF Ordered
<1> QED  BY <1>3, <1>7, <1>8 DEF p

-----------------------------------------------------------------------------
\* The packets that are obeyed at once and are not queued.
LEMMA ControlKeeps ==
    ASSUME LiteInv, StartQueueCmd \/ StopQueueCmd \/ ForceStopQueueCmd \/ ClearQueueCmd,
           queuedCmdType' = queuedCmdType
    PROVE  /\ ArmInv(arm') /\ WaitInv'
           /\ runQueuedCmd' \in BOOLEAN /\ waiting' \in BOOLEAN
           /\ isFinished' \in [Types -> BOOLEAN]
           /\ queue' = queue \/ queue' = <<>>
<1>1. /\ queuedCmdType \in Types /\ isFinished \in [Types -> BOOLEAN]
      /\ runQueuedCmd \in BOOLEAN /\ waiting \in BOOLEAN
      /\ WaitInv /\ ArmInv(arm)
  BY DEF LiteInv, TypeOK
<1>2. CASE StartQueueCmd
  <2>1. ArmInv(arm')
    BY <1>1, <1>2 DEF StartQueueCmd, ArmInv, Owned, Fresh, Arms
  <2>2. WaitInv'
    BY <1>1, <1>2 DEF StartQueueCmd, WaitInv
  <2> QED  BY <1>1, <1>2, <2>1, <2>2 DEF StartQueueCmd
<1>3. CASE StopQueueCmd
  <2>1. ArmInv(arm')
    <3>1. PICK f : arm' = [arm EXCEPT !.stopFinishFlag = f] /\ f \in BOOLEAN
      BY <1>1, <1>3 DEF StopQueueCmd, ArmInv, Arms
    <3> QED  BY <1>1, <3>1 DEF ArmInv, Owned, Fresh, Arms
  <2>2. ~waiting'
    BY <1>1, <1>3 DEF StopQueueCmd, WaitInv
  <2>3. waiting' \in BOOLEAN /\ runQueuedCmd' \in BOOLEAN
    BY <1>3 DEF StopQueueCmd
  <2>4. isFinished' \in [Types -> BOOLEAN]
    BY <1>1, <1>3 DEF StopQueueCmd
  <2> QED  BY <1>3, <2>1, <2>2, <2>3, <2>4 DEF StopQueueCmd, WaitInv
<1>4. CASE ForceStopQueueCmd
  <2>1. ArmInv(arm')
    BY <1>1, <1>4 DEF ForceStopQueueCmd, ArmInv, Owned, Fresh, Arms, Modes
  <2>2. waiting' = FALSE /\ runQueuedCmd' = FALSE
    BY <1>4 DEF ForceStopQueueCmd
  <2>3. isFinished' \in [Types -> BOOLEAN]
    BY <1>4 DEF ForceStopQueueCmd
  <2> QED  BY <1>4, <2>1, <2>2, <2>3 DEF ForceStopQueueCmd, WaitInv
<1>5. CASE ClearQueueCmd
  <2>1. ArmInv(arm')
    <3>1. PICK m : m = arm
      OBVIOUS
    <3>2. PICK t : t = Tear(m)
      OBVIOUS
    <3>3. t \in Arms /\ (~t.torn => ~t.planFlag /\ ~t.jumPlanFlag)
      BY <1>1, <3>1, <3>2, TearKeeps
    <3>4. arm' = [t EXCEPT !.finishFlag = TRUE, !.owner = 0]
      BY <1>5, <3>1, <3>2 DEF ClearQueueCmd
    <3> QED  BY <3>3, <3>4 DEF ArmInv, Owned, Fresh, Arms
  <2>2. WaitInv'
    BY <1>1, <1>5 DEF ClearQueueCmd, WaitInv
  <2> QED  BY <1>1, <1>5, <2>1, <2>2 DEF ClearQueueCmd
<1> QED  BY <1>2, <1>3, <1>4, <1>5

\* The last third of a tick, with the arm as the profile has left it.
LEMMA QueueKeeps ==
    ASSUME LiteInv, NEW a, ArmInv(a), NEW over \in BOOLEAN, DoQueueCmd(a, over),
           lastIndex' = lastIndex
    PROVE  /\ ArmInv(arm') /\ WaitInv' /\ OrderInv'
           /\ queuedCmdType' \in Types /\ current' \in Nat /\ waiting' \in BOOLEAN
           /\ isFinished' \in [Types -> BOOLEAN]
           /\ current' # current =>
                  current' > current /\ arm'.owner \in {0, current'}
<1>1. /\ queuedCmdType \in Types /\ isFinished \in [Types -> BOOLEAN]
      /\ waiting \in BOOLEAN /\ current \in Nat /\ lastIndex \in Nat
  BY DEF LiteInv, TypeOK
<1>2. WaitInv /\ OrderInv
  BY DEF LiteInv
<1>3. CASE UNCHANGED <<queue, current, queuedCmdType>> /\ arm' = a
           /\ waiting' = (waiting /\ ~over)
           /\ isFinished' = [isFinished EXCEPT ![queuedCmdType] =
                                QueuedCmdFinishFlagRefresh(a)]
  <2>1. waiting' \in BOOLEAN /\ (waiting' => waiting)
    BY <1>1, <1>3
  <2>2. QueuedCmdFinishFlagRefresh(a) \in BOOLEAN
    <3>1. a.finishFlag \in BOOLEAN
      BY DEF ArmInv, Arms
    <3> QED  BY <1>1, <2>1, <3>1 DEF QueuedCmdFinishFlagRefresh, Types
  <2>3. WaitInv'
    <3>1. ASSUME waiting'
          PROVE  queuedCmdType = "wait" /\ ~isFinished'["wait"]
      <4>1. queuedCmdType = "wait"
        BY <1>2, <2>1, <3>1 DEF WaitInv
      <4>2. QueuedCmdFinishFlagRefresh(a) = ~waiting'
        BY <4>1 DEF QueuedCmdFinishFlagRefresh
      <4> QED  BY <1>1, <1>3, <3>1, <4>1, <4>2
    <3> QED  BY <1>3, <3>1 DEF WaitInv
  <2>4. OrderInv'
    BY <1>2, <1>3 DEF OrderInv
  <2>5. isFinished' \in [Types -> BOOLEAN]
    BY <1>1, <1>3, <2>2
  <2> QED  BY <1>1, <1>3, <2>1, <2>3, <2>4, <2>5
<1>4. CASE UNCHANGED <<queue, current, queuedCmdType, isFinished, waiting>> /\ arm' = a
  <2>1. WaitInv' /\ OrderInv'
    BY <1>2, <1>4 DEF WaitInv, OrderInv
  <2> QED  BY <1>1, <1>4, <2>1
<1>5. CASE /\ MayStart(a)
           /\ queue' = Tail(queue)
           /\ current' = Head(queue).index
           /\ queuedCmdType' = QueuedCmdTypeCalc(Head(queue).cmd)
           /\ arm' \in Exec(a, Head(queue).cmd, Head(queue).index)
           /\ waiting' = (Head(queue).cmd = "Wait")
           /\ isFinished' = [isFinished EXCEPT ![queuedCmdType'] = FALSE]
  <2>1. PICK q, low, high : q = queue /\ low = current /\ high = lastIndex
    OBVIOUS
  <2>2. Ordered(q, low, high) /\ low \in Nat /\ high \in Nat /\ q # <<>> /\ a.finishFlag
    BY <1>1, <1>2, <1>5, <2>1 DEF OrderInv, MayStart
  <2>3. PICK e : e = Head(q)
    OBVIOUS
  <2>4. e \in Entries /\ low < e.index /\ e.index <= high /\ Ordered(Tail(q), e.index, high)
    BY <2>2, <2>3, TakeOrdered
  <2>5. e.cmd \in Commands /\ e.index \in Nat
    BY <2>4 DEF Entries
  <2>6. PICK b : b = arm' /\ b \in Exec(a, e.cmd, e.index)
    BY <1>5, <2>1, <2>3
  <2>7. ArmInv(b) /\ b.owner \in {0, e.index}
    BY <2>2, <2>5, <2>6, ExecKeeps
  <2>8. current' = e.index /\ queuedCmdType' = QueuedCmdTypeCalc(e.cmd)
        /\ waiting' = (e.cmd = "Wait") /\ queue' = Tail(q)
    BY <1>5, <2>1, <2>3
  <2>9. queuedCmdType' \in Types
    BY <2>8 DEF QueuedCmdTypeCalc, Types
  <2>10. isFinished' \in [Types -> BOOLEAN] /\ isFinished'[queuedCmdType'] = FALSE
    BY <1>1, <1>5, <2>9
  <2>11. WaitInv'
    <3>1. waiting' => queuedCmdType' = "wait"
      BY <2>8 DEF QueuedCmdTypeCalc, Motions
    <3> QED  BY <2>10, <3>1 DEF WaitInv
  <2>12. OrderInv'
    <3>1. lastIndex' > 0 /\ current' <= lastIndex'
      BY <1>2, <2>1, <2>4, <2>8 DEF OrderInv
    <3>2. Ordered(Tail(q), e.index, lastIndex')
      BY <2>1, <2>4
    <3>3. Ordered(queue, current, lastIndex)' <=> Ordered(Tail(q), e.index, lastIndex')
      BY ONLY <2>8 DEF Ordered
    <3> QED  BY <3>1, <3>2, <3>3 DEF OrderInv
  <2>13. current' > current
    BY <1>1, <2>1, <2>4, <2>5, <2>8
  <2>14. waiting' \in BOOLEAN
    BY <2>8
  <2> QED  BY <2>5, <2>6, <2>7, <2>8, <2>9, <2>10, <2>11, <2>12, <2>13, <2>14
<1> QED  BY <1>3, <1>4, <1>5 DEF DoQueueCmd

\* A whole tick.
LEMMA TickKeeps ==
    ASSUME LiteInv, Elapse
    PROVE  /\ LiteInv'
           /\ current' # current => current' > current /\ arm'.owner \in {0, current'}
<1>1. PICK m : m = arm
  OBVIOUS
<1>2. PICK a \in ProfileCalculate(m), over \in BOOLEAN : \E b \in JointCal(a) : DoQueueCmd(b, over)
  BY <1>1 DEF Elapse
<1>3. PICK b \in JointCal(a) : DoQueueCmd(b, over)
  BY <1>2
<1>4. ArmInv(m)
  BY <1>1 DEF LiteInv
<1>5. ArmInv(b)
  BY <1>4, ProfileKeeps, JointKeeps
<1>6. UNCHANGED <<lastIndex, runQueuedCmd, alive, packets>>
  BY DEF Elapse
<1>7. /\ ArmInv(arm') /\ WaitInv' /\ OrderInv'
      /\ queuedCmdType' \in Types /\ current' \in Nat /\ waiting' \in BOOLEAN
      /\ isFinished' \in [Types -> BOOLEAN]
      /\ current' # current => current' > current /\ arm'.owner \in {0, current'}
  BY <1>3, <1>5, <1>6, QueueKeeps
<1>8. lastIndex' \in Nat /\ packets' \in Nat /\ runQueuedCmd' \in BOOLEAN /\ alive' \in BOOLEAN
  BY <1>6 DEF LiteInv, TypeOK
<1>9. queue' \in Seq([cmd : Commands, index : Nat])
  BY <1>7 DEF OrderInv, Ordered, Entries
<1>10. arm' \in Arms
  BY <1>7 DEF ArmInv
<1> QED  BY <1>7, <1>8, <1>9, <1>10 DEF LiteInv, TypeOK

LEMMA LiteInit == Init => LiteInv
<1> SUFFICES ASSUME Init PROVE LiteInv
  OBVIOUS
<1>1. arm \in Arms
  BY DEF Init, InitInterpolation, Arms, Modes, Motions, Keys
<1>2. TypeOK
  <2>1. queue \in Seq([cmd : Commands, index : Nat])
    BY DEF Init
  <2>2. lastIndex \in Nat /\ current \in Nat /\ packets \in Nat
    BY DEF Init
  <2>3. runQueuedCmd \in BOOLEAN /\ waiting \in BOOLEAN /\ alive \in BOOLEAN
    BY DEF Init
  <2>4. queuedCmdType \in Types /\ isFinished \in [Types -> BOOLEAN]
    BY DEF Init, Types
  <2> QED  BY <1>1, <2>1, <2>2, <2>3, <2>4 DEF TypeOK
<1>3. Ordered(queue, current, lastIndex)
  BY DEF Init, Ordered, Entries
<1>4. OrderInv /\ WaitInv
  BY <1>3 DEF Init, OrderInv, WaitInv
<1>5. Owned(arm) /\ Fresh(arm)
  BY DEF Init, InitInterpolation, Owned, Fresh
<1> QED  BY <1>1, <1>2, <1>4, <1>5 DEF LiteInv, ArmInv

LEMMA CountStep == TypeOK /\ CountInv /\ [Next]_vars => CountInv'
<1> SUFFICES ASSUME TypeOK, CountInv, [Next]_vars PROVE CountInv'
  OBVIOUS
<1>1. packets \in Nat /\ lastIndex \in Nat /\ MaxPackets \in Nat
  BY SizeAssumption DEF TypeOK
<1>2. \/ packets' = packets + 1 /\ packets < MaxPackets
         /\ (lastIndex' = lastIndex + 1 \/ lastIndex' = lastIndex)
      \/ packets' = packets /\ lastIndex' = lastIndex
  BY DEF Next, vars, PushPacket, PushIntoFull, DirectPacket, Elapse
<1> QED  BY <1>1, <1>2 DEF CountInv

LEMMA LiteStep == LiteInv /\ [Next]_vars => LiteInv'
<1> SUFFICES ASSUME LiteInv, [Next]_vars PROVE LiteInv'
  OBVIOUS
<1>0. /\ lastIndex \in Nat /\ current \in Nat /\ packets \in Nat
      /\ lastIndex > 0 /\ current <= lastIndex /\ Ordered(queue, current, lastIndex)
  BY DEF LiteInv, TypeOK, OrderInv
<1>1. CASE PushPacket
  <2>1. PICK cmd \in Queued :
          /\ lastIndex' = lastIndex + 1 /\ packets' = packets + 1
          /\ queue' = Append(queue, [cmd |-> cmd, index |-> lastIndex'])
          /\ UNCHANGED <<current, runQueuedCmd, queuedCmdType, isFinished, arm, waiting, alive>>
    BY <1>1 DEF PushPacket
  <2>2. PICK q, low, high : q = queue /\ low = current /\ high = lastIndex
    OBVIOUS
  <2>3. PICK e : e = [cmd |-> cmd, index |-> high + 1]
    OBVIOUS
  <2>4. e \in Entries /\ e.index = high + 1
    BY <1>0, <2>2, <2>3, CommandAssumption DEF Entries
  <2>5. Ordered(Append(q, e), low, high + 1)
    BY <1>0, <2>2, <2>4, PushOrdered
  <2>6. queue' = Append(q, e) /\ current' = low /\ lastIndex' = high + 1
    BY <2>1, <2>2, <2>3
  <2>7. Ordered(queue, current, lastIndex)' <=> Ordered(Append(q, e), low, high + 1)
    BY ONLY <2>6 DEF Ordered
  <2>8. OrderInv'
    BY <1>0, <2>1, <2>5, <2>7 DEF OrderInv
  <2>9. queue' \in Seq([cmd : Commands, index : Nat])
    BY <2>8 DEF OrderInv, Ordered, Entries
  <2>10. TypeOK'
    BY <1>0, <2>1, <2>9 DEF LiteInv, TypeOK
  <2>11. WaitInv' /\ ArmInv(arm)'
    BY <2>1 DEF LiteInv, WaitInv, ArmInv, Owned, Fresh
  <2> QED  BY <2>8, <2>10, <2>11 DEF LiteInv
<1>2. CASE PushIntoFull
  <2>1. /\ packets' = packets + 1 /\ lastIndex' = lastIndex + 1 /\ alive' = FALSE
        /\ UNCHANGED <<queue, current, runQueuedCmd, queuedCmdType, isFinished, arm, waiting>>
    BY <1>2 DEF PushIntoFull
  <2>2. TypeOK'
    <3>1. packets' \in Nat /\ lastIndex' \in Nat /\ current' \in Nat
      BY <1>0, <2>1
    <3>2. alive' \in BOOLEAN
      BY <2>1
    <3> QED  BY <2>1, <3>1, <3>2 DEF LiteInv, TypeOK
  <2>3. Ordered(queue, current, lastIndex)'
    <3>1. \A k \in 1..Len(queue) : queue[k].index \in Nat
      <4>1. \A k \in 1..Len(queue) : queue[k] \in Entries
        BY <1>0 DEF Ordered
      <4> QED  BY <4>1 DEF Entries
    <3>2. \A k \in 1..Len(queue) : current < queue[k].index /\ queue[k].index <= lastIndex + 1
      BY <1>0, <3>1 DEF Ordered
    <3> QED  BY <1>0, <2>1, <3>2 DEF Ordered
  <2>4. OrderInv'
    BY <1>0, <2>1, <2>3 DEF OrderInv
  <2>5. WaitInv' /\ ArmInv(arm)'
    BY <2>1 DEF LiteInv, WaitInv, ArmInv, Owned, Fresh
  <2> QED  BY <2>2, <2>4, <2>5 DEF LiteInv
<1>3. CASE DirectPacket
  <2>0. packets' = packets + 1 /\ UNCHANGED <<lastIndex, current, queuedCmdType, alive>>
    BY <1>3 DEF DirectPacket
  <2> DEFINE Kept == /\ ArmInv(arm') /\ WaitInv'
                     /\ runQueuedCmd' \in BOOLEAN /\ waiting' \in BOOLEAN
                     /\ isFinished' \in [Types -> BOOLEAN]
                     /\ queue' = queue \/ queue' = <<>>
  <2>1. Kept
    <3>1. ASSUME NEW cmd \in Direct \intersect Commands, arm' \in Exec(arm, cmd, DirectOwner),
                 UNCHANGED <<queue, runQueuedCmd, isFinished, waiting>>
          PROVE  Kept
      <4>1. PICK m, b : m = arm /\ b = arm' /\ b \in Exec(m, cmd, DirectOwner)
        BY <3>1
      <4>2. ArmInv(m) /\ cmd \in Commands /\ DirectOwner \in Nat
        BY <3>1, <4>1 DEF LiteInv, DirectOwner
      <4>3. ArmInv(b)
        BY <4>1, <4>2, ExecKeeps
      <4>4. WaitInv'
        BY <2>0, <3>1 DEF LiteInv, WaitInv
      <4> QED  BY <3>1, <4>1, <4>3, <4>4 DEF LiteInv, TypeOK
    <3>2. ASSUME StartQueueCmd \/ StopQueueCmd \/ ForceStopQueueCmd \/ ClearQueueCmd
          PROVE  Kept
      BY <2>0, <3>2, ControlKeeps
    <3>3. \/ \E cmd \in Direct \intersect Commands :
               /\ arm' \in Exec(arm, cmd, DirectOwner)
               /\ UNCHANGED <<queue, runQueuedCmd, isFinished, waiting>>
          \/ StartQueueCmd \/ StopQueueCmd \/ ForceStopQueueCmd \/ ClearQueueCmd
      BY <1>3, Zenon DEF DirectPacket
    <3> QED  BY <3>1, <3>2, <3>3, Zenon
  <2>2. Ordered(queue, current, lastIndex)'
    <3>1. CASE queue' = queue
      BY <1>0, <2>0, <3>1 DEF Ordered
    <3>2. CASE queue' = <<>>
      BY <3>2 DEF Ordered
    <3> QED  BY <2>1, <3>1, <3>2
  <2>3. OrderInv'
    BY <1>0, <2>0, <2>2 DEF OrderInv
  <2>4. queue' \in Seq([cmd : Commands, index : Nat])
    BY <2>2 DEF Ordered, Entries
  <2>5. arm' \in Arms
    BY <2>1 DEF ArmInv
  <2>6. TypeOK'
    BY <1>0, <2>0, <2>1, <2>4, <2>5 DEF LiteInv, TypeOK
  <2> QED  BY <2>1, <2>3, <2>6 DEF LiteInv
<1>4. CASE Elapse
  BY <1>4, TickKeeps
<1>5. CASE UNCHANGED vars
  BY <1>5 DEF vars, LiteInv, TypeOK, OrderInv, Ordered, WaitInv, ArmInv, Owned, Fresh
<1> QED  BY <1>1, <1>2, <1>3, <1>4, <1>5 DEF Next

\* What makes the virtual arm correct is true at all times.
THEOREM LiteInvariant == Spec => []LiteInv
  BY LiteInit, LiteStep, PTL DEF Spec

\* No index given out is as large as a wrapped one.
THEOREM CountInvariant == Spec => []CountInv
<1>1. Init => CountInv
  BY SizeAssumption DEF Init, CountInv
<1>2. LiteInv => TypeOK
  BY DEF LiteInv
<1> QED  BY <1>1, <1>2, CountStep, LiteInvariant, PTL DEF Spec

\* What GetQueueIndex reports is either an index up to which everything is done, never that
\* of a command that waits in the queue, whose motion is under way or whose wait is not
\* over; or it is the wrapped -1 or -2, reported when no queued command has been started
\* yet or a motion is under way.
THEOREM ReportedIsDone == Spec => []IndexHonest
<1>1. LiteInv /\ CountInv => IndexHonest
  <2> SUFFICES ASSUME LiteInv, CountInv PROVE IndexHonest
    OBVIOUS
  <2>1. PICK n : n = GetQueueIndex
    OBVIOUS
  <2>2. /\ current \in Nat /\ lastIndex \in Nat /\ packets \in Nat /\ queuedCmdType \in Types
        /\ current <= lastIndex /\ Ordered(queue, current, lastIndex)
        /\ lastIndex <= MaxPackets + 1 /\ IndexSpan \in Nat /\ IndexSpan >= MaxPackets + 4
        /\ MaxPackets \in Nat
    BY SizeAssumption, SpanAssumption DEF LiteInv, TypeOK, OrderInv, CountInv
  <2>3. CASE arm.finishFlag /\ current # 0
    <3>1. arm.owner = 0
      BY <2>3 DEF LiteInv, ArmInv, Owned
    <3>2. \/ isFinished[queuedCmdType] /\ n = current
          \/ ~isFinished[queuedCmdType] /\ n = current - 1
      BY <2>1, <2>3 DEF GetQueueIndex
    <3>3. n \in Nat /\ n <= current
      BY <2>2, <2>3, <3>2
    <3>4. ASSUME NEW j \in DOMAIN queue PROVE queue[j].index > n
      <4>1. queue \in Seq(Entries) /\ j \in 1..Len(queue)
        BY <2>2 DEF Ordered
      <4>2. queue[j] \in Entries
        BY <4>1
      <4>3. queue[j].index \in Nat
        BY <4>2 DEF Entries
      <4>4. current < queue[j].index
        BY <2>2, <4>1 DEF Ordered
      <4> QED  BY <2>2, <3>3, <4>3, <4>4
    <3>5. ASSUME NEW i \in 1..n, Busy(i) PROVE FALSE
      <4>1. waiting /\ current = i
        BY <3>1, <3>3, <3>5 DEF Busy
      <4>2. ~isFinished[queuedCmdType]
        BY <4>1 DEF LiteInv, WaitInv
      <4> QED  BY <2>2, <3>2, <3>3, <3>5, <4>1, <4>2
    <3>6. ~(n > lastIndex)
      BY <2>2, <3>3
    <3> QED  BY <2>1, <3>4, <3>5, <3>6 DEF IndexHonest
  <2>4. CASE ~(arm.finishFlag /\ current # 0)
    <3>1. n = IndexSpan - 1 \/ n = IndexSpan - 2
      BY <2>1, <2>2, <2>4 DEF GetQueueIndex
    <3>2. n > lastIndex /\ ~(n <= lastIndex)
      BY <2>2, <3>1
    <3> QED  BY <2>1, <2>4, <3>1, <3>2 DEF IndexHonest
  <2> QED  BY <2>3, <2>4
<1> QED  BY <1>1, LiteInvariant, CountInvariant, PTL

\* A motion follows the plan made for it and a jump the path made for it, as
\* long as no motion was broken off by a command that leaves plans standing:
\* starting the queue and stopping it by force leave none.
THEOREM PlanIsItsOwn == Spec => []PlanFresh
<1>1. LiteInv => PlanFresh
  BY DEF LiteInv, ArmInv, Fresh, PlanFresh
<1> QED  BY <1>1, LiteInvariant, PTL

\* Queued commands start in the order of their indexes, and none of them while
\* a motion, of the queue or not, or a wait is under way (doQueueCmd).
THEOREM OneAtATime == Spec => StartsAfterEnd
<1> DEFINE Starts == current' # current =>
               current' > current /\ \A i \in 1..lastIndex : i # current' => ~Busy(i)'
<1>1. LiteInv /\ [Next]_vars => [Starts]_vars
  <2> SUFFICES ASSUME LiteInv, Next, current' # current PROVE Starts
    OBVIOUS
  <2>1. Elapse
    BY DEF Next, PushPacket, PushIntoFull, DirectPacket
  <2>2. current' > current /\ arm'.owner \in {0, current'}
    BY <2>1, TickKeeps
  <2>3. ASSUME NEW i \in 1..lastIndex, i # current', Busy(i)' PROVE FALSE
    <3>1. i # 0 /\ (arm'.owner = i \/ current' = i)
      BY <2>3 DEF Busy
    <3> QED  BY <2>2, <2>3, <3>1
  <2> QED  BY <2>2, <2>3
<1> QED  BY <1>1, LiteInvariant, PTL DEF Spec, StartsAfterEnd
=============================================================================
