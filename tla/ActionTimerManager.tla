------------------------- MODULE ActionTimerManager -------------------------
(***************************************************************************)
(* ActionTimerManager: the queued motions whose end somebody waits for, in *)
(* order, the 300 ms tick that asks the device how far its queue has got,  *)
(* and the single-shot timer of the motion being executed.  Each operation *)
(* is the conjunction of what it assigns; MagicDevice makes actions of     *)
(* them, because every signal emitted here runs its slot there and then.   *)
(***************************************************************************)
EXTENDS Naturals, Sequences

CONSTANTS Ids            \* ids of requests

VARIABLES
    timerSetList,        \* m_timerSetList, as ids
    targetIndex,         \* ActionTimerSet::targetIndex of each id in the list
    tickTimer,           \* m_tickTimer is active
    actionFinishTimer,   \* m_actionFinishTimer is active
    isUpdated            \* the last index asked for has arrived

timerVars == <<timerSetList, targetIndex, tickTimer, actionFinishTimer, isUpdated>>

TimerInit ==
    /\ timerSetList = <<>>
    /\ targetIndex = [i \in Ids |-> 0]
    /\ tickTimer = FALSE
    /\ actionFinishTimer = FALSE
    /\ isUpdated \in BOOLEAN    \* the constructor leaves it unset

TimerIds == {timerSetList[n] : n \in DOMAIN timerSetList}

\* MUTANT of AddTimer: isUpdated is not set when the tick starts.
AddTimerStale(i) ==
    /\ timerSetList' = Append(timerSetList, i)
    /\ targetIndex' = [targetIndex EXCEPT ![i] = 0]
    /\ tickTimer' = TRUE
    /\ UNCHANGED <<actionFinishTimer, isUpdated>>

\* addTimer with a positive timeout and a new id.
AddTimer(i) ==
    /\ timerSetList' = Append(timerSetList, i)
    /\ targetIndex' = [targetIndex EXCEPT ![i] = 0]
    /\ tickTimer' = TRUE
    /\ isUpdated' = (isUpdated \/ ~tickTimer)
    /\ UNCHANGED actionFinishTimer

SetTargetIndexWithId(i, index) ==
    /\ targetIndex' = [targetIndex EXCEPT ![i] = index]
    /\ UNCHANGED <<timerSetList, tickTimer, actionFinishTimer, isUpdated>>

\* tickTimerTimeover_slot when it asks for the index; otherwise it does nothing.
Tick ==
    /\ tickTimer
    /\ isUpdated
    /\ isUpdated' = FALSE
    /\ UNCHANGED <<timerSetList, targetIndex, tickTimer, actionFinishTimer>>

\* MUTANT of HeadTarget: off by one, the motion before it ends it.
HeadTargetBefore ==
    IF targetIndex[Head(timerSetList)] = 0 THEN 1 ELSE targetIndex[Head(timerSetList)] - 1

\* The first timer's target; 0, "timer target error", is replaced by 1.
HeadTarget ==
    IF targetIndex[Head(timerSetList)] = 0 THEN 1 ELSE targetIndex[Head(timerSetList)]

\* MUTANT of RemoveHead: off by one, the tick stops with the last but one.
RemoveHeadEarly ==
    /\ timerSetList' = Tail(timerSetList)
    /\ actionFinishTimer' = FALSE
    /\ tickTimer' = (tickTimer /\ Len(timerSetList) > 2)

\* The first timer leaves; the tick stops with the last one.
RemoveHead ==
    /\ timerSetList' = Tail(timerSetList)
    /\ actionFinishTimer' = FALSE
    /\ tickTimer' = (tickTimer /\ Len(timerSetList) > 1)

\* updateCurrentIndex, the case that finishes the first motion ...
IndexFinishes(index) ==
    /\ timerSetList # <<>>
    /\ index >= HeadTarget
    /\ RemoveHead
    /\ isUpdated' = TRUE
    /\ UNCHANGED targetIndex

\* ... and the others; the finish timer is armed when the device reaches it.
IndexNoted(index) ==
    /\ isUpdated' = TRUE
    /\ \/ /\ timerSetList = <<>>
          /\ UNCHANGED <<targetIndex, actionFinishTimer>>
       \/ /\ timerSetList # <<>>
          /\ index < HeadTarget
          /\ targetIndex' = [targetIndex EXCEPT ![Head(timerSetList)] = HeadTarget]
          /\ actionFinishTimer' = (actionFinishTimer \/ index = HeadTarget - 1)
    /\ UNCHANGED <<timerSetList, tickTimer>>

\* actionFinishTimeover_slot
ActionFinishTimeover ==
    /\ actionFinishTimer
    /\ timerSetList # <<>>
    /\ RemoveHead
    /\ UNCHANGED <<targetIndex, isUpdated>>

ClearTimers ==
    /\ timerSetList' = <<>>
    /\ tickTimer' = FALSE
    /\ actionFinishTimer' = FALSE
    /\ UNCHANGED <<targetIndex, isUpdated>>
=============================================================================
