---------------------------- MODULE CMyThreadPool ----------------------------
(***************************************************************************)
(* The thread pool of the IndustrialRobotPlugin, which runs the tasks on   *)
(* the controller's files.  A task belongs to the object that started it.  *)
(* Threads are made as they are needed and never end (the pool is static   *)
(* and its destructor never runs); a thread without work waits on the      *)
(* condition variable, which a new task signals once.  The count of idle   *)
(* threads is changed outside the lock, after a task was taken.            *)
(***************************************************************************)
EXTENDS Naturals, Sequences, FiniteSets

CONSTANTS
    m_iMaxThreadCount,  \* threads there may be
    Task,               \* tasks; every task t has an owner t.obj
    Objects             \* owners

ASSUME PoolAssumption ==
    /\ m_iMaxThreadCount \in Nat \ {0}
    /\ \A t \in Task : t.obj \in Objects

VARIABLES
    m_tasks,        \* tasks nobody has taken yet, in order
    m_iIdleCount,
    thread          \* for each thread, what it is at and the task it took

poolVars == <<m_tasks, m_iIdleCount, thread>>

Threads == 1..m_iMaxThreadCount
NoTask == [obj |-> "nobody"]

\* "none": not made yet; "awake": about to look for a task, under the lock;
\* "asleep": waits on m_cond; "took": has a task, idle count not yet lowered;
\* "busy": in the task; "ran": idle count not yet raised.
States == {"none", "awake", "asleep", "took", "busy", "ran"}
In(states) == {n \in Threads : thread[n].at \in states}

PoolTypeOK ==
    /\ m_tasks \in Seq(Task)
    /\ m_iIdleCount \in Nat
    /\ thread \in [Threads -> [at : States, task : Task \cup {NoTask}]]

\* The constructor starts one thread.
PoolInit ==
    /\ m_tasks = <<>>
    /\ m_iIdleCount = 1
    /\ thread = [n \in Threads |-> [at |-> IF n = 1 THEN "awake" ELSE "none", task |-> NoTask]]

\* Thread n goes to state s.
At(n, s) == [thread EXCEPT ![n].at = s]

\* CreateThread, if no thread is idle and one more is allowed.
Created ==
    IF m_iIdleCount = 0 /\ In({"none"}) # {}
    THEN At(CHOOSE n \in In({"none"}) : TRUE, "awake") ELSE thread

\* notify_one on the threads th: one of those asleep, if any, wakes.
Notified(th) ==
    LET asleep == {n \in Threads : th[n].at = "asleep"}
    IN IF asleep = {} THEN {th} ELSE {[th EXCEPT ![n].at = "awake"] : n \in asleep}

\* MUTANT of start: the waiting threads are not told.
startSilently(t) ==
    /\ m_tasks' = Append(m_tasks, t)
    /\ thread' = Created
    /\ m_iIdleCount' = IF Created = thread THEN m_iIdleCount ELSE m_iIdleCount + 1

start(t) ==
    /\ m_tasks' = Append(m_tasks, t)
    /\ thread' \in Notified(Created)
    /\ m_iIdleCount' = IF Created = thread THEN m_iIdleCount ELSE m_iIdleCount + 1

\* The enumerations of the indices K that keep their order; there is one.
InOrder(K) ==
    {f \in [1..Cardinality(K) -> K] : \A i, j \in 1..Cardinality(K) : i < j => f[i] < f[j]}

\* Clear: the tasks of one owner that nobody has taken are cancelled; the others
\* stay, in their order.
Clear(obj) ==
    /\ \E f \in InOrder({i \in DOMAIN m_tasks : m_tasks[i].obj # obj}) :
           m_tasks' = [i \in DOMAIN f |-> m_tasks[f[i]]]
    /\ UNCHANGED <<m_iIdleCount, thread>>

\* Run, up to the unlock: the first task is taken, or there is none.
Take(n) ==
    /\ thread[n].at = "awake"
    /\ m_tasks # <<>>
    /\ thread' = [thread EXCEPT ![n] = [at |-> "took", task |-> Head(m_tasks)]]
    /\ m_tasks' = Tail(m_tasks)
    /\ UNCHANGED m_iIdleCount

Wait(n) ==
    /\ thread[n].at = "awake"
    /\ m_tasks = <<>>
    /\ thread' = At(n, "asleep")
    /\ UNCHANGED <<m_tasks, m_iIdleCount>>

\* A condition variable may wake a thread nobody told.
Spurious(n) ==
    /\ thread[n].at = "asleep"
    /\ thread' = At(n, "awake")
    /\ UNCHANGED <<m_tasks, m_iIdleCount>>

\* Run, after the unlock: --m_iIdleCount, the task, ++m_iIdleCount.
Begin(n) ==
    /\ thread[n].at = "took"
    /\ thread' = At(n, "busy")
    /\ m_iIdleCount' = m_iIdleCount - 1
    /\ UNCHANGED m_tasks

End(n) ==
    /\ thread[n].at = "busy"
    /\ thread' = [thread EXCEPT ![n] = [at |-> "ran", task |-> NoTask]]
    /\ UNCHANGED <<m_tasks, m_iIdleCount>>

Idle(n) ==
    /\ thread[n].at = "ran"
    /\ thread' = At(n, "awake")
    /\ m_iIdleCount' = m_iIdleCount + 1
    /\ UNCHANGED m_tasks

PoolNext ==
    \/ \E t \in Task : start(t)
    \/ \E obj \in Objects : Clear(obj)
    \/ \E n \in Threads : Take(n) \/ Wait(n) \/ Spurious(n) \/ Begin(n) \/ End(n) \/ Idle(n)

PoolSpec == PoolInit /\ [][PoolNext]_poolVars

-----------------------------------------------------------------------------
\* No task waits beside a thread that sleeps: whenever a thread is asleep, every
\* task in the queue has an awake thread of its own that is about to look for
\* one.  A wake-up that got lost, between the test for an empty queue and the
\* wait, or one signal for two tasks, would leave a file request unanswered
\* although a thread is free (start and Run, cmythreadpool.cpp).
NoTaskSleeps == In({"asleep"}) # {} => Len(m_tasks) <= Cardinality(In({"awake"}))

\* m_iIdleCount counts the threads that are not in a task, those that have
\* taken one and not said so yet included.
IdleCounts == m_iIdleCount = Cardinality(In({"awake", "asleep", "took"}))
=============================================================================
