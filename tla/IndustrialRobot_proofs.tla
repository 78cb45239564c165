----------------------- MODULE IndustrialRobot_proofs -----------------------
(***************************************************************************)
(* The IndustrialRobotPlugin.  For any number of threads, tasks and owners *)
(* of its pool: no task waits beside a thread that sleeps, and the idle    *)
(* count, changed outside the lock, always tells the threads that are not  *)
(* in a task.  For any requests, clients and failures: no request is       *)
(* answered twice, and every event loop that a reply may end is still on   *)
(* the stack.                                                              *)
(***************************************************************************)
EXTENDS RobotPlugins, FiniteSetTheorems, SequenceTheorems, TLAPS

PoolInv == PoolTypeOK /\ IdleCounts /\ NoTaskSleeps

-----------------------------------------------------------------------------
\* Sets of threads are finite; one more thread is one more, one less is one less.
LEMMA ThreadSets ==
    ASSUME NEW A \in SUBSET Threads
    PROVE  /\ IsFiniteSet(A) /\ Cardinality(A) \in Nat
           /\ \A n \in Threads \ A : Cardinality(A \cup {n}) = Cardinality(A) + 1
           /\ \A n \in A : Cardinality(A \ {n}) = Cardinality(A) - 1
           /\ \A B \in SUBSET A : Cardinality(B) <= Cardinality(A)
           /\ A # {} => Cardinality(A) >= 1
<1>1. IsFiniteSet(Threads)
  BY PoolAssumption, FS_Interval DEF Threads
<1>2. IsFiniteSet(A)
  BY <1>1, FS_Subset
<1>3. Cardinality(A) \in Nat
  BY <1>2, FS_CardinalityType
<1>4. \A n \in Threads \ A : Cardinality(A \cup {n}) = Cardinality(A) + 1
  BY <1>2, FS_AddElement
<1>5. \A n \in A : Cardinality(A \ {n}) = Cardinality(A) - 1
  BY <1>2, FS_RemoveElement
<1>6. \A B \in SUBSET A : Cardinality(B) <= Cardinality(A)
  BY <1>2, FS_Subset
<1>7. A # {} => Cardinality(A) >= 1
  BY <1>2, <1>3, FS_EmptySet
<1> QED  BY <1>2, <1>3, <1>4, <1>5, <1>6, <1>7

\* A task list without some of its tasks is one, and not longer.
LEMMA Shortened ==
    ASSUME NEW s \in Seq(Task), NEW K \in SUBSET DOMAIN s, NEW f \in InOrder(K)
    PROVE  /\ [i \in DOMAIN f |-> s[f[i]]] \in Seq(Task)
           /\ Len([i \in DOMAIN f |-> s[f[i]]]) <= Len(s)
<1>0. Len(s) \in Nat
  OBVIOUS
<1>1. IsFiniteSet(1..Len(s)) /\ Cardinality(1..Len(s)) = Len(s)
  BY <1>0, FS_Interval
<1>2. K \subseteq 1..Len(s)
  OBVIOUS
<1>3. IsFiniteSet(K) /\ Cardinality(K) <= Len(s)
  BY <1>1, <1>2, FS_Subset
<1>4. Cardinality(K) \in Nat
  BY <1>3, FS_CardinalityType
<1>5. f \in [1..Cardinality(K) -> K]
  BY DEF InOrder
<1>6. \A i \in 1..Cardinality(K) : s[f[i]] \in Task
  BY <1>2, <1>5
<1> DEFINE r == [i \in DOMAIN f |-> s[f[i]]]
<1>7. r \in [1..Cardinality(K) -> Task]
  BY <1>5, <1>6
<1>8. r \in Seq(Task) /\ Len(r) = Cardinality(K)
  BY <1>4, <1>7
<1> QED  BY <1>3, <1>8

\* What start does to the threads: perhaps a new one, and one that slept wakes.
LEMMA StartThreads ==
    ASSUME PoolTypeOK, NEW t \in Task, start(t)
    PROVE  /\ thread' \in [Threads -> [at : States, task : Task \cup {NoTask}]]
           /\ In({"awake"}) \subseteq In({"awake"})'
           /\ In({"asleep"})' \subseteq In({"asleep"})
           /\ In({"asleep"}) # {} => \E n \in In({"asleep"}) : n \in In({"awake"})'
<1> USE DEF PoolTypeOK, In, States
<1>1. /\ Created \in [Threads -> [at : States, task : Task \cup {NoTask}]]
      /\ \A n \in Threads : thread[n].at = "awake" => Created[n].at = "awake"
      /\ \A n \in Threads : thread[n].at = "asleep" <=> Created[n].at = "asleep"
  <2>1. CASE m_iIdleCount = 0 /\ In({"none"}) # {}
    <3>1. PICK m \in In({"none"}) : Created = At(m, "awake")
      BY <2>1, Zenon DEF Created
    <3> QED  BY <3>1 DEF At
  <2>2. CASE ~(m_iIdleCount = 0 /\ In({"none"}) # {})
    BY <2>2, Zenon DEF Created
  <2> QED  BY <2>1, <2>2
<1>2. thread' \in Notified(Created)
  BY DEF start
<1> DEFINE asleep == {n \in Threads : Created[n].at = "asleep"}
<1>3. CASE asleep = {}
  <2>1. thread' = Created
    BY <1>2, <1>3 DEF Notified
  <2> QED  BY <1>1, <1>3, <2>1
<1>4. CASE asleep # {}
  <2>1. PICK n \in asleep : thread' = [Created EXCEPT ![n].at = "awake"]
    BY <1>2, <1>4 DEF Notified
  <2> QED  BY <1>1, <2>1
<1> QED  BY <1>3, <1>4

\* The constructor's one thread is idle, and nobody sleeps.
LEMMA PoolInitInv == PoolInit => PoolInv
<1> SUFFICES ASSUME PoolInit PROVE PoolInv
  OBVIOUS
<1>1. PoolTypeOK
  BY PoolAssumption DEF PoolInit, PoolTypeOK, Threads, States
<1>2. In({"asleep"}) = {} /\ In({"awake", "asleep", "took"}) = {1}
  BY PoolAssumption DEF PoolInit, In, Threads
<1>3. Cardinality({1}) = 1
  BY FS_Singleton
<1> QED
  BY <1>1, <1>2, <1>3 DEF PoolInv, IdleCounts, NoTaskSleeps, PoolInit

\* Thread n goes from state a to state b: the sets of threads in some states
\* change by n at most.
LEMMA OneMoves ==
    ASSUME PoolTypeOK, NEW n \in Threads, NEW b \in States,
           NEW k \in Task \cup {NoTask},
           \/ thread' = At(n, b)
           \/ thread' = [thread EXCEPT ![n] = [at |-> b, task |-> k]]
    PROVE  /\ thread' \in [Threads -> [at : States, task : Task \cup {NoTask}]]
           /\ \A S \in SUBSET States :
                  In(S)' = IF b \in S THEN In(S) \cup {n} ELSE In(S) \ {n}
<1>1. /\ thread' \in [Threads -> [at : States, task : Task \cup {NoTask}]]
      /\ thread'[n].at = b
      /\ \A m \in Threads \ {n} : thread'[m] = thread[m]
  BY DEF PoolTypeOK, At
<1> QED  BY <1>1 DEF In

\* Every step of start, Clear and Run keeps the invariant.
LEMMA PoolStep == PoolInv /\ [PoolNext]_poolVars => PoolInv'
<1> SUFFICES ASSUME PoolInv, [PoolNext]_poolVars PROVE PoolInv'
  OBVIOUS
<1> DEFINE Idlers == {"awake", "asleep", "took"}
<1>0. PoolTypeOK /\ IdleCounts /\ NoTaskSleeps
  BY DEF PoolInv
<1>a. /\ {"awake"} \in SUBSET States /\ {"asleep"} \in SUBSET States
      /\ Idlers \in SUBSET States
      /\ In({"awake"}) \in SUBSET Threads /\ In({"awake"})' \in SUBSET Threads
      /\ In(Idlers) \in SUBSET Threads
  BY DEF States, In
<1>b. /\ Cardinality(In({"awake"})) \in Nat /\ Cardinality(In({"awake"})') \in Nat
      /\ Cardinality(In(Idlers)) \in Nat
      /\ Len(m_tasks) \in Nat
  BY <1>0, <1>a, ThreadSets DEF PoolTypeOK
<1>1. ASSUME NEW t \in Task, start(t) PROVE PoolInv'
  <2>1. m_tasks' \in Seq(Task) /\ Len(m_tasks') = Len(m_tasks) + 1
    BY <1>0, <1>1 DEF start, PoolTypeOK
  <2>2. IdleCounts' /\ m_iIdleCount' \in Nat
    <3>1. In(Idlers)' = {n \in Threads : Created[n].at \in Idlers}
      <4>1. CASE \A n \in Threads : Created[n].at # "asleep"
        BY <1>1, <4>1 DEF start, Notified, In
      <4>2. CASE \E n \in Threads : Created[n].at = "asleep"
        <5>1. PICK n \in Threads :
                 Created[n].at = "asleep" /\ thread' = [Created EXCEPT ![n].at = "awake"]
          BY <1>1, <4>2 DEF start, Notified
        <5>2. DOMAIN Created = Threads
          <6>1. DOMAIN thread = Threads
            BY <1>0 DEF PoolTypeOK
          <6> QED  BY <6>1, Zenon DEF Created, At
        <5>3. \A m \in Threads : thread'[m].at \in Idlers <=> Created[m].at \in Idlers
          BY <5>1, <5>2
        <5> QED  BY <5>3 DEF In
      <4> QED  BY <4>1, <4>2
    <3>2. CASE m_iIdleCount = 0 /\ In({"none"}) # {}
      <4>1. PICK m \in In({"none"}) : Created = At(m, "awake")
        BY <3>2, Zenon DEF Created
      <4>2. /\ m \in Threads \ In(Idlers)
            /\ Created # thread
            /\ {n \in Threads : Created[n].at \in Idlers} = In(Idlers) \cup {m}
        BY <1>0, <4>1 DEF PoolTypeOK, In, At
      <4>3. Cardinality(In(Idlers)') = Cardinality(In(Idlers)) + 1
        BY <1>a, <3>1, <4>2, ThreadSets
      <4>4. m_iIdleCount' = m_iIdleCount + 1
        BY <1>1, <4>2 DEF start
      <4> QED  BY <1>0, <1>b, <4>3, <4>4 DEF IdleCounts
    <3>3. CASE ~(m_iIdleCount = 0 /\ In({"none"}) # {})
      <4>1. Created = thread
        BY <3>3, Zenon DEF Created
      <4>2. In(Idlers)' = In(Idlers)
        BY <3>1, <4>1 DEF In
      <4>3. m_iIdleCount' = m_iIdleCount
        BY <1>1, <4>1 DEF start
      <4> QED  BY <1>0, <1>b, <4>2, <4>3 DEF IdleCounts
    <3> QED  BY <3>2, <3>3
  <2>3. NoTaskSleeps'
    <3>1. SUFFICES ASSUME In({"asleep"})' # {}
                   PROVE  Len(m_tasks') <= Cardinality(In({"awake"})')
      BY DEF NoTaskSleeps
    <3>2. In({"asleep"}) # {}
      BY <1>0, <1>1, <3>1, StartThreads
    <3>3. PICK n \in In({"asleep"}) : n \in In({"awake"})'
      BY <1>0, <1>1, <3>2, StartThreads
    <3>4. n \in Threads \ In({"awake"})
      BY <3>3 DEF In
    <3>5. In({"awake"}) \cup {n} \in SUBSET In({"awake"})'
      BY <1>0, <1>1, <3>3, StartThreads
    <3>6. Cardinality(In({"awake"}) \cup {n}) = Cardinality(In({"awake"})) + 1
      BY <1>a, <3>4, ThreadSets
    <3>7. Cardinality(In({"awake"}) \cup {n}) <= Cardinality(In({"awake"})')
      BY <1>a, <3>5, ThreadSets
    <3> QED  BY <1>0, <1>b, <2>1, <3>2, <3>6, <3>7 DEF NoTaskSleeps
  <2> QED
    BY <1>0, <1>1, <2>1, <2>2, <2>3, StartThreads DEF PoolInv, PoolTypeOK
<1>2. ASSUME NEW obj \in Objects, Clear(obj) PROVE PoolInv'
  <2> DEFINE K == {i \in DOMAIN m_tasks : m_tasks[i].obj # obj}
  <2>1. PICK f \in InOrder(K) : m_tasks' = [i \in DOMAIN f |-> m_tasks[f[i]]]
    BY <1>2 DEF Clear
  <2>2. m_tasks' \in Seq(Task) /\ Len(m_tasks') <= Len(m_tasks)
    BY <1>0, <2>1, Shortened DEF PoolTypeOK
  <2>3. UNCHANGED <<m_iIdleCount, thread>>
    BY <1>2 DEF Clear
  <2>4. Len(m_tasks') \in Nat
    BY <2>2
  <2> QED
    BY <1>0, <1>b, <2>2, <2>3, <2>4 DEF PoolInv, PoolTypeOK, IdleCounts, NoTaskSleeps, In
<1>3. ASSUME NEW n \in Threads, Take(n) PROVE PoolInv'
  <2>1. Head(m_tasks) \in Task /\ m_tasks' \in Seq(Task) /\ Len(m_tasks') = Len(m_tasks) - 1
    BY <1>0, <1>3 DEF Take, PoolTypeOK
  <2>2. /\ thread' \in [Threads -> [at : States, task : Task \cup {NoTask}]]
        /\ \A S \in SUBSET States :
               In(S)' = IF "took" \in S THEN In(S) \cup {n} ELSE In(S) \ {n}
    BY <1>0, <1>3, <2>1, OneMoves DEF Take, States
  <2>3. n \in In({"awake"}) /\ n \in In(Idlers)
    BY <1>3 DEF Take, In
  <2>4. In(Idlers)' = In(Idlers)
    BY <1>a, <2>2, <2>3
  <2>5. In({"awake"})' = In({"awake"}) \ {n} /\ In({"asleep"})' \subseteq In({"asleep"})
    BY <1>a, <2>2
  <2>6. Cardinality(In({"awake"})') = Cardinality(In({"awake"})) - 1
    BY <1>a, <2>3, <2>5, ThreadSets
  <2>7. m_iIdleCount' = m_iIdleCount
    BY <1>3 DEF Take
  <2> QED
    BY <1>0, <1>b, <2>1, <2>2, <2>4, <2>5, <2>6, <2>7
    DEF PoolInv, PoolTypeOK, IdleCounts, NoTaskSleeps
<1>4. ASSUME NEW n \in Threads, Wait(n) \/ Spurious(n) PROVE PoolInv'
  <2>1. PICK b \in {"awake", "asleep"} : thread' = At(n, b) /\ (b = "asleep" => m_tasks = <<>>)
    BY <1>4 DEF Wait, Spurious
  <2>2. /\ thread' \in [Threads -> [at : States, task : Task \cup {NoTask}]]
        /\ \A S \in SUBSET States :
               In(S)' = IF b \in S THEN In(S) \cup {n} ELSE In(S) \ {n}
    <3>1. b \in States
      BY DEF States
    <3> QED  BY <1>0, <2>1, <3>1, OneMoves
  <2>3. n \in In(Idlers)
    BY <1>4 DEF Wait, Spurious, In
  <2>4. In(Idlers)' = In(Idlers)
    <3>1. In(Idlers)' = In(Idlers) \cup {n}
      BY <1>a, <2>2
    <3> QED  BY <2>3, <3>1
  <2>5. m_tasks' = m_tasks /\ m_iIdleCount' = m_iIdleCount
    BY <1>4 DEF Wait, Spurious
  <2>6. NoTaskSleeps'
    <3>1. CASE b = "asleep"
      <4>1. Len(m_tasks') = 0
        BY <2>1, <2>5, <3>1
      <4> QED  BY <1>b, <4>1 DEF NoTaskSleeps
    <3>2. CASE b = "awake"
      <4>1. /\ In({"awake"}) \in SUBSET In({"awake"})'
            /\ In({"asleep"})' \subseteq In({"asleep"})
        BY <1>a, <2>2, <3>2
      <4>2. Cardinality(In({"awake"})) <= Cardinality(In({"awake"})')
        BY <1>a, <4>1, ThreadSets
      <4> QED  BY <1>0, <1>b, <2>5, <4>1, <4>2 DEF NoTaskSleeps
    <3> QED  BY <3>1, <3>2
  <2> QED
    BY <1>0, <2>2, <2>4, <2>5, <2>6 DEF PoolInv, PoolTypeOK, IdleCounts
<1>5. ASSUME NEW n \in Threads, Begin(n) PROVE PoolInv'
  <2>1. /\ thread' \in [Threads -> [at : States, task : Task \cup {NoTask}]]
        /\ \A S \in SUBSET States : In(S)' = IF "busy" \in S THEN In(S) \cup {n} ELSE In(S) \ {n}
    BY <1>0, <1>5, OneMoves DEF Begin, States
  <2>2. n \in In(Idlers) /\ n \notin In({"awake"})
    BY <1>5 DEF Begin, In
  <2>3. /\ In(Idlers)' = In(Idlers) \ {n}
        /\ In({"awake"})' = In({"awake"}) /\ In({"asleep"})' \subseteq In({"asleep"})
    <3>1. /\ In(Idlers)' = In(Idlers) \ {n} /\ In({"awake"})' = In({"awake"}) \ {n}
          /\ In({"asleep"})' = In({"asleep"}) \ {n}
      BY <1>a, <2>1
    <3> QED  BY <2>2, <3>1
  <2>4. /\ Cardinality(In(Idlers)') = Cardinality(In(Idlers)) - 1
        /\ Cardinality(In(Idlers)) >= 1
    BY <1>a, <2>2, <2>3, ThreadSets
  <2>5. m_iIdleCount' = m_iIdleCount - 1 /\ m_tasks' = m_tasks
    BY <1>5 DEF Begin
  <2> QED
    BY <1>0, <1>b, <2>1, <2>3, <2>4, <2>5
    DEF PoolInv, PoolTypeOK, IdleCounts, NoTaskSleeps
<1>6. ASSUME NEW n \in Threads, End(n) PROVE PoolInv'
  <2>1. /\ thread' \in [Threads -> [at : States, task : Task \cup {NoTask}]]
        /\ \A S \in SUBSET States : In(S)' = IF "ran" \in S THEN In(S) \cup {n} ELSE In(S) \ {n}
    BY <1>0, <1>6, OneMoves DEF End, States
  <2>2. n \notin In(Idlers) /\ n \notin In({"awake"})
    BY <1>6 DEF End, In
  <2>3. /\ In(Idlers)' = In(Idlers)
        /\ In({"awake"})' = In({"awake"}) /\ In({"asleep"})' \subseteq In({"asleep"})
    <3>1. /\ In(Idlers)' = In(Idlers) \ {n} /\ In({"awake"})' = In({"awake"}) \ {n}
          /\ In({"asleep"})' = In({"asleep"}) \ {n}
      BY <1>a, <2>1
    <3> QED  BY <2>2, <3>1
  <2>4. m_iIdleCount' = m_iIdleCount /\ m_tasks' = m_tasks
    BY <1>6 DEF End
  <2> QED
    BY <1>0, <2>1, <2>3, <2>4 DEF PoolInv, PoolTypeOK, IdleCounts, NoTaskSleeps
<1>7. ASSUME NEW n \in Threads, Idle(n) PROVE PoolInv'
  <2>1. /\ thread' \in [Threads -> [at : States, task : Task \cup {NoTask}]]
        /\ \A S \in SUBSET States : In(S)' = IF "awake" \in S THEN In(S) \cup {n} ELSE In(S) \ {n}
    BY <1>0, <1>7, OneMoves DEF Idle, States
  <2>2. n \in Threads \ In(Idlers)
    BY <1>7 DEF Idle, In
  <2>3. /\ In(Idlers)' = In(Idlers) \cup {n}
        /\ In({"awake"}) \in SUBSET In({"awake"})' /\ In({"asleep"})' \subseteq In({"asleep"})
    BY <1>a, <2>1
  <2>4. /\ Cardinality(In(Idlers)') = Cardinality(In(Idlers)) + 1
        /\ Cardinality(In({"awake"})) <= Cardinality(In({"awake"})')
    BY <1>a, <2>2, <2>3, ThreadSets
  <2>5. m_iIdleCount' = m_iIdleCount + 1 /\ m_tasks' = m_tasks
    BY <1>7 DEF Idle
  <2> QED
    BY <1>0, <1>b, <2>1, <2>3, <2>4, <2>5
    DEF PoolInv, PoolTypeOK, IdleCounts, NoTaskSleeps
<1>8. CASE UNCHANGED poolVars
  BY <1>0, <1>8 DEF poolVars, PoolInv, PoolTypeOK, IdleCounts, NoTaskSleeps, In
<1> QED
  BY <1>1, <1>2, <1>3, <1>4, <1>5, <1>6, <1>7, <1>8 DEF PoolNext

\* The pool of CMyThreadPool: types, its count and its wake-ups.
THEOREM PoolInvariant == PoolSpec => []PoolInv
BY PoolInitInv, PoolStep, PTL DEF PoolSpec

\* start, Clear and Run (cmythreadpool.cpp): for any number of threads and tasks,
\* a task in the queue never waits while a thread sleeps on the condition
\* variable and no other is on its way to take it, however the threads change
\* the idle count outside the lock.
THEOREM NoWakeupLost == PoolSpec => []NoTaskSleeps
BY PoolInvariant, PTL DEF PoolInv

\* The count by which start decides on a new thread is the number of threads
\* that are not inside a task, never negative and never ahead of them.
THEOREM IdleCountTrue == PoolSpec => []IdleCounts
BY PoolInvariant, PTL DEF PoolInv

-----------------------------------------------------------------------------
\* Request x of the requests rs is none for a search.
NotSearch(rs, x) == x \in Ids => rs[x].api # "SearchDobot"

\* After n requests rs, of which P wait for an answer and S for the search: nobody has
\* two answers, who waits for the search has none, and who is answered waits no more,
\* unless it asked for a search.
AnswersInv(rs, n, P, A, S) ==
    /\ n \in Nat /\ n <= MaxRequests
    /\ P \subseteq 1..n /\ S \subseteq 1..n
    /\ A = [id \in Ids |-> A[id]]
    /\ \A id \in Ids :
           /\ A[id] = <<>> \/ A[id] = <<A[id][1]>>
           /\ id > n => A[id] = <<>>
           /\ A[id] # <<>> /\ rs[id].api # "SearchDobot" => id \notin P
           /\ id \in S => A[id] = <<>> /\ rs[id].api = "SearchDobot"

\* The fields an update has to find.
FrameShape(f) ==
    "id" \in DOMAIN f /\ "dev" \in DOMAIN f /\ "kind" \in DOMAIN f /\ "quit" \in DOMAIN f /\ "failed" \in DOMAIN f
JobShape(j) == "task" \in DOMAIN j
MobShape(m) == "m_handlingId" \in DOMAIN m
DeviceShape(e) == "mob" \in DOMAIN e

\* What is under way is under way for requests that do not ask for a search.
Fit(rs, id, d) == NotSearch(rs, id) /\ d \in {0} \cup Ids
RepliesInv(rs, R) == \A r \in R : Fit(rs, r.id, r.dev)
JobsInv(rs, J) == \A j \in J : JobShape(j) /\ Fit(rs, j.task.id, j.task.obj[1])
LoopsInv(rs, L) ==
    /\ Len(L) \in Nat /\ L = [n \in 1..Len(L) |-> L[n]]
    /\ \A n \in 1..Len(L) : FrameShape(L[n]) /\ Fit(rs, L[n].id, L[n].dev)
DevicesInv(rs, D) ==
    /\ D = [d \in {0} \cup Ids |-> D[d]]
    /\ \A d \in {0} \cup Ids : DeviceShape(D[d]) /\ MobShape(D[d].mob) /\ NotSearch(rs, D[d].mob.m_handlingId)
MapInv(m) ==
    /\ m = [p \in ToSet(PortNames) |-> m[p]]
    /\ \A p \in ToSet(PortNames) : m[p] \subseteq {0} \cup Ids

\* The loops M that a reply may end are on the stack L and run.
Live(f, id) == f.id = id /\ f.kind = "loop" /\ ~f.failed /\ ~f.quit
LiveInv(L, M) == \A id \in M : \E n \in 1..Len(L) : Live(L[n], id)

QueuesInv(rs, n, q, A, S, M) ==
    /\ q = [packets |-> q.packets, replies |-> q.replies, jobs |-> q.jobs, loops |-> q.loops]
    /\ AnswersInv(rs, n, q.packets, A, S)
    /\ RepliesInv(rs, q.replies)
    /\ JobsInv(rs, q.jobs)
    /\ LoopsInv(rs, q.loops)
    /\ LiveInv(q.loops, M)

IndustrialInv ==
    /\ scenario \in Scenarios
    /\ QueuesInv(reqs, arrived, Queues, answers, m_reqSearchPacket, m_eventloopMap)
    /\ DevicesInv(reqs, device)
    /\ MapInv(m_mapDevices)

-----------------------------------------------------------------------------
\* Requests are numbered from 1.
LEMMA IdsAreNumbers == MaxRequests \in Nat /\ \A id \in Ids : id \in Nat /\ id # 0 /\ id <= MaxRequests
<1>1. MaxRequests \in Nat
  BY IndustrialAssumption, Zenon
<1> QED  BY <1>1 DEF Ids

\* Who waits for an answer and asks for no search has none.
LEMMA Answerable ==
    ASSUME NEW rs, NEW n, NEW P, NEW A, NEW S, AnswersInv(rs, n, P, A, S),
           NEW x \in P, NotSearch(rs, x)
    PROVE  x \in Ids /\ A[x] = <<>> /\ x \notin S
<1>1. x \in Ids
  BY IdsAreNumbers DEF AnswersInv, Ids
<1> QED  BY <1>1 DEF AnswersInv, NotSearch

\* The first element of a sequence.
LEMMA OneElement == \A a : Append(<<>>, a) = <<a>>
  OBVIOUS

\* Answers to requests that wait for one and have none.
LEMMA EmitAnswers ==
    ASSUME NEW rs, NEW n, NEW q, NEW S, AnswersInv(rs, n, q.packets, answers, S), NEW as, Emit(as, q),
           \A x \in DOMAIN as \cap q.packets : answers[x] = <<>> /\ x \notin S
    PROVE  AnswersInv(rs, n, m_requestPacketMap', answers', S)
<1>1. answers' = [id \in Ids |-> answers'[id]]
  BY DEF Emit
<1>2. m_requestPacketMap' \subseteq q.packets
  BY DEF Emit
<1> SUFFICES ASSUME NEW id \in Ids
             PROVE  /\ answers'[id] = <<>> \/ answers'[id] = <<answers'[id][1]>>
                    /\ id > n => answers'[id] = <<>>
                    /\ answers'[id] # <<>> /\ rs[id].api # "SearchDobot" => id \notin m_requestPacketMap'
                    /\ id \in S => answers'[id] = <<>> /\ rs[id].api = "SearchDobot"
  BY <1>1, <1>2 DEF AnswersInv
<1>3. CASE id \in DOMAIN as \cap q.packets
  <2>1. answers'[id] = <<as[id]>>
    BY <1>3, OneElement DEF Emit
  <2>2. id \in 1..n /\ n \in Nat
    BY <1>3 DEF AnswersInv
  <2>3. id \notin m_requestPacketMap' /\ id \notin S
    BY <1>3 DEF Emit
  <2>4. answers'[id] = <<answers'[id][1]>>
    BY <2>1
  <2> QED  BY <2>2, <2>3, <2>4, IdsAreNumbers
<1>4. CASE id \notin DOMAIN as \cap q.packets
  <2>1. answers'[id] = answers[id]
    BY <1>4 DEF Emit
  <2> QED  BY <2>1, <1>2 DEF AnswersInv
<1> QED  BY <1>3, <1>4

\* Nobody is answered.
LEMMA NoAnswers ==
    ASSUME NEW rs, NEW n, NEW q, NEW S, AnswersInv(rs, n, q.packets, answers, S), Emit(<<>>, q)
    PROVE  AnswersInv(rs, n, m_requestPacketMap', answers', S)
<1>1. DOMAIN <<>> = {}
  OBVIOUS
<1> QED  BY <1>1, EmitAnswers

\* One request that was held is answered, and held no more.
LEMMA OneAnswered ==
    ASSUME NEW rs, NEW n, NEW q, NEW S, AnswersInv(rs, n, q.packets, answers, S), NEW id, NEW a, Emit(To(id, a), q),
           NotSearch(rs, id)
    PROVE  AnswersInv(rs, n, m_requestPacketMap', answers', S)
<1>1. DOMAIN To(id, a) = {id}
  BY DEF To
<1>2. \A x \in DOMAIN To(id, a) \cap q.packets : answers[x] = <<>> /\ x \notin S
  BY <1>1, Answerable
<1> QED  BY <1>2, EmitAnswers

-----------------------------------------------------------------------------
\* Stacks of loops.
LEMMA Pushed ==
    ASSUME NEW rs, NEW L, LoopsInv(rs, L), NEW f, FrameShape(f), Fit(rs, f.id, f.dev)
    PROVE  /\ LoopsInv(rs, Append(L, f))
           /\ Len(Append(L, f)) = Len(L) + 1 /\ Append(L, f)[Len(L) + 1] = f
           /\ \A n \in 1..Len(L) : Append(L, f)[n] = L[n]
<1> DEFINE T == {L[n] : n \in 1..Len(L)} \cup {f}
           G == Append(L, f)
<1>1. L \in Seq(T) /\ f \in T /\ Len(L) \in Nat
  BY DEF LoopsInv
<1>2. G \in Seq(T)
  BY <1>1
<1>3. Len(G) = Len(L) + 1 /\ G[Len(L) + 1] = f /\ \A n \in 1..Len(L) : G[n] = L[n]
  BY <1>1
<1> HIDE DEF G
<1>4. Len(G) \in Nat /\ G = [n \in 1..Len(G) |-> G[n]]
  BY <1>2
<1>5. ASSUME NEW n \in 1..Len(G) PROVE FrameShape(G[n]) /\ Fit(rs, G[n].id, G[n].dev)
  <2>1. n \in 1..Len(L) \/ n = Len(L) + 1
    BY <1>1, <1>3
  <2> QED  BY <1>3, <2>1 DEF LoopsInv
<1>6. LoopsInv(rs, G)
  BY <1>4, <1>5 DEF LoopsInv
<1> QED  BY <1>3, <1>6 DEF G

\* The innermost event loop is gone.
LEMMA Popped ==
    ASSUME NEW rs, NEW L, LoopsInv(rs, L), L # <<>>
    PROVE  /\ LoopsInv(rs, Front(L)) /\ Last(L) = L[Len(L)]
           /\ Len(L) \in Nat \ {0} /\ Len(Front(L)) = Len(L) - 1
           /\ \A n \in 1..Len(L) - 1 : Front(L)[n] = L[n]
<1> DEFINE T == {L[n] : n \in 1..Len(L)}
           G == Front(L)
<1>1. L \in Seq(T) /\ Len(L) \in Nat
  BY DEF LoopsInv
<1>2. Len(L) # 0
  BY <1>1, EmptySeq
<1>a. G = [n \in 1..Len(L) - 1 |-> L[n]]
  BY <1>1, <1>2 DEF Front
<1> HIDE DEF G
<1>3. G \in Seq(T) /\ Len(G) = Len(L) - 1 /\ \A n \in 1..Len(L) - 1 : G[n] = L[n]
  BY <1>1, <1>2, <1>a
<1>4. Len(G) \in Nat /\ G = [n \in 1..Len(G) |-> G[n]]
  BY <1>3
<1>5. \A n \in 1..Len(G) : FrameShape(G[n]) /\ Fit(rs, G[n].id, G[n].dev)
  BY <1>1, <1>2, <1>3 DEF LoopsInv
<1>6. LoopsInv(rs, G)
  BY <1>4, <1>5 DEF LoopsInv
<1>7. Last(L) = L[Len(L)]
  BY DEF Last
<1> QED  BY <1>1, <1>2, <1>3, <1>6, <1>7 DEF G

-----------------------------------------------------------------------------
\* The same after a step.
QueuesThen(rs, n, S) == QueuesInv(rs, n, Queues', answers', S, m_eventloopMap')

\* The parts of the invariant over the queues, put together.
LEMMA Together ==
    ASSUME NEW rs, NEW n, NEW S, AnswersInv(rs, n, m_requestPacketMap', answers', S), RepliesInv(rs, replies'),
           JobsInv(rs, jobs'), LoopsInv(rs, loops'), LiveInv(loops', m_eventloopMap')
    PROVE  QueuesThen(rs, n, S)
BY DEF QueuesThen, QueuesInv, Queues

\* Something leaves the queues as they are.
LEMMA LeftKeeps ==
    ASSUME NEW rs, NEW n, NEW q, NEW S, QueuesInv(rs, n, q, answers, S, m_eventloopMap),
           AnswersInv(rs, n, m_requestPacketMap', answers', S), Left(q), m_eventloopMap' = m_eventloopMap
    PROVE  QueuesThen(rs, n, S)
BY Together DEF QueuesInv, Left

\* A request that ends.
LEMMA EndsKeeps ==
    ASSUME NEW rs, NEW n, NEW q, NEW S, QueuesInv(rs, n, q, answers, S, m_eventloopMap),
           NEW id, NotSearch(rs, id), NEW a, Ends(id, a, q)
    PROVE  QueuesThen(rs, n, S)
<1>1. AnswersInv(rs, n, m_requestPacketMap', answers', S)
  BY OneAnswered DEF Ends, QueuesInv
<1> QED  BY <1>1, LeftKeeps DEF Ends

\* A request that is forgotten.
LEMMA ForgetsKeeps ==
    ASSUME NEW rs, NEW n, NEW q, NEW S, QueuesInv(rs, n, q, answers, S, m_eventloopMap), NEW id, Forgets(id, q)
    PROVE  QueuesThen(rs, n, S)
<1>1. AnswersInv(rs, n, m_requestPacketMap', answers', S)
  BY NoAnswers DEF Forgets, QueuesInv
<1> QED  BY <1>1, LeftKeeps DEF Forgets

\* A request that goes on waiting.
LEMMA WaitsKeeps ==
    ASSUME NEW rs, NEW n, NEW q, NEW S, QueuesInv(rs, n, q, answers, S, m_eventloopMap), Waits(q)
    PROVE  QueuesThen(rs, n, S)
<1>1. AnswersInv(rs, n, m_requestPacketMap', answers', S)
  BY NoAnswers DEF Waits, QueuesInv
<1> QED  BY <1>1, LeftKeeps DEF Waits

\* One more HTTP request, one more file task, one more loop.
LEMMA OneMoreReply ==
    ASSUME NEW rs, NEW R, RepliesInv(rs, R), NEW id, NEW d, Fit(rs, id, d), NEW k, NEW act, NEW doc
    PROVE  RepliesInv(rs, R \cup {HttpRequest(id, d, k, act, doc)})
BY DEF RepliesInv, HttpRequest

\* A task more for the pool.
LEMMA OneMoreJob ==
    ASSUME NEW rs, NEW J, JobsInv(rs, J), NEW id, NEW d, Fit(rs, id, d), NEW k
    PROVE  JobsInv(rs, J \cup {Job(FileTask(id, d, k))})
<1>1. JobShape(Job(FileTask(id, d, k))) /\ Job(FileTask(id, d, k)).task.id = id /\ Job(FileTask(id, d, k)).task.obj[1] = d
  BY DEF Job, FileTask, JobShape
<1> QED  BY <1>1 DEF JobsInv

\* A frame has the fields of one.
LEMMA FrameOf ==
    ASSUME NEW id, NEW d, NEW k, NEW kind
    PROVE  /\ FrameShape(Frame(id, d, k, kind)) /\ Frame(id, d, k, kind).id = id /\ Frame(id, d, k, kind).dev = d
           /\ kind = "loop" => Live(Frame(id, d, k, kind), id)
BY DEF Frame, FrameShape, Live

\* An event loop more.
LEMMA OneMoreLoop ==
    ASSUME NEW rs, NEW L, LoopsInv(rs, L), NEW f, FrameShape(f), Fit(rs, f.id, f.dev), NEW M, LiveInv(L, M)
    PROVE  LiveInv(Append(L, f), M) /\ (Live(f, f.id) => LiveInv(Append(L, f), M \cup {f.id}))
<1> DEFINE G == Append(L, f)
<1>1. /\ Len(L) \in Nat /\ Len(G) = Len(L) + 1 /\ G[Len(L) + 1] = f
      /\ \A n \in 1..Len(L) : G[n] = L[n]
  BY Pushed DEF LoopsInv
<1> HIDE DEF G
<1>2. LiveInv(G, M)
  BY <1>1 DEF LiveInv
<1>3. Live(f, f.id) => \E n \in 1..Len(G) : Live(G[n], f.id)
  BY <1>1
<1>4. Live(f, f.id) => LiveInv(G, M \cup {f.id})
  BY <1>2, <1>3 DEF LiveInv
<1> QED  BY <1>2, <1>4 DEF G

\* A file task goes to the pool.
LEMMA OpenKeeps ==
    ASSUME NEW rs, NEW n, NEW q, NEW S, QueuesInv(rs, n, q, answers, S, m_eventloopMap),
           NEW id, NEW d, Fit(rs, id, d), NEW k, Open(id, d, k, q)
    PROVE  QueuesThen(rs, n, S)
<1>1. AnswersInv(rs, n, m_requestPacketMap', answers', S)
  BY NoAnswers DEF Open, QueuesInv
<1>2. /\ jobs' = q.jobs \cup {Job(FileTask(id, d, k))} /\ replies' = q.replies /\ loops' = q.loops
      /\ m_eventloopMap' = m_eventloopMap
  BY DEF Open, Left, QueuesInv
<1>3. JobsInv(rs, jobs')
  BY <1>2, OneMoreJob DEF QueuesInv
<1> QED  BY <1>1, <1>2, <1>3, Together DEF QueuesInv

\* The same, and the handler waits for it.
LEMMA AwaitFileKeeps ==
    ASSUME NEW rs, NEW n, NEW q, NEW S, QueuesInv(rs, n, q, answers, S, m_eventloopMap),
           NEW id, NEW d, Fit(rs, id, d), NEW k, AwaitFile(id, d, k, q)
    PROVE  QueuesThen(rs, n, S)
<1>1. AnswersInv(rs, n, m_requestPacketMap', answers', S)
  BY NoAnswers DEF AwaitFile, QueuesInv
<1>2. /\ jobs' = q.jobs \cup {Job(FileTask(id, d, k))} /\ replies' = q.replies
      /\ loops' = Append(q.loops, Frame(id, d, k, "await"))
      /\ m_eventloopMap' = m_eventloopMap
  BY DEF AwaitFile, Left, QueuesInv
<1>3. JobsInv(rs, jobs')
  BY <1>2, OneMoreJob DEF QueuesInv
<1>4. LoopsInv(rs, loops') /\ LiveInv(loops', m_eventloopMap')
  <2>1. PICK f : f = Frame(id, d, k, "await")
    OBVIOUS
  <2>2. FrameShape(f) /\ f.id = id /\ f.dev = d
    BY <2>1, FrameOf
  <2> QED  BY <1>2, <2>1, <2>2, Pushed, OneMoreLoop DEF QueuesInv
<1> QED  BY <1>1, <1>2, <1>3, <1>4, Together DEF QueuesInv

\* An event loop is entered, and a reply can end it.
LEMMA EnterLoopKeeps ==
    ASSUME NEW rs, NEW n, NEW q, NEW S, QueuesInv(rs, n, q, answers, S, m_eventloopMap),
           NEW id, NEW d, Fit(rs, id, d), NEW k, EnterLoop(id, d, k, q)
    PROVE  QueuesThen(rs, n, S)
<1>1. AnswersInv(rs, n, m_requestPacketMap', answers', S)
  BY NoAnswers DEF EnterLoop, QueuesInv
<1>2. /\ jobs' = q.jobs /\ replies' = q.replies \cup {HttpRequest(id, d, k, "ask", <<>>)}
      /\ loops' = Append(q.loops, Frame(id, d, k, "loop"))
      /\ m_eventloopMap' = m_eventloopMap \cup {id}
  BY DEF EnterLoop, Left, QueuesInv
<1>3. RepliesInv(rs, replies')
  BY <1>2, OneMoreReply DEF QueuesInv
<1>4. LoopsInv(rs, loops') /\ LiveInv(loops', m_eventloopMap')
  <2>1. PICK f : f = Frame(id, d, k, "loop")
    OBVIOUS
  <2>2. FrameShape(f) /\ f.id = id /\ f.dev = d /\ Live(f, f.id)
    BY <2>1, FrameOf
  <2> QED  BY <1>2, <2>1, <2>2, Pushed, OneMoreLoop DEF QueuesInv
<1> QED  BY <1>1, <1>2, <1>3, <1>4, Together DEF QueuesInv

\* A request goes to the controller.
LEMMA SendKeeps ==
    ASSUME NEW rs, NEW n, NEW q, NEW S, QueuesInv(rs, n, q, answers, S, m_eventloopMap),
           NEW id, NEW d, Fit(rs, id, d), NEW k, NEW act, NEW doc, Send(id, d, k, act, doc, q)
    PROVE  QueuesThen(rs, n, S)
<1>1. Emit(To(id, Good(<<>>)), q) \/ Emit(<<>>, q)
  BY DEF Send
<1>2. AnswersInv(rs, n, m_requestPacketMap', answers', S)
  BY <1>1, NoAnswers, OneAnswered DEF QueuesInv, Fit
<1>3. /\ replies' = q.replies \cup {HttpRequest(id, d, k, act, doc)} /\ jobs' = q.jobs /\ loops' = q.loops
      /\ m_eventloopMap' = m_eventloopMap
  BY DEF Send, Left, QueuesInv
<1>4. RepliesInv(rs, replies')
  BY <1>3, OneMoreReply DEF QueuesInv
<1> QED  BY <1>2, <1>3, <1>4, Together DEF QueuesInv

\* Step k of a request begins, over HTTP or with a file.
LEMMA BeginsKeeps ==
    ASSUME NEW rs, NEW n, NEW q, NEW S, QueuesInv(rs, n, q, answers, S, m_eventloopMap),
           NEW id, NEW d, Fit(rs, id, d), NEW k, Begins(id, d, k, q)
    PROVE  QueuesThen(rs, n, S)
<1>1. \/ \E act, doc : Send(id, d, k, act, doc, q)
      \/ Open(id, d, k, q) \/ EnterLoop(id, d, k, q) \/ AwaitFile(id, d, k, q)
      \/ \E a : Ends(id, a, q)
      \/ Forgets(id, q)
  BY DEF Begins
<1> QED  BY <1>1, SendKeeps, OpenKeeps, EnterLoopKeeps, AwaitFileKeeps, EndsKeeps, ForgetsKeeps DEF Fit

\* The same, past a step that only looks at the parameters.
LEMMA GoesKeeps ==
    ASSUME NEW rs, NEW n, NEW q, NEW S, QueuesInv(rs, n, q, answers, S, m_eventloopMap),
           NEW id, NEW d, Fit(rs, id, d), NEW k, Goes(id, d, k, q)
    PROVE  QueuesThen(rs, n, S)
BY BeginsKeeps, EndsKeeps DEF Goes, Fit

\* What follows when step k has ended.
LEMMA GoesOnKeeps ==
    ASSUME NEW rs, NEW n, NEW q, NEW S, QueuesInv(rs, n, q, answers, S, m_eventloopMap),
           NEW id, NEW d, Fit(rs, id, d), NEW k, NEW ok, NEW doc, GoesOn(id, d, k, ok, doc, q)
    PROVE  QueuesThen(rs, n, S)
BY GoesKeeps, EndsKeeps DEF GoesOn, Fit

-----------------------------------------------------------------------------
\* Devices and their debuggers.
DeviceInv(rs, e) == DeviceShape(e) /\ MobShape(e.mob) /\ NotSearch(rs, e.mob.m_handlingId)

\* One device changes.
LEMMA OneDevice ==
    ASSUME NEW rs, NEW D, DevicesInv(rs, D), NEW d, NEW e, d \in {0} \cup Ids => DeviceInv(rs, e)
    PROVE  DevicesInv(rs, [D EXCEPT ![d] = e])
<1> DEFINE E == [D EXCEPT ![d] = e]
<1>1. DOMAIN D = {0} \cup Ids
  BY DEF DevicesInv
<1>2. /\ E = [x \in {0} \cup Ids |-> E[x]]
      /\ \A x \in {0} \cup Ids : E[x] = IF x = d THEN e ELSE D[x]
  BY <1>1
<1> HIDE DEF E
<1>3. \A x \in {0} \cup Ids : DeviceShape(E[x]) /\ MobShape(E[x].mob) /\ NotSearch(rs, E[x].mob.m_handlingId)
  BY <1>2 DEF DevicesInv, DeviceInv
<1>4. DevicesInv(rs, E)
  BY <1>2, <1>3 DEF DevicesInv
<1> QED  BY <1>4 DEF E

\* The steps of the debugger.
LEMMA MobSteps ==
    ASSUME NEW m, MobShape(m)
    PROVE  /\ \A id, ok : MobShape(Started(m, id, ok)) /\ Started(m, id, ok).m_handlingId = id
           /\ \A cmd, id : MobShape(Written(m, cmd, id)) /\ Written(m, cmd, id).m_handlingId = id
           /\ MobShape(Exited(m)) /\ Exited(m).m_handlingId = m.m_handlingId
           /\ \A event \in MobEvents : MobShape(After(m, event)) /\ After(m, event).m_handlingId = m.m_handlingId
<1>1. \A id, ok : MobShape(Started(m, id, ok)) /\ Started(m, id, ok).m_handlingId = id
  BY DEF MobShape, Started
<1>2. \A cmd, id : MobShape(Written(m, cmd, id)) /\ Written(m, cmd, id).m_handlingId = id
  BY DEF MobShape, Written
<1>3. MobShape(Exited(m)) /\ Exited(m).m_handlingId = m.m_handlingId
  BY DEF MobShape, Exited, Killed
<1>4. ASSUME NEW event \in MobEvents
      PROVE  MobShape(After(m, event)) /\ After(m, event).m_handlingId = m.m_handlingId
  BY DEF MobShape, After, Killed, MobEvents
<1> QED  BY <1>1, <1>2, <1>3, <1>4

-----------------------------------------------------------------------------
\* The inductive invariant, step by step.
LEMMA CalmStep ==
    ASSUME IndustrialInv, scenario' = scenario, arrived' = arrived, m_reqSearchPacket' = m_reqSearchPacket,
           QueuesThen(reqs, arrived, m_reqSearchPacket), DevicesInv(reqs, device'), MapInv(m_mapDevices')
    PROVE  IndustrialInv'
<1>1. reqs' = reqs
  BY DEF reqs
<1> QED  BY <1>1 DEF IndustrialInv, QueuesThen

\* Map and devices stay.
LEMMA SameStep ==
    ASSUME IndustrialInv, UNCHANGED <<scenario, arrived, m_reqSearchPacket, device, m_mapDevices>>,
           QueuesThen(reqs, arrived, m_reqSearchPacket)
    PROVE  IndustrialInv'
BY CalmStep DEF IndustrialInv

\* The program dies.
LEMMA CrashInv == ASSUME IndustrialInv, Crash PROVE IndustrialInv'
<1>1. QueuesThen(reqs, arrived, m_reqSearchPacket)
  BY DEF Crash, runVars, IndustrialInv, QueuesThen, Queues
<1> QED  BY <1>1, SameStep DEF Crash, calmVars

\* The parts of the invariant.
LEMMA QueueParts ==
    ASSUME IndustrialInv
    PROVE  /\ AnswersInv(reqs, arrived, Queues.packets, answers, m_reqSearchPacket)
           /\ AnswersInv(reqs, arrived, m_requestPacketMap, answers, m_reqSearchPacket)
           /\ LoopsInv(reqs, loops) /\ LiveInv(loops, m_eventloopMap)
           /\ RepliesInv(reqs, replies) /\ JobsInv(reqs, jobs)
           /\ DevicesInv(reqs, device) /\ MapInv(m_mapDevices)
BY DEF IndustrialInv, QueuesInv, Queues

\* A reply that is handled is taken out.
LEMMA WithoutInv ==
    ASSUME IndustrialInv, NEW r \in replies
    PROVE  /\ QueuesInv(reqs, arrived, Without(r), answers, m_reqSearchPacket, m_eventloopMap)
           /\ Fit(reqs, r.id, r.dev)
<1>1. /\ Without(r).packets = m_requestPacketMap /\ Without(r).replies = replies \ {r}
      /\ Without(r).jobs = jobs /\ Without(r).loops = loops
      /\ Without(r) = [packets |-> Without(r).packets, replies |-> Without(r).replies, jobs |-> Without(r).jobs,
                       loops |-> Without(r).loops]
  BY DEF Without, Queues
<1>2. RepliesInv(reqs, replies)
  BY DEF IndustrialInv, QueuesInv, Queues
<1>3. RepliesInv(reqs, replies \ {r}) /\ Fit(reqs, r.id, r.dev)
  BY <1>2 DEF RepliesInv
<1> QED  BY <1>1, <1>3 DEF IndustrialInv, QueuesInv, Queues

\* An HTTP reply: good, garbled or an error.
LEMMA HttpInv ==
    ASSUME IndustrialInv, NEW r \in replies, HttpOk(r) \/ HttpGarbled(r) \/ HttpError(r), UNCHANGED calmVars
    PROVE  IndustrialInv'
<1>1. \E k, ok, doc : GoesOn(r.id, r.dev, k, ok, doc, Without(r))
  BY DEF HttpOk, HttpGarbled, HttpError
<1>2. QueuesThen(reqs, arrived, m_reqSearchPacket)
  BY <1>1, WithoutInv, GoesOnKeeps
<1>m. m_mapDevices' = m_mapDevices
  BY DEF HttpOk, HttpGarbled, HttpError
<1>3. device' = device \/ \E v : device' = [device EXCEPT ![r.dev].tries = v]
  BY DEF HttpOk, HttpGarbled, HttpError, Unpolled
<1>4. DevicesInv(reqs, device')
  <2>1. DevicesInv(reqs, device)
    BY DEF IndustrialInv
  <2> QED  BY ONLY <1>3, <2>1 DEF DevicesInv, DeviceShape
<1> QED  BY <1>2, <1>4, <1>m, CalmStep DEF calmVars, IndustrialInv

\* Fewer jobs, and answers to requests that do not ask for a search.
LEMMA GivesUpInv ==
    ASSUME IndustrialInv, NEW r \in replies, HttpGivesUp(r), UNCHANGED calmVars
    PROVE  IndustrialInv'
<1>1. AnswersInv(reqs, arrived, m_requestPacketMap', answers', m_reqSearchPacket)
  BY WithoutInv, OneAnswered DEF HttpGivesUp, IndustrialInv, QueuesInv, Fit
<1>2. /\ replies' = replies \ {r} /\ jobs' \subseteq jobs /\ loops' = loops /\ m_eventloopMap' = m_eventloopMap
  BY DEF HttpGivesUp, Left, Without, Queues
<1>3. QueuesThen(reqs, arrived, m_reqSearchPacket)
  BY <1>1, <1>2, Together DEF IndustrialInv, QueuesInv, Queues, RepliesInv, JobsInv
<1>4. device' = [device EXCEPT ![r.dev].tries = 0, ![r.dev].m_isConnected = FALSE] /\ DevicesInv(reqs, device)
  BY DEF HttpGivesUp, IndustrialInv
<1>5. DevicesInv(reqs, device')
  BY ONLY <1>4 DEF DevicesInv, DeviceShape
<1> QED  BY <1>3, <1>5, CalmStep DEF calmVars, IndustrialInv, HttpGivesUp

\* The controller answers the connection.
LEMMA ConnectedInv ==
    ASSUME IndustrialInv, NEW r \in replies, Connected(r), UNCHANGED calmVars
    PROVE  IndustrialInv'
<1>1. QueuesThen(reqs, arrived, m_reqSearchPacket)
  BY WithoutInv, EndsKeeps DEF Connected, Fit
<1>2. /\ device' = [device EXCEPT ![r.dev].m_isConnected = TRUE, ![r.dev].control = Control(device[r.dev].portName)]
      /\ DevicesInv(reqs, device)
  BY DEF Connected, IndustrialInv
<1>3. DevicesInv(reqs, device')
  BY ONLY <1>2 DEF DevicesInv, DeviceShape
<1>4. MapInv(m_mapDevices')
  BY WithoutInv DEF Connected, IndustrialInv, MapInv, Fit
<1> QED  BY <1>1, <1>3, <1>4, CalmStep DEF calmVars

\* Devices are deleted, and what is under way for them.
LEMMA DeletesKeeps ==
    ASSUME IndustrialInv, NEW n, NEW S, AnswersInv(reqs, n, m_requestPacketMap', answers', S), NEW D, Deletes(D)
    PROVE  QueuesThen(reqs, n, S) /\ DevicesInv(reqs, device')
<1>1. replies' \subseteq replies /\ jobs' \subseteq jobs /\ loops' = loops /\ m_eventloopMap' = m_eventloopMap
  BY DEF Deletes
<1>2. QueuesThen(reqs, n, S)
  BY <1>1, Together DEF IndustrialInv, QueuesInv, Queues, RepliesInv, JobsInv
<1>3. DevicesInv(reqs, device')
  BY DEF Deletes, IndustrialInv, DevicesInv, DeviceShape
<1> QED  BY <1>2, <1>3

\* It does not.
LEMMA NotConnectedInv ==
    ASSUME IndustrialInv, NEW r \in replies, NotConnected(r), UNCHANGED calmVars
    PROVE  IndustrialInv'
<1>1. AnswersInv(reqs, arrived, m_requestPacketMap', answers', m_reqSearchPacket)
  BY WithoutInv, OneAnswered DEF NotConnected, IndustrialInv, QueuesInv, Fit
<1> QED  BY <1>1, DeletesKeeps, CalmStep DEF NotConnected, calmVars, IndustrialInv

\* The reply to a request of the debugger.
LEMMA DebuggedInv ==
    ASSUME IndustrialInv, NEW r \in replies, Debugged(r), UNCHANGED calmVars
    PROVE  IndustrialInv'
<1> DEFINE m == device[r.dev].mob
           both == [x \in {r.id, KilledReport(m)} |-> IF x = r.id THEN Good(<<>>) ELSE Failed]
<1>1. \/ \E a : Emit(To(r.id, a), Queues) /\ UNCHANGED device
      \/ Emit(<<>>, Queues) /\ UNCHANGED device
      \/ Emit(both, Queues) /\ device' = [device EXCEPT ![r.dev].mob = Exited(m)]
  BY DEF Debugged
<1>2. Fit(reqs, r.id, r.dev)
  BY WithoutInv
<1>3. /\ m_mapDevices' = m_mapDevices
      /\ replies' = replies \ {r} /\ jobs' = jobs /\ loops' = loops /\ m_eventloopMap' = m_eventloopMap
  BY DEF Debugged, Left, Without, Queues
<1>4. DeviceShape(device[r.dev]) /\ MobShape(m) /\ NotSearch(reqs, m.m_handlingId)
  BY <1>2 DEF Fit, IndustrialInv, DevicesInv
<1>5. DevicesInv(reqs, device')
  <2>1. MobShape(Exited(m)) /\ Exited(m).m_handlingId = m.m_handlingId
    BY <1>4, MobSteps
  <2>2. DevicesInv(reqs, device)
    BY DEF IndustrialInv
  <2>3. DevicesInv(reqs, [device EXCEPT ![r.dev].mob = Exited(m)])
    BY ONLY <1>4, <2>1, <2>2 DEF DevicesInv, DeviceShape
  <2> QED  BY <1>1, <2>2, <2>3
<1>6. AnswersInv(reqs, arrived, Queues.packets, answers, m_reqSearchPacket)
  BY DEF IndustrialInv, QueuesInv
<1>7. AnswersInv(reqs, arrived, m_requestPacketMap', answers', m_reqSearchPacket)
  <2>1. CASE Emit(both, Queues)
    <3>1. NotSearch(reqs, KilledReport(m))
      BY <1>4, IdsAreNumbers DEF KilledReport, NotSearch
    <3>2. \A x \in DOMAIN both \cap Queues.packets : answers[x] = <<>> /\ x \notin m_reqSearchPacket
      BY <1>2, <1>6, <3>1, Answerable DEF Fit
    <3> QED  BY <2>1, <3>2, <1>6, EmitAnswers
  <2> QED  BY <1>1, <1>2, <1>6, <2>1, NoAnswers, OneAnswered DEF Fit
<1>8. QueuesThen(reqs, arrived, m_reqSearchPacket)
  BY <1>3, <1>7, Together DEF IndustrialInv, QueuesInv, Queues, RepliesInv
<1> QED  BY <1>3, <1>5, <1>8, CalmStep DEF IndustrialInv, calmVars

\* Frames of the stack are changed, but not what they belong to.
LEMMA Retold ==
    ASSUME IndustrialInv, loops' = [n \in 1..Len(loops) |-> loops'[n]],
           \A n \in 1..Len(loops) : FrameShape(loops'[n]) /\ loops'[n].id = loops[n].id /\ loops'[n].dev = loops[n].dev,
           m_eventloopMap' \subseteq m_eventloopMap,
           \A n \in 1..Len(loops), id \in m_eventloopMap' : Live(loops[n], id) => Live(loops'[n], id)
    PROVE  LoopsInv(reqs, loops') /\ LiveInv(loops', m_eventloopMap')
<1>0. LoopsInv(reqs, loops) /\ LiveInv(loops, m_eventloopMap)
  BY QueueParts
<1>1. Len(loops) \in Nat /\ Len(loops') = Len(loops)
  BY <1>0 DEF LoopsInv
<1>2. loops' = [n \in 1..Len(loops') |-> loops'[n]]
  BY <1>1
<1>3. \A n \in 1..Len(loops') : FrameShape(loops'[n]) /\ Fit(reqs, loops'[n].id, loops'[n].dev)
  BY <1>0, <1>1 DEF LoopsInv
<1>4. LoopsInv(reqs, loops')
  BY <1>1, <1>2, <1>3 DEF LoopsInv
<1>5. LiveInv(loops', m_eventloopMap')
  BY <1>0, <1>1 DEF LiveInv
<1> QED  BY <1>4, <1>5

\* The reply that a handler asked for inside its event loop.
LEMMA AskedInv ==
    ASSUME IndustrialInv, NEW r \in replies, Asked(r), UNCHANGED calmVars
    PROVE  IndustrialInv'
<1>1. /\ AnswersInv(reqs, arrived, Queues.packets, answers, m_reqSearchPacket)
      /\ LoopsInv(reqs, loops) /\ LiveInv(loops, m_eventloopMap)
      /\ RepliesInv(reqs, replies) /\ JobsInv(reqs, jobs)
  BY DEF IndustrialInv, QueuesInv, Queues
<1>2. AnswersInv(reqs, arrived, m_requestPacketMap', answers', m_reqSearchPacket)
  BY <1>1, WithoutInv, OneAnswered, NoAnswers DEF Asked, Fit
<1>3. replies' = replies \ {r} /\ jobs' = jobs
  BY DEF Asked, Left, Without, Queues
<1>4. LoopsInv(reqs, loops') /\ LiveInv(loops', m_eventloopMap')
  <2>1. CASE loops' = loops /\ m_eventloopMap' = m_eventloopMap
    BY <2>1, <1>1
  <2>2. CASE /\ m_eventloopMap' = m_eventloopMap \ {r.id}
             /\ loops' = [n \in DOMAIN loops |->
                    IF loops[n].kind = "loop" /\ loops[n].id = r.id /\ r.id \in m_eventloopMap
                    THEN [loops[n] EXCEPT !.quit = TRUE, !.doc = Document(device[r.dev].portName, "/protocol/exchange")]
                    ELSE loops[n]]
    <3>1. DOMAIN loops = 1..Len(loops) /\ Len(loops) \in Nat
      BY <1>1 DEF LoopsInv
    <3>2. loops' = [n \in 1..Len(loops) |-> loops'[n]]
      BY <2>2, <3>1
    <3>3. ASSUME NEW n \in 1..Len(loops)
          PROVE  /\ FrameShape(loops'[n]) /\ loops'[n].id = loops[n].id /\ loops'[n].dev = loops[n].dev
                 /\ loops[n].id # r.id => loops'[n] = loops[n]
      <4>1. FrameShape(loops[n])
        BY <1>1 DEF LoopsInv
      <4> QED  BY <2>2, <3>1, <4>1 DEF FrameShape
    <3>4. \A n \in 1..Len(loops), id \in m_eventloopMap' : Live(loops[n], id) => Live(loops'[n], id)
      BY <2>2, <3>3 DEF Live
    <3> QED  BY <2>2, <3>2, <3>3, <3>4, Retold
  <2>3. (loops' = loops /\ m_eventloopMap' = m_eventloopMap) \/
        (/\ m_eventloopMap' = m_eventloopMap \ {r.id}
         /\ loops' = [n \in DOMAIN loops |->
                    IF loops[n].kind = "loop" /\ loops[n].id = r.id /\ r.id \in m_eventloopMap
                    THEN [loops[n] EXCEPT !.quit = TRUE, !.doc = Document(device[r.dev].portName, "/protocol/exchange")]
                    ELSE loops[n]])
    BY DEF Asked, Left, Without, Queues
  <2> QED  BY <2>1, <2>2, <2>3
<1>5. RepliesInv(reqs, replies')
  BY <1>1, <1>3 DEF RepliesInv
<1>6. QueuesThen(reqs, arrived, m_reqSearchPacket)
  BY <1>1, <1>2, <1>3, <1>4, <1>5, Together
<1> QED  BY <1>6, SameStep DEF calmVars, Asked

\* pCheckSamba and pOpenSamba.
LEMMA SambaInv ==
    ASSUME IndustrialInv, NEW r \in replies, SambaChecked(r), UNCHANGED calmVars
    PROVE  IndustrialInv'
<1>1. QueuesThen(reqs, arrived, m_reqSearchPacket)
  BY WithoutInv, EndsKeeps, ForgetsKeeps DEF SambaChecked, Fit
<1> QED  BY <1>1, SameStep DEF SambaChecked, calmVars

\* An HTTP request ends.
LEMMA HttpEndsInv ==
    ASSUME IndustrialInv, NEW r \in replies, HttpEnds(r)
    PROVE  IndustrialInv'
BY HttpInv, GivesUpInv, ConnectedInv, NotConnectedInv, DebuggedInv, AskedInv, SambaInv DEF HttpEnds

-----------------------------------------------------------------------------
\* Loop n is told to quit and has failed.
LEMMA Failing ==
    ASSUME IndustrialInv, NEW n \in DOMAIN loops,
           loops' = [loops EXCEPT ![n].quit = TRUE, ![n].failed = TRUE],
           m_eventloopMap' \subseteq m_eventloopMap, loops[n].kind = "loop" => loops[n].id \notin m_eventloopMap'
    PROVE  LoopsInv(reqs, loops') /\ LiveInv(loops', m_eventloopMap')
<1>1. LoopsInv(reqs, loops) /\ LiveInv(loops, m_eventloopMap)
  BY QueueParts
<1>2. DOMAIN loops = 1..Len(loops) /\ Len(loops) \in Nat
  BY <1>1 DEF LoopsInv
<1>3. loops' = [m \in 1..Len(loops) |-> loops'[m]]
  BY <1>2
<1>4. ASSUME NEW m \in 1..Len(loops)
      PROVE  /\ FrameShape(loops'[m]) /\ loops'[m].id = loops[m].id /\ loops'[m].dev = loops[m].dev
             /\ m # n => loops'[m] = loops[m]
  <2>1. FrameShape(loops[m])
    BY <1>1 DEF LoopsInv
  <2> QED  BY ONLY <1>2, <2>1, loops' = [loops EXCEPT ![n].quit = TRUE, ![n].failed = TRUE], n \in DOMAIN loops,
                   m \in 1..Len(loops) DEF FrameShape
<1>5. \A m \in 1..Len(loops), id \in m_eventloopMap' : Live(loops[m], id) => Live(loops'[m], id)
  BY <1>4 DEF Live
<1> QED  BY <1>3, <1>4, <1>5, Retold

\* An event loop gives up.
LEMMA LoopTimeoutInv ==
    ASSUME IndustrialInv, NEW n \in DOMAIN loops, LoopTimeout(n)
    PROVE  IndustrialInv'
<1>1. /\ loops' = [loops EXCEPT ![n].quit = TRUE, ![n].failed = TRUE]
      /\ replies' = replies /\ jobs' = jobs /\ m_eventloopMap' = m_eventloopMap \ {loops[n].id}
  BY DEF LoopTimeout, Left, Queues, Forgotten
<1>2. LoopsInv(reqs, loops') /\ LiveInv(loops', m_eventloopMap')
  BY <1>1, Failing
<1>3. Fit(reqs, loops[n].id, loops[n].dev)
  BY QueueParts DEF LoopsInv
<1>4. AnswersInv(reqs, arrived, m_requestPacketMap', answers', m_reqSearchPacket)
  BY <1>3, QueueParts, OneAnswered DEF LoopTimeout, Fit
<1>5. QueuesThen(reqs, arrived, m_reqSearchPacket)
  BY <1>1, <1>2, <1>4, QueueParts, Together
<1> QED  BY <1>5, SameStep DEF LoopTimeout, calmVars

\* So does the wait for a file.
LEMMA AwaitTimeoutInv ==
    ASSUME IndustrialInv, NEW n \in DOMAIN loops, AwaitTimeout(n)
    PROVE  IndustrialInv'
<1>1. /\ loops' = [loops EXCEPT ![n].quit = TRUE, ![n].failed = TRUE]
      /\ replies' = replies /\ jobs' = jobs /\ m_eventloopMap' = m_eventloopMap /\ loops[n].kind = "await"
      /\ m_requestPacketMap' = m_requestPacketMap /\ answers' = answers
  BY DEF AwaitTimeout, Left, Queues
<1>2. LoopsInv(reqs, loops') /\ LiveInv(loops', m_eventloopMap')
  BY <1>1, Failing
<1>5. QueuesThen(reqs, arrived, m_reqSearchPacket)
  BY <1>1, <1>2, QueueParts, Together
<1> QED  BY <1>5, SameStep DEF AwaitTimeout, calmVars

\* Only a loop that was told to quit is taken off the stack, and no live one was.
LEMMA UnwindInv ==
    ASSUME IndustrialInv, Unwind
    PROVE  IndustrialInv'
<1> DEFINE f == Last(loops)
           q == [Queues EXCEPT !.loops = Front(@)]
<1>1. loops # <<>> /\ f.quit
  BY DEF Unwind
<1>2. /\ LoopsInv(reqs, Front(loops)) /\ f = loops[Len(loops)]
      /\ Len(loops) \in Nat \ {0} /\ Len(Front(loops)) = Len(loops) - 1
      /\ \A n \in 1..Len(loops) - 1 : Front(loops)[n] = loops[n]
  BY <1>1, QueueParts, Popped
<1>3. LiveInv(Front(loops), m_eventloopMap)
  <2> SUFFICES ASSUME NEW id \in m_eventloopMap
               PROVE  \E n \in 1..Len(Front(loops)) : Live(Front(loops)[n], id)
    BY DEF LiveInv
  <2>1. PICK n \in 1..Len(loops) : Live(loops[n], id)
    BY QueueParts DEF LiveInv
  <2>2. n # Len(loops)
    BY <2>1, <1>1, <1>2 DEF Live
  <2> QED  BY <2>1, <2>2, <1>2
<1>4. QueuesInv(reqs, arrived, q, answers, m_reqSearchPacket, m_eventloopMap)
  BY <1>2, <1>3, QueueParts DEF QueuesInv, Queues
<1>5. Fit(reqs, f.id, f.dev)
  BY <1>2, QueueParts DEF LoopsInv
<1>6. \/ Waits(q)
      \/ \E doc : Send(f.id, f.dev, f.k, "post", doc, q)
      \/ GoesOn(f.id, f.dev, f.k, ~f.failed, <<>>, q)
  BY DEF Unwind
<1> HIDE DEF f, q
<1>7. QueuesThen(reqs, arrived, m_reqSearchPacket)
  BY <1>4, <1>5, <1>6, WaitsKeeps, SendKeeps, GoesOnKeeps
<1> QED  BY <1>7, SameStep DEF Unwind, mainVars

\* The pool's threads change no answer; the jobs stay those they were.
LEMMA ThreadsInv ==
    ASSUME IndustrialInv, NEW n, TaskBegins(n) \/ TaskEnds(n) \/ ThreadGoes(n) \/ Connect
    PROVE  IndustrialInv'
<1>1. /\ UNCHANGED <<scenario, arrived, m_reqSearchPacket, device, m_mapDevices>>
      /\ UNCHANGED <<m_requestPacketMap, answers, replies, loops, m_eventloopMap>>
  BY DEF TaskBegins, TaskEnds, ThreadGoes, Connect, mainVars, calmVars
<1>2. \A j \in jobs' : \E i \in jobs : j.task = i.task /\ JobShape(j)
  <2>1. JobsInv(reqs, jobs)
    BY QueueParts
  <2>2. CASE ThreadGoes(n) \/ Connect
    BY <2>1, <2>2 DEF ThreadGoes, Connect, JobsInv
  <2>3. CASE TaskBegins(n)
    BY <2>1, <2>3 DEF TaskBegins, JobsInv, JobShape
  <2>4. CASE TaskEnds(n)
    <3>1. PICK t, ok, doc : Delivered(t, ok, doc)
      BY <2>4 DEF TaskEnds
    <3> QED  BY <2>1, <3>1 DEF Delivered, JobsInv, JobShape
  <2> QED  BY <2>2, <2>3, <2>4
<1>3. JobsInv(reqs, jobs')
  BY <1>2, QueueParts DEF JobsInv
<1>4. QueuesThen(reqs, arrived, m_reqSearchPacket)
  BY <1>1, <1>3, QueueParts, Together
<1> QED  BY <1>1, <1>4, SameStep

\* The handler of a request is told how its task ended.
LEMMA HandlerToldKeeps ==
    ASSUME IndustrialInv, NEW j \in jobs, NEW ok, NEW doc, HandlerTold(j, ok, doc)
    PROVE  QueuesThen(reqs, arrived, m_reqSearchPacket)
<1> DEFINE q == [Queues EXCEPT !.jobs = @ \ {j}]
<1>1. JobsInv(reqs, jobs \ {j}) /\ Fit(reqs, j.task.id, j.task.obj[1])
  BY QueueParts DEF JobsInv
<1>2. QueuesInv(reqs, arrived, q, answers, m_reqSearchPacket, m_eventloopMap)
  BY <1>1, QueueParts DEF QueuesInv, Queues
<1>3. CASE \E good : GoesOn(j.task.id, j.task.obj[1], j.task.k, good, doc, q)
  BY <1>1, <1>2, <1>3, GoesOnKeeps
<1>4. CASE Waits([q EXCEPT !.loops = [n \in DOMAIN loops |->
                      IF loops[n].kind = "await" /\ loops[n].id = j.task.id /\ loops[n].k = j.task.k
                      THEN [loops[n] EXCEPT !.quit = TRUE, !.failed = ~ok] ELSE loops[n]]])
  <2>1. /\ loops' = [n \in DOMAIN loops |->
                      IF loops[n].kind = "await" /\ loops[n].id = j.task.id /\ loops[n].k = j.task.k
                      THEN [loops[n] EXCEPT !.quit = TRUE, !.failed = ~ok] ELSE loops[n]]
        /\ replies' = replies /\ jobs' = jobs \ {j} /\ m_eventloopMap' = m_eventloopMap
        /\ Emit(<<>>, Queues)
    BY <1>4 DEF Waits, Left, Queues, Emit
  <2>2. LoopsInv(reqs, loops)
    BY QueueParts
  <2>3. DOMAIN loops = 1..Len(loops) /\ Len(loops) \in Nat
    BY <2>2 DEF LoopsInv
  <2>4. loops' = [n \in 1..Len(loops) |-> loops'[n]]
    BY <2>1, <2>3
  <2>5. ASSUME NEW n \in 1..Len(loops)
        PROVE  /\ FrameShape(loops'[n]) /\ loops'[n].id = loops[n].id /\ loops'[n].dev = loops[n].dev
               /\ loops[n].kind # "await" => loops'[n] = loops[n]
    <3>1. FrameShape(loops[n])
      BY <2>2 DEF LoopsInv
    <3> QED  BY <2>1, <2>3, <3>1 DEF FrameShape
  <2>6. \A n \in 1..Len(loops), id \in m_eventloopMap' : Live(loops[n], id) => Live(loops'[n], id)
    BY <2>5 DEF Live
  <2>7. LoopsInv(reqs, loops') /\ LiveInv(loops', m_eventloopMap')
    BY <2>1, <2>4, <2>5, <2>6, Retold
  <2>8. AnswersInv(reqs, arrived, m_requestPacketMap', answers', m_reqSearchPacket)
    BY <2>1, QueueParts, NoAnswers
  <2> QED  BY <1>1, <2>1, <2>7, <2>8, QueueParts, Together
<1> QED  BY <1>3, <1>4 DEF HandlerTold

\* A file task is done, or given up.
LEMMA JobInv ==
    ASSUME IndustrialInv, NEW j \in jobs, JobDone(j) \/ JobTimeout(j)
    PROVE  IndustrialInv'
<1>1. \E ok, doc : HandlerTold(j, ok, doc)
  BY DEF JobDone, JobTimeout
<1>2. QueuesThen(reqs, arrived, m_reqSearchPacket)
  BY <1>1, HandlerToldKeeps
<1> QED  BY <1>2, SameStep DEF JobDone, JobTimeout, mainVars, calmVars

\* The search ends: who waits for it has no answer yet.
LEMMA ProbeInv ==
    ASSUME IndustrialInv, NEW p, Probe(p)
    PROVE  IndustrialInv'
<1>1. /\ UNCHANGED <<scenario, arrived, device, m_mapDevices>> /\ reqs' = reqs
      /\ UNCHANGED <<replies, jobs, loops, m_eventloopMap>>
  BY DEF Probe, reqs
<1>2. CASE UNCHANGED <<m_requestPacketMap, answers, m_reqSearchPacket>>
  <2>1. QueuesThen(reqs, arrived, m_reqSearchPacket)
    BY <1>1, <1>2, QueueParts, Together
  <2> QED  BY <1>1, <1>2, <2>1, SameStep
<1>3. CASE /\ m_requestPacketMap' \subseteq m_requestPacketMap
           /\ answers' = [id \in Ids |-> IF id \in Searched THEN Append(answers[id], Good(<<>>)) ELSE answers[id]]
           /\ m_reqSearchPacket' = {}
  <2>1. AnswersInv(reqs, arrived, m_requestPacketMap, answers, m_reqSearchPacket)
    BY QueueParts
  <2>2. answers' = [id \in Ids |-> answers'[id]]
    BY <1>3
  <2>3. ASSUME NEW id \in Ids
        PROVE  /\ answers'[id] = <<>> \/ answers'[id] = <<answers'[id][1]>>
               /\ id > arrived => answers'[id] = <<>>
               /\ answers'[id] # <<>> /\ reqs[id].api # "SearchDobot" => id \notin m_requestPacketMap'
    <3>1. CASE id \in m_reqSearchPacket
      <4>1. answers[id] = <<>> /\ reqs[id].api = "SearchDobot" /\ id \in 1..arrived /\ arrived \in Nat
        BY <2>1, <3>1 DEF AnswersInv
      <4>2. answers'[id] = <<Good(<<>>)>>
        BY <1>3, <3>1, <4>1, OneElement DEF Searched
      <4>3. answers'[id] = <<answers'[id][1]>>
        BY <4>2
      <4> QED  BY <4>1, <4>3
    <3>2. CASE id \notin m_reqSearchPacket
      <4>1. answers'[id] = answers[id]
        BY <1>3, <3>2 DEF Searched
      <4> QED  BY <4>1, <2>1, <1>3 DEF AnswersInv
    <3> QED  BY <3>1, <3>2
  <2>4. AnswersInv(reqs, arrived, m_requestPacketMap', answers', {})
    BY <2>1, <2>2, <2>3, <1>3 DEF AnswersInv
  <2>5. QueuesThen(reqs, arrived, {})
    BY <1>1, <2>4, QueueParts, Together
  <2> QED  BY <1>1, <1>3, <2>5, QueueParts DEF QueuesThen, IndustrialInv
<1>4. \/ UNCHANGED <<m_requestPacketMap, answers, m_reqSearchPacket>>
      \/ /\ m_requestPacketMap' \subseteq m_requestPacketMap
         /\ answers' = [id \in Ids |-> IF id \in Searched THEN Append(answers[id], Good(<<>>)) ELSE answers[id]]
         /\ m_reqSearchPacket' = {}
  BY DEF Probe
<1> QED  BY <1>2, <1>3, <1>4

\* The debugged program reports.
LEMMA MobEventInv ==
    ASSUME IndustrialInv, NEW d \in DOMAIN device, NEW event \in MobEvents, MobEvent(d, event)
    PROVE  IndustrialInv'
<1> DEFINE m == device[d].mob
           h == m.m_handlingId
<1>1. /\ d \in {0} \cup Ids
      /\ DevicesInv(reqs, device) /\ DeviceShape(device[d]) /\ MobShape(m) /\ NotSearch(reqs, h)
  BY QueueParts DEF DevicesInv
<1>2. MobShape(After(m, event)) /\ After(m, event).m_handlingId = h
  BY <1>1, MobSteps
<1>3. \E v, w : device' = [device EXCEPT ![d].mob = After(m, event), ![d].onListening = v, ![d].onSuspended = w]
  BY DEF MobEvent
<1>4. DevicesInv(reqs, device')
  <2>1. PICK v, w : device' = [device EXCEPT ![d].mob = After(m, event), ![d].onListening = v, ![d].onSuspended = w]
    BY <1>3
  <2>2. DOMAIN device' = DOMAIN device /\ \A e \in DOMAIN device \ {d} : device'[e] = device[e]
    BY <2>1
  <2>3. device'[d] = [[[device[d] EXCEPT !.mob = After(m, event)] EXCEPT !.onListening = v] EXCEPT !.onSuspended = w]
    BY <2>1
  <2>4. DeviceShape(device'[d]) /\ device'[d].mob = After(m, event)
    BY ONLY <1>1, <2>3 DEF DeviceShape
  <2>5. device' = [e \in {0} \cup Ids |-> device'[e]]
    BY <2>1, <1>1 DEF DevicesInv
  <2> QED  BY <1>1, <1>2, <2>2, <2>4, <2>5 DEF DevicesInv
<1>5. (\E a : Emit(To(h, a), Queues)) \/ Emit(<<>>, Queues)
  BY DEF MobEvent
<1>6. AnswersInv(reqs, arrived, m_requestPacketMap', answers', m_reqSearchPacket)
  BY <1>1, <1>5, QueueParts, OneAnswered, NoAnswers
<1>7. \A r \in replies' : r \in replies \/ (r.id = h /\ r.dev = d)
  BY DEF MobEvent, HttpRequest
<1>8. RepliesInv(reqs, replies')
  BY <1>1, <1>7, QueueParts DEF RepliesInv, Fit
<1>9. jobs' = jobs /\ loops' = loops /\ m_eventloopMap' = m_eventloopMap /\ m_mapDevices' = m_mapDevices
  BY DEF MobEvent
<1>10. QueuesThen(reqs, arrived, m_reqSearchPacket)
  BY <1>6, <1>8, <1>9, QueueParts, Together
<1> QED  BY <1>4, <1>9, <1>10, QueueParts, CalmStep DEF MobEvent, calmVars

\* A client closes its socket, or DobotLink exits.
LEMMA CloseInv ==
    ASSUME IndustrialInv, Exit \/ \E ws : CloseWebSocket(ws)
    PROVE  IndustrialInv'
<1>1. /\ UNCHANGED <<scenario, arrived, m_reqSearchPacket, m_requestPacketMap, answers>>
      /\ \E D : Deletes(D)
  BY DEF Exit, CloseWebSocket
<1>2. QueuesThen(reqs, arrived, m_reqSearchPacket) /\ DevicesInv(reqs, device')
  BY <1>1, QueueParts, DeletesKeeps
<1>3. MapInv(m_mapDevices')
  BY QueueParts DEF Exit, CloseWebSocket, MapInv
<1> QED  BY <1>1, <1>2, <1>3, CalmStep

-----------------------------------------------------------------------------
\* The next request: its number is new, and so is its packet.
Coming == [Queues EXCEPT !.packets = @ \cup {arrived + 1}]

\* The request that comes in is known to nobody yet.
LEMMA NextComes ==
    ASSUME IndustrialInv, arrived < Len(reqs)
    PROVE  /\ arrived \in Nat /\ arrived + 1 \in Ids /\ answers[arrived + 1] = <<>> /\ arrived + 1 \notin m_reqSearchPacket
           /\ QueuesInv(reqs, arrived + 1, Coming, answers, m_reqSearchPacket, m_eventloopMap)
           /\ reqs[arrived + 1].port \in ToSet(PortNames) \cup {""}
<1>1. AnswersInv(reqs, arrived, m_requestPacketMap, answers, m_reqSearchPacket)
  BY QueueParts
<1>2. arrived \in Nat
  BY <1>1 DEF AnswersInv
<1>3. Len(reqs) \in 0..MaxRequests /\ \A n \in 1..Len(reqs) : reqs[n].port \in ToSet(PortNames) \cup {""}
  <2>1. scenario \in Scenarios
    BY DEF IndustrialInv
  <2> QED  BY ONLY <2>1, IndustrialAssumption DEF reqs
<1>4. arrived + 1 \in 1..Len(reqs) /\ arrived + 1 <= MaxRequests /\ arrived + 1 \in Ids
  <2>1. PICK l : l = Len(reqs)
    OBVIOUS
  <2>2. MaxRequests \in Nat /\ l \in 0..MaxRequests /\ arrived < l
    BY <1>3, <2>1, IdsAreNumbers, Zenon
  <2>3. arrived + 1 \in 1..l /\ arrived + 1 <= MaxRequests /\ arrived + 1 \in 1..MaxRequests
    BY ONLY <1>2, <2>2
  <2> QED  BY <2>1, <2>3 DEF Ids
<1>5. answers[arrived + 1] = <<>> /\ arrived + 1 \notin m_reqSearchPacket
  BY <1>1, <1>2, <1>4 DEF AnswersInv
<1>6. AnswersInv(reqs, arrived + 1, m_requestPacketMap \cup {arrived + 1}, answers, m_reqSearchPacket)
  <2>1. 1..arrived \subseteq 1..arrived + 1 /\ arrived + 1 \in 1..arrived + 1
    BY <1>2
  <2>2. \A id \in Ids : id > arrived + 1 => id > arrived
    BY <1>2, IdsAreNumbers
  <2> QED  BY <1>1, <1>2, <1>4, <1>5, <2>1, <2>2 DEF AnswersInv
<1>7. /\ Coming.packets = m_requestPacketMap \cup {arrived + 1} /\ Coming.replies = replies
      /\ Coming.jobs = jobs /\ Coming.loops = loops
      /\ Coming = [packets |-> Coming.packets, replies |-> Coming.replies, jobs |-> Coming.jobs, loops |-> Coming.loops]
  <2>1. PICK x : x = arrived + 1
    OBVIOUS
  <2>2. Coming = [Queues EXCEPT !.packets = @ \cup {x}]
    BY <2>1 DEF Coming
  <2> QED  BY ONLY <2>1, <2>2 DEF Queues
<1>8. QueuesInv(reqs, arrived + 1, Coming, answers, m_reqSearchPacket, m_eventloopMap)
  BY <1>6, <1>7, QueueParts DEF QueuesInv
<1> QED  BY <1>2, <1>3, <1>4, <1>5, <1>8

\* What is to be shown of its handler.
LEMMA ArriveStep ==
    ASSUME IndustrialInv, scenario' = scenario, arrived' = arrived + 1, m_reqSearchPacket' = m_reqSearchPacket,
           QueuesThen(reqs, arrived + 1, m_reqSearchPacket), DevicesInv(reqs, device'), MapInv(m_mapDevices')
    PROVE  IndustrialInv'
<1>1. reqs' = reqs
  BY DEF reqs
<1> QED  BY <1>1 DEF IndustrialInv, QueuesThen

\* Answered at once, a search too.
LEMMA AnsweredAtOnce ==
    ASSUME IndustrialInv, arrived < Len(reqs), NEW a, Emit(To(arrived + 1, a), Coming)
    PROVE  AnswersInv(reqs, arrived + 1, m_requestPacketMap', answers', m_reqSearchPacket)
<1>1. DOMAIN To(arrived + 1, a) = {arrived + 1}
  BY DEF To
<1>2. \A x \in DOMAIN To(arrived + 1, a) \cap Coming.packets : answers[x] = <<>> /\ x \notin m_reqSearchPacket
  BY <1>1, NextComes
<1>3. AnswersInv(reqs, arrived + 1, Coming.packets, answers, m_reqSearchPacket)
  BY NextComes DEF QueuesInv
<1> QED  BY <1>2, <1>3, EmitAnswers

\* A handler that answers at once.
LEMMA EndsAtOnce ==
    ASSUME IndustrialInv, arrived < Len(reqs), NEW a, Ends(arrived + 1, a, Coming)
    PROVE  QueuesThen(reqs, arrived + 1, m_reqSearchPacket)
<1>1. AnswersInv(reqs, arrived + 1, m_requestPacketMap', answers', m_reqSearchPacket)
  BY AnsweredAtOnce DEF Ends
<1> QED  BY <1>1, NextComes, LeftKeeps DEF Ends

\* ConnectDobot.
LEMMA ConnectDobotInv ==
    ASSUME IndustrialInv, arrived < Len(reqs), scenario' = scenario, arrived' = arrived + 1,
           reqs[arrived + 1].api = "ConnectDobot", ConnectDobot(arrived + 1, Coming),
           UNCHANGED <<m_reqSearchPacket, m_mapDevices>>
    PROVE  IndustrialInv'
<1> DEFINE id == arrived + 1
<1>1. Fit(reqs, id, id)
  BY NextComes DEF Fit, NotSearch
<1>2. PICK e : device' = [device EXCEPT ![id] = e] /\ DeviceInv(reqs, e)
  <2>1. PICK v : device' = [device EXCEPT ![id] = [NewDevice(reqs[id].ws, reqs[id].port) EXCEPT !.alive = v]]
    BY DEF ConnectDobot
  <2>2. PICK e : e = [NewDevice(reqs[id].ws, reqs[id].port) EXCEPT !.alive = v]
    OBVIOUS
  <2>3. DeviceShape(e) /\ e.mob = MobIdle
    BY <2>2 DEF NewDevice, NoDevice, DeviceShape
  <2>4. MobShape(MobIdle) /\ MobIdle.m_handlingId = 0
    BY DEF MobIdle, MobShape
  <2>5. DeviceInv(reqs, e)
    BY <2>3, <2>4, IdsAreNumbers DEF DeviceInv, NotSearch
  <2> QED  BY <2>1, <2>2, <2>5
<1>3. DevicesInv(reqs, device')
  BY <1>2, QueueParts, OneDevice
<1>4. QueuesThen(reqs, arrived + 1, m_reqSearchPacket)
  <2>1. CASE Ends(id, Failed, Coming)
    BY <2>1, EndsAtOnce
  <2>2. CASE /\ Left([Coming EXCEPT !.replies = @ \cup {HttpRequest(id, id, 1, "get", <<>>)}])
             /\ Emit(<<>>, Coming) /\ m_eventloopMap' = m_eventloopMap
    <3>1. QueuesInv(reqs, id, Coming, answers, m_reqSearchPacket, m_eventloopMap)
      BY NextComes
    <3>2. AnswersInv(reqs, id, m_requestPacketMap', answers', m_reqSearchPacket)
      BY <2>2, <3>1, NoAnswers DEF QueuesInv
    <3>3. /\ replies' = replies \cup {HttpRequest(id, id, 1, "get", <<>>)} /\ jobs' = jobs /\ loops' = loops
      BY <2>2 DEF Left, Coming, Queues
    <3>4. RepliesInv(reqs, replies')
      <4>1. RepliesInv(reqs, replies) /\ Fit(reqs, id, id)
        BY <1>1, QueueParts
      <4> HIDE DEF id
      <4> QED  BY <3>3, <4>1, OneMoreReply
    <3> QED  BY <2>2, <3>2, <3>3, <3>4, QueueParts, Together
  <2> QED  BY <2>1, <2>2 DEF ConnectDobot
<1> QED  BY <1>3, <1>4, QueueParts, ArriveStep

\* SearchDobot.
LEMMA SearchDobotInv ==
    ASSUME IndustrialInv, arrived < Len(reqs), scenario' = scenario, arrived' = arrived + 1,
           reqs[arrived + 1].api = "SearchDobot", SearchDobot(arrived + 1, Coming),
           UNCHANGED <<device, m_mapDevices>>
    PROVE  IndustrialInv'
<1> DEFINE id == arrived + 1
<1>1. QueuesThen(reqs, id, m_reqSearchPacket)
  BY NextComes, WaitsKeeps DEF SearchDobot
<1>2. answers' = answers /\ m_reqSearchPacket' = m_reqSearchPacket \cup {id}
  <2>1. DOMAIN <<>> = {} /\ answers = [x \in Ids |-> answers[x]]
    BY QueueParts DEF AnswersInv
  <2> QED  BY <2>1 DEF SearchDobot, Waits, Emit
<1>3. AnswersInv(reqs, id, m_requestPacketMap', answers', m_reqSearchPacket)
  BY <1>1 DEF QueuesThen, QueuesInv, Queues
<1>4. id \in 1..id
  <2>1. arrived \in Nat
    BY NextComes
  <2> QED  BY ONLY <2>1
<1>5. AnswersInv(reqs, id, m_requestPacketMap', answers', m_reqSearchPacket')
  BY <1>2, <1>3, <1>4, NextComes DEF AnswersInv
<1>6. reqs' = reqs
  BY DEF reqs
<1> QED  BY <1>1, <1>5, <1>6, QueueParts DEF IndustrialInv, QueuesThen, QueuesInv, Queues

\* DisconnectDobot.
LEMMA DisconnectDobotInv ==
    ASSUME IndustrialInv, arrived < Len(reqs), scenario' = scenario, arrived' = arrived + 1,
           NEW d, DisconnectDobot(arrived + 1, d, Coming), m_reqSearchPacket' = m_reqSearchPacket
    PROVE  IndustrialInv'
<1>1. AnswersInv(reqs, arrived + 1, m_requestPacketMap', answers', m_reqSearchPacket)
  BY AnsweredAtOnce DEF DisconnectDobot
<1>2. QueuesThen(reqs, arrived + 1, m_reqSearchPacket) /\ DevicesInv(reqs, device')
  BY <1>1, DeletesKeeps DEF DisconnectDobot
<1>3. MapInv(m_mapDevices')
  BY QueueParts DEF DisconnectDobot, MapInv
<1> QED  BY <1>2, <1>3, ArriveStep

\* The commands of the debugger.
LEMMA MobInv ==
    ASSUME IndustrialInv, arrived < Len(reqs), scenario' = scenario, arrived' = arrived + 1,
           NEW d \in {0} \cup Ids, UsesMob(arrived + 1, d), Mob(arrived + 1, d, Coming),
           UNCHANGED <<m_reqSearchPacket, m_mapDevices>>
    PROVE  IndustrialInv'
<1> DEFINE id == arrived + 1
           m == device[d].mob
<1>1. Fit(reqs, id, d)
  <2>1. "SearchDobot" \notin DOMAIN MobFuncMap
    BY IndustrialAssumption, Zenon
  <2> QED  BY <2>1 DEF UsesMob, Fit, NotSearch
<1>2. QueuesInv(reqs, id, Coming, answers, m_reqSearchPacket, m_eventloopMap)
  BY NextComes
<1>3. DevicesInv(reqs, device) /\ MobShape(m) /\ DeviceShape(device[d])
  BY QueueParts DEF DevicesInv
<1>4. CASE MobStart(id, d, Coming)
  <2>1. PICK ok, v : device' = [device EXCEPT ![d].mob = Started(m, id, ok), ![d].onListening = v]
    BY <1>4 DEF MobStart
  <2>2. MobShape(Started(m, id, ok)) /\ NotSearch(reqs, Started(m, id, ok).m_handlingId)
    BY <1>1, <1>3, MobSteps DEF Fit
  <2>3. DevicesInv(reqs, device')
    BY ONLY <1>3, <2>1, <2>2 DEF DevicesInv, DeviceShape
  <2>4. Emit(<<>>, Coming) \/ Emit(To(id, Failed), Coming)
    BY <1>4 DEF MobStart
  <2>5. AnswersInv(reqs, id, m_requestPacketMap', answers', m_reqSearchPacket)
    BY <1>2, <2>4, NoAnswers, AnsweredAtOnce DEF QueuesInv
  <2>6. QueuesThen(reqs, id, m_reqSearchPacket)
    BY <1>2, <1>4, <2>5, LeftKeeps DEF MobStart
  <2> QED  BY <2>3, <2>6, QueueParts, ArriveStep
<1>5. CASE MobCommand(id, d, Coming)
  <2>1. DevicesInv(reqs, device')
    <3>1. CASE device' = device
      BY <3>1, <1>3
    <3>2. CASE \E cmd, v : \E by \in {id, 0} : device' = [device EXCEPT ![d].mob = Written(m, cmd, by), ![d].onSuspended = v]
      <4>1. PICK cmd, v, by : /\ by \in {id, 0}
                              /\ device' = [device EXCEPT ![d].mob = Written(m, cmd, by), ![d].onSuspended = v]
        BY <3>2
      <4>2. MobShape(Written(m, cmd, by)) /\ Written(m, cmd, by).m_handlingId = by
        BY <1>3, MobSteps
      <4>3. NotSearch(reqs, by)
        BY <1>1, <4>1, IdsAreNumbers DEF Fit, NotSearch
      <4> QED  BY ONLY <1>3, <4>1, <4>2, <4>3 DEF DevicesInv, DeviceShape
    <3> QED  BY <3>1, <3>2, <1>5 DEF MobCommand
  <2>2. Emit(<<>>, Coming) \/ Emit(To(id, Failed), Coming)
    BY <1>5 DEF MobCommand
  <2>3. AnswersInv(reqs, id, m_requestPacketMap', answers', m_reqSearchPacket)
    BY <1>2, <2>2, NoAnswers, AnsweredAtOnce DEF QueuesInv
  <2>4. /\ \E act : replies' = replies \cup {HttpRequest(id, d, 1, act, <<>>)}
        /\ jobs' = jobs /\ loops' = loops /\ m_eventloopMap' = m_eventloopMap
    BY <1>5 DEF MobCommand, Left, Coming, Queues
  <2>5. RepliesInv(reqs, replies')
    <3>1. PICK act : replies' = replies \cup {HttpRequest(id, d, 1, act, <<>>)}
      BY <2>4
    <3>2. RepliesInv(reqs, replies) /\ Fit(reqs, id, d)
      BY <1>1, QueueParts
    <3> HIDE DEF id
    <3> QED  BY <3>1, <3>2, OneMoreReply
  <2>6. QueuesThen(reqs, id, m_reqSearchPacket)
    BY <2>3, <2>4, <2>5, QueueParts, Together
  <2> QED  BY <2>1, <2>6, QueueParts, ArriveStep
<1>6. CASE Ends(id, Failed, Coming) /\ UNCHANGED device
  BY <1>6, EndsAtOnce, QueueParts, ArriveStep
<1> QED  BY <1>4, <1>5, <1>6 DEF Mob

\* What goes to the controller.
LEMMA sendCommandInv ==
    ASSUME IndustrialInv, arrived < Len(reqs), scenario' = scenario, arrived' = arrived + 1,
           NEW d \in {0} \cup Ids, sendCommand(arrived + 1, d, Coming)
    PROVE  IndustrialInv'
<1> DEFINE id == arrived + 1
<1>1. CASE Ends(id, Failed, Coming) /\ UNCHANGED <<faults, device, m_reqSearchPacket, probes, m_mapDevices>>
  BY <1>1, EndsAtOnce, QueueParts, ArriveStep
<1>2. CASE /\ reqs[id].api # "SearchDobot" /\ Goes(id, d, 1, Coming)
           /\ UNCHANGED <<faults, device, m_reqSearchPacket, probes, m_mapDevices>>
  <2>1. Fit(reqs, id, d)
    BY <1>2 DEF Fit, NotSearch
  <2>2. QueuesThen(reqs, id, m_reqSearchPacket)
    BY <1>2, <2>1, NextComes, GoesKeeps
  <2> QED  BY <1>2, <2>2, QueueParts, ArriveStep
<1> QED  BY <1>1, <1>2, SearchDobotInv, DisconnectDobotInv, MobInv DEF sendCommand

\* A request comes in.
LEMMA ArriveInv == ASSUME IndustrialInv, Arrive PROVE IndustrialInv'
<1> DEFINE id == arrived + 1
           r == reqs[id]
<1>1. scenario' = scenario /\ arrived' = id /\ arrived < Len(reqs)
  BY DEF Arrive
<1>2. \/ Ends(id, Failed, Coming) /\ UNCHANGED <<faults, device, owner, m_reqSearchPacket, probes, m_mapDevices>>
      \/ r.api = "ConnectDobot" /\ ConnectDobot(id, Coming) /\ UNCHANGED <<m_reqSearchPacket, probes, m_mapDevices>>
      \/ sendCommand(id, 0, Coming)
      \/ r.port # "" /\ \E d \in Found(r.ws, r.port) : sendCommand(id, d, Coming)
  BY DEF Arrive, Coming
<1>3. r.port # "" => Found(r.ws, r.port) \subseteq {0} \cup Ids
  BY <1>1, NextComes, QueueParts DEF Found, MapInv
<1>4. CASE Ends(id, Failed, Coming) /\ UNCHANGED <<faults, device, owner, m_reqSearchPacket, probes, m_mapDevices>>
  BY <1>1, <1>4, EndsAtOnce, QueueParts, ArriveStep
<1> QED  BY <1>1, <1>2, <1>3, <1>4, ConnectDobotInv, sendCommandInv

\* The invariant holds at the start.
LEMMA IndustrialInvStart == Init => IndustrialInv
<1> SUFFICES ASSUME Init PROVE IndustrialInv
  OBVIOUS
<1>1. AnswersInv(reqs, 0, {}, answers, {})
  <2>1. answers = [id \in Ids |-> <<>>]
    BY DEF Init
  <2>2. 0 \in Nat /\ 0 <= MaxRequests
    BY IdsAreNumbers
  <2> QED  BY ONLY <2>1, <2>2 DEF AnswersInv
<1>2. LoopsInv(reqs, <<>>) /\ LiveInv(<<>>, {}) /\ RepliesInv(reqs, {}) /\ JobsInv(reqs, {})
  BY DEF LoopsInv, LiveInv, RepliesInv, JobsInv
<1>3. MapInv(m_mapDevices)
  BY DEF Init, MapInv
<1>4. DevicesInv(reqs, device)
  <2>1. MobShape(MobIdle) /\ MobIdle.m_handlingId = 0 /\ NotSearch(reqs, 0)
    BY IdsAreNumbers DEF MobIdle, MobShape, NotSearch
  <2>2. DeviceShape(NoDevice) /\ NoDevice.mob = MobIdle
    BY DEF DeviceShape, NoDevice
  <2>3. DeviceShape(NewDevice(0, "")) /\ NewDevice(0, "").mob = MobIdle
    BY DEF DeviceShape, NoDevice, NewDevice
  <2> QED  BY <2>1, <2>2, <2>3 DEF Init, DevicesInv
<1> QED  BY <1>1, <1>2, <1>3, <1>4 DEF Init, IndustrialInv, QueuesInv, Queues

\* Every step keeps it.
LEMMA IndustrialInvStep == IndustrialInv /\ [Next]_vars => IndustrialInv'
<1> SUFFICES ASSUME IndustrialInv, [Next]_vars PROVE IndustrialInv'
  OBVIOUS
<1>1. CASE UNCHANGED vars
  BY <1>1 DEF vars, mainVars, runVars, IndustrialInv, reqs, Queues
<1>2. CASE Arrive
  BY <1>2, ArriveInv
<1>3. CASE ArriveAtDead \/ CloseDead
  BY <1>3, CrashInv DEF ArriveAtDead, CloseDead
<1>4. CASE (\E ws \in scenario.closes : CloseWebSocket(ws)) \/ Exit
  BY <1>4, CloseInv
<1>5. CASE Progress
  <2>1. CASE Connect \/ \E n \in Threads : TaskBegins(n) \/ TaskEnds(n) \/ ThreadGoes(n)
    BY <2>1, ThreadsInv
  <2>2. CASE \E r \in replies : HttpEnds(r)
    BY <2>2, HttpEndsInv
  <2>3. CASE \E n \in DOMAIN loops : LoopTimeout(n) \/ AwaitTimeout(n)
    BY <2>3, LoopTimeoutInv, AwaitTimeoutInv
  <2>4. CASE Unwind
    BY <2>4, UnwindInv
  <2>5. CASE LoopOfDead \/ \E n \in Threads : TaskOfDead(n)
    BY <2>5, CrashInv DEF LoopOfDead, TaskOfDead
  <2>6. CASE \E j \in jobs : JobDone(j) \/ JobTimeout(j)
    BY <2>6, JobInv
  <2>7. CASE \E p \in DOMAIN probes : Probe(p)
    BY <2>7, ProbeInv
  <2>8. CASE \E d \in DOMAIN device, event \in MobEvents : MobEvent(d, event)
    BY <2>8, MobEventInv
  <2> QED  BY <1>5, <2>1, <2>2, <2>3, <2>4, <2>5, <2>6, <2>7, <2>8 DEF Progress
<1> QED  BY <1>1, <1>2, <1>3, <1>4, <1>5 DEF Next

\* It says what the two theorems do.
LEMMA IndustrialAnswers == IndustrialInv => AnsweredOnce /\ LoopsLive
<1> SUFFICES ASSUME IndustrialInv PROVE AnsweredOnce /\ LoopsLive
  OBVIOUS
<1>1. AnsweredOnce
  <2> SUFFICES ASSUME NEW id \in Ids
               PROVE  /\ Len(answers[id]) <= 1
                      /\ answers[id] # <<>> /\ reqs[id].api # "SearchDobot" => id \notin m_requestPacketMap
    BY DEF AnsweredOnce
  <2>1. answers[id] = <<>> \/ answers[id] = <<answers[id][1]>>
    BY QueueParts DEF AnswersInv
  <2>2. Len(answers[id]) <= 1
    <3>1. PICK s : s = answers[id]
      OBVIOUS
    <3>2. s = <<>> => Len(s) <= 1
      OBVIOUS
    <3>3. \A a : s = <<a>> => Len(s) <= 1
      OBVIOUS
    <3> QED  BY <2>1, <3>1, <3>2, <3>3
  <2> QED  BY <2>2, QueueParts DEF AnswersInv
<1>2. LoopsLive
  <2>1. DOMAIN loops = 1..Len(loops)
    BY QueueParts DEF LoopsInv
  <2> QED  BY <2>1, QueueParts DEF LoopsLive, LiveInv, Live
<1> QED  BY <1>1, <1>2

\* A request to the IndustrialRobotPlugin is answered at most once and, but for a SearchDobot,
\* held in m_requestPacketMap no more once it is: whatever the controller, the pool and the
\* file servers do, and whoever connects, closes or is too late (handleReplyMessage_slot and
\* handleErrorOccured_slot).
THEOREM RobotAnswersOnce == Spec => []AnsweredOnce
<1>1. Spec => []IndustrialInv
  BY IndustrialInvStart, IndustrialInvStep, PTL DEF Spec
<1> QED  BY <1>1, IndustrialAnswers, PTL

\* Every event loop that a reply may still end is one that runs: m_eventloopMap holds no
\* loop that has returned or failed (eventLoopSuccess, onReplyMessage_slot).
THEOREM NoLoopGone == Spec => []LoopsLive
<1>1. Spec => []IndustrialInv
  BY IndustrialInvStart, IndustrialInvStep, PTL DEF Spec
<1> QED  BY <1>1, IndustrialAnswers, PTL

-----------------------------------------------------------------------------
\* A robot numbers its commands in order: those in the queue are later than the
\* last one done and earlier than the next one.
Entry == [id : M1!Packets, index : Nat]
RobotInv(r) ==
    /\ r = [cells |-> r.cells, queue |-> r.queue, running |-> r.running, next |-> r.next,
            index |-> r.index]
    /\ r.queue \in Seq(Entry)
    /\ r.next \in Nat /\ r.index \in Nat /\ r.index < r.next
    /\ \A k \in 1..Len(r.queue) : r.index < r.queue[k].index /\ r.queue[k].index < r.next
    /\ \A j, k \in 1..Len(r.queue) : j < k => r.queue[j].index < r.queue[k].index

\* Request id got number target from robot r, when the requests d are done: that number
\* is nobody else's, and when the robot has come to it the request is done.
Numbered(r, id, target, d) ==
    /\ target < r.next
    /\ \A k \in 1..Len(r.queue) : r.queue[k].index = target => r.queue[k].id = id
    /\ r.index = target => id \in d

\* An M1WaitForFinish: it knows the number of its own request, and as long as
\* one of its timers runs the request has no answer.
WaiterInv(w) ==
    /\ w = [id |-> w.id, target |-> w.target, timers |-> w.timers, listed |-> w.listed]
    /\ w.id \in 1..taken /\ w.target \in Nat
    /\ given[w.id] \in SerialPorts
    /\ Numbered(robot[given[w.id]], w.id, w.target, done)
    /\ w.timers # {} => w.listed /\ out[w.id] = <<>>
    /\ w.listed => w.timers # {}

\* Answer a to request id, when the robots g got the calls and the requests d are done:
\* when it says "finished" for the robot that got the call, that is so.
Honest(id, a, g, d) == a.waited /\ a.ok /\ a.from = g[id] => id \in d

OutInv ==
    /\ out = [id \in M1!Packets |-> out[id]]
    /\ \A id \in M1!Packets :
           /\ out[id] = <<>> \/ (out[id] = <<out[id][1]>> /\ Honest(id, out[id][1], given, done))
           /\ id > taken => out[id] = <<>>

M1Types ==
    /\ script \in Scripts /\ taken \in Nat /\ taken <= MaxPackets
    /\ link \in SerialPorts \cup {""}
    /\ given \in [M1!Packets -> SerialPorts \cup {""}]
    /\ robot = [p \in SerialPorts |-> robot[p]]

M1Inv ==
    /\ M1Types /\ OutInv
    /\ \A p \in SerialPorts : RobotInv(robot[p])
    /\ \A w \in m_waitFinishMap : WaiterInv(w)
    /\ \A v, w \in m_waitFinishMap : v.id = w.id => v = w

-----------------------------------------------------------------------------
\* Robots.  s is r with no command that r does not have, at the same number.
Tamer(r, s) ==
    /\ RobotInv(s)
    /\ s.next = r.next /\ s.index = r.index
    /\ \A k \in 1..Len(s.queue) : \E j \in 1..Len(r.queue) : s.queue[k] = r.queue[j]

\* From robot r, when the requests d are done, to robot s and e: it keeps its order, and
\* whoever has a number keeps it.
Keeps(r, s, d, e) ==
    /\ RobotInv(s)
    /\ \A x, t : t \in Nat /\ Numbered(r, x, t, d) => Numbered(s, x, t, e)

LEMMA TamerKeeps ==
    ASSUME NEW r, NEW s, Tamer(r, s), NEW d, NEW e, d \subseteq e
    PROVE  Keeps(r, s, d, e)
<1> SUFFICES ASSUME NEW x, NEW t, Numbered(r, x, t, d) PROVE Numbered(s, x, t, e)
  BY DEF Keeps, Tamer
<1>1. \A k \in 1..Len(s.queue) : s.queue[k].index = t => s.queue[k].id = x
  BY DEF Tamer, Numbered
<1> QED  BY <1>1 DEF Tamer, Numbered

LEMMA TamerSame == ASSUME NEW r, RobotInv(r) PROVE Tamer(r, r)
  BY DEF Tamer

LEMMA TamerCalls ==
    ASSUME NEW r, RobotInv(r)
    PROVE  /\ Tamer(r, M1!Started(r)) /\ Tamer(r, M1!Stopped(r)) /\ Tamer(r, M1!Cleared(r))
           /\ Tamer(r, M1!Cleared(M1!Stopped(r)))
<1>1. ASSUME NEW f, NEW s, s = [r EXCEPT !.running = f] PROVE Tamer(r, s)
  <2>1. s = [cells |-> r.cells, queue |-> r.queue, running |-> f, next |-> r.next,
             index |-> r.index]
    BY <1>1 DEF RobotInv
  <2> QED  BY <2>1 DEF RobotInv, Tamer
<1>2. ASSUME NEW f, NEW s, s = [[r EXCEPT !.running = f] EXCEPT !.queue = <<>>] PROVE Tamer(r, s)
  <2>1. s = [cells |-> r.cells, queue |-> <<>>, running |-> f, next |-> r.next,
             index |-> r.index]
    BY <1>2 DEF RobotInv
  <2> QED  BY <2>1 DEF RobotInv, Tamer
<1>3. M1!Cleared(r) = [[r EXCEPT !.running = r.running] EXCEPT !.queue = <<>>]
  <2>1. r = [r EXCEPT !.running = r.running]
    BY DEF RobotInv
  <2> QED  BY <2>1 DEF M1!Cleared
<1> QED  BY <1>1, <1>2, <1>3 DEF M1!Started, M1!Stopped, M1!Cleared

LEMMA TamerApplied ==
    ASSUME NEW r, RobotInv(r), NEW c
    PROVE  Tamer(r, [r EXCEPT !.cells = c])
<1> DEFINE s == [r EXCEPT !.cells = c]
<1>1. s = [cells |-> c, queue |-> r.queue, running |-> r.running, next |-> r.next,
           index |-> r.index]
  BY DEF RobotInv
<1> QED  BY <1>1 DEF RobotInv, Tamer

\* A command is put into the queue.
LEMMA AppendKeeps ==
    ASSUME NEW r, RobotInv(r), NEW id \in M1!Packets, NEW s, NEW d,
           s = [r EXCEPT !.queue = Append(@, [id |-> id, index |-> r.next]), !.next = @ + 1]
    PROVE  Keeps(r, s, d, d) /\ Numbered(s, id, r.next, d) /\ r.next \in Nat
<1> DEFINE e == [id |-> id, index |-> r.next]
           q == r.queue
           p == Append(q, e)
<1>1. /\ s = [cells |-> r.cells, queue |-> p, running |-> r.running, next |-> r.next + 1,
              index |-> r.index]
      /\ s.queue = p /\ s.next = r.next + 1 /\ s.index = r.index
      /\ s = [cells |-> s.cells, queue |-> s.queue, running |-> s.running, next |-> s.next,
              index |-> s.index]
  <2> HIDE DEF e
  <2>1. r = [cells |-> r.cells, queue |-> r.queue, running |-> r.running, next |-> r.next,
             index |-> r.index]
    BY DEF RobotInv
  <2>2. s = [r EXCEPT !.queue = Append(@, e), !.next = @ + 1]
    BY DEF e
  <2>3. s = [cells |-> r.cells, queue |-> Append(r.queue, e), running |-> r.running,
             next |-> r.next + 1, index |-> r.index]
    BY ONLY <2>1, <2>2
  <2> QED  BY ONLY <2>3
<1>2. q \in Seq(Entry) /\ r.next \in Nat /\ r.index \in Nat /\ r.index < r.next
  BY DEF RobotInv
<1>3. e \in Entry /\ e.id = id /\ e.index = r.next
  BY <1>2 DEF Entry
<1>4. \A k \in 1..Len(q) : r.index < q[k].index /\ q[k].index < r.next
  BY DEF RobotInv
<1>5. \A j, k \in 1..Len(q) : j < k => q[j].index < q[k].index
  BY DEF RobotInv
<1>6. \A k \in 1..Len(q) : q[k].index \in Nat
  <2>1. \A k \in 1..Len(q) : q[k] \in Entry
    BY <1>2
  <2> HIDE DEF q
  <2> QED  BY <2>1 DEF Entry
<1> HIDE DEF e, q
<1>7. /\ p \in Seq(Entry) /\ Len(p) = Len(q) + 1 /\ Len(q) \in Nat
      /\ p[Len(q) + 1] = e /\ \A k \in 1..Len(q) : p[k] = q[k]
  BY <1>2, <1>3, AppendProperties
<1> HIDE DEF p
<1>8. \A k \in 1..Len(p) : r.index < p[k].index /\ p[k].index < r.next + 1
  BY <1>2, <1>3, <1>4, <1>6, <1>7
<1>9. ASSUME NEW j \in 1..Len(p), NEW k \in 1..Len(p), j < k PROVE p[j].index < p[k].index
  <2>1. j \in 1..Len(q)
    BY <1>7, <1>9
  <2>2. CASE k \in 1..Len(q)
    BY <1>5, <1>7, <1>9, <2>1, <2>2
  <2>3. CASE k = Len(q) + 1
    BY <1>3, <1>4, <1>7, <2>1, <2>3
  <2> QED  BY <1>7, <2>2, <2>3
<1>10. RobotInv(s)
  <2> DEFINE Shape == s = [cells |-> s.cells, queue |-> s.queue, running |-> s.running,
                           next |-> s.next, index |-> s.index]
             Parts == s.queue = p /\ s.next = r.next + 1 /\ s.index = r.index
  <2>1. Shape /\ Parts
    BY <1>1
  <2> HIDE DEF Shape
  <2>2. s.next \in Nat /\ s.index \in Nat /\ s.index < s.next
    BY ONLY <1>2, <2>1
  <2>3. /\ s.queue \in Seq(Entry)
        /\ \A k \in 1..Len(s.queue) : s.index < s.queue[k].index /\ s.queue[k].index < s.next
        /\ \A j, k \in 1..Len(s.queue) : j < k => s.queue[j].index < s.queue[k].index
    BY <1>7, <1>8, <1>9, <2>1
  <2> QED  BY <2>1, <2>2, <2>3 DEF RobotInv, Shape
<1>11. ASSUME NEW x, NEW t \in Nat, Numbered(r, x, t, d) PROVE Numbered(s, x, t, d)
  <2>1. t < r.next /\ \A k \in 1..Len(q) : q[k].index = t => q[k].id = x
    BY <1>11 DEF Numbered, q
  <2>2. \A k \in 1..Len(p) : p[k].index = t => p[k].id = x
    BY <1>2, <1>3, <1>7, <2>1
  <2>3. t < r.next + 1
    BY <1>2, <2>1
  <2>4. r.index = t => x \in d
    BY <1>11 DEF Numbered
  <2>5. s.queue = p /\ s.next = r.next + 1 /\ s.index = r.index
    BY <1>1
  <2> QED  BY ONLY <2>2, <2>3, <2>4, <2>5 DEF Numbered
<1>12. Numbered(s, id, r.next, d)
  <2>1. \A k \in 1..Len(p) : p[k].index = r.next => p[k].id = id
    BY <1>2, <1>3, <1>4, <1>6, <1>7
  <2>2. r.next < r.next + 1 /\ r.index # r.next
    BY <1>2
  <2>3. s.queue = p /\ s.next = r.next + 1 /\ s.index = r.index
    BY <1>1
  <2> QED  BY ONLY <2>1, <2>2, <2>3 DEF Numbered
<1> QED  BY <1>2, <1>10, <1>11, <1>12 DEF Keeps

\* The first command of the queue is done.
LEMMA ExecuteKeeps ==
    ASSUME NEW r, RobotInv(r), r.queue # <<>>, NEW s, NEW d, NEW c,
           s = [[r EXCEPT !.cells = c] EXCEPT !.queue = Tail(@), !.index = Head(r.queue).index]
    PROVE  Keeps(r, s, d, d \cup {Head(r.queue).id})
<1> DEFINE q == r.queue
           p == Tail(q)
           e == q[1]
           Shape == s = [cells |-> s.cells, queue |-> s.queue, running |-> s.running,
                         next |-> s.next, index |-> s.index]
           Parts == s.queue = p /\ s.next = r.next /\ s.index = e.index
<1>1. q \in Seq(Entry) /\ r.next \in Nat /\ r.index \in Nat /\ r.index < r.next
  BY DEF RobotInv
<1>2. Head(q) = e
  BY <1>1
<1>3. Shape /\ Parts
  <2>1. r = [cells |-> r.cells, queue |-> r.queue, running |-> r.running, next |-> r.next,
             index |-> r.index]
    BY DEF RobotInv
  <2>2. s = [[r EXCEPT !.cells = c] EXCEPT !.queue = Tail(@), !.index = e.index]
    BY <1>2
  <2> HIDE DEF e
  <2>3. s = [cells |-> c, queue |-> Tail(r.queue), running |-> r.running,
             next |-> r.next, index |-> e.index]
    BY ONLY <2>1, <2>2
  <2> QED  BY ONLY <2>3 DEF Shape, Parts
<1>4. \A k \in 1..Len(q) : r.index < q[k].index /\ q[k].index < r.next
  BY DEF RobotInv
<1>5. \A j, k \in 1..Len(q) : j < k => q[j].index < q[k].index
  BY DEF RobotInv
<1>6. \A k \in 1..Len(q) : q[k] \in Entry
  BY <1>1
<1>q. q # <<>>
  OBVIOUS
<1> HIDE DEF q, Shape
<1>7. /\ p \in Seq(Entry) /\ Len(p) = Len(q) - 1 /\ Len(q) \in Nat /\ 1 \in 1..Len(q)
      /\ \A k \in 1..Len(p) : p[k] = q[k + 1] /\ k + 1 \in 1..Len(q)
  BY <1>1, <1>q, HeadTailProperties
<1>8. \A k \in 1..Len(q) : q[k].index \in Nat
  BY <1>6 DEF Entry
<1>9. e.index \in Nat /\ e.index < r.next
  BY <1>4, <1>7, <1>8
<1>10. \A k \in 1..Len(p) : e.index < p[k].index /\ p[k].index < r.next
  BY <1>4, <1>5, <1>7
<1>11. \A j, k \in 1..Len(p) : j < k => p[j].index < p[k].index
  BY <1>5, <1>7
<1>12. RobotInv(s)
  BY <1>1, <1>3, <1>7, <1>9, <1>10, <1>11 DEF RobotInv, Shape
<1>13. ASSUME NEW x, NEW t \in Nat, Numbered(r, x, t, d)
       PROVE  Numbered(s, x, t, d \cup {e.id})
  <2>1. t < r.next /\ \A k \in 1..Len(q) : q[k].index = t => q[k].id = x
    BY <1>13 DEF Numbered, q
  <2>2. \A k \in 1..Len(p) : p[k].index = t => p[k].id = x
    BY <1>7, <2>1
  <2>3. e.index = t => x \in d \cup {e.id}
    BY <1>7, <2>1
  <2>4. Parts
    BY <1>3
  <2> QED  BY ONLY <2>1, <2>2, <2>3, <2>4 DEF Numbered
<1> QED  BY <1>2, <1>12, <1>13 DEF Keeps, q
-----------------------------------------------------------------------------
\* A step of the plugin, as the invariant sees it: the robots keep their numbers, a
\* request has got its robot before it is answered, and time goes on.
RobotsKeep ==
    /\ robot' = [p \in SerialPorts |-> robot'[p]]
    /\ \A p \in SerialPorts : Keeps(robot[p], robot'[p], done, done')
    /\ done \subseteq done'
    /\ taken' \in Nat /\ taken <= taken'
    /\ \A id \in 1..taken : given'[id] = given[id]

LEMMA NumberKept ==
    ASSUME M1Types, RobotsKeep, NEW w, WaiterInv(w)
    PROVE  /\ w.id \in 1..taken' /\ w.target \in Nat /\ given'[w.id] \in SerialPorts
           /\ Numbered(robot'[given'[w.id]], w.id, w.target, done')
<1>2. w.id \in 1..taken /\ w.target \in Nat /\ given[w.id] \in SerialPorts
  BY DEF WaiterInv
<1>3. w.id \in 1..taken' /\ given'[w.id] = given[w.id]
  <2>1. taken \in Nat /\ taken' \in Nat /\ taken <= taken'
    BY DEF RobotsKeep, M1Types
  <2>2. w.id \in 1..taken'
    BY ONLY <1>2, <2>1
  <2> QED  BY <1>2, <2>2 DEF RobotsKeep
<1>4. Numbered(robot'[given[w.id]], w.id, w.target, done')
  BY <1>2 DEF RobotsKeep, Keeps, WaiterInv
<1> QED  BY <1>2, <1>3, <1>4

\* A waiter that its object's timers T and its place in the list, l, may have changed.
LEMMA WaiterKeeps ==
    ASSUME M1Types, RobotsKeep, NEW w, WaiterInv(w), NEW T, NEW l, NEW v,
           v = [w EXCEPT !.timers = T, !.listed = l],
           T # {} => l /\ out'[w.id] = <<>>,
           l => T # {}
    PROVE  WaiterInv(v)' /\ v.id = w.id /\ v.timers = T /\ v.listed = l
<1> DEFINE Shape == v = [id |-> v.id, target |-> v.target, timers |-> v.timers, listed |-> v.listed]
           Parts == v.id = w.id /\ v.target = w.target /\ v.timers = T /\ v.listed = l
<1>1. Shape /\ Parts
  <2>1. w = [id |-> w.id, target |-> w.target, timers |-> w.timers, listed |-> w.listed]
    BY DEF WaiterInv
  <2>2. v = [id |-> w.id, target |-> w.target, timers |-> T, listed |-> l]
    BY ONLY <2>1, v = [w EXCEPT !.timers = T, !.listed = l]
  <2> QED  BY ONLY <2>2 DEF Shape, Parts
<1>2. /\ w.id \in 1..taken' /\ w.target \in Nat /\ given'[w.id] \in SerialPorts
      /\ Numbered(robot'[given'[w.id]], w.id, w.target, done')
  BY NumberKept
<1> HIDE DEF Shape
<1>5. WaiterInv(v)'
  BY <1>1, <1>2 DEF WaiterInv, Shape
<1> QED  BY <1>1, <1>5

LEMMA WaiterGone ==
    ASSUME M1Types, RobotsKeep, NEW w, WaiterInv(w), NEW v,
           v = [w EXCEPT !.timers = {}, !.listed = FALSE]
    PROVE  WaiterInv(v)' /\ v.id = w.id
<1> DEFINE Shape == v = [id |-> v.id, target |-> v.target, timers |-> v.timers, listed |-> v.listed]
           Parts == v.id = w.id /\ v.target = w.target /\ v.timers = {} /\ v.listed = FALSE
<1>1. Shape /\ Parts
  <2>1. w = [id |-> w.id, target |-> w.target, timers |-> w.timers, listed |-> w.listed]
    BY DEF WaiterInv
  <2>2. v = [id |-> w.id, target |-> w.target, timers |-> {}, listed |-> FALSE]
    BY ONLY <2>1, v = [w EXCEPT !.timers = {}, !.listed = FALSE]
  <2> QED  BY ONLY <2>2 DEF Shape, Parts
<1>2. /\ w.id \in 1..taken' /\ w.target \in Nat /\ given'[w.id] \in SerialPorts
      /\ Numbered(robot'[given'[w.id]], w.id, w.target, done')
  BY NumberKept
<1> HIDE DEF Shape
<1>3. WaiterInv(v)'
  BY <1>1, <1>2 DEF WaiterInv, Shape
<1> QED  BY <1>1, <1>3

LEMMA WaiterStays ==
    ASSUME M1Types, RobotsKeep, NEW w, WaiterInv(w), out'[w.id] = out[w.id]
    PROVE  WaiterInv(w)'
  BY NumberKept DEF WaiterInv

LEMMA PacketsAreNumbers == MaxPackets \in Nat /\ \A id \in M1!Packets : id \in Nat
<1>1. MaxPackets \in Nat
  BY M1Assumption, Zenon
<1> QED  BY <1>1 DEF M1!Packets

LEMMA Later ==
    ASSUME M1Types, RobotsKeep, NEW id \in M1!Packets, id > taken'
    PROVE  id > taken
<1>1. taken \in Nat /\ taken' \in Nat /\ taken <= taken' /\ id \in Nat
  BY PacketsAreNumbers DEF RobotsKeep, M1Types
<1> QED  BY <1>1

\* Request i is answered with a.
LEMMA AnswerKeeps ==
    ASSUME OutInv, RobotsKeep, M1Types, NEW i \in M1!Packets, i <= taken', NEW a,
           out[i] = <<>>, M1!Answer(i, a), Honest(i, a, given', done'),
           \A id \in M1!Packets \ {i} : given'[id] = given[id]
    PROVE  OutInv' /\ \A id \in M1!Packets \ {i} : out'[id] = out[id]
<1>1. /\ out' = [id \in M1!Packets |-> IF id = i THEN <<a>> ELSE out[id]]
  BY OneElement DEF M1!Answer, OutInv
<1>2. out' = [id \in M1!Packets |-> out'[id]]
  BY <1>1
<1>3. ASSUME NEW id \in M1!Packets, id # i
      PROVE  /\ out'[id] = out[id] 
             /\ out'[id] = <<>> \/ (out'[id] = <<out'[id][1]>> /\ Honest(id, out'[id][1], given', done'))
             /\ id > taken' => out'[id] = <<>>
  <2>1. out'[id] = out[id] /\ given'[id] = given[id] /\ done \subseteq done'
    BY <1>1, <1>3 DEF RobotsKeep
  <2>2. out[id] = <<>> \/ (out[id] = <<out[id][1]>> /\ Honest(id, out[id][1], given, done))
    BY DEF OutInv
  <2>3. id > taken' => id > taken
    BY Later
  <2>4. id > taken => out[id] = <<>>
    BY DEF OutInv
  <2>5. Honest(id, out[id][1], given, done) => Honest(id, out'[id][1], given', done')
    BY <2>1 DEF Honest
  <2> QED  BY <2>1, <2>2, <2>3, <2>4, <2>5
<1>4. out'[i] = <<a>> /\ out'[i][1] = a
  BY <1>1
<1>5. Honest(i, out'[i][1], given', done')
  BY <1>4 DEF Honest
<1>6. ~(i > taken')
  <2>1. i \in Nat /\ taken' \in Nat
    BY PacketsAreNumbers DEF RobotsKeep
  <2> QED  BY <2>1
<1> QED  BY <1>2, <1>3, <1>4, <1>5, <1>6 DEF OutInv

\* Nobody is answered.
LEMMA SilenceKeeps ==
    ASSUME OutInv, RobotsKeep, M1Types, out' = out,
           \A id \in M1!Packets : given'[id] = given[id] \/ out[id] = <<>>
    PROVE  OutInv'
<1>1. ASSUME NEW id \in M1!Packets
      PROVE  /\ out[id] = <<>> \/ (out[id] = <<out[id][1]>> /\ Honest(id, out[id][1], given', done'))
             /\ id > taken' => out[id] = <<>>
  <2>1. out[id] = <<>> \/ (out[id] = <<out[id][1]>> /\ Honest(id, out[id][1], given, done))
    BY DEF OutInv
  <2>2. id > taken' => out[id] = <<>>
    BY Later DEF OutInv
  <2>3. given'[id] = given[id] /\ Honest(id, out[id][1], given, done) => Honest(id, out[id][1], given', done')
    BY DEF Honest, RobotsKeep
  <2> QED  BY <2>1, <2>2, <2>3
<1> QED  BY <1>1 DEF OutInv
-----------------------------------------------------------------------------
\* Robots that get no command.
LEMMA TameRobots ==
    ASSUME M1Inv, robot' = [p \in SerialPorts |-> robot'[p]],
           \A p \in SerialPorts : Tamer(robot[p], robot'[p]),
           done' = done, given' = given, taken' \in Nat, taken <= taken'
    PROVE  RobotsKeep
<1>1. \A p \in SerialPorts : Keeps(robot[p], robot'[p], done, done')
  BY TamerKeeps
<1> QED  BY <1>1 DEF RobotsKeep

LEMMA SameRobots ==
    ASSUME M1Inv, robot' = robot, done' = done, given' = given, taken' \in Nat, taken <= taken'
    PROVE  RobotsKeep
<1>1. \A p \in SerialPorts : Tamer(robot[p], robot'[p])
  BY TamerSame DEF M1Inv
<1> QED  BY <1>1, TameRobots DEF M1Inv, M1Types

\* One robot starts, stops or is cleared, or gets its cells changed.
LEMMA OneTamed ==
    ASSUME M1Inv, NEW p, NEW s, robot' = [robot EXCEPT ![p] = s],
           p \in SerialPorts => Tamer(robot[p], s),
           done' = done, given' = given, taken' \in Nat, taken <= taken'
    PROVE  RobotsKeep
<1>1. robot' = [x \in SerialPorts |-> IF x = p THEN s ELSE robot[x]]
  BY DEF M1Inv, M1Types
<1>2. robot' = [x \in SerialPorts |-> robot'[x]]
  BY <1>1
<1>3. \A x \in SerialPorts : Tamer(robot[x], robot'[x])
  BY <1>1, TamerSame DEF M1Inv
<1> QED  BY <1>2, <1>3, TameRobots

\* One robot gets a command or does one.
LEMMA OneKeeps ==
    ASSUME M1Inv, NEW p \in SerialPorts, NEW s, robot' = [robot EXCEPT ![p] = s],
           Keeps(robot[p], s, done, done'), done \subseteq done',
           \A id \in 1..taken : given'[id] = given[id], taken' \in Nat, taken <= taken'
    PROVE  RobotsKeep
<1>1. robot' = [x \in SerialPorts |-> IF x = p THEN s ELSE robot[x]]
  BY DEF M1Inv, M1Types
<1>2. robot' = [x \in SerialPorts |-> robot'[x]]
  BY <1>1
<1>3. \A x \in SerialPorts : Keeps(robot[x], robot'[x], done, done')
  <2>1. ASSUME NEW x \in SerialPorts, x # p PROVE Keeps(robot[x], robot'[x], done, done')
    <3>1. RobotInv(robot[x]) /\ robot'[x] = robot[x]
      BY <1>1, <2>1 DEF M1Inv
    <3> QED  BY <3>1, TamerSame, TamerKeeps
  <2>2. robot'[p] = s
    BY <1>1
  <2> QED  BY <2>1, <2>2
<1> QED  BY <1>2, <1>3 DEF RobotsKeep

LEMMA IdledRobots ==
    ASSUME M1Inv, robot' = M1!Idled, done' = done, given' = given, taken' \in Nat, taken <= taken'
    PROVE  RobotsKeep
<1>1. CASE link = ""
  BY <1>1, SameRobots DEF M1!Idled
<1>2. CASE link # ""
  <2>1. robot' = [robot EXCEPT ![link] = M1!Cleared(M1!Stopped(robot[link]))]
    BY <1>2 DEF M1!Idled
  <2>2. link \in SerialPorts => Tamer(robot[link], M1!Cleared(M1!Stopped(robot[link])))
    BY TamerCalls DEF M1Inv
  <2>3. PICK p, s : p = link /\ s = M1!Cleared(M1!Stopped(robot[link]))
    OBVIOUS
  <2> QED  BY <2>1, <2>2, <2>3, OneTamed
<1> QED  BY <1>1, <1>2

\* What is left of the types when the robots keep their numbers.
LEMMA TypesKept ==
    ASSUME M1Inv, RobotsKeep, script' = script, taken' <= MaxPackets,
           link' \in SerialPorts \cup {""}, given' \in [M1!Packets -> SerialPorts \cup {""}]
    PROVE  M1Types' /\ \A p \in SerialPorts : RobotInv(robot[p])'
<1>1. M1Types'
  BY DEF M1Inv, M1Types, RobotsKeep, M1!Packets
<1>2. \A p \in SerialPorts : RobotInv(robot'[p])
  BY DEF RobotsKeep, Keeps
<1> QED  BY <1>1, <1>2 DEF RobotInv

\* Nobody new waits and nobody is answered.
LEMMA WaitersStay ==
    ASSUME M1Inv, RobotsKeep, m_waitFinishMap' \subseteq m_waitFinishMap,
           \A w \in m_waitFinishMap : out'[w.id] = out[w.id]
    PROVE  /\ \A w \in m_waitFinishMap' : WaiterInv(w)'
           /\ \A v, w \in m_waitFinishMap' : v.id = w.id => v = w
<1>1. ASSUME NEW w \in m_waitFinishMap' PROVE WaiterInv(w)'
  BY WaiterStays DEF M1Inv
<1> QED  BY <1>1 DEF M1Inv

LEMMA TakenBound ==
    ASSUME M1Inv, taken' = taken
    PROVE  taken' \in Nat /\ taken <= taken' /\ taken' <= MaxPackets
<1>1. taken \in Nat /\ taken <= MaxPackets
  BY DEF M1Inv, M1Types
<1> QED  BY ONLY <1>1, taken' = taken

LEMMA ExecuteInv ==
    ASSUME M1Inv, NEW p \in SerialPorts, M1!Execute(p)
    PROVE  M1Inv'
<1> DEFINE h == Head(robot[p].queue).id
           c == M1!Written(h) @@ robot[p].cells
           s == [[robot[p] EXCEPT !.cells = c] EXCEPT !.queue = Tail(@), !.index = Head(robot[p].queue).index]
<1>1. /\ robot' = [robot EXCEPT ![p] = s] /\ done' = done \cup {h} /\ robot[p].queue # <<>>
      /\ UNCHANGED <<script, taken, m_waitFinishMap, link, given, out>>
  BY DEF M1!Execute, M1!Applied
<1>2. RobotInv(robot[p])
  BY DEF M1Inv
<1>3. Keeps(robot[p], s, done, done')
  <2> HIDE DEF c
  <2> QED  BY <1>1, <1>2, ExecuteKeeps
<1>4. taken' \in Nat /\ taken <= taken'
  BY <1>1, TakenBound
<1>5. RobotsKeep
  <2>1. PICK t : t = s
    OBVIOUS
  <2>2. Keeps(robot[p], t, done, done') /\ robot' = [robot EXCEPT ![p] = t]
    BY <1>1, <1>3, <2>1
  <2> QED  BY <1>1, <1>4, <2>2, OneKeeps
<1>6. M1Types' /\ \A x \in SerialPorts : RobotInv(robot[x])'
  BY <1>1, <1>5, TypesKept DEF M1Inv, M1Types
<1>7. OutInv'
  BY <1>1, <1>5, SilenceKeeps DEF M1Inv
<1> QED  BY <1>1, <1>5, <1>6, <1>7, WaitersStay DEF M1Inv

LEMMA M1CloseInv ==
    ASSUME M1Inv, NEW ws, M1!CloseWebSocket(ws)
    PROVE  M1Inv'
<1>1. /\ UNCHANGED <<script, taken, m_waitFinishMap, done, given, out>>
      /\ robot' = robot \/ robot' = M1!Idled
      /\ link' = link \/ link' = ""
  BY DEF M1!CloseWebSocket, M1!disConnectPorts
<1>2. taken' \in Nat /\ taken <= taken' /\ taken' <= MaxPackets
  BY <1>1, TakenBound
<1>3. RobotsKeep
  BY <1>1, <1>2, SameRobots, IdledRobots
<1>4. M1Types' /\ \A x \in SerialPorts : RobotInv(robot[x])'
  BY <1>1, <1>2, <1>3, TypesKept DEF M1Inv, M1Types
<1>5. OutInv'
  BY <1>1, <1>3, SilenceKeeps DEF M1Inv
<1> QED  BY <1>1, <1>3, <1>4, <1>5, WaitersStay DEF M1Inv

-----------------------------------------------------------------------------
\* The object of request w.id changes its timers, or goes: only its own request may get
\* an answer.
LEMMA OneWaiter ==
    ASSUME M1Inv, RobotsKeep, NEW w \in m_waitFinishMap, NEW T, NEW l,
           m_waitFinishMap' = (m_waitFinishMap \ {w}) \cup {[w EXCEPT !.timers = T, !.listed = l]},
           \A id \in M1!Packets \ {w.id} : out'[id] = out[id],
           T # {} => l /\ out'[w.id] = <<>>,
           l => T # {}
    PROVE  /\ \A x \in m_waitFinishMap' : WaiterInv(x)'
           /\ \A u, x \in m_waitFinishMap' : u.id = x.id => u = x
<1>0. PICK v : v = [w EXCEPT !.timers = T, !.listed = l]
  OBVIOUS
<1>1. m_waitFinishMap' = (m_waitFinishMap \ {w}) \cup {v}
  BY <1>0
<1>2. WaiterInv(v)' /\ v.id = w.id
  BY <1>0, WaiterKeeps DEF M1Inv
<1>3. ASSUME NEW x \in m_waitFinishMap, x # w PROVE WaiterInv(x)' /\ x.id # w.id
  <2>1. x.id # w.id /\ WaiterInv(x) /\ M1Types
    BY <1>3 DEF M1Inv
  <2>2. x.id \in M1!Packets
    <3>1. x.id \in 1..taken /\ taken \in Nat /\ taken <= MaxPackets
      BY <2>1 DEF WaiterInv, M1Types
    <3> QED  BY <3>1, PacketsAreNumbers DEF M1!Packets
  <2>3. out'[x.id] = out[x.id]
    BY <2>1, <2>2
  <2> QED  BY <2>1, <2>3, WaiterStays
<1>4. \A u, x \in m_waitFinishMap : u.id = x.id => u = x
  BY DEF M1Inv
<1> QED  BY <1>1, <1>2, <1>3, <1>4

LEMMA WaitFrame ==
    ASSUME M1Inv, M1!waitFrame
    PROVE  RobotsKeep /\ M1Types' /\ \A p \in SerialPorts : RobotInv(robot[p])'
<1>1. UNCHANGED <<script, taken, link, robot, done, given>>
  BY DEF M1!waitFrame
<1>2. taken' \in Nat /\ taken <= taken' /\ taken' <= MaxPackets
  BY <1>1, TakenBound
<1>3. RobotsKeep
  BY <1>1, <1>2, SameRobots
<1> QED  BY <1>1, <1>2, <1>3, TypesKept DEF M1Inv, M1Types

LEMMA WaiterHere ==
    ASSUME M1Inv, NEW w \in m_waitFinishMap
    PROVE  w.id \in M1!Packets /\ w.id <= taken /\ given[w.id] \in SerialPorts
           /\ (w.timers # {} => w.listed /\ out[w.id] = <<>>)
           /\ Numbered(robot[given[w.id]], w.id, w.target, done)
<1>1. WaiterInv(w) /\ taken \in Nat /\ taken <= MaxPackets
  BY DEF M1Inv, M1Types
<1>2. w.id \in 1..taken
  BY <1>1 DEF WaiterInv
<1>3. w.id \in M1!Packets /\ w.id <= taken
  BY <1>1, <1>2, PacketsAreNumbers DEF M1!Packets
<1> QED  BY <1>1, <1>3 DEF WaiterInv

LEMMA FinishInv ==
    ASSUME M1Inv, M1!waitFrame, NEW w \in m_waitFinishMap, w.timers # {}, NEW ok, M1!Finish(w, {}, ok),
           ok /\ link = given[w.id] => w.id \in done
    PROVE  M1Inv'
<1> DEFINE a == [M1!Said(ok, <<>>) EXCEPT !.waited = TRUE]
<1>1. RobotsKeep /\ M1Types' /\ \A p \in SerialPorts : RobotInv(robot[p])'
  BY WaitFrame
<1>2. /\ m_waitFinishMap' = (m_waitFinishMap \ {w}) \cup {[w EXCEPT !.timers = {}, !.listed = FALSE]}
      /\ M1!Answer(w.id, a)
  BY DEF M1!Finish
<1>3. UNCHANGED <<taken, given, done>>
  BY DEF M1!waitFrame
<1>4. a.ok = ok /\ a.from = link
  BY DEF M1!Said
<1>5. Honest(w.id, a, given', done')
  BY <1>3, <1>4 DEF Honest
<1> HIDE DEF a
<1>6. w.id \in M1!Packets /\ w.id <= taken' /\ out[w.id] = <<>>
  BY <1>3, WaiterHere
<1>7. OutInv' /\ \A id \in M1!Packets \ {w.id} : out'[id] = out[id]
  BY <1>1, <1>2, <1>3, <1>5, <1>6, AnswerKeeps DEF M1Inv
<1>8. /\ \A x \in m_waitFinishMap' : WaiterInv(x)'
      /\ \A u, x \in m_waitFinishMap' : u.id = x.id => u = x
  BY <1>1, <1>2, <1>7, OneWaiter
<1> QED  BY <1>1, <1>7, <1>8 DEF M1Inv

LEMMA TimersInv ==
    ASSUME M1Inv, NEW w \in m_waitFinishMap,
           \/ M1!onMinTimeOut(w) \/ M1!onMaxTimeOut(w) \/ M1!onCheckTimeOut(w) \/ M1!Delete(w)
    PROVE  M1Inv'
<1>0. M1!waitFrame
  BY DEF M1!onMinTimeOut, M1!onMaxTimeOut, M1!onCheckTimeOut, M1!Delete
<1>1. RobotsKeep /\ M1Types' /\ \A p \in SerialPorts : RobotInv(robot[p])'
  BY <1>0, WaitFrame
<1>2. ASSUME out' = out PROVE OutInv'
  BY <1>0, <1>1, <1>2, SilenceKeeps DEF M1Inv, M1!waitFrame
<1>3. CASE M1!onMinTimeOut(w)
  <2>1. /\ w.timers # {} /\ out' = out
        /\ m_waitFinishMap' = (m_waitFinishMap \ {w}) \cup {[w EXCEPT !.timers = {"check", "max"}]}
    BY <1>3 DEF M1!onMinTimeOut
  <2>2. w.listed /\ out[w.id] = <<>>
    BY <2>1, WaiterHere
  <2>3. [w EXCEPT !.timers = {"check", "max"}] = [w EXCEPT !.timers = {"check", "max"}, !.listed = w.listed]
    <3>1. w = [id |-> w.id, target |-> w.target, timers |-> w.timers, listed |-> w.listed]
      BY DEF M1Inv, WaiterInv
    <3> QED  BY ONLY <3>1
  <2>4. PICK T, l : T = {"check", "max"} /\ l = w.listed
    OBVIOUS
  <2>5. m_waitFinishMap' = (m_waitFinishMap \ {w}) \cup {[w EXCEPT !.timers = T, !.listed = l]}
    BY <2>1, <2>3, <2>4
  <2>6. T # {} /\ l
    BY <2>2, <2>4
  <2>7. /\ \A x \in m_waitFinishMap' : WaiterInv(x)'
        /\ \A u, x \in m_waitFinishMap' : u.id = x.id => u = x
    BY <1>1, <2>1, <2>2, <2>5, <2>6, OneWaiter
  <2> QED  BY <1>1, <1>2, <2>1, <2>7 DEF M1Inv
<1>4. CASE M1!onMaxTimeOut(w)
  BY <1>0, <1>4, FinishInv DEF M1!onMaxTimeOut
<1>5. CASE M1!onCheckTimeOut(w)
  <2>1. w.timers # {}
    BY <1>5 DEF M1!onCheckTimeOut
  <2>2. \/ link # "" /\ w.target = robot[link].index /\ M1!Finish(w, {}, TRUE)
        \/ M1!Finish(w, {}, FALSE)
        \/ m_waitFinishMap' = m_waitFinishMap /\ out' = out
    BY <1>5 DEF M1!onCheckTimeOut, M1!Calls, M1!IsDone
  <2>3. CASE link # "" /\ w.target = robot[link].index /\ M1!Finish(w, {}, TRUE)
    <3>1. link = given[w.id] => w.id \in done
      BY <2>3, WaiterHere DEF Numbered
    <3> QED  BY <1>0, <2>1, <2>3, <3>1, FinishInv
  <2>4. CASE M1!Finish(w, {}, FALSE)
    BY <1>0, <2>1, <2>4, FinishInv
  <2>5. CASE m_waitFinishMap' = m_waitFinishMap /\ out' = out
    BY <1>1, <1>2, <2>5, WaitersStay DEF M1Inv
  <2> QED  BY <2>2, <2>3, <2>4, <2>5
<1>6. CASE M1!Delete(w)
  BY <1>1, <1>2, <1>6, WaitersStay DEF M1Inv, M1!Delete
<1> QED  BY <1>3, <1>4, <1>5, <1>6

-----------------------------------------------------------------------------
\* A request comes in: it is the next one, and it is a request of the script.
LEMMA NextRequest ==
    ASSUME M1Inv, M1!pReceiveMassage
    PROVE  /\ script' = script /\ taken' = taken + 1
           /\ taken + 1 \in M1!Packets /\ taken + 1 > taken
           /\ taken' \in Nat /\ taken <= taken' /\ taken' <= MaxPackets /\ taken + 1 <= taken'
           /\ out[taken + 1] = <<>>
<1>1. script' = script /\ taken' = taken + 1 /\ taken < Len(script.reqs)
  BY DEF M1!pReceiveMassage, M1!packets
<1>2. script \in Scripts /\ taken \in Nat
  BY DEF M1Inv, M1Types
<1>3. Len(script.reqs) \in 0..MaxPackets /\ MaxPackets \in Nat
  BY <1>2, M1Assumption, Zenon
<1>4. taken + 1 \in 1..MaxPackets /\ taken + 1 \in 1..Len(script.reqs) /\ taken + 1 > taken
  BY <1>1, <1>2, <1>3
<1>6. out[taken + 1] = <<>>
  BY <1>4 DEF M1Inv, OutInv, M1!Packets
<1>7. taken' \in Nat /\ taken <= taken' /\ taken' <= MaxPackets /\ taken + 1 <= taken'
  BY <1>1, <1>2, <1>3, <1>4
<1> QED  BY <1>1, <1>4, <1>6, <1>7 DEF M1!Packets

\* The answers of the handlers are not about waiting.
Plainly(id) == out' = out \/ \E a : a.waited = FALSE /\ M1!Answer(id, a)

LEMMA Saying ==
    /\ \A ok, doc : M1!Said(ok, doc).waited = FALSE
    /\ \A ok, doc, p : [M1!Said(ok, doc) EXCEPT !.from = p].waited = FALSE
  BY DEF M1!Said

LEMMA SayingPlainly ==
    /\ \A id, ok, doc : M1!Answer(id, M1!Said(ok, doc)) => Plainly(id)
    /\ \A id, ok, doc, p : M1!Answer(id, [M1!Said(ok, doc) EXCEPT !.from = p]) => Plainly(id)
    /\ \A id : M1!Refuse(id) => Plainly(id)
  BY Saying DEF Plainly, M1!Refuse

LEMMA PlainKeeps ==
    ASSUME M1Inv, RobotsKeep, NEW i \in M1!Packets, i > taken, i <= taken', out[i] = <<>>, Plainly(i),
           \A id \in M1!Packets \ {i} : given'[id] = given[id]
    PROVE  OutInv' /\ \A id \in M1!Packets \ {i} : out'[id] = out[id]
<1>1. CASE out' = out
  BY <1>1, SilenceKeeps DEF M1Inv
<1>2. ASSUME NEW a, a.waited = FALSE, M1!Answer(i, a) PROVE OutInv' /\ \A id \in M1!Packets \ {i} : out'[id] = out[id]
  <2>1. Honest(i, a, given', done')
    BY <1>2 DEF Honest
  <2> QED  BY <1>2, <2>1, AnswerKeeps DEF M1Inv
<1> QED  BY <1>1, <1>2 DEF Plainly

\* Those who wait are not asking just now.
LEMMA WaitersEarlier ==
    ASSUME M1Inv, NEW w \in m_waitFinishMap, NEW i \in M1!Packets, i > taken
    PROVE  w.id # i /\ w.id \in M1!Packets
<1>1. w.id \in M1!Packets /\ w.id <= taken
  BY WaiterHere
<1>2. taken \in Nat /\ i \in Nat /\ w.id \in Nat
  BY <1>1, PacketsAreNumbers DEF M1Inv, M1Types
<1> QED  BY <1>1, <1>2

\* What a handler may do besides SetCall: nobody new waits.
LEMMA PlainInv ==
    ASSUME M1Inv, M1!pReceiveMassage, RobotsKeep, Plainly(taken + 1),
           given' = given, link' \in SerialPorts \cup {""}, m_waitFinishMap' = m_waitFinishMap
    PROVE  M1Inv'
<1>1. PICK i \in M1!Packets : i = taken + 1
  BY NextRequest
<1>2. script' = script /\ i > taken /\ i <= taken' /\ taken' <= MaxPackets /\ out[i] = <<>>
  BY <1>1, NextRequest
<1>p. Plainly(i)
  BY <1>1 DEF Plainly, M1!Answer
<1>3. M1Types' /\ \A p \in SerialPorts : RobotInv(robot[p])'
  BY <1>2, TypesKept DEF M1Inv, M1Types
<1>4. OutInv' /\ \A id \in M1!Packets \ {i} : out'[id] = out[id]
  BY <1>2, <1>p, PlainKeeps
<1>5. \A w \in m_waitFinishMap : out'[w.id] = out[w.id]
  BY <1>2, <1>4, WaitersEarlier
<1> QED  BY <1>3, <1>4, <1>5, WaitersStay DEF M1Inv

\* What most handlers change: they may start, stop or clear a robot, or the link.
PlainEffect ==
    /\ Plainly(taken + 1)
    /\ UNCHANGED <<done, given, m_waitFinishMap>>
    /\ link' \in SerialPorts \cup {link, ""}
    /\ \/ robot' = robot
       \/ robot' = M1!Idled
       \/ \E p, s : /\ robot' = [robot EXCEPT ![p] = s]
                    /\ s \in {M1!Started(robot[p]), M1!Stopped(robot[p]), M1!Cleared(robot[p])}

LEMMA PlainEffectInv ==
    ASSUME M1Inv, M1!pReceiveMassage, PlainEffect
    PROVE  M1Inv'
<1>1. taken' \in Nat /\ taken <= taken' /\ link' \in SerialPorts \cup {""}
  BY NextRequest DEF PlainEffect, M1Inv, M1Types
<1>2. ASSUME NEW p, NEW s, robot' = [robot EXCEPT ![p] = s],
             s \in {M1!Started(robot[p]), M1!Stopped(robot[p]), M1!Cleared(robot[p])}
      PROVE  RobotsKeep
  <2>1. p \in SerialPorts => Tamer(robot[p], s)
    BY <1>2, TamerCalls DEF M1Inv
  <2> QED  BY <1>1, <1>2, <2>1, OneTamed DEF PlainEffect
<1>3. RobotsKeep
  BY <1>1, <1>2, SameRobots, IdledRobots DEF PlainEffect
<1> QED  BY <1>1, <1>3, PlainInv DEF PlainEffect

LEMMA HandlersPlain ==
    ASSUME NEW id, id = taken + 1
    PROVE  /\ M1!pSearchDobot(id) => PlainEffect
           /\ M1!pConnectDobot(id) => PlainEffect
           /\ M1!GetCall(id) => PlainEffect
           /\ \A type : M1!QueueCall(id, type) => PlainEffect
<1>1. M1!pSearchDobot(id) => PlainEffect
  BY SayingPlainly DEF M1!pSearchDobot, PlainEffect
<1>2. M1!pConnectDobot(id) => PlainEffect
  BY SayingPlainly DEF M1!pConnectDobot, PlainEffect, M1!packets
<1>3. M1!GetCall(id) => PlainEffect
  BY SayingPlainly DEF M1!GetCall, M1!Calls, PlainEffect
<1>4. ASSUME NEW type, M1!QueueCall(id, type) PROVE PlainEffect
  BY <1>4, SayingPlainly DEF M1!QueueCall, M1!Calls, PlainEffect
<1> QED  BY <1>1, <1>2, <1>3, <1>4

\* pDisConnectDobot: those who wait are let go of.
LEMMA DisConnectInv ==
    ASSUME M1Inv, M1!pReceiveMassage, M1!pDisConnectDobot(taken + 1)
    PROVE  M1Inv'
<1> DEFINE waiting == {w \in m_waitFinishMap : w.listed}
           Gone(w) == [w EXCEPT !.timers = {}, !.listed = FALSE]
<1>1. Plainly(taken + 1) /\ UNCHANGED <<done, given>> /\ (link' = link \/ link' = "")
  BY SayingPlainly DEF M1!pDisConnectDobot
<1>2. \/ robot' = robot /\ m_waitFinishMap' = m_waitFinishMap
      \/ robot' = M1!Idled /\ m_waitFinishMap' = (m_waitFinishMap \ waiting) \cup {Gone(w) : w \in waiting}
  BY DEF M1!pDisConnectDobot
<1>3. CASE robot' = robot /\ m_waitFinishMap' = m_waitFinishMap
  BY <1>1, <1>3, PlainEffectInv DEF PlainEffect
<1>4. CASE robot' = M1!Idled /\ m_waitFinishMap' = (m_waitFinishMap \ waiting) \cup {Gone(w) : w \in waiting}
  <2>1. PICK i \in M1!Packets : i = taken + 1
    BY NextRequest
  <2>2. script' = script /\ i > taken /\ taken' <= MaxPackets /\ out[i] = <<>>
    BY <2>1, NextRequest
  <2>3. i <= taken' /\ taken' \in Nat /\ taken <= taken'
    BY <2>1, NextRequest
  <2>4. Plainly(i)
    BY <1>1, <2>1 DEF Plainly, M1!Answer
  <2>5. RobotsKeep
    BY <1>1, <1>4, <2>3, IdledRobots
  <2>6. M1Types' /\ \A p \in SerialPorts : RobotInv(robot[p])'
    BY <1>1, <2>2, <2>5, TypesKept DEF M1Inv, M1Types
  <2>7. OutInv' /\ \A id \in M1!Packets \ {i} : out'[id] = out[id]
    BY <1>1, <2>2, <2>3, <2>4, <2>5, PlainKeeps
  <2>8. ASSUME NEW w \in m_waitFinishMap
        PROVE  WaiterInv(w)' /\ \A v : v = Gone(w) => WaiterInv(v)' /\ v.id = w.id
    <3>1. WaiterInv(w) /\ M1Types
      BY DEF M1Inv
    <3>2. out'[w.id] = out[w.id]
      BY <2>2, <2>7, WaitersEarlier
    <3>3. WaiterInv(w)'
      BY <2>5, <3>1, <3>2, WaiterStays
    <3>4. ASSUME NEW v, v = Gone(w) PROVE WaiterInv(v)' /\ v.id = w.id
      BY <2>5, <3>1, <3>4, WaiterGone
    <3> QED  BY <3>3, <3>4
  <2> HIDE DEF Gone
  <2>9. \A w \in m_waitFinishMap' : WaiterInv(w)'
    BY <1>4, <2>8
  <2>10. ASSUME NEW u \in m_waitFinishMap', NEW x \in m_waitFinishMap', u.id = x.id PROVE u = x
    <3>1. PICK v \in m_waitFinishMap : (v \notin waiting /\ u = v) \/ (v \in waiting /\ u = Gone(v))
      BY <1>4
    <3>2. PICK y \in m_waitFinishMap : (y \notin waiting /\ x = y) \/ (y \in waiting /\ x = Gone(y))
      BY <1>4
    <3>3. v.id = u.id /\ y.id = x.id
      BY <2>8, <3>1, <3>2
    <3>4. v = y
      BY <2>10, <3>3 DEF M1Inv
    <3> QED  BY <3>1, <3>2, <3>4
  <2> QED  BY <2>6, <2>7, <2>9, <2>10 DEF M1Inv
<1> QED  BY <1>2, <1>3, <1>4

\* A Set call that works, at once or into the queue.
LEMMA SetWorks ==
    ASSUME M1Inv, M1!pReceiveMassage, M1!SetCall(taken + 1), ~PlainEffect
    PROVE  M1Inv'
<1>1. PICK i \in M1!Packets : i = taken + 1
  BY NextRequest
<1> DEFINE r == robot[link]
           queued == [r EXCEPT !.queue = Append(@, [id |-> i, index |-> r.next]), !.next = @ + 1]
           new == M1!M1WaitForFinish(i, r.next)
<1>2. /\ link # "" /\ link' = link /\ given' = [given EXCEPT ![i] = link]
      /\ \/ /\ robot' = [robot EXCEPT ![link] = M1!Applied(r, i)] /\ done' = done \cup {i}
            /\ m_waitFinishMap' = m_waitFinishMap /\ Plainly(i)
         \/ /\ robot' = [robot EXCEPT ![link] = queued] /\ done' = done
            /\ \/ m_waitFinishMap' = m_waitFinishMap /\ Plainly(i)
               \/ m_waitFinishMap' = m_waitFinishMap \cup {new} /\ out' = out
  <2>1. M1!SetCall(i)
    BY <1>1
  <2>2. ~PlainEffect
    OBVIOUS
  <2> QED  BY <1>1, <2>1, <2>2, SayingPlainly DEF M1!SetCall, M1!Calls, PlainEffect
<1>3. link \in SerialPorts /\ RobotInv(r)
  BY <1>2 DEF M1Inv, M1Types
<1>4. script' = script /\ i > taken /\ taken' <= MaxPackets /\ out[i] = <<>>
  BY <1>1, NextRequest
<1>5. i <= taken' /\ taken' \in Nat /\ taken <= taken'
  BY <1>1, NextRequest
<1>6. /\ given' \in [M1!Packets -> SerialPorts \cup {""}] /\ given'[i] = link
      /\ \A id \in M1!Packets \ {i} : given'[id] = given[id]
  BY <1>2 DEF M1Inv, M1Types
<1>7. \A id \in 1..taken : given'[id] = given[id]
  <2>1. taken \in Nat /\ taken <= MaxPackets
    BY DEF M1Inv, M1Types
  <2>2. i \in Nat /\ i > taken /\ MaxPackets \in Nat
    BY <1>4, PacketsAreNumbers
  <2>3. \A id \in 1..taken : id \in 1..MaxPackets /\ id # i
    BY ONLY <2>1, <2>2
  <2> QED  BY <1>6, <2>3 DEF M1!Packets
<1> DEFINE atOnce == /\ robot' = [robot EXCEPT ![link] = M1!Applied(r, i)] /\ done' = done \cup {i}
                     /\ m_waitFinishMap' = m_waitFinishMap /\ Plainly(i)
           later == robot' = [robot EXCEPT ![link] = queued] /\ done' = done
           waits == m_waitFinishMap' = m_waitFinishMap \cup {new} /\ out' = out
<1>8. \/ atOnce
      \/ later /\ m_waitFinishMap' = m_waitFinishMap /\ Plainly(i)
      \/ later /\ waits
  BY <1>2
<1>9. PICK p \in SerialPorts : p = link
  BY <1>3
<1>10. RobotsKeep
  <2>1. ASSUME NEW s, robot' = [robot EXCEPT ![p] = s], Keeps(robot[p], s, done, done'),
               done \subseteq done'
        PROVE  RobotsKeep
    BY <1>5, <1>7, <2>1, OneKeeps
  <2>2. CASE atOnce
    <3>1. PICK c : c = M1!Written(i) @@ r.cells
      OBVIOUS
    <3>2. M1!Applied(r, i) = [r EXCEPT !.cells = c]
      BY <3>1 DEF M1!Applied
    <3>3. PICK s : s = [r EXCEPT !.cells = c]
      OBVIOUS
    <3>4. Tamer(r, s)
      BY <1>3, <3>3, TamerApplied
    <3>5. done \subseteq done'
      BY <2>2
    <3>6. Keeps(robot[p], s, done, done')
      BY <1>9, <3>4, <3>5, TamerKeeps
    <3>7. robot' = [robot EXCEPT ![p] = s]
      BY <1>9, <2>2, <3>2, <3>3
    <3> QED  BY <2>1, <3>5, <3>6, <3>7
  <2>3. CASE later
    <3>1. PICK s : s = queued
      OBVIOUS
    <3>2. Keeps(robot[p], s, done, done)
      BY <1>3, <1>9, <3>1, AppendKeeps
    <3> QED  BY <1>9, <2>1, <2>3, <3>1, <3>2
  <2> QED  BY <1>8, <2>2, <2>3
<1>11. M1Types' /\ \A x \in SerialPorts : RobotInv(robot[x])'
  <2>1. link' \in SerialPorts \cup {""}
    BY <1>2, <1>3
  <2> QED  BY <1>4, <1>6, <1>10, <2>1, TypesKept
<1>12. CASE m_waitFinishMap' = m_waitFinishMap /\ Plainly(i)
  <2>1. OutInv' /\ \A id \in M1!Packets \ {i} : out'[id] = out[id]
    BY <1>4, <1>5, <1>6, <1>10, <1>12, PlainKeeps
  <2>2. \A w \in m_waitFinishMap : out'[w.id] = out[w.id]
    BY <1>4, <2>1, WaitersEarlier
  <2> QED  BY <1>10, <1>11, <1>12, <2>1, <2>2, WaitersStay DEF M1Inv
<1>13. CASE later /\ waits
  <2>1. OutInv'
    BY <1>4, <1>6, <1>10, <1>13, SilenceKeeps DEF M1Inv
  <2>2. PICK v : v = [id |-> i, target |-> r.next, timers |-> {"min"}, listed |-> TRUE]
    OBVIOUS
  <2>3. new = v /\ v.id = i /\ v.target = r.next /\ v.timers = {"min"} /\ v.listed = TRUE
    BY <2>2 DEF M1!M1WaitForFinish
  <2>4. v = [id |-> v.id, target |-> v.target, timers |-> v.timers, listed |-> v.listed]
    BY <2>2
  <2>5. r.next \in Nat /\ Numbered(robot'[link], i, r.next, done')
    <3>1. PICK s : s = queued
      OBVIOUS
    <3>2. Numbered(s, i, r.next, done) /\ r.next \in Nat
      BY <1>3, <3>1, AppendKeeps
    <3>3. robot'[link] = s
      <4>1. robot = [x \in SerialPorts |-> robot[x]]
        BY DEF M1Inv, M1Types
      <4>2. robot' = [robot EXCEPT ![link] = s]
        BY <1>13, <3>1
      <4> QED  BY ONLY <1>3, <4>1, <4>2
    <3> QED  BY <1>13, <3>2, <3>3
  <2>6. i \in 1..taken'
    <3>1. i \in 1..MaxPackets /\ MaxPackets \in Nat
      BY PacketsAreNumbers DEF M1!Packets
    <3> QED  BY <1>5, <3>1
  <2>7. out'[i] = <<>>
    BY <1>4, <1>13
  <2> HIDE DEF new
  <2>8. WaiterInv(v)'
    <3>1. v.timers # {} /\ v.listed
      BY <2>3
    <3>2. v.id \in 1..taken' /\ v.target \in Nat /\ given'[v.id] \in SerialPorts /\ out'[v.id] = <<>>
      BY <1>3, <1>6, <2>3, <2>5, <2>6, <2>7
    <3>3. Numbered(robot'[given'[v.id]], v.id, v.target, done')
      BY <1>6, <2>3, <2>5
    <3> QED  BY <2>4, <3>1, <3>2, <3>3 DEF WaiterInv
  <2>9. ASSUME NEW w \in m_waitFinishMap PROVE WaiterInv(w)' /\ w.id # i
    <3>1. w.id # i
      BY <1>4, WaitersEarlier
    <3>2. out'[w.id] = out[w.id]
      BY <1>13
    <3> QED  BY <1>10, <3>1, <3>2, WaiterStays DEF M1Inv
  <2>10. m_waitFinishMap' = m_waitFinishMap \cup {v}
    BY <1>13, <2>3
  <2>11. \A u, x \in m_waitFinishMap' : u.id = x.id => u = x
    BY <2>3, <2>9, <2>10 DEF M1Inv
  <2>12. \A w \in m_waitFinishMap' : WaiterInv(w)'
    BY <2>8, <2>9, <2>10
  <2> QED  BY <1>11, <2>1, <2>11, <2>12 DEF M1Inv
<1> QED  BY <1>8, <1>12, <1>13

LEMMA ReceiveInv ==
    ASSUME M1Inv, M1!pReceiveMassage
    PROVE  M1Inv'
<1>1. PICK i : i = taken + 1
  OBVIOUS
<1>2. \/ PlainEffect
      \/ M1!pSearchDobot(i) \/ M1!pConnectDobot(i) \/ M1!pDisConnectDobot(i) \/ M1!SetCall(i)
      \/ M1!GetCall(i) \/ \E type : M1!QueueCall(i, type)
  BY <1>1, SayingPlainly DEF M1!pReceiveMassage, PlainEffect, Plainly
<1>3. CASE M1!pDisConnectDobot(i)
  BY <1>1, <1>3, DisConnectInv
<1>4. CASE M1!SetCall(i)
  BY <1>1, <1>4, SetWorks, PlainEffectInv
<1> QED  BY <1>1, <1>2, <1>3, <1>4, HandlersPlain, PlainEffectInv

-----------------------------------------------------------------------------
LEMMA M1InvStart ==
    ASSUME PluginsInit
    PROVE  M1Inv
<1>1. M1!M1Init
  BY DEF PluginsInit
<1> USE DEF M1!M1Init
<1>2. \A p \in SerialPorts : RobotInv(robot[p])
  <2>1. PICK r : r = [cells |-> <<>>, queue |-> <<>>, running |-> FALSE, next |-> 1, index |-> 0]
    OBVIOUS
  <2>2. RobotInv(r)
    BY <2>1 DEF RobotInv
  <2>3. \A p \in SerialPorts : robot[p] = r
    BY <1>1, <2>1
  <2> QED  BY ONLY <2>2, <2>3
<1>3. OutInv
  BY <1>1 DEF OutInv
<1>4. M1Types
  <2>1. taken \in Nat /\ taken <= MaxPackets
    <3>1. taken = 0 /\ MaxPackets \in Nat
      BY <1>1, PacketsAreNumbers
    <3> QED  BY ONLY <3>1
  <2>2. robot = [p \in SerialPorts |-> robot[p]]
    BY <1>1
  <2> QED  BY <1>1, <2>1, <2>2 DEF M1Types
<1>5. m_waitFinishMap = {}
  BY <1>1
<1> QED  BY ONLY <1>2, <1>3, <1>4, <1>5 DEF M1Inv

LEMMA M1InvStep ==
    ASSUME M1Inv, [PluginsNext]_<<vars, m1Vars, taskVars, runnerVars, toolVars>>
    PROVE  M1Inv'
<1>1. CASE UNCHANGED m1Vars
  BY <1>1 DEF m1Vars, M1Inv, M1Types, OutInv, WaiterInv, RobotInv
<1>2. CASE M1!M1Next
  BY <1>2, ReceiveInv, M1CloseInv, ExecuteInv, TimersInv DEF M1!M1Next
<1> QED  BY <1>1, <1>2 DEF PluginsNext

\* What is always so of the M1Plugin: every robot numbers its commands in order, an
\* M1WaitForFinish knows the number of its own request, and a request that is still
\* waited for has no answer (M1Controller.cpp, M1WaitForFinish.cpp).
THEOREM M1Waits == PluginsSpec => []M1Inv
  BY M1InvStart, M1InvStep, PTL DEF PluginsSpec

LEMMA M1Answers ==
    ASSUME M1Inv
    PROVE  M1FinishHonest /\ M1!M1AnsweredOnce
<1>1. ASSUME NEW id \in M1!Packets
      PROVE  /\ Len(out[id]) <= 1
             /\ \A n \in DOMAIN out[id] : Honest(id, out[id][n], given, done)
  <2>1. out[id] = <<>> \/ (out[id] = <<out[id][1]>> /\ Honest(id, out[id][1], given, done))
    BY DEF M1Inv, OutInv
  <2>2. PICK s : s = out[id]
    OBVIOUS
  <2>3. CASE s = <<>>
    BY ONLY <2>2, <2>3
  <2>4. ASSUME NEW a, s = <<a>>, Honest(id, a, given, done)
        PROVE  Len(s) <= 1 /\ \A n \in DOMAIN s : Honest(id, s[n], given, done)
    BY <2>4
  <2> QED  BY <2>1, <2>2, <2>3, <2>4
<1> QED  BY <1>1 DEF M1FinishHonest, M1!FinishHonest, M1!M1AnsweredOnce, Honest

\* A queued command that the M1Plugin reports as finished has been done, whatever is
\* connected, cleared, disconnected and asked in between (M1WaitForFinish.cpp 50-77), as
\* long as the answer comes from the robot that got the command.
THEOREM WaitedIsDone == PluginsSpec => []M1FinishHonest
  BY M1Waits, M1Answers, PTL

\* No request is answered twice, also when the check and the timeout of the object that
\* waits for it come close to one another, or a client disconnects while it waits.
THEOREM M1OneAnswer == PluginsSpec => []M1!M1AnsweredOnce
  BY M1Waits, M1Answers, PTL
=============================================================================
