---------------------------- MODULE M1Controller -----------------------------
(***************************************************************************)
(* The M1Plugin: requests of several clients, the one connection that the  *)
(* DobotDll keeps, and the waiting for queued commands to be done.         *)
(*                                                                         *)
(* The dll has one connection for the whole process: a call goes to the    *)
(* robot it is connected to, whatever port the request names.  A robot     *)
(* numbers its queued commands and tells the number of the last one done.  *)
(* A value is known by the request and the parameter it comes from.        *)
(***************************************************************************)
EXTENDS M1Requests, Integers, Sequences, FiniteSets, SequencesExt

CONSTANTS
    Scripts,        \* what clients ask: [reqs, faults, closes, reads]
    MaxPackets,     \* requests of the longest script
    SerialPorts     \* names of the ports an M1 hangs on

VARIABLES
    script,                 \* the script that is played
    taken,                  \* how many of its requests have come in
    left,                   \* clients that have gone; 0 when all have to (EXIT)
    failures,               \* calls of the dll that may still fail
    m_DevInfoMap,           \* for every port seen, isConnected
    m_portNameClientMap,    \* for every port, the client that connected it
    m_waitFinishMap,        \* the M1WaitForFinish objects, also those about to be deleted
    link,                   \* the port the dll is connected to; "" for none
    robot,                  \* the robots
    done,                   \* requests whose call has taken effect
    given,                  \* for every request, the robot that got its call
    out,                    \* for every request, the answers to it
    forgotten               \* requests the code forgot

m1Vars == <<script, taken, left, failures, m_DevInfoMap, m_portNameClientMap, m_waitFinishMap, link, robot, done, given,
            out, forgotten>>
packets == script.reqs
Packets == 1..MaxPackets
\* The value that request id gave for parameter n; what a cast to an integer
\* leaves of it; a default; memory nobody wrote; bytes shown as text.
Value(id, n) == [by |-> id, as |-> n]
WholePart(id, n) == [by |-> id, as |-> <<n, "whole part">>]
Default == Value(0, "default")
Uninitialized == Value(0, "uninitialized")
Text == Value(0, "text")

M1Init ==
    /\ script \in Scripts
    /\ taken = 0
    /\ left = {}
    /\ failures = script.faults
    /\ m_DevInfoMap = <<>>
    /\ m_portNameClientMap = <<>>
    /\ m_waitFinishMap = {}
    /\ link = ""
    /\ robot = [p \in SerialPorts |-> [cells |-> <<>>, queue |-> <<>>, running |-> FALSE, next |-> 1, index |-> 0]]
    /\ done = {}
    /\ given = [id \in Packets |-> ""]
    /\ out = [id \in Packets |-> <<>>]
    /\ forgotten = {}

isDeviceConnected(p) == p \in DOMAIN m_DevInfoMap /\ m_DevInfoMap[p]

Said(ok, doc) == [ok |-> ok, doc |-> doc, waited |-> FALSE, from |-> link]
\* getCmdResultObj and getConnectResultObj: one answer, the data when there is some.
Answer(id, a) == out' = [out EXCEPT ![id] = Append(@, a)]
Refuse(id) == Answer(id, Said(FALSE, <<>>))

\* A call of the dll does its work, or fails with some error: without a connection
\* always, with one when something breaks.
Calls(works, fails) ==
    \/ link # "" /\ works /\ UNCHANGED failures
    \/ link = "" /\ fails /\ UNCHANGED failures
    \/ link # "" /\ failures > 0 /\ failures' = failures - 1 /\ fails

-----------------------------------------------------------------------------
\* What is stored of parameter n of request id, read with conversion as: toInt does not
\* take a fraction, a cast cuts it off, and a loop over the elements given leaves the
\* others as they are.
Converted(id, n, as) ==
    IF as \in {"counted", "toInt"} /\ packets[id].fraction THEN Default
    ELSE IF as = "cast" /\ packets[id].fraction THEN WholePart(id, n)
    ELSE IF as = "counted" /\ packets[id].short THEN Uninitialized
    ELSE Value(id, n)

\* The cells that request id sets, and a robot after that.
Written(id) ==
    LET h == Handler[packets[id].api]
        cell(n) == <<h.call, h.fields[n].to>>
        param(c) == CHOOSE n \in DOMAIN h.fields : cell(n) = c
    IN [c \in {cell(n) : n \in DOMAIN h.fields} |-> Converted(id, param(c), h.fields[param(c)].as)]
Applied(r, id) == [r EXCEPT !.cells = Written(id) @@ @]

\* What a Get reports.
Reported(h, r) ==
    [n \in DOMAIN h.fields |->
        LET c == <<h.call, h.fields[n].to>>
        IN IF h.fields[n].as = "text" THEN Text ELSE IF c \in DOMAIN r.cells THEN r.cells[c] ELSE Default]

Queued(id) ==
    LET q == Handler[packets[id].api].queue
    IN (q = "unless" /\ packets[id].isQueued # "no") \/ (q = "if" /\ packets[id].isQueued = "yes")

M1WaitForFinish(id, target) == [id |-> id, target |-> target, timers |-> {"min"}, listed |-> TRUE]

\* The handlers of the Set calls: at once, or into the queue, and then perhaps with
\* an object that waits until it is done.
SetCall(id) ==
    LET r == robot[link]
        waits == Handler[packets[id].api].waits /\ packets[id].isWaitForFinish /\ Queued(id)
        works ==
            /\ given' = [given EXCEPT ![id] = link]
            /\ robot' = [robot EXCEPT ![link] = IF Queued(id) THEN [r EXCEPT !.queue = Append(@, [id |-> id, index |-> r.next]),
                                                                              !.next = @ + 1]
                                                ELSE Applied(r, id)]
            /\ done' = IF Queued(id) THEN done ELSE done \cup {id}
            /\ m_waitFinishMap' = IF waits THEN m_waitFinishMap \cup {M1WaitForFinish(id, r.next)} ELSE m_waitFinishMap
            /\ IF waits THEN UNCHANGED out ELSE Answer(id, Said(TRUE, <<>>))
        fails == Refuse(id) /\ UNCHANGED <<given, robot, done, m_waitFinishMap>>
    IN /\ Calls(works, fails)
       /\ UNCHANGED <<m_DevInfoMap, m_portNameClientMap, link, forgotten>>

GetCall(id) ==
    LET h == Handler[packets[id].api]
    IN /\ Calls(Answer(id, Said(TRUE, Reported(h, robot[link]))), Refuse(id))
       /\ UNCHANGED <<m_DevInfoMap, m_portNameClientMap, m_waitFinishMap, link, robot, done, given, forgotten>>

\* SetQueuedCmdStartExec and its like, on the robot that is connected.
Started(r) == [r EXCEPT !.running = TRUE]
Stopped(r) == [r EXCEPT !.running = FALSE]
Cleared(r) == [r EXCEPT !.queue = <<>>]

\* pSetQueuedCmd, pQueuedCmdStart and its like.
QueueCall(id, type) ==
    /\ \/ /\ type \in {"Start", "Stop", "ForceStop", "Clear"}
          /\ LET r == robot[link]
                 works == /\ robot' = [robot EXCEPT ![link] = CASE type = "Start" -> Started(r)
                                                                [] type = "Clear" -> Cleared(r)
                                                                [] OTHER -> Stopped(r)]
                          /\ Answer(id, Said(TRUE, <<>>))
             IN Calls(works, Refuse(id) /\ UNCHANGED robot)
       \/ /\ type \notin {"Start", "Stop", "ForceStop", "Clear"}
          /\ Refuse(id)
          /\ UNCHANGED <<failures, robot>>
    /\ UNCHANGED <<m_DevInfoMap, m_portNameClientMap, m_waitFinishMap, link, done, given, forgotten>>

-----------------------------------------------------------------------------
\* pSearchDobot: the ports and whether each is connected, or an error when there is none.
pSearchDobot(id) ==
    /\ \/ Answer(id, Said(TRUE, [p \in SerialPorts |-> Value(0, IF isDeviceConnected(p) THEN "Connected" ELSE "unConnected")])) /\ UNCHANGED failures
       \/ failures > 0 /\ failures' = failures - 1 /\ Refuse(id)
    /\ UNCHANGED <<m_DevInfoMap, m_portNameClientMap, m_waitFinishMap, link, robot, done, given, forgotten>>

\* pConnectDobot: whether the dll leaves a connection it has for the new one is not
\* known here; where there is no robot it makes none.  Who connected the port before is
\* forgotten.  QueueStart, like QueueStop and QueueClear below, is TRUE unless given.
pConnectDobot(id) ==
    LET p == packets[id].port
        expected == link # "" \/ p \notin SerialPorts
    IN
    /\ \/ /\ p \in SerialPorts
          /\ link' = p
          /\ m_DevInfoMap' = p :> TRUE @@ m_DevInfoMap
          /\ m_portNameClientMap' = p :> packets[id].ws @@ m_portNameClientMap
          /\ robot' = [robot EXCEPT ![p] = Started(@)]
          /\ Answer(id, [Said(TRUE, <<>>) EXCEPT !.from = p])
          /\ UNCHANGED failures
       \/ /\ expected \/ failures > 0
          /\ failures' = IF expected THEN failures ELSE failures - 1
          /\ Refuse(id)
          /\ UNCHANGED <<link, m_DevInfoMap, m_portNameClientMap, robot>>
    /\ UNCHANGED <<m_waitFinishMap, done, given, forgotten>>

Marked(p) == [m_DevInfoMap EXCEPT ![p] = FALSE]
Unowned(S) == [p \in DOMAIN m_portNameClientMap \ S |-> m_portNameClientMap[p]]
\* The queue of the robot that is connected is stopped and emptied.
Idled == IF link = "" THEN robot ELSE [robot EXCEPT ![link] = Cleared(Stopped(@))]

\* pDisConnectDobot of a request: the connection goes, whichever port is named, and all
\* who wait go without an answer.
pDisConnectDobot(id) ==
    LET p == packets[id].port
        waiting == {w \in m_waitFinishMap : w.listed}
    IN \/ /\ ~isDeviceConnected(p)
          /\ Answer(id, Said(TRUE, <<>>))
          /\ UNCHANGED <<failures, m_DevInfoMap, m_portNameClientMap, m_waitFinishMap, link, robot, done, given, forgotten>>
       \/ /\ isDeviceConnected(p)
          /\ robot' = Idled
          /\ \/ /\ link' = ""
                /\ m_DevInfoMap' = Marked(p)
                /\ m_portNameClientMap' = Unowned({p})
                /\ Answer(id, Said(TRUE, <<>>))
                /\ UNCHANGED failures
             \/ /\ failures > 0
                /\ failures' = failures - 1
                /\ Refuse(id)
                /\ UNCHANGED <<link, m_DevInfoMap, m_portNameClientMap>>
          /\ m_waitFinishMap' = (m_waitFinishMap \ waiting) \cup {[w EXCEPT !.timers = {}, !.listed = FALSE] : w \in waiting}
          /\ forgotten' = forgotten \cup {w.id : w \in waiting}
          /\ UNCHANGED <<done, given>>

\* pDisConnectDobot of the ports P, for a client that has gone or at the end: those who
\* wait go on waiting.  The dll may not let go of some.
disConnectPorts(P) ==
    LET mine == {p \in P : isDeviceConnected(p)}
    IN \E kept \in SUBSET mine :
        /\ Cardinality(kept) <= failures
        /\ failures' = failures - Cardinality(kept)
        /\ robot' = IF mine = {} THEN robot ELSE Idled
        /\ link' = IF mine = kept THEN link ELSE ""
        /\ m_portNameClientMap' = Unowned(mine \ kept)
        /\ m_DevInfoMap' = [p \in DOMAIN m_DevInfoMap |-> m_DevInfoMap[p] /\ p \notin mine \ kept]

\* m_portNameClientMap.keys(port).
Ports(ws) == {p \in DOMAIN m_portNameClientMap : m_portNameClientMap[p] = ws}

\* disConnectDevices, for a client whose socket is closed, and closeAllDevice_slot.
CloseWebSocket(ws) ==
    /\ ws \in script.closes \ left
    /\ 0 \notin left
    /\ left' = left \cup {ws}
    /\ disConnectPorts(IF ws = 0 THEN DOMAIN m_DevInfoMap ELSE Ports(ws))
    /\ UNCHANGED <<script, taken, m_waitFinishMap, done, given, out, forgotten>>

-----------------------------------------------------------------------------
\* Every queue is empty or stands still.
Still == \A p \in SerialPorts : robot[p].queue = <<>> \/ ~robot[p].running

\* pReceiveMassage_slot: checkPacket, the choice of a handler, and the handler.
pReceiveMassage ==
    /\ taken < Len(packets)
    /\ LET id == taken + 1
           r == packets[id]
           nothing == UNCHANGED <<failures, m_DevInfoMap, m_portNameClientMap, m_waitFinishMap, link, robot, done, given>>
           do == Handler[r.api].do
       IN /\ {0, r.ws} \cap left = {}
          /\ r.quiet => Still
          /\ taken' = id
          /\ \/ r.api # "SearchDobot" /\ r.port = "" /\ Refuse(id) /\ nothing /\ UNCHANGED forgotten
             \/ /\ r.api = "SearchDobot" \/ r.port # ""
                /\ \/ handleM1Command(r.api) = "refused" /\ Refuse(id) /\ nothing /\ UNCHANGED forgotten
                   \/ handleM1Command(r.api) = "silent" /\ forgotten' = forgotten \cup {id} /\ nothing /\ UNCHANGED out
                   \/ /\ handleM1Command(r.api) = "handled"
                      /\ \/ do = "search" /\ pSearchDobot(id)
                         \/ do = "connect" /\ pConnectDobot(id)
                         \/ do = "disconnect" /\ pDisConnectDobot(id)
                         \/ do = "set" /\ SetCall(id)
                         \/ do = "get" /\ GetCall(id)
                         \/ do = "queue" /\ QueueCall(id, r.type)
                         \/ do \in {"Start", "Stop", "ForceStop", "Clear"} /\ QueueCall(id, do)
    /\ UNCHANGED <<script, left>>

\* A robot does the next command of its queue.
Execute(p) ==
    LET r == robot[p]
    IN /\ r.running
       /\ r.queue # <<>>
       /\ robot' = [robot EXCEPT ![p] = [Applied(r, Head(r.queue).id) EXCEPT !.queue = Tail(@), !.index = Head(r.queue).index]]
       /\ done' = done \cup {Head(r.queue).id}
       /\ UNCHANGED <<script, taken, left, failures, m_DevInfoMap, m_portNameClientMap, m_waitFinishMap, link, given, out,
                      forgotten>>

-----------------------------------------------------------------------------
\* waitForFinish_slot: the answer; the object is deleted later.
Finish(w, timers, ok) ==
    /\ m_waitFinishMap' = (m_waitFinishMap \ {w}) \cup {[w EXCEPT !.timers = timers, !.listed = FALSE]}
    /\ Answer(w.id, [Said(ok, <<>>) EXCEPT !.waited = TRUE])

waitFrame == UNCHANGED <<script, taken, left, m_DevInfoMap, m_portNameClientMap, link, robot, done, given, forgotten>>

onMinTimeOut(w) ==
    /\ "min" \in w.timers
    /\ m_waitFinishMap' = (m_waitFinishMap \ {w}) \cup {[w EXCEPT !.timers = {"check", "max"}]}
    /\ UNCHANGED <<out, failures>>
    /\ waitFrame

onMaxTimeOut(w) ==
    /\ "max" \in w.timers
    /\ Finish(w, {}, FALSE)
    /\ UNCHANGED failures
    /\ waitFrame

\* MUTANT of IsDone: a command that was passed counts as done.
IsDonePassed(target, index) == target <= index
\* The robot has come to the command and not gone on from it.
IsDone(target, index) == target = index

\* Every 200 ms: the robot that is connected now is asked for its index.
onCheckTimeOut(w) ==
    /\ "check" \in w.timers
    /\ Calls(IF IsDone(w.target, robot[link].index) THEN Finish(w, {}, TRUE) ELSE UNCHANGED <<m_waitFinishMap, out>>,
             Finish(w, {}, FALSE))
    /\ waitFrame

\* The deferred delete.
Delete(w) ==
    /\ ~w.listed
    /\ m_waitFinishMap' = m_waitFinishMap \ {w}
    /\ UNCHANGED <<out, failures>>
    /\ waitFrame

M1Next ==
    \/ pReceiveMassage
    \/ \E ws \in script.closes : CloseWebSocket(ws)
    \/ \E p \in SerialPorts : Execute(p)
    \/ \E w \in m_waitFinishMap : onMinTimeOut(w) \/ onMaxTimeOut(w) \/ onCheckTimeOut(w) \/ Delete(w)

\* Timers of the main thread fire when they are due.
M1Fairness ==
    /\ WF_m1Vars(\E w \in m_waitFinishMap : onMinTimeOut(w))
    /\ WF_m1Vars(\E w \in m_waitFinishMap : onMaxTimeOut(w))

-----------------------------------------------------------------------------
\* A request gets one answer, also when the check and the timeout of the object that
\* waits for it come close to one another (M1WaitForFinish.cpp 50-77).
M1AnsweredOnce == \A id \in Packets : Len(out[id]) <= 1

\* What is waited for and reported as finished has been done, as long as the dll is
\* still connected to the robot that got it: not when the queue was cleared and later
\* commands have passed its number.
FinishHonest ==
    \A id \in Packets : \A n \in DOMAIN out[id] :
        LET a == out[id][n] IN a.waited /\ a.ok /\ a.from = given[id] => id \in done

\* What is set is read back, under the names that both use and as the handler of the set
\* took it: a fraction is lost to toInt and cut off by a cast.  Memory nobody wrote (JOG
\* parameters of a short array) may read as anything.
M1GetSeesSet ==
    \A rd \in script.reads :
        rd.set \in done /\ out[rd.get] # <<>> /\ out[rd.get][1].ok =>
            LET h == Handler[packets[rd.set].api]
                doc == out[rd.get][1].doc
                took(n) == Converted(rd.set, n, h.fields[n].as)
            IN \A n \in DOMAIN doc \cap DOMAIN h.fields : took(n) # Uninitialized => doc[n] = took(n)

\* Every request is answered, but those the code forgets: names that end in Sensor, and
\* whoever waits when some client disconnects.
M1Settled == \A id \in Packets : taken >= id => out[id] # <<>> \/ id \in forgotten
=============================================================================
