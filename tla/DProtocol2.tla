----------------------------- MODULE DProtocol2 -----------------------------
(***************************************************************************)
(* DProtocol2 (Plugins/MagicDevicePlugin/Protocol2): the send list, the    *)
(* table of packets in flight with their resend timers, and the matching   *)
(* of the frames that come back.  All slots run in one thread, so each is  *)
(* one action; a timer may expire at any moment it is armed.  The device   *)
(* and the wire are the environment here: any frame may arrive at any time *)
(* (P2Link closes the loop).                                               *)
(*                                                                         *)
(* m_sendingList is kept as the set of the packets in it: the code only    *)
(* appends to it and erases from it, so its order is the order of arrival. *)
(* The slot's loop over the list, an iterator that advances over packets   *)
(* whose key is in flight and erases those it sends, is one action here,   *)
(* described by SentBySlot; LoopSendsThose checks the loop against that    *)
(* description, on every list there can be when the slot is called.        *)
(***************************************************************************)
EXTENDS Naturals, FiniteSets, SequencesExt

CONSTANTS Reqs,          \* calls of sendData, one per packet
          Keys,          \* (cmdId, subId) pairs
          KeyOf,         \* the key of each call's packet
          Kind,          \* "ask" wants a reply, "tell" does not, "bad" has no packet
          None,          \* no packet
          ListMax,       \* capacity of m_sendingList (1000)
          DefaultResend, \* DEFAULT_RESEND_TIMES_MAX (3)
          ResendLimits   \* the values setCommPars is called with

ASSUME P2Assumption ==
    /\ KeyOf \in [Reqs -> Keys]
    /\ Kind \in [Reqs -> {"ask", "tell", "bad"}]
    /\ None \notin Reqs
    /\ ListMax \in Nat
    /\ DefaultResend \in 0..254
    /\ ResendLimits \subseteq 0..254

VARIABLES
    worker,          \* m_timerSendWorker is active
    sendingList,     \* m_sendingList
    sendingPackets,  \* m_sendingPackets: the packet in flight under each key
    resendTimes,     \* P2AsyncPacket::resendTimes of a packet in flight (quint8)
    limit,           \* P2AsyncPacket::resendTimesMax of a packet in flight
    resendTimesMax,  \* m_resendTimesMax
    \* History, read by no guard but that of SendData.
    calls,           \* calls of sendData so far
    arrival,         \* 0 before sendData, then the call's place in the order of calls
    sends,           \* frames emitted for each packet (sendRawData_signal)
    answers,         \* recviceData_signal and errorOccurred_signal emitted for it
    result,          \* the last of them
    deleted          \* packets deleted by stop() while in flight

listVars == <<sendingList, sendingPackets, resendTimes, limit>>
vars == <<worker, sendingList, sendingPackets, resendTimes, limit,
          resendTimesMax, calls, arrival, sends, answers, result, deleted>>

InFlight == {r \in Reqs : sendingPackets[KeyOf[r]] = r}
Called == {r \in Reqs : arrival[r] > 0}

Init ==
    /\ worker = TRUE
    /\ sendingList = {}
    /\ sendingPackets = [k \in Keys |-> None]
    /\ resendTimes = [r \in Reqs |-> 0]
    /\ limit = [r \in Reqs |-> 0]
    /\ resendTimesMax = DefaultResend
    /\ calls = 0
    /\ arrival = [r \in Reqs |-> 0]
    /\ sends = [r \in Reqs |-> 0]
    /\ answers = [r \in Reqs |-> 0]
    /\ result = [r \in Reqs |-> "none"]
    /\ deleted = {}

-----------------------------------------------------------------------------
\* A signal to MessageHandler about r.
Emit(r, what) ==
    /\ answers' = [answers EXCEPT ![r] = @ + 1]
    /\ result' = [result EXCEPT ![r] = what]

\* The call of sendData takes its place in the order of calls.
Arrive(r) ==
    /\ arrival[r] = 0
    /\ calls' = calls + 1
    /\ arrival' = [arrival EXCEPT ![r] = calls + 1]

ListFull == Cardinality(sendingList) >= ListMax

\* sendData, the returns with an error: the worker is stopped, the JSON makes
\* no packet, or the list is full.
SendRefused(r) ==
    /\ \/ ~worker
       \/ Kind[r] = "bad"
       \/ Kind[r] = "ask" /\ ListFull
    /\ Arrive(r)
    /\ Emit(r, "error")
    /\ UNCHANGED <<worker, listVars, resendTimesMax, sends, deleted>>

\* sendData with needReply: the packet waits for the worker.
SendQueued(r) ==
    /\ worker
    /\ Kind[r] = "ask"
    /\ ~ListFull
    /\ Arrive(r)
    /\ sendingList' = sendingList \cup {r}
    /\ UNCHANGED <<worker, sendingPackets, resendTimes, limit, resendTimesMax,
                   sends, answers, result, deleted>>

\* sendData without needReply: sent, and answered with its own message.
SendAtOnce(r) ==
    /\ worker
    /\ Kind[r] = "tell"
    /\ Arrive(r)
    /\ sends' = [sends EXCEPT ![r] = @ + 1]
    /\ Emit(r, "reply")
    /\ UNCHANGED <<worker, listVars, resendTimesMax, deleted>>

SendData(r) == SendRefused(r) \/ SendQueued(r) \/ SendAtOnce(r)

\* MUTANT of SentBySlot: the slot forgets to look at the packets in flight.
SentBySlotUnchecked ==
    {r \in sendingList :
        \A q \in sendingList : KeyOf[q] = KeyOf[r] => arrival[r] <= arrival[q]}

\* MUTANT of SentBySlot: the iterator starts at the newest packet.
SentBySlotNewest ==
    {r \in sendingList :
        /\ sendingPackets[KeyOf[r]] = None
        /\ \A q \in sendingList : KeyOf[q] = KeyOf[r] => arrival[r] >= arrival[q]}

\* The packets one run of the slot sends: those whose key is free and not
\* taken by an earlier packet of the list.
SentBySlot ==
    {r \in sendingList :
        /\ sendingPackets[KeyOf[r]] = None
        /\ \A q \in sendingList : KeyOf[q] = KeyOf[r] => arrival[r] <= arrival[q]}

\* _PeriodicTaskAsync_slot: the single-shot timer fires, is armed again.
PeriodicTask ==
    /\ worker
    /\ sendingList' = sendingList \ SentBySlot
    /\ sendingPackets' = [k \in Keys |->
           IF \E r \in SentBySlot : KeyOf[r] = k
           THEN CHOOSE r \in SentBySlot : KeyOf[r] = k
           ELSE sendingPackets[k]]
    /\ resendTimes' = [r \in Reqs |-> IF r \in SentBySlot THEN 0 ELSE resendTimes[r]]
    /\ limit' = [r \in Reqs |-> IF r \in SentBySlot THEN resendTimesMax ELSE limit[r]]
    /\ sends' = [r \in Reqs |-> IF r \in SentBySlot THEN sends[r] + 1 ELSE sends[r]]
    /\ UNCHANGED <<worker, resendTimesMax, calls, arrival, answers, result, deleted>>

\* The slot's loop as the algorithm it is, on m_sendingList as the sequence it is.
ListInOrder == SetToSortSeq(sendingList, LAMBDA q, r : arrival[q] < arrival[r])

\* Where the loop starts: iterPack, the list, the keys in flight, what was sent.
LoopStart ==
    [iter |-> 1, list |-> ListInOrder,
     flying |-> {k \in Keys : sendingPackets[k] # None}, sent |-> <<>>]

\* MUTANT of Iterate: the iterator advances past the one erase() returned.
IterateAfterErase(s) ==
    LET r == s.list[s.iter]
    IN  IF KeyOf[r] \in s.flying
        THEN [s EXCEPT !.iter = @ + 1]
        ELSE [iter |-> s.iter + 1, list |-> RemoveAt(s.list, s.iter),
              flying |-> s.flying \cup {KeyOf[r]}, sent |-> Append(s.sent, r)]

\* One iteration: the packet stays, or is sent and erased; erase() returns the
\* iterator of the next one.
Iterate(s) ==
    LET r == s.list[s.iter]
    IN  IF KeyOf[r] \in s.flying
        THEN [s EXCEPT !.iter = @ + 1]
        ELSE [s EXCEPT !.list = RemoveAt(@, s.iter),
                       !.flying = @ \cup {KeyOf[r]},
                       !.sent = Append(@, r)]

\* The loop, for at most n iterations.
LoopAfter[n \in 0..ListMax] ==
    IF n = 0 THEN LoopStart
    ELSE LET s == LoopAfter[n - 1]
         IN  IF s.iter > Len(s.list) THEN s ELSE Iterate(s)

\* MUTANT of MayResend: off by one.
MayResendOneMore(r) == resendTimes[r] <= limit[r] + 1

\* The test of P2AsyncPacket's timer, resendTimes++ <= resendTimesMax.
MayResend(r) == resendTimes[r] <= limit[r]

\* The slot connected to that timer sends the packet again ...
Resend(r) ==
    /\ r \in InFlight
    /\ MayResend(r)
    /\ resendTimes' = [resendTimes EXCEPT ![r] = (@ + 1) % 256]
    /\ sends' = [sends EXCEPT ![r] = @ + 1]
    /\ UNCHANGED <<worker, sendingList, sendingPackets, limit, resendTimesMax,
                   calls, arrival, answers, result, deleted>>

\* MUTANT of GiveUp: no error is reported.
GiveUpSilently(r) ==
    /\ r \in InFlight
    /\ ~MayResend(r)
    /\ resendTimes' = [resendTimes EXCEPT ![r] = (@ + 1) % 256]
    /\ sendingPackets' = [sendingPackets EXCEPT ![KeyOf[r]] = None]
    /\ UNCHANGED <<worker, sendingList, limit, resendTimesMax, calls, arrival,
                   sends, answers, result, deleted>>

\* ... or reports ERROR_COMMUNICATION_TIMEOUT and takes the packet out.
GiveUp(r) ==
    /\ r \in InFlight
    /\ ~MayResend(r)
    /\ resendTimes' = [resendTimes EXCEPT ![r] = (@ + 1) % 256]
    /\ sendingPackets' = [sendingPackets EXCEPT ![KeyOf[r]] = None]
    /\ Emit(r, "timeout")
    /\ UNCHANGED <<worker, sendingList, limit, resendTimesMax, calls, arrival, sends,
                   deleted>>

\* handleRawData with a frame whose checksum is right: the packet in flight
\* under the frame's key is answered; a frame that matches none is dropped.
HandleRawData(k) ==
    /\ sendingPackets[k] # None
    /\ sendingPackets' = [sendingPackets EXCEPT ![k] = None]
    /\ Emit(sendingPackets[k], "reply")
    /\ UNCHANGED <<worker, sendingList, resendTimes, limit, resendTimesMax,
                   calls, arrival, sends, deleted>>

Start ==
    /\ worker' = TRUE
    /\ UNCHANGED <<listVars, resendTimesMax, calls, arrival, sends, answers, result, deleted>>

\* MUTANT of Stop: the packets in flight and their timers are kept.
StopKeepsFlight ==
    /\ worker' = FALSE
    /\ UNCHANGED <<listVars, resendTimesMax, calls, arrival, sends, answers,
                   result, deleted>>

\* stop() deletes what is in flight and leaves the list as it is.
Stop ==
    /\ worker' = FALSE
    /\ sendingPackets' = [k \in Keys |-> None]
    /\ deleted' = deleted \cup InFlight
    /\ UNCHANGED <<sendingList, resendTimes, limit, resendTimesMax, calls, arrival,
                   sends, answers, result>>

SetCommPars(m) ==
    /\ resendTimesMax' = m
    /\ UNCHANGED <<worker, listVars, calls, arrival, sends, answers, result, deleted>>

Expire(r) == Resend(r) \/ GiveUp(r)

Next ==
    \/ \E r \in Reqs : SendData(r)
    \/ \E r \in Reqs : Expire(r)
    \/ \E k \in Keys : HandleRawData(k)
    \/ PeriodicTask
    \/ Start
    \/ Stop
    \/ \E m \in ResendLimits : SetCommPars(m)

Spec == Init /\ [][Next]_vars

\* Armed timers expire: QTimer's promise while the thread's event loop runs.
Fairness ==
    /\ WF_vars(PeriodicTask)
    /\ \A r \in Reqs : WF_vars(Expire(r))

FairSpec == Spec /\ Fairness

-----------------------------------------------------------------------------
TypeOK ==
    /\ worker \in BOOLEAN
    /\ sendingList \in SUBSET Reqs
    /\ sendingPackets \in [Keys -> Reqs \cup {None}]
    /\ resendTimes \in [Reqs -> 0..255]
    /\ limit \in [Reqs -> 0..254]
    /\ resendTimesMax \in 0..254
    /\ calls \in Nat
    /\ arrival \in [Reqs -> Nat]
    /\ sends \in [Reqs -> Nat]
    /\ answers \in [Reqs -> Nat]
    /\ result \in [Reqs -> {"none", "reply", "error", "timeout"}]
    /\ deleted \in SUBSET Reqs

\* Whatever sendData, the timers, the frames and stop() do in whatever order,
\* a call is answered at most once, is never dropped without an answer except
\* by stop() while in flight, and is in one place at a time: waiting, in
\* flight, answered or deleted.
CallsAccounted ==
    \A r \in Called :
        /\ answers[r] = 0 <=> r \in sendingList \cup InFlight \cup deleted
        /\ answers[r] <= 1
        /\ r \notin sendingList \cap InFlight
        /\ r \notin deleted \cap (sendingList \cup InFlight)

\* The table in flight is only ever keyed by the packet's own key, and stop()
\* leaves nothing in it: no resend timer survives a disconnection.
StoppedMeansIdle ==
    /\ \A k \in Keys : sendingPackets[k] # None => KeyOf[sendingPackets[k]] = k
    /\ ~worker => InFlight = {}

\* Packets with the same command key reach the wire in the order of the calls,
\* and none is sent while an earlier one is still waiting or in flight: the
\* protocol has no sequence number, so this is all that pairs replies up.
KeyOrder ==
    \A q, r \in Called :
        /\ Kind[q] = "ask" /\ Kind[r] = "ask"
        /\ KeyOf[q] = KeyOf[r]
        /\ arrival[q] < arrival[r]
        /\ sends[r] > 0
        => q \notin sendingList \cup InFlight

\* Although it erases while it iterates, the loop has come to the end of the
\* list after as many iterations as the list is long, has sent exactly the
\* packets of SentBySlot, in order of arrival, and has left the others in the
\* list in their order.
LoopSendsThose ==
    LET end == LoopAfter[Cardinality(sendingList)]
    IN  /\ end.iter > Len(end.list)
        /\ end.sent = SelectSeq(ListInOrder, LAMBDA r : r \in SentBySlot)
        /\ end.list = SelectSeq(ListInOrder, LAMBDA r : r \notin SentBySlot)

\* The quint8 resend counter never wraps round: a packet is sent at most
\* resendTimesMax + 2 times, and times out only after exactly that many.
ResendBudget ==
    \A r \in Reqs :
        /\ Kind[r] = "ask" => sends[r] <= limit[r] + 2
        /\ result[r] = "timeout" => sends[r] = limit[r] + 2

\* An accepted call is eventually answered unless the link is stopped: a
\* packet waiting behind others with its key is not starved, and a silent
\* device ends in ERROR_COMMUNICATION_TIMEOUT.
EventuallyAnswered ==
    \A r \in Reqs :
        (r \in sendingList \cup InFlight) ~> (answers[r] > 0 \/ ~worker)

\* The detailed link implements what CommandPort promises.
Port == INSTANCE CommandPort WITH up <- worker,
                                  open <- sendingList \cup InFlight
PortSpec == Port!PortSpec
=============================================================================
