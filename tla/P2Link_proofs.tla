---------------------------- MODULE P2Link_proofs ----------------------------
(***************************************************************************)
(* DProtocol2, for any set of calls, any keys, any capacity of the list    *)
(* and any resend limits below 255; then over a wire that loses, delays    *)
(* and reorders frames, and a device that runs every copy it gets: the     *)
(* link's own theorems still hold, and under each command key no more      *)
(* calls are told of success than the device has run commands.  That       *)
(* invariant counts, for each key, the calls told so together with the     *)
(* answers still on the way.                                               *)
(***************************************************************************)
EXTENDS P2Link, FiniteSetTheorems, TLAPS

\* What ties the history to the list and the table, on top of the properties:
\* calls are numbered without ties, only accepted calls are waiting or in
\* flight, a waiting packet has not been sent, and the counter of a packet in
\* flight is one less than the number of times it was sent.
Bookkeeping ==
    /\ \A r \in Reqs : arrival[r] <= calls
    /\ \A q, r \in Called : arrival[q] = arrival[r] => q = r
    /\ \A r \in sendingList \cup InFlight \cup deleted :
           r \in Called /\ Kind[r] = "ask"
    /\ \A r \in Reqs \ Called : answers[r] = 0 /\ sends[r] = 0
    /\ \A r \in sendingList : sends[r] = 0
    /\ \A r \in InFlight :
           sends[r] = resendTimes[r] + 1 /\ resendTimes[r] <= limit[r] + 1

\* The inductive invariant.
LinkInv ==
    TypeOK /\ Bookkeeping /\ CallsAccounted /\ StoppedMeansIdle /\ KeyOrder

\* An incremented quint8 is a quint8, and does not wrap below 255.
LEMMA ByteIncrement ==
    ASSUME NEW n \in 0..255
    PROVE  /\ (n + 1) % 256 \in 0..255
           /\ n < 255 => (n + 1) % 256 = n + 1
OBVIOUS

\* One step of the link preserves the types.
LEMMA TypeStep == TypeOK /\ [Next]_vars => TypeOK'
<1> SUFFICES ASSUME TypeOK, [Next]_vars PROVE TypeOK'
  OBVIOUS
<1> USE P2Assumption DEF TypeOK, listVars
<1>1. ASSUME NEW r \in Reqs, SendRefused(r) PROVE TypeOK'
  BY <1>1 DEF SendRefused, ListFull, Arrive, Emit
<1>2. ASSUME NEW r \in Reqs, SendQueued(r) PROVE TypeOK'
  BY <1>2 DEF SendQueued, Arrive
<1>3. ASSUME NEW r \in Reqs, SendAtOnce(r) PROVE TypeOK'
  BY <1>3 DEF SendAtOnce, Arrive, Emit
<1>4. CASE PeriodicTask
  <2>1. \A k \in Keys : (\E r \in SentBySlot : KeyOf[r] = k) =>
            (CHOOSE r \in SentBySlot : KeyOf[r] = k) \in Reqs
    BY DEF SentBySlot
  <2>2. sendingPackets' \in [Keys -> Reqs \cup {None}]
    BY <1>4, <2>1 DEF PeriodicTask
  <2>3. QED
    BY <1>4, <2>2 DEF PeriodicTask
<1>5. ASSUME NEW r \in Reqs, Resend(r) PROVE TypeOK'
  <2> DEFINE n == resendTimes[r]
  <2>0. n \in 0..255
    OBVIOUS
  <2>1. (n + 1) % 256 \in 0..255
    <3> HIDE DEF n
    <3> QED BY <2>0, ByteIncrement
  <2>2. QED
    BY <1>5, <2>1 DEF Resend, MayResend, InFlight
<1>6. ASSUME NEW r \in Reqs, GiveUp(r) PROVE TypeOK'
  <2> DEFINE n == resendTimes[r]
  <2>0. n \in 0..255
    OBVIOUS
  <2>1. (n + 1) % 256 \in 0..255
    <3> HIDE DEF n
    <3> QED BY <2>0, ByteIncrement
  <2>2. QED
    BY <1>6, <2>1 DEF GiveUp, MayResend, InFlight, Emit
<1>7. ASSUME NEW k \in Keys, HandleRawData(k) PROVE TypeOK'
  BY <1>7 DEF HandleRawData, Emit
<1>8. CASE Start
  BY <1>8 DEF Start
<1>9. CASE Stop
  BY <1>9 DEF Stop, InFlight
<1>10. ASSUME NEW m \in ResendLimits, SetCommPars(m) PROVE TypeOK'
  BY <1>10 DEF SetCommPars
<1>11. CASE UNCHANGED vars
  BY <1>11 DEF vars
<1>12. QED
  BY <1>1, <1>2, <1>3, <1>4, <1>5, <1>6, <1>7, <1>8, <1>9, <1>10, <1>11
  DEF Next, SendData, Expire

\* In every reachable state each variable has its type; in particular the
\* quint8 counters of the packets in flight stay in their range.
THEOREM TypeCorrect == Spec => []TypeOK
<1>1. Init => TypeOK
  BY P2Assumption DEF Init, TypeOK
<1>2. QED
  BY <1>1, TypeStep, PTL DEF Spec

\* The packet the slot puts under a key is the one it sends for that key.
LEMMA SlotFillsKeys ==
    ASSUME LinkInv, PeriodicTask
    PROVE  /\ \A r \in SentBySlot : sendingPackets'[KeyOf[r]] = r
           /\ \A r \in Reqs \ SentBySlot :
                  sendingPackets'[KeyOf[r]] = r => sendingPackets[KeyOf[r]] = r
           /\ \A r \in InFlight : sendingPackets'[KeyOf[r]] = r
           /\ InFlight' = InFlight \cup SentBySlot
<1> USE P2Assumption DEF LinkInv, TypeOK
<1>1. ASSUME NEW q \in SentBySlot, NEW r \in SentBySlot, KeyOf[q] = KeyOf[r]
      PROVE  q = r
  <2>1. q \in sendingList /\ r \in sendingList
    BY DEF SentBySlot
  <2>2. arrival[q] <= arrival[r] /\ arrival[r] <= arrival[q]
    BY <1>1, <2>1, Zenon DEF SentBySlot
  <2>3. q \in Called /\ r \in Called
    BY <2>1 DEF Bookkeeping
  <2>4. arrival[q] = arrival[r]
    <3>1. arrival[q] \in Nat /\ arrival[r] \in Nat
      BY <2>1
    <3>2. QED
      BY ONLY <2>2, <3>1
  <2>5. QED
    BY <2>3, <2>4 DEF Bookkeeping
<1>2. \A r \in SentBySlot : (CHOOSE q \in SentBySlot : KeyOf[q] = KeyOf[r]) = r
  BY <1>1
<1>3. \A r \in SentBySlot : r \in Reqs /\ KeyOf[r] \in Keys
  BY DEF SentBySlot
<1>4. \A r \in SentBySlot : sendingPackets'[KeyOf[r]] = r
  BY <1>2, <1>3 DEF PeriodicTask
<1>5. \A r \in Reqs \ SentBySlot :
          sendingPackets'[KeyOf[r]] = r => sendingPackets[KeyOf[r]] = r
  BY <1>2, <1>3 DEF PeriodicTask
<1>6. \A r \in InFlight : sendingPackets'[KeyOf[r]] = r
  BY <1>3 DEF PeriodicTask, InFlight, SentBySlot
<1>7. InFlight' = InFlight \cup SentBySlot
  BY <1>3, <1>4, <1>5, <1>6 DEF InFlight
<1>8. QED
  BY <1>4, <1>5, <1>6, <1>7

\* Every step preserves the inductive invariant.
LEMMA LinkInvStep == LinkInv /\ [Next]_vars => LinkInv'
<1> SUFFICES ASSUME LinkInv, [Next]_vars PROVE LinkInv'
  OBVIOUS
<1>0. /\ TypeOK /\ Bookkeeping /\ CallsAccounted /\ StoppedMeansIdle /\ KeyOrder
      /\ TypeOK'
  BY TypeStep DEF LinkInv
<1> USE <1>0, P2Assumption DEF TypeOK, listVars, InFlight, Called
<1>1. ASSUME NEW r \in Reqs, SendRefused(r) PROVE LinkInv'
  <2>1. Bookkeeping'
    BY <1>1 DEF SendRefused, ListFull, Arrive, Emit, Bookkeeping, CallsAccounted, StoppedMeansIdle
  <2>2. CallsAccounted'
    BY <1>1 DEF SendRefused, ListFull, Arrive, Emit, Bookkeeping, CallsAccounted, StoppedMeansIdle
  <2>3. StoppedMeansIdle'
    BY <1>1 DEF SendRefused, ListFull, Arrive, Emit, Bookkeeping, CallsAccounted, StoppedMeansIdle
  <2>4. KeyOrder'
    BY <1>1 DEF SendRefused, ListFull, Arrive, Emit, Bookkeeping, CallsAccounted, StoppedMeansIdle, KeyOrder
  <2>5. QED
    BY <2>1, <2>2, <2>3, <2>4 DEF LinkInv
<1>2. ASSUME NEW r \in Reqs, SendQueued(r) PROVE LinkInv'
  <2>1. Bookkeeping'
    BY <1>2 DEF SendQueued, Arrive, Bookkeeping, CallsAccounted, StoppedMeansIdle
  <2>2. CallsAccounted'
    BY <1>2 DEF SendQueued, Arrive, Bookkeeping, CallsAccounted, StoppedMeansIdle
  <2>3. StoppedMeansIdle'
    BY <1>2 DEF SendQueued, Arrive, Bookkeeping, CallsAccounted, StoppedMeansIdle
  <2>4. KeyOrder'
    BY <1>2 DEF SendQueued, Arrive, Bookkeeping, CallsAccounted, StoppedMeansIdle, KeyOrder
  <2>5. QED
    BY <2>1, <2>2, <2>3, <2>4 DEF LinkInv
<1>3. ASSUME NEW r \in Reqs, SendAtOnce(r) PROVE LinkInv'
  <2>1. Bookkeeping'
    BY <1>3 DEF SendAtOnce, Arrive, Emit, Bookkeeping, CallsAccounted, StoppedMeansIdle
  <2>2. CallsAccounted'
    BY <1>3 DEF SendAtOnce, Arrive, Emit, Bookkeeping, CallsAccounted, StoppedMeansIdle
  <2>3. StoppedMeansIdle'
    BY <1>3 DEF SendAtOnce, Arrive, Emit, Bookkeeping, CallsAccounted, StoppedMeansIdle
  <2>4. KeyOrder'
    BY <1>3 DEF SendAtOnce, Arrive, Emit, Bookkeeping, CallsAccounted, StoppedMeansIdle, KeyOrder
  <2>5. QED
    BY <2>1, <2>2, <2>3, <2>4 DEF LinkInv
<1>4. CASE PeriodicTask
  <2> HIDE DEF InFlight, TypeOK
  <2>1. InFlight' = InFlight \cup SentBySlot
    BY <1>4, SlotFillsKeys
  <2>2. /\ SentBySlot \subseteq sendingList /\ sendingList \subseteq Reqs
        /\ sendingList' = sendingList \ SentBySlot
        /\ UNCHANGED <<worker, calls, arrival, answers, deleted>> /\ worker
    BY <1>4 DEF PeriodicTask, SentBySlot, TypeOK
  <2>3. \A r \in Reqs \ SentBySlot :
            sends'[r] = sends[r] /\ resendTimes'[r] = resendTimes[r] /\ limit'[r] = limit[r]
    BY <1>4 DEF PeriodicTask
  <2>4. \A r \in SentBySlot :
            sends'[r] = 1 /\ resendTimes'[r] = 0 /\ limit'[r] \in 0..254
    <3>1. \A r \in SentBySlot : sends[r] = 0 /\ r \in Reqs /\ resendTimesMax \in 0..254
      BY <2>2 DEF Bookkeeping, TypeOK
    <3> QED  BY <1>4, <3>1 DEF PeriodicTask
  <2>5. Bookkeeping'
    <3>1. \A r \in InFlight' : sends'[r] = resendTimes'[r] + 1 /\ resendTimes'[r] <= limit'[r] + 1
      <4>1. ASSUME NEW r \in SentBySlot
            PROVE  sends'[r] = resendTimes'[r] + 1 /\ resendTimes'[r] <= limit'[r] + 1
        BY <2>4
      <4>2. ASSUME NEW r \in InFlight \ SentBySlot
            PROVE  sends'[r] = resendTimes'[r] + 1 /\ resendTimes'[r] <= limit'[r] + 1
        BY <2>3 DEF Bookkeeping, InFlight
      <4> QED  BY <2>1, <4>1, <4>2
    <3>2. \A r \in Reqs \ Called : r \notin SentBySlot
      BY <2>2 DEF Bookkeeping
    <3> QED  BY <2>1, <2>2, <2>3, <3>1, <3>2 DEF Bookkeeping
  <2>6. CallsAccounted'
    BY <2>1, <2>2 DEF CallsAccounted, Bookkeeping
  <2>7. StoppedMeansIdle'
    <3>1. ASSUME NEW k \in Keys, sendingPackets'[k] # None
          PROVE  KeyOf[sendingPackets'[k]] = k
      BY <1>4, <3>1 DEF PeriodicTask, StoppedMeansIdle
    <3> QED  BY <2>2, <3>1 DEF StoppedMeansIdle
  <2>8. KeyOrder'
    <3> SUFFICES ASSUME NEW q \in Called, NEW r \in Called, Kind[q] = "ask", Kind[r] = "ask",
                        KeyOf[q] = KeyOf[r], arrival[q] < arrival[r], sends'[r] > 0,
                        q \in sendingList \cup InFlight
                 PROVE  FALSE
      BY <2>1, <2>2 DEF KeyOrder
    <3>1. r \in SentBySlot
      BY <2>3 DEF KeyOrder
    <3>2. q \notin InFlight
      <4>1. sendingPackets[KeyOf[r]] = None
        BY <3>1 DEF SentBySlot
      <4> QED  BY <4>1 DEF InFlight
    <3>3. arrival[r] <= arrival[q]
      BY <3>1, <3>2 DEF SentBySlot
    <3>4. arrival[q] \in Nat /\ arrival[r] \in Nat
      BY DEF TypeOK
    <3> QED  BY ONLY <3>3, <3>4, arrival[q] < arrival[r]
  <2> QED  BY <2>5, <2>6, <2>7, <2>8 DEF LinkInv
<1>5. ASSUME NEW r \in Reqs, Resend(r) PROVE LinkInv'
  <2> DEFINE n == resendTimes[r]
  <2>1. /\ r \in InFlight /\ n <= limit[r]
        /\ resendTimes' = [resendTimes EXCEPT ![r] = (n + 1) % 256]
        /\ sends' = [sends EXCEPT ![r] = sends[r] + 1]
        /\ UNCHANGED <<worker, sendingList, sendingPackets, limit, calls,
                       arrival, answers, deleted>>
    BY <1>5 DEF Resend, MayResend
  <2>2. n \in 0..254 /\ limit[r] \in 0..254 /\ n <= limit[r]
    BY <2>1
  <2>3. (n + 1) % 256 = n + 1
    <3> HIDE DEF n
    <3> QED BY ONLY <2>2, ByteIncrement
  <2>4. resendTimes' = [resendTimes EXCEPT ![r] = n + 1]
    BY <2>1, <2>3, Zenon
  <2>5. r \notin sendingList /\ r \in Called /\ sends[r] = n + 1
    BY <2>1 DEF Bookkeeping, CallsAccounted
  <2>6. /\ InFlight' = InFlight /\ Called' = Called
        /\ \A q \in Reqs : sends'[q] = IF q = r THEN n + 2 ELSE sends[q]
    BY <2>1, <2>2, <2>5
  <2>7. Bookkeeping'
    <3>1. \A q \in InFlight' : /\ sends'[q] = resendTimes'[q] + 1
                               /\ resendTimes'[q] <= limit'[q] + 1
      <4> SUFFICES ASSUME NEW q \in InFlight
                   PROVE  sends'[q] = resendTimes'[q] + 1 /\ resendTimes'[q] <= limit[q] + 1
        BY <2>1, <2>6
      <4>1. CASE q = r
        <5>1. resendTimes'[r] = n + 1 /\ sends'[r] = n + 2
          BY <2>4, <2>6
        <5>2. n + 2 = (n + 1) + 1 /\ n + 1 <= limit[r] + 1
          <6> HIDE DEF n
          <6> QED BY ONLY <2>2
        <5>3. QED
          BY ONLY <4>1, <5>1, <5>2, Zenon
      <4>2. CASE q # r
        BY <4>2, <2>4, <2>6 DEF Bookkeeping
      <4>3. QED
        BY <4>1, <4>2
    <3>2. QED
      BY <2>1, <2>5, <2>6, <3>1 DEF Bookkeeping
  <2>8. CallsAccounted'
    BY <2>1, <2>6 DEF CallsAccounted
  <2>9. StoppedMeansIdle'
    BY <2>1, <2>6 DEF StoppedMeansIdle
  <2>10. KeyOrder'
    BY <2>1, <2>2, <2>5, <2>6, SMTT(30) DEF KeyOrder
  <2>11. QED
    BY <2>7, <2>8, <2>9, <2>10 DEF LinkInv
<1>6. ASSUME NEW r \in Reqs, GiveUp(r) PROVE LinkInv'
  <2>1. Bookkeeping'
    BY <1>6 DEF GiveUp, MayResend, Emit, Bookkeeping, CallsAccounted, StoppedMeansIdle
  <2>2. CallsAccounted'
    BY <1>6 DEF GiveUp, MayResend, Emit, Bookkeeping, CallsAccounted, StoppedMeansIdle
  <2>3. StoppedMeansIdle'
    BY <1>6 DEF GiveUp, MayResend, Emit, Bookkeeping, CallsAccounted, StoppedMeansIdle
  <2>4. KeyOrder'
    BY <1>6 DEF GiveUp, MayResend, Emit, Bookkeeping, CallsAccounted, StoppedMeansIdle, KeyOrder
  <2>5. QED
    BY <2>1, <2>2, <2>3, <2>4 DEF LinkInv
<1>7. ASSUME NEW k \in Keys, HandleRawData(k) PROVE LinkInv'
  <2>1. Bookkeeping'
    BY <1>7 DEF HandleRawData, Emit, Bookkeeping, CallsAccounted, StoppedMeansIdle
  <2>2. CallsAccounted'
    BY <1>7 DEF HandleRawData, Emit, Bookkeeping, CallsAccounted, StoppedMeansIdle
  <2>3. StoppedMeansIdle'
    BY <1>7 DEF HandleRawData, Emit, Bookkeeping, CallsAccounted, StoppedMeansIdle
  <2>4. KeyOrder'
    BY <1>7 DEF HandleRawData, Emit, Bookkeeping, CallsAccounted, StoppedMeansIdle, KeyOrder
  <2>5. QED
    BY <2>1, <2>2, <2>3, <2>4 DEF LinkInv
<1>8. CASE Start
  <2>1. Bookkeeping'
    BY <1>8 DEF Start, Bookkeeping, CallsAccounted, StoppedMeansIdle
  <2>2. CallsAccounted'
    BY <1>8 DEF Start, Bookkeeping, CallsAccounted, StoppedMeansIdle
  <2>3. StoppedMeansIdle'
    BY <1>8 DEF Start, Bookkeeping, CallsAccounted, StoppedMeansIdle
  <2>4. KeyOrder'
    BY <1>8 DEF Start, Bookkeeping, CallsAccounted, StoppedMeansIdle, KeyOrder
  <2>5. QED
    BY <2>1, <2>2, <2>3, <2>4 DEF LinkInv
<1>9. CASE Stop
  <2>1. Bookkeeping'
    BY <1>9 DEF Stop, Bookkeeping, CallsAccounted, StoppedMeansIdle
  <2>2. CallsAccounted'
    BY <1>9 DEF Stop, Bookkeeping, CallsAccounted, StoppedMeansIdle
  <2>3. StoppedMeansIdle'
    BY <1>9 DEF Stop, Bookkeeping, CallsAccounted, StoppedMeansIdle
  <2>4. KeyOrder'
    BY <1>9 DEF Stop, Bookkeeping, CallsAccounted, StoppedMeansIdle, KeyOrder
  <2>5. QED
    BY <2>1, <2>2, <2>3, <2>4 DEF LinkInv
<1>10. ASSUME NEW m \in ResendLimits, SetCommPars(m) PROVE LinkInv'
  <2>1. Bookkeeping'
    BY <1>10 DEF SetCommPars, Bookkeeping, CallsAccounted, StoppedMeansIdle
  <2>2. CallsAccounted'
    BY <1>10 DEF SetCommPars, Bookkeeping, CallsAccounted, StoppedMeansIdle
  <2>3. StoppedMeansIdle'
    BY <1>10 DEF SetCommPars, Bookkeeping, CallsAccounted, StoppedMeansIdle
  <2>4. KeyOrder'
    BY <1>10 DEF SetCommPars, Bookkeeping, CallsAccounted, StoppedMeansIdle, KeyOrder
  <2>5. QED
    BY <2>1, <2>2, <2>3, <2>4 DEF LinkInv
<1>11. CASE UNCHANGED vars
  <2>1. Bookkeeping'
    BY <1>11 DEF vars, Bookkeeping, CallsAccounted, StoppedMeansIdle
  <2>2. CallsAccounted'
    BY <1>11 DEF vars, Bookkeeping, CallsAccounted, StoppedMeansIdle
  <2>3. StoppedMeansIdle'
    BY <1>11 DEF vars, Bookkeeping, CallsAccounted, StoppedMeansIdle
  <2>4. KeyOrder'
    BY <1>11 DEF vars, Bookkeeping, CallsAccounted, StoppedMeansIdle, KeyOrder
  <2>5. QED
    BY <2>1, <2>2, <2>3, <2>4 DEF LinkInv
<1>12. QED
  BY <1>1, <1>2, <1>3, <1>4, <1>5, <1>6, <1>7, <1>8, <1>9, <1>10, <1>11
  DEF Next, SendData, Expire

\* In every reachable state the inductive invariant holds.
THEOREM LinkInvariant == Spec => []LinkInv
<1>1. Init => LinkInv
  BY P2Assumption DEF Init, LinkInv, TypeOK, Bookkeeping, CallsAccounted,
     StoppedMeansIdle, KeyOrder, InFlight, Called
<1>2. QED
  BY <1>1, LinkInvStep, PTL DEF Spec

\* For any number of calls, in any interleaving of sends, replies, timeouts,
\* stops and restarts, each call is answered at most once and only stop()
\* makes one go unanswered.
THEOREM EachCallAnsweredOnce == Spec => []CallsAccounted
BY LinkInvariant, PTL DEF LinkInv

\* A stopped link has nothing in flight, and the table is keyed right.
THEOREM StopClearsFlight == Spec => []StoppedMeansIdle
BY LinkInvariant, PTL DEF LinkInv

\* Packets with one command key are sent one at a time and in call order.
THEOREM SentInCallOrder == Spec => []KeyOrder
BY LinkInvariant, PTL DEF LinkInv

-----------------------------------------------------------------------------
\* A timeout is an answer: what ResendBudget needs to know that a packet given
\* up is neither waiting nor in flight any more, so its sends are final.
BudgetInv == ResendBudget /\ \A r \in Reqs : result[r] = "timeout" => answers[r] > 0

\* One step keeps the budget of every packet.
LEMMA BudgetStep == LinkInv /\ BudgetInv /\ [Next]_vars => BudgetInv'
<1> SUFFICES ASSUME LinkInv, BudgetInv, [Next]_vars PROVE BudgetInv'
  OBVIOUS
<1>0. /\ TypeOK /\ Bookkeeping /\ CallsAccounted /\ ResendBudget
      /\ \A r \in Reqs : result[r] = "timeout" => answers[r] > 0
  BY DEF LinkInv, BudgetInv
<1>a. /\ answers \in [Reqs -> Nat]
      /\ result \in [Reqs -> {"none", "reply", "error", "timeout"}]
      /\ \A r \in Reqs : /\ resendTimes[r] \in Nat /\ limit[r] \in Nat
                         /\ sends[r] \in Nat /\ answers[r] \in Nat
  <2>1. TypeOK
    BY <1>0
  <2>2. /\ answers \in [Reqs -> Nat]
        /\ result \in [Reqs -> {"none", "reply", "error", "timeout"}]
        /\ resendTimes \in [Reqs -> 0..255] /\ limit \in [Reqs -> 0..254]
        /\ sends \in [Reqs -> Nat]
    BY ONLY <2>1 DEF TypeOK
  <2>3. \A r \in Reqs : resendTimes[r] \in Nat /\ limit[r] \in Nat
    BY ONLY <2>2
  <2>4. \A r \in Reqs : sends[r] \in Nat /\ answers[r] \in Nat
    BY ONLY <2>2
  <2> QED  BY ONLY <2>2, <2>3, <2>4
<1> USE <1>0, P2Assumption DEF TypeOK, listVars, BudgetInv, ResendBudget
<1>1. ASSUME NEW r \in Reqs, SendRefused(r) PROVE BudgetInv'
  BY <1>1 DEF SendRefused, ListFull, Arrive, Emit
<1>2. ASSUME NEW r \in Reqs, SendQueued(r) PROVE BudgetInv'
  BY <1>2 DEF SendQueued, Arrive
<1>3. ASSUME NEW r \in Reqs, SendAtOnce(r) PROVE BudgetInv'
  BY <1>3 DEF SendAtOnce, Arrive, Emit
<1>4. CASE PeriodicTask
  <2>1. \A r \in SentBySlot : sends[r] = 0 /\ result[r] # "timeout"
    BY DEF SentBySlot, Bookkeeping, CallsAccounted, InFlight, Called
  <2> QED  BY <1>4, <2>1 DEF PeriodicTask
<1>5. ASSUME NEW r \in Reqs, Resend(r) PROVE BudgetInv'
  <2>1. sends[r] = resendTimes[r] + 1 /\ resendTimes[r] <= limit[r] /\ result[r] # "timeout"
    BY <1>5 DEF Resend, MayResend, Bookkeeping, CallsAccounted
  <2>2. /\ sends' = [sends EXCEPT ![r] = sends[r] + 1]
        /\ UNCHANGED <<limit, answers, result>>
    BY <1>5 DEF Resend
  <2>3. sends[r] + 1 <= limit[r] + 2
    BY ONLY <1>a, <2>1, r \in Reqs
  <2>4. \A q \in Reqs : sends'[q] = IF q = r THEN sends[r] + 1 ELSE sends[q]
    BY <2>2
  <2> QED  BY <2>1, <2>2, <2>3, <2>4
<1>6. ASSUME NEW r \in Reqs, GiveUp(r) PROVE BudgetInv'
  <2>1. /\ sends[r] = resendTimes[r] + 1 /\ resendTimes[r] <= limit[r] + 1
        /\ ~(resendTimes[r] <= limit[r])
    BY <1>6, Zenon DEF GiveUp, MayResend, Bookkeeping
  <2>2. UNCHANGED <<limit, sends>> /\ Emit(r, "timeout")
    BY <1>6 DEF GiveUp
  <2>3. sends[r] = limit[r] + 2
    BY ONLY <1>a, <2>1, r \in Reqs
  <2>4. /\ answers' = [answers EXCEPT ![r] = answers[r] + 1]
        /\ result' = [result EXCEPT ![r] = "timeout"]
    BY <2>2, Zenon DEF Emit
  <2>5. \A q \in Reqs : result'[q] = "timeout" => q = r \/ result[q] = "timeout"
    BY ONLY <1>a, <2>4, r \in Reqs, Zenon
  <2>6. ResendBudget'
    <3>1. ASSUME NEW q \in Reqs
          PROVE  /\ Kind[q] = "ask" => sends[q] <= limit[q] + 2
                 /\ result'[q] = "timeout" => sends[q] = limit[q] + 2
      BY ONLY <1>0, <2>3, <2>5, q \in Reqs, Zenon DEF ResendBudget
    <3>2. sends' = sends /\ limit' = limit
      BY <2>2
    <3> QED  BY ONLY <3>1, <3>2, Zenon DEF ResendBudget
  <2>7. ASSUME NEW q \in Reqs, result'[q] = "timeout" PROVE answers'[q] > 0
    <3>1. CASE q = r
      <4>1. answers'[r] = answers[r] + 1
        BY ONLY <1>a, <2>4, r \in Reqs
      <4> QED  BY ONLY <1>a, <3>1, <4>1, r \in Reqs
    <3>2. CASE q # r
      <4>1. answers'[q] = answers[q] /\ answers[q] > 0
        BY ONLY <1>0, <1>a, <2>4, <2>5, <2>7, <3>2, Zenon
      <4> QED  BY ONLY <4>1, Zenon
    <3> QED  BY <3>1, <3>2
  <2> QED  BY ONLY <2>6, <2>7, Zenon DEF BudgetInv
<1>7. ASSUME NEW k \in Keys, HandleRawData(k) PROVE BudgetInv'
  BY <1>7 DEF HandleRawData, Emit
<1>8. CASE Start \/ Stop
  BY <1>8 DEF Start, Stop
<1>9. ASSUME NEW m \in ResendLimits, SetCommPars(m) PROVE BudgetInv'
  BY <1>9 DEF SetCommPars
<1>10. CASE UNCHANGED vars
  BY <1>10 DEF vars
<1> QED
  BY <1>1, <1>2, <1>3, <1>4, <1>5, <1>6, <1>7, <1>8, <1>9, <1>10
  DEF Next, SendData, Expire

\* The quint8 counter of P2AsyncPacket and its test resendTimes++ <=
\* resendTimesMax: whatever setCommPars does while packets are in flight, each
\* packet is sent at most resendTimesMax + 2 times, with the limit it left with,
\* and is reported as timed out only after all of them.
THEOREM BudgetKept == Spec => []ResendBudget
<1>1. Init => BudgetInv
  BY P2Assumption DEF Init, BudgetInv, ResendBudget
<1>2. QED
  BY <1>1, LinkInvariant, BudgetStep, PTL DEF Spec, BudgetInv

-----------------------------------------------------------------------------
\* What CommandPort calls open: the packets that wait or are in flight.
Open == sendingList \cup InFlight

\* The packet in flight under its key is the earliest open one of that key, is
\* open, and has had no answer yet.
LEMMA FlightIsFirst ==
    ASSUME LinkInv, NEW r \in InFlight
    PROVE  /\ r \in Reqs /\ r \in Open /\ answers[r] = 0
           /\ sendingPackets[KeyOf[r]] = r
           /\ \A q \in Open : KeyOf[q] = KeyOf[r] => arrival[r] <= arrival[q]
<1>1. r \in Reqs /\ r \in Open /\ sendingPackets[KeyOf[r]] = r
  BY DEF InFlight, Open
<1>2. r \in Called /\ Kind[r] = "ask" /\ answers[r] = 0 /\ sends[r] = resendTimes[r] + 1
  BY <1>1 DEF LinkInv, Bookkeeping, CallsAccounted
<1>3. sends[r] > 0
  <2>1. resendTimes[r] \in 0..255
    BY <1>1 DEF LinkInv, TypeOK
  <2> QED  BY ONLY <1>2, <2>1
<1>4. ASSUME NEW q \in Open, KeyOf[q] = KeyOf[r] PROVE arrival[r] <= arrival[q]
  <2>1. q \in Called /\ Kind[q] = "ask"
    BY DEF LinkInv, Bookkeeping, Open
  <2>2. ~(arrival[q] < arrival[r])
    BY <1>2, <1>3, <1>4, <2>1 DEF LinkInv, KeyOrder, Open
  <2>3. arrival[q] \in Nat /\ arrival[r] \in Nat
    BY <1>1, <2>1 DEF LinkInv, TypeOK, Called
  <2> QED  BY ONLY <2>2, <2>3
<1> QED  BY <1>1, <1>2, <1>4

\* An answer to the packet in flight under its key is an Answer of CommandPort,
\* be it the reply or the timeout.
LEMMA AnswerStep ==
    ASSUME LinkInv, NEW r \in InFlight, NEW what,
           sendingPackets' = [sendingPackets EXCEPT ![KeyOf[r]] = None],
           Emit(r, what), UNCHANGED <<worker, sendingList, arrival>>
    PROVE  Port!Answer(r)
<1> USE P2Assumption
<1>0. TypeOK /\ StoppedMeansIdle /\ CallsAccounted /\ Bookkeeping
  BY DEF LinkInv
<1>1. /\ r \in Reqs /\ r \in Open /\ answers[r] = 0 /\ sendingPackets[KeyOf[r]] = r
      /\ \A q \in Open : KeyOf[q] = KeyOf[r] => arrival[r] <= arrival[q]
  BY FlightIsFirst
<1>2. r \notin sendingList
  BY <1>0 DEF Bookkeeping, CallsAccounted
<1>3. InFlight' = InFlight \ {r}
  BY <1>0, <1>1 DEF TypeOK, InFlight
<1>4. Open' = Open \ {r}
  BY <1>2, <1>3 DEF Open
<1>5. answers' = [answers EXCEPT ![r] = 1]
  <2>1. answers' = [answers EXCEPT ![r] = answers[r] + 1] /\ answers[r] + 1 = 1
    BY <1>1 DEF Emit
  <2> QED  BY <2>1
<1> QED  BY <1>1, <1>4, <1>5 DEF Port!Answer, Open

\* A call that takes its place in the order of calls does so for CommandPort.
LEMMA ArriveStep ==
    ASSUME LinkInv, NEW r \in Reqs, Arrive(r)
    PROVE  Port!Arrive(r)
<1>1. /\ arrival \in [Reqs -> Nat] /\ calls \in Nat
      /\ \A q \in Reqs : arrival[q] <= calls
  BY DEF LinkInv, TypeOK, Bookkeeping
<1> QED  BY <1>1 DEF Arrive, Port!Arrive

\* Every step of the link is a step of CommandPort, or leaves it as it is.
LEMMA PortStep == LinkInv /\ [Next]_vars => [Port!PortNext]_(Port!portVars)
<1> SUFFICES ASSUME LinkInv, [Next]_vars PROVE [Port!PortNext]_(Port!portVars)
  OBVIOUS
<1>0. TypeOK /\ StoppedMeansIdle /\ CallsAccounted /\ Bookkeeping
  BY DEF LinkInv
<1> USE P2Assumption
<1>1. ASSUME NEW r \in Reqs, SendRefused(r) PROVE Port!AnswerAtOnce(r)
  <2>1. Port!Arrive(r)
    BY <1>1, ArriveStep DEF SendRefused
  <2>2. answers[r] = 0
    BY <1>0, <1>1 DEF TypeOK, Bookkeeping, Called, SendRefused, Arrive
  <2>3. answers' = [answers EXCEPT ![r] = 1]
    BY <1>1, <2>2 DEF SendRefused, Emit
  <2> QED
    BY <1>1, <2>1, <2>3 DEF SendRefused, listVars, InFlight, Port!AnswerAtOnce
<1>2. ASSUME NEW r \in Reqs, SendQueued(r) PROVE Port!Accept(r)
  BY <1>2, ArriveStep DEF SendQueued, InFlight, Port!Accept
<1>3. ASSUME NEW r \in Reqs, SendAtOnce(r) PROVE Port!AnswerAtOnce(r)
  <2>1. Port!Arrive(r)
    BY <1>3, ArriveStep DEF SendAtOnce
  <2>2. answers[r] = 0
    BY <1>0, <1>3 DEF TypeOK, Bookkeeping, Called, SendAtOnce, Arrive
  <2>3. answers' = [answers EXCEPT ![r] = 1]
    BY <1>3, <2>2 DEF SendAtOnce, Emit
  <2> QED
    BY <1>3, <2>1, <2>3 DEF SendAtOnce, listVars, InFlight, Port!AnswerAtOnce
<1>4. ASSUME PeriodicTask PROVE UNCHANGED Port!portVars
  <2>1. InFlight' = InFlight \cup SentBySlot
    BY <1>4, SlotFillsKeys
  <2>2. sendingList' = sendingList \ SentBySlot /\ SentBySlot \subseteq sendingList
    BY <1>4 DEF PeriodicTask, SentBySlot
  <2>3. (sendingList \cup InFlight)' = sendingList \cup InFlight
    BY <2>1, <2>2
  <2> QED  BY <1>4, <2>3 DEF PeriodicTask, Port!portVars
<1>5. ASSUME NEW r \in Reqs, Resend(r) PROVE UNCHANGED Port!portVars
  BY <1>5 DEF Resend, InFlight, Port!portVars
<1>6. ASSUME NEW r \in Reqs, GiveUp(r) PROVE Port!Answer(r)
  BY <1>6, AnswerStep DEF GiveUp
<1>7. ASSUME NEW k \in Keys, HandleRawData(k) PROVE \E r \in Reqs : Port!Answer(r)
  <2> DEFINE r == sendingPackets[k]
  <2>1. r \in InFlight /\ KeyOf[r] = k /\ r \in Reqs
    BY <1>0, <1>7 DEF HandleRawData, TypeOK, StoppedMeansIdle, InFlight
  <2>2. Port!Answer(r)
    BY <1>7, <2>1, AnswerStep DEF HandleRawData
  <2> QED  BY <2>1, <2>2
<1>8. ASSUME Start PROVE Port!Connect
  BY <1>8 DEF Start, listVars, InFlight, Port!Connect
<1>9. ASSUME Stop PROVE Port!Disconnect
  <2>1. InFlight' = {}
    BY <1>9 DEF Stop, InFlight
  <2> QED  BY <1>9, <2>1 DEF Stop, Port!Disconnect
<1>10. ASSUME NEW m \in ResendLimits, SetCommPars(m) PROVE UNCHANGED Port!portVars
  BY <1>10 DEF SetCommPars, listVars, InFlight, Port!portVars
<1>11. CASE UNCHANGED vars
  BY <1>11 DEF vars, InFlight, Port!portVars
<1> QED
  BY <1>1, <1>2, <1>3, <1>4, <1>5, <1>6, <1>7, <1>8, <1>9, <1>10, <1>11
  DEF Next, SendData, Expire, Port!PortNext

\* DProtocol2 keeps what DProtocolInterface promises the layer above it: every
\* behaviour of the link is one of CommandPort.  Calls are answered at once or
\* accepted; an accepted call is answered at most once and after the earlier
\* open calls of its key; only stop() abandons one.
THEOREM LinkImplementsPort == Spec => PortSpec
<1>1. Init => Port!PortInit
  <2>1. Init => InFlight = {}
    BY P2Assumption DEF Init, InFlight
  <2> QED  BY <2>1 DEF Init, Port!PortInit
<1>2. QED
  BY <1>1, LinkInvariant, PortStep, PTL DEF Spec, PortSpec, Port!PortSpec

-----------------------------------------------------------------------------
\* Over the wire.
Backed ==
    /\ fromDevice \in [Keys -> Nat]
    /\ runs \in [Keys -> Nat]
    /\ \A k \in Keys :
           /\ IsFiniteSet(Replied(k))
           /\ Cardinality(Replied(k)) + fromDevice[k] <= runs[k]

\* A step on the wire or in the device is none of the link, every other step
\* of the composition is one of DProtocol2.
LEMMA WireStep == [LinkNext]_linkVars => [Next]_vars
<1> SUFFICES ASSUME [LinkNext]_linkVars PROVE [Next]_vars
  OBVIOUS
<1>1. ASSUME NEW r \in Reqs, DeviceRuns(r) \/ LoseToDevice(r) PROVE UNCHANGED vars
  BY <1>1 DEF DeviceRuns, LoseToDevice
<1>2. ASSUME NEW f \in Keys, LoseFromDevice(f) PROVE UNCHANGED vars
  BY <1>2 DEF LoseFromDevice
<1>3. ASSUME NEW f \in Keys, Deliver(f) PROVE Next \/ UNCHANGED vars
  BY <1>3 DEF Deliver, Next
<1>4. CASE UNCHANGED linkVars
  BY <1>4 DEF linkVars
<1> QED  BY <1>1, <1>2, <1>3, <1>4 DEF LinkNext, Next

\* Whatever the wire and the device do, the link behaves as DProtocol2 alone
\* does: its theorems hold in the composition.
THEOREM WireKeepsLink == LinkSpec => Spec
<1>1. LinkInit => Init
  BY DEF LinkInit
<1> QED  BY <1>1, WireStep, PTL DEF LinkSpec, Spec

\* No step of sendData, of the timers or of stop() tells a call that wants an
\* answer that it has succeeded.
LEMMA OnlyFramesReply ==
    ASSUME LinkInv, NEW k \in Keys,
           \/ \E r \in Reqs : SendData(r) \/ Expire(r)
           \/ PeriodicTask \/ Start \/ Stop \/ UNCHANGED vars
    PROVE  Replied(k)' \subseteq Replied(k)
<1>0. result \in [Reqs -> {"none", "reply", "error", "timeout"}]
  BY DEF LinkInv, TypeOK
<1>1. ASSUME UNCHANGED result PROVE Replied(k)' = Replied(k)
  BY <1>1 DEF Replied
<1>2. ASSUME NEW r \in Reqs, NEW what, Emit(r, what), what # "reply" \/ Kind[r] # "ask"
      PROVE  Replied(k)' \subseteq Replied(k)
  BY <1>0, <1>2 DEF Emit, Replied
<1>3. ASSUME NEW r \in Reqs, SendData(r) \/ Expire(r) PROVE Replied(k)' \subseteq Replied(k)
  <2>1. CASE SendRefused(r) \/ GiveUp(r)
    BY <1>2, <2>1 DEF SendRefused, GiveUp
  <2>2. CASE SendAtOnce(r)
    BY <1>2, <2>2 DEF SendAtOnce
  <2>3. CASE SendQueued(r) \/ Resend(r)
    BY <1>1, <2>3 DEF SendQueued, Resend
  <2> QED  BY <1>3, <2>1, <2>2, <2>3 DEF SendData, Expire
<1>4. CASE PeriodicTask \/ Start \/ Stop \/ UNCHANGED vars
  BY <1>1, <1>4 DEF PeriodicTask, Start, Stop, vars
<1> QED  BY <1>3, <1>4

\* A set of calls that does not grow costs no more answers.
LEMMA BackedStays ==
    ASSUME Backed, \A k \in Keys : Replied(k)' \subseteq Replied(k),
           fromDevice' \in [Keys -> Nat], runs' \in [Keys -> Nat],
           \A k \in Keys : fromDevice'[k] - fromDevice[k] <= runs'[k] - runs[k]
    PROVE  Backed'
<1> SUFFICES ASSUME NEW k \in Keys
             PROVE  /\ IsFiniteSet(Replied(k)')
                    /\ Cardinality(Replied(k)') + fromDevice'[k] <= runs'[k]
  BY DEF Backed
<1>1. IsFiniteSet(Replied(k)) /\ Replied(k)' \subseteq Replied(k)
  BY DEF Backed
<1>2. /\ IsFiniteSet(Replied(k)')
      /\ Cardinality(Replied(k)') <= Cardinality(Replied(k))
  BY <1>1, FS_Subset
<1>3. Cardinality(Replied(k)) \in Nat /\ Cardinality(Replied(k)') \in Nat
  BY <1>1, <1>2, FS_CardinalityType
<1>4. /\ fromDevice[k] \in Nat /\ runs[k] \in Nat /\ fromDevice'[k] \in Nat /\ runs'[k] \in Nat
      /\ Cardinality(Replied(k)) + fromDevice[k] <= runs[k]
      /\ fromDevice'[k] - fromDevice[k] <= runs'[k] - runs[k]
  BY DEF Backed
<1> QED  BY ONLY <1>2, <1>3, <1>4

\* handleRawData: the frame that answers a call is used up by it, and the call
\* is one with the frame's own key.
LEMMA DeliverBacked ==
    ASSUME LinkInv, Backed, NEW f \in Keys, Deliver(f)
    PROVE  Backed'
<1>0. fromDevice \in [Keys -> Nat] /\ runs \in [Keys -> Nat]
  BY DEF Backed
<1>1. /\ fromDevice[f] > 0 /\ fromDevice' = [fromDevice EXCEPT ![f] = fromDevice[f] - 1]
      /\ UNCHANGED runs
  BY DEF Deliver
<1>2. fromDevice' \in [Keys -> Nat] /\ fromDevice'[f] = fromDevice[f] - 1
      /\ \A k \in Keys \ {f} : fromDevice'[k] = fromDevice[k]
  BY <1>0, <1>1
<1>3. CASE UNCHANGED vars
  <2>1. \A k \in Keys : Replied(k)' = Replied(k)
    BY <1>3 DEF vars, Replied
  <2>2. \A k \in Keys : fromDevice'[k] - fromDevice[k] <= runs'[k] - runs[k]
    <3> SUFFICES ASSUME NEW k \in Keys
                 PROVE  fromDevice'[k] - fromDevice[k] <= runs'[k] - runs[k]
      OBVIOUS
    <3>1. fromDevice[k] \in Nat /\ runs'[k] = runs[k] /\ runs[k] \in Nat
      BY <1>0, <1>1
    <3>2. fromDevice'[k] = fromDevice[k] \/ fromDevice'[k] = fromDevice[k] - 1
      BY <1>2
    <3> QED  BY ONLY <3>1, <3>2
  <2> QED  BY <1>0, <1>1, <1>2, <2>1, <2>2, BackedStays
<1>4. CASE HandleRawData(f)
  <2> DEFINE r == sendingPackets[f]
  <2>1. r \in Reqs /\ KeyOf[r] = f /\ Emit(r, "reply")
    BY <1>4 DEF HandleRawData, LinkInv, TypeOK, StoppedMeansIdle
  <2>2. result \in [Reqs -> {"none", "reply", "error", "timeout"}]
    BY DEF LinkInv, TypeOK
  <2> HIDE DEF r
  <2>3. \A q \in Reqs \ {r} : result'[q] = result[q]
    BY <2>1, <2>2 DEF Emit
  <2>4. \A k \in Keys \ {f} : Replied(k)' = Replied(k)
    BY <2>1, <2>3 DEF Replied
  <2>5. Replied(f)' \subseteq Replied(f) \cup {r}
    BY <2>3 DEF Replied
  <2>6. IsFiniteSet(Replied(f)) /\ Cardinality(Replied(f)) + fromDevice[f] <= runs[f]
    BY DEF Backed
  <2>7. /\ IsFiniteSet(Replied(f) \cup {r})
        /\ Cardinality(Replied(f) \cup {r}) <= Cardinality(Replied(f)) + 1
    <3>1. /\ IsFiniteSet(Replied(f) \cup {r})
          /\ \/ Cardinality(Replied(f) \cup {r}) = Cardinality(Replied(f))
             \/ Cardinality(Replied(f) \cup {r}) = Cardinality(Replied(f)) + 1
      BY <2>6, FS_AddElement
    <3>2. Cardinality(Replied(f)) \in Nat
      BY <2>6, FS_CardinalityType
    <3> QED  BY ONLY <3>1, <3>2
  <2>8. /\ IsFiniteSet(Replied(f)')
        /\ Cardinality(Replied(f)') <= Cardinality(Replied(f) \cup {r})
    BY <2>5, <2>7, FS_Subset
  <2>9. Cardinality(Replied(f)') + fromDevice'[f] <= runs'[f]
    <3>1. /\ Cardinality(Replied(f)) \in Nat /\ Cardinality(Replied(f)') \in Nat
          /\ Cardinality(Replied(f) \cup {r}) \in Nat
      BY <2>6, <2>7, <2>8, FS_CardinalityType
    <3>2. fromDevice[f] \in Nat /\ runs[f] \in Nat /\ runs' = runs
      BY <1>0, <1>1
    <3> QED  BY ONLY <1>1, <1>2, <2>6, <2>7, <2>8, <3>1, <3>2
  <2>10. \A k \in Keys \ {f} :
             /\ IsFiniteSet(Replied(k)')
             /\ Cardinality(Replied(k)') + fromDevice'[k] <= runs'[k]
    BY <1>1, <1>2, <2>4 DEF Backed
  <2>11. \A k \in Keys :
             /\ IsFiniteSet(Replied(k)')
             /\ Cardinality(Replied(k)') + fromDevice'[k] <= runs'[k]
    BY <2>8, <2>9, <2>10
  <2> QED  BY <1>0, <1>1, <1>2, <2>11 DEF Backed
<1> QED  BY <1>3, <1>4 DEF Deliver, Matches

\* Every step of the composition keeps the count.
LEMMA BackedStep == LinkInv /\ Backed /\ [LinkNext]_linkVars => Backed'
<1> SUFFICES ASSUME LinkInv, Backed, [LinkNext]_linkVars PROVE Backed'
  OBVIOUS
<1>0. fromDevice \in [Keys -> Nat] /\ runs \in [Keys -> Nat]
  BY DEF Backed
<1>1. ASSUME UNCHANGED <<fromDevice, runs>>, \A k \in Keys : Replied(k)' \subseteq Replied(k)
      PROVE  Backed'
  <2>1. \A k \in Keys : fromDevice'[k] - fromDevice[k] <= runs'[k] - runs[k]
    BY <1>0, <1>1
  <2> QED  BY <1>0, <1>1, <2>1, BackedStays
<1>2. CASE /\ \/ \E r \in Reqs : SendData(r) \/ Expire(r)
              \/ PeriodicTask \/ Start \/ Stop
           /\ Transmit
  BY <1>1, <1>2, OnlyFramesReply DEF Transmit
<1>3. ASSUME NEW r \in Reqs, DeviceRuns(r) PROVE Backed'
  <2>1. KeyOf[r] \in Keys
    BY P2Assumption
  <2>2. /\ UNCHANGED vars
        /\ runs' = [runs EXCEPT ![KeyOf[r]] = runs[KeyOf[r]] + 1]
        /\ fromDevice' = [fromDevice EXCEPT ![KeyOf[r]] = fromDevice[KeyOf[r]] + 1]
    BY <1>3 DEF DeviceRuns
  <2>3. \A k \in Keys : Replied(k)' = Replied(k)
    BY <2>2 DEF vars, Replied
  <2>4. fromDevice' \in [Keys -> Nat] /\ runs' \in [Keys -> Nat]
    BY <1>0, <2>1, <2>2
  <2>5. \A k \in Keys : fromDevice'[k] - fromDevice[k] <= runs'[k] - runs[k]
    BY <1>0, <2>1, <2>2
  <2> QED  BY <2>3, <2>4, <2>5, BackedStays
<1>4. ASSUME NEW f \in Keys, Deliver(f) PROVE Backed'
  BY <1>4, DeliverBacked
<1>5. ASSUME NEW r \in Reqs, LoseToDevice(r) PROVE Backed'
  BY <1>1, <1>5, OnlyFramesReply DEF LoseToDevice
<1>6. ASSUME NEW f \in Keys, LoseFromDevice(f) PROVE Backed'
  <2>1. /\ UNCHANGED <<vars, runs>> /\ fromDevice[f] > 0
        /\ fromDevice' = [fromDevice EXCEPT ![f] = fromDevice[f] - 1]
    BY <1>6 DEF LoseFromDevice
  <2>2. \A k \in Keys : Replied(k)' = Replied(k)
    BY <2>1 DEF vars, Replied
  <2>3. fromDevice' \in [Keys -> Nat]
    BY <1>0, <2>1
  <2>4. \A k \in Keys : fromDevice'[k] - fromDevice[k] <= runs'[k] - runs[k]
    BY <1>0, <2>1
  <2> QED  BY <1>0, <2>1, <2>2, <2>3, <2>4, BackedStays
<1>7. CASE UNCHANGED linkVars
  <2>1. UNCHANGED vars /\ UNCHANGED <<fromDevice, runs>>
    BY <1>7 DEF linkVars
  <2> QED  BY <1>1, <2>1, OnlyFramesReply
<1> QED  BY <1>2, <1>3, <1>4, <1>5, <1>6, <1>7 DEF LinkNext

\* Protocol 2 invents no success: for every number of calls, keys, resends and
\* frames lost, delayed or reordered, the calls told "reply" under a key are at
\* most the runs of that command by the device.
THEOREM SuccessIsBacked == LinkSpec => []RepliesBacked
<1>1. LinkInit => Backed
  <2> SUFFICES ASSUME LinkInit PROVE Backed
    OBVIOUS
  <2>1. \A k \in Keys : Replied(k) = {}
    BY DEF LinkInit, Init, Replied
  <2>2. \A k \in Keys : IsFiniteSet(Replied(k)) /\ Cardinality(Replied(k)) = 0
    BY <2>1, FS_EmptySet
  <2> QED  BY <2>2 DEF LinkInit, Backed
<1>2. Backed => RepliesBacked
  <2> SUFFICES ASSUME Backed, NEW k \in Keys PROVE Cardinality(Replied(k)) <= runs[k]
    BY DEF RepliesBacked
  <2>1. /\ Cardinality(Replied(k)) \in Nat /\ fromDevice[k] \in Nat /\ runs[k] \in Nat
        /\ Cardinality(Replied(k)) + fromDevice[k] <= runs[k]
    BY FS_CardinalityType DEF Backed
  <2> QED  BY ONLY <2>1
<1>3. LinkSpec => []LinkInv
  BY WireKeepsLink, LinkInvariant, PTL
<1> QED  BY <1>1, <1>2, <1>3, BackedStep, PTL DEF LinkSpec
=============================================================================
