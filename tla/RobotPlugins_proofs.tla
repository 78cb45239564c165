------------------------ MODULE RobotPlugins_proofs -------------------------
(***************************************************************************)
(* The plugins above the links.  The M1: what was waited for and reported  *)
(* as finished is done, and nobody is answered twice, whatever the clients *)
(* ask, connect, clear and disconnect.  The tasks of MagicDevicePlugin: no *)
(* request has more answers than its parts, and a merged one has all it    *)
(* should.  The tools: no success without one that ran.  And all plugins   *)
(* together, with what is proved of industrial robots and scripts: one     *)
(* request, one answer.                                                    *)
(***************************************************************************)
EXTENDS RobotPlugins, IndustrialRobot_proofs, ScriptRunners_proofs

\* What is in two sequences joined.
LEMMA LenJoin ==
    ASSUME NEW s, NEW t, IsSeq(s), IsSeq(t)
    PROVE  /\ IsSeq(s \o t)
           /\ Len(s \o t) = Len(s) + Len(t)
           /\ \A n \in 1..Len(s) : (s \o t)[n] = s[n]
           /\ \A n \in 1..Len(t) : (s \o t)[Len(s) + n] = t[n]
           /\ \A n \in 1..Len(s \o t) : n \notin 1..Len(s) => n - Len(s) \in 1..Len(t) /\ (s \o t)[n] = t[n - Len(s)]
<1> DEFINE S == {s[n] : n \in 1..Len(s)} \cup {t[n] : n \in 1..Len(t)}
<1>1. Len(s) \in Nat /\ Len(t) \in Nat
  BY DEF IsSeq
<1>2. s \in Seq(S)
  <2>1. \A n \in 1..Len(s) : s[n] \in S
    OBVIOUS
  <2> QED
    BY <1>1, <2>1, IsASeq DEF IsSeq
<1>3. t \in Seq(S)
  <2>1. \A n \in 1..Len(t) : t[n] \in S
    OBVIOUS
  <2> QED
    BY <1>1, <2>1, IsASeq DEF IsSeq
<1> HIDE DEF S
<1>4. s \o t \in Seq(S) /\ Len(s \o t) = Len(s) + Len(t)
  BY <1>2, <1>3, ConcatProperties
<1>5. \A n \in 1..Len(s) + Len(t) : (s \o t)[n] = IF n <= Len(s) THEN s[n] ELSE t[n - Len(s)]
  BY <1>2, <1>3, ConcatProperties
<1>6. IsSeq(s \o t)
  BY <1>1, <1>4, LenProperties DEF IsSeq
<1> QED
  BY <1>1, <1>4, <1>5, <1>6

-----------------------------------------------------------------------------
\* MagicDevicePlugin.  What is asked of the answers to one request.
PlainOnly(s) == \A n \in 1..Len(s) : s[n].kind = "plain"
OneMerged(s) == \A m, n \in 1..Len(s) : s[m].kind # "plain" /\ s[n].kind # "plain" => m = n
\* Request x of the requests rs is made of three commands; how many answers another gets.
Tripled(rs, x) == rs[x].api = "GetEndEffectorStatus"
Quota(rs, x) == IF rs[x].api = "CheckBoxSpace" /\ ~rs[x].code THEN 2 ELSE 1

\* Request x is with a link (F), a download (T) or the search.
Busy(x, F, T, on, who) == (\E c \in F : c.id = x) \/ (\E t \in T : t.id = x) \/ (on /\ who = x)
\* The answers s to request x, when the requests M have commands to come.
AskInv(rs, x, s, M, busy) ==
    IF Tripled(rs, x) THEN OneMerged(s) /\ (x \in M => PlainOnly(s))
    ELSE Len(s) <= Quota(rs, x) /\ (busy => s = <<>>)

LinkInv(rs, n, F) ==
    /\ \A c \in F : c.id \in 1..n /\ rs[c.id].api \in {"GetEndEffectorStatus", "GetPose", "QueuedCmdStop"}
    /\ \A b, c \in F : b.id = c.id => b = c
ThreadInv(rs, n, T) ==
    /\ \A t \in T : "id" \in DOMAIN t /\ t.id \in 1..n /\ rs[t.id].api = "DownloadProgram"
    /\ \A t, u \in T : t.id = u.id => t = u
SearchInv(rs, n, on, who) == on => who \in 1..n /\ rs[who].api = "SearchDobot"
EffectorCalls == {"GetEndEffectorType", "GetEndEffectorSuctionCup", "GetEndEffectorGripper"}
TripleInv(rs, n, m) ==
    \A x \in DOMAIN m : x \in 1..n /\ Tripled(rs, x) /\ m[x].request \in Seq(EffectorCalls)

\* No request has more answers than it may, and none that is still with somebody has any.
TasksInv ==
    /\ session \in Sessions /\ come \in Nat /\ come <= Len(Tasks!asks)
    /\ said = [x \in Tasks!Asks |-> said[x]]
    /\ \A x \in Tasks!Asks : IsSeq(said[x]) /\ (x > come => said[x] = <<>>)
    /\ \A x \in 1..come :
           AskInv(Tasks!asks, x, said[x], DOMAIN m_magicSpecialTask,
                  Busy(x, inFlight, downloads, m_isSearchingDevices, searcher))
    /\ LinkInv(Tasks!asks, come, inFlight)
    /\ ThreadInv(Tasks!asks, come, downloads)
    /\ SearchInv(Tasks!asks, come, m_isSearchingDevices, searcher)
    /\ TripleInv(Tasks!asks, come, m_magicSpecialTask)

\* Plain answers joined to plain ones are plain.
LEMMA PlainJoin ==
    ASSUME NEW s, NEW t, IsSeq(s), IsSeq(t), PlainOnly(s), PlainOnly(t)
    PROVE  PlainOnly(s \o t)
BY LenJoin DEF PlainOnly

\* Among plain answers none is merged.
LEMMA PlainOne == ASSUME NEW s, PlainOnly(s) PROVE OneMerged(s)
BY DEF PlainOnly, OneMerged

\* One merged answer joined to plain ones.
LEMMA JoinOne ==
    ASSUME NEW s, NEW t, IsSeq(s), IsSeq(t),
           \/ PlainOnly(s) /\ OneMerged(t)
           \/ OneMerged(s) /\ PlainOnly(t)
    PROVE  OneMerged(s \o t)
<1>1. PICK u : u = s \o t
  OBVIOUS
<1>2. /\ \A n \in 1..Len(s) : u[n] = s[n]
      /\ \A n \in 1..Len(u) : n \notin 1..Len(s) => n - Len(s) \in 1..Len(t) /\ u[n] = t[n - Len(s)]
  BY <1>1, LenJoin
<1>3. Len(s) \in Nat /\ Len(t) \in Nat /\ Len(u) \in Nat
  BY <1>1, LenJoin DEF IsSeq
<1>4. CASE PlainOnly(s) /\ OneMerged(t)
  <2>1. ASSUME NEW m \in 1..Len(u), NEW n \in 1..Len(u), u[m].kind # "plain", u[n].kind # "plain"
        PROVE  m = n
    <3>1. m \notin 1..Len(s) /\ n \notin 1..Len(s)
      BY <1>2, <1>4, <2>1 DEF PlainOnly
    <3>2. m - Len(s) \in 1..Len(t) /\ n - Len(s) \in 1..Len(t) /\ u[m] = t[m - Len(s)] /\ u[n] = t[n - Len(s)]
      BY <1>2, <3>1
    <3>3. m - Len(s) = n - Len(s)
      BY <1>4, <2>1, <3>2 DEF OneMerged
    <3> QED
      BY <1>3, <3>3
  <2> QED
    BY <1>1, <2>1 DEF OneMerged
<1>5. CASE OneMerged(s) /\ PlainOnly(t)
  <2>1. ASSUME NEW m \in 1..Len(u), NEW n \in 1..Len(u), u[m].kind # "plain", u[n].kind # "plain"
        PROVE  m = n
    <3>1. m \in 1..Len(s) /\ n \in 1..Len(s)
      BY <1>2, <1>5, <2>1 DEF PlainOnly
    <3> QED
      BY <1>2, <1>5, <2>1, <3>1 DEF OneMerged
  <2> QED
    BY <1>1, <2>1 DEF OneMerged
<1> QED
  BY <1>4, <1>5

\* A request without an answer is always in order.
LEMMA EmptyAsk == IsSeq(<<>>) /\ \A rs, x, M, busy : AskInv(rs, x, <<>>, M, busy)
BY DEF IsSeq, AskInv, OneMerged, PlainOnly, Quota

\* What the plugin has under way belongs to requests that have come, of the right kind.
UnderWay(rs, n, F, T, on, who, m) ==
    LinkInv(rs, n, F) /\ ThreadInv(rs, n, T) /\ SearchInv(rs, n, on, who) /\ TripleInv(rs, n, m)

\* A step that answers request x with s and leaves what is under way in order.
LEMMA TasksStep ==
    ASSUME TasksInv, session' = session, come' \in Nat, come' <= Len(Tasks!asks), come <= come', come' <= come + 1,
           UnderWay(Tasks!asks, come', inFlight', downloads', m_isSearchingDevices', searcher', m_magicSpecialTask'),
           said' = [x \in Tasks!Asks |-> said'[x]],
           NEW id \in 1..come', come' # come => id = come',
           IsSeq(said'[id]),
           AskInv(Tasks!asks, id, said'[id], DOMAIN m_magicSpecialTask',
                  Busy(id, inFlight', downloads', m_isSearchingDevices', searcher')),
           \A x \in Tasks!Asks : x # id => said'[x] = said[x],
           \A x \in 1..come : x # id =>
               /\ x \in DOMAIN m_magicSpecialTask' => x \in DOMAIN m_magicSpecialTask
               /\ Busy(x, inFlight', downloads', m_isSearchingDevices', searcher')
                  => Busy(x, inFlight, downloads, m_isSearchingDevices, searcher)
    PROVE  TasksInv'
<1> DEFINE busy(x) == Busy(x, inFlight, downloads, m_isSearchingDevices, searcher)
           busyNext(x) == Busy(x, inFlight', downloads', m_isSearchingDevices', searcher')
<1>1. Tasks!asks' = Tasks!asks
  BY DEF Tasks!asks
<1>2. come \in Nat /\ \A x \in Tasks!Asks : IsSeq(said[x]) /\ (x > come => said[x] = <<>>)
  BY DEF TasksInv
<1>3. \A x \in Tasks!Asks : IsSeq(said'[x]) /\ (x > come' => said'[x] = <<>>)
  <2> SUFFICES ASSUME NEW x \in Tasks!Asks PROVE IsSeq(said'[x]) /\ (x > come' => said'[x] = <<>>)
    OBVIOUS
  <2>1. CASE x = id
    BY <2>1
  <2>2. CASE x # id
    BY <1>2, <2>2 DEF Tasks!Asks
  <2> QED
    BY <2>1, <2>2
<1>4. \A x \in 1..come' : AskInv(Tasks!asks, x, said'[x], DOMAIN m_magicSpecialTask', busyNext(x))
  <2> SUFFICES ASSUME NEW x \in 1..come'
               PROVE  AskInv(Tasks!asks, x, said'[x], DOMAIN m_magicSpecialTask', busyNext(x))
    OBVIOUS
  <2>1. CASE x = id
    BY <2>1
  <2>2. CASE x # id
    <3>1. x \in 1..come
      BY <1>2, <2>2
    <3>2. x \in Tasks!Asks
      <4>1. Len(Tasks!asks) \in 0..MaxAsks /\ MaxAsks \in Nat
        BY TasksAssumption DEF TasksInv, Tasks!asks
      <4> QED
        BY <4>1 DEF Tasks!Asks
    <3>3. AskInv(Tasks!asks, x, said[x], DOMAIN m_magicSpecialTask, busy(x))
      BY <3>1 DEF TasksInv
    <3>4. said'[x] = said[x] /\ (x \in DOMAIN m_magicSpecialTask' => x \in DOMAIN m_magicSpecialTask)
          /\ (busyNext(x) => busy(x))
      BY <2>2, <3>1, <3>2
    <3> HIDE DEF busy, busyNext
    <3> QED
      BY <3>3, <3>4 DEF AskInv
  <2> QED
    BY <2>1, <2>2
<1>5. session' \in Sessions
  BY DEF TasksInv
<1>6. Tasks!Asks' = Tasks!Asks
  BY DEF Tasks!Asks
<1> QED
  BY <1>1, <1>3, <1>4, <1>5, <1>6 DEF TasksInv, UnderWay

\* A step that answers nobody.
LEMMA TasksQuiet ==
    ASSUME TasksInv, session' = session, come' = come, said' = said,
           UnderWay(Tasks!asks, come, inFlight', downloads', m_isSearchingDevices', searcher', m_magicSpecialTask'),
           \A x \in 1..come :
               /\ x \in DOMAIN m_magicSpecialTask' => x \in DOMAIN m_magicSpecialTask
               /\ Busy(x, inFlight', downloads', m_isSearchingDevices', searcher')
                  => Busy(x, inFlight, downloads, m_isSearchingDevices, searcher)
    PROVE  TasksInv'
<1> DEFINE busy(x) == Busy(x, inFlight, downloads, m_isSearchingDevices, searcher)
           busyNext(x) == Busy(x, inFlight', downloads', m_isSearchingDevices', searcher')
<1>1. Tasks!asks' = Tasks!asks /\ Tasks!Asks' = Tasks!Asks
  BY DEF Tasks!asks, Tasks!Asks
<1>2. \A x \in 1..come : AskInv(Tasks!asks, x, said[x], DOMAIN m_magicSpecialTask', busyNext(x))
  <2> SUFFICES ASSUME NEW x \in 1..come
               PROVE  AskInv(Tasks!asks, x, said[x], DOMAIN m_magicSpecialTask', busyNext(x))
    OBVIOUS
  <2>1. AskInv(Tasks!asks, x, said[x], DOMAIN m_magicSpecialTask, busy(x))
    BY DEF TasksInv
  <2>2. (x \in DOMAIN m_magicSpecialTask' => x \in DOMAIN m_magicSpecialTask) /\ (busyNext(x) => busy(x))
    OBVIOUS
  <2> HIDE DEF busy, busyNext
  <2> QED
    BY <2>1, <2>2 DEF AskInv
<1> QED
  BY <1>1, <1>2 DEF TasksInv, UnderWay

\* A request that has just come has nothing under way and no answer.
LEMMA NewAsk ==
    ASSUME TasksInv, come < Len(Tasks!asks)
    PROVE  /\ come \in Nat /\ come + 1 \in Tasks!Asks /\ come + 1 <= Len(Tasks!asks)
           /\ said[come + 1] = <<>>
           /\ come + 1 \notin DOMAIN m_magicSpecialTask
           /\ ~Busy(come + 1, inFlight, downloads, m_isSearchingDevices, searcher)
<1>1. Len(Tasks!asks) \in 0..MaxAsks /\ MaxAsks \in Nat
  BY TasksAssumption DEF TasksInv, Tasks!asks
<1>2. come \in Nat /\ come + 1 \in Tasks!Asks /\ come + 1 <= Len(Tasks!asks)
  BY <1>1 DEF TasksInv, Tasks!Asks
<1>3. said[come + 1] = <<>>
  BY <1>2 DEF TasksInv
<1>4. come + 1 \notin 1..come
  BY <1>2
<1>5. come + 1 \notin DOMAIN m_magicSpecialTask
  BY <1>4 DEF TasksInv, TripleInv
<1>6. ~Busy(come + 1, inFlight, downloads, m_isSearchingDevices, searcher)
  BY <1>4 DEF TasksInv, LinkInv, ThreadInv, SearchInv, Busy
<1> QED
  BY <1>2, <1>3, <1>5, <1>6

\* What a handler says is a sequence of answers.
LEMMA SaysSeq ==
    ASSUME TasksInv, NEW id \in Tasks!Asks, NEW as, IsSeq(as), Tasks!Says(id, as)
    PROVE  /\ said' = [x \in Tasks!Asks |-> said'[x]]
           /\ said'[id] = said[id] \o as /\ IsSeq(said'[id]) /\ IsSeq(said[id])
           /\ \A x \in Tasks!Asks : x # id => said'[x] = said[x]
<1>1. said = [x \in Tasks!Asks |-> said[x]] /\ IsSeq(said[id])
  BY DEF TasksInv
<1>2. said' = [x \in Tasks!Asks |-> IF x = id THEN said[id] \o as ELSE said[x]]
  BY <1>1 DEF Tasks!Says
<1> QED
  BY <1>1, <1>2, LenJoin

\* Nothing joined to s is s.
LEMMA JoinEmpty == ASSUME NEW s, IsSeq(s) PROVE <<>> \o s = s
<1>1. \A n \in 1..Len(s) : s[n] \in {s[k] : k \in 1..Len(s)}
  OBVIOUS
<1>2. s \in Seq({s[k] : k \in 1..Len(s)})
  BY <1>1, IsASeq DEF IsSeq
<1> QED
  BY <1>2, ConcatEmptySeq

\* A request that is answered as it comes.
LEMMA ArriveAnswered ==
    ASSUME TasksInv, session' = session, come < Len(Tasks!asks), come' = come + 1,
           NEW as, Tasks!Says(come + 1, as), IsSeq(as),
           Tripled(Tasks!asks, come + 1) => PlainOnly(as),
           Len(as) <= Quota(Tasks!asks, come + 1),
           inFlight' \subseteq inFlight,
           UNCHANGED <<downloads, m_isSearchingDevices, searcher, m_magicSpecialTask>>
    PROVE  TasksInv'
<1>1. /\ come \in Nat /\ come + 1 \in Tasks!Asks /\ come + 1 <= Len(Tasks!asks)
      /\ said[come + 1] = <<>>
      /\ come + 1 \notin DOMAIN m_magicSpecialTask
      /\ ~Busy(come + 1, inFlight, downloads, m_isSearchingDevices, searcher)
  BY NewAsk
<1>2. /\ said' = [x \in Tasks!Asks |-> said'[x]]
      /\ said'[come + 1] = as /\ IsSeq(said'[come + 1])
      /\ \A x \in Tasks!Asks : x # come + 1 => said'[x] = said[x]
  BY <1>1, SaysSeq, JoinEmpty
<1>3. \A x : Busy(x, inFlight', downloads', m_isSearchingDevices', searcher')
             => Busy(x, inFlight, downloads, m_isSearchingDevices, searcher)
  BY DEF Busy
<1>4. UnderWay(Tasks!asks, come', inFlight', downloads', m_isSearchingDevices', searcher', m_magicSpecialTask')
  <2>1. \A c \in inFlight' : c.id \in 1..come' /\ c \in inFlight
    BY <1>1 DEF TasksInv, LinkInv
  <2>2. LinkInv(Tasks!asks, come', inFlight')
    BY <2>1 DEF TasksInv, LinkInv
  <2>3. ThreadInv(Tasks!asks, come', downloads') /\ SearchInv(Tasks!asks, come', m_isSearchingDevices', searcher')
        /\ TripleInv(Tasks!asks, come', m_magicSpecialTask')
    BY <1>1 DEF TasksInv, ThreadInv, SearchInv, TripleInv
  <2> QED
    BY <2>2, <2>3 DEF UnderWay
<1>5. AskInv(Tasks!asks, come + 1, said'[come + 1], DOMAIN m_magicSpecialTask',
             Busy(come + 1, inFlight', downloads', m_isSearchingDevices', searcher'))
  <2>1. ~Busy(come + 1, inFlight', downloads', m_isSearchingDevices', searcher')
    BY <1>1, <1>3
  <2> QED
    BY <1>2, <2>1, PlainOne DEF AskInv
<1>6. come + 1 \in 1..come' /\ come' \in Nat /\ come <= come' /\ come' <= come + 1 /\ come' <= Len(Tasks!asks)
  BY <1>1
<1>7. \A x \in 1..come : x # come + 1 =>
               /\ x \in DOMAIN m_magicSpecialTask' => x \in DOMAIN m_magicSpecialTask
               /\ Busy(x, inFlight', downloads', m_isSearchingDevices', searcher')
                  => Busy(x, inFlight, downloads, m_isSearchingDevices, searcher)
  BY <1>3
<1> QED
  BY <1>2, <1>4, <1>5, <1>6, <1>7, TasksStep

\* A request that is given to somebody as it comes.
LEMMA ArriveSilent ==
    ASSUME TasksInv, session' = session, come < Len(Tasks!asks), come' = come + 1, said' = said,
           UnderWay(Tasks!asks, come + 1, inFlight', downloads', m_isSearchingDevices', searcher', m_magicSpecialTask'),
           \A x \in 1..come :
               /\ x \in DOMAIN m_magicSpecialTask' => x \in DOMAIN m_magicSpecialTask
               /\ Busy(x, inFlight', downloads', m_isSearchingDevices', searcher')
                  => Busy(x, inFlight, downloads, m_isSearchingDevices, searcher)
    PROVE  TasksInv'
<1>1. come \in Nat /\ come + 1 \in Tasks!Asks /\ come + 1 <= Len(Tasks!asks) /\ said[come + 1] = <<>>
  BY NewAsk
<1>2. said' = [x \in Tasks!Asks |-> said'[x]] /\ IsSeq(said'[come + 1])
  BY <1>1, EmptyAsk DEF TasksInv
<1>3. AskInv(Tasks!asks, come + 1, said'[come + 1], DOMAIN m_magicSpecialTask',
             Busy(come + 1, inFlight', downloads', m_isSearchingDevices', searcher'))
  BY <1>1, EmptyAsk
<1>4. come + 1 \in 1..come' /\ come' \in Nat /\ come <= come' /\ come' <= come + 1 /\ come' <= Len(Tasks!asks)
  BY <1>1
<1>5. \A x \in Tasks!Asks : x # come + 1 => said'[x] = said[x]
  OBVIOUS
<1>6. \A x \in 1..come : x # come + 1 =>
               /\ x \in DOMAIN m_magicSpecialTask' => x \in DOMAIN m_magicSpecialTask
               /\ Busy(x, inFlight', downloads', m_isSearchingDevices', searcher')
                  => Busy(x, inFlight, downloads, m_isSearchingDevices, searcher)
  OBVIOUS
<1> QED
  BY <1>2, <1>3, <1>4, <1>5, <1>6, TasksStep

\* A single answer.
LEMMA SingleAnswer ==
    ASSUME NEW a
    PROVE  IsSeq(<<a>>) /\ Len(<<a>>) = 1 /\ OneMerged(<<a>>) /\ (a.kind = "plain" => PlainOnly(<<a>>))
BY DEF IsSeq, OneMerged, PlainOnly

\* A number of plain answers.
LEMMA PlainParts ==
    ASSUME NEW n \in Nat, NEW ok
    PROVE  IsSeq([k \in 1..n |-> Tasks!Plain(ok)]) /\ PlainOnly([k \in 1..n |-> Tasks!Plain(ok)])
<1>1. PICK s : s = [k \in 1..n |-> Tasks!Plain(ok)]
  OBVIOUS
<1>2. Len(s) = n /\ \A k \in 1..n : s[k] = Tasks!Plain(ok)
  BY <1>1
<1>3. Tasks!Plain(ok).kind = "plain"
  BY DEF Tasks!Plain
<1> QED
  BY <1>1, <1>2, <1>3 DEF IsSeq, PlainOnly

\* _handleMagicDeviceCommand, its branches that answer at once.
LEMMA PlainAnswer ==
    ASSUME TasksInv, session' = session, come < Len(Tasks!asks), come' = come + 1,
           NEW ok, Tasks!Says(come + 1, <<Tasks!Plain(ok)>>),
           inFlight' \subseteq inFlight,
           UNCHANGED <<downloads, m_isSearchingDevices, searcher, m_magicSpecialTask>>
    PROVE  TasksInv'
<1>1. Tasks!Plain(ok).kind = "plain"
  BY DEF Tasks!Plain
<1>2. IsSeq(<<Tasks!Plain(ok)>>) /\ Len(<<Tasks!Plain(ok)>>) = 1 /\ PlainOnly(<<Tasks!Plain(ok)>>)
  BY <1>1, SingleAnswer
<1>3. 1 <= Quota(Tasks!asks, come + 1)
  BY DEF Quota
<1> QED
  BY <1>2, <1>3, ArriveAnswered

\* SearchDobot comes in.
LEMMA SearchComes ==
    ASSUME TasksInv, session' = session, come < Len(Tasks!asks), come' = come + 1,
           Tasks!asks[come + 1].api = "SearchDobot", Tasks!pSearchDobot(come + 1)
    PROVE  TasksInv'
<1>1. UNCHANGED <<inFlight, downloads, m_magicSpecialTask>>
  BY DEF Tasks!pSearchDobot, Tasks!linkVars, Tasks!boxVars
<1>2. CASE m_isSearchingDevices /\ Tasks!Says(come + 1, <<Tasks!Plain(FALSE)>>) /\ UNCHANGED Tasks!searchVars
  BY <1>1, <1>2, PlainAnswer DEF Tasks!searchVars
<1>3. CASE ~m_isSearchingDevices /\ Tasks!BroadcastForSearchM1(come + 1)
  <2>1. come \in Nat /\ come + 1 \in 1..come + 1 /\ come + 1 \notin 1..come
    BY NewAsk
  <2>2. said' = said /\ m_isSearchingDevices' /\ searcher' = come + 1
    BY <1>3 DEF Tasks!BroadcastForSearchM1
  <2>3. UnderWay(Tasks!asks, come + 1, inFlight', downloads', m_isSearchingDevices', searcher', m_magicSpecialTask')
    BY <1>1, <2>1, <2>2 DEF UnderWay, TasksInv, LinkInv, ThreadInv, SearchInv, TripleInv
  <2>4. \A x \in 1..come : Busy(x, inFlight', downloads', m_isSearchingDevices', searcher')
                           => Busy(x, inFlight, downloads, m_isSearchingDevices, searcher)
    BY <1>1, <2>1, <2>2 DEF Busy
  <2> QED
    BY <1>1, <2>2, <2>3, <2>4, ArriveSilent
<1>4. CASE UNCHANGED <<m_isSearchingDevices, searcher>>
           /\ Tasks!Says(come + 1, <<Tasks!Found(Tasks!AvailableSerialPort(Tasks!asks[come + 1].filter))>>)
  <2>1. PICK a : a = Tasks!Found(Tasks!AvailableSerialPort(Tasks!asks[come + 1].filter))
    OBVIOUS
  <2>2. IsSeq(<<a>>) /\ Len(<<a>>) = 1 /\ ~Tripled(Tasks!asks, come + 1) /\ 1 <= Quota(Tasks!asks, come + 1)
    BY SingleAnswer DEF Tripled, Quota
  <2> QED
    BY <1>1, <1>4, <2>1, <2>2, ArriveAnswered
<1> QED
  BY <1>2, <1>3, <1>4 DEF Tasks!pSearchDobot

\* DownloadProgram comes in.
LEMMA DownloadComes ==
    ASSUME TasksInv, session' = session, come < Len(Tasks!asks), come' = come + 1,
           Tasks!asks[come + 1].api = "DownloadProgram", Tasks!DownloadProgram(come + 1)
    PROVE  TasksInv'
<1>1. UNCHANGED <<inFlight, m_isSearchingDevices, searcher, m_magicSpecialTask, said>>
  BY DEF Tasks!DownloadProgram, Tasks!linkVars, Tasks!searchVars
<1>2. PICK t : t = [id |-> come + 1, at |-> "search", ok |-> FALSE]
  OBVIOUS
<1>3. downloads' = downloads \cup {t} /\ t.id = come + 1 /\ "id" \in DOMAIN t
  BY <1>2 DEF Tasks!DownloadProgram
<1>4. come \in Nat /\ come + 1 \in 1..come + 1 /\ come + 1 \notin 1..come
  BY NewAsk
<1>5. ThreadInv(Tasks!asks, come + 1, downloads')
  <2>1. \A u \in downloads : "id" \in DOMAIN u /\ u.id \in 1..come /\ Tasks!asks[u.id].api = "DownloadProgram"
    BY DEF TasksInv, ThreadInv
  <2>2. \A u \in downloads' : "id" \in DOMAIN u /\ u.id \in 1..come + 1 /\ Tasks!asks[u.id].api = "DownloadProgram"
    BY <1>3, <1>4, <2>1
  <2>3. \A u, v \in downloads' : u.id = v.id => u = v
    BY <1>3, <1>4, <2>1 DEF TasksInv, ThreadInv
  <2> QED
    BY <2>2, <2>3 DEF ThreadInv
<1>6. UnderWay(Tasks!asks, come + 1, inFlight', downloads', m_isSearchingDevices', searcher', m_magicSpecialTask')
  BY <1>1, <1>4, <1>5 DEF UnderWay, TasksInv, LinkInv, SearchInv, TripleInv
<1>7. \A x \in 1..come : Busy(x, inFlight', downloads', m_isSearchingDevices', searcher')
                         => Busy(x, inFlight, downloads, m_isSearchingDevices, searcher)
  BY <1>1, <1>3, <1>4 DEF Busy
<1> QED
  BY <1>1, <1>6, <1>7, ArriveSilent

\* SendCommandInner of one packet: with the link, or refused inside the call.
LEMMA SendOneComes ==
    ASSUME TasksInv, session' = session, come < Len(Tasks!asks), come' = come + 1,
           Tasks!asks[come + 1].api \in {"GetPose", "QueuedCmdStop"}, Tasks!SendOne(come + 1),
           UNCHANGED <<downloads, m_isSearchingDevices, searcher, m_magicSpecialTask>>
    PROVE  TasksInv'
<1>1. PICK c : c = [id |-> come + 1, cmd |-> Tasks!asks[come + 1].api]
  OBVIOUS
<1>2. CASE inFlight' = inFlight \cup {c} /\ said' = said
  <2>1. come \in Nat /\ come + 1 \in 1..come + 1 /\ come + 1 \notin 1..come
    BY NewAsk
  <2>2. c.id = come + 1
    BY <1>1
  <2>3. LinkInv(Tasks!asks, come + 1, inFlight')
    <3>1. \A b \in inFlight : b.id \in 1..come /\ Tasks!asks[b.id].api \in {"GetEndEffectorStatus", "GetPose", "QueuedCmdStop"}
      BY DEF TasksInv, LinkInv
    <3>2. \A b \in inFlight' : b.id \in 1..come + 1
                               /\ Tasks!asks[b.id].api \in {"GetEndEffectorStatus", "GetPose", "QueuedCmdStop"}
      BY <1>2, <2>1, <2>2, <3>1
    <3>3. \A b, d \in inFlight' : b.id = d.id => b = d
      BY <1>2, <2>1, <2>2, <3>1 DEF TasksInv, LinkInv
    <3> QED
      BY <3>2, <3>3 DEF LinkInv
  <2>4. UnderWay(Tasks!asks, come + 1, inFlight', downloads', m_isSearchingDevices', searcher', m_magicSpecialTask')
    BY <2>1, <2>3 DEF UnderWay, TasksInv, ThreadInv, SearchInv, TripleInv
  <2>5. \A x \in 1..come : Busy(x, inFlight', downloads', m_isSearchingDevices', searcher')
                           => Busy(x, inFlight, downloads, m_isSearchingDevices, searcher)
    BY <1>2, <2>1, <2>2 DEF Busy
  <2> QED
    BY <1>2, <2>4, <2>5, ArriveSilent
<1>3. CASE Tasks!Says(come + 1, <<Tasks!Plain(FALSE)>>) /\ inFlight' = inFlight
  BY <1>3, PlainAnswer
<1> QED
  BY <1>1, <1>2, <1>3 DEF Tasks!SendOne

\* CheckBoxSpace, with its two answers when there is no code.
LEMMA SpaceComes ==
    ASSUME TasksInv, session' = session, come < Len(Tasks!asks), come' = come + 1,
           Tasks!asks[come + 1].api = "CheckBoxSpace", Tasks!CheckBoxSpace(come + 1)
    PROVE  TasksInv'
<1>1. UNCHANGED <<inFlight, downloads, m_isSearchingDevices, searcher, m_magicSpecialTask>>
  BY DEF Tasks!CheckBoxSpace, Tasks!linkVars, Tasks!searchVars, Tasks!boxVars
<1>2. PICK fits \in Tasks!isCanWriteCode :
          Tasks!Says(come + 1, IF Tasks!asks[come + 1].code THEN <<Tasks!Plain(fits)>>
                               ELSE <<Tasks!Plain(FALSE), Tasks!Plain(fits)>>)
  BY DEF Tasks!CheckBoxSpace
<1>3. CASE Tasks!asks[come + 1].code
  BY <1>1, <1>2, <1>3, PlainAnswer
<1>4. CASE ~Tasks!asks[come + 1].code
  <2>1. \A a, b : IsSeq(<<a, b>>) /\ Len(<<a, b>>) = 2
    BY DEF IsSeq
  <2>2. ~Tripled(Tasks!asks, come + 1) /\ Quota(Tasks!asks, come + 1) = 2
    BY <1>4 DEF Tripled, Quota
  <2>3. PICK as : as = <<Tasks!Plain(FALSE), Tasks!Plain(fits)>>
    OBVIOUS
  <2>4. Tasks!Says(come + 1, as) /\ IsSeq(as) /\ Len(as) <= Quota(Tasks!asks, come + 1)
    BY <1>2, <1>4, <2>1, <2>2, <2>3
  <2> QED
    BY <1>1, <2>2, <2>4, ArriveAnswered
<1> QED
  BY <1>3, <1>4

\* DoSpecialResponse and SendCommandSpecial: request id is answered as a whole, or its
\* next command is with the link.
LEMMA SpecialInv ==
    ASSUME TasksInv, session' = session, come' \in Nat, come' <= Len(Tasks!asks), come <= come', come' <= come + 1,
           NEW id \in 1..come', come' # come => id = come',
           Tripled(Tasks!asks, id), PlainOnly(said[id]),
           NEW got, NEW rest \in Seq(EffectorCalls), NEW was \in Nat, NEW cost,
           Tasks!Special(id, got, rest, was, cost),
           UNCHANGED <<downloads, m_isSearchingDevices, searcher>>
    PROVE  TasksInv'
<1>1. id \in Tasks!Asks /\ come \in Nat
  <2>1. Len(Tasks!asks) \in 0..MaxAsks /\ MaxAsks \in Nat
    BY TasksAssumption DEF TasksInv, Tasks!asks
  <2> QED
    BY <2>1 DEF Tasks!Asks, TasksInv
<1>2. IsSeq(said[id])
  BY <1>1 DEF TasksInv
<1>5. ThreadInv(Tasks!asks, come', downloads') /\ SearchInv(Tasks!asks, come', m_isSearchingDevices', searcher')
  BY <1>1 DEF TasksInv, ThreadInv, SearchInv
<1>6. \A c \in inFlight : c.id \in 1..come' /\ Tasks!asks[c.id].api \in {"GetEndEffectorStatus", "GetPose", "QueuedCmdStop"}
  BY <1>1 DEF TasksInv, LinkInv
<1>7. \A x \in DOMAIN m_magicSpecialTask : x \in 1..come' /\ Tripled(Tasks!asks, x) /\ m_magicSpecialTask[x].request \in Seq(EffectorCalls)
  BY <1>1 DEF TasksInv, TripleInv
<1>8. PICK n \in 0..Len(rest) : \E parts \in 0..was + n :
        \/ /\ m_magicSpecialTask' = Tasks!Without(m_magicSpecialTask, {id})
           /\ inFlight' = {c \in inFlight : c.id # id}
           /\ Tasks!Says(id, <<Tasks!Merged(Tasks!Results(got, {rest[k] : k \in 1..n}))>> \o [k \in 1..parts |-> Tasks!Plain(FALSE)])
        \/ /\ n < Len(rest)
           /\ m_magicSpecialTask' = Tasks!With(m_magicSpecialTask, id, [request |-> SubSeq(rest, n + 2, Len(rest)),
                                                result |-> Tasks!Results(got, {rest[k] : k \in 1..n})])
           /\ inFlight' = {c \in inFlight : c.id # id} \cup {[id |-> id, cmd |-> rest[n + 1]]}
           /\ Tasks!Says(id, [k \in 1..parts |-> Tasks!Plain(TRUE)])
  BY DEF Tasks!Special
<1>9. PICK all : all = Tasks!Results(got, {rest[k] : k \in 1..n})
  OBVIOUS
<1>10. PICK parts \in 0..was + n :
        \/ /\ m_magicSpecialTask' = Tasks!Without(m_magicSpecialTask, {id})
           /\ inFlight' = {c \in inFlight : c.id # id}
           /\ Tasks!Says(id, <<Tasks!Merged(all)>> \o [k \in 1..parts |-> Tasks!Plain(FALSE)])
        \/ /\ n < Len(rest)
           /\ m_magicSpecialTask' = Tasks!With(m_magicSpecialTask, id, [request |-> SubSeq(rest, n + 2, Len(rest)), result |-> all])
           /\ inFlight' = {c \in inFlight : c.id # id} \cup {[id |-> id, cmd |-> rest[n + 1]]}
           /\ Tasks!Says(id, [k \in 1..parts |-> Tasks!Plain(TRUE)])
  BY <1>8, <1>9
<1>11. parts \in Nat /\ Len(rest) \in Nat /\ n \in Nat
  OBVIOUS
<1>12. CASE /\ m_magicSpecialTask' = Tasks!Without(m_magicSpecialTask, {id})
            /\ inFlight' = {c \in inFlight : c.id # id}
            /\ Tasks!Says(id, <<Tasks!Merged(all)>> \o [k \in 1..parts |-> Tasks!Plain(FALSE)])
  <2>1. PICK as : as = <<Tasks!Merged(all)>> \o [k \in 1..parts |-> Tasks!Plain(FALSE)]
    OBVIOUS
  <2>2. IsSeq(as) /\ OneMerged(as)
    <3>1. IsSeq(<<Tasks!Merged(all)>>) /\ OneMerged(<<Tasks!Merged(all)>>)
      BY SingleAnswer
    <3>2. IsSeq([k \in 1..parts |-> Tasks!Plain(FALSE)]) /\ PlainOnly([k \in 1..parts |-> Tasks!Plain(FALSE)])
      BY <1>11, PlainParts
    <3> QED
      BY <2>1, <3>1, <3>2, LenJoin, JoinOne
  <2>3. Tasks!Says(id, as)
    BY <1>12, <2>1
  <2>4. /\ said' = [x \in Tasks!Asks |-> said'[x]]
        /\ said'[id] = said[id] \o as /\ IsSeq(said'[id])
        /\ \A x \in Tasks!Asks : x # id => said'[x] = said[x]
    BY <1>1, <2>2, <2>3, SaysSeq
  <2>5. DOMAIN m_magicSpecialTask' = DOMAIN m_magicSpecialTask \ {id}
        /\ \A x \in DOMAIN m_magicSpecialTask' : m_magicSpecialTask'[x] = m_magicSpecialTask[x]
    BY <1>12 DEF Tasks!Without
  <2>6. AskInv(Tasks!asks, id, said'[id], DOMAIN m_magicSpecialTask',
               Busy(id, inFlight', downloads', m_isSearchingDevices', searcher'))
    <3>1. OneMerged(said'[id])
      BY <1>2, <2>2, <2>4, JoinOne
    <3>2. id \notin DOMAIN m_magicSpecialTask'
      BY <2>5
    <3> QED
      BY <3>1, <3>2 DEF AskInv
  <2>7. UnderWay(Tasks!asks, come', inFlight', downloads', m_isSearchingDevices', searcher', m_magicSpecialTask')
    <3>1. LinkInv(Tasks!asks, come', inFlight')
      BY <1>6, <1>12 DEF TasksInv, LinkInv
    <3>2. TripleInv(Tasks!asks, come', m_magicSpecialTask')
      BY <1>7, <2>5 DEF TripleInv
    <3> QED
      BY <1>5, <3>1, <3>2 DEF UnderWay
  <2>8. \A x \in 1..come : x # id =>
               /\ x \in DOMAIN m_magicSpecialTask' => x \in DOMAIN m_magicSpecialTask
               /\ Busy(x, inFlight', downloads', m_isSearchingDevices', searcher')
                  => Busy(x, inFlight, downloads, m_isSearchingDevices, searcher)
    BY <1>12, <2>5 DEF Busy
  <2> QED
    BY <2>4, <2>6, <2>7, <2>8, TasksStep
<1>13. CASE /\ n < Len(rest)
            /\ m_magicSpecialTask' = Tasks!With(m_magicSpecialTask, id, [request |-> SubSeq(rest, n + 2, Len(rest)), result |-> all])
            /\ inFlight' = {c \in inFlight : c.id # id} \cup {[id |-> id, cmd |-> rest[n + 1]]}
            /\ Tasks!Says(id, [k \in 1..parts |-> Tasks!Plain(TRUE)])
  <2>1. PICK as : as = [k \in 1..parts |-> Tasks!Plain(TRUE)]
    OBVIOUS
  <2>2. IsSeq(as) /\ PlainOnly(as)
    BY <1>11, <2>1, PlainParts
  <2>3. Tasks!Says(id, as)
    BY <1>13, <2>1
  <2>4. /\ said' = [x \in Tasks!Asks |-> said'[x]]
        /\ said'[id] = said[id] \o as /\ IsSeq(said'[id])
        /\ \A x \in Tasks!Asks : x # id => said'[x] = said[x]
    BY <1>1, <2>2, <2>3, SaysSeq
  <2>5. PICK left1 : left1 = SubSeq(rest, n + 2, Len(rest))
    OBVIOUS
  <2>6. left1 \in Seq(EffectorCalls)
    <3>1. \A i \in n + 2 .. Len(rest) : rest[i] \in EffectorCalls
      BY <1>11, ElementOfSeq
    <3>2. n + 2 \in Int /\ Len(rest) \in Int
      BY <1>11
    <3> QED
      BY <2>5, <3>1, <3>2, SubSeqProperties
  <2>7. DOMAIN m_magicSpecialTask' = DOMAIN m_magicSpecialTask \cup {id}
        /\ \A x \in DOMAIN m_magicSpecialTask' : m_magicSpecialTask'[x].request =
                IF x = id THEN left1 ELSE m_magicSpecialTask[x].request
    BY <1>13, <2>5 DEF Tasks!With
  <2>8. AskInv(Tasks!asks, id, said'[id], DOMAIN m_magicSpecialTask',
               Busy(id, inFlight', downloads', m_isSearchingDevices', searcher'))
    <3>1. PlainOnly(said'[id])
      BY <1>2, <2>2, <2>4, PlainJoin
    <3> QED
      BY <3>1, PlainOne DEF AskInv
  <2>9. PICK c : c = [id |-> id, cmd |-> rest[n + 1]]
    OBVIOUS
  <2>10. c.id = id /\ inFlight' = {b \in inFlight : b.id # id} \cup {c}
    BY <1>13, <2>9
  <2>11. UnderWay(Tasks!asks, come', inFlight', downloads', m_isSearchingDevices', searcher', m_magicSpecialTask')
    <3>1. \A b \in inFlight' : b.id \in 1..come' /\ Tasks!asks[b.id].api \in {"GetEndEffectorStatus", "GetPose", "QueuedCmdStop"}
      BY <1>6, <2>10 DEF Tripled
    <3>2. \A b, d \in inFlight' : b.id = d.id => b = d
      BY <2>10 DEF TasksInv, LinkInv
    <3>3. TripleInv(Tasks!asks, come', m_magicSpecialTask')
      BY <1>7, <2>6, <2>7 DEF TripleInv
    <3> QED
      BY <1>5, <3>1, <3>2, <3>3 DEF UnderWay, LinkInv
  <2>12. \A x \in 1..come : x # id =>
               /\ x \in DOMAIN m_magicSpecialTask' => x \in DOMAIN m_magicSpecialTask
               /\ Busy(x, inFlight', downloads', m_isSearchingDevices', searcher')
                  => Busy(x, inFlight, downloads, m_isSearchingDevices, searcher)
    BY <2>7, <2>10 DEF Busy
  <2> QED
    BY <2>4, <2>8, <2>11, <2>12, TasksStep
<1> QED
  BY <1>10, <1>12, <1>13

\* A link answers a request that has no commands to come, or reports an error for it.
LEMMA LinkEnds ==
    ASSUME TasksInv, session' = session, come' = come, NEW c \in inFlight,
           c.id \notin DOMAIN m_magicSpecialTask, NEW ok, Tasks!Says(c.id, <<Tasks!Plain(ok)>>),
           inFlight' = inFlight \ {c},
           UNCHANGED <<downloads, m_isSearchingDevices, searcher, m_magicSpecialTask>>
    PROVE  TasksInv'
<1>1. c.id \in 1..come /\ Tasks!asks[c.id].api \in {"GetEndEffectorStatus", "GetPose", "QueuedCmdStop"}
  BY DEF TasksInv, LinkInv
<1>2. come \in Nat /\ come <= Len(Tasks!asks) /\ c.id \in Tasks!Asks
  <2>1. Len(Tasks!asks) \in 0..MaxAsks /\ MaxAsks \in Nat
    BY TasksAssumption DEF TasksInv, Tasks!asks
  <2> QED
    BY <1>1, <2>1 DEF Tasks!Asks, TasksInv
<1>3. PICK as : as = <<Tasks!Plain(ok)>>
  OBVIOUS
<1>4. IsSeq(as) /\ Len(as) = 1 /\ PlainOnly(as)
  <2>1. Tasks!Plain(ok).kind = "plain"
    BY DEF Tasks!Plain
  <2> QED
    BY <1>3, <2>1, SingleAnswer
<1>5. /\ said' = [x \in Tasks!Asks |-> said'[x]]
      /\ said'[c.id] = said[c.id] \o as /\ IsSeq(said'[c.id]) /\ IsSeq(said[c.id])
      /\ \A x \in Tasks!Asks : x # c.id => said'[x] = said[x]
  BY <1>2, <1>3, <1>4, SaysSeq
<1>6. AskInv(Tasks!asks, c.id, said[c.id], DOMAIN m_magicSpecialTask,
             Busy(c.id, inFlight, downloads, m_isSearchingDevices, searcher))
  BY <1>1 DEF TasksInv
<1>7. AskInv(Tasks!asks, c.id, said'[c.id], DOMAIN m_magicSpecialTask',
             Busy(c.id, inFlight', downloads', m_isSearchingDevices', searcher'))
  <2>1. CASE Tripled(Tasks!asks, c.id)
    <3>1. OneMerged(said[c.id])
      BY <1>6, <2>1 DEF AskInv
    <3>2. \A s : IsSeq(s) /\ OneMerged(s) => OneMerged(s \o as)
      BY <1>4, JoinOne
    <3>3. OneMerged(said'[c.id])
      BY <1>5, <3>1, <3>2
    <3> QED
      BY <2>1, <3>3 DEF AskInv
  <2>2. CASE ~Tripled(Tasks!asks, c.id)
    <3>1. Busy(c.id, inFlight, downloads, m_isSearchingDevices, searcher)
      BY DEF Busy
    <3>2. said'[c.id] = as
      BY <1>4, <1>5, <1>6, <2>2, <3>1, JoinEmpty DEF AskInv
    <3>3. 1 <= Quota(Tasks!asks, c.id)
      BY DEF Quota
    <3>4. ~Busy(c.id, inFlight', downloads', m_isSearchingDevices', searcher')
      BY <1>1 DEF Busy, TasksInv, LinkInv, ThreadInv, SearchInv
    <3> QED
      BY <1>4, <2>2, <3>2, <3>3, <3>4 DEF AskInv
  <2> QED
    BY <2>1, <2>2
<1>8. UnderWay(Tasks!asks, come', inFlight', downloads', m_isSearchingDevices', searcher', m_magicSpecialTask')
  BY DEF UnderWay, TasksInv, LinkInv
<1>9. \A x \in 1..come : x # c.id =>
             /\ x \in DOMAIN m_magicSpecialTask' => x \in DOMAIN m_magicSpecialTask
             /\ Busy(x, inFlight', downloads', m_isSearchingDevices', searcher')
                => Busy(x, inFlight, downloads, m_isSearchingDevices, searcher)
  BY DEF Busy
<1>10. come' \in Nat /\ come' <= Len(Tasks!asks) /\ come <= come' /\ come' <= come + 1 /\ c.id \in 1..come'
  BY <1>1, <1>2
<1> QED
  BY <1>5, <1>7, <1>8, <1>9, <1>10, TasksStep

\* The next of the three commands, or the answer that has them all.
LEMMA LinkGoesOn ==
    ASSUME TasksInv, session' = session, come' = come, NEW id \in DOMAIN m_magicSpecialTask,
           NEW got, NEW cost,
           Tasks!Special(id, got, m_magicSpecialTask[id].request, 1, cost),
           UNCHANGED <<downloads, m_isSearchingDevices, searcher>>
    PROVE  TasksInv'
<1>1. id \in 1..come /\ Tripled(Tasks!asks, id) /\ m_magicSpecialTask[id].request \in Seq(EffectorCalls)
  BY DEF TasksInv, TripleInv
<1>2. PlainOnly(said[id])
  BY <1>1 DEF TasksInv, AskInv
<1>3. come' \in Nat /\ come' <= Len(Tasks!asks) /\ come <= come' /\ come' <= come + 1 /\ id \in 1..come'
  BY <1>1 DEF TasksInv
<1>4. PICK rest : rest = m_magicSpecialTask[id].request
  OBVIOUS
<1>5. rest \in Seq(EffectorCalls) /\ Tasks!Special(id, got, rest, 1, cost) /\ 1 \in Nat
  BY <1>1, <1>4
<1> QED
  BY <1>1, <1>2, <1>3, <1>5, SpecialInv

\* The device answers a call of a task.
LEMMA LinkRepliesInv == ASSUME TasksInv, NEW c \in inFlight, Tasks!LinkReplies(c) PROVE TasksInv'
<1>1. session' = session /\ come' = come /\ UNCHANGED <<downloads, m_isSearchingDevices, searcher>>
  BY DEF Tasks!LinkReplies, Tasks!searchVars, Tasks!boxVars
<1>2. CASE c.id \in DOMAIN m_magicSpecialTask
  <2>1. PICK got : Tasks!Special(c.id, got, m_magicSpecialTask[c.id].request, 1, 0)
    BY <1>2 DEF Tasks!LinkReplies
  <2> QED
    BY <1>1, <1>2, <2>1, LinkGoesOn
<1>3. CASE c.id \notin DOMAIN m_magicSpecialTask
  BY <1>1, <1>3, LinkEnds DEF Tasks!LinkReplies
<1> QED
  BY <1>2, <1>3

\* The link gives a call of a task up.
LEMMA LinkFailsInv == ASSUME TasksInv, NEW c \in inFlight, Tasks!LinkFails(c) PROVE TasksInv'
<1>1. session' = session /\ come' = come /\ UNCHANGED <<downloads, m_isSearchingDevices, searcher>>
  BY DEF Tasks!LinkFails, Tasks!searchVars, Tasks!boxVars
<1>2. CASE c.id \in DOMAIN m_magicSpecialTask
  <2>1. PICK got : Tasks!Special(c.id, got, m_magicSpecialTask[c.id].request, 1, 1)
    BY <1>2 DEF Tasks!LinkFails
  <2> QED
    BY <1>1, <1>2, <2>1, LinkGoesOn
<1>3. CASE c.id \notin DOMAIN m_magicSpecialTask
  BY <1>1, <1>3, LinkEnds DEF Tasks!LinkFails
<1> QED
  BY <1>2, <1>3

\* The search's end and a download's: who asked has no answer yet.
LEMMA ErrandEnds ==
    ASSUME TasksInv, session' = session, come' = come, NEW id \in 1..come, NEW a,
           Tasks!asks[id].api \in {"SearchDobot", "DownloadProgram"}, Tasks!Says(id, <<a>>),
           Busy(id, inFlight, downloads, m_isSearchingDevices, searcher),
           ~Busy(id, inFlight', downloads', m_isSearchingDevices', searcher'),
           UnderWay(Tasks!asks, come, inFlight', downloads', m_isSearchingDevices', searcher', m_magicSpecialTask'),
           \A x \in 1..come : Busy(x, inFlight', downloads', m_isSearchingDevices', searcher')
                              => Busy(x, inFlight, downloads, m_isSearchingDevices, searcher),
           m_magicSpecialTask' = m_magicSpecialTask
    PROVE  TasksInv'
<1>1. come \in Nat /\ come <= Len(Tasks!asks) /\ id \in Tasks!Asks
  <2>1. Len(Tasks!asks) \in 0..MaxAsks /\ MaxAsks \in Nat
    BY TasksAssumption DEF TasksInv, Tasks!asks
  <2> QED
    BY <2>1 DEF Tasks!Asks, TasksInv
<1>2. PICK as : as = <<a>>
  OBVIOUS
<1>3. IsSeq(as) /\ Len(as) = 1
  BY <1>2, SingleAnswer
<1>4. /\ said' = [x \in Tasks!Asks |-> said'[x]]
      /\ said'[id] = said[id] \o as /\ IsSeq(said'[id]) /\ IsSeq(said[id])
      /\ \A x \in Tasks!Asks : x # id => said'[x] = said[x]
  BY <1>1, <1>2, <1>3, SaysSeq
<1>5. ~Tripled(Tasks!asks, id) /\ 1 <= Quota(Tasks!asks, id)
  BY DEF Tripled, Quota
<1>6. AskInv(Tasks!asks, id, said[id], DOMAIN m_magicSpecialTask,
             Busy(id, inFlight, downloads, m_isSearchingDevices, searcher))
  BY DEF TasksInv
<1>7. said'[id] = as
  BY <1>3, <1>4, <1>5, <1>6, JoinEmpty DEF AskInv
<1>8. AskInv(Tasks!asks, id, said'[id], DOMAIN m_magicSpecialTask',
             Busy(id, inFlight', downloads', m_isSearchingDevices', searcher'))
  BY <1>3, <1>5, <1>7 DEF AskInv
<1>9. \A x \in 1..come : x # id =>
             /\ x \in DOMAIN m_magicSpecialTask' => x \in DOMAIN m_magicSpecialTask
             /\ Busy(x, inFlight', downloads', m_isSearchingDevices', searcher')
                => Busy(x, inFlight, downloads, m_isSearchingDevices, searcher)
  OBVIOUS
<1>10. come' \in Nat /\ come' <= Len(Tasks!asks) /\ come <= come' /\ come' <= come + 1 /\ id \in 1..come'
  BY <1>1
<1> QED
  BY <1>4, <1>8, <1>9, <1>10, TasksStep

\* The search ends.
LEMMA SearchTimeoutInv == ASSUME TasksInv, Tasks!SearchTimeout PROVE TasksInv'
<1>1. /\ session' = session /\ come' = come /\ m_isSearchingDevices /\ m_isSearchingDevices' = FALSE
      /\ UNCHANGED <<inFlight, searcher, m_magicSpecialTask, downloads>>
  BY DEF Tasks!SearchTimeout, Tasks!linkVars, Tasks!boxVars
<1>2. PICK who : who = searcher
  OBVIOUS
<1>3. who \in 1..come /\ Tasks!asks[who].api = "SearchDobot"
  BY <1>1, <1>2 DEF TasksInv, SearchInv
<1>4. PICK a : Tasks!Says(who, <<a>>)
  BY <1>2 DEF Tasks!SearchTimeout
<1>5. Busy(who, inFlight, downloads, m_isSearchingDevices, searcher)
      /\ ~Busy(who, inFlight', downloads', m_isSearchingDevices', searcher')
  BY <1>1, <1>2, <1>3 DEF Busy, TasksInv, LinkInv, ThreadInv
<1>6. Tasks!asks[who].api \in {"SearchDobot", "DownloadProgram"}
  BY <1>3
<1>7. UnderWay(Tasks!asks, come, inFlight', downloads', m_isSearchingDevices', searcher', m_magicSpecialTask')
  <2>1. SearchInv(Tasks!asks, come, m_isSearchingDevices', searcher')
    BY <1>1, Zenon DEF SearchInv
  <2> QED
    BY <1>1, <2>1 DEF UnderWay, TasksInv
<1>8. \A x \in 1..come : Busy(x, inFlight', downloads', m_isSearchingDevices', searcher')
                         => Busy(x, inFlight, downloads, m_isSearchingDevices, searcher)
  BY <1>1, Zenon DEF Busy
<1>9. session' = session /\ come' = come /\ m_magicSpecialTask' = m_magicSpecialTask
  BY <1>1
<1> QED
  BY ONLY TasksInv, <1>3, <1>4, <1>5, <1>6, <1>7, <1>8, <1>9, ErrandEnds

\* A download thread ends.
LEMMA DownloadFinishedInv == ASSUME TasksInv, NEW t \in downloads, Tasks!DownloadFinished(t) PROVE TasksInv'
<1>1. /\ session' = session /\ come' = come /\ downloads' = downloads \ {t} /\ Tasks!Says(t.id, <<Tasks!Plain(t.ok)>>)
      /\ UNCHANGED <<inFlight, searcher, m_magicSpecialTask, m_isSearchingDevices>>
  BY DEF Tasks!DownloadFinished, Tasks!linkVars, Tasks!searchVars
<1>2. t.id \in 1..come /\ Tasks!asks[t.id].api = "DownloadProgram"
  BY DEF TasksInv, ThreadInv
<1>3. Busy(t.id, inFlight, downloads, m_isSearchingDevices, searcher)
      /\ ~Busy(t.id, inFlight', downloads', m_isSearchingDevices', searcher')
  BY <1>1, <1>2 DEF Busy, TasksInv, LinkInv, ThreadInv, SearchInv
<1>4. UnderWay(Tasks!asks, come, inFlight', downloads', m_isSearchingDevices', searcher', m_magicSpecialTask')
  BY <1>1 DEF UnderWay, TasksInv, ThreadInv
<1>5. \A x \in 1..come : Busy(x, inFlight', downloads', m_isSearchingDevices', searcher')
                         => Busy(x, inFlight, downloads, m_isSearchingDevices, searcher)
  BY <1>1 DEF Busy
<1> QED
  BY <1>1, <1>2, <1>3, <1>4, <1>5, ErrandEnds

\* A download's thread goes on.
LEMMA ThreadGoesOn ==
    ASSUME TasksInv, NEW t \in downloads, NEW at, NEW ok, Tasks!Thread(t, at, ok), Tasks!threadFrame
    PROVE  TasksInv'
<1>1. /\ session' = session /\ come' = come /\ said' = said
      /\ UNCHANGED <<inFlight, searcher, m_magicSpecialTask, m_isSearchingDevices>>
  BY DEF Tasks!threadFrame, Tasks!linkVars, Tasks!searchVars
<1>2. PICK u : u = [t EXCEPT !.at = at, !.ok = ok]
  OBVIOUS
<1>3. "id" \in DOMAIN t /\ t.id \in 1..come /\ Tasks!asks[t.id].api = "DownloadProgram"
  BY DEF TasksInv, ThreadInv
<1>4. "id" \in DOMAIN u /\ u.id = t.id /\ downloads' = (downloads \ {t}) \cup {u}
  BY <1>2, <1>3 DEF Tasks!Thread
<1>5. ThreadInv(Tasks!asks, come, downloads')
  <2>1. \A v \in downloads' : "id" \in DOMAIN v /\ v.id \in 1..come /\ Tasks!asks[v.id].api = "DownloadProgram"
    BY <1>3, <1>4 DEF TasksInv, ThreadInv
  <2>2. \A v, w \in downloads' : v.id = w.id => v = w
    BY <1>4 DEF TasksInv, ThreadInv
  <2> QED
    BY <2>1, <2>2 DEF ThreadInv
<1>6. UnderWay(Tasks!asks, come, inFlight', downloads', m_isSearchingDevices', searcher', m_magicSpecialTask')
  BY <1>1, <1>5 DEF UnderWay, TasksInv
<1>7. \A x \in 1..come : Busy(x, inFlight', downloads', m_isSearchingDevices', searcher')
                         => Busy(x, inFlight, downloads, m_isSearchingDevices, searcher)
  BY <1>1, <1>4 DEF Busy
<1> QED
  BY <1>1, <1>6, <1>7, TasksQuiet

\* A step that says nothing and gives nobody anything to answer.
LEMMA NothingNew ==
    ASSUME TasksInv, session' = session, come' = come, said' = said, inFlight' \subseteq inFlight,
           UNCHANGED <<searcher, m_magicSpecialTask, m_isSearchingDevices, downloads>>
    PROVE  TasksInv'
<1>1. UnderWay(Tasks!asks, come, inFlight', downloads', m_isSearchingDevices', searcher', m_magicSpecialTask')
  BY DEF UnderWay, TasksInv, LinkInv
<1>2. \A x \in 1..come : Busy(x, inFlight', downloads', m_isSearchingDevices', searcher')
                         => Busy(x, inFlight, downloads, m_isSearchingDevices, searcher)
  BY DEF Busy
<1> QED
  BY <1>1, <1>2, TasksQuiet

\* GetEndEffectorStatus comes.
LEMMA TripleComes ==
    ASSUME TasksInv, session' = session, come < Len(Tasks!asks), come' = come + 1,
           Tasks!asks[come + 1].api = "GetEndEffectorStatus",
           Tasks!Special(come + 1, <<>>, Tasks!Effectors, 0, 0),
           UNCHANGED <<downloads, m_isSearchingDevices, searcher>>
    PROVE  TasksInv'
<1>1. /\ come \in Nat /\ come + 1 <= Len(Tasks!asks) /\ said[come + 1] = <<>>
  BY NewAsk
<1>2. Tripled(Tasks!asks, come + 1) /\ PlainOnly(said[come + 1])
  BY <1>1 DEF Tripled, PlainOnly
<1>3. Tasks!Effectors \in Seq(EffectorCalls)
  BY DEF Tasks!Effectors, EffectorCalls
<1>4. PICK rest \in Seq(EffectorCalls) : rest = Tasks!Effectors
  BY <1>3
<1>5. Tasks!Special(come + 1, <<>>, rest, 0, 0) /\ 0 \in Nat
  BY <1>4
<1>6. come + 1 \in 1..come' /\ come' \in Nat /\ come <= come' /\ come' <= come + 1 /\ come' <= Len(Tasks!asks)
  BY <1>1
<1> QED
  BY <1>2, <1>5, <1>6, SpecialInv

\* A command that goes to the device as it is.
LEMMA CommandComes ==
    ASSUME TasksInv, session' = session, come < Len(Tasks!asks), come' = come + 1,
           Tasks!asks[come + 1].api \in {"GetEndEffectorStatus", "GetPose", "QueuedCmdStop"},
           Tasks!SendCommandInner(come + 1)
    PROVE  TasksInv'
<1>1. UNCHANGED <<downloads, m_isSearchingDevices, searcher>>
  BY DEF Tasks!SendCommandInner, Tasks!searchVars, Tasks!boxVars
<1>2. CASE Tasks!asks[come + 1].api = "GetEndEffectorStatus"
  BY <1>1, <1>2, TripleComes DEF Tasks!SendCommandInner
<1>3. CASE Tasks!asks[come + 1].api # "GetEndEffectorStatus"
  <2>1. Tasks!SendOne(come + 1) /\ UNCHANGED m_magicSpecialTask
    BY <1>3 DEF Tasks!SendCommandInner
  <2> QED
    BY <1>1, <1>3, <2>1, SendOneComes
<1> QED
  BY <1>2, <1>3

\* A command for the device comes in.
LEMMA HandleInv == ASSUME TasksInv, Tasks!HandleMagicDeviceCommand PROVE TasksInv'
<1>1. session' = session /\ come < Len(Tasks!asks) /\ come' = come + 1
  BY DEF Tasks!HandleMagicDeviceCommand
<1> USE DEF Tasks!linkVars, Tasks!searchVars, Tasks!boxVars
<1>2. CASE Tasks!asks[come + 1].api = "SearchDobot" /\ Tasks!pSearchDobot(come + 1)
  BY <1>1, <1>2, SearchComes
<1>3. CASE Tasks!Refuses(come + 1)
  BY <1>1, <1>3, PlainAnswer DEF Tasks!Refuses
<1>4. CASE Tasks!pConnectDobot(come + 1)
  <2>1. PICK ok : Tasks!Says(come + 1, <<Tasks!Plain(ok)>>)
    BY <1>4 DEF Tasks!pConnectDobot
  <2>2. inFlight' \subseteq inFlight /\ UNCHANGED <<downloads, m_isSearchingDevices, searcher, m_magicSpecialTask>>
    BY <1>4 DEF Tasks!pConnectDobot
  <2> QED
    BY <1>1, <2>1, <2>2, PlainAnswer
<1>5. CASE Tasks!Disconnects({Tasks!asks[come + 1].port}) /\ Tasks!Says(come + 1, <<Tasks!Plain(TRUE)>>)
  <2>1. inFlight' \subseteq inFlight /\ UNCHANGED <<downloads, m_isSearchingDevices, searcher, m_magicSpecialTask>>
    BY <1>5 DEF Tasks!Disconnects
  <2> QED
    BY <1>1, <1>5, <2>1, PlainAnswer
<1>6. CASE Tasks!asks[come + 1].api = "DownloadProgram" /\ Tasks!DownloadProgram(come + 1)
  BY <1>1, <1>6, DownloadComes
<1>7. CASE Tasks!asks[come + 1].api = "CheckBoxSpace" /\ Tasks!CheckBoxSpace(come + 1)
  BY <1>1, <1>7, SpaceComes
<1>8. CASE Tasks!ClearBoxSpace(come + 1)
  BY <1>1, <1>8, PlainAnswer DEF Tasks!ClearBoxSpace
<1>9. CASE Tasks!SetCommuTimeout(come + 1)
  <2>1. UNCHANGED <<inFlight, downloads, m_isSearchingDevices, searcher, m_magicSpecialTask>>
    BY <1>9 DEF Tasks!SetCommuTimeout
  <2>2. CASE Tasks!Says(come + 1, <<Tasks!Plain(TRUE)>>)
    BY <1>1, <2>1, <2>2, PlainAnswer
  <2>3. CASE said' = said
    <3>1. come \in Nat
      BY DEF TasksInv
    <3>2. UnderWay(Tasks!asks, come + 1, inFlight', downloads', m_isSearchingDevices', searcher', m_magicSpecialTask')
      BY <2>1, <3>1 DEF UnderWay, TasksInv, LinkInv, ThreadInv, SearchInv, TripleInv
    <3>3. \A x \in 1..come : Busy(x, inFlight', downloads', m_isSearchingDevices', searcher')
                             => Busy(x, inFlight, downloads, m_isSearchingDevices, searcher)
      BY <2>1 DEF Busy
    <3> QED
      BY <1>1, <2>1, <2>3, <3>2, <3>3, ArriveSilent
  <2> QED
    BY <1>9, <2>2, <2>3 DEF Tasks!SetCommuTimeout
<1>10. CASE /\ Tasks!asks[come + 1].api \in {"GetEndEffectorStatus", "GetPose", "QueuedCmdStop"}
            /\ Tasks!SendCommandInner(come + 1)
  BY <1>1, <1>10, CommandComes
<1> QED
  BY <1>2, <1>3, <1>4, <1>5, <1>6, <1>7, <1>8, <1>9, <1>10 DEF Tasks!HandleMagicDeviceCommand

\* Every step of the tasks keeps the invariant.
LEMMA TasksInvStep == TasksInv /\ [Tasks!TasksNext]_taskVars => TasksInv'
<1> SUFFICES ASSUME TasksInv, [Tasks!TasksNext]_taskVars PROVE TasksInv'
  OBVIOUS
<1> USE DEF Tasks!linkVars, Tasks!searchVars, Tasks!boxVars
<1>1. CASE Tasks!HandleMagicDeviceCommand
  BY <1>1, HandleInv
<1>2. CASE \E c \in inFlight : Tasks!LinkReplies(c) \/ Tasks!LinkFails(c)
  BY <1>2, LinkRepliesInv, LinkFailsInv
<1>3. CASE Tasks!SearchTimeout
  BY <1>3, SearchTimeoutInv
<1>4. CASE \E t \in downloads : Tasks!searchDeviceDrive(t) \/ Tasks!OpenFile(t) \/ Tasks!WriteCode(t)
  <2>1. \E t \in downloads : \E at, ok : Tasks!Thread(t, at, ok) /\ Tasks!threadFrame
    BY <1>4 DEF Tasks!searchDeviceDrive, Tasks!OpenFile, Tasks!WriteCode
  <2> QED
    BY <2>1, ThreadGoesOn
<1>5. CASE \E t \in downloads : Tasks!DownloadFinished(t)
  BY <1>5, DownloadFinishedInv
<1>6. CASE \E a \in Addresses : Tasks!Datagram(a)
  BY <1>6, NothingNew DEF Tasks!Datagram
<1>7. CASE Tasks!BoxGoes
  BY <1>7, NothingNew DEF Tasks!BoxGoes
<1>8. CASE Tasks!CloseAllDevice
  BY <1>8, NothingNew DEF Tasks!CloseAllDevice, Tasks!Disconnects
<1>9. CASE UNCHANGED taskVars
  BY <1>9, NothingNew DEF taskVars
<1> QED
  BY <1>1, <1>2, <1>3, <1>4, <1>5, <1>6, <1>7, <1>8, <1>9 DEF Tasks!TasksNext, Tasks!TasksProgress

\* It holds at the start.
LEMMA TasksInvStart == Tasks!TasksInit => TasksInv
<1> SUFFICES ASSUME Tasks!TasksInit PROVE TasksInv
  OBVIOUS
<1> USE DEF Tasks!TasksInit
<1>1. session \in Sessions /\ come = 0 /\ said = [x \in Tasks!Asks |-> <<>>]
  OBVIOUS
<1>2. Len(Tasks!asks) \in Nat
  BY <1>1, TasksAssumption DEF Tasks!asks
<1>3. UnderWay(Tasks!asks, come, inFlight, downloads, m_isSearchingDevices, searcher, m_magicSpecialTask)
  BY DEF UnderWay, LinkInv, ThreadInv, SearchInv, TripleInv
<1>4. \A x \in Tasks!Asks : IsSeq(said[x]) /\ (x > come => said[x] = <<>>)
  BY <1>1, EmptyAsk
<1> QED
  BY <1>1, <1>2, <1>3, <1>4 DEF TasksInv, UnderWay

\* It says that requests are answered once.
LEMMA TasksAnswers == TasksInv => Tasks!TasksAnsweredOnce
<1> SUFFICES ASSUME TasksInv, NEW x \in 1..come
             PROVE  IF Tripled(Tasks!asks, x)
                    THEN \A m, n \in DOMAIN said[x] : said[x][m].kind # "plain" /\ said[x][n].kind # "plain" => m = n
                    ELSE Len(said[x]) <= Quota(Tasks!asks, x)
  BY DEF Tasks!TasksAnsweredOnce, Tripled, Quota
<1>1. x \in Tasks!Asks
  <2>1. Len(Tasks!asks) \in 0..MaxAsks /\ MaxAsks \in Nat
    BY TasksAssumption DEF TasksInv, Tasks!asks
  <2> QED
    BY <2>1 DEF Tasks!Asks, TasksInv
<1>2. DOMAIN said[x] = 1..Len(said[x])
  BY <1>1 DEF TasksInv, IsSeq
<1>3. \E M, busy : AskInv(Tasks!asks, x, said[x], M, busy)
  BY DEF TasksInv
<1> QED
  BY <1>2, <1>3 DEF AskInv, OneMerged

-----------------------------------------------------------------------------
\* GetEndEffectorStatus.  The commands reported as done in doc, and a merged answer that is
\* right and whole when the device has answered the commands S.
Reported(doc) == {c \in DOMAIN doc : doc[c]}
Whole(doc, S) == Reported(doc) = S /\ ("" \in DOMAIN doc \/ DOMAIN doc = EffectorCalls)
WholeDocs(s, S) == \A n \in 1..Len(s) : s[n].kind = "merged" => Whole(s[n].doc, S)
Unmerged(s) == \A n \in 1..Len(s) : s[n].kind # "merged"

\* Results got, with the commands rest to come: each has its place or is to get it.
ToCome(got, rest, S) ==
    /\ Reported(got) = S /\ "" \notin S
    /\ \A i, j \in 1..Len(rest) : rest[i] = rest[j] => i = j
    /\ \A i \in 1..Len(rest) : rest[i] \notin DOMAIN got
    /\ "" \in DOMAIN got \/ EffectorCalls = DOMAIN got \cup {rest[i] : i \in 1..Len(rest)}
\* The same while command cmd is with the link.
OnItsWay(got, cmd, rest, S) ==
    /\ Reported(got) = S /\ "" \notin S
    /\ cmd \in EffectorCalls /\ cmd \notin DOMAIN got
    /\ \A i, j \in 1..Len(rest) : rest[i] = rest[j] => i = j
    /\ \A i \in 1..Len(rest) : rest[i] \notin DOMAIN got \cup {cmd}
    /\ "" \in DOMAIN got \/ EffectorCalls = DOMAIN got \cup {cmd} \cup {rest[i] : i \in 1..Len(rest)}
\* Command c with a link, the results of the tasks m, the commands served, the names R.
FlightInv(rs, c, m, S, R) ==
    Tripled(rs, c.id) =>
        /\ c.id \in DOMAIN m
        /\ OnItsWay(m[c.id].result, c.cmd, m[c.id].request, S[c.id])
        /\ c.id \in DOMAIN R => R[c.id] = c.cmd

\* What has been merged is whole, and what is still to be merged will be.
MergedInv ==
    /\ served = [x \in Tasks!Asks |-> served[x]]
    /\ \A x \in Tasks!Asks : /\ WholeDocs(said[x], served[x])
                             /\ ~Tripled(Tasks!asks, x) => Unmerged(said[x])
                             /\ x > come => served[x] = {}
    /\ \A c \in inFlight : FlightInv(Tasks!asks, c, m_magicSpecialTask, served, m_RequestMap)

\* Whole answers joined to whole ones, and answers none of which is merged.
LEMMA WholeJoin ==
    ASSUME NEW s, NEW t, NEW S, IsSeq(s), IsSeq(t)
    PROVE  /\ WholeDocs(s, S) /\ WholeDocs(t, S) => WholeDocs(s \o t, S)
           /\ Unmerged(s) /\ Unmerged(t) => Unmerged(s \o t)
<1>1. PICK u : u = s \o t
  OBVIOUS
<1>2. \A n \in 1..Len(u) : \/ n \in 1..Len(s) /\ u[n] = s[n]
                           \/ n - Len(s) \in 1..Len(t) /\ u[n] = t[n - Len(s)]
  BY <1>1, LenJoin
<1>3. ASSUME WholeDocs(s, S), WholeDocs(t, S) PROVE WholeDocs(u, S)
  BY <1>2, <1>3 DEF WholeDocs
<1>4. ASSUME Unmerged(s), Unmerged(t) PROVE Unmerged(u)
  BY <1>2, <1>4 DEF Unmerged
<1> QED
  BY <1>1, <1>3, <1>4

\* Answers none of which is merged are whole.
LEMMA UnmergedWhole == ASSUME NEW s, NEW S, Unmerged(s) PROVE WholeDocs(s, S)
BY DEF Unmerged, WholeDocs

\* Plain answers are not merged ones.
LEMMA PlainUnmerged == ASSUME NEW s, PlainOnly(s) PROVE Unmerged(s)
BY DEF Unmerged, PlainOnly

\* A command is answered with success.
LEMMA DoneThen ==
    ASSUME NEW got, NEW cmd, NEW rest, NEW S, OnItsWay(got, cmd, rest, S)
    PROVE  ToCome(Tasks!With(got, cmd, TRUE), rest, S \cup {cmd})
<1>1. PICK new : new = Tasks!With(got, cmd, TRUE)
  OBVIOUS
<1>2. DOMAIN new = DOMAIN got \cup {cmd} /\ new[cmd] = TRUE /\ \A c \in DOMAIN got : c # cmd => new[c] = got[c]
  BY <1>1 DEF Tasks!With
<1>3. Reported(new) = S \cup {cmd}
  BY <1>2 DEF Reported, OnItsWay
<1>4. cmd # ""
  BY DEF OnItsWay, EffectorCalls
<1> QED
  BY <1>1, <1>2, <1>3, <1>4 DEF ToCome, OnItsWay

\* A command fails, and its name is known or has been lost.
LEMMA FailedThen ==
    ASSUME NEW got, NEW cmd, NEW rest \in Seq(EffectorCalls), NEW S, OnItsWay(got, cmd, rest, S), NEW name \in {cmd, ""}
    PROVE  ToCome(Tasks!With(got, name, FALSE), rest, S)
<1>1. PICK new : new = Tasks!With(got, name, FALSE)
  OBVIOUS
<1>2. DOMAIN new = DOMAIN got \cup {name} /\ new[name] = FALSE /\ \A c \in DOMAIN got : c # name => new[c] = got[c]
  BY <1>1 DEF Tasks!With
<1>3. name \notin Reported(got)
  BY DEF OnItsWay, Reported
<1>4. Reported(new) = Reported(got)
  BY <1>2, <1>3 DEF Reported
<1>5. \A i \in 1..Len(rest) : rest[i] # name /\ rest[i] \notin DOMAIN got
  <2>1. \A i \in 1..Len(rest) : rest[i] # ""
    <3>1. \A i \in 1..Len(rest) : rest[i] \in EffectorCalls
      BY ElementOfSeq
    <3> QED
      BY <3>1 DEF EffectorCalls
  <2> QED
    BY <2>1 DEF OnItsWay
<1>6. "" \in DOMAIN new \/ EffectorCalls = DOMAIN new \cup {rest[i] : i \in 1..Len(rest)}
  BY <1>2 DEF OnItsWay
<1> QED
  BY <1>1, <1>2, <1>4, <1>5, <1>6 DEF ToCome, OnItsWay

\* The device refuses the first n of the commands to come.
LEMMA RefusedThen ==
    ASSUME NEW got, NEW rest \in Seq(EffectorCalls), NEW S, ToCome(got, rest, S), NEW n \in 0..Len(rest)
    PROVE  LET all == Tasks!Results(got, {rest[k] : k \in 1..n})
           IN /\ n = Len(rest) => Whole(all, S)
              /\ n < Len(rest) => OnItsWay(all, rest[n + 1], SubSeq(rest, n + 2, Len(rest)), S)
<1>1. PICK refused : refused = {rest[k] : k \in 1..n}
  OBVIOUS
<1>2. PICK all : all = Tasks!Results(got, refused)
  OBVIOUS
<1>3. /\ DOMAIN all = DOMAIN got \cup refused
      /\ \A c \in DOMAIN all : all[c] <=> c \notin refused /\ got[c]
  BY <1>2 DEF Tasks!Results
<1>4. Len(rest) \in Nat /\ n \in Nat /\ n <= Len(rest)
  OBVIOUS
<1>5. \A c : c \in refused <=> \E k \in 1..n : c = rest[k]
  BY <1>1
<1>6. /\ \A i, j \in 1..Len(rest) : rest[i] = rest[j] => i = j
      /\ \A i \in 1..Len(rest) : rest[i] \notin DOMAIN got
      /\ Reported(got) = S /\ "" \notin S
      /\ "" \in DOMAIN got \/ EffectorCalls = DOMAIN got \cup {rest[i] : i \in 1..Len(rest)}
  BY DEF ToCome
<1>7. Reported(all) = S
  <2>1. \A k \in 1..n : rest[k] \notin DOMAIN got
    <3>1. \A k \in 1..n : k \in 1..Len(rest)
      BY <1>4
    <3> QED
      BY ONLY <1>6, <3>1
  <2>2. refused \cap DOMAIN got = {}
    BY ONLY <1>5, <2>1
  <2> QED
    BY <1>3, <1>6, <2>2 DEF Reported
<1>8. ASSUME n = Len(rest) PROVE Whole(all, S)
  BY <1>1, <1>3, <1>6, <1>7, <1>8 DEF Whole
<1>9. ASSUME n < Len(rest) PROVE OnItsWay(all, rest[n + 1], SubSeq(rest, n + 2, Len(rest)), S)
  <2>1. PICK after : after = SubSeq(rest, n + 2, Len(rest))
    OBVIOUS
  <2>2. Len(after) = Len(rest) - (n + 1) /\ \A i \in 1..Len(after) : after[i] = rest[n + 1 + i]
    <3>1. n + 2 \in Int /\ Len(rest) \in Int /\ \A i \in n + 2 .. Len(rest) : rest[i] \in EffectorCalls
      BY <1>4, ElementOfSeq
    <3>2. /\ Len(after) = IF n + 2 <= Len(rest) THEN Len(rest) - (n + 2) + 1 ELSE 0
          /\ \A i \in 1..Len(rest) - (n + 2) + 1 : after[i] = rest[n + 2 + i - 1]
      BY <2>1, <3>1, SubSeqProperties
    <3> QED
      BY <1>4, <1>9, <3>2
  <2>3. rest[n + 1] \in EffectorCalls
    BY <1>4, <1>9, ElementOfSeq
  <2>4. rest[n + 1] \notin DOMAIN all
    <3>1. n + 1 \in 1..Len(rest) /\ \A k \in 1..n : k \in 1..Len(rest) /\ k # n + 1
      BY <1>4, <1>9
    <3>2. rest[n + 1] \notin DOMAIN got /\ \A k \in 1..n : rest[k] # rest[n + 1]
      BY ONLY <1>6, <3>1
    <3> QED
      BY ONLY <1>3, <1>5, <3>2
  <2>5. \A i, j \in 1..Len(after) : after[i] = after[j] => i = j
    <3> SUFFICES ASSUME NEW i \in 1..Len(after), NEW j \in 1..Len(after), after[i] = after[j] PROVE i = j
      OBVIOUS
    <3>1. n + 1 + i \in 1..Len(rest) /\ n + 1 + j \in 1..Len(rest)
      BY ONLY <1>4, <1>9, <2>2, i \in 1..Len(after), j \in 1..Len(after)
    <3>2. rest[n + 1 + i] = rest[n + 1 + j]
      BY <2>2
    <3>3. n + 1 + i = n + 1 + j
      BY ONLY <1>6, <3>1, <3>2
    <3> QED
      BY ONLY <1>4, <3>3, i \in 1..Len(after), j \in 1..Len(after), <2>2
  <2>6. ASSUME NEW i \in 1..Len(after) PROVE after[i] \notin DOMAIN all \cup {rest[n + 1]}
    <3>1. n + 1 + i \in 1..Len(rest) /\ n + 1 + i # n + 1 /\ n + 1 + i \notin 1..n /\ n + 1 \in 1..Len(rest)
          /\ \A k \in 1..n : k \in 1..Len(rest)
      BY <1>4, <1>9, <2>2
    <3>2. after[i] \notin DOMAIN got /\ after[i] # rest[n + 1] /\ \A k \in 1..n : after[i] # rest[k]
      BY <1>6, <2>2, <3>1
    <3> QED
      BY <1>3, <1>5, <3>2
  <2>7. "" \in DOMAIN all \/ EffectorCalls = DOMAIN all \cup {rest[n + 1]} \cup {after[i] : i \in 1..Len(after)}
    <3>1. ASSUME NEW i \in 1..Len(rest)
          PROVE  rest[i] \in refused \cup {rest[n + 1]} \cup {after[j] : j \in 1..Len(after)}
      <4>1. CASE i \in 1..n
        BY <1>5, <4>1
      <4>2. CASE i = n + 1
        BY <4>2
      <4>3. CASE i > n + 1
        <5>1. i - (n + 1) \in 1..Len(after) /\ n + 1 + (i - (n + 1)) = i
          BY <1>4, <1>9, <2>2, <4>3
        <5>2. rest[i] = after[i - (n + 1)]
          BY <2>2, <5>1
        <5> QED
          BY <5>1, <5>2
      <4> QED
        BY <1>4, <4>1, <4>2, <4>3
    <3>2. refused \subseteq {rest[i] : i \in 1..Len(rest)} /\ rest[n + 1] \in {rest[i] : i \in 1..Len(rest)}
      BY <1>4, <1>5, <1>9
    <3>3. ASSUME NEW j \in 1..Len(after) PROVE after[j] \in {rest[i] : i \in 1..Len(rest)}
      <4>1. n + 1 + j \in 1..Len(rest)
        BY <1>4, <1>9, <2>2
      <4> QED
        BY <2>2, <4>1
    <3>4. {rest[i] : i \in 1..Len(rest)} = refused \cup {rest[n + 1]} \cup {after[j] : j \in 1..Len(after)}
      BY <3>1, <3>2, <3>3
    <3> QED
      BY <1>3, <1>6, <3>4
  <2>8. PICK cmd : cmd = rest[n + 1]
    OBVIOUS
  <2>9. \A i \in 1..Len(after) : after[i] \notin DOMAIN all \cup {cmd}
    BY ONLY <2>6, <2>8
  <2>10. OnItsWay(all, cmd, after, S)
    BY ONLY <1>6, <1>7, <2>3, <2>4, <2>5, <2>7, <2>8, <2>9 DEF OnItsWay
  <2> QED
    BY ONLY <2>1, <2>8, <2>10
<1> QED
  BY <1>1, <1>2, <1>8, <1>9

\* Who may be asked, is among those that answers are kept for.
LEMMA AskKnown == ASSUME TasksInv, NEW x, x \in 1..Len(Tasks!asks) PROVE x \in Tasks!Asks
<1>1. Len(Tasks!asks) \in 0..MaxAsks /\ MaxAsks \in Nat
  BY TasksAssumption DEF TasksInv, Tasks!asks
<1> QED
  BY <1>1 DEF Tasks!Asks

\* A step that merges nothing: what it says to request id, and what it gives to the links
\* or takes from them, is not of a GetEndEffectorStatus.
LEMMA MergedQuiet ==
    ASSUME TasksInv, MergedInv, session' = session, come' \in Nat, come <= come',
           UNCHANGED <<served, m_magicSpecialTask>>,
           \A c \in inFlight' : c \in inFlight \/ ~Tripled(Tasks!asks, c.id),
           \A x \in DOMAIN m_RequestMap' :
               Tripled(Tasks!asks, x) => x \in DOMAIN m_RequestMap /\ m_RequestMap'[x] = m_RequestMap[x],
           \A x \in Tasks!Asks : said'[x] = said[x] \/ \E as : IsSeq(as) /\ Unmerged(as) /\ said'[x] = said[x] \o as
    PROVE  MergedInv'
<1>1. Tasks!asks' = Tasks!asks /\ Tasks!Asks' = Tasks!Asks
  BY DEF Tasks!asks, Tasks!Asks
<1>2. ASSUME NEW x \in Tasks!Asks
      PROVE  /\ WholeDocs(said'[x], served[x])
             /\ ~Tripled(Tasks!asks, x) => Unmerged(said'[x])
             /\ x > come' => served[x] = {}
  <2>1. WholeDocs(said[x], served[x]) /\ (~Tripled(Tasks!asks, x) => Unmerged(said[x])) /\ (x > come => served[x] = {})
    BY <1>2 DEF MergedInv
  <2>2. come \in Nat /\ x \in Nat /\ IsSeq(said[x])
    BY <1>2 DEF TasksInv, Tasks!Asks
  <2>3. x > come' => served[x] = {}
    BY <2>1, <2>2
  <2>4. CASE said'[x] = said[x]
    BY <2>1, <2>3, <2>4
  <2>5. CASE \E as : IsSeq(as) /\ Unmerged(as) /\ said'[x] = said[x] \o as
    <3>1. PICK as : IsSeq(as) /\ Unmerged(as) /\ said'[x] = said[x] \o as
      BY <2>5
    <3>2. PICK s, S : s = said[x] /\ S = served[x]
      OBVIOUS
    <3>3. WholeDocs(s \o as, S) /\ (Unmerged(s) => Unmerged(s \o as))
      BY <2>1, <2>2, <3>1, <3>2, UnmergedWhole, WholeJoin
    <3> QED
      BY <2>1, <2>3, <3>1, <3>2, <3>3
  <2> QED
    BY <1>2, <2>4, <2>5
<1>3. ASSUME NEW c \in inFlight'
      PROVE  FlightInv(Tasks!asks, c, m_magicSpecialTask, served, m_RequestMap')
  BY <1>3 DEF MergedInv, FlightInv
<1> QED
  BY <1>1, <1>2, <1>3 DEF MergedInv

\* What is said to request id, and has nothing merged.
LEMMA SaysUnmerged ==
    ASSUME TasksInv, NEW id \in Tasks!Asks, NEW as, IsSeq(as), Unmerged(as), Tasks!Says(id, as)
    PROVE  \A x \in Tasks!Asks : said'[x] = said[x] \/ \E bs : IsSeq(bs) /\ Unmerged(bs) /\ said'[x] = said[x] \o bs
BY SaysSeq

\* One answer that is not a merged one.
LEMMA SaysOneUnmerged ==
    ASSUME TasksInv, NEW id \in Tasks!Asks, NEW a, a.kind # "merged", Tasks!Says(id, <<a>>)
    PROVE  \A x \in Tasks!Asks : said'[x] = said[x] \/ \E bs : IsSeq(bs) /\ Unmerged(bs) /\ said'[x] = said[x] \o bs
<1>1. PICK as : as = <<a>>
  OBVIOUS
<1>2. IsSeq(as) /\ Unmerged(as)
  BY <1>1, SingleAnswer DEF Unmerged
<1> QED
  BY <1>1, <1>2, SaysUnmerged

\* DoSpecialResponse and SendCommandSpecial of request id, when the device has answered S.
LEMMA SpecialMerged ==
    ASSUME TasksInv, MergedInv, session' = session, come' \in Nat, come' <= Len(Tasks!asks), come <= come',
           NEW id \in 1..come', Tripled(Tasks!asks, id), PlainOnly(said[id]),
           NEW got, NEW rest \in Seq(EffectorCalls), NEW was \in Nat, NEW cost, NEW S, ToCome(got, rest, S),
           Tasks!Special(id, got, rest, was, cost),
           served' = [x \in Tasks!Asks |-> IF x = id THEN S ELSE served[x]],
           \A x \in DOMAIN m_RequestMap' : x # id => x \in DOMAIN m_RequestMap /\ m_RequestMap'[x] = m_RequestMap[x],
           id \in DOMAIN m_RequestMap' => \A c \in inFlight' : c.id = id => m_RequestMap'[id] = c.cmd
    PROVE  MergedInv'
<1>1. id \in Tasks!Asks /\ come \in Nat
  <2>1. id \in 1..Len(Tasks!asks)
    <3>1. Len(Tasks!asks) \in Nat
      BY TasksAssumption DEF TasksInv, Tasks!asks
    <3> QED
      BY <3>1
  <2> QED
    BY <2>1, AskKnown DEF TasksInv
<1>2. Tasks!asks' = Tasks!asks /\ Tasks!Asks' = Tasks!Asks
  BY DEF Tasks!asks, Tasks!Asks
<1>3. PICK n \in 0..Len(rest) : \E parts \in 0..was + n :
        \/ /\ n = Len(rest)
           /\ m_magicSpecialTask' = Tasks!Without(m_magicSpecialTask, {id})
           /\ inFlight' = {c \in inFlight : c.id # id}
           /\ Tasks!Says(id, <<Tasks!Merged(Tasks!Results(got, {rest[k] : k \in 1..n}))>> \o [k \in 1..parts |-> Tasks!Plain(FALSE)])
        \/ /\ n < Len(rest)
           /\ m_magicSpecialTask' = Tasks!With(m_magicSpecialTask, id, [request |-> SubSeq(rest, n + 2, Len(rest)),
                                                result |-> Tasks!Results(got, {rest[k] : k \in 1..n})])
           /\ inFlight' = {c \in inFlight : c.id # id} \cup {[id |-> id, cmd |-> rest[n + 1]]}
           /\ Tasks!Says(id, [k \in 1..parts |-> Tasks!Plain(TRUE)])
  BY DEF Tasks!Special
<1>4. PICK all, after : all = Tasks!Results(got, {rest[k] : k \in 1..n}) /\ after = SubSeq(rest, n + 2, Len(rest))
  OBVIOUS
<1>5. /\ n = Len(rest) => Whole(all, S)
      /\ n < Len(rest) => OnItsWay(all, rest[n + 1], after, S)
  BY <1>4, RefusedThen
<1>6. PICK parts \in 0..was + n :
        \/ /\ n = Len(rest)
           /\ m_magicSpecialTask' = Tasks!Without(m_magicSpecialTask, {id})
           /\ inFlight' = {c \in inFlight : c.id # id}
           /\ Tasks!Says(id, <<Tasks!Merged(all)>> \o [k \in 1..parts |-> Tasks!Plain(FALSE)])
        \/ /\ n < Len(rest)
           /\ m_magicSpecialTask' = Tasks!With(m_magicSpecialTask, id, [request |-> after, result |-> all])
           /\ inFlight' = {c \in inFlight : c.id # id} \cup {[id |-> id, cmd |-> rest[n + 1]]}
           /\ Tasks!Says(id, [k \in 1..parts |-> Tasks!Plain(TRUE)])
  BY <1>3, <1>4
<1>7. parts \in Nat
  OBVIOUS
<1>8. \A x \in Tasks!Asks : x # id =>
          /\ WholeDocs(said[x], served'[x])
          /\ ~Tripled(Tasks!asks, x) => Unmerged(said[x])
          /\ x > come' => served'[x] = {}
  BY <1>1 DEF MergedInv, Tasks!Asks
<1>9. \A as : IsSeq(as) /\ WholeDocs(as, S) /\ Tasks!Says(id, as)
              => \A x \in Tasks!Asks : /\ WholeDocs(said'[x], served'[x])
                                       /\ ~Tripled(Tasks!asks, x) => Unmerged(said'[x])
                                       /\ x > come' => served'[x] = {}
  <2> SUFFICES ASSUME NEW as, IsSeq(as), WholeDocs(as, S), Tasks!Says(id, as), NEW x \in Tasks!Asks
               PROVE  /\ WholeDocs(said'[x], served'[x])
                      /\ ~Tripled(Tasks!asks, x) => Unmerged(said'[x])
                      /\ x > come' => served'[x] = {}
    OBVIOUS
  <2>1. said'[id] = said[id] \o as /\ IsSeq(said[id]) /\ \A y \in Tasks!Asks : y # id => said'[y] = said[y]
    BY <1>1, SaysSeq
  <2>2. CASE x = id
    <3>1. PICK s : s = said[id]
      OBVIOUS
    <3>2. WholeDocs(s, S)
      BY <3>1, PlainUnmerged, UnmergedWhole
    <3>3. WholeDocs(s \o as, S)
      BY <2>1, <3>1, <3>2, WholeJoin
    <3>4. served'[id] = S /\ ~(id > come')
      BY <1>1
    <3>5. WholeDocs(said'[id], served'[id])
      BY <2>1, <3>1, <3>3, <3>4
    <3> QED
      BY <2>2, <3>4, <3>5
  <2>3. CASE x # id
    BY <1>8, <2>1, <2>3
  <2> QED
    BY <2>2, <2>3
<1>10. ASSUME NEW c \in inFlight, c.id # id,
              c.id \in DOMAIN m_magicSpecialTask => /\ c.id \in DOMAIN m_magicSpecialTask'
                                                    /\ m_magicSpecialTask'[c.id] = m_magicSpecialTask[c.id]
       PROVE  FlightInv(Tasks!asks, c, m_magicSpecialTask', served', m_RequestMap')
  <2>1. FlightInv(Tasks!asks, c, m_magicSpecialTask, served, m_RequestMap)
    BY <1>10 DEF MergedInv
  <2>2. c.id \in Tasks!Asks
    <3>1. c.id \in 1..come /\ come <= Len(Tasks!asks) /\ Len(Tasks!asks) \in Nat
      BY <1>10, TasksAssumption DEF TasksInv, LinkInv, Tasks!asks
    <3>2. c.id \in 1..Len(Tasks!asks)
      BY <1>1, <3>1
    <3> QED
      BY <3>2, AskKnown
  <2>3. served'[c.id] = served[c.id]
    BY <1>10, <2>2
  <2> QED
    BY <1>10, <2>1, <2>3 DEF FlightInv
<1>11. CASE /\ n = Len(rest)
            /\ m_magicSpecialTask' = Tasks!Without(m_magicSpecialTask, {id})
            /\ inFlight' = {c \in inFlight : c.id # id}
            /\ Tasks!Says(id, <<Tasks!Merged(all)>> \o [k \in 1..parts |-> Tasks!Plain(FALSE)])
  <2>1. PICK one, more : one = <<Tasks!Merged(all)>> /\ more = [k \in 1..parts |-> Tasks!Plain(FALSE)]
    OBVIOUS
  <2>2. IsSeq(one) /\ WholeDocs(one, S)
    <3>1. Len(one) = 1 /\ IsSeq(one) /\ one[1].doc = all
      BY <2>1, SingleAnswer DEF Tasks!Merged
    <3> QED
      BY <1>5, <1>11, <3>1 DEF WholeDocs
  <2>3. IsSeq(more) /\ WholeDocs(more, S)
    BY <1>7, <2>1, PlainParts, PlainUnmerged, UnmergedWhole
  <2>4. PICK as : as = one \o more
    OBVIOUS
  <2>5. IsSeq(as) /\ WholeDocs(as, S) /\ Tasks!Says(id, as)
    BY <1>11, <2>1, <2>2, <2>3, <2>4, LenJoin, WholeJoin
  <2>6. \A c \in inFlight' : c \in inFlight /\ c.id # id /\
            (c.id \in DOMAIN m_magicSpecialTask => c.id \in DOMAIN m_magicSpecialTask' /\ m_magicSpecialTask'[c.id] = m_magicSpecialTask[c.id])
    BY <1>11 DEF Tasks!Without
  <2>7. \A c \in inFlight' : FlightInv(Tasks!asks, c, m_magicSpecialTask', served', m_RequestMap')
    BY <1>10, <2>6
  <2>8. served' = [x \in Tasks!Asks |-> served'[x]]
    OBVIOUS
  <2> QED
    BY <1>2, <1>9, <2>5, <2>7, <2>8 DEF MergedInv
<1>12. CASE /\ n < Len(rest)
            /\ m_magicSpecialTask' = Tasks!With(m_magicSpecialTask, id, [request |-> after, result |-> all])
            /\ inFlight' = {c \in inFlight : c.id # id} \cup {[id |-> id, cmd |-> rest[n + 1]]}
            /\ Tasks!Says(id, [k \in 1..parts |-> Tasks!Plain(TRUE)])
  <2>1. PICK as : as = [k \in 1..parts |-> Tasks!Plain(TRUE)]
    OBVIOUS
  <2>2. IsSeq(as) /\ WholeDocs(as, S) /\ Tasks!Says(id, as)
    BY <1>7, <1>12, <2>1, PlainParts, PlainUnmerged, UnmergedWhole
  <2>3. PICK new : new = [id |-> id, cmd |-> rest[n + 1]]
    OBVIOUS
  <2>4. new.id = id /\ new.cmd = rest[n + 1] /\ inFlight' = {c \in inFlight : c.id # id} \cup {new}
    BY <1>12, <2>3
  <2>5. /\ id \in DOMAIN m_magicSpecialTask' /\ m_magicSpecialTask'[id].request = after /\ m_magicSpecialTask'[id].result = all
        /\ \A x \in DOMAIN m_magicSpecialTask : x # id => x \in DOMAIN m_magicSpecialTask' /\ m_magicSpecialTask'[x] = m_magicSpecialTask[x]
    BY <1>12 DEF Tasks!With
  <2>6. ASSUME NEW c \in inFlight' PROVE FlightInv(Tasks!asks, c, m_magicSpecialTask', served', m_RequestMap')
    <3>1. CASE c = new
      <4>1. served'[id] = S
        BY <1>1
      <4>2. id \in DOMAIN m_RequestMap' => m_RequestMap'[id] = new.cmd
        BY <2>4
      <4> QED
        BY <1>5, <1>12, <2>4, <2>5, <3>1, <4>1, <4>2 DEF FlightInv
    <3>2. CASE c # new
      BY <1>10, <2>4, <2>5, <2>6, <3>2
    <3> QED
      BY <3>1, <3>2
  <2>7. served' = [x \in Tasks!Asks |-> served'[x]]
    OBVIOUS
  <2> QED
    BY <1>2, <1>9, <2>2, <2>6, <2>7 DEF MergedInv
<1> QED
  BY <1>6, <1>11, <1>12

\* m_RequestMap, entered with the command of request id that the link has now.
LEMMA NamesEntered ==
    ASSUME TasksInv', NEW R, NEW id, m_RequestMap' = Tasks!Entered(R, id)
    PROVE  /\ \A x \in DOMAIN m_RequestMap' : x # id => x \in DOMAIN R /\ m_RequestMap'[x] = R[x]
           /\ id \in DOMAIN m_RequestMap' => \A c \in inFlight' : c.id = id => m_RequestMap'[id] = c.cmd
<1>1. \A b, c \in inFlight' : b.id = c.id => b = c
  BY DEF TasksInv, LinkInv
<1>2. PICK sent : sent = {c \in inFlight' : c.id = id}
  OBVIOUS
<1>3. m_RequestMap' = IF sent = {} THEN R ELSE Tasks!With(R, id, (CHOOSE c \in sent : TRUE).cmd)
  BY <1>2 DEF Tasks!Entered
<1>4. CASE sent = {}
  BY <1>2, <1>3, <1>4
<1>5. CASE sent # {}
  <2>1. PICK first : first = CHOOSE c \in sent : TRUE
    OBVIOUS
  <2>2. first \in sent
    BY <1>5, <2>1
  <2>3. m_RequestMap' = Tasks!With(R, id, first.cmd)
    BY <1>3, <1>5, <2>1
  <2>4. \A c \in inFlight' : c.id = id => c = first
    BY <1>1, <1>2, <2>2
  <2> QED
    BY <2>3, <2>4 DEF Tasks!With
<1> QED
  BY <1>4, <1>5

\* GetEndEffectorStatus comes.
LEMMA TripleMerged ==
    ASSUME TasksInv, MergedInv, TasksInv', session' = session, come < Len(Tasks!asks), come' = come + 1,
           Tasks!asks[come + 1].api = "GetEndEffectorStatus",
           Tasks!Special(come + 1, <<>>, Tasks!Effectors, 0, 0),
           m_RequestMap' = Tasks!Entered(m_RequestMap, come + 1), served' = served
    PROVE  MergedInv'
<1>1. /\ come \in Nat /\ come + 1 \in Tasks!Asks /\ come + 1 <= Len(Tasks!asks) /\ said[come + 1] = <<>>
  BY NewAsk
<1>2. Tripled(Tasks!asks, come + 1) /\ PlainOnly(said[come + 1])
  BY <1>1 DEF Tripled, PlainOnly
<1>3. PICK rest : rest = Tasks!Effectors
  OBVIOUS
<1>4. rest \in Seq(EffectorCalls) /\ Tasks!Special(come + 1, <<>>, rest, 0, 0) /\ 0 \in Nat
  BY <1>3 DEF Tasks!Effectors, EffectorCalls
<1>5. PICK got, S : got = <<>> /\ S = {}
  OBVIOUS
<1>6. ToCome(got, rest, S)
  <2>1. Len(rest) = 3 /\ rest[1] = "GetEndEffectorType" /\ rest[2] = "GetEndEffectorSuctionCup" /\ rest[3] = "GetEndEffectorGripper"
    BY <1>3 DEF Tasks!Effectors
  <2>2. DOMAIN got = {} /\ Reported(got) = S
    BY <1>5 DEF Reported
  <2>3. \A i, j \in 1..3 : rest[i] = rest[j] => i = j
    BY <2>1
  <2>4. EffectorCalls = {rest[i] : i \in 1..3}
    BY <2>1 DEF EffectorCalls
  <2> QED
    BY <1>5, <2>1, <2>2, <2>3, <2>4 DEF ToCome
<1>7. served' = [x \in Tasks!Asks |-> IF x = come + 1 THEN S ELSE served[x]]
  BY <1>1, <1>5 DEF MergedInv
<1>8. /\ \A x \in DOMAIN m_RequestMap' : x # come + 1 => x \in DOMAIN m_RequestMap /\ m_RequestMap'[x] = m_RequestMap[x]
      /\ come + 1 \in DOMAIN m_RequestMap' => \A c \in inFlight' : c.id = come + 1 => m_RequestMap'[come + 1] = c.cmd
  BY NamesEntered
<1>9. come' \in Nat /\ come' <= Len(Tasks!asks) /\ come <= come' /\ come + 1 \in 1..come'
  BY <1>1
<1> QED
  BY <1>2, <1>4, <1>5, <1>6, <1>7, <1>8, <1>9, SpecialMerged

\* A link ends a command of a request that has others to come.
LEMMA LinkMerged ==
    ASSUME TasksInv, MergedInv, TasksInv', session' = session, come' = come, NEW id \in DOMAIN m_magicSpecialTask,
           NEW got, NEW cost, NEW S, ToCome(got, m_magicSpecialTask[id].request, S),
           Tasks!Special(id, got, m_magicSpecialTask[id].request, 1, cost),
           served' = [x \in Tasks!Asks |-> IF x = id THEN S ELSE served[x]],
           \A x \in DOMAIN m_RequestMap' : x # id => x \in DOMAIN m_RequestMap /\ m_RequestMap'[x] = m_RequestMap[x],
           id \in DOMAIN m_RequestMap' => \A c \in inFlight' : c.id = id => m_RequestMap'[id] = c.cmd
    PROVE  MergedInv'
<1>1. id \in 1..come /\ Tripled(Tasks!asks, id) /\ m_magicSpecialTask[id].request \in Seq(EffectorCalls)
  BY DEF TasksInv, TripleInv
<1>2. PlainOnly(said[id])
  BY <1>1 DEF TasksInv, AskInv
<1>3. come' \in Nat /\ come' <= Len(Tasks!asks) /\ come <= come' /\ id \in 1..come'
  BY <1>1 DEF TasksInv
<1>4. PICK rest : rest = m_magicSpecialTask[id].request
  OBVIOUS
<1>5. rest \in Seq(EffectorCalls) /\ Tasks!Special(id, got, rest, 1, cost) /\ 1 \in Nat /\ ToCome(got, rest, S)
  BY <1>1, <1>4
<1> QED
  BY <1>1, <1>2, <1>3, <1>5, SpecialMerged

\* The device answers a command.
LEMMA LinkRepliesMerged ==
    ASSUME TasksInv, MergedInv, TasksInv', NEW c \in inFlight, Tasks!LinkReplies(c) PROVE MergedInv'
<1>1. session' = session /\ come' = come /\ c.id \in Tasks!Asks /\ c.id \in 1..come /\ come \in Nat
  <2>1. c.id \in 1..come /\ come <= Len(Tasks!asks) /\ Len(Tasks!asks) \in Nat /\ come \in Nat
    BY TasksAssumption DEF TasksInv, LinkInv, Tasks!asks
  <2>2. c.id \in 1..Len(Tasks!asks)
    BY <2>1
  <2> QED
    BY <2>1, <2>2, AskKnown DEF Tasks!LinkReplies
<1>2. served' = [x \in Tasks!Asks |-> IF x = c.id THEN served[x] \cup {c.cmd} ELSE served[x]]
  <2>1. served = [x \in Tasks!Asks |-> served[x]] /\ served' = [served EXCEPT ![c.id] = @ \cup {c.cmd}]
    BY DEF MergedInv, Tasks!LinkReplies
  <2> QED
    BY <1>1, <2>1
<1>3. /\ DOMAIN m_RequestMap' = DOMAIN m_RequestMap \ {c.id}
      /\ \A x \in DOMAIN m_RequestMap' : m_RequestMap'[x] = m_RequestMap[x]
  BY DEF Tasks!LinkReplies, Tasks!Without
<1>4. FlightInv(Tasks!asks, c, m_magicSpecialTask, served, m_RequestMap)
  BY DEF MergedInv
<1>5. CASE c.id \in DOMAIN m_magicSpecialTask
  <2>1. PICK old, rest, S : old = m_magicSpecialTask[c.id].result /\ rest = m_magicSpecialTask[c.id].request /\ S = served[c.id]
    OBVIOUS
  <2>2. OnItsWay(old, c.cmd, rest, S)
    BY <1>4, <1>5, <2>1 DEF FlightInv, TasksInv, TripleInv
  <2>3. PICK got, T : got = Tasks!With(old, c.cmd, TRUE) /\ T = S \cup {c.cmd}
    OBVIOUS
  <2>4. ToCome(got, rest, T)
    BY <2>2, <2>3, DoneThen
  <2>5. Tasks!Special(c.id, got, m_magicSpecialTask[c.id].request, 1, 0)
    BY <1>5, <2>1, <2>3 DEF Tasks!LinkReplies
  <2>6. served' = [x \in Tasks!Asks |-> IF x = c.id THEN T ELSE served[x]]
    BY <1>2, <2>1, <2>3
  <2> QED
    BY <1>1, <1>3, <1>5, <2>1, <2>4, <2>5, <2>6, LinkMerged
<1>6. CASE c.id \notin DOMAIN m_magicSpecialTask
  <2>1. ~Tripled(Tasks!asks, c.id)
    BY <1>4, <1>6 DEF FlightInv
  <2>2. inFlight' \subseteq inFlight /\ m_magicSpecialTask' = m_magicSpecialTask /\ Tasks!Says(c.id, <<Tasks!Plain(TRUE)>>)
    BY <1>6 DEF Tasks!LinkReplies
  <2>3. ASSUME NEW x \in Tasks!Asks
        PROVE  /\ WholeDocs(said'[x], served'[x])
               /\ ~Tripled(Tasks!asks, x) => Unmerged(said'[x])
               /\ x > come => served'[x] = {}
    <3>1. said'[x] = said[x] \/ \E as : IsSeq(as) /\ Unmerged(as) /\ said'[x] = said[x] \o as
      BY <1>1, <2>2, <2>3, SaysOneUnmerged DEF Tasks!Plain
    <3>2. WholeDocs(said[x], served[x]) /\ (~Tripled(Tasks!asks, x) => Unmerged(said[x])) /\ (x > come => served[x] = {})
      BY <2>3 DEF MergedInv
    <3>3. CASE x = c.id
      <4>1. Unmerged(said'[x])
        <5>1. PICK s : s = said[x]
          OBVIOUS
        <5>2. IsSeq(s) /\ Unmerged(s)
          BY <2>1, <2>3, <3>2, <3>3, <5>1 DEF TasksInv
        <5>3. \A as : IsSeq(as) /\ Unmerged(as) => Unmerged(s \o as)
          BY <5>2, WholeJoin
        <5> QED
          BY <3>1, <5>1, <5>2, <5>3
      <4>2. WholeDocs(said'[x], served'[x])
        BY <4>1, UnmergedWhole
      <4>3. ~(x > come)
        BY <1>1, <3>3
      <4> QED
        BY <4>1, <4>2, <4>3
    <3>4. CASE x # c.id
      <4>1. said'[x] = said[x]
        <5>1. PICK as : as = <<Tasks!Plain(TRUE)>>
          OBVIOUS
        <5>2. IsSeq(as) /\ Tasks!Says(c.id, as)
          BY <2>2, <5>1, SingleAnswer
        <5> QED
          BY <1>1, <2>3, <3>4, <5>2, SaysSeq
      <4>2. served'[x] = served[x]
        BY <1>2, <2>3, <3>4
      <4> QED
        BY <3>2, <4>1, <4>2
    <3> QED
      BY <3>3, <3>4
  <2>4. ASSUME NEW b \in inFlight' PROVE FlightInv(Tasks!asks, b, m_magicSpecialTask, served', m_RequestMap')
    <3>1. FlightInv(Tasks!asks, b, m_magicSpecialTask, served, m_RequestMap)
      BY <2>2, <2>4 DEF MergedInv
    <3>2. CASE Tripled(Tasks!asks, b.id)
      <4>1. b.id \in DOMAIN m_magicSpecialTask /\ b.id # c.id
        BY <1>6, <3>1, <3>2 DEF FlightInv
      <4>2. b.id \in Tasks!Asks
        <5>1. b.id \in 1..come /\ come <= Len(Tasks!asks) /\ Len(Tasks!asks) \in Nat
          BY <2>2, <2>4, TasksAssumption DEF TasksInv, LinkInv, Tasks!asks
        <5>2. b.id \in 1..Len(Tasks!asks)
          BY <1>1, <5>1
        <5> QED
          BY <5>2, AskKnown
      <4>3. served'[b.id] = served[b.id]
        BY <1>2, <4>1, <4>2
      <4> QED
        BY <1>3, <3>1, <4>3 DEF FlightInv
    <3> QED
      BY <3>2 DEF FlightInv
  <2>5. Tasks!asks' = Tasks!asks /\ Tasks!Asks' = Tasks!Asks /\ served' = [x \in Tasks!Asks |-> served'[x]]
    BY <1>1, <1>2 DEF Tasks!asks, Tasks!Asks
  <2> QED
    BY <1>1, <2>2, <2>3, <2>4, <2>5 DEF MergedInv
<1> QED
  BY <1>5, <1>6

\* The link gives a command up: under its name, or under none.
LEMMA LinkFailsMerged ==
    ASSUME TasksInv, MergedInv, TasksInv', NEW c \in inFlight, Tasks!LinkFails(c) PROVE MergedInv'
<1>1. session' = session /\ come' = come /\ served' = served /\ c.id \in Tasks!Asks /\ come \in Nat
  <2>1. c.id \in 1..come /\ come <= Len(Tasks!asks) /\ Len(Tasks!asks) \in Nat /\ come \in Nat
    BY TasksAssumption DEF TasksInv, LinkInv, Tasks!asks
  <2>2. c.id \in 1..Len(Tasks!asks)
    BY <2>1
  <2> QED
    BY <2>1, <2>2, AskKnown DEF Tasks!LinkFails
<1>2. FlightInv(Tasks!asks, c, m_magicSpecialTask, served, m_RequestMap)
  BY DEF MergedInv
<1>3. CASE c.id \in DOMAIN m_magicSpecialTask
  <2>1. PICK old, rest, S : old = m_magicSpecialTask[c.id].result /\ rest = m_magicSpecialTask[c.id].request /\ S = served[c.id]
    OBVIOUS
  <2>2. OnItsWay(old, c.cmd, rest, S) /\ (c.id \in DOMAIN m_RequestMap => m_RequestMap[c.id] = c.cmd) /\ rest \in Seq(EffectorCalls)
    BY <1>2, <1>3, <2>1 DEF FlightInv, TasksInv, TripleInv
  <2>3. PICK name : name = IF c.id \in DOMAIN m_RequestMap THEN m_RequestMap[c.id] ELSE ""
    OBVIOUS
  <2>4. PICK got : got = Tasks!With(old, name, FALSE)
    OBVIOUS
  <2>5. ToCome(got, rest, S)
    BY <2>2, <2>3, <2>4, FailedThen
  <2>6. /\ Tasks!Special(c.id, got, m_magicSpecialTask[c.id].request, 1, 1)
        /\ m_RequestMap' = Tasks!Entered(Tasks!Without(m_RequestMap, {c.id}), c.id)
    BY <1>3, <2>1, <2>3, <2>4 DEF Tasks!LinkFails
  <2>7. PICK R : R = Tasks!Without(m_RequestMap, {c.id})
    OBVIOUS
  <2>8. \A x \in DOMAIN R : x \in DOMAIN m_RequestMap /\ R[x] = m_RequestMap[x]
    BY <2>7 DEF Tasks!Without
  <2>9. /\ \A x \in DOMAIN m_RequestMap' : x # c.id => x \in DOMAIN R /\ m_RequestMap'[x] = R[x]
        /\ c.id \in DOMAIN m_RequestMap' => \A b \in inFlight' : b.id = c.id => m_RequestMap'[c.id] = b.cmd
    BY <2>6, <2>7, NamesEntered
  <2>10. served' = [x \in Tasks!Asks |-> IF x = c.id THEN S ELSE served[x]]
    BY <1>1, <2>1 DEF MergedInv
  <2> QED
    BY <1>1, <1>3, <2>1, <2>5, <2>6, <2>8, <2>9, <2>10, LinkMerged
<1>4. CASE c.id \notin DOMAIN m_magicSpecialTask
  <2>1. /\ inFlight' \subseteq inFlight /\ m_magicSpecialTask' = m_magicSpecialTask /\ Tasks!Says(c.id, <<Tasks!Plain(FALSE)>>)
        /\ \A x \in DOMAIN m_RequestMap' : x \in DOMAIN m_RequestMap /\ m_RequestMap'[x] = m_RequestMap[x]
    BY <1>4 DEF Tasks!LinkFails, Tasks!Without
  <2>2. \A x \in Tasks!Asks : said'[x] = said[x] \/ \E as : IsSeq(as) /\ Unmerged(as) /\ said'[x] = said[x] \o as
    BY <1>1, <2>1, SaysOneUnmerged DEF Tasks!Plain
  <2> QED
    BY <1>1, <2>1, <2>2, MergedQuiet
<1> QED
  BY <1>3, <1>4

\* A request comes that is no GetEndEffectorStatus, or is refused.
LEMMA ComesUnmerged ==
    ASSUME TasksInv, MergedInv, session' = session, come < Len(Tasks!asks), come' = come + 1,
           UNCHANGED <<served, m_magicSpecialTask>>,
           \A c \in inFlight' : c \in inFlight \/ ~Tripled(Tasks!asks, c.id),
           \A x \in DOMAIN m_RequestMap' :
               Tripled(Tasks!asks, x) => x \in DOMAIN m_RequestMap /\ m_RequestMap'[x] = m_RequestMap[x],
           \/ said' = said
           \/ \E a : a.kind # "merged" /\ Tasks!Says(come + 1, <<a>>)
           \/ \E a, b : a.kind # "merged" /\ b.kind # "merged" /\ Tasks!Says(come + 1, <<a, b>>)
    PROVE  MergedInv'
<1>1. come \in Nat /\ come + 1 \in Tasks!Asks
  BY NewAsk
<1>2. \A x \in Tasks!Asks : said'[x] = said[x] \/ \E as : IsSeq(as) /\ Unmerged(as) /\ said'[x] = said[x] \o as
  <2>1. CASE said' = said
    BY <2>1
  <2>2. CASE \E a : a.kind # "merged" /\ Tasks!Says(come + 1, <<a>>)
    BY <1>1, <2>2, SaysOneUnmerged
  <2>3. CASE \E a, b : a.kind # "merged" /\ b.kind # "merged" /\ Tasks!Says(come + 1, <<a, b>>)
    <3>1. PICK a, b : a.kind # "merged" /\ b.kind # "merged" /\ Tasks!Says(come + 1, <<a, b>>)
      BY <2>3
    <3>2. PICK as : as = <<a, b>>
      OBVIOUS
    <3>3. IsSeq(as) /\ Len(as) = 2 /\ as[1] = a /\ as[2] = b
      BY <3>2 DEF IsSeq
    <3>4. Unmerged(as)
      <4>1. \A n \in 1..2 : n = 1 \/ n = 2
        OBVIOUS
      <4> QED
        BY <3>1, <3>3, <4>1 DEF Unmerged
    <3> QED
      BY <1>1, <3>1, <3>2, <3>3, <3>4, SaysUnmerged
  <2> QED
    BY <2>1, <2>2, <2>3
<1>3. come' \in Nat /\ come <= come'
  BY <1>1
<1> QED
  BY <1>2, <1>3, MergedQuiet

\* A request for MagicDevicePlugin comes in.
LEMMA HandleMerged ==
    ASSUME TasksInv, MergedInv, TasksInv', Tasks!HandleMagicDeviceCommand PROVE MergedInv'
<1>1. session' = session /\ come < Len(Tasks!asks) /\ come' = come + 1
  BY DEF Tasks!HandleMagicDeviceCommand
<1>2. \A ok, doc : Tasks!Plain(ok).kind # "merged" /\ Tasks!Found(doc).kind # "merged"
  BY DEF Tasks!Plain, Tasks!Found
<1> USE DEF Tasks!linkVars, Tasks!searchVars, Tasks!boxVars
<1>3. CASE Tasks!pSearchDobot(come + 1)
  <2>1. UNCHANGED <<served, m_magicSpecialTask, inFlight, m_RequestMap>>
    BY <1>3 DEF Tasks!pSearchDobot
  <2>2. said' = said \/ \E a : a.kind # "merged" /\ Tasks!Says(come + 1, <<a>>)
    BY <1>2, <1>3 DEF Tasks!pSearchDobot, Tasks!BroadcastForSearchM1
  <2> QED
    BY <1>1, <2>1, <2>2, ComesUnmerged
<1>4. CASE Tasks!Refuses(come + 1)
  BY <1>1, <1>2, <1>4, ComesUnmerged DEF Tasks!Refuses
<1>5. CASE Tasks!pConnectDobot(come + 1)
  <2>1. UNCHANGED <<served, m_magicSpecialTask, inFlight, m_RequestMap>>
    BY <1>5 DEF Tasks!pConnectDobot
  <2>2. \E a : a.kind # "merged" /\ Tasks!Says(come + 1, <<a>>)
    BY <1>2, <1>5 DEF Tasks!pConnectDobot
  <2> QED
    BY <1>1, <2>1, <2>2, ComesUnmerged
<1>6. CASE Tasks!Disconnects({Tasks!asks[come + 1].port}) /\ Tasks!Says(come + 1, <<Tasks!Plain(TRUE)>>)
  <2>1. /\ UNCHANGED <<served, m_magicSpecialTask>> /\ inFlight' \subseteq inFlight
        /\ \A x \in DOMAIN m_RequestMap' : x \in DOMAIN m_RequestMap /\ m_RequestMap'[x] = m_RequestMap[x]
    BY <1>6 DEF Tasks!Disconnects, Tasks!Without
  <2> QED
    BY <1>1, <1>2, <1>6, <2>1, ComesUnmerged
<1>7. CASE Tasks!DownloadProgram(come + 1)
  BY <1>1, <1>7, ComesUnmerged DEF Tasks!DownloadProgram
<1>8. CASE Tasks!CheckBoxSpace(come + 1)
  <2>1. UNCHANGED <<served, m_magicSpecialTask, inFlight, m_RequestMap>>
    BY <1>8 DEF Tasks!CheckBoxSpace
  <2>2. PICK fits : Tasks!Says(come + 1, IF Tasks!asks[come + 1].code THEN <<Tasks!Plain(fits)>>
                                         ELSE <<Tasks!Plain(FALSE), Tasks!Plain(fits)>>)
    BY <1>8 DEF Tasks!CheckBoxSpace
  <2>3. \/ \E a : a.kind # "merged" /\ Tasks!Says(come + 1, <<a>>)
        \/ \E a, b : a.kind # "merged" /\ b.kind # "merged" /\ Tasks!Says(come + 1, <<a, b>>)
    BY <1>2, <2>2
  <2> QED
    BY <1>1, <2>1, <2>3, ComesUnmerged
<1>9. CASE Tasks!ClearBoxSpace(come + 1)
  BY <1>1, <1>2, <1>9, ComesUnmerged DEF Tasks!ClearBoxSpace
<1>10. CASE Tasks!SetCommuTimeout(come + 1)
  <2>1. UNCHANGED <<served, m_magicSpecialTask, inFlight, m_RequestMap>>
    BY <1>10 DEF Tasks!SetCommuTimeout
  <2>2. said' = said \/ \E a : a.kind # "merged" /\ Tasks!Says(come + 1, <<a>>)
    BY <1>2, <1>10 DEF Tasks!SetCommuTimeout
  <2> QED
    BY <1>1, <2>1, <2>2, ComesUnmerged
<1>11. CASE Tasks!SendCommandInner(come + 1)
  <2>1. CASE Tasks!asks[come + 1].api = "GetEndEffectorStatus"
    BY <1>1, <1>11, <2>1, TripleMerged DEF Tasks!SendCommandInner
  <2>2. CASE Tasks!asks[come + 1].api # "GetEndEffectorStatus"
    <3>1. Tasks!SendOne(come + 1) /\ UNCHANGED <<served, m_magicSpecialTask>> /\ ~Tripled(Tasks!asks, come + 1)
      BY <1>11, <2>2 DEF Tasks!SendCommandInner, Tripled
    <3>2. said' = said \/ \E a : a.kind # "merged" /\ Tasks!Says(come + 1, <<a>>)
      BY <1>2, <3>1 DEF Tasks!SendOne
    <3>3. \A c \in inFlight' : c \in inFlight \/ c.id = come + 1
      BY <3>1 DEF Tasks!SendOne
    <3>4. \A x \in DOMAIN m_RequestMap' : x # come + 1 => x \in DOMAIN m_RequestMap /\ m_RequestMap'[x] = m_RequestMap[x]
      BY <3>1 DEF Tasks!SendOne, Tasks!With
    <3> QED
      BY <1>1, <3>1, <3>2, <3>3, <3>4, ComesUnmerged
  <2> QED
    BY <2>1, <2>2
<1> QED
  BY <1>3, <1>4, <1>5, <1>6, <1>7, <1>8, <1>9, <1>10, <1>11 DEF Tasks!HandleMagicDeviceCommand

\* A step that says nothing, or ends a search or a download.
LEMMA ErrandUnmerged ==
    ASSUME TasksInv, MergedInv, session' = session, come' = come,
           UNCHANGED <<served, m_magicSpecialTask>>, inFlight' \subseteq inFlight,
           \A x \in DOMAIN m_RequestMap' : x \in DOMAIN m_RequestMap /\ m_RequestMap'[x] = m_RequestMap[x],
           said' = said \/ \E id \in 1..come : \E a : a.kind # "merged" /\ Tasks!Says(id, <<a>>)
    PROVE  MergedInv'
<1>1. come \in Nat /\ come <= Len(Tasks!asks) /\ Len(Tasks!asks) \in Nat
  BY TasksAssumption DEF TasksInv, Tasks!asks
<1>2. \A id \in 1..come : id \in Tasks!Asks
  <2>1. \A id \in 1..come : id \in 1..Len(Tasks!asks)
    BY <1>1
  <2> QED
    BY <2>1, AskKnown
<1>3. \A x \in Tasks!Asks : said'[x] = said[x] \/ \E as : IsSeq(as) /\ Unmerged(as) /\ said'[x] = said[x] \o as
  BY <1>2, SaysOneUnmerged
<1> QED
  BY <1>1, <1>3, MergedQuiet

\* Every step keeps merged answers whole.
LEMMA MergedInvStep == TasksInv /\ MergedInv /\ [Tasks!TasksNext]_taskVars => MergedInv'
<1> SUFFICES ASSUME TasksInv, MergedInv, [Tasks!TasksNext]_taskVars PROVE MergedInv'
  OBVIOUS
<1>1. TasksInv'
  BY TasksInvStep
<1> USE DEF Tasks!linkVars, Tasks!searchVars, Tasks!boxVars
<1>2. CASE Tasks!HandleMagicDeviceCommand
  BY <1>1, <1>2, HandleMerged
<1>3. CASE \E c \in inFlight : Tasks!LinkReplies(c) \/ Tasks!LinkFails(c)
  BY <1>1, <1>3, LinkRepliesMerged, LinkFailsMerged
<1>4. CASE Tasks!SearchTimeout
  <2>1. searcher \in 1..come
    BY <1>4 DEF Tasks!SearchTimeout, TasksInv, SearchInv
  <2>2. \E a : a.kind # "merged" /\ Tasks!Says(searcher, <<a>>)
    <3>1. \A doc : Tasks!Found(doc).kind # "merged"
      BY DEF Tasks!Found
    <3> QED
      BY <1>4, <3>1 DEF Tasks!SearchTimeout
  <2>3. session' = session /\ come' = come /\ UNCHANGED <<served, m_magicSpecialTask, inFlight, m_RequestMap>>
    BY <1>4 DEF Tasks!SearchTimeout
  <2> QED
    BY <2>1, <2>2, <2>3, ErrandUnmerged
<1>5. CASE \E t \in downloads : Tasks!searchDeviceDrive(t) \/ Tasks!OpenFile(t) \/ Tasks!WriteCode(t)
  BY <1>5, ErrandUnmerged DEF Tasks!searchDeviceDrive, Tasks!OpenFile, Tasks!WriteCode, Tasks!threadFrame
<1>6. CASE \E t \in downloads : Tasks!DownloadFinished(t)
  <2>1. PICK t \in downloads : Tasks!DownloadFinished(t)
    BY <1>6
  <2>2. t.id \in 1..come
    BY <2>1 DEF TasksInv, ThreadInv
  <2>3. \E a : a.kind # "merged" /\ Tasks!Says(t.id, <<a>>)
    BY <2>1 DEF Tasks!DownloadFinished, Tasks!Plain
  <2>4. session' = session /\ come' = come /\ UNCHANGED <<served, m_magicSpecialTask, inFlight, m_RequestMap>>
    BY <2>1 DEF Tasks!DownloadFinished
  <2> QED
    BY <2>2, <2>3, <2>4, ErrandUnmerged
<1>7. CASE \E a \in Addresses : Tasks!Datagram(a)
  BY <1>7, ErrandUnmerged DEF Tasks!Datagram
<1>8. CASE Tasks!BoxGoes
  BY <1>8, ErrandUnmerged DEF Tasks!BoxGoes
<1>9. CASE Tasks!CloseAllDevice
  BY <1>9, ErrandUnmerged DEF Tasks!CloseAllDevice, Tasks!Disconnects, Tasks!Without
<1>10. CASE UNCHANGED taskVars
  BY <1>10, ErrandUnmerged DEF taskVars
<1> QED
  BY <1>2, <1>3, <1>4, <1>5, <1>6, <1>7, <1>8, <1>9, <1>10 DEF Tasks!TasksNext, Tasks!TasksProgress

\* At the start nothing has been asked.
LEMMA MergedInvStart == Tasks!TasksInit => MergedInv
<1> SUFFICES ASSUME Tasks!TasksInit PROVE MergedInv
  OBVIOUS
<1>1. said = [x \in Tasks!Asks |-> <<>>] /\ served = [x \in Tasks!Asks |-> {}] /\ inFlight = {}
  BY DEF Tasks!TasksInit
<1> QED
  BY <1>1 DEF MergedInv, WholeDocs, Unmerged

\* What it says of the answers.
LEMMA MergedAnswers == TasksInv /\ MergedInv => Tasks!MergedWhole
<1> SUFFICES ASSUME TasksInv, MergedInv, NEW x \in Tasks!Asks, NEW n \in DOMAIN said[x], said[x][n].kind = "merged"
             PROVE  /\ {c \in DOMAIN said[x][n].doc : said[x][n].doc[c]} = served[x]
                    /\ \/ "" \in DOMAIN said[x][n].doc
                       \/ DOMAIN said[x][n].doc = {Tasks!Effectors[k] : k \in 1..3}
  BY DEF Tasks!MergedWhole
<1>1. n \in 1..Len(said[x])
  BY DEF TasksInv, IsSeq
<1>2. Whole(said[x][n].doc, served[x])
  BY <1>1 DEF MergedInv, WholeDocs
<1>3. EffectorCalls = {Tasks!Effectors[k] : k \in 1..3}
  BY DEF EffectorCalls, Tasks!Effectors
<1> QED
  BY <1>2, <1>3 DEF Whole, Reported

-----------------------------------------------------------------------------
\* The plugins that run a tool.  Request x has earned a success, when the runs E have ended
\* and the requests O came while their tool was busy: its own run has, or it came on top of
\* an earlier one and that has.
Programs == {"StartFirmware", "ArduinoProgram", "MicrobitProgram"}
Before(j, x) == j < x /\ Burners!Tool(j) = Burners!Tool(x)
Earned(x, E, O) == x \in E \/ (x \in O /\ \E j \in E : Before(j, x))
Backed(x, a, E, O) == a.ok /\ Burners!orders[x].api \in Programs => Earned(x, E, O)

\* The answers T to the first n requests.
ToldInv(T, n, E, O) ==
    /\ T = [x \in Burners!Orderings |-> T[x]]
    /\ \A x \in Burners!Orderings :
           /\ IsSeq(T[x])
           /\ x > n => T[x] = <<>>
           /\ \A k \in 1..Len(T[x]) : Backed(x, T[x][k], E, O)

\* The request S[t] that tool t is to answer is one for that tool; the run that has not
\* ended is that request's, or an earlier one's, on top of which it came.
StartIdInv(S, n) ==
    /\ S = [t \in Burners!Tools |-> S[t]]
    /\ \A t \in Burners!Tools : S[t] \in 0..n /\ (S[t] # 0 => Burners!Tool(S[t]) = t)
Going == {"running", "killed", "restarting"}
Answers(x, j, O) == x = j \/ (x \in O /\ j < x)
OwnerInv(R, S, n, O) ==
    /\ R = [j \in Burners!Orderings |-> R[j]]
    /\ \A j \in Burners!Orderings :
           R[j] \in Going => j <= n /\ Burners!Tool(j) \in Burners!Tools /\ Answers(S[Burners!Tool(j)], j, O)

\* The whole invariant; only the ArduinoPlugin compiles before it burns.
ToolsInv ==
    /\ order \in Orders /\ placed \in Nat /\ placed <= Len(Burners!orders)
    /\ ToldInv(told, placed, exited, overlapped)
    /\ StartIdInv(start_id, placed)
    /\ OwnerInv(runs, start_id, placed, overlapped)
    /\ unfinished # "" => order.plugin = "Arduino"

\* A success stays earned.
LEMMA EarnedMore ==
    ASSUME NEW x, NEW E, NEW O, NEW F, NEW P, E \subseteq F, O \subseteq P
    PROVE  /\ Earned(x, E, O) => Earned(x, F, P)
           /\ \A a : Backed(x, a, E, O) => Backed(x, a, F, P)
<1>1. Earned(x, E, O) => Earned(x, F, P)
  BY DEF Earned
<1> QED  BY <1>1 DEF Backed

\* A request that has come is one of them.
LEMMA OrdersAreNumbers ==
    ASSUME order \in Orders, NEW n \in Nat, n <= Len(Burners!orders)
    PROVE  1..n \subseteq Burners!Orderings
<1>1. Len(Burners!orders) \in 0..MaxOrders /\ MaxOrders \in Nat
  BY ToolsAssumption DEF Burners!orders
<1> QED  BY <1>1 DEF Burners!Orderings

\* The tools have different names, each its own entry in the tables.
LEMMA ToolNames ==
    /\ "avrdude" \in Burners!Tools /\ "uflash" \in Burners!Tools
    /\ \A b \in DOMAIN Burners!ToolOf : Burners!ToolOf[b] \in Burners!Tools
BY DEF Burners!Tools, Burners!Range

\* It holds at the start.
LEMMA ToolsInvStart == Burners!ToolsInit => ToolsInv
<1> SUFFICES ASSUME Burners!ToolsInit
             PROVE  ToolsInv
  OBVIOUS
<1>0. /\ order \in Orders /\ placed = 0
      /\ told = [x \in Burners!Orderings |-> <<>>] /\ start_id = [t \in Burners!Tools |-> 0]
  BY DEF Burners!ToolsInit
<1>1. order \in Orders /\ placed \in Nat /\ placed <= Len(Burners!orders)
  <2>1. Len(Burners!orders) \in 0..MaxOrders /\ MaxOrders \in Nat
    BY <1>0, ToolsAssumption DEF Burners!orders
  <2> QED  BY <1>0, <2>1
<1>2. ToldInv(told, placed, exited, overlapped)
  <2>1. IsSeq(<<>>) /\ \A k \in 1..Len(<<>>) : FALSE
    BY DEF IsSeq
  <2> QED  BY <1>0, <2>1 DEF ToldInv
<1>3. StartIdInv(start_id, placed)
  BY ONLY <1>0 DEF StartIdInv
<1>4. OwnerInv(runs, start_id, placed, overlapped)
  BY DEF Burners!ToolsInit, OwnerInv, Going
<1> QED  BY <1>1, <1>2, <1>3, <1>4 DEF ToolsInv, Burners!ToolsInit

\* Answers that are backed are added, and more runs have ended and more requests come.
LEMMA ToldMore ==
    ASSUME NEW T, NEW n \in Nat, NEW E, NEW O, ToldInv(T, n, E, O),
           NEW m \in Nat, n <= m, NEW F, NEW P, E \subseteq F, O \subseteq P,
           NEW x \in 1..m, NEW as, IsSeq(as), \A k \in 1..Len(as) : Backed(x, as[k], F, P)
    PROVE  ToldInv([T EXCEPT ![x] = @ \o as], m, F, P)
<1> DEFINE U == [T EXCEPT ![x] = @ \o as]
<1>1. U = [y \in Burners!Orderings |-> U[y]]
  BY DEF ToldInv
<1>2. ASSUME NEW y \in Burners!Orderings
      PROVE  IsSeq(U[y]) /\ (y > m => U[y] = <<>>) /\ \A k \in 1..Len(U[y]) : Backed(y, U[y][k], F, P)
  <2>1. /\ IsSeq(T[y]) /\ (y > n => T[y] = <<>>)
        /\ \A k \in 1..Len(T[y]) : Backed(y, T[y][k], F, P)
    <3>1. IsSeq(T[y]) /\ (y > n => T[y] = <<>>) /\ \A k \in 1..Len(T[y]) : Backed(y, T[y][k], E, O)
      BY <1>2 DEF ToldInv
    <3> QED  BY <3>1, EarnedMore
  <2>2. CASE y # x
    <3>1. U[y] = T[y]
      BY <2>2 DEF ToldInv
    <3>2. y > m => y > n
      BY DEF Burners!Orderings
    <3> QED  BY <2>1, <3>1, <3>2
  <2>3. CASE y = x
    <3>1. U[y] = T[y] \o as
      BY <2>3 DEF ToldInv
    <3>2. PICK s : s = T[y]
      OBVIOUS
    <3>3. /\ IsSeq(s \o as)
          /\ \A k \in 1..Len(s) : (s \o as)[k] = s[k]
          /\ \A k \in 1..Len(s \o as) : k \notin 1..Len(s) => k - Len(s) \in 1..Len(as) /\ (s \o as)[k] = as[k - Len(s)]
      <4>1. IsSeq(s)
        BY <2>1, <3>2
      <4> QED  BY <4>1, LenJoin
    <3>4. ASSUME NEW k \in 1..Len(s \o as)
          PROVE  Backed(y, (s \o as)[k], F, P)
      <4>1. CASE k \in 1..Len(s)
        BY <2>1, <3>2, <3>3, <4>1
      <4>2. CASE k \notin 1..Len(s)
        <5>1. k - Len(s) \in 1..Len(as) /\ (s \o as)[k] = as[k - Len(s)]
          BY <3>3, <4>2
        <5>2. Backed(x, as[k - Len(s)], F, P)
          BY <5>1
        <5> QED  BY <2>3, <5>1, <5>2
      <4> QED  BY <4>1, <4>2
    <3> HIDE DEF U
    <3>5. U[y] = s \o as
      BY <3>1, <3>2
    <3>6. ~(y > m)
      BY ONLY <2>3, m \in Nat, x \in 1..m
    <3> QED  BY <3>3, <3>4, <3>5, <3>6
  <2> QED  BY <2>2, <2>3
<1> QED  BY <1>1, <1>2 DEF ToldInv

\* The same, for the one that a tool is to answer, if there is one.
LEMMA ToldOwner ==
    ASSUME NEW n \in Nat, ToldInv(told, n, exited, overlapped),
           NEW m \in Nat, n <= m, NEW F, NEW P, exited \subseteq F, overlapped \subseteq P,
           NEW x \in 0..m, NEW as, IsSeq(as), x # 0 => \A k \in 1..Len(as) : Backed(x, as[k], F, P)
    PROVE  ToldInv(Burners!Told(x, as), m, F, P)
<1>1. CASE x = 0
  <2>1. Burners!Told(x, as) = told
    BY <1>1 DEF Burners!Told
  <2>2. \A y \in Burners!Orderings : y > m => y > n
    BY DEF Burners!Orderings
  <2>3. \A y \in Burners!Orderings : \A k \in 1..Len(told[y]) : Backed(y, told[y][k], F, P)
    BY EarnedMore DEF ToldInv
  <2> QED  BY <2>1, <2>2, <2>3 DEF ToldInv
<1>2. CASE x # 0
  <2>1. x \in 1..m /\ Burners!Told(x, as) = [told EXCEPT ![x] = @ \o as]
    BY <1>2 DEF Burners!Told
  <2>2. \A k \in 1..Len(as) : Backed(x, as[k], F, P)
    BY <1>2
  <2>3. ToldInv([told EXCEPT ![x] = @ \o as], m, F, P)
    BY <2>1, <2>2, ToldMore
  <2> QED  BY <2>1, <2>3
<1> QED  BY <1>1, <1>2

\* Answers that say no are backed, and so is a yes to a request that has earned it.
LEMMA BackedOnes ==
    ASSUME NEW x, NEW E, NEW O
    PROVE  /\ Backed(x, Burners!No, E, O)
           /\ Burners!orders[x].api \notin Programs \/ Earned(x, E, O) => \A a : Backed(x, a, E, O)
<1>1. ~Burners!No.ok
  BY DEF Burners!No, Burners!Yes, Burners!Version
<1> QED  BY <1>1 DEF Backed

\* Answers that all say no.
NoOnly(as) == IsSeq(as) /\ \A k \in 1..Len(as) : as[k] = Burners!No

\* The answers that are given together: refusals, none to three of them, or one answer.
LEMMA FewAnswers ==
    /\ \A a : IsSeq(<<a>>) /\ \A k \in 1..Len(<<a>>) : <<a>>[k] = a
    /\ NoOnly(<<>>) /\ NoOnly(<<Burners!No>>) /\ NoOnly(<<Burners!No, Burners!No>>)
    /\ NoOnly(<<Burners!No, Burners!No, Burners!No>>)
<1>1. PICK n : n = Burners!No
  OBVIOUS
<1>2. \A a : IsSeq(<<a>>) /\ \A k \in 1..Len(<<a>>) : <<a>>[k] = a
  BY DEF IsSeq
<1>3. IsSeq(<<>>) /\ \A k \in 1..Len(<<>>) : <<>>[k] = n
  BY DEF IsSeq
<1>4. IsSeq(<<n, n>>) /\ \A k \in 1..Len(<<n, n>>) : <<n, n>>[k] = n
  BY DEF IsSeq
<1>5. IsSeq(<<n, n, n>>) /\ \A k \in 1..Len(<<n, n, n>>) : <<n, n, n>>[k] = n
  BY DEF IsSeq
<1> QED  BY ONLY <1>1, <1>2, <1>3, <1>4, <1>5 DEF NoOnly

LEMMA NoJoin ==
    ASSUME NEW as, NEW bs, NoOnly(as), NoOnly(bs)
    PROVE  NoOnly(as \o bs)
<1>1. IsSeq(as) /\ IsSeq(bs)
  BY DEF NoOnly
<1>2. /\ IsSeq(as \o bs)
      /\ \A k \in 1..Len(as) : (as \o bs)[k] = as[k]
      /\ \A k \in 1..Len(as \o bs) : k \notin 1..Len(as) => k - Len(as) \in 1..Len(bs) /\ (as \o bs)[k] = bs[k - Len(as)]
  BY <1>1, LenJoin
<1>3. PICK cs : cs = as \o bs
  OBVIOUS
<1>4. ASSUME NEW k \in 1..Len(cs)
      PROVE  cs[k] = Burners!No
  <2>1. CASE k \in 1..Len(as)
    BY <1>2, <1>3, <2>1 DEF NoOnly
  <2>2. CASE k \notin 1..Len(as)
    BY <1>2, <1>3, <2>2 DEF NoOnly
  <2> QED  BY <2>1, <2>2
<1> QED  BY <1>2, <1>3, <1>4 DEF NoOnly

\* Refusals to whomever, with requests and ends that only become more.
LEMMA ToldNo ==
    ASSUME ToolsInv, NEW m \in Nat, placed <= m, NEW F, NEW P, exited \subseteq F, overlapped \subseteq P,
           NEW x \in 0..m, NEW as, NoOnly(as)
    PROVE  ToldInv(Burners!Told(x, as), m, F, P)
<1>1. IsSeq(as) /\ \A k \in 1..Len(as) : Backed(x, as[k], F, P)
  BY BackedOnes DEF NoOnly
<1>2. placed \in Nat /\ ToldInv(told, placed, exited, overlapped)
  BY DEF ToolsInv
<1> QED  BY <1>1, <1>2, ToldOwner

\* A yes to request x.
LEMMA ToldYes ==
    ASSUME ToolsInv, NEW m \in Nat, placed <= m, NEW F, NEW P, exited \subseteq F, overlapped \subseteq P,
           NEW x \in 0..m,
           x # 0 => Burners!orders[x].api \notin Programs \/ Earned(x, F, P)
    PROVE  ToldInv(Burners!Told(x, <<Burners!Yes>>), m, F, P)
<1> DEFINE as == <<Burners!Yes>>
<1>1. IsSeq(as) /\ \A k \in 1..Len(as) : as[k] = Burners!Yes
  BY FewAnswers
<1> HIDE DEF as
<1>2. x # 0 => Backed(x, Burners!Yes, F, P)
  BY BackedOnes
<1>3. placed \in Nat /\ ToldInv(told, placed, exited, overlapped)
  BY DEF ToolsInv
<1>4. ToldInv(Burners!Told(x, as), m, F, P)
  BY <1>1, <1>2, <1>3, ToldOwner
<1> QED  BY <1>4 DEF as

\* Nobody is answered.
LEMMA ToldSame ==
    ASSUME ToolsInv, NEW m \in Nat, placed <= m, NEW F, NEW P, exited \subseteq F, overlapped \subseteq P
    PROVE  ToldInv(told, m, F, P)
<1>1. Burners!Told(0, <<>>) = told
  BY DEF Burners!Told
<1>2. ToldInv(Burners!Told(0, <<>>), m, F, P)
  BY ToldNo, FewAnswers
<1> QED  BY <1>1, <1>2

\* A run that ends or is killed goes on for nobody; one that goes on may be killed.
LEMMA OwnerKept ==
    ASSUME ToolsInv, NEW m \in Nat, placed <= m, NEW R, R = [j \in Burners!Orderings |-> R[j]],
           \A j \in Burners!Orderings : R[j] \in Going => runs[j] \in Going
    PROVE  OwnerInv(R, start_id, m, overlapped)
<1>0. placed \in Nat
  BY DEF ToolsInv
<1>1. \A j \in Burners!Orderings : j <= placed => j <= m
  BY ONLY <1>0, m \in Nat, placed <= m DEF Burners!Orderings
<1>2. OwnerInv(runs, start_id, placed, overlapped)
  BY DEF ToolsInv
<1> QED  BY <1>1, <1>2 DEF OwnerInv

\* Request id comes, and tool t is to answer it from now on.
LEMMA OwnerMoves ==
    ASSUME ToolsInv, NEW id, id = placed + 1, id <= Len(Burners!orders), NEW t \in Burners!Tools,
           NEW R, R = [j \in Burners!Orderings |-> R[j]], NEW P, overlapped \subseteq P,
           Burners!Busy(t) # {} => id \in P, Burners!Tool(id) = t,
           \A j \in Burners!Orderings : R[j] \in Going => runs[j] \in Going \/ j = id
    PROVE  /\ OwnerInv(R, [start_id EXCEPT ![t] = id], id, P)
           /\ StartIdInv([start_id EXCEPT ![t] = id], id)
<1> DEFINE S == [start_id EXCEPT ![t] = id]
<1>1. /\ placed \in Nat /\ StartIdInv(start_id, placed)
      /\ OwnerInv(runs, start_id, placed, overlapped)
  BY DEF ToolsInv
<1>2. S = [u \in Burners!Tools |-> S[u]] /\ S[t] = id /\ \A u \in Burners!Tools : u # t => S[u] = start_id[u]
  BY <1>1 DEF StartIdInv
<1>3. id \in Nat /\ id # 0 /\ placed <= id
  BY <1>1
<1> HIDE DEF S
<1>4. StartIdInv(S, id)
  <2>1. \A u \in Burners!Tools : start_id[u] \in 0..placed /\ (start_id[u] # 0 => Burners!Tool(start_id[u]) = u)
    BY <1>1 DEF StartIdInv
  <2>2. ASSUME NEW u \in Burners!Tools
        PROVE  S[u] \in 0..id /\ (S[u] # 0 => Burners!Tool(S[u]) = u)
    <3>1. CASE u = t
      BY <1>2, <1>3, <3>1
    <3>2. CASE u # t
      BY <1>1, <1>2, <2>1, <3>2
    <3> QED  BY <3>1, <3>2
  <2> QED  BY <1>2, <2>2 DEF StartIdInv
<1>5. ASSUME NEW j \in Burners!Orderings, R[j] \in Going
      PROVE  j <= id /\ Burners!Tool(j) \in Burners!Tools /\ Answers(S[Burners!Tool(j)], j, P)
  <2>1. CASE j = id
    BY <1>2, <1>3, <2>1 DEF Answers
  <2>2. CASE runs[j] \in Going
    <3>1. j <= placed /\ Burners!Tool(j) \in Burners!Tools /\ Answers(start_id[Burners!Tool(j)], j, overlapped)
      BY <1>1, <2>2 DEF OwnerInv
    <3>2. j <= id /\ j < id
      BY <1>1, <3>1 DEF Burners!Orderings
    <3>3. CASE Burners!Tool(j) = t
      <4>1. j \in Burners!Busy(t)
        BY <1>1, <2>2, <3>1, <3>3 DEF Burners!Busy, Going, Burners!Orderings
      <4> QED  BY <1>2, <3>1, <3>2, <3>3, <4>1 DEF Answers
    <3>4. CASE Burners!Tool(j) # t
      BY <1>2, <3>1, <3>2, <3>4 DEF Answers
    <3> QED  BY <3>3, <3>4
  <2> QED  BY <1>5, <2>1, <2>2
<1>6. OwnerInv(R, S, id, P)
  BY <1>5 DEF OwnerInv
<1> QED  BY <1>4, <1>6 DEF S

\* It moves nowhere.
LEMMA StartIdKept ==
    ASSUME ToolsInv, NEW m \in Nat, placed <= m
    PROVE  StartIdInv(start_id, m)
<1>1. placed \in Nat /\ StartIdInv(start_id, placed)
  BY DEF ToolsInv
<1>2. \A n : n \in 0..placed => n \in 0..m
  BY <1>1
<1> QED  BY <1>1, <1>2 DEF StartIdInv

\* What a step has to show.
LEMMA ToolsThen ==
    ASSUME ToolsInv, order' = order, placed' \in Nat, placed' <= Len(Burners!orders),
           ToldInv(told', placed', exited', overlapped'),
           StartIdInv(start_id', placed'),
           OwnerInv(runs', start_id', placed', overlapped'),
           unfinished' # "" => order.plugin = "Arduino"
    PROVE  ToolsInv'
<1>1. Burners!orders' = Burners!orders
  BY DEF Burners!orders
<1>2. ToldInv(told, placed, exited, overlapped)'
  BY <1>1 DEF ToldInv, Backed, Earned, Before, Burners!Tool
<1>3. StartIdInv(start_id, placed)'
  BY <1>1 DEF StartIdInv, Burners!Tool
<1>4. OwnerInv(runs, start_id, placed, overlapped)'
  BY <1>1 DEF OwnerInv, Answers, Burners!Tool
<1> QED  BY <1>1, <1>2, <1>3, <1>4 DEF ToolsInv

\* The same when no request comes.
LEMMA MeanwhileTold ==
    ASSUME ToolsInv, NEW x \in 0..placed
    PROVE  /\ \A as : NoOnly(as) => ToldInv(Burners!Told(x, as), placed, exited, overlapped)
           /\ \A j : Burners!Tool(j) = Burners!Tool(x) /\ Answers(x, j, overlapped)
                     => ToldInv(Burners!Told(x, <<Burners!Yes>>), placed, exited \cup {j}, overlapped)
<1>0. placed \in Nat
  BY DEF ToolsInv
<1>1. placed \in Nat /\ placed <= placed
  BY ONLY <1>0
<1>2. ASSUME NEW as, NoOnly(as)
      PROVE  ToldInv(Burners!Told(x, as), placed, exited, overlapped)
  BY <1>1, <1>2, ToldNo
<1>3. ASSUME NEW j, Burners!Tool(j) = Burners!Tool(x), Answers(x, j, overlapped)
      PROVE  ToldInv(Burners!Told(x, <<Burners!Yes>>), placed, exited \cup {j}, overlapped)
  <2>1. PICK F : F = exited \cup {j}
    OBVIOUS
  <2>2. exited \subseteq F /\ Earned(x, F, overlapped)
    BY <1>3, <2>1 DEF Earned, Answers, Before
  <2>3. ToldInv(Burners!Told(x, <<Burners!Yes>>), placed, F, overlapped)
    BY <1>1, <1>3, <2>2, ToldYes
  <2> QED  BY <2>1, <2>3
<1> QED  BY <1>2, <1>3
LEMMA MeanwhileOwned ==
    ASSUME ToolsInv, NEW R, R = [j \in Burners!Orderings |-> R[j]],
           \A j \in Burners!Orderings : R[j] \in Going => runs[j] \in Going
    PROVE  OwnerInv(R, start_id, placed, overlapped)
<1>0. placed \in Nat
  BY DEF ToolsInv
<1>1. placed \in Nat /\ placed <= placed
  BY ONLY <1>0
<1> QED  BY <1>1, OwnerKept

\* Whom a run of a tool answers: a request for that tool.
LEMMA AnsweredOne ==
    ASSUME ToolsInv, NEW j \in Burners!Orderings, runs[j] \in Going
    PROVE  LET x == start_id[Burners!Tool(j)]
           IN x \in 0..placed /\ Answers(x, j, overlapped) /\ Burners!Tool(j) = Burners!Tool(x)
<1>1. PICK t : t = Burners!Tool(j)
  OBVIOUS
<1>2. PICK x : x = start_id[t]
  OBVIOUS
<1>3. placed \in Nat /\ j \in 1..MaxOrders /\ MaxOrders \in Nat
  BY ToolsAssumption DEF ToolsInv, Burners!Orderings
<1>4. t \in Burners!Tools /\ Answers(x, j, overlapped)
  BY <1>1, <1>2 DEF ToolsInv, OwnerInv
<1>5. x \in 0..placed /\ (x # 0 => Burners!Tool(x) = t)
  BY <1>2, <1>4 DEF ToolsInv, StartIdInv
<1>6. x # 0
  BY ONLY <1>3, <1>4, <1>5 DEF Answers
<1> QED  BY <1>1, <1>2, <1>4, <1>5, <1>6

\* A tool ends: whom it answers is the one it ran for, or came while it was busy.
LEMMA ToolEndsStep ==
    ASSUME ToolsInv, NEW j \in Burners!Orderings, Burners!ToolEnds(j)
    PROVE  ToolsInv'
<1> DEFINE t == Burners!Tool(j)
           x == start_id[t]
<1>1. /\ placed \in Nat /\ placed <= Len(Burners!orders) /\ StartIdInv(start_id, placed)
      /\ OwnerInv(runs, start_id, placed, overlapped)
      /\ (unfinished # "" => order.plugin = "Arduino")
  BY DEF ToolsInv
<1>2. /\ order' = order /\ placed' = placed /\ start_id' = start_id /\ overlapped' = overlapped
      /\ unfinished' = unfinished /\ runs' = [runs EXCEPT ![j] = "ended"]
  BY DEF Burners!ToolEnds, Burners!fileVars
<1>3. runs[j] \in Going
  BY DEF Burners!ToolEnds, Going
<1>4. x \in 0..placed /\ Answers(x, j, overlapped) /\ Burners!Tool(j) = Burners!Tool(x)
  BY <1>3, AnsweredOne
<1>5. ToldInv(told', placed', exited', overlapped')
  <2>1. CASE told' = Burners!Told(x, <<Burners!Yes>>) /\ exited' = exited \cup {j}
    <3>1. ToldInv(Burners!Told(x, <<Burners!Yes>>), placed, exited \cup {j}, overlapped)
      BY <1>4, MeanwhileTold
    <3> QED  BY <1>2, <2>1, <3>1
  <2>2. CASE exited' = exited /\ \E as : NoOnly(as) /\ told' = Burners!Told(x, as)
    <3>1. PICK as : NoOnly(as) /\ told' = Burners!Told(x, as)
      BY <2>2
    <3>2. ToldInv(Burners!Told(x, as), placed, exited, overlapped)
      BY <1>4, <3>1, MeanwhileTold
    <3> QED  BY <1>2, <2>2, <3>1, <3>2
  <2> QED  BY <2>1, <2>2, FewAnswers DEF Burners!ToolEnds, Burners!Tell
<1>6. OwnerInv(runs', start_id', placed', overlapped')
  <2>1. /\ runs' = [k \in Burners!Orderings |-> runs'[k]]
        /\ \A k \in Burners!Orderings : runs'[k] \in Going => runs[k] \in Going
    BY <1>1, <1>2 DEF OwnerInv, Going
  <2>2. OwnerInv(runs', start_id, placed, overlapped)
    BY <2>1, MeanwhileOwned
  <2> QED  BY <1>2, <2>2
<1> QED  BY <1>1, <1>2, <1>5, <1>6, ToolsThen

\* The burner ends on Linux, and the board is to be started.
LEMMA BurnerEndsStep ==
    ASSUME ToolsInv, NEW j \in Burners!Orderings, Burners!BurnerEnds(j)
    PROVE  ToolsInv'
<1>1. /\ placed \in Nat /\ placed <= Len(Burners!orders) /\ StartIdInv(start_id, placed)
      /\ OwnerInv(runs, start_id, placed, overlapped) /\ ToldInv(told, placed, exited, overlapped)
      /\ (unfinished # "" => order.plugin = "Arduino")
  BY DEF ToolsInv
<1>2. /\ order' = order /\ placed' = placed /\ start_id' = start_id /\ overlapped' = overlapped
      /\ unfinished' = unfinished /\ told' = told /\ exited' = exited
      /\ runs[j] \in Going /\ runs' = [runs EXCEPT ![j] = "restarting"]
  BY DEF Burners!BurnerEnds, Burners!fileVars, Burners!compilerVars, Going
<1>3. /\ runs' = [k \in Burners!Orderings |-> runs'[k]]
      /\ \A k \in Burners!Orderings : runs'[k] \in Going => runs[k] \in Going
  BY <1>1, <1>2 DEF OwnerInv
<1>4. OwnerInv(runs', start_id, placed, overlapped)
  BY <1>3, MeanwhileOwned
<1> QED  BY <1>1, <1>2, <1>4, ToolsThen

\* The board is started, or not.
LEMMA RestartStep ==
    ASSUME ToolsInv, NEW j \in Burners!Orderings, Burners!restartSTM32FlashForLinux(j)
    PROVE  ToolsInv'
<1> DEFINE t == Burners!Tool(j)
           x == start_id[t]
<1>1. /\ placed \in Nat /\ placed <= Len(Burners!orders) /\ StartIdInv(start_id, placed)
      /\ OwnerInv(runs, start_id, placed, overlapped)
      /\ (unfinished # "" => order.plugin = "Arduino")
  BY DEF ToolsInv
<1>2. /\ order' = order /\ placed' = placed /\ start_id' = start_id /\ overlapped' = overlapped
      /\ unfinished' = unfinished /\ runs' = [runs EXCEPT ![j] = "ended"]
  BY DEF Burners!restartSTM32FlashForLinux, Burners!fileVars, Burners!compilerVars
<1>3. runs[j] \in Going
  BY DEF Burners!restartSTM32FlashForLinux, Going
<1>4. x \in 0..placed /\ Answers(x, j, overlapped) /\ Burners!Tool(j) = Burners!Tool(x)
  BY <1>3, AnsweredOne
<1>5. ToldInv(told', placed', exited', overlapped')
  <2>1. CASE told' = Burners!Told(x, <<Burners!Yes>>) /\ exited' = exited \cup {j}
    <3>1. ToldInv(Burners!Told(x, <<Burners!Yes>>), placed, exited \cup {j}, overlapped)
      BY <1>4, MeanwhileTold
    <3> QED  BY <1>2, <2>1, <3>1
  <2>2. CASE exited' = exited /\ \E as : NoOnly(as) /\ told' = Burners!Told(x, as)
    <3>1. PICK as : NoOnly(as) /\ told' = Burners!Told(x, as)
      BY <2>2
    <3>2. ToldInv(Burners!Told(x, as), placed, exited, overlapped)
      BY <1>4, <3>1, MeanwhileTold
    <3> QED  BY <1>2, <2>2, <3>1, <3>2
  <2> QED  BY <2>1, <2>2, FewAnswers DEF Burners!restartSTM32FlashForLinux, Burners!Tell
<1>6. OwnerInv(runs', start_id', placed', overlapped')
  <2>1. /\ runs' = [k \in Burners!Orderings |-> runs'[k]]
        /\ \A k \in Burners!Orderings : runs'[k] \in Going => runs[k] \in Going
    BY <1>1, <1>2 DEF OwnerInv, Going
  <2>2. OwnerInv(runs', start_id, placed, overlapped)
    BY <2>1, MeanwhileOwned
  <2> QED  BY <1>2, <2>2
<1> QED  BY <1>1, <1>2, <1>5, <1>6, ToolsThen

\* A tool prints.
LEMMA ReadyReadStep ==
    ASSUME ToolsInv, NEW j \in Burners!Orderings, Burners!ReadyRead(j)
    PROVE  ToolsInv'
<1> DEFINE t == Burners!Tool(j)
           x == start_id[t]
<1>1. /\ placed \in Nat /\ placed <= Len(Burners!orders) /\ StartIdInv(start_id, placed)
      /\ OwnerInv(runs, start_id, placed, overlapped)
      /\ (unfinished # "" => order.plugin = "Arduino")
  BY DEF ToolsInv
<1>2. /\ order' = order /\ placed' = placed /\ start_id' = start_id /\ overlapped' = overlapped
      /\ unfinished' = unfinished /\ runs' = runs
  BY DEF Burners!ReadyRead, Burners!fileVars, Burners!compilerVars
<1>3. runs[j] \in Going
  BY DEF Burners!ReadyRead, Going
<1>4. x \in 0..placed /\ Answers(x, j, overlapped) /\ Burners!Tool(j) = Burners!Tool(x)
  BY <1>3, AnsweredOne
<1>5. ToldInv(told', placed', exited', overlapped')
  <2>1. CASE told' = Burners!Told(x, <<Burners!Yes>>) /\ exited' = exited \cup {j}
    <3>1. ToldInv(Burners!Told(x, <<Burners!Yes>>), placed, exited \cup {j}, overlapped)
      BY <1>4, MeanwhileTold
    <3> QED  BY <1>2, <2>1, <3>1
  <2>2. CASE told' = Burners!Told(x, <<Burners!No>>) /\ exited' = exited
    <3>1. ToldInv(Burners!Told(x, <<Burners!No>>), placed, exited, overlapped)
      BY <1>4, MeanwhileTold, FewAnswers
    <3> QED  BY <1>2, <2>2, <3>1
  <2>3. CASE told' = told /\ exited' = exited
    BY <1>1, <1>2, <2>3 DEF ToolsInv
  <2> QED  BY <2>1, <2>2, <2>3 DEF Burners!ReadyRead, Burners!Tell
<1> QED  BY <1>1, <1>2, <1>5, ToolsThen

\* DobotLink ends.
LEMMA ToolsExitStep ==
    ASSUME ToolsInv, Burners!ToolsExit
    PROVE  ToolsInv'
<1>1. /\ placed \in Nat /\ placed <= Len(Burners!orders) /\ StartIdInv(start_id, placed)
      /\ OwnerInv(runs, start_id, placed, overlapped) /\ ToldInv(told, placed, exited, overlapped)
      /\ (unfinished # "" => order.plugin = "Arduino")
  BY DEF ToolsInv
<1>2. /\ order' = order /\ placed' = placed /\ start_id' = start_id /\ overlapped' = overlapped
      /\ unfinished' = unfinished /\ told' = told /\ exited' = exited
  BY DEF Burners!ToolsExit, Burners!fileVars, Burners!compilerVars
<1>3. /\ runs' = [k \in Burners!Orderings |-> runs'[k]]
      /\ \A k \in Burners!Orderings : runs'[k] \in Going => runs[k] \in Going
  BY DEF Burners!ToolsExit, Going
<1>4. OwnerInv(runs', start_id, placed, overlapped)
  BY <1>3, MeanwhileOwned
<1> QED  BY <1>1, <1>2, <1>4, ToolsThen

\* The compiler that was given up ends, and the upload starts that the request before asked
\* for.
LEMMA CompilerEndsStep ==
    ASSUME ToolsInv, Burners!CompilerEnds
    PROVE  ToolsInv'
<1> DEFINE x == start_id["avrdude"]
<1>1. /\ placed \in Nat /\ placed <= Len(Burners!orders) /\ StartIdInv(start_id, placed)
      /\ OwnerInv(runs, start_id, placed, overlapped)
      /\ order.plugin = "Arduino"
  BY DEF ToolsInv, Burners!CompilerEnds
<1>2. /\ order' = order /\ placed' = placed /\ start_id' = start_id /\ overlapped' = overlapped
      /\ unfinished' = "" /\ exited' = exited
  BY DEF Burners!CompilerEnds, Burners!fileVars
<1>3. x \in 0..placed
  BY <1>1, ToolNames DEF StartIdInv
<1>4. \/ told' = told /\ runs' = runs
      \/ (\E as : NoOnly(as) /\ told' = Burners!Told(x, as)) /\ runs' = runs
      \/ (\E as : NoOnly(as) /\ told' = Burners!Told(x, as)) /\ runs' = [runs EXCEPT ![x] = "running"]
  <2>1. NoOnly(<<>>) /\ NoOnly(<<Burners!No, Burners!No>>) /\ NoOnly(<<>> \o <<Burners!No>>)
    BY FewAnswers, NoJoin
  <2> QED  BY <2>1 DEF Burners!CompilerEnds, Burners!startUpload, Burners!Tell
<1>5. ToldInv(told', placed', exited', overlapped')
  <2>1. CASE told' = told
    BY <1>2, <2>1 DEF ToolsInv
  <2>2. ASSUME NEW as, NoOnly(as), told' = Burners!Told(x, as)
        PROVE  ToldInv(told', placed', exited', overlapped')
    <3>1. ToldInv(Burners!Told(x, as), placed, exited, overlapped)
      BY <1>3, <2>2, MeanwhileTold
    <3> QED  BY <1>2, <2>2, <3>1
  <2> QED  BY <1>4, <2>1, <2>2
<1>6. OwnerInv(runs', start_id', placed', overlapped')
  <2>1. CASE runs' = runs
    BY <1>1, <1>2, <2>1
  <2>2. CASE runs' = [runs EXCEPT ![x] = "running"]
    <3>1. /\ runs' = [k \in Burners!Orderings |-> runs'[k]]
          /\ \A k \in Burners!Orderings : k # x => runs'[k] = runs[k]
      BY <1>1, <2>2 DEF OwnerInv
    <3>2. ASSUME NEW k \in Burners!Orderings, runs'[k] \in Going
          PROVE  k <= placed /\ Burners!Tool(k) \in Burners!Tools /\ Answers(start_id[Burners!Tool(k)], k, overlapped)
      <4>1. CASE k = x
        <5>1. Burners!Tool(k) = "avrdude"
          BY <1>1 DEF Burners!Tool
        <5> QED  BY <1>1, <1>3, <4>1, <5>1, ToolNames DEF Answers
      <4>2. CASE k # x
        BY <1>1, <3>1, <3>2, <4>2 DEF OwnerInv
      <4> QED  BY <4>1, <4>2
    <3> QED  BY <1>2, <3>1, <3>2 DEF OwnerInv
  <2> QED  BY <1>4, <2>1, <2>2
<1> QED  BY <1>1, <1>2, <1>5, <1>6, ToolsThen

-----------------------------------------------------------------------------
\* The number of the next request.
LEMMA NextOrder ==
    ASSUME ToolsInv, placed < Len(Burners!orders)
    PROVE  /\ placed + 1 \in Nat /\ placed <= placed + 1 /\ placed + 1 \in 0..placed + 1
           /\ placed + 1 <= Len(Burners!orders) /\ placed + 1 \in Burners!Orderings
<1>1. order \in Orders /\ placed \in Nat
  BY DEF ToolsInv
<1>2. PICK cs : cs = Burners!orders
  OBVIOUS
<1>3. MaxOrders \in Nat /\ Len(cs) \in 0..MaxOrders
  BY <1>1, <1>2, ToolsAssumption DEF Burners!orders
<1>4. PICK n : n = placed + 1
  OBVIOUS
<1>5. n \in Nat /\ placed <= n /\ n \in 0..n /\ n <= Len(cs) /\ n \in 1..Len(cs) /\ n \in 1..MaxOrders
  <2>1. placed < Len(cs)
    BY <1>2
  <2> QED  BY ONLY <1>1, <1>3, <1>4, <2>1
<1> QED  BY <1>2, <1>4, <1>5 DEF Burners!Orderings

\* A request comes that no tool is run for, and is answered with as.
LEMMA OnlyTold ==
    ASSUME ToolsInv, placed < Len(Burners!orders), placed' = placed + 1, order' = order,
           NEW as, IsSeq(as), \A k \in 1..Len(as) : Backed(placed + 1, as[k], exited, overlapped),
           told' = Burners!Told(placed + 1, as) \/ told' = told,
           OwnerInv(runs', start_id, placed + 1, overlapped),
           UNCHANGED <<start_id, exited, overlapped, unfinished>>
    PROVE  ToolsInv'
<1> DEFINE id == placed + 1
<1>1. /\ placed \in Nat /\ ToldInv(told, placed, exited, overlapped)
      /\ (unfinished # "" => order.plugin = "Arduino")
  BY DEF ToolsInv
<1>2. id \in Nat /\ placed <= id /\ id \in 0..id /\ id <= Len(Burners!orders)
  BY NextOrder
<1> HIDE DEF id
<1>3. \A k \in 1..Len(as) : Backed(id, as[k], exited, overlapped)
  BY DEF id
<1>4. ToldInv(Burners!Told(id, as), id, exited, overlapped)
  BY <1>1, <1>2, <1>3, ToldOwner
<1>5. ToldInv(told, id, exited, overlapped) /\ StartIdInv(start_id, id)
  BY <1>2, ToldSame, StartIdKept
<1>6. ToldInv(told', placed', exited', overlapped')
  BY <1>4, <1>5 DEF id
<1>7. StartIdInv(start_id', placed') /\ OwnerInv(runs', start_id', placed', overlapped')
  BY <1>1, <1>5 DEF id
<1> QED  BY <1>1, <1>2, <1>6, <1>7, ToolsThen DEF id

\* A new request does not make a run that of another.
LEMMA OwnerAsWas ==
    ASSUME ToolsInv, NEW R, R = [j \in Burners!Orderings |-> R[j]],
           \A j \in Burners!Orderings : R[j] \in Going => runs[j] \in Going
    PROVE  OwnerInv(R, start_id, placed + 1, overlapped)
<1>1. placed \in Nat
  BY DEF ToolsInv
<1>2. placed + 1 \in Nat /\ placed <= placed + 1
  BY ONLY <1>1
<1> QED  BY <1>2, OwnerKept

\* It is refused.
LEMMA RefusedStep ==
    ASSUME ToolsInv, placed < Len(Burners!orders), placed' = placed + 1, order' = order, NEW as, NoOnly(as),
           told' = Burners!Told(placed + 1, as),
           UNCHANGED <<runs, start_id, exited, overlapped, unfinished>>
    PROVE  ToolsInv'
<1>1. IsSeq(as) /\ \A k \in 1..Len(as) : Backed(placed + 1, as[k], exited, overlapped)
  BY BackedOnes DEF NoOnly
<1>2. runs = [j \in Burners!Orderings |-> runs[j]]
  BY DEF ToolsInv, OwnerInv
<1>3. OwnerInv(runs', start_id, placed + 1, overlapped)
  BY <1>2, OwnerAsWas
<1> QED  BY <1>1, <1>3, OnlyTold

\* Request id is what tool t is to answer from now on, and may be what it runs for.
LEMMA TakenStep ==
    ASSUME ToolsInv, placed < Len(Burners!orders), placed' = placed + 1, order' = order,
           NEW t \in Burners!Tools, start_id' = [start_id EXCEPT ![t] = placed + 1],
           overlapped \subseteq overlapped', Burners!Busy(t) # {} => placed + 1 \in overlapped',
           exited \subseteq exited',
           runs' = [j \in Burners!Orderings |-> runs'[j]],
           Burners!Tool(placed + 1) = t,
           \A j \in Burners!Orderings : runs'[j] \in Going => runs[j] \in Going \/ j = placed + 1,
           \/ told' = told
           \/ \E as : NoOnly(as) /\ told' = Burners!Told(placed + 1, as)
           \/ Earned(placed + 1, exited', overlapped') /\ told' = Burners!Told(placed + 1, <<Burners!Yes>>),
           unfinished' # "" => order.plugin = "Arduino"
    PROVE  ToolsInv'
<1> DEFINE id == placed + 1
<1>1. placed \in Nat
  BY DEF ToolsInv
<1>2. id \in Nat /\ placed <= id /\ id \in 0..id /\ id <= Len(Burners!orders)
  BY NextOrder
<1>3. OwnerInv(runs', [start_id EXCEPT ![t] = id], id, overlapped') /\ StartIdInv([start_id EXCEPT ![t] = id], id)
  BY <1>2, OwnerMoves
<1>4. ToldInv(told', id, exited', overlapped')
  <2> HIDE DEF id
  <2>1. CASE told' = told
    BY <1>2, <2>1, ToldSame
  <2>2. ASSUME NEW as, NoOnly(as), told' = Burners!Told(id, as)
        PROVE  ToldInv(told', id, exited', overlapped')
    BY <1>2, <2>2, ToldNo
  <2>3. CASE Earned(id, exited', overlapped') /\ told' = Burners!Told(id, <<Burners!Yes>>)
    BY <1>2, <2>3, ToldYes
  <2> QED  BY <2>1, <2>2, <2>3 DEF id
<1> QED  BY <1>2, <1>3, <1>4, ToolsThen

\* StartFirmware.
LEMMA StartDownloadStep ==
    ASSUME ToolsInv, placed < Len(Burners!orders), placed' = placed + 1, order' = order,
           order.plugin = "Download", Burners!orders[placed + 1].api = "StartFirmware",
           Burners!orders[placed + 1].device \in DOMAIN Burners!ToolOf,
           Burners!startDownload(placed + 1), exited' = exited
    PROVE  ToolsInv'
<1> DEFINE id == placed + 1
           t == Burners!Tool(id)
<1>1. t \in Burners!Tools
  BY ToolNames DEF Burners!Tool
<1>2. Burners!Tool(id) = t
  OBVIOUS
<1>3. /\ start_id' = [start_id EXCEPT ![t] = id]
      /\ overlapped' = IF Burners!Busy(t) # {} THEN overlapped \cup {id} ELSE overlapped
      /\ unfinished' = unfinished
  BY DEF Burners!startDownload, Burners!compilerVars
<1>4. \/ runs' = runs
      \/ runs' = [runs EXCEPT ![id] = "running"]
  BY DEF Burners!startDownload
<1>5. told' = told \/ told' = Burners!Told(id, <<Burners!No>>)
  BY DEF Burners!startDownload, Burners!Tell
<1>6. /\ OwnerInv(runs, start_id, placed, overlapped)
      /\ (unfinished # "" => order.plugin = "Arduino")
  BY DEF ToolsInv
<1> HIDE DEF id, t
<1>7. /\ runs' = [j \in Burners!Orderings |-> runs'[j]]
      /\ \A j \in Burners!Orderings : runs'[j] \in Going => runs[j] \in Going \/ j = id
  <2>1. runs = [j \in Burners!Orderings |-> runs[j]]
    BY <1>6 DEF OwnerInv
  <2> QED  BY ONLY <1>4, <2>1
<1> QED  BY <1>1, <1>2, <1>3, <1>5, <1>6, <1>7, TakenStep, FewAnswers DEF id, t

\* StopFirmware: what runs is killed, and the answer says yes whatever that leads to.
LEMMA StopDownloadStep ==
    ASSUME ToolsInv, placed < Len(Burners!orders), placed' = placed + 1, order' = order,
           Burners!orders[placed + 1].api = "StopFirmware", Burners!stopDownload(placed + 1), exited' = exited
    PROVE  ToolsInv'
<1>1. /\ told' = Burners!Told(placed + 1, <<Burners!Yes>>)
      /\ UNCHANGED <<start_id, overlapped, unfinished>>
  BY DEF Burners!stopDownload, Burners!Tell, Burners!compilerVars, Burners!fileVars
<1>2. /\ runs' = [j \in Burners!Orderings |-> runs'[j]]
      /\ \A j \in Burners!Orderings : runs'[j] \in Going => runs[j] \in Going
  BY DEF Burners!stopDownload, Burners!Kill, Burners!Killed, Burners!Busy, Going
<1>3. OwnerInv(runs', start_id, placed + 1, overlapped)
  BY <1>2, OwnerAsWas
<1>4. Backed(placed + 1, Burners!Yes, exited, overlapped)
  BY BackedOnes DEF Programs
<1>5. IsSeq(<<Burners!Yes>>) /\ \A k \in 1..Len(<<Burners!Yes>>) : Backed(placed + 1, <<Burners!Yes>>[k], exited, overlapped)
  BY <1>4, FewAnswers
<1> QED  BY <1>1, <1>3, <1>5, OnlyTold

\* The requests for versions run no tool.
LEMMA VersionsStep ==
    ASSUME ToolsInv, placed < Len(Burners!orders), placed' = placed + 1, order' = order,
           \/ Burners!orders[placed + 1].api = "GetVersionInfo" /\ Burners!getVersionInfo(placed + 1)
           \/ /\ Burners!orders[placed + 1].api \in {"GetLatestVersionInfo", "GetLatestVersion"}
              /\ Burners!getLatestVersion(placed + 1),
           exited' = exited
    PROVE  ToolsInv'
<1> DEFINE id == placed + 1
<1>1. UNCHANGED <<runs, start_id, overlapped, unfinished>>
  BY DEF Burners!getVersionInfo, Burners!getLatestVersion, Burners!compilerVars, Burners!fileVars
<1>2. told' = told \/ \E a : Backed(id, a, exited, overlapped) /\ told' = Burners!Told(id, <<a>>)
  <2>1. \A a : Backed(id, a, exited, overlapped)
    BY BackedOnes DEF Programs
  <2>2. told' = told \/ \E a : told' = Burners!Told(id, <<a>>)
    BY DEF Burners!getVersionInfo, Burners!getLatestVersion, Burners!Tell
  <2> QED  BY <2>1, <2>2
<1>3. OwnerInv(runs', start_id, placed + 1, overlapped)
  <2>1. runs = [j \in Burners!Orderings |-> runs[j]]
    BY DEF ToolsInv, OwnerInv
  <2> QED  BY <1>1, <2>1, OwnerAsWas
<1>4. CASE told' = told
  <2>1. NoOnly(<<>>)
    BY FewAnswers
  <2>2. IsSeq(<<>>) /\ \A k \in 1..Len(<<>>) : Backed(placed + 1, <<>>[k], exited, overlapped)
    BY <2>1, BackedOnes DEF NoOnly
  <2> QED  BY <1>1, <1>3, <1>4, <2>2, OnlyTold
<1>5. ASSUME NEW a, Backed(id, a, exited, overlapped), told' = Burners!Told(id, <<a>>)
      PROVE  ToolsInv'
  <2>1. IsSeq(<<a>>) /\ \A k \in 1..Len(<<a>>) : Backed(placed + 1, <<a>>[k], exited, overlapped)
    BY <1>5, FewAnswers
  <2> QED  BY <1>1, <1>3, <1>5, <2>1, OnlyTold
<1> QED  BY <1>2, <1>4, <1>5

\* DownloadPlugin as a whole.
LEMMA DownloadStep ==
    ASSUME ToolsInv, placed < Len(Burners!orders), placed' = placed + 1, order' = order, order.plugin = "Download",
           Burners!handleDownloadCmd(placed + 1), exited' = exited
    PROVE  ToolsInv'
<1> DEFINE id == placed + 1
           api == Burners!orders[id].api
<1>1. CASE api = "GetVersionInfo" /\ Burners!getVersionInfo(id)
  BY <1>1, VersionsStep
<1>2. CASE api \in {"GetLatestVersionInfo", "GetLatestVersion"} /\ Burners!getLatestVersion(id)
  BY <1>2, VersionsStep
<1>3. CASE Burners!Refuse(id)
  <2>1. /\ told' = Burners!Told(id, <<Burners!No>>)
        /\ UNCHANGED <<runs, start_id, overlapped, unfinished>>
    BY <1>3 DEF Burners!Refuse, Burners!Tell, Burners!compilerVars, Burners!fileVars
  <2> QED  BY <2>1, FewAnswers, RefusedStep
<1>4. CASE api = "StartFirmware" /\ Burners!orders[id].device \in DOMAIN Burners!ToolOf /\ Burners!startDownload(id)
  BY <1>4, StartDownloadStep
<1>5. CASE api = "StopFirmware" /\ Burners!stopDownload(id)
  BY <1>5, StopDownloadStep
<1> QED  BY <1>1, <1>2, <1>3, <1>4, <1>5 DEF Burners!handleDownloadCmd

\* ArduinoPlugin: what it says at once are refusals, and the upload answers later.
LEMMA ArduinoStep ==
    ASSUME ToolsInv, placed < Len(Burners!orders), placed' = placed + 1, order' = order, order.plugin = "Arduino",
           Burners!ArduinoProgram(placed + 1), exited' = exited
    PROVE  ToolsInv'
<1> DEFINE id == placed + 1
           busy == IF m_isBusy THEN <<Burners!No>> ELSE <<>>
           former == start_id["avrdude"]
           over == Burners!Busy("avrdude") # {} \/ unfinished # ""
           fails == {<<Burners!No>>, <<Burners!No, Burners!No>>, <<Burners!No, Burners!No, Burners!No>>}
<1>1. NoOnly(busy) /\ NoOnly(busy \o <<Burners!No>>) /\ \A es \in fails : NoOnly(busy \o es)
  <2>1. NoOnly(busy)
    BY FewAnswers
  <2>2. ASSUME NEW es \in fails
        PROVE  NoOnly(busy \o es)
    <3> HIDE DEF busy
    <3>1. NoOnly(es)
      BY FewAnswers
    <3> QED  BY <2>1, <3>1, NoJoin
  <2> QED  BY <2>1, <2>2
<1>2. /\ placed \in Nat /\ StartIdInv(start_id, placed)
      /\ runs = [j \in Burners!Orderings |-> runs[j]]
      /\ ToldInv(told, placed, exited, overlapped)
  BY DEF ToolsInv, OwnerInv
<1>3. id \in Burners!Orderings /\ id \in Nat /\ placed <= id
  BY NextOrder
<1>4. Burners!Tool(id) = "avrdude" /\ "avrdude" \in Burners!Tools
  BY ToolNames DEF Burners!Tool
<1>5. CASE /\ start_id' = [start_id EXCEPT !["avrdude"] = id]
           /\ overlapped' = IF over THEN overlapped \cup {id} ELSE overlapped
           /\ Burners!startCompile(id, busy, IF over THEN {former} ELSE {})
           /\ UNCHANGED Burners!fileVars
  <2>1. /\ \E as : NoOnly(as) /\ told' = Burners!Told(id, as)
        /\ runs' = runs \/ runs' = [runs EXCEPT ![id] = "running"]
    <3> HIDE DEF busy
    <3> QED  BY <1>1, <1>5 DEF Burners!startCompile, Burners!startUpload, Burners!Tell, Burners!CompileErrors
  <2>2. /\ runs' = [j \in Burners!Orderings |-> runs'[j]]
        /\ \A j \in Burners!Orderings : runs'[j] \in Going => runs[j] \in Going \/ j = id
    <3> HIDE DEF id
    <3> QED  BY ONLY <1>2, <2>1
  <2>3. overlapped \subseteq overlapped' /\ (Burners!Busy("avrdude") # {} => id \in overlapped')
    BY <1>5
  <2> QED  BY <1>3, <1>4, <1>5, <2>1, <2>2, <2>3, TakenStep
<1>6. CASE \E as : NoOnly(as) /\ told' = Burners!Told(id, as) /\ UNCHANGED <<runs, start_id, overlapped, unfinished>>
  BY <1>6, RefusedStep
<1>7. CASE /\ told' = [Burners!Told(former, <<Burners!No>>) EXCEPT ![id] = @ \o busy]
           /\ UNCHANGED <<runs, start_id, overlapped, unfinished>>
  <2>1. former \in 0..placed
    BY <1>2, <1>4 DEF StartIdInv
  <2>2. ToldInv(Burners!Told(former, <<Burners!No>>), placed, exited, overlapped)
    BY <2>1, MeanwhileTold, FewAnswers
  <2>3. PICK T : T = Burners!Told(former, <<Burners!No>>)
    OBVIOUS
  <2>4. PICK as : as = busy
    OBVIOUS
  <2>5. IsSeq(as) /\ \A k \in 1..Len(as) : Backed(id, as[k], exited, overlapped)
    BY <1>1, <2>4, BackedOnes DEF NoOnly
  <2>6. ToldInv([T EXCEPT ![id] = @ \o as], id, exited, overlapped)
    <3>1. ToldInv(T, placed, exited, overlapped) /\ id \in 1..id
      BY <1>3, <2>2, <2>3 DEF Burners!Orderings
    <3> HIDE DEF id
    <3> QED  BY <1>2, <1>3, <2>5, <3>1, ToldMore
  <2>7. ToldInv(told', id, exited, overlapped)
    BY <1>7, <2>3, <2>4, <2>6
  <2>8. StartIdInv(start_id, id) /\ OwnerInv(runs, start_id, id, overlapped)
    BY <1>2, <1>3, StartIdKept, OwnerAsWas
  <2>9. id <= Len(Burners!orders) /\ (unfinished # "" => order.plugin = "Arduino")
    BY NextOrder
  <2> QED  BY <1>2, <1>3, <1>7, <2>7, <2>8, <2>9, ToolsThen
<1>8. CASE \/ /\ told' = Burners!Told(id, busy \o <<Burners!No>>)
              /\ UNCHANGED <<luck, runs, current, start_id, overlapped, abandoned, Burners!compilerVars, Burners!fileVars>>
           \/ Burners!Refuse(id)
  <2> HIDE DEF busy
  <2> QED  BY <1>1, <1>6, <1>8, FewAnswers DEF Burners!Refuse, Burners!Tell, Burners!compilerVars, Burners!fileVars
<1> QED  BY <1>5, <1>7, <1>8 DEF Burners!ArduinoProgram, Burners!Tell, Burners!compilerVars, Burners!fileVars

\* MicrobitPlugin: the yes is given when the tool has ended, its own or the one that was
\* still busy.
LEMMA MicrobitStep ==
    ASSUME ToolsInv, placed < Len(Burners!orders), placed' = placed + 1, order' = order, order.plugin = "Microbit",
           Burners!MicrobitProgram(placed + 1)
    PROVE  ToolsInv'
<1> DEFINE id == placed + 1
           former == Burners!Busy("uflash")
           j == IF former = {} THEN id ELSE CHOOSE k \in former : TRUE
<1>1. /\ placed \in Nat /\ (unfinished # "" => order.plugin = "Arduino")
      /\ runs = [k \in Burners!Orderings |-> runs[k]]
  BY DEF ToolsInv, OwnerInv
<1>2. id \in Burners!Orderings
  BY NextOrder
<1>3. Burners!Tool(id) = "uflash" /\ "uflash" \in Burners!Tools
  BY ToolNames DEF Burners!Tool
<1>4. j = id \/ (j \in former /\ former # {})
  OBVIOUS
<1>5. j = id \/ runs[j] \in Going
  BY <1>4 DEF Burners!Busy, Going
<1>6. CASE /\ start_id' = [start_id EXCEPT !["uflash"] = id]
           /\ overlapped' = IF former = {} THEN overlapped ELSE overlapped \cup {id}
           /\ \/ /\ runs' = [runs EXCEPT ![j] = "ended"]
                 /\ \/ told' = Burners!Told(id, <<Burners!Yes>>) /\ exited' = exited \cup {j}
                    \/ told' = Burners!Told(id, <<Burners!No>>) /\ exited' = exited
              \/ /\ runs' = [runs EXCEPT ![j] = "running"] \/ runs' = runs
                 /\ told' = told /\ exited' = exited
           /\ unfinished' = unfinished
  <2>1. /\ overlapped \subseteq overlapped' /\ (former # {} => id \in overlapped')
    BY <1>6
  <2>2. exited \subseteq exited'
    BY <1>6
  <2>3. \/ told' = told \/ told' = Burners!Told(id, <<Burners!No>>)
        \/ Earned(id, exited', overlapped') /\ told' = Burners!Told(id, <<Burners!Yes>>)
    <3>1. CASE exited' = exited \cup {j} /\ told' = Burners!Told(id, <<Burners!Yes>>)
      <4>1. CASE j = id
        BY <3>1, <4>1 DEF Earned
      <4>2. CASE j \in former /\ former # {}
        <5>1. j \in 1..placed /\ Burners!Tool(j) = "uflash"
          BY <4>2 DEF Burners!Busy
        <5>2. placed \in Nat /\ id = placed + 1
          BY <1>1
        <5> HIDE DEF id, j
        <5>3. j < id
          BY ONLY <5>1, <5>2
        <5>4. Before(j, id)
          BY <1>3, <5>1, <5>3 DEF Before
        <5> QED  BY <2>1, <3>1, <4>2, <5>4 DEF Earned
      <4> QED  BY <1>4, <4>1, <4>2
    <3> QED  BY <1>6, <3>1
  <2>4. /\ runs' = [k \in Burners!Orderings |-> runs'[k]]
        /\ \A k \in Burners!Orderings : runs'[k] \in Going => runs[k] \in Going \/ k = id
    <3>1. runs' = runs \/ runs' = [runs EXCEPT ![j] = "running"] \/ runs' = [runs EXCEPT ![j] = "ended"]
      BY <1>6
    <3> HIDE DEF j, id
    <3> QED  BY ONLY <1>1, <1>5, <3>1
  <2> HIDE DEF j
  <2> QED  BY <1>1, <1>2, <1>3, <1>6, <2>1, <2>2, <2>3, <2>4, TakenStep, FewAnswers
<1>7. CASE Burners!Refuse(id) /\ exited' = exited
  <2>1. /\ told' = Burners!Told(id, <<Burners!No>>)
        /\ UNCHANGED <<runs, start_id, overlapped, unfinished>>
    BY <1>7 DEF Burners!Refuse, Burners!Tell, Burners!compilerVars, Burners!fileVars
  <2> QED  BY <1>7, <2>1, FewAnswers, RefusedStep
<1> QED  BY <1>6, <1>7 DEF Burners!MicrobitProgram, Burners!Tell, Burners!compilerVars, Burners!fileVars

\* Every step keeps it.
LEMMA ToolsInvStep == ToolsInv /\ [Burners!ToolsNext]_toolVars => ToolsInv'
<1> SUFFICES ASSUME ToolsInv, [Burners!ToolsNext]_toolVars
             PROVE  ToolsInv'
  OBVIOUS
<1>1. CASE Burners!OrderComes
  <2>1. placed < Len(Burners!orders) /\ placed' = placed + 1 /\ order' = order
    BY <1>1 DEF Burners!OrderComes
  <2>2. CASE order.plugin = "Download" /\ Burners!handleDownloadCmd(placed + 1) /\ UNCHANGED exited
    BY <2>1, <2>2, DownloadStep
  <2>3. CASE order.plugin = "Arduino" /\ Burners!ArduinoProgram(placed + 1) /\ UNCHANGED <<exited, ended>>
    BY <2>1, <2>3, ArduinoStep
  <2>4. CASE order.plugin = "Microbit" /\ Burners!MicrobitProgram(placed + 1) /\ UNCHANGED ended
    BY <2>1, <2>4, MicrobitStep
  <2> QED  BY <1>1, <2>2, <2>3, <2>4 DEF Burners!OrderComes
<1>2. CASE UNCHANGED toolVars
  <2>1. /\ order' = order /\ placed' = placed /\ told' = told /\ start_id' = start_id /\ runs' = runs /\ exited' = exited
        /\ overlapped' = overlapped /\ unfinished' = unfinished
    BY <1>2 DEF toolVars
  <2> QED  BY <2>1, ToolsThen DEF ToolsInv
<1> QED
  BY <1>1, <1>2, ToolEndsStep, BurnerEndsStep, RestartStep, ReadyReadStep, CompilerEndsStep, ToolsExitStep
     DEF Burners!ToolsNext

\* What it says of the answers.
LEMMA ToolsAnswers == ToolsInv => Burners!SuccessBacked
<1> SUFFICES ASSUME ToolsInv
             PROVE  Burners!SuccessBacked
  OBVIOUS
<1>1. ASSUME NEW x \in 1..placed
      PROVE  \A n \in DOMAIN told[x] : Backed(x, told[x][n], exited, overlapped)
  <2>1. x \in Burners!Orderings
    BY OrdersAreNumbers DEF ToolsInv
  <2>2. DOMAIN told[x] = 1..Len(told[x])
    BY <2>1 DEF ToolsInv, ToldInv, IsSeq
  <2>3. ToldInv(told, placed, exited, overlapped)
    BY DEF ToolsInv
  <2> QED  BY <2>1, <2>2, <2>3 DEF ToldInv
<1> QED  BY <1>1 DEF Burners!SuccessBacked, Backed, Programs, Earned, Before

-----------------------------------------------------------------------------
\* The plugins take their steps one at a time: a step of one leaves the others alone.
LEMMA PartsStep ==
    ASSUME [PluginsNext]_<<vars, m1Vars, taskVars, runnerVars, toolVars>>
    PROVE  /\ [Next]_vars /\ [Tasks!TasksNext]_taskVars /\ [Runners!ScriptsNext]_runnerVars
           /\ [Burners!ToolsNext]_toolVars
<1>1. \/ Next \/ vars' = vars
  BY DEF PluginsNext
<1>2. \/ Tasks!TasksNext \/ taskVars' = taskVars
  BY DEF PluginsNext
<1>3. \/ Runners!ScriptsNext \/ runnerVars' = runnerVars
  BY DEF PluginsNext
<1>4. \/ Burners!ToolsNext \/ toolVars' = toolVars
  BY DEF PluginsNext
<1> QED  BY <1>1, <1>2, <1>3, <1>4

\* They start as each of them starts alone.
LEMMA PartsStart ==
    ASSUME PluginsInit
    PROVE  Init /\ Tasks!TasksInit /\ Runners!ScriptsInit /\ Burners!ToolsInit
BY DEF PluginsInit

\* No request to the tasks of MagicDevicePlugin has more answers than it may: one, two for
\* a CheckBoxSpace without code, and for a GetEndEffectorStatus one that has all results,
\* beside any single ones (MagicDevicePlugin.cpp, DBoxDownload.cpp).
THEOREM TasksOneAnswer == PluginsSpec => []Tasks!TasksAnsweredOnce
<1>1. PluginsInit => TasksInv
  BY PartsStart, TasksInvStart
<1>2. TasksInv /\ [PluginsNext]_<<vars, m1Vars, taskVars, runnerVars, toolVars>> => TasksInv'
  BY PartsStep, TasksInvStep
<1> QED  BY <1>1, <1>2, TasksAnswers, PTL DEF PluginsSpec

\* The merged answer to a GetEndEffectorStatus reports as done exactly the commands the device
\* has answered, and has a place for each of the three unless a failed one went without its
\* name, whichever of them are refused, fail or are cut off by a disconnection
\* (MagicDevicePlugin's SendCommandSpecial and DoSpecialResponse).
THEOREM TasksMergedWhole == PluginsSpec => []Tasks!MergedWhole
<1>1. PluginsInit => TasksInv /\ MergedInv
  BY PartsStart, TasksInvStart, MergedInvStart
<1>2. /\ TasksInv /\ MergedInv
      /\ [PluginsNext]_<<vars, m1Vars, taskVars, runnerVars, toolVars>>
      => (TasksInv /\ MergedInv)'
  BY PartsStep, TasksInvStep, MergedInvStep
<1> QED  BY <1>1, <1>2, MergedAnswers, PTL DEF PluginsSpec

\* A call to RunCmdPlugin or DebuggerlitePlugin is answered once, however slots for the end
\* of a program, Stops and Waits nest, but for the Wait of a script that was stopped
\* or started again inside the slot for its end (DebuggerlitePlugin.cpp, RunCmdPlugin.cpp).
THEOREM ScriptsOneAnswer == PluginsSpec => []Runners!ScriptsAnsweredOnce
<1>1. PluginsInit => ScriptsInv
  BY PartsStart, ScriptsInvStart
<1>2. ScriptsInv /\ [PluginsNext]_<<vars, m1Vars, taskVars, runnerVars, toolVars>> => ScriptsInv'
  BY PartsStep, ScriptsInvStep
<1> QED  BY <1>1, <1>2, ScriptsAnswers, PTL DEF PluginsSpec

\* A Wait answered with success finds its script ended, unless that one, or in RunCmd an
\* earlier one, was started inside the slot for another's end; and a Wait is refused only if
\* there is no such script, it was stopped, waited for or left by its client before, or it is
\* another client's: never because it was quick (RunCmdPlugin.cpp, DebuggerlitePlugin.cpp,
\* DProcess.cpp).
THEOREM ScriptsWaitHonest == PluginsSpec => []Runners!WaitHonest
<1>1. PluginsInit => ScriptsInv /\ HonestInv
  BY PartsStart, ScriptsInvStart, HonestInvStart
<1>2. /\ ScriptsInv /\ HonestInv
      /\ [PluginsNext]_<<vars, m1Vars, taskVars, runnerVars, toolVars>>
      => (ScriptsInv /\ HonestInv)'
  BY PartsStep, ScriptsInvStep, HonestInvStep
<1> QED  BY <1>1, <1>2, HonestAnswers, PTL DEF PluginsSpec

\* DownloadPlugin, ArduinoPlugin and MicrobitPlugin tell a request that its program is on the
\* board only after a run of the tool for its board has ended normally, on Linux with the
\* start of the board after it: its own run or, when the tool was busy as it came, the run
\* of an earlier request for the same tool; never a run that a later request started, that
\* was killed, or of another tool (DownloadPlugin.cpp, ArduinoPlugin.cpp, MicrobitPlugin.cpp
\* and the classes that run the tools).
THEOREM ToolsAnswerTrue == PluginsSpec => []Burners!SuccessBacked
<1>1. PluginsInit => ToolsInv
  BY PartsStart, ToolsInvStart
<1>2. ToolsInv /\ [PluginsNext]_<<vars, m1Vars, taskVars, runnerVars, toolVars>> => ToolsInv'
  BY PartsStep, ToolsInvStep
<1> QED  BY <1>1, <1>2, ToolsAnswers, PTL DEF PluginsSpec

\* Beside the other plugins the IndustrialRobotPlugin answers once, and no reply finds an
\* event loop that is gone.
THEOREM RobotBesideOthers == PluginsSpec => [](AnsweredOnce /\ LoopsLive)
<1>1. PluginsInit => IndustrialInv
  BY PartsStart, IndustrialInvStart
<1>2. IndustrialInv /\ [PluginsNext]_<<vars, m1Vars, taskVars, runnerVars, toolVars>> => IndustrialInv'
  BY PartsStep, IndustrialInvStep
<1> QED  BY <1>1, <1>2, IndustrialAnswers, PTL DEF PluginsSpec

\* No plugin answers a request twice, whatever clients, robots, tools and scripts do, but
\* in the cases that the four parts of OneAnswer name.
THEOREM PluginsAnswerOnce == PluginsSpec => []OneAnswer
<1>1. AnsweredOnce /\ M1!M1AnsweredOnce /\ Tasks!TasksAnsweredOnce /\ Runners!ScriptsAnsweredOnce => OneAnswer
  BY DEF OneAnswer
<1> QED  BY <1>1, RobotBesideOthers, M1OneAnswer, TasksOneAnswer, ScriptsOneAnswer, PTL

=============================================================================
