------------------------ MODULE ScriptRunners_proofs -------------------------
(***************************************************************************)
(* RunCmdPlugin and DebuggerlitePlugin, for any play of calls, failures    *)
(* and closed sockets: a call is answered once, however the slots pile up, *)
(* but for the Wait of a script that was stopped or started again inside   *)
(* the slot for its end.  A process is calm as long as none of that has    *)
(* happened to it.  Of a calm one there is at most one slot for its end,   *)
(* none while it runs, and the Wait it knows has no answer until it ends;  *)
(* slots that stop something never touch it.                               *)
(* And a Wait is answered when its process has ended, but for a start      *)
(* inside a slot, and is refused only after a Stop, a Wait or a closed     *)
(* socket.                                                                 *)
(***************************************************************************)
EXTENDS RobotPlugins, FiniteSetTheorems, SequenceTheorems, TLAPS

\* A sequence, of whatever.
IsSeq(s) == Len(s) \in Nat /\ s = [n \in 1..Len(s) |-> s[n]]

\* DebuggerlitePlugin.  The calls that stop something, of those the ones without an answer,
\* and the processes that nobody has stopped nor started inside a slot for their end: for
\* the processes pr, the first n of the calls cs, the clients h that hung up, the answers rs.
Stops == {"Stop", "EmergencyStop", "StopAll"}
StoppingIn(cs, n, rs) == {id \in 1..n : cs[id].api \in Stops /\ rs[id] = <<>>}
CalmIn(pr, cs, n, h) ==
    {p \in DOMAIN pr : ~pr[p].nested /\ h = {} /\ \A id \in 1..n : cs[id].api \in Stops => cs[id].ws # pr[p].ws}

\* A slot that waits, when there are the processes D, the calm ones C and the calls U to be
\* answered: stop() stops what is not calm, and has a call to answer or none.
FrameInv(f, D, C, U) ==
    /\ f = [kind |-> f.kind, p |-> f.p, id |-> f.id, rest |-> f.rest, delete |-> f.delete, quit |-> f.quit]
    /\ f.p \in D
    /\ \/ f.kind = "finish" /\ f.id = 0
       \/ /\ f.kind = "stop" /\ f.id \in U \cup {0} /\ f.p \notin C
          /\ IsSeq(f.rest) /\ \A k \in 1..Len(f.rest) : f.rest[k] \in D \ C
\* Two slots never answer for the same.
Apart(f, g, C) ==
    /\ f.id = g.id => f.id = 0
    /\ f.kind = "finish" /\ g.kind = "finish" /\ f.p = g.p => f.p \notin C
FramesInv(fs, D, C, U) ==
    /\ IsSeq(fs)
    /\ \A k \in 1..Len(fs) : FrameInv(fs[k], D, C, U)
    /\ \A j, k \in 1..Len(fs) : j # k => Apart(fs[j], fs[k], C)

\* Process x, which is called p: the call it is to answer is a Wait for it, and has no answer
\* when the process is calm and runs or a slot waits with its end.
Spinning(fs, p) == \E k \in 1..Len(fs) : fs[k].kind = "finish" /\ fs[k].p = p
WaitOf(cs, n, p, ws) == {id \in 1..n : cs[id].api = "Wait" /\ cs[id].of = p /\ cs[id].ws = ws}
ProcShape(x) ==
    x = [ws |-> x.ws, at |-> x.at, waitId |-> x.waitId, waitCmdFinished |-> x.waitCmdFinished, nested |-> x.nested]
CalmInv(x, p, fs, rs) ==
    /\ x.at # "killed"
    /\ Spinning(fs, p) => x.at # "running"
    /\ x.waitCmdFinished /\ (x.at = "running" \/ Spinning(fs, p)) /\ x.waitId # 0 => rs[x.waitId] = <<>>
ProcInv(x, p, cs, n, C, fs, rs) ==
    /\ ProcShape(x)
    /\ x.waitId \in WaitOf(cs, n, p, x.ws) \cup {0}
    /\ p \in C => CalmInv(x, p, fs, rs)

\* Call id may have more than one answer: it is a Wait for a process that is not calm.
Excused(pr, cs, n, h, id) == \E p \in DOMAIN pr \ CalmIn(pr, cs, n, h) : id \in WaitOf(cs, n, p, pr[p].ws)
DebugInv(pr, listed, fs, h, cs, n, rs) ==
    /\ listed \subseteq DOMAIN pr /\ DOMAIN pr \subseteq 1..n
    /\ FramesInv(fs, DOMAIN pr, CalmIn(pr, cs, n, h), StoppingIn(cs, n, rs))
    /\ \A p \in DOMAIN pr : ProcInv(pr[p], p, cs, n, CalmIn(pr, cs, n, h), fs, rs)
    /\ \A id \in 1..n : Len(rs[id]) > 1 => Excused(pr, cs, n, h, id)

\* RunCmdPlugin: only slots for an end, and the Wait it holds has no answer.
FinishOnly(fs) == IsSeq(fs) /\ \A k \in 1..Len(fs) : "kind" \in DOMAIN fs[k] /\ fs[k].kind = "finish"
RunInv(fs, wait, n, rs) ==
    /\ FinishOnly(fs)
    /\ wait # 0 => wait \in 1..n /\ rs[wait] = <<>>
    /\ \A id \in 1..n : Len(rs[id]) <= 1

ResultsInv(n, rs) ==
    /\ rs = [x \in Runners!Calls |-> rs[x]]
    /\ \A x \in Runners!Calls : IsSeq(rs[x]) /\ (x > n => rs[x] = <<>>)

ScriptsInv ==
    /\ play \in Plays /\ heard \in Nat /\ heard <= Len(Runners!calls)
    /\ ResultsInv(heard, results)
    /\ play.plugin = "Debuggerlite" => DebugInv(procs, m_procs, frames, hungUp, Runners!calls, heard, results)
    /\ play.plugin = "RunCmd" => RunInv(frames, m_waitResultPack, heard, results)

\* What Append does to a sequence.
LEMMA SeqAppend ==
    ASSUME NEW s, IsSeq(s), NEW a
    PROVE  /\ IsSeq(Append(s, a)) /\ Len(Append(s, a)) = Len(s) + 1 /\ Append(s, a)[Len(s) + 1] = a
           /\ \A k \in 1..Len(s) : Append(s, a)[k] = s[k]
           /\ \A k \in 1..Len(s) + 1 : k \in 1..Len(s) \/ k = Len(s) + 1
<1> DEFINE S == {s[n] : n \in 1..Len(s)} \cup {a}
<1>1. Len(s) \in Nat
  BY DEF IsSeq
<1>2. s \in Seq(S) /\ a \in S
  <2>1. \A n \in 1..Len(s) : s[n] \in S
    OBVIOUS
  <2> QED
    BY <1>1, <2>1, IsASeq DEF IsSeq
<1> HIDE DEF S
<1>3. Append(s, a) \in Seq(S) /\ Len(Append(s, a)) = Len(s) + 1
      /\ \A k \in 1..Len(s) + 1 : Append(s, a)[k] = IF k <= Len(s) THEN s[k] ELSE a
  BY <1>2, AppendProperties
<1>4. IsSeq(Append(s, a))
  BY <1>1, <1>3, LenProperties DEF IsSeq
<1> QED
  BY <1>1, <1>3, <1>4

\* What SubSeq returns of one.
LEMMA SeqPart ==
    ASSUME NEW s, IsSeq(s), NEW i \in 1..Len(s) + 1, NEW j \in 0..Len(s)
    PROVE  /\ IsSeq(SubSeq(s, i, j)) /\ Len(SubSeq(s, i, j)) = IF i <= j THEN j - i + 1 ELSE 0
           /\ \A k \in 1..Len(SubSeq(s, i, j)) : k + i - 1 \in 1..Len(s) /\ SubSeq(s, i, j)[k] = s[k + i - 1]
<1> DEFINE S == {s[n] : n \in 1..Len(s)}
<1>1. Len(s) \in Nat
  BY DEF IsSeq
<1>2. \A k \in i..j : s[k] \in S
  BY <1>1
<1> HIDE DEF S
<1>3. i \in Int /\ j \in Int
  BY <1>1
<1>4. /\ SubSeq(s, i, j) \in Seq(S)
      /\ Len(SubSeq(s, i, j)) = IF i <= j THEN j - i + 1 ELSE 0
      /\ \A k \in 1..j - i + 1 : SubSeq(s, i, j)[k] = s[i + k - 1]
  BY <1>2, <1>3, SubSeqProperties
<1>5. IsSeq(SubSeq(s, i, j))
  BY <1>4, LenProperties DEF IsSeq
<1>6. PICK t : t = SubSeq(s, i, j)
  OBVIOUS
<1>7. Len(t) = IF i <= j THEN j - i + 1 ELSE 0
  BY <1>4, <1>6
<1>8. \A k \in 1..Len(t) : k \in 1..j - i + 1 /\ k + i - 1 \in 1..Len(s) /\ i + k - 1 = k + i - 1
  BY <1>1, <1>7
<1> QED
  BY <1>4, <1>5, <1>6, <1>8

\* More answers: ss are the answers rs and one more to call id, or the same for 0.
More(rs, ss, id) ==
    /\ ss = [x \in Runners!Calls |-> ss[x]]
    /\ \A x \in Runners!Calls : IsSeq(ss[x]) /\ (x # id => ss[x] = rs[x])
    /\ id # 0 => Len(ss[id]) = Len(rs[id]) + 1

\* Without an answer the answers are what they were.
LEMMA NoMore == ASSUME NEW n, NEW rs, ResultsInv(n, rs) PROVE More(rs, rs, 0)
BY DEF ResultsInv, More

\* Replied gives one call one answer more.
LEMMA RepliedMore ==
    ASSUME NEW rs, rs = [x \in Runners!Calls |-> rs[x]], \A x \in Runners!Calls : IsSeq(rs[x]),
           NEW id \in Runners!Calls \cup {0}, NEW ok, NEW pr
    PROVE  More(rs, Runners!Replied(rs, id, ok, pr), id)
<1>1. CASE id = 0
  BY <1>1 DEF Runners!Replied, More
<1>2. CASE id # 0
  <2>1. PICK a : Runners!Replied(rs, id, ok, pr) = [rs EXCEPT ![id] = Append(@, a)]
    BY <1>2 DEF Runners!Replied
  <2>2. PICK ss : ss = Runners!Replied(rs, id, ok, pr)
    OBVIOUS
  <2>3. ss = [x \in Runners!Calls |-> IF x = id THEN Append(rs[id], a) ELSE rs[x]]
    BY <2>1, <2>2
  <2>4. IsSeq(Append(rs[id], a)) /\ Len(Append(rs[id], a)) = Len(rs[id]) + 1
    BY <1>2, SeqAppend
  <2> QED
    BY <1>2, <2>2, <2>3, <2>4 DEF More
<1> QED
  BY <1>1, <1>2

\* Processes qr after pr: nobody is gone, changes its client or forgets how it was started.
LaterProcs(pr, qr) ==
    \A p \in DOMAIN pr : p \in DOMAIN qr /\ qr[p].ws = pr[p].ws /\ (pr[p].nested => qr[p].nested)

\* Who is calm later was calm before.
LEMMA CalmLater ==
    ASSUME NEW pr, NEW qr, LaterProcs(pr, qr), NEW cs, NEW n \in Nat, NEW m \in Nat, n <= m, NEW h, NEW g, h \subseteq g
    PROVE  \A p \in DOMAIN pr : p \in CalmIn(qr, cs, m, g) => p \in CalmIn(pr, cs, n, h)
<1> SUFFICES ASSUME NEW p \in DOMAIN pr, p \in CalmIn(qr, cs, m, g) PROVE p \in CalmIn(pr, cs, n, h)
  OBVIOUS
<1>1. ~qr[p].nested /\ g = {} /\ \A id \in 1..m : cs[id].api \in Stops => cs[id].ws # qr[p].ws
  BY DEF CalmIn
<1>2. ~pr[p].nested /\ qr[p].ws = pr[p].ws
  BY <1>1, Zenon DEF LaterProcs
<1>3. \A id \in 1..n : id \in 1..m
  OBVIOUS
<1> QED
  BY <1>1, <1>2, <1>3 DEF CalmIn

\* What may have two answers may have them later too.
LEMMA ExcusedLater ==
    ASSUME NEW pr, NEW qr, LaterProcs(pr, qr), NEW cs, NEW n \in Nat, NEW m \in Nat, n <= m, NEW h, NEW g, h \subseteq g,
           NEW id, Excused(pr, cs, n, h, id)
    PROVE  Excused(qr, cs, m, g, id)
<1>1. PICK p \in DOMAIN pr : p \notin CalmIn(pr, cs, n, h) /\ id \in WaitOf(cs, n, p, pr[p].ws)
  BY DEF Excused
<1>2. p \in DOMAIN qr /\ p \notin CalmIn(qr, cs, m, g) /\ qr[p].ws = pr[p].ws
  BY <1>1, CalmLater DEF LaterProcs
<1>3. id \in WaitOf(cs, m, p, qr[p].ws)
  BY <1>1, <1>2 DEF WaitOf
<1> QED
  BY <1>2, <1>3 DEF Excused

\* Slots stay good when processes come, calm ones get fewer, and the calls they are to
\* answer still have no answer.
LEMMA FramesKept ==
    ASSUME NEW fs, NEW D, NEW C, NEW U, FramesInv(fs, D, C, U),
           NEW E, D \subseteq E, NEW B, \A p \in D : p \in B => p \in C,
           NEW V, \A k \in 1..Len(fs) : fs[k].id # 0 => fs[k].id \in V
    PROVE  FramesInv(fs, E, B, V)
<1>1. \A k \in 1..Len(fs) : FrameInv(fs[k], E, B, V)
  BY DEF FramesInv, FrameInv
<1>2. \A j, k \in 1..Len(fs) : j # k => Apart(fs[j], fs[k], B)
  BY DEF FramesInv, FrameInv, Apart
<1> QED
  BY <1>1, <1>2 DEF FramesInv

\* The calls heard are among those there is room for.
LEMMA CallsInside ==
    ASSUME NEW n \in Nat, n <= MaxCalls
    PROVE  MaxCalls \in Nat /\ \A id \in 1..n : id \in Runners!Calls /\ id \in Nat /\ id # 0
BY RunnersAssumption DEF Runners!Calls

\* A Stop without an answer stays one, unless it is the call that is answered.
LEMMA StoppingKept ==
    ASSUME NEW cs, NEW n \in Nat, NEW m \in Nat, n <= m, n <= MaxCalls, NEW rs, NEW ss, NEW id, More(rs, ss, id)
    PROVE  \A x \in StoppingIn(cs, n, rs) : x # id => x \in StoppingIn(cs, m, ss)
<1>1. \A x \in 1..n : x \in 1..m /\ x \in Runners!Calls
  BY CallsInside
<1> QED
  BY <1>1 DEF StoppingIn, More

\* What the invariant says of DebuggerlitePlugin.
LEMMA DebugFacts ==
    ASSUME ScriptsInv, play.plugin = "Debuggerlite"
    PROVE  /\ DebugInv(procs, m_procs, frames, hungUp, Runners!calls, heard, results)
           /\ ResultsInv(heard, results) /\ heard \in Nat /\ heard <= Len(Runners!calls)
           /\ Len(Runners!calls) \in Nat /\ Len(Runners!calls) <= MaxCalls /\ MaxCalls \in Nat
           /\ \A n \in 1..Len(Runners!calls) : Runners!calls[n].ws # 0
<1>1. play \in Plays
  BY DEF ScriptsInv
<1> QED
  BY <1>1, RunnersAssumption DEF ScriptsInv, Runners!calls

\* What is to be shown of a step of it.
LEMMA DebugNext ==
    ASSUME ScriptsInv, play.plugin = "Debuggerlite", play' = play, heard' \in Nat, heard' <= Len(Runners!calls),
           DebugInv(procs', m_procs', frames', hungUp', Runners!calls, heard', results'), ResultsInv(heard', results')
    PROVE  ScriptsInv'
<1>1. Runners!calls' = Runners!calls /\ play' \in Plays /\ play'.plugin # "RunCmd"
  BY DEF Runners!calls, ScriptsInv
<1>2. ResultsInv(heard, results)' = ResultsInv(heard', results')
  BY DEF ResultsInv, Runners!Calls
<1> QED
  BY <1>1, <1>2 DEF ScriptsInv

\* A step that gives call id an answer (0: none), which had none or may have two.
LEMMA DebugStep ==
    ASSUME ScriptsInv, play.plugin = "Debuggerlite", play' = play, heard' \in Nat, heard <= heard', heard' <= heard + 1,
           heard' <= Len(Runners!calls), hungUp \subseteq hungUp', LaterProcs(procs, procs'), m_procs' \subseteq DOMAIN procs',
           NEW id \in 0..heard', More(results, results', id),
           id = 0 \/ results[id] = <<>> \/ Excused(procs', Runners!calls, heard', hungUp', id),
           FramesInv(frames', DOMAIN procs', CalmIn(procs', Runners!calls, heard', hungUp'), StoppingIn(Runners!calls, heard', results')),
           DOMAIN procs' \subseteq 1..heard',
           \A p \in DOMAIN procs' :
               ProcInv(procs'[p], p, Runners!calls, heard', CalmIn(procs', Runners!calls, heard', hungUp'), frames', results')
    PROVE  ScriptsInv'
<1>0. /\ DebugInv(procs, m_procs, frames, hungUp, Runners!calls, heard, results)
      /\ ResultsInv(heard, results) /\ heard \in Nat /\ heard' <= MaxCalls
  BY DebugFacts
<1> USE <1>0
<1>1. \A x \in 1..heard' : x \in Runners!Calls /\ x \in Nat /\ x # 0
  BY CallsInside
<1>2. \A x \in Runners!Calls : x \in Nat
  BY CallsInside DEF Runners!Calls
<1>3. ResultsInv(heard', results')
  <2>1. ASSUME NEW x \in Runners!Calls, x > heard' PROVE results'[x] = <<>>
    <3>1. x # id /\ x > heard
      BY <1>2, <2>1
    <3> QED
      BY <3>1 DEF More, ResultsInv
  <2> QED
    BY <2>1 DEF More, ResultsInv
<1>4. ASSUME NEW x \in 1..heard', Len(results'[x]) > 1 PROVE Excused(procs', Runners!calls, heard', hungUp', x)
  <2>1. x \in Runners!Calls
    BY <1>1
  <2>2. CASE x # id
    <3>1. results'[x] = results[x]
      BY <2>1, <2>2 DEF More
    <3>2. x \in 1..heard
      <4>1. x > heard => results'[x] = <<>>
        BY <2>1, <3>1 DEF ResultsInv
      <4>2. Len(<<>>) = 0
        OBVIOUS
      <4> QED
        BY <1>4, <4>1, <4>2
    <3>3. Excused(procs, Runners!calls, heard, hungUp, x)
      BY <1>4, <3>1, <3>2 DEF DebugInv
    <3> QED
      BY <3>3, ExcusedLater
  <2>3. CASE x = id
    <3>1. id # 0
      BY <2>3
    <3>2. results[id] = <<>> => Len(results'[id]) = 1
      BY <3>1 DEF More
    <3>3. Len(results'[id]) # 1
      <4>1. Len(results'[x]) \in Nat
        BY <2>1 DEF More, IsSeq
      <4>2. \A L \in Nat : L > 1 => L # 1
        OBVIOUS
      <4> QED
        BY <1>4, <2>3, <4>1, <4>2
    <3>4. results[id] # <<>>
      BY <3>2, <3>3
    <3> QED
      BY <2>3, <3>1, <3>4
  <2> QED
    BY <2>2, <2>3
<1> QED
  <2>1. DebugInv(procs', m_procs', frames', hungUp', Runners!calls, heard', results')
    BY <1>4 DEF DebugInv
  <2> QED
    BY <1>3, <2>1, DebugNext

\* A process whose client and Wait stay.
LEMMA ProcKept ==
    ASSUME NEW p, NEW cs, NEW n \in Nat, NEW m \in Nat, n <= m, NEW x, NEW C, NEW fs, NEW rs,
           ProcInv(x, p, cs, n, C, fs, rs),
           NEW y, ProcShape(y), y.ws = x.ws, y.waitId = x.waitId, NEW B, NEW gs, NEW ss,
           p \in B => CalmInv(y, p, gs, ss)
    PROVE  ProcInv(y, p, cs, m, B, gs, ss)
<1>1. WaitOf(cs, n, p, x.ws) \subseteq WaitOf(cs, m, p, x.ws)
  BY DEF WaitOf
<1> QED
  BY <1>1 DEF ProcInv

\* A process that stays as it is, or is not calm any more.
LEMMA ProcStays ==
    ASSUME ScriptsInv, play.plugin = "Debuggerlite", play' = play, heard' \in Nat, heard <= heard',
           heard' <= Len(Runners!calls), hungUp \subseteq hungUp', LaterProcs(procs, procs'),
           NEW id, More(results, results', id),
           NEW p \in DOMAIN procs, ProcShape(procs'[p]), procs'[p].waitId = procs[p].waitId,
           p \in CalmIn(procs', Runners!calls, heard', hungUp') =>
               /\ procs'[p] = procs[p]
               /\ Spinning(frames', p) => Spinning(frames, p)
               /\ procs[p].waitId # 0 => procs[p].waitId # id
    PROVE  ProcInv(procs'[p], p, Runners!calls, heard', CalmIn(procs', Runners!calls, heard', hungUp'), frames', results')
<1> /\ DebugInv(procs, m_procs, frames, hungUp, Runners!calls, heard, results)
    /\ ResultsInv(heard, results) /\ heard \in Nat /\ heard <= MaxCalls
  BY DebugFacts
<1>1. ProcInv(procs[p], p, Runners!calls, heard, CalmIn(procs, Runners!calls, heard, hungUp), frames, results)
  BY DEF DebugInv
<1>2. procs'[p].ws = procs[p].ws
  BY DEF LaterProcs
<1>3. ASSUME p \in CalmIn(procs', Runners!calls, heard', hungUp') PROVE CalmInv(procs'[p], p, frames', results')
  <2>1. p \in CalmIn(procs, Runners!calls, heard, hungUp)
    BY <1>3, CalmLater
  <2>2. CalmInv(procs[p], p, frames, results)
    BY <1>1, <2>1 DEF ProcInv
  <2>3. procs[p].waitId # 0 => results'[procs[p].waitId] = results[procs[p].waitId]
    <3>1. procs[p].waitId # 0 => procs[p].waitId \in 1..heard
      BY <1>1 DEF ProcInv, WaitOf
    <3>2. procs[p].waitId # 0 => procs[p].waitId \in Runners!Calls /\ procs[p].waitId # id
      BY <1>3, <3>1, CallsInside
    <3> QED
      BY <3>2 DEF More
  <2>4. procs'[p] = procs[p] /\ (Spinning(frames', p) => Spinning(frames, p))
    BY <1>3
  <2> QED
    BY <2>2, <2>3, <2>4 DEF CalmInv
<1> QED
  BY <1>1, <1>2, <1>3, ProcKept

\* A step after which the calm processes are what they were, and of which none is answered.
LEMMA DebugSame ==
    ASSUME ScriptsInv, play.plugin = "Debuggerlite", play' = play, heard' \in Nat, heard <= heard', heard' <= heard + 1,
           heard' <= Len(Runners!calls), hungUp \subseteq hungUp', LaterProcs(procs, procs'), m_procs' \subseteq DOMAIN procs',
           NEW id \in 0..heard', More(results, results', id),
           id = 0 \/ results[id] = <<>> \/ Excused(procs', Runners!calls, heard', hungUp', id),
           FramesInv(frames', DOMAIN procs', CalmIn(procs', Runners!calls, heard', hungUp'), StoppingIn(Runners!calls, heard', results')),
           DOMAIN procs' = DOMAIN procs,
           \A p \in DOMAIN procs : ProcShape(procs'[p]) /\ procs'[p].waitId = procs[p].waitId,
           \A p \in CalmIn(procs', Runners!calls, heard', hungUp') :
               /\ procs'[p] = procs[p]
               /\ Spinning(frames', p) => Spinning(frames, p)
               /\ procs[p].waitId # 0 => procs[p].waitId # id
    PROVE  ScriptsInv'
<1>0. /\ DebugInv(procs, m_procs, frames, hungUp, Runners!calls, heard, results)
      /\ ResultsInv(heard, results) /\ heard \in Nat /\ heard' <= MaxCalls
  BY DebugFacts
<1> USE <1>0
<1>1. DOMAIN procs' \subseteq 1..heard'
  BY DEF DebugInv
<1>2. \A p \in DOMAIN procs' :
          ProcInv(procs'[p], p, Runners!calls, heard', CalmIn(procs', Runners!calls, heard', hungUp'), frames', results')
  BY ProcStays
<1> QED
  BY <1>1, <1>2, DebugStep

\* The same of Replies.
LEMMA ReplyMore ==
    ASSUME ScriptsInv, NEW id \in Runners!Calls \cup {0}, NEW ok, Runners!Replies(id, ok)
    PROVE  More(results, results', id)
<1>1. results = [x \in Runners!Calls |-> results[x]] /\ \A x \in Runners!Calls : IsSeq(results[x])
  BY DEF ScriptsInv, ResultsInv
<1> QED
  BY <1>1, RepliedMore DEF Runners!Replies

\* The slots there are stay good, when the call answered is none of theirs.
LEMMA FramesStay ==
    ASSUME ScriptsInv, play.plugin = "Debuggerlite", play' = play, heard' \in Nat, heard <= heard',
           heard' <= Len(Runners!calls), hungUp \subseteq hungUp', LaterProcs(procs, procs'),
           NEW id, More(results, results', id), id \notin StoppingIn(Runners!calls, heard, results)
    PROVE  FramesInv(frames, DOMAIN procs', CalmIn(procs', Runners!calls, heard', hungUp'), StoppingIn(Runners!calls, heard', results'))
<1>1. /\ FramesInv(frames, DOMAIN procs, CalmIn(procs, Runners!calls, heard, hungUp), StoppingIn(Runners!calls, heard, results))
      /\ heard \in Nat /\ heard <= MaxCalls
  BY DebugFacts DEF DebugInv
<1>2. \A x \in StoppingIn(Runners!calls, heard, results) : x \in StoppingIn(Runners!calls, heard', results')
  BY <1>1, StoppingKept
<1>3. \A k \in 1..Len(frames) : frames[k].id # 0 => frames[k].id \in StoppingIn(Runners!calls, heard', results')
  BY <1>1, <1>2 DEF FramesInv, FrameInv
<1>4. \A p \in DOMAIN procs : p \in CalmIn(procs', Runners!calls, heard', hungUp') => p \in CalmIn(procs, Runners!calls, heard, hungUp)
  BY <1>1, CalmLater
<1>5. DOMAIN procs \subseteq DOMAIN procs'
  BY DEF LaterProcs
<1> QED
  BY <1>1, <1>3, <1>4, <1>5, FramesKept

\* A call that is answered, or not, and changes nothing else.
LEMMA AnsweredCall ==
    ASSUME ScriptsInv, play.plugin = "Debuggerlite", play' = play, heard < Len(Runners!calls), heard' = heard + 1,
           NEW ok, Runners!Replies(heard + 1, ok), UNCHANGED <<procs, m_procs, frames, hungUp>>
    PROVE  ScriptsInv'
<1>1. /\ DebugInv(procs, m_procs, frames, hungUp, Runners!calls, heard, results)
      /\ ResultsInv(heard, results) /\ heard \in Nat /\ heard' <= MaxCalls /\ MaxCalls \in Nat
      /\ heard' \in Nat /\ heard <= heard' /\ heard' <= Len(Runners!calls)
  BY DebugFacts
<1>2. heard' \in Runners!Calls /\ heard' \in 0..heard' /\ heard' > heard /\ heard' # 0 /\ heard' <= heard + 1
  BY <1>1 DEF Runners!Calls
<1>3. PICK id : id = heard'
  OBVIOUS
<1>4. More(results, results', id) /\ results[id] = <<>> /\ id \in 0..heard'
  BY <1>1, <1>2, <1>3, ReplyMore DEF ResultsInv
<1>5. LaterProcs(procs, procs') /\ m_procs' \subseteq DOMAIN procs' /\ DOMAIN procs' = DOMAIN procs /\ hungUp \subseteq hungUp'
  BY <1>1 DEF LaterProcs, DebugInv
<1>6. id \notin StoppingIn(Runners!calls, heard, results)
  BY <1>1, <1>3 DEF StoppingIn
<1>7. FramesInv(frames', DOMAIN procs', CalmIn(procs', Runners!calls, heard', hungUp'), StoppingIn(Runners!calls, heard', results'))
  BY <1>1, <1>4, <1>5, <1>6, FramesStay
<1>8. \A p \in DOMAIN procs : ProcShape(procs'[p]) /\ procs'[p].waitId = procs[p].waitId /\ procs[p].waitId # id
  BY <1>1, <1>3 DEF DebugInv, ProcInv, WaitOf
<1>9. \A p \in CalmIn(procs', Runners!calls, heard', hungUp') :
          /\ procs'[p] = procs[p]
          /\ Spinning(frames', p) => Spinning(frames, p)
          /\ procs[p].waitId # 0 => procs[p].waitId # id
  BY <1>8 DEF CalmIn
<1> QED
  BY <1>1, <1>2, <1>4, <1>5, <1>7, <1>8, <1>9, DebugSame

\* A call that comes in has no answer, makes the process of its number, and nobody waits in it.
LEMMA CallComes ==
    ASSUME ScriptsInv, play.plugin = "Debuggerlite", play' = play, heard < Len(Runners!calls), heard' = heard + 1
    PROVE  /\ DebugInv(procs, m_procs, frames, hungUp, Runners!calls, heard, results)
           /\ ResultsInv(heard, results) /\ heard \in Nat /\ heard' <= MaxCalls /\ MaxCalls \in Nat
           /\ heard' \in Nat /\ heard <= heard' /\ heard' <= heard + 1 /\ heard' <= Len(Runners!calls) /\ heard \in 0..heard'
           /\ heard' \in Runners!Calls /\ heard' \in 0..heard' /\ heard' \in 1..heard' /\ heard' # 0
           /\ results[heard'] = <<>> /\ heard' \notin StoppingIn(Runners!calls, heard, results)
           /\ heard' \notin DOMAIN procs /\ \A p \in DOMAIN procs : procs[p].waitId # heard'
           /\ Runners!calls[heard'].ws # 0
<1>1. /\ DebugInv(procs, m_procs, frames, hungUp, Runners!calls, heard, results)
      /\ ResultsInv(heard, results) /\ heard \in Nat /\ heard' <= MaxCalls /\ MaxCalls \in Nat
      /\ heard' \in Nat /\ heard <= heard' /\ heard' <= Len(Runners!calls)
  BY DebugFacts
<1>2. /\ heard' \in Runners!Calls /\ heard' \in 0..heard' /\ heard' \in 1..heard' /\ heard' > heard /\ heard' # 0 /\ heard' <= heard + 1
      /\ heard' \notin 1..heard /\ heard \in 0..heard'
  BY <1>1 DEF Runners!Calls
<1>3. results[heard'] = <<>>
  BY <1>1, <1>2 DEF ResultsInv
<1>4. heard' \notin StoppingIn(Runners!calls, heard, results)
  BY <1>1, <1>2 DEF StoppingIn
<1>5. heard' \notin DOMAIN procs
  BY <1>1, <1>2 DEF DebugInv
<1>6. \A p \in DOMAIN procs : procs[p].waitId # heard'
  BY <1>1, <1>2 DEF DebugInv, ProcInv, WaitOf
<1>7. Runners!calls[heard'].ws # 0
  <2>1. heard' \in 1..Len(Runners!calls)
    BY <1>1, <1>2
  <2> QED
    BY <2>1, DebugFacts
<1> QED
  BY <1>1, <1>2, <1>3, <1>4, <1>5, <1>6, <1>7

\* _handlePrepareCommand makes a process.
LEMMA PrepareInv ==
    ASSUME ScriptsInv, play.plugin = "Debuggerlite", play' = play, heard < Len(Runners!calls), heard' = heard + 1,
           UNCHANGED hungUp, Runners!handlePrepareCommand(heard + 1)
    PROVE  ScriptsInv'
<1>1. /\ DebugInv(procs, m_procs, frames, hungUp, Runners!calls, heard, results)
      /\ heard' \in Nat /\ heard <= heard' /\ heard' <= heard + 1 /\ heard' <= Len(Runners!calls)
      /\ heard' \in Runners!Calls /\ heard' \in 0..heard' /\ heard' \in 1..heard'
      /\ results[heard'] = <<>> /\ heard' \notin StoppingIn(Runners!calls, heard, results)
      /\ heard' \notin DOMAIN procs /\ \A p \in DOMAIN procs : procs[p].waitId # heard'
  BY CallComes
<1>2. CASE Runners!Replies(heard + 1, FALSE) /\ UNCHANGED <<procs, m_procs, frames>>
  BY <1>2, AnsweredCall
<1>3. CASE /\ procs' = Runners!With(procs, heard + 1, Runners!Process(Runners!calls[heard + 1].ws, "prepared"))
           /\ m_procs' = m_procs \cup {heard + 1}
           /\ Runners!Replies(heard + 1, TRUE)
           /\ UNCHANGED frames
  <2>1. PICK id : id = heard'
    OBVIOUS
  <2>2. PICK made : made = Runners!Process(Runners!calls[heard + 1].ws, "prepared")
    OBVIOUS
  <2>3. DOMAIN procs' = DOMAIN procs \cup {id} /\ procs'[id] = made /\ \A p \in DOMAIN procs : procs'[p] = procs[p]
    <3>1. procs' = [q \in DOMAIN procs \cup {id} |-> IF q = id THEN made ELSE procs[q]]
      BY <1>3, <2>1, <2>2 DEF Runners!With
    <3> QED
      BY <1>1, <2>1, <3>1
  <2>4. ProcShape(made) /\ made.waitId = 0 /\ made.at = "prepared"
    BY <2>2 DEF Runners!Process, ProcShape
  <2>5. More(results, results', id) /\ results[id] = <<>> /\ id \in 0..heard' /\ id \notin StoppingIn(Runners!calls, heard, results)
    BY <1>1, <1>3, <2>1, ReplyMore
  <2>6. LaterProcs(procs, procs') /\ hungUp \subseteq hungUp'
    BY <2>3 DEF LaterProcs
  <2>7. m_procs' \subseteq DOMAIN procs' /\ DOMAIN procs' \subseteq 1..heard'
    <3>1. m_procs \subseteq DOMAIN procs /\ DOMAIN procs \subseteq 1..heard /\ heard \in Nat
      BY CallComes DEF DebugInv
    <3>2. DOMAIN procs \subseteq 1..heard' /\ m_procs' = m_procs \cup {id} /\ id \in 1..heard'
      BY <1>1, <1>3, <2>1, <3>1
    <3> QED
      BY <2>3, <3>1, <3>2
  <2>8. FramesInv(frames', DOMAIN procs', CalmIn(procs', Runners!calls, heard', hungUp'), StoppingIn(Runners!calls, heard', results'))
    BY <1>1, <1>3, <2>5, <2>6, FramesStay
  <2>9. ASSUME NEW p \in DOMAIN procs'
        PROVE  ProcInv(procs'[p], p, Runners!calls, heard', CalmIn(procs', Runners!calls, heard', hungUp'), frames', results')
    <3>1. CASE p = id
      BY <2>3, <2>4, <3>1 DEF ProcInv, CalmInv
    <3>2. CASE p # id
      <4>1. p \in DOMAIN procs /\ procs'[p] = procs[p] /\ procs[p].waitId # id
        BY <1>1, <2>1, <2>3, <2>9, <3>2
      <4>2. ProcShape(procs'[p])
        BY <1>1, <4>1 DEF DebugInv, ProcInv
      <4> QED
        BY <1>1, <1>3, <2>5, <2>6, <4>1, <4>2, ProcStays
    <3> QED
      BY <3>1, <3>2
  <2> QED
    BY <1>1, <2>5, <2>6, <2>7, <2>8, <2>9, DebugStep
<1> QED
  BY <1>2, <1>3 DEF Runners!handlePrepareCommand

\* DProcess::start: what does not run forgets that a Wait has come.
LEMMA StartInv ==
    ASSUME ScriptsInv, play.plugin = "Debuggerlite", play' = play, heard < Len(Runners!calls), heard' = heard + 1,
           UNCHANGED hungUp, NEW S, Runners!StartThese(heard + 1, S)
    PROVE  ScriptsInv'
<1>1. /\ DebugInv(procs, m_procs, frames, hungUp, Runners!calls, heard, results) /\ heard \in Nat
      /\ heard' \in Nat /\ heard <= heard' /\ heard' <= heard + 1 /\ heard' <= Len(Runners!calls)
      /\ heard' \in Runners!Calls /\ heard' \in 0..heard' /\ heard' \in 1..heard'
      /\ results[heard'] = <<>> /\ heard' \notin StoppingIn(Runners!calls, heard, results)
      /\ heard' \notin DOMAIN procs /\ \A p \in DOMAIN procs : procs[p].waitId # heard'
  BY CallComes
<1>2. PICK idle, failed : /\ idle = {p \in S : ~Runners!isRunning(p)}
                          /\ procs' = [p \in DOMAIN procs |-> IF p \in idle THEN Runners!Started(p, p \notin failed) ELSE procs[p]]
                          /\ Runners!Replies(heard + 1, failed = {}) /\ UNCHANGED <<m_procs, frames>>
  BY DEF Runners!StartThese
<1>3. PICK id : id = heard'
  OBVIOUS
<1>4. More(results, results', id) /\ results[id] = <<>> /\ id \in 0..heard' /\ id \notin StoppingIn(Runners!calls, heard, results)
  BY <1>1, <1>2, <1>3, ReplyMore
<1>5. \A p \in DOMAIN procs : ProcShape(procs[p])
  BY <1>1 DEF DebugInv, ProcInv
<1>6. ASSUME NEW p \in DOMAIN procs, p \in idle
      PROVE  /\ ProcShape(procs'[p]) /\ procs'[p].ws = procs[p].ws /\ procs'[p].waitId = procs[p].waitId
             /\ procs'[p].waitCmdFinished = FALSE /\ procs'[p].at \in {"running", procs[p].at}
             /\ procs'[p].nested = (procs[p].nested \/ Runners!SpinsFor(p))
  <2>1. procs'[p] = Runners!Started(p, p \notin failed)
    BY <1>2, <1>6
  <2>2. PICK spins : spins = (procs[p].nested \/ Runners!SpinsFor(p))
    OBVIOUS
  <2>3. PICK at : at = IF p \notin failed THEN "running" ELSE procs[p].at
    OBVIOUS
  <2>4. procs'[p] = [ws |-> procs[p].ws, at |-> at, waitId |-> procs[p].waitId, waitCmdFinished |-> FALSE, nested |-> spins]
    BY <1>5, <2>1, <2>2, <2>3 DEF ProcShape, Runners!Started
  <2> QED
    BY <2>2, <2>3, <2>4 DEF ProcShape
<1>7. \A p \in DOMAIN procs : p \notin idle => procs'[p] = procs[p]
  BY <1>2
<1>8. DOMAIN procs' = DOMAIN procs
  BY <1>2
<1>9. LaterProcs(procs, procs') /\ hungUp \subseteq hungUp'
  <2>1. ASSUME NEW p \in DOMAIN procs PROVE procs'[p].ws = procs[p].ws /\ (procs[p].nested => procs'[p].nested)
    <3>1. CASE p \in idle
      BY <1>6, <3>1
    <3>2. CASE p \notin idle
      BY <1>7, <3>2
    <3> QED
      BY <3>1, <3>2
  <2> QED
    BY <1>8, <2>1 DEF LaterProcs
<1>10. m_procs' \subseteq DOMAIN procs' /\ DOMAIN procs' \subseteq 1..heard'
  BY <1>1, <1>2, <1>8 DEF DebugInv
<1>11. FramesInv(frames', DOMAIN procs', CalmIn(procs', Runners!calls, heard', hungUp'), StoppingIn(Runners!calls, heard', results'))
  BY <1>1, <1>2, <1>4, <1>9, FramesStay
<1>12. ASSUME NEW p \in DOMAIN procs'
       PROVE  ProcInv(procs'[p], p, Runners!calls, heard', CalmIn(procs', Runners!calls, heard', hungUp'), frames', results')
  <2>1. CASE p \in idle
    <3>1. ASSUME p \in CalmIn(procs', Runners!calls, heard', hungUp') PROVE CalmInv(procs'[p], p, frames', results')
      <4>1. p \in CalmIn(procs, Runners!calls, heard, hungUp)
        BY <1>1, <1>8, <1>9, <3>1, CalmLater
      <4>2. CalmInv(procs[p], p, frames, results)
        BY <1>1, <1>8, <4>1 DEF DebugInv, ProcInv
      <4>3. ~procs'[p].nested
        BY <3>1 DEF CalmIn
      <4>4. ~Runners!SpinsFor(p)
        BY <1>6, <1>8, <2>1, <4>3
      <4>5. DOMAIN frames = 1..Len(frames)
        BY <1>1 DEF DebugInv, FramesInv, IsSeq
      <4>6. ~Spinning(frames', p)
        BY <1>2, <4>4, <4>5 DEF Runners!SpinsFor, Spinning
      <4>7. procs'[p].at # "killed" /\ procs'[p].waitCmdFinished = FALSE
        BY <1>6, <1>8, <2>1, <4>2 DEF CalmInv
      <4> QED
        BY <4>6, <4>7 DEF CalmInv
    <3>2. ProcInv(procs[p], p, Runners!calls, heard, CalmIn(procs, Runners!calls, heard, hungUp), frames, results)
      BY <1>1, <1>8 DEF DebugInv
    <3>3. ProcShape(procs'[p]) /\ procs'[p].ws = procs[p].ws /\ procs'[p].waitId = procs[p].waitId
      BY <1>6, <1>8, <2>1
    <3> QED
      BY <1>1, <3>1, <3>2, <3>3, ProcKept
  <2>2. CASE p \notin idle
    <3>1. p \in DOMAIN procs /\ procs'[p] = procs[p] /\ procs[p].waitId # id
      BY <1>1, <1>3, <1>7, <1>8, <2>2
    <3>2. ProcShape(procs'[p])
      BY <1>5, <3>1
    <3> QED
      BY <1>1, <1>2, <1>4, <1>9, <3>1, <3>2, ProcStays
  <2> QED
    BY <2>1, <2>2
<1> QED
  BY <1>1, <1>4, <1>9, <1>10, <1>11, <1>12, DebugStep

\* DebuggerLitePlugin::_handleWaitCommand.
LEMMA DebugWaitInv ==
    ASSUME ScriptsInv, play.plugin = "Debuggerlite", play' = play, heard < Len(Runners!calls), heard' = heard + 1,
           UNCHANGED hungUp, Runners!calls[heard + 1].api = "Wait", Runners!getProc(heard + 1), Runners!handleDebugWait(heard + 1)
    PROVE  ScriptsInv'
<1>1. /\ DebugInv(procs, m_procs, frames, hungUp, Runners!calls, heard, results) /\ heard \in Nat /\ ResultsInv(heard, results)
      /\ heard' \in Nat /\ heard <= heard' /\ heard' <= heard + 1 /\ heard' <= Len(Runners!calls) /\ heard' \in 1..heard'
      /\ results[heard'] = <<>> /\ 0 \in 0..heard'
  BY CallComes
<1>2. PICK id : id = heard'
  OBVIOUS
<1>3. PICK p : p = Runners!calls[id].of
  OBVIOUS
<1>4. p \in DOMAIN procs /\ p \in m_procs /\ procs[p].ws = Runners!calls[id].ws
  BY <1>1, <1>2, <1>3 DEF Runners!getProc, DebugInv
<1>5. procs' = [procs EXCEPT ![p].waitId = id, ![p].waitCmdFinished = TRUE] /\ UNCHANGED <<m_procs, frames, results>>
  BY <1>2, <1>3 DEF Runners!handleDebugWait
<1>6. \A q \in DOMAIN procs : ProcShape(procs[q])
  BY <1>1 DEF DebugInv, ProcInv
<1>7. DOMAIN procs' = DOMAIN procs /\ \A q \in DOMAIN procs : q # p => procs'[q] = procs[q]
  BY <1>4, <1>5
<1>8. procs'[p] = [ws |-> procs[p].ws, at |-> procs[p].at, waitId |-> id, waitCmdFinished |-> TRUE, nested |-> procs[p].nested]
  <2>1. procs[p] = [ws |-> procs[p].ws, at |-> procs[p].at, waitId |-> procs[p].waitId,
                    waitCmdFinished |-> procs[p].waitCmdFinished, nested |-> procs[p].nested]
    BY <1>4, <1>6 DEF ProcShape
  <2>2. procs'[p] = [procs[p] EXCEPT !.waitId = id, !.waitCmdFinished = TRUE]
    BY ONLY <1>4, <1>5, <2>1
  <2> QED
    BY ONLY <2>1, <2>2
<1>9. LaterProcs(procs, procs') /\ hungUp \subseteq hungUp'
  <2>1. procs'[p].ws = procs[p].ws /\ procs'[p].nested = procs[p].nested
    BY <1>8
  <2> QED
    BY <1>7, <2>1 DEF LaterProcs
<1>10. m_procs' \subseteq DOMAIN procs' /\ DOMAIN procs' \subseteq 1..heard'
  BY <1>1, <1>5, <1>7 DEF DebugInv
<1>11. More(results, results', 0) /\ 0 \notin StoppingIn(Runners!calls, heard, results)
  BY <1>1, <1>5, NoMore DEF StoppingIn
<1>12. FramesInv(frames', DOMAIN procs', CalmIn(procs', Runners!calls, heard', hungUp'), StoppingIn(Runners!calls, heard', results'))
  BY <1>1, <1>5, <1>9, <1>11, FramesStay
<1>13. ASSUME NEW q \in DOMAIN procs'
       PROVE  ProcInv(procs'[q], q, Runners!calls, heard', CalmIn(procs', Runners!calls, heard', hungUp'), frames', results')
  <2>1. CASE q = p
    <3>1. procs'[p].ws = procs[p].ws /\ procs'[p].at = procs[p].at /\ procs'[p].waitId = id /\ ProcShape(procs'[p])
      BY <1>8 DEF ProcShape
    <3>2. id \in WaitOf(Runners!calls, heard', p, procs'[p].ws)
      BY <1>1, <1>2, <1>3, <1>4, <3>1 DEF WaitOf
    <3>3. ASSUME p \in CalmIn(procs', Runners!calls, heard', hungUp') PROVE CalmInv(procs'[p], p, frames', results')
      <4>1. p \in CalmIn(procs, Runners!calls, heard, hungUp)
        BY <1>1, <1>4, <1>9, <3>3, CalmLater
      <4>2. CalmInv(procs[p], p, frames, results)
        BY <1>1, <1>4, <4>1 DEF DebugInv, ProcInv
      <4>3. results'[id] = <<>> /\ frames' = frames
        BY <1>1, <1>2, <1>5
      <4> QED
        BY <3>1, <4>2, <4>3 DEF CalmInv
    <3> QED
      BY <2>1, <3>1, <3>2, <3>3 DEF ProcInv
  <2>2. CASE q # p
    <3>1. q \in DOMAIN procs /\ procs'[q] = procs[q]
      BY <1>7, <2>2
    <3>2. ProcShape(procs'[q])
      BY <1>6, <3>1
    <3> QED
      BY <1>1, <1>5, <1>9, <1>11, <3>1, <3>2, ProcStays
  <2> QED
    BY <2>1, <2>2
<1> QED
  BY <1>1, <1>9, <1>10, <1>11, <1>12, <1>13, DebugStep

\* One slot more, that stops something, or one for the end of a process.
LEMMA FramesAppend ==
    ASSUME NEW fs, NEW D, NEW C, NEW U, FramesInv(fs, D, C, U), NEW f, FrameInv(f, D, C, U),
           \A k \in 1..Len(fs) : fs[k].id # f.id \/ f.id = 0,
           f.kind = "finish" => f.p \notin C \/ ~Spinning(fs, f.p)
    PROVE  /\ FramesInv(Append(fs, f), D, C, U)
           /\ \A q : Spinning(Append(fs, f), q) => Spinning(fs, q) \/ (f.kind = "finish" /\ f.p = q)
<1>1. IsSeq(fs)
  BY DEF FramesInv
<1>2. PICK gs : gs = Append(fs, f)
  OBVIOUS
<1>3. /\ IsSeq(gs) /\ Len(gs) = Len(fs) + 1 /\ gs[Len(fs) + 1] = f
      /\ \A k \in 1..Len(fs) : gs[k] = fs[k]
      /\ \A k \in 1..Len(gs) : k \in 1..Len(fs) \/ k = Len(fs) + 1
  BY <1>1, <1>2, SeqAppend
<1>4. \A k \in 1..Len(gs) : gs[k] = f \/ (k \in 1..Len(fs) /\ gs[k] = fs[k])
  BY <1>3
<1>5. \A k \in 1..Len(gs) : FrameInv(gs[k], D, C, U)
  BY <1>4 DEF FramesInv
<1>6. \A k \in 1..Len(fs) : Apart(f, fs[k], C) /\ Apart(fs[k], f, C)
  BY DEF Apart, Spinning
<1>7. \A j, k \in 1..Len(gs) : j # k => Apart(gs[j], gs[k], C)
  <2> SUFFICES ASSUME NEW j \in 1..Len(gs), NEW k \in 1..Len(gs), j # k PROVE Apart(gs[j], gs[k], C)
    OBVIOUS
  <2>1. CASE j \in 1..Len(fs) /\ k \in 1..Len(fs)
    BY <1>3, <2>1 DEF FramesInv
  <2>2. CASE j = Len(fs) + 1 /\ k \in 1..Len(fs)
    BY <1>3, <1>6, <2>2
  <2>3. CASE j \in 1..Len(fs) /\ k = Len(fs) + 1
    BY <1>3, <1>6, <2>3
  <2> QED
    BY <1>3, <2>1, <2>2, <2>3
<1>8. \A q : Spinning(gs, q) => Spinning(fs, q) \/ (f.kind = "finish" /\ f.p = q)
  BY <1>4 DEF Spinning
<1> QED
  BY <1>2, <1>3, <1>5, <1>7, <1>8 DEF FramesInv

\* Stopping: nobody calm is touched.  The slots below go on.
LEMMA StopNextInv ==
    ASSUME ScriptsInv, play.plugin = "Debuggerlite", play' = play, heard' \in Nat, heard <= heard', heard' <= heard + 1,
           heard' <= Len(Runners!calls), hungUp \subseteq hungUp',
           NEW id \in 0..heard', id # 0 => Runners!calls[id].api \in Stops /\ results[id] = <<>>,
           NEW pr, DOMAIN pr = DOMAIN procs,
           NEW Q, \A p \in Q : p \in DOMAIN procs => p \notin CalmIn(procs, Runners!calls, heard', hungUp'),
           \A p \in DOMAIN procs : /\ ProcShape(pr[p]) /\ pr[p].waitId = procs[p].waitId /\ pr[p].ws = procs[p].ws
                                   /\ pr[p].nested = procs[p].nested /\ (p \notin Q => pr[p] = procs[p]),
           NEW ps, IsSeq(ps), \A k \in 1..Len(ps) : ps[k] \in DOMAIN procs /\ ps[k] \in Q,
           NEW listed, listed \subseteq DOMAIN procs,
           NEW below,
           FramesInv(below, DOMAIN procs, CalmIn(procs, Runners!calls, heard, hungUp), StoppingIn(Runners!calls, heard, results)),
           \A k \in 1..Len(below) : below[k].id = id => id = 0,
           \A p : Spinning(below, p) => Spinning(frames, p),
           NEW delete, Runners!StopNext(id, ps, delete, below, pr, listed)
    PROVE  ScriptsInv'
<1>1. /\ DebugInv(procs, m_procs, frames, hungUp, Runners!calls, heard, results)
      /\ ResultsInv(heard, results) /\ heard \in Nat /\ heard' <= MaxCalls /\ MaxCalls \in Nat
  BY DebugFacts
<1>2. PICK first, deleted :
        /\ first \in 1..Len(ps) + 1
        /\ deleted \subseteq {ps[k] : k \in 1..first - 1}
        /\ m_procs' = listed \ deleted
        /\ procs' = [p \in DOMAIN pr |->
                       IF p \in deleted THEN [pr[p] EXCEPT !.at = "deleted", !.waitCmdFinished = TRUE]
                       ELSE IF first <= Len(ps) /\ p = ps[first] THEN [pr[p] EXCEPT !.at = Runners!Slain(@), !.waitCmdFinished = TRUE]
                       ELSE pr[p]]
        /\ \/ frames' = below /\ results' = Runners!Replied(results, id, TRUE, procs)
           \/ /\ first <= Len(ps)
              /\ frames' = Append(below, Runners!Frame("stop", ps[first], id, SubSeq(ps, first + 1, Len(ps)), delete))
              /\ UNCHANGED results
  <2>1. PICK first \in 1..Len(ps) + 1 :
          LET runsOn == first <= Len(ps)
              deleted == IF delete = "no" THEN {} ELSE {ps[n] : n \in 1..first - 1}
          IN /\ m_procs' = listed \ deleted
             /\ procs' = [p \in DOMAIN pr |->
                           IF p \in deleted THEN [pr[p] EXCEPT !.at = "deleted", !.waitCmdFinished = TRUE]
                           ELSE IF runsOn /\ p = ps[first] THEN [pr[p] EXCEPT !.at = Runners!Slain(@), !.waitCmdFinished = TRUE]
                           ELSE pr[p]]
             /\ \/ frames' = below /\ results' = Runners!Replied(results, id, TRUE, procs)
                \/ /\ runsOn
                   /\ frames' = Append(below, Runners!Frame("stop", ps[first], id, SubSeq(ps, first + 1, Len(ps)), delete))
                   /\ UNCHANGED results
    BY DEF Runners!StopNext
  <2>2. PICK deleted : deleted = IF delete = "no" THEN {} ELSE {ps[n] : n \in 1..first - 1}
    OBVIOUS
  <2>3. deleted \subseteq {ps[k] : k \in 1..first - 1}
    BY <2>2
  <2> QED
    BY <2>1, <2>2, <2>3, Zenon
<1>3. Len(ps) \in Nat
  BY DEF IsSeq
<1>4. deleted \subseteq Q /\ deleted \subseteq DOMAIN procs /\ (first <= Len(ps) => ps[first] \in Q /\ ps[first] \in DOMAIN procs)
  <2>0. first \in 1..Len(ps) + 1
    BY <1>2
  <2>1. \A k \in 1..first - 1 : k \in 1..Len(ps)
    BY ONLY <2>0, <1>3
  <2>2. first <= Len(ps) => first \in 1..Len(ps)
    BY ONLY <2>0, <1>3
  <2>3. deleted \subseteq {ps[k] : k \in 1..first - 1}
    BY <1>2
  <2> QED
    BY <2>1, <2>2, <2>3
<1>5. DOMAIN procs' = DOMAIN procs
  BY <1>2
<1>6. ASSUME NEW p \in DOMAIN procs
      PROVE  /\ ProcShape(procs'[p]) /\ procs'[p].waitId = procs[p].waitId /\ procs'[p].ws = procs[p].ws
             /\ procs'[p].nested = procs[p].nested /\ (p \notin Q => procs'[p] = procs[p])
  <2>1. procs'[p] = pr[p] \/ (p \in Q /\ \E at : procs'[p] = [pr[p] EXCEPT !.at = at, !.waitCmdFinished = TRUE])
    <3>1. PICK slain : slain = Runners!Slain(pr[p].at)
      OBVIOUS
    <3>2. \/ procs'[p] = pr[p]
          \/ p \in deleted /\ procs'[p] = [pr[p] EXCEPT !.at = "deleted", !.waitCmdFinished = TRUE]
          \/ first <= Len(ps) /\ p = ps[first] /\ procs'[p] = [pr[p] EXCEPT !.at = slain, !.waitCmdFinished = TRUE]
      BY <1>2, <1>5, <3>1
    <3> QED
      BY <1>4, <3>2
  <2>2. CASE procs'[p] = pr[p]
    BY <2>2
  <2>3. CASE p \in Q /\ \E at : procs'[p] = [pr[p] EXCEPT !.at = at, !.waitCmdFinished = TRUE]
    <3>1. PICK at : procs'[p] = [pr[p] EXCEPT !.at = at, !.waitCmdFinished = TRUE]
      BY <2>3
    <3>2. procs'[p] = [ws |-> pr[p].ws, at |-> at, waitId |-> pr[p].waitId, waitCmdFinished |-> TRUE, nested |-> pr[p].nested]
      BY <3>1 DEF ProcShape
    <3>3. ProcShape(procs'[p]) /\ procs'[p].waitId = pr[p].waitId /\ procs'[p].ws = pr[p].ws /\ procs'[p].nested = pr[p].nested
      BY <3>2 DEF ProcShape
    <3> QED
      BY <2>3, <3>3
  <2> QED
    BY <2>1, <2>2, <2>3
<1>7. LaterProcs(procs, procs')
  BY <1>5, <1>6 DEF LaterProcs
<1>8. \A p \in CalmIn(procs', Runners!calls, heard', hungUp') : p \in DOMAIN procs /\ p \notin Q
  <2>1. ASSUME NEW p \in CalmIn(procs', Runners!calls, heard', hungUp') PROVE p \in CalmIn(procs, Runners!calls, heard', hungUp')
    <3>1. p \in DOMAIN procs /\ procs'[p].ws = procs[p].ws /\ procs'[p].nested = procs[p].nested
      BY <1>5, <1>6 DEF CalmIn
    <3> QED
      BY <3>1 DEF CalmIn
  <2> QED
    BY <2>1 DEF CalmIn
<1>9. \A p \in DOMAIN procs : p \in CalmIn(procs', Runners!calls, heard', hungUp') => p \in CalmIn(procs, Runners!calls, heard, hungUp)
  BY <1>1, <1>7, CalmLater
<1>10. m_procs' \subseteq DOMAIN procs'
  BY <1>2, <1>5
<1>11. ASSUME NEW p \in CalmIn(procs', Runners!calls, heard', hungUp'), \A q : Spinning(frames', q) => Spinning(below, q)
       PROVE  procs'[p] = procs[p] /\ (Spinning(frames', p) => Spinning(frames, p)) /\ (procs[p].waitId # 0 => procs[p].waitId # id)
  <2>1. p \in DOMAIN procs /\ procs'[p] = procs[p]
    BY <1>6, <1>8, <1>11
  <2>2. procs[p].waitId # 0 => Runners!calls[procs[p].waitId].api = "Wait"
    BY <1>1, <2>1 DEF DebugInv, ProcInv, WaitOf
  <2>3. procs[p].waitId # 0 => procs[p].waitId # id
    BY <2>2 DEF Stops
  <2> QED
    BY <1>11, <2>1, <2>3
<1>12. CASE frames' = below /\ results' = Runners!Replied(results, id, TRUE, procs)
  <2>1. More(results, results', id)
    <3>1. results = [x \in Runners!Calls |-> results[x]] /\ \A x \in Runners!Calls : IsSeq(results[x])
      BY <1>1 DEF ResultsInv
    <3>2. id \in Runners!Calls \cup {0}
      BY <1>1 DEF Runners!Calls
    <3> QED
      BY <1>12, <3>1, <3>2, RepliedMore
  <2>2. \A x \in StoppingIn(Runners!calls, heard, results) : x # id => x \in StoppingIn(Runners!calls, heard', results')
    BY <1>1, <2>1, StoppingKept
  <2>3. \A k \in 1..Len(below) : below[k].id # 0 => below[k].id \in StoppingIn(Runners!calls, heard', results')
    BY <2>2 DEF FramesInv, FrameInv
  <2>4. FramesInv(frames', DOMAIN procs', CalmIn(procs', Runners!calls, heard', hungUp'), StoppingIn(Runners!calls, heard', results'))
    BY <1>5, <1>9, <1>12, <2>3, FramesKept
  <2>5. \A q : Spinning(frames', q) => Spinning(below, q)
    BY <1>12
  <2> QED
    BY <1>5, <1>6, <1>7, <1>10, <1>11, <2>1, <2>4, <2>5, DebugSame
<1>13. CASE /\ first <= Len(ps)
            /\ frames' = Append(below, Runners!Frame("stop", ps[first], id, SubSeq(ps, first + 1, Len(ps)), delete))
            /\ UNCHANGED results
  <2>1. More(results, results', 0) /\ 0 \in 0..heard'
    BY <1>1, <1>13, NoMore
  <2>2. \A x \in StoppingIn(Runners!calls, heard, results) : x \in StoppingIn(Runners!calls, heard', results')
    BY <1>1, <1>13 DEF StoppingIn
  <2>3. \A k \in 1..Len(below) : below[k].id # 0 => below[k].id \in StoppingIn(Runners!calls, heard', results')
    BY <2>2 DEF FramesInv, FrameInv
  <2>4. FramesInv(below, DOMAIN procs', CalmIn(procs', Runners!calls, heard', hungUp'), StoppingIn(Runners!calls, heard', results'))
    BY <1>5, <1>9, <2>3, FramesKept
  <2>5. PICK f : f = Runners!Frame("stop", ps[first], id, SubSeq(ps, first + 1, Len(ps)), delete)
    OBVIOUS
  <2>6. f = [kind |-> "stop", p |-> ps[first], id |-> id, rest |-> SubSeq(ps, first + 1, Len(ps)), delete |-> delete, quit |-> FALSE]
    BY <2>5 DEF Runners!Frame
  <2>7. PICK rest : rest = SubSeq(ps, first + 1, Len(ps))
    OBVIOUS
  <2>8. IsSeq(rest) /\ \A k \in 1..Len(rest) : rest[k] \in DOMAIN procs /\ rest[k] \in Q
    <3>0. first \in 1..Len(ps) + 1 /\ first <= Len(ps)
      BY <1>2, <1>13
    <3>1. first + 1 \in 1..Len(ps) + 1 /\ Len(ps) \in 0..Len(ps)
      BY ONLY <1>3, <3>0
    <3>2. IsSeq(rest) /\ \A k \in 1..Len(rest) : k + (first + 1) - 1 \in 1..Len(ps) /\ rest[k] = ps[k + (first + 1) - 1]
      <4>1. PICK i : i = first + 1
        OBVIOUS
      <4>2. PICK j : j = Len(ps)
        OBVIOUS
      <4> QED
        BY <2>7, <3>1, <4>1, <4>2, SeqPart
    <3> QED
      BY <3>2
  <2>9. id # 0 => id \in StoppingIn(Runners!calls, heard', results')
    BY <1>1, <1>13 DEF StoppingIn
  <2>10. FrameInv(f, DOMAIN procs', CalmIn(procs', Runners!calls, heard', hungUp'), StoppingIn(Runners!calls, heard', results'))
    <3>1. f.kind = "stop" /\ f.p = ps[first] /\ f.id = id /\ f.rest = rest
          /\ f = [kind |-> f.kind, p |-> f.p, id |-> f.id, rest |-> f.rest, delete |-> f.delete, quit |-> f.quit]
      BY <2>6, <2>7
    <3>2. f.p \in DOMAIN procs' /\ f.p \notin CalmIn(procs', Runners!calls, heard', hungUp')
      BY <1>4, <1>5, <1>8, <1>13, <3>1
    <3>3. \A k \in 1..Len(rest) : rest[k] \in DOMAIN procs' \ CalmIn(procs', Runners!calls, heard', hungUp')
      BY <1>5, <1>8, <2>8
    <3> QED
      BY <2>8, <2>9, <3>1, <3>2, <3>3 DEF FrameInv
  <2>11. f.kind = "stop" /\ f.id = id
    BY <2>6
  <2>12. FramesInv(frames', DOMAIN procs', CalmIn(procs', Runners!calls, heard', hungUp'), StoppingIn(Runners!calls, heard', results'))
         /\ \A q : Spinning(frames', q) => Spinning(below, q)
    <3>1. frames' = Append(below, f)
      BY <1>13, <2>5
    <3>2. \A k \in 1..Len(below) : below[k].id # f.id \/ f.id = 0
      BY <2>11
    <3> QED
      BY <2>4, <2>10, <2>11, <3>1, <3>2, FramesAppend
  <2> QED
    BY <1>5, <1>6, <1>7, <1>10, <1>11, <2>1, <2>12, DebugSame
<1> QED
  BY <1>2, <1>12, <1>13

\* A slot's call is not the one that comes in, and is answered by it alone.
LEMMA NotTheirs ==
    ASSUME ScriptsInv, play.plugin = "Debuggerlite",
           NEW id, id \notin StoppingIn(Runners!calls, heard, results)
    PROVE  /\ FramesInv(frames, DOMAIN procs, CalmIn(procs, Runners!calls, heard, hungUp), StoppingIn(Runners!calls, heard, results))
           /\ \A k \in 1..Len(frames) : frames[k].id = id => id = 0
<1>1. FramesInv(frames, DOMAIN procs, CalmIn(procs, Runners!calls, heard, hungUp), StoppingIn(Runners!calls, heard, results))
  BY DebugFacts DEF DebugInv
<1> QED
  BY <1>1 DEF FramesInv, FrameInv

\* What stops processes that are not calm, from outside.
LEMMA StopSome ==
    ASSUME ScriptsInv, play.plugin = "Debuggerlite", play' = play, heard' \in Nat, heard <= heard', heard' <= heard + 1,
           heard' <= Len(Runners!calls), hungUp \subseteq hungUp',
           NEW id \in 0..heard', id # 0 => Runners!calls[id].api \in Stops /\ results[id] = <<>>,
           id \notin StoppingIn(Runners!calls, heard, results),
           NEW Q, \A p \in Q : p \in DOMAIN procs /\ p \notin CalmIn(procs, Runners!calls, heard', hungUp'),
           NEW ps, IsSeq(ps), \A k \in 1..Len(ps) : ps[k] \in Q,
           NEW delete, Runners!StopNext(id, ps, delete, frames, procs, m_procs)
    PROVE  ScriptsInv'
<1>1. DebugInv(procs, m_procs, frames, hungUp, Runners!calls, heard, results)
  BY DebugFacts
<1>2. /\ FramesInv(frames, DOMAIN procs, CalmIn(procs, Runners!calls, heard, hungUp), StoppingIn(Runners!calls, heard, results))
      /\ \A k \in 1..Len(frames) : frames[k].id = id => id = 0
  BY NotTheirs
<1>3. \A p \in DOMAIN procs : ProcShape(procs[p])
  BY <1>1 DEF DebugInv, ProcInv
<1>4. m_procs \subseteq DOMAIN procs
  BY <1>1 DEF DebugInv
<1> QED
  BY <1>2, <1>3, <1>4, StopNextInv

\* _handleStopCommand.
LEMMA StopInv ==
    ASSUME ScriptsInv, play.plugin = "Debuggerlite", play' = play, heard < Len(Runners!calls), heard' = heard + 1,
           UNCHANGED hungUp, Runners!calls[heard + 1].api \in {"Stop", "EmergencyStop"}, Runners!getProc(heard + 1),
           Runners!handleStop(heard + 1)
    PROVE  ScriptsInv'
<1>1. /\ DebugInv(procs, m_procs, frames, hungUp, Runners!calls, heard, results)
      /\ heard' \in Nat /\ heard <= heard' /\ heard' <= heard + 1 /\ heard' <= Len(Runners!calls) /\ heard' \in 1..heard'
      /\ heard' \in 0..heard' /\ results[heard'] = <<>> /\ heard' \notin StoppingIn(Runners!calls, heard, results)
  BY CallComes
<1>2. PICK id : id = heard'
  OBVIOUS
<1>3. PICK p : p = Runners!calls[id].of
  OBVIOUS
<1>4. p \in DOMAIN procs /\ procs[p].ws = Runners!calls[id].ws /\ Runners!calls[id].api \in Stops
  BY <1>1, <1>2, <1>3 DEF Runners!getProc, DebugInv, Stops
<1>5. PICK Q : Q = {p}
  OBVIOUS
<1>6. \A q \in Q : q \in DOMAIN procs /\ q \notin CalmIn(procs, Runners!calls, heard', hungUp')
  BY <1>1, <1>2, <1>4, <1>5 DEF CalmIn
<1>7. PICK ps : ps = <<p>>
  OBVIOUS
<1>8. IsSeq(ps) /\ \A k \in 1..Len(ps) : ps[k] \in Q
  <2>1. Len(ps) = 1 /\ ps[1] = p /\ ps = [k \in 1..1 |-> ps[k]]
    BY ONLY <1>7
  <2> QED
    BY ONLY <1>5, <2>1 DEF IsSeq
<1>9. Runners!StopNext(id, ps, "then", frames, procs, m_procs)
  BY <1>2, <1>3, <1>7 DEF Runners!handleStop
<1>10. id \in 0..heard' /\ (id # 0 => Runners!calls[id].api \in Stops /\ results[id] = <<>>)
       /\ id \notin StoppingIn(Runners!calls, heard, results) /\ hungUp \subseteq hungUp'
  BY <1>1, <1>2, <1>4
<1>11. PICK delete : delete = "then"
  OBVIOUS
<1>12. Runners!StopNext(id, ps, delete, frames, procs, m_procs)
  BY <1>9, <1>11
<1> QED
  BY <1>1, <1>6, <1>8, <1>10, <1>12, StopSome

\* The cardinality that ScriptRunners takes from FiniteSets is the one the theorems are about.
LEMMA SameCardinality == \A S : Runners!Cardinality(S) = Cardinality(S)
BY DEF Runners!Cardinality, Cardinality

\* Processes in the order of QMap.
LEMMA InOrderSeq ==
    ASSUME ScriptsInv, play.plugin = "Debuggerlite", NEW Q, Q \subseteq m_procs, NEW ps \in Runners!InOrder(Q)
    PROVE  IsSeq(ps) /\ \A k \in 1..Len(ps) : ps[k] \in Q
<1>1. m_procs \subseteq DOMAIN procs /\ DOMAIN procs \subseteq 1..heard /\ heard \in Nat
  BY DebugFacts DEF DebugInv
<1>2. IsFiniteSet(Q)
  <2>1. IsFiniteSet(1..heard)
    BY <1>1, FS_Interval
  <2>2. Q \subseteq 1..heard
    BY <1>1
  <2> QED
    BY <2>1, <2>2, FS_Subset
<1>3. Cardinality(Q) \in Nat
  BY <1>2, FS_CardinalityType
<1>4. ps \in [1..Cardinality(Q) -> Q]
  BY ONLY ps \in Runners!InOrder(Q), SameCardinality DEF Runners!InOrder
<1>5. ps = [k \in 1..Cardinality(Q) |-> ps[k]] /\ \A k \in 1..Cardinality(Q) : ps[k] \in Q
  BY <1>4
<1>6. ps \in Seq(Q)
  BY <1>3, <1>5, IsASeq
<1>7. DOMAIN ps = 1..Len(ps) /\ Len(ps) \in Nat
  BY <1>6, LenProperties
<1>8. Len(ps) = Cardinality(Q)
  <2>1. DOMAIN ps = 1..Cardinality(Q)
    BY <1>5
  <2> QED
    BY <1>3, <1>7, <2>1
<1> QED
  BY <1>3, <1>4, <1>5, <1>8 DEF IsSeq

\* _handleStopAllCommand and _handleCloseWebSocket stop what is listed, in the order of QMap.
LEMMA StopTheseInv ==
    ASSUME ScriptsInv, play.plugin = "Debuggerlite", play' = play, heard' \in Nat, heard <= heard', heard' <= heard + 1,
           heard' <= Len(Runners!calls), hungUp \subseteq hungUp',
           NEW id \in 0..heard', id # 0 => Runners!calls[id].api \in Stops /\ results[id] = <<>>,
           id \notin StoppingIn(Runners!calls, heard, results),
           NEW Q, Q \subseteq m_procs, \A p \in Q : p \notin CalmIn(procs, Runners!calls, heard', hungUp'),
           NEW delete, Runners!StopThese(id, Q, delete)
    PROVE  ScriptsInv'
<1>1. m_procs \subseteq DOMAIN procs
  BY DebugFacts DEF DebugInv
<1>2. PICK ps \in Runners!InOrder(Q) : Runners!StopNext(id, ps, delete, frames, procs, m_procs)
  BY DEF Runners!StopThese
<1>3. IsSeq(ps) /\ \A k \in 1..Len(ps) : ps[k] \in Q
  BY <1>2, InOrderSeq
<1>4. \A p \in Q : p \in DOMAIN procs /\ p \notin CalmIn(procs, Runners!calls, heard', hungUp')
  BY <1>1
<1> QED
  BY <1>2, <1>3, <1>4, StopSome

\* _handleStopAllCommand.
LEMMA StopAllInv ==
    ASSUME ScriptsInv, play.plugin = "Debuggerlite", play' = play, heard < Len(Runners!calls), heard' = heard + 1,
           UNCHANGED hungUp, Runners!calls[heard + 1].api = "StopAll", Runners!handleStopAllCommand(heard + 1)
    PROVE  ScriptsInv'
<1>1. /\ DebugInv(procs, m_procs, frames, hungUp, Runners!calls, heard, results)
      /\ heard' \in Nat /\ heard <= heard' /\ heard' <= heard + 1 /\ heard' <= Len(Runners!calls) /\ heard' \in 1..heard'
      /\ heard' \in 0..heard' /\ results[heard'] = <<>> /\ heard' \notin StoppingIn(Runners!calls, heard, results)
      /\ Runners!calls[heard'].ws # 0
  BY CallComes
<1>2. PICK id : id = heard'
  OBVIOUS
<1>3. PICK Q : Q = Runners!Of(Runners!calls[id].ws)
  OBVIOUS
<1>4. Q \subseteq m_procs /\ \A p \in Q : procs[p].ws = Runners!calls[id].ws
  BY <1>1, <1>2, <1>3 DEF Runners!Of
<1>5. Runners!calls[id].api \in Stops
  BY <1>2 DEF Stops
<1>6. \A p \in Q : p \notin CalmIn(procs, Runners!calls, heard', hungUp')
  BY <1>1, <1>2, <1>4, <1>5 DEF CalmIn
<1>7. PICK delete : delete = "no"
  OBVIOUS
<1>8. Runners!StopThese(id, Q, delete)
  BY <1>2, <1>3, <1>7 DEF Runners!handleStopAllCommand
<1>9. id \in 0..heard' /\ (id # 0 => Runners!calls[id].api \in Stops /\ results[id] = <<>>)
      /\ id \notin StoppingIn(Runners!calls, heard, results) /\ hungUp \subseteq hungUp'
  BY <1>1, <1>2, <1>5
<1> QED
  BY <1>1, <1>4, <1>6, <1>8, <1>9, StopTheseInv

\* A client hangs up: from now on nobody is calm.
LEMMA CloseSome ==
    ASSUME ScriptsInv, play.plugin = "Debuggerlite", UNCHANGED <<play, heard>>,
           NEW ws, hungUp' = hungUp \cup {ws}, Runners!handleCloseWebSocket(ws)
    PROVE  ScriptsInv'
<1>1. heard \in Nat /\ heard <= Len(Runners!calls)
  BY DebugFacts
<1>2. heard' \in Nat /\ heard <= heard' /\ heard' <= heard + 1 /\ heard' <= Len(Runners!calls) /\ 0 \in 0..heard'
  BY <1>1
<1>3. PICK Q : Q = Runners!Of(ws)
  OBVIOUS
<1>4. Q \subseteq m_procs
  BY <1>3 DEF Runners!Of
<1>5. PICK delete : delete = "then"
  OBVIOUS
<1>6. Runners!StopThese(0, Q, delete)
  BY <1>3, <1>5 DEF Runners!handleCloseWebSocket
<1>7. hungUp \subseteq hungUp' /\ hungUp' # {}
  OBVIOUS
<1>8. \A p \in Q : p \notin CalmIn(procs, Runners!calls, heard', hungUp')
  BY <1>7 DEF CalmIn
<1>9. 0 \notin StoppingIn(Runners!calls, heard, results)
  BY <1>1 DEF StoppingIn
<1>10. PICK id : id = 0
  OBVIOUS
<1> QED
  BY <1>2, <1>4, <1>6, <1>7, <1>8, <1>9, <1>10, StopTheseInv

\* Slot g is f but for whether its loop has quit and what it deletes.
Alike(f, g) ==
    /\ g = [kind |-> g.kind, p |-> g.p, id |-> g.id, rest |-> g.rest, delete |-> g.delete, quit |-> g.quit]
    /\ g.kind = f.kind /\ g.p = f.p /\ g.id = f.id /\ g.rest = f.rest

\* Slots that are alike are as good.
LEMMA FramesAlike ==
    ASSUME NEW fs, NEW D, NEW C, NEW U, FramesInv(fs, D, C, U), NEW gs, IsSeq(gs), Len(gs) = Len(fs),
           \A k \in 1..Len(fs) : Alike(fs[k], gs[k])
    PROVE  FramesInv(gs, D, C, U) /\ (\A q : Spinning(gs, q) => Spinning(fs, q)) /\ \A k \in 1..Len(fs) : gs[k].id = fs[k].id
<1>1. ASSUME NEW k \in 1..Len(fs) PROVE FrameInv(gs[k], D, C, U)
  <2>1. FrameInv(fs[k], D, C, U) /\ Alike(fs[k], gs[k])
    BY DEF FramesInv
  <2>2. PICK f, g : f = fs[k] /\ g = gs[k]
    OBVIOUS
  <2>3. FrameInv(f, D, C, U) /\ Alike(f, g)
    BY <2>1, <2>2
  <2>4. FrameInv(g, D, C, U)
    BY ONLY <2>3 DEF FrameInv, Alike
  <2> QED
    BY <2>2, <2>4
<1>2. ASSUME NEW j \in 1..Len(fs), NEW k \in 1..Len(fs), j # k PROVE Apart(gs[j], gs[k], C)
  <2>1. Apart(fs[j], fs[k], C)
    BY <1>2 DEF FramesInv
  <2>2. Alike(fs[j], gs[j]) /\ Alike(fs[k], gs[k])
    OBVIOUS
  <2> QED
    BY ONLY <2>1, <2>2 DEF Apart, Alike
<1>3. \A q : Spinning(gs, q) => Spinning(fs, q)
  BY DEF Spinning, Alike
<1>4. \A k \in 1..Len(fs) : gs[k].id = fs[k].id
  BY DEF Alike
<1> QED
  BY <1>1, <1>2, <1>3, <1>4 DEF FramesInv

\* To quit the loops of p changes nothing else of the slots.
LEMMA QuitAlike ==
    ASSUME NEW fs, NEW D, NEW C, NEW U, FramesInv(fs, D, C, U), NEW p
    PROVE  /\ FramesInv(Runners!Quit(fs, p), D, C, U) /\ Len(Runners!Quit(fs, p)) = Len(fs)
           /\ \A q : Spinning(Runners!Quit(fs, p), q) => Spinning(fs, q)
           /\ \A k \in 1..Len(fs) : Runners!Quit(fs, p)[k].id = fs[k].id
<1>1. IsSeq(fs) /\ Len(fs) \in Nat /\ DOMAIN fs = 1..Len(fs)
  BY DEF FramesInv, IsSeq
<1>2. PICK gs : gs = Runners!Quit(fs, p)
  OBVIOUS
<1>3. gs = [n \in 1..Len(fs) |-> [fs[n] EXCEPT !.quit = @ \/ (fs[n].kind = "stop" /\ fs[n].p = p)]]
  BY <1>1, <1>2 DEF Runners!Quit
<1>4. ASSUME NEW k \in 1..Len(fs) PROVE Alike(fs[k], gs[k])
  <2>1. fs[k] = [kind |-> fs[k].kind, p |-> fs[k].p, id |-> fs[k].id, rest |-> fs[k].rest, delete |-> fs[k].delete, quit |-> fs[k].quit]
    BY DEF FramesInv, FrameInv
  <2>2. PICK b : b = (fs[k].quit \/ (fs[k].kind = "stop" /\ fs[k].p = p))
    OBVIOUS
  <2>3. gs[k] = [fs[k] EXCEPT !.quit = b]
    BY <1>3, <2>2
  <2>4. gs[k] = [kind |-> fs[k].kind, p |-> fs[k].p, id |-> fs[k].id, rest |-> fs[k].rest, delete |-> fs[k].delete, quit |-> b]
    BY ONLY <2>1, <2>3
  <2> QED
    BY ONLY <2>4 DEF Alike
<1>5. IsSeq(gs) /\ Len(gs) = Len(fs)
  <2>1. DOMAIN gs = 1..Len(fs) /\ gs = [n \in 1..Len(fs) |-> gs[n]]
    BY ONLY <1>3
  <2>2. gs \in Seq({gs[n] : n \in 1..Len(fs)})
    BY ONLY <1>1, <2>1, IsASeq
  <2>3. DOMAIN gs = 1..Len(gs) /\ Len(gs) \in Nat
    BY ONLY <2>2, LenProperties
  <2>4. Len(gs) = Len(fs)
    BY ONLY <1>1, <2>1, <2>3
  <2> QED
    BY ONLY <1>1, <2>1, <2>4 DEF IsSeq
<1>6. FramesInv(gs, D, C, U) /\ (\A q : Spinning(gs, q) => Spinning(fs, q)) /\ \A k \in 1..Len(fs) : gs[k].id = fs[k].id
  BY <1>4, <1>5, FramesAlike
<1> QED
  BY <1>2, <1>5, <1>6

\* slotFinish: the Wait of process p is answered.
LEMMA WaitAnswered ==
    ASSUME ScriptsInv, play.plugin = "Debuggerlite", UNCHANGED <<play, heard, hungUp, m_procs>>, NEW p \in DOMAIN procs,
           DOMAIN procs' = DOMAIN procs, \A q \in DOMAIN procs : q # p => procs'[q] = procs[q],
           ProcShape(procs'[p]), procs'[p].ws = procs[p].ws, procs'[p].waitId = procs[p].waitId, procs'[p].nested = procs[p].nested,
           More(results, results', procs[p].waitId),
           FramesInv(frames', DOMAIN procs, CalmIn(procs, Runners!calls, heard, hungUp), StoppingIn(Runners!calls, heard, results)),
           \A q : Spinning(frames', q) => Spinning(frames, q),
           p \in CalmIn(procs, Runners!calls, heard, hungUp) =>
               /\ procs[p].waitId # 0 => results[procs[p].waitId] = <<>>
               /\ procs'[p].at \notin {"running", "killed"} /\ ~Spinning(frames', p)
    PROVE  ScriptsInv'
<1>1. /\ DebugInv(procs, m_procs, frames, hungUp, Runners!calls, heard, results) /\ heard \in Nat /\ heard <= MaxCalls
      /\ heard <= Len(Runners!calls) /\ MaxCalls \in Nat
  BY DebugFacts
<1>2. heard' \in Nat /\ heard <= heard' /\ heard' <= heard + 1 /\ heard' <= Len(Runners!calls) /\ hungUp \subseteq hungUp'
  BY <1>1
<1>3. PICK id : id = procs[p].waitId
  OBVIOUS
<1>4. id \in WaitOf(Runners!calls, heard, p, procs[p].ws) \cup {0}
  BY <1>1, <1>3 DEF DebugInv, ProcInv
<1>5. id \in 0..heard' /\ id \notin StoppingIn(Runners!calls, heard, results)
  BY <1>1, <1>2, <1>4 DEF WaitOf, StoppingIn, Stops
<1>6. More(results, results', id)
  BY <1>3
<1>7. LaterProcs(procs, procs')
  BY DEF LaterProcs
<1>8. id = 0 \/ results[id] = <<>> \/ Excused(procs', Runners!calls, heard', hungUp', id)
  <2>1. CASE p \in CalmIn(procs, Runners!calls, heard, hungUp)
    BY <1>3, <2>1
  <2>2. CASE p \notin CalmIn(procs, Runners!calls, heard, hungUp) /\ id # 0
    <3>1. Excused(procs, Runners!calls, heard, hungUp, id)
      BY <1>4, <2>2 DEF Excused
    <3> QED
      BY <1>1, <1>2, <1>7, <3>1, ExcusedLater
  <2> QED
    BY <2>1, <2>2
<1>9. \A q \in DOMAIN procs : q \in CalmIn(procs', Runners!calls, heard', hungUp') => q \in CalmIn(procs, Runners!calls, heard, hungUp)
  BY <1>1, <1>2, <1>7, CalmLater
<1>10. FramesInv(frames', DOMAIN procs', CalmIn(procs', Runners!calls, heard', hungUp'), StoppingIn(Runners!calls, heard', results'))
  <2>1. \A x \in StoppingIn(Runners!calls, heard, results) : x \in StoppingIn(Runners!calls, heard', results')
    BY <1>1, <1>2, <1>5, <1>6, StoppingKept
  <2>2. \A k \in 1..Len(frames') : frames'[k].id # 0 => frames'[k].id \in StoppingIn(Runners!calls, heard', results')
    BY <2>1 DEF FramesInv, FrameInv
  <2>3. PICK fs : fs = frames'
    OBVIOUS
  <2> QED
    BY <1>9, <2>2, <2>3, FramesKept
<1>11. m_procs' \subseteq DOMAIN procs' /\ DOMAIN procs' \subseteq 1..heard'
  BY <1>1 DEF DebugInv
<1>12. ASSUME NEW q \in DOMAIN procs'
       PROVE  ProcInv(procs'[q], q, Runners!calls, heard', CalmIn(procs', Runners!calls, heard', hungUp'), frames', results')
  <2>1. ProcInv(procs[q], q, Runners!calls, heard, CalmIn(procs, Runners!calls, heard, hungUp), frames, results)
    BY <1>1 DEF DebugInv
  <2>2. CASE q = p
    <3>1. q \in CalmIn(procs', Runners!calls, heard', hungUp') => CalmInv(procs'[q], q, frames', results')
      BY <1>9, <2>2 DEF CalmInv
    <3>2. ProcShape(procs'[q]) /\ procs'[q].ws = procs[q].ws /\ procs'[q].waitId = procs[q].waitId
      BY <2>2
    <3> QED
      BY <1>1, <1>2, <2>1, <3>1, <3>2, ProcKept
  <2>3. CASE q # p
    <3>1. procs'[q] = procs[q] /\ ProcShape(procs'[q]) /\ q \in DOMAIN procs
      BY <2>1, <2>3 DEF ProcInv
    <3>2. procs[q].waitId # 0 => procs[q].waitId # id
      BY <1>4, <2>1, <2>3 DEF ProcInv, WaitOf
    <3> QED
      BY <1>2, <1>6, <1>7, <3>1, <3>2, ProcStays
  <2> QED
    BY <2>2, <2>3
<1> QED
  BY <1>2, <1>5, <1>6, <1>7, <1>8, <1>10, <1>11, <1>12, DebugStep

\* The end of process p, as Ended(p) has it.
LEMMA EndedProc ==
    ASSUME ScriptsInv, play.plugin = "Debuggerlite", NEW p \in DOMAIN procs, procs' = Runners!Ended(p)
    PROVE  /\ DOMAIN procs' = DOMAIN procs /\ \A q \in DOMAIN procs : q # p => procs'[q] = procs[q]
           /\ ProcShape(procs'[p]) /\ procs'[p].ws = procs[p].ws /\ procs'[p].waitId = procs[p].waitId
           /\ procs'[p].nested = procs[p].nested /\ procs'[p].waitCmdFinished = procs[p].waitCmdFinished
           /\ procs'[p].at = "ended"
<1>1. procs[p] = [ws |-> procs[p].ws, at |-> procs[p].at, waitId |-> procs[p].waitId,
                  waitCmdFinished |-> procs[p].waitCmdFinished, nested |-> procs[p].nested]
  BY DebugFacts DEF DebugInv, ProcInv, ProcShape
<1>2. procs' = [procs EXCEPT ![p].at = "ended"]
  BY DEF Runners!Ended
<1>3. DOMAIN procs' = DOMAIN procs /\ \A q \in DOMAIN procs : q # p => procs'[q] = procs[q]
  BY ONLY <1>2
<1>4. procs'[p] = [ws |-> procs[p].ws, at |-> "ended", waitId |-> procs[p].waitId,
                   waitCmdFinished |-> procs[p].waitCmdFinished, nested |-> procs[p].nested]
  <2>1. procs'[p] = [procs[p] EXCEPT !.at = "ended"]
    BY ONLY <1>2, p \in DOMAIN procs
  <2> QED
    BY ONLY <1>1, <2>1
<1>5. ProcShape(procs'[p])
  BY ONLY <1>4 DEF ProcShape
<1> QED
  BY ONLY <1>3, <1>4, <1>5

\* A program ends.
LEMMA FinishedInv ==
    ASSUME ScriptsInv, play.plugin = "Debuggerlite", NEW p \in DOMAIN procs, Runners!Finished(p)
    PROVE  ScriptsInv'
<1>1. /\ DebugInv(procs, m_procs, frames, hungUp, Runners!calls, heard, results) /\ heard \in Nat /\ heard <= MaxCalls
      /\ heard <= Len(Runners!calls) /\ MaxCalls \in Nat /\ ResultsInv(heard, results)
  BY DebugFacts
<1>2. UNCHANGED <<play, heard, hungUp>>
  BY DEF Runners!Finished
<1>3. procs[p].at \in {"running", "killed"}
  BY DEF Runners!Finished, Runners!isRunning, Runners!Alive
<1>4. FramesInv(frames, DOMAIN procs, CalmIn(procs, Runners!calls, heard, hungUp), StoppingIn(Runners!calls, heard, results))
  BY <1>1 DEF DebugInv
<1>5. PICK fs : fs = Runners!Quit(frames, p)
  OBVIOUS
<1>6. /\ FramesInv(fs, DOMAIN procs, CalmIn(procs, Runners!calls, heard, hungUp), StoppingIn(Runners!calls, heard, results))
      /\ \A q : Spinning(fs, q) => Spinning(frames, q)
  BY <1>4, <1>5, QuitAlike
<1>7. ProcInv(procs[p], p, Runners!calls, heard, CalmIn(procs, Runners!calls, heard, hungUp), frames, results)
  BY <1>1 DEF DebugInv
<1>8. p \in CalmIn(procs, Runners!calls, heard, hungUp) => CalmInv(procs[p], p, frames, results)
  BY <1>7 DEF ProcInv
<1>9. p \in CalmIn(procs, Runners!calls, heard, hungUp) =>
          /\ procs[p].at = "running" /\ ~Spinning(frames, p)
          /\ procs[p].waitCmdFinished /\ procs[p].waitId # 0 => results[procs[p].waitId] = <<>>
  BY <1>3, <1>8 DEF CalmInv
<1>10. CASE /\ procs[p].waitCmdFinished /\ Runners!slotFinish(p, Runners!Ended(p)) /\ procs' = Runners!Ended(p)
            /\ frames' = Runners!Quit(frames, p) /\ UNCHANGED m_procs
  <2>1. /\ DOMAIN procs' = DOMAIN procs /\ \A q \in DOMAIN procs : q # p => procs'[q] = procs[q]
        /\ ProcShape(procs'[p]) /\ procs'[p].ws = procs[p].ws /\ procs'[p].waitId = procs[p].waitId
        /\ procs'[p].nested = procs[p].nested /\ procs'[p].at = "ended"
    BY <1>10, EndedProc
  <2>2. More(results, results', procs[p].waitId)
    <3>1. results = [x \in Runners!Calls |-> results[x]] /\ \A x \in Runners!Calls : IsSeq(results[x])
      BY <1>1 DEF ResultsInv
    <3>2. procs[p].waitId \in Runners!Calls \cup {0}
      BY <1>1, <1>7 DEF ProcInv, WaitOf, Runners!Calls
    <3> QED
      BY <1>10, <3>1, <3>2, RepliedMore DEF Runners!slotFinish
  <2>3. frames' = fs
    BY <1>5, <1>10
  <2>4. FramesInv(frames', DOMAIN procs, CalmIn(procs, Runners!calls, heard, hungUp), StoppingIn(Runners!calls, heard, results))
        /\ \A q : Spinning(frames', q) => Spinning(frames, q)
    BY <1>6, <2>3
  <2>5. p \in CalmIn(procs, Runners!calls, heard, hungUp) =>
               /\ procs[p].waitId # 0 => results[procs[p].waitId] = <<>>
               /\ procs'[p].at \notin {"running", "killed"} /\ ~Spinning(frames', p)
    BY <1>9, <1>10, <2>1, <2>4
  <2> QED
    BY <1>2, <1>10, <2>1, <2>2, <2>4, <2>5, WaitAnswered
<1>11. CASE /\ ~procs[p].waitCmdFinished /\ procs' = Runners!Ended(p) /\ UNCHANGED <<m_procs, results>>
            /\ frames' = Append(Runners!Quit(frames, p), Runners!Frame("finish", p, 0, <<>>, "no"))
  <2>1. /\ DOMAIN procs' = DOMAIN procs /\ \A q \in DOMAIN procs : q # p => procs'[q] = procs[q]
        /\ ProcShape(procs'[p]) /\ procs'[p].ws = procs[p].ws /\ procs'[p].waitId = procs[p].waitId
        /\ procs'[p].nested = procs[p].nested /\ procs'[p].at = "ended" /\ ~procs'[p].waitCmdFinished
    BY <1>11, EndedProc
  <2>2. heard' \in Nat /\ heard <= heard' /\ heard' <= heard + 1 /\ heard' <= Len(Runners!calls) /\ hungUp \subseteq hungUp'
        /\ 0 \in 0..heard' /\ More(results, results', 0)
    BY <1>1, <1>2, <1>11, NoMore
  <2>3. LaterProcs(procs, procs')
    BY <2>1 DEF LaterProcs
  <2>4. PICK f : f = Runners!Frame("finish", p, 0, <<>>, "no")
    OBVIOUS
  <2>5. FrameInv(f, DOMAIN procs, CalmIn(procs, Runners!calls, heard, hungUp), StoppingIn(Runners!calls, heard, results))
        /\ f.kind = "finish" /\ f.p = p /\ f.id = 0
    BY <2>4 DEF Runners!Frame, FrameInv
  <2>6. f.p \notin CalmIn(procs, Runners!calls, heard, hungUp) \/ ~Spinning(fs, f.p)
    BY <1>6, <1>9, <2>5
  <2>7. frames' = Append(fs, f)
    BY <1>5, <1>11, <2>4
  <2>8. FramesInv(frames', DOMAIN procs, CalmIn(procs, Runners!calls, heard, hungUp), StoppingIn(Runners!calls, heard, results))
        /\ \A q : Spinning(frames', q) => Spinning(fs, q) \/ f.p = q
    BY <1>6, <2>5, <2>6, <2>7, FramesAppend
  <2>9. \A q \in DOMAIN procs : q \in CalmIn(procs', Runners!calls, heard', hungUp') => q \in CalmIn(procs, Runners!calls, heard, hungUp)
    BY <1>1, <2>2, <2>3, CalmLater
  <2>10. FramesInv(frames', DOMAIN procs', CalmIn(procs', Runners!calls, heard', hungUp'), StoppingIn(Runners!calls, heard', results'))
    <3>1. StoppingIn(Runners!calls, heard', results') = StoppingIn(Runners!calls, heard, results)
      BY <1>2, <1>11
    <3>2. \A k \in 1..Len(frames') : frames'[k].id # 0 => frames'[k].id \in StoppingIn(Runners!calls, heard', results')
      BY <2>8, <3>1 DEF FramesInv, FrameInv
    <3>3. PICK gs : gs = frames'
      OBVIOUS
    <3> QED
      BY <2>1, <2>8, <2>9, <3>2, <3>3, FramesKept
  <2>11. m_procs' \subseteq DOMAIN procs' /\ DOMAIN procs' \subseteq 1..heard'
    BY <1>1, <1>2, <1>11, <2>1 DEF DebugInv
  <2>12. ASSUME NEW q \in DOMAIN procs'
         PROVE  ProcInv(procs'[q], q, Runners!calls, heard', CalmIn(procs', Runners!calls, heard', hungUp'), frames', results')
    <3>1. CASE q = p
      <4>1. q \in CalmIn(procs', Runners!calls, heard', hungUp') => CalmInv(procs'[q], q, frames', results')
        BY <2>1, <3>1 DEF CalmInv
      <4>2. ProcInv(procs[q], q, Runners!calls, heard, CalmIn(procs, Runners!calls, heard, hungUp), frames, results)
        BY <1>7, <3>1
      <4>3. ProcShape(procs'[q]) /\ procs'[q].ws = procs[q].ws /\ procs'[q].waitId = procs[q].waitId
        BY <2>1, <3>1
      <4> QED
        BY <1>1, <2>2, <4>1, <4>2, <4>3, ProcKept
    <3>2. CASE q # p
      <4>1. q \in DOMAIN procs /\ procs'[q] = procs[q]
        BY <2>1, <3>2
      <4>2. ProcShape(procs'[q])
        BY <1>1, <4>1 DEF DebugInv, ProcInv
      <4>3. Spinning(frames', q) => Spinning(frames, q)
        BY <1>6, <2>5, <2>8, <3>2
      <4> QED
        BY <1>2, <2>2, <2>3, <4>1, <4>2, <4>3, ProcStays
    <3> QED
      BY <3>1, <3>2
  <2> QED
    BY <1>2, <2>2, <2>3, <2>10, <2>11, <2>12, DebugStep
<1> QED
  BY <1>10, <1>11 DEF Runners!Finished

\* A process at something else: its end is unseen.
LEMMA UnseenProc ==
    ASSUME ScriptsInv, play.plugin = "Debuggerlite", NEW p \in DOMAIN procs, Runners!KillUnseen(p)
    PROVE  /\ DOMAIN procs' = DOMAIN procs /\ \A q \in DOMAIN procs : q # p => procs'[q] = procs[q]
           /\ ProcShape(procs'[p]) /\ procs'[p].ws = procs[p].ws /\ procs'[p].waitId = procs[p].waitId
           /\ procs'[p].nested = procs[p].nested /\ procs'[p].at = "unseen"
           /\ \A q \in DOMAIN procs : ProcShape(procs'[q])
<1>1. \A q \in DOMAIN procs : ProcShape(procs[q])
  BY DebugFacts DEF DebugInv, ProcInv
<1>2. procs' = [procs EXCEPT ![p].at = "unseen"]
  BY DEF Runners!KillUnseen
<1>3. DOMAIN procs' = DOMAIN procs /\ \A q \in DOMAIN procs : q # p => procs'[q] = procs[q]
  BY ONLY <1>2
<1>4. procs'[p] = [ws |-> procs[p].ws, at |-> "unseen", waitId |-> procs[p].waitId,
                   waitCmdFinished |-> procs[p].waitCmdFinished, nested |-> procs[p].nested]
  <2>1. procs'[p] = [procs[p] EXCEPT !.at = "unseen"]
    BY ONLY <1>2, p \in DOMAIN procs
  <2>2. procs[p] = [ws |-> procs[p].ws, at |-> procs[p].at, waitId |-> procs[p].waitId,
                    waitCmdFinished |-> procs[p].waitCmdFinished, nested |-> procs[p].nested]
    BY <1>1 DEF ProcShape
  <2> QED
    BY ONLY <2>1, <2>2
<1>5. ProcShape(procs'[p])
  BY ONLY <1>4 DEF ProcShape
<1>6. \A q \in DOMAIN procs : ProcShape(procs'[q])
  BY <1>1, <1>3, <1>5
<1> QED
  BY ONLY <1>3, <1>4, <1>5, <1>6

\* A kill whose end is unseen: the process is one that was stopped.
LEMMA UnseenInv ==
    ASSUME ScriptsInv, play.plugin = "Debuggerlite", NEW p \in DOMAIN procs, Runners!KillUnseen(p)
    PROVE  ScriptsInv'
<1>1. /\ DebugInv(procs, m_procs, frames, hungUp, Runners!calls, heard, results) /\ heard \in Nat /\ heard <= MaxCalls
      /\ heard <= Len(Runners!calls) /\ MaxCalls \in Nat /\ ResultsInv(heard, results)
  BY DebugFacts
<1>2. UNCHANGED <<play, heard, hungUp, m_procs, frames, results>> /\ procs[p].at = "killed"
  BY DEF Runners!KillUnseen
<1>3. /\ DOMAIN procs' = DOMAIN procs /\ \A q \in DOMAIN procs : q # p => procs'[q] = procs[q]
      /\ ProcShape(procs'[p]) /\ procs'[p].ws = procs[p].ws /\ procs'[p].waitId = procs[p].waitId
      /\ procs'[p].nested = procs[p].nested /\ \A q \in DOMAIN procs : ProcShape(procs'[q])
  BY UnseenProc
<1>4. p \notin CalmIn(procs, Runners!calls, heard, hungUp)
  BY <1>1, <1>2 DEF DebugInv, ProcInv, CalmInv
<1>5. \A q \in DOMAIN procs : procs'[q].ws = procs[q].ws /\ procs'[q].nested = procs[q].nested /\ procs'[q].waitId = procs[q].waitId
  BY <1>3
<1>6. CalmIn(procs', Runners!calls, heard', hungUp') = CalmIn(procs, Runners!calls, heard, hungUp)
      /\ StoppingIn(Runners!calls, heard', results') = StoppingIn(Runners!calls, heard, results)
  BY <1>2, <1>3, <1>5 DEF CalmIn
<1>7. FramesInv(frames', DOMAIN procs', CalmIn(procs', Runners!calls, heard', hungUp'), StoppingIn(Runners!calls, heard', results'))
  BY <1>1, <1>2, <1>3, <1>6 DEF DebugInv
<1>8. LaterProcs(procs, procs') /\ m_procs' \subseteq DOMAIN procs'
  BY <1>1, <1>2, <1>3, <1>5 DEF LaterProcs, DebugInv
<1>9. PICK id : id = 0
  OBVIOUS
<1>10. /\ heard' \in Nat /\ heard <= heard' /\ heard' <= heard + 1 /\ heard' <= Len(Runners!calls) /\ hungUp \subseteq hungUp'
       /\ id \in 0..heard' /\ More(results, results', id)
  BY <1>1, <1>2, <1>9, NoMore
<1>11. \A q \in CalmIn(procs', Runners!calls, heard', hungUp') :
           /\ procs'[q] = procs[q]
           /\ Spinning(frames', q) => Spinning(frames, q)
           /\ procs[q].waitId # 0 => procs[q].waitId # id
  <2>1. \A q \in CalmIn(procs, Runners!calls, heard, hungUp) : q \in DOMAIN procs /\ q # p
    BY <1>4 DEF CalmIn
  <2> QED
    BY <1>2, <1>3, <1>6, <1>9, <2>1
<1> QED
  BY <1>2, <1>3, <1>5, <1>7, <1>8, <1>9, <1>10, <1>11, DebugSame

\* The innermost slot and those under it.
LEMMA TopUnder ==
    ASSUME NEW D, NEW C, NEW U, FramesInv(frames, D, C, U), frames # <<>>
    PROVE  /\ FrameInv(Runners!Top, D, C, U) /\ FramesInv(Runners!Under, D, C, U)
           /\ \A q : Spinning(Runners!Under, q) => Spinning(frames, q)
           /\ Runners!Top.kind = "finish" => Spinning(frames, Runners!Top.p)
           /\ \A k \in 1..Len(Runners!Under) : Apart(Runners!Under[k], Runners!Top, C)
           /\ Len(frames) = Len(Runners!Under) + 1 /\ Runners!Top = frames[Len(frames)]
           /\ \A k \in 1..Len(Runners!Under) : Runners!Under[k] = frames[k]
<1>1. IsSeq(frames) /\ Len(frames) \in Nat
  BY DEF FramesInv, IsSeq
<1>2. Len(frames) # 0
  <2>1. CASE Len(frames) = 0
    <3>1. frames = [n \in 1..0 |-> frames[n]]
      BY ONLY <1>1, <2>1 DEF IsSeq
    <3>2. frames = <<>>
      BY ONLY <3>1
    <3> QED
      BY <3>2
  <2> QED
    BY <2>1
<1>3. PICK under : under = SubSeq(frames, 1, Len(frames) - 1)
  OBVIOUS
<1>4. Runners!Under = under /\ Runners!Top = frames[Len(frames)]
  BY <1>3 DEF Runners!Under, Runners!Front, Runners!Top, Runners!Last
<1>5. IsSeq(under) /\ Len(under) = Len(frames) - 1 /\ \A k \in 1..Len(under) : under[k] = frames[k]
  <2>1. 1 \in 1..Len(frames) + 1 /\ Len(frames) - 1 \in 0..Len(frames)
    BY ONLY <1>1, <1>2
  <2>2. PICK i, j : i = 1 /\ j = Len(frames) - 1
    OBVIOUS
  <2>3. /\ IsSeq(under) /\ Len(under) = IF i <= j THEN j - i + 1 ELSE 0
        /\ \A k \in 1..Len(under) : under[k] = frames[k + i - 1]
    BY <1>1, <1>3, <2>1, <2>2, SeqPart
  <2>4. Len(under) \in Nat
    BY <2>3 DEF IsSeq
  <2>5. \A k \in 1..Len(under) : k + i - 1 = k
    BY ONLY <2>2, <2>4
  <2>6. Len(under) = Len(frames) - 1
    BY ONLY <1>1, <1>2, <2>2, <2>3
  <2> QED
    BY <2>3, <2>5, <2>6
<1>6. \A k \in 1..Len(under) : k \in 1..Len(frames) /\ k # Len(frames)
  BY ONLY <1>1, <1>5
<1>7. Len(frames) \in 1..Len(frames) /\ Len(frames) = Len(under) + 1
  BY ONLY <1>1, <1>2, <1>5
<1>8. FramesInv(under, D, C, U)
  <2>1. \A k \in 1..Len(under) : FrameInv(under[k], D, C, U)
    BY <1>5, <1>6 DEF FramesInv
  <2>2. \A j, k \in 1..Len(under) : j # k => Apart(under[j], under[k], C)
    BY <1>5, <1>6 DEF FramesInv
  <2> QED
    BY <1>5, <2>1, <2>2 DEF FramesInv
<1>9. \A q : Spinning(under, q) => Spinning(frames, q)
  BY <1>5, <1>6 DEF Spinning
<1>10. PICK top : top = frames[Len(frames)]
  OBVIOUS
<1>11. FrameInv(top, D, C, U) /\ (top.kind = "finish" => Spinning(frames, top.p))
  BY <1>7, <1>10 DEF FramesInv, Spinning
<1>12. \A k \in 1..Len(under) : Apart(under[k], top, C)
  BY <1>5, <1>6, <1>7, <1>10 DEF FramesInv
<1> QED
  BY <1>4, <1>5, <1>7, <1>8, <1>9, <1>10, <1>11, <1>12

\* The slot for an end returns and answers the Wait.
LEMMA FinishReturns ==
    ASSUME ScriptsInv, play.plugin = "Debuggerlite", frames # <<>>, Runners!Top.kind = "finish",
           procs[Runners!Top.p].waitCmdFinished, Runners!slotFinish(Runners!Top.p, procs), frames' = Runners!Under,
           UNCHANGED <<play, heard, hungUp, procs, m_procs>>
    PROVE  ScriptsInv'
<1>1. /\ DebugInv(procs, m_procs, frames, hungUp, Runners!calls, heard, results) /\ heard \in Nat /\ heard <= MaxCalls
      /\ MaxCalls \in Nat /\ ResultsInv(heard, results)
  BY DebugFacts
<1>2. PICK C, U : C = CalmIn(procs, Runners!calls, heard, hungUp) /\ U = StoppingIn(Runners!calls, heard, results)
  OBVIOUS
<1>3. FramesInv(frames, DOMAIN procs, C, U)
  BY <1>1, <1>2 DEF DebugInv
<1>4. PICK p : p = Runners!Top.p
  OBVIOUS
<1>5. /\ FrameInv(Runners!Top, DOMAIN procs, C, U) /\ FramesInv(frames', DOMAIN procs, C, U) /\ Spinning(frames, p)
      /\ \A q : Spinning(frames', q) => Spinning(frames, q)
      /\ \A k \in 1..Len(frames') : Apart(frames'[k], Runners!Top, C)
  BY <1>3, <1>4, TopUnder
<1>6. p \in DOMAIN procs
  BY <1>4, <1>5 DEF FrameInv
<1>7. ProcInv(procs[p], p, Runners!calls, heard, C, frames, results)
  BY <1>1, <1>2, <1>6 DEF DebugInv
<1>8. ASSUME p \in C
      PROVE  /\ procs[p].waitId # 0 => results[procs[p].waitId] = <<>>
             /\ procs'[p].at \notin {"running", "killed"} /\ ~Spinning(frames', p)
  <2>1. CalmInv(procs[p], p, frames, results)
    BY <1>7, <1>8 DEF ProcInv
  <2>2. procs[p].waitId # 0 => results[procs[p].waitId] = <<>>
    BY <1>4, <1>5, <2>1 DEF CalmInv
  <2>3. procs'[p].at \notin {"running", "killed"}
    BY <1>5, <2>1 DEF CalmInv
  <2>4. ~Spinning(frames', p)
    BY <1>4, <1>5, <1>8 DEF Spinning, Apart
  <2> QED
    BY <2>2, <2>3, <2>4
<1>9. More(results, results', procs[p].waitId)
  <2>1. results = [x \in Runners!Calls |-> results[x]] /\ \A x \in Runners!Calls : IsSeq(results[x])
    BY <1>1 DEF ResultsInv
  <2>2. procs[p].waitId \in Runners!Calls \cup {0}
    BY <1>1, <1>7 DEF ProcInv, WaitOf, Runners!Calls
  <2> QED
    BY <1>4, <2>1, <2>2, RepliedMore DEF Runners!slotFinish
<1>10. ProcShape(procs'[p]) /\ procs' = procs
  BY <1>7 DEF ProcInv
<1> QED
  BY <1>2, <1>5, <1>6, <1>8, <1>9, <1>10, WaitAnswered

\* stop() returns.
LEMMA StopReturnsInv ==
    ASSUME ScriptsInv, play.plugin = "Debuggerlite", frames # <<>>, Runners!Top.kind = "stop", Runners!StopReturns,
           UNCHANGED <<play, heard, hungUp>>
    PROVE  ScriptsInv'
<1>1. /\ DebugInv(procs, m_procs, frames, hungUp, Runners!calls, heard, results) /\ heard \in Nat /\ heard <= MaxCalls
      /\ MaxCalls \in Nat /\ ResultsInv(heard, results) /\ heard <= Len(Runners!calls)
  BY DebugFacts
<1>2. PICK C, U : C = CalmIn(procs, Runners!calls, heard, hungUp) /\ U = StoppingIn(Runners!calls, heard, results)
  OBVIOUS
<1>3. FramesInv(frames, DOMAIN procs, C, U)
  BY <1>1, <1>2 DEF DebugInv
<1>4. PICK top, under : top = Runners!Top /\ under = Runners!Under
  OBVIOUS
<1>5. /\ FrameInv(top, DOMAIN procs, C, U) /\ FramesInv(under, DOMAIN procs, C, U)
      /\ \A q : Spinning(under, q) => Spinning(frames, q)
      /\ \A k \in 1..Len(under) : Apart(under[k], top, C)
  BY <1>3, <1>4, TopUnder
<1>6. top.kind = "stop"
  BY <1>4
<1>7. /\ top = [kind |-> top.kind, p |-> top.p, id |-> top.id, rest |-> top.rest, delete |-> top.delete, quit |-> top.quit]
      /\ top.p \in DOMAIN procs /\ top.id \in U \cup {0} /\ top.p \notin C
      /\ IsSeq(top.rest) /\ \A k \in 1..Len(top.rest) : top.rest[k] \in DOMAIN procs \ C
  BY <1>5, <1>6 DEF FrameInv
<1>8. heard' \in Nat /\ heard <= heard' /\ heard' <= heard + 1 /\ heard' <= Len(Runners!calls) /\ hungUp \subseteq hungUp'
      /\ 0 \in 0..heard'
  BY <1>1
<1>9. PICK id, ps : id = top.id /\ ps = top.rest
  OBVIOUS
<1>10. id \in 0..heard' /\ (id # 0 => Runners!calls[id].api \in Stops /\ results[id] = <<>>)
  BY <1>2, <1>7, <1>8, <1>9 DEF StoppingIn
<1>11. \A k \in 1..Len(under) : under[k].id = id => id = 0
  BY <1>5, <1>9 DEF Apart
<1>12. m_procs \subseteq DOMAIN procs /\ \A p \in DOMAIN procs : ProcShape(procs[p])
  BY <1>1 DEF DebugInv, ProcInv
<1>13. PICK Q : Q = {top.p} \cup {ps[k] : k \in 1..Len(ps)}
  OBVIOUS
<1>14. \A p \in Q : p \in DOMAIN procs /\ p \notin CalmIn(procs, Runners!calls, heard', hungUp')
  BY <1>2, <1>7, <1>9, <1>13
<1>15. IsSeq(ps) /\ \A k \in 1..Len(ps) : ps[k] \in DOMAIN procs /\ ps[k] \in Q
  BY <1>7, <1>9, <1>13
<1>16. CASE /\ frames' = Append(Runners!Under, [Runners!Top EXCEPT !.delete = "now", !.quit = FALSE])
            /\ procs' = [procs EXCEPT ![Runners!Top.p].at = Runners!Slain(@), ![Runners!Top.p].waitCmdFinished = TRUE]
            /\ m_procs' \subseteq m_procs /\ UNCHANGED results
  <2>1. PICK f : f = [top EXCEPT !.delete = "now", !.quit = FALSE]
    OBVIOUS
  <2>2. f = [kind |-> top.kind, p |-> top.p, id |-> top.id, rest |-> top.rest, delete |-> "now", quit |-> FALSE]
    BY ONLY <1>7, <2>1
  <2>3. f = [kind |-> f.kind, p |-> f.p, id |-> f.id, rest |-> f.rest, delete |-> f.delete, quit |-> f.quit]
        /\ f.kind = top.kind /\ f.p = top.p /\ f.id = top.id /\ f.rest = top.rest
    BY ONLY <2>2
  <2>4. FrameInv(f, DOMAIN procs, C, U)
    BY <1>6, <1>7, <2>3 DEF FrameInv
  <2>5. (\A k \in 1..Len(under) : under[k].id # f.id \/ f.id = 0) /\ f.kind # "finish"
    BY <1>6, <1>9, <1>11, <2>3
  <2>6. frames' = Append(under, f)
    BY <1>4, <1>16, <2>1
  <2>7. FramesInv(frames', DOMAIN procs, C, U) /\ \A q : Spinning(frames', q) => Spinning(under, q)
    BY <1>5, <2>4, <2>5, <2>6, FramesAppend
  <2>8. /\ DOMAIN procs' = DOMAIN procs /\ \A q \in DOMAIN procs : q # top.p => procs'[q] = procs[q]
        /\ ProcShape(procs'[top.p]) /\ procs'[top.p].ws = procs[top.p].ws /\ procs'[top.p].waitId = procs[top.p].waitId
        /\ procs'[top.p].nested = procs[top.p].nested
    <3>1. PICK p, a, b, pr : p = top.p /\ a = Runners!Slain(procs[top.p].at) /\ b = TRUE /\ pr = procs'
      OBVIOUS
    <3>2. p \in DOMAIN procs /\ ProcShape(procs[p]) /\ pr = [procs EXCEPT ![p].at = a, ![p].waitCmdFinished = b]
      BY <1>4, <1>7, <1>12, <1>16, <3>1
    <3>3. /\ DOMAIN pr = DOMAIN procs /\ \A q \in DOMAIN procs : q # p => pr[q] = procs[q]
          /\ ProcShape(pr[p]) /\ pr[p].ws = procs[p].ws /\ pr[p].waitId = procs[p].waitId /\ pr[p].nested = procs[p].nested
      <4>1. DOMAIN pr = DOMAIN procs /\ \A q \in DOMAIN procs : q # p => pr[q] = procs[q]
        BY ONLY <3>2
      <4>2. pr[p] = [procs[p] EXCEPT !.at = a, !.waitCmdFinished = b]
        BY ONLY <3>2
      <4>3. procs[p] = [ws |-> procs[p].ws, at |-> procs[p].at, waitId |-> procs[p].waitId,
                        waitCmdFinished |-> procs[p].waitCmdFinished, nested |-> procs[p].nested]
        BY ONLY <3>2 DEF ProcShape
      <4>4. pr[p] = [ws |-> procs[p].ws, at |-> a, waitId |-> procs[p].waitId, waitCmdFinished |-> b, nested |-> procs[p].nested]
        BY ONLY <4>2, <4>3
      <4>5. ProcShape(pr[p])
        BY ONLY <4>4 DEF ProcShape
      <4> QED
        BY ONLY <4>1, <4>4, <4>5
    <3> QED
      BY ONLY <3>1, <3>3
  <2>9. \A q \in DOMAIN procs : /\ ProcShape(procs'[q]) /\ procs'[q].waitId = procs[q].waitId
                                /\ procs'[q].ws = procs[q].ws /\ procs'[q].nested = procs[q].nested
    BY <1>12, <2>8
  <2>10. More(results, results', 0) /\ LaterProcs(procs, procs')
    BY <1>1, <1>16, <2>8, <2>9, NoMore DEF LaterProcs
  <2>11. CalmIn(procs', Runners!calls, heard', hungUp') = C /\ StoppingIn(Runners!calls, heard', results') = U
    <3>1. results' = results /\ DOMAIN procs' = DOMAIN procs
      BY <1>16, <2>8
    <3>2. \A q \in DOMAIN procs : procs'[q].ws = procs[q].ws /\ procs'[q].nested = procs[q].nested
      BY <2>9
    <3>3. heard' = heard /\ hungUp' = hungUp /\ play' = play
      OBVIOUS
    <3>4. Runners!calls' = Runners!calls
      BY <3>3 DEF Runners!calls
    <3> QED
      BY ONLY <1>2, <3>1, <3>2, <3>3, <3>4 DEF CalmIn, StoppingIn
  <2>12. FramesInv(frames', DOMAIN procs', CalmIn(procs', Runners!calls, heard', hungUp'), StoppingIn(Runners!calls, heard', results'))
    BY <2>7, <2>8, <2>11
  <2>13. m_procs' \subseteq DOMAIN procs'
    BY <1>12, <1>16, <2>8
  <2>14. \A p \in CalmIn(procs', Runners!calls, heard', hungUp') : procs'[p] = procs[p] /\ (Spinning(frames', p) => Spinning(frames, p))
    <3>1. \A p \in C : p \in DOMAIN procs /\ p # top.p
      BY <1>2, <1>7 DEF CalmIn
    <3> QED
      BY <1>5, <2>7, <2>8, <2>11, <3>1
  <2> QED
    BY <1>8, <2>8, <2>9, <2>10, <2>12, <2>13, <2>14, DebugSame
<1>17. CASE Runners!StopNext(Runners!Top.id, Runners!Top.rest, "no", Runners!Under, procs, m_procs)
  <2>1. PICK delete : delete = "no"
    OBVIOUS
  <2>2. Runners!StopNext(id, ps, delete, under, procs, m_procs)
    BY <1>4, <1>9, <1>17, <2>1
  <2> QED
    BY <1>2, <1>5, <1>8, <1>10, <1>11, <1>12, <1>14, <1>15, <2>2, StopNextInv
<1>18. CASE /\ Runners!StopNext(Runners!Top.id, Runners!Top.rest, "then", Runners!Quit(Runners!Under, Runners!Top.p),
                                [procs EXCEPT ![Runners!Top.p].at = "deleted",
                                              ![Runners!Top.p].waitCmdFinished = @ \/ Runners!Top.delete = "then"],
                                m_procs \ {Runners!Top.p})
  <2>0. PICK b : b = (procs[top.p].waitCmdFinished \/ top.delete = "then")
    OBVIOUS
  <2>1. PICK delete, below, pr, listed :
          /\ delete = "then" /\ below = Runners!Quit(under, top.p)
          /\ pr = [procs EXCEPT ![top.p].at = "deleted", ![top.p].waitCmdFinished = @ \/ top.delete = "then"]
          /\ listed = m_procs \ {top.p}
    OBVIOUS
  <2>2. Runners!StopNext(id, ps, delete, below, pr, listed)
    BY <1>4, <1>9, <1>18, <2>1
  <2>3. /\ FramesInv(below, DOMAIN procs, C, U) /\ Len(below) = Len(under)
        /\ \A q : Spinning(below, q) => Spinning(under, q)
        /\ \A k \in 1..Len(under) : below[k].id = under[k].id
    BY <1>5, <2>1, QuitAlike
  <2>4. (\A k \in 1..Len(below) : below[k].id = id => id = 0) /\ \A q : Spinning(below, q) => Spinning(frames, q)
    BY <1>5, <1>11, <2>3
  <2>5. pr = [procs EXCEPT ![top.p].at = "deleted", ![top.p].waitCmdFinished = b]
    <3>1. PICK p, x : p = top.p /\ x = procs[p]
      OBVIOUS
    <3>2. ProcShape(x) /\ p \in DOMAIN procs
      BY <1>7, <1>12, <3>1
    <3>3. [x EXCEPT !.at = "deleted", !.waitCmdFinished = @ \/ top.delete = "then"] = [x EXCEPT !.at = "deleted", !.waitCmdFinished = b]
      BY ONLY <2>0, <3>1, <3>2 DEF ProcShape
    <3> QED
      BY ONLY <2>1, <3>1, <3>2, <3>3
  <2>6. /\ DOMAIN pr = DOMAIN procs /\ \A p \in DOMAIN procs : p # top.p => pr[p] = procs[p]
        /\ ProcShape(pr[top.p]) /\ pr[top.p].waitId = procs[top.p].waitId /\ pr[top.p].ws = procs[top.p].ws
        /\ pr[top.p].nested = procs[top.p].nested
    <3>1. PICK p, a : p = top.p /\ a = "deleted"
      OBVIOUS
    <3>2. p \in DOMAIN procs /\ ProcShape(procs[p]) /\ pr = [procs EXCEPT ![p].at = a, ![p].waitCmdFinished = b]
      BY <1>7, <1>12, <2>5, <3>1
    <3>3. /\ DOMAIN pr = DOMAIN procs /\ \A q \in DOMAIN procs : q # p => pr[q] = procs[q]
          /\ ProcShape(pr[p]) /\ pr[p].ws = procs[p].ws /\ pr[p].waitId = procs[p].waitId /\ pr[p].nested = procs[p].nested
      <4>1. DOMAIN pr = DOMAIN procs /\ \A q \in DOMAIN procs : q # p => pr[q] = procs[q]
        BY ONLY <3>2
      <4>2. pr[p] = [procs[p] EXCEPT !.at = a, !.waitCmdFinished = b]
        BY ONLY <3>2
      <4>3. procs[p] = [ws |-> procs[p].ws, at |-> procs[p].at, waitId |-> procs[p].waitId,
                        waitCmdFinished |-> procs[p].waitCmdFinished, nested |-> procs[p].nested]
        BY ONLY <3>2 DEF ProcShape
      <4>4. pr[p] = [ws |-> procs[p].ws, at |-> a, waitId |-> procs[p].waitId, waitCmdFinished |-> b, nested |-> procs[p].nested]
        BY ONLY <4>2, <4>3
      <4>5. ProcShape(pr[p])
        BY ONLY <4>4 DEF ProcShape
      <4> QED
        BY ONLY <4>1, <4>4, <4>5
    <3> QED
      BY ONLY <3>1, <3>3
  <2>7. \A p \in DOMAIN procs : /\ ProcShape(pr[p]) /\ pr[p].waitId = procs[p].waitId /\ pr[p].ws = procs[p].ws
                                /\ pr[p].nested = procs[p].nested /\ (p \notin Q => pr[p] = procs[p])
    BY <1>12, <1>13, <2>6
  <2>8. listed \subseteq DOMAIN procs
    BY <1>12, <2>1
  <2> QED
    BY <1>2, <1>8, <1>10, <1>14, <1>15, <2>2, <2>3, <2>4, <2>6, <2>7, <2>8, StopNextInv
<1> QED
  BY <1>16, <1>17, <1>18 DEF Runners!StopReturns

\* The program dies: nobody is calm any more.
LEMMA DeathInv ==
    ASSUME ScriptsInv, Runners!Crash
    PROVE  ScriptsInv'
<1>1. /\ play.plugin = "Debuggerlite" /\ frames' = <<>> /\ hungUp' = hungUp \cup {0}
      /\ UNCHANGED <<play, heard, procs, m_procs, results>>
  BY DEF Runners!Crash
<1>2. /\ DebugInv(procs, m_procs, frames, hungUp, Runners!calls, heard, results) /\ heard \in Nat
      /\ ResultsInv(heard, results) /\ heard <= Len(Runners!calls)
  BY <1>1, DebugFacts
<1>3. heard' \in Nat /\ heard <= heard' /\ heard' <= heard + 1 /\ heard' <= Len(Runners!calls) /\ hungUp \subseteq hungUp'
      /\ 0 \in 0..heard' /\ hungUp' # {}
  BY <1>1, <1>2
<1>4. CalmIn(procs', Runners!calls, heard', hungUp') = {}
  BY <1>3 DEF CalmIn
<1>5. FramesInv(frames', DOMAIN procs', CalmIn(procs', Runners!calls, heard', hungUp'), StoppingIn(Runners!calls, heard', results'))
  <2>1. Len(frames') = 0 /\ IsSeq(frames')
    BY <1>1 DEF IsSeq
  <2> QED
    BY <2>1 DEF FramesInv
<1>6. More(results, results', 0) /\ LaterProcs(procs, procs')
  BY <1>1, <1>2, NoMore DEF LaterProcs
<1>7. m_procs' \subseteq DOMAIN procs' /\ DOMAIN procs' = DOMAIN procs
      /\ \A p \in DOMAIN procs : ProcShape(procs'[p]) /\ procs'[p].waitId = procs[p].waitId
  BY <1>1, <1>2 DEF DebugInv, ProcInv
<1> QED
  BY <1>1, <1>3, <1>4, <1>5, <1>6, <1>7, DebugSame

\* What DebuggerlitePlugin does with a call.
LEMMA DebuggerliteInv ==
    ASSUME ScriptsInv, play.plugin = "Debuggerlite", play' = play, heard < Len(Runners!calls), heard' = heard + 1,
           UNCHANGED hungUp, Runners!DebuggerliteCall(heard + 1)
    PROVE  ScriptsInv'
<1>1. PICK id : id = heard + 1
  OBVIOUS
<1>2. CASE Runners!handlePrepareCommand(heard + 1)
  BY <1>2, PrepareInv
<1>3. CASE Runners!Refused(heard + 1)
  BY <1>3, AnsweredCall DEF Runners!Refused
<1>4. CASE \E S : Runners!StartThese(heard + 1, S)
  BY <1>4, StartInv
<1>5. CASE Runners!calls[heard + 1].api = "Wait" /\ Runners!getProc(heard + 1) /\ Runners!handleDebugWait(heard + 1)
  BY <1>5, DebugWaitInv
<1>6. CASE /\ Runners!calls[heard + 1].api \in {"Stop", "EmergencyStop"} /\ Runners!getProc(heard + 1)
           /\ Runners!handleStop(heard + 1)
  BY <1>6, StopInv
<1>7. CASE Runners!calls[heard + 1].api = "StopAll" /\ Runners!handleStopAllCommand(heard + 1)
  BY <1>7, StopAllInv
<1>8. CASE (\E ok : Runners!Replies(heard + 1, ok)) /\ UNCHANGED <<procs, m_procs, frames>>
  BY <1>8, AnsweredCall
<1> QED
  BY <1>2, <1>3, <1>4, <1>5, <1>6, <1>7, <1>8, Zenon DEF Runners!DebuggerliteCall

-----------------------------------------------------------------------------
\* What the invariant says of RunCmdPlugin.
LEMMA RunFacts ==
    ASSUME ScriptsInv, play.plugin = "RunCmd"
    PROVE  /\ FinishOnly(frames)
           /\ m_waitResultPack # 0 => m_waitResultPack \in 1..heard /\ results[m_waitResultPack] = <<>>
           /\ \A id \in 1..heard : Len(results[id]) <= 1
           /\ results = [x \in Runners!Calls |-> results[x]] /\ \A x \in Runners!Calls : IsSeq(results[x])
           /\ \A x \in Runners!Calls : x > heard => results[x] = <<>>
           /\ heard \in Nat /\ heard <= Len(Runners!calls)
           /\ Len(Runners!calls) \in Nat /\ Len(Runners!calls) <= MaxCalls /\ MaxCalls \in Nat
<1>1. play \in Plays
  BY DEF ScriptsInv
<1>2. RunInv(frames, m_waitResultPack, heard, results) /\ ResultsInv(heard, results)
  BY DEF ScriptsInv
<1>3. Len(Runners!calls) \in Nat /\ Len(Runners!calls) <= MaxCalls /\ MaxCalls \in Nat
  BY <1>1, RunnersAssumption DEF Runners!calls
<1> QED
  BY <1>2, <1>3 DEF ScriptsInv, RunInv, ResultsInv, FinishOnly

\* A step of it: a call that gets an answer had none.
LEMMA RunStep ==
    ASSUME ScriptsInv, play.plugin = "RunCmd", play' = play, heard' \in Nat, heard <= heard', heard' <= Len(Runners!calls),
           FinishOnly(frames'),
           results' = [x \in Runners!Calls |-> results'[x]],
           \A x \in Runners!Calls : /\ IsSeq(results'[x])
                                    /\ \/ results'[x] = results[x]
                                       \/ x \in 1..heard' /\ Len(results'[x]) = 1,
           m_waitResultPack' # 0 => m_waitResultPack' \in 1..heard' /\ results'[m_waitResultPack'] = <<>>
    PROVE  ScriptsInv'
<1>1. /\ \A id \in 1..heard : Len(results[id]) <= 1
      /\ \A x \in Runners!Calls : x > heard => results[x] = <<>>
      /\ heard \in Nat /\ Len(Runners!calls) \in Nat /\ Len(Runners!calls) <= MaxCalls /\ MaxCalls \in Nat
  BY RunFacts
<1>2. \A x \in 1..heard' : x \in Runners!Calls
  BY <1>1 DEF Runners!Calls
<1>3. \A x \in Runners!Calls : x \in Nat
  BY <1>1 DEF Runners!Calls
<1>4. ASSUME NEW x \in 1..heard' PROVE Len(results'[x]) <= 1
  <2>1. CASE results'[x] = results[x] /\ x <= heard
    BY <1>1, <2>1
  <2>2. CASE results'[x] = results[x] /\ x > heard
    <3>1. results'[x] = <<>>
      BY <1>1, <1>2, <2>2
    <3> QED
      BY <3>1
  <2>3. CASE Len(results'[x]) = 1
    BY <2>3
  <2> QED
    BY <1>1, <1>2, <2>1, <2>2, <2>3
<1>5. ASSUME NEW x \in Runners!Calls, x > heard' PROVE results'[x] = <<>>
  BY <1>1, <1>3, <1>5
<1>6. ResultsInv(heard', results')
  BY <1>5 DEF ResultsInv
<1>7. RunInv(frames', m_waitResultPack', heard', results')
  BY <1>4 DEF RunInv, FinishOnly
<1>8. Runners!calls' = Runners!calls /\ play' \in Plays /\ play'.plugin # "Debuggerlite"
  BY DEF Runners!calls, ScriptsInv
<1>9. ResultsInv(heard, results)' = ResultsInv(heard', results')
  BY DEF ResultsInv, Runners!Calls
<1> QED
  BY <1>6, <1>7, <1>8, <1>9 DEF ScriptsInv

\* One answer to call id, which had none.
LEMMA RunAnswer ==
    ASSUME ScriptsInv, play.plugin = "RunCmd", play' = play, heard' \in Nat, heard <= heard', heard' <= Len(Runners!calls),
           FinishOnly(frames'), NEW id \in 0..heard', id # 0 => results[id] = <<>>, More(results, results', id),
           \/ m_waitResultPack' = m_waitResultPack /\ m_waitResultPack # id
           \/ m_waitResultPack' = 0
    PROVE  ScriptsInv'
<1>1. /\ m_waitResultPack # 0 => m_waitResultPack \in 1..heard /\ results[m_waitResultPack] = <<>>
      /\ heard \in Nat /\ Len(Runners!calls) \in Nat /\ Len(Runners!calls) <= MaxCalls /\ MaxCalls \in Nat
  BY RunFacts
<1>2. results' = [x \in Runners!Calls |-> results'[x]]
  BY DEF More
<1>3. ASSUME NEW x \in Runners!Calls
      PROVE  IsSeq(results'[x]) /\ (results'[x] = results[x] \/ (x \in 1..heard' /\ Len(results'[x]) = 1))
  <2>1. CASE x # id
    BY <2>1 DEF More
  <2>2. CASE x = id
    <3>1. x # 0
      BY <1>1 DEF Runners!Calls
    <3>2. id \in 1..heard' /\ results[id] = <<>>
      BY <2>2, <3>1
    <3>3. Len(results'[id]) = 1
      BY <2>2, <3>1, <3>2 DEF More
    <3>4. IsSeq(results'[x])
      BY DEF More
    <3> QED
      BY <2>2, <3>2, <3>3, <3>4
  <2> QED
    BY <2>1, <2>2
<1>4. m_waitResultPack' # 0 => m_waitResultPack' \in 1..heard' /\ results'[m_waitResultPack'] = <<>>
  <2>1. CASE m_waitResultPack' = m_waitResultPack /\ m_waitResultPack # id /\ m_waitResultPack # 0
    <3>1. m_waitResultPack \in 1..heard /\ results[m_waitResultPack] = <<>> /\ m_waitResultPack \in Runners!Calls
      BY <1>1, <2>1 DEF Runners!Calls
    <3>2. results'[m_waitResultPack] = <<>> /\ m_waitResultPack \in 1..heard'
      BY <1>1, <2>1, <3>1 DEF More
    <3> QED
      BY <2>1, <3>2
  <2> QED
    BY <2>1
<1> QED
  BY <1>2, <1>3, <1>4, RunStep

\* What RunCmdPlugin does with a call.
LEMMA RunCmdInv ==
    ASSUME ScriptsInv, play.plugin = "RunCmd", play' = play, heard < Len(Runners!calls), heard' = heard + 1,
           Runners!RunCmdCall(heard + 1)
    PROVE  ScriptsInv'
<1>1. /\ FinishOnly(frames)
      /\ m_waitResultPack # 0 => m_waitResultPack \in 1..heard /\ results[m_waitResultPack] = <<>>
      /\ results = [x \in Runners!Calls |-> results[x]] /\ \A x \in Runners!Calls : IsSeq(results[x])
      /\ \A x \in Runners!Calls : x > heard => results[x] = <<>>
      /\ heard \in Nat /\ Len(Runners!calls) \in Nat /\ Len(Runners!calls) <= MaxCalls /\ MaxCalls \in Nat
  BY RunFacts
<1>2. PICK id : id = heard + 1
  OBVIOUS
<1>3. /\ heard' \in Nat /\ heard <= heard' /\ heard' <= Len(Runners!calls) /\ id \in 1..heard' /\ id \in 0..heard'
      /\ id \in Runners!Calls /\ id > heard /\ 0 \in 0..heard' /\ id # 0 /\ m_waitResultPack # id
  BY <1>1, <1>2 DEF Runners!Calls
<1>4. results[id] = <<>>
  BY <1>1, <1>3
<1>5. More(results, results, 0)
  BY <1>1 DEF More
<1>6. frames' = frames
  BY DEF Runners!RunCmdCall, Runners!handleStartCommand, Runners!handleWaitCommand, Runners!handleStopCommand, Runners!Refused
<1>7. FinishOnly(frames')
  BY <1>1, <1>6
<1>8. CASE (\E ok : Runners!Replies(id, ok)) /\ UNCHANGED m_waitResultPack
  <2>1. More(results, results', id)
    BY <1>3, <1>8, ReplyMore
  <2> QED
    BY <1>3, <1>4, <1>7, <1>8, <2>1, RunAnswer
<1>9. CASE UNCHANGED <<results, m_waitResultPack>>
  <2>1. More(results, results', 0)
    BY <1>5, <1>9
  <2>2. PICK none : none = 0
    OBVIOUS
  <2>3. CASE m_waitResultPack # 0
    BY <1>3, <1>7, <1>9, <2>1, <2>2, <2>3, RunAnswer
  <2>4. CASE m_waitResultPack = 0
    BY <1>3, <1>7, <1>9, <2>1, <2>2, <2>4, RunAnswer
  <2> QED
    BY <2>3, <2>4
<1>10. CASE m_waitResultPack' = id /\ UNCHANGED results
  BY <1>1, <1>3, <1>4, <1>7, <1>10, RunStep
<1>11. CASE /\ results' = Runners!Replied(Runners!Replied(results, id, TRUE, Runners!Closed), m_waitResultPack, TRUE, Runners!Closed)
            /\ m_waitResultPack' = 0
  <2>1. PICK ss : ss = Runners!Replied(results, id, TRUE, Runners!Closed)
    OBVIOUS
  <2>2. More(results, ss, id)
    BY <1>1, <1>3, <2>1, RepliedMore
  <2>3. ss = [x \in Runners!Calls |-> ss[x]] /\ \A x \in Runners!Calls : IsSeq(ss[x])
    BY <2>2 DEF More
  <2>4. PICK wait : wait = m_waitResultPack
    OBVIOUS
  <2>5. wait \in Runners!Calls \cup {0} /\ wait # id /\ (wait # 0 => wait \in 1..heard' /\ results[wait] = <<>>)
    BY <1>1, <1>3, <2>4 DEF Runners!Calls
  <2>6. More(ss, results', wait)
    BY <1>11, <2>1, <2>3, <2>4, <2>5, RepliedMore
  <2>7. results' = [x \in Runners!Calls |-> results'[x]]
    BY <2>6 DEF More
  <2>8. ASSUME NEW x \in Runners!Calls
        PROVE  IsSeq(results'[x]) /\ (results'[x] = results[x] \/ (x \in 1..heard' /\ Len(results'[x]) = 1))
    <3>1. IsSeq(results'[x])
      BY <2>6 DEF More
    <3>2. CASE x = id
      <4>1. results'[x] = ss[x] /\ Len(ss[id]) = Len(results[id]) + 1
        BY <1>3, <2>2, <2>5, <2>6, <3>2 DEF More
      <4>2. Len(results'[x]) = 1
        BY <1>4, <3>2, <4>1
      <4> QED
        BY <1>3, <3>1, <3>2, <4>2
    <3>3. CASE x # id /\ x = wait
      <4>1. wait # 0
        BY <1>1, <3>3 DEF Runners!Calls
      <4>2. ss[x] = results[x] /\ Len(results'[wait]) = Len(ss[wait]) + 1 /\ results[wait] = <<>>
        BY <2>2, <2>5, <2>6, <3>3, <4>1 DEF More
      <4>3. Len(results'[x]) = 1
        BY <3>3, <4>2
      <4> QED
        BY <2>5, <3>1, <3>3, <4>1, <4>3
    <3>4. CASE x # id /\ x # wait
      BY <2>2, <2>6, <3>1, <3>4 DEF More
    <3> QED
      BY <3>2, <3>3, <3>4
  <2> QED
    BY <1>3, <1>7, <1>11, <2>7, <2>8, RunStep
<1>12. CASE Runners!handleStartCommand(heard + 1)
  BY <1>2, <1>8, <1>9, <1>12, Zenon DEF Runners!handleStartCommand
<1>13. CASE Runners!handleWaitCommand(heard + 1)
  BY <1>2, <1>8, <1>10, <1>13, Zenon DEF Runners!handleWaitCommand
<1>14. CASE Runners!handleStopCommand(heard + 1)
  BY <1>2, <1>8, <1>11, <1>14, Zenon DEF Runners!handleStopCommand, Runners!WaitResult
<1>15. CASE Runners!Refused(heard + 1) /\ UNCHANGED Runners!runCmdVars
  <2>1. UNCHANGED m_waitResultPack /\ Runners!Replies(id, FALSE)
    BY <1>2, <1>15 DEF Runners!Refused, Runners!runCmdVars
  <2> QED
    BY <1>8, <2>1
<1> QED
  BY <1>12, <1>13, <1>14, <1>15 DEF Runners!RunCmdCall

\* _sendWaitResult: the Wait it holds is answered and held no more.
LEMMA SendWaitInv ==
    ASSUME ScriptsInv, play.plugin = "RunCmd", UNCHANGED <<play, heard>>, NEW pr, Runners!SendWaitResult(pr), FinishOnly(frames')
    PROVE  ScriptsInv'
<1>1. /\ m_waitResultPack # 0 => m_waitResultPack \in 1..heard /\ results[m_waitResultPack] = <<>>
      /\ results = [x \in Runners!Calls |-> results[x]] /\ \A x \in Runners!Calls : IsSeq(results[x])
      /\ heard \in Nat /\ heard <= Len(Runners!calls) /\ Len(Runners!calls) \in Nat /\ Len(Runners!calls) <= MaxCalls /\ MaxCalls \in Nat
  BY RunFacts
<1>2. PICK wait : wait = m_waitResultPack
  OBVIOUS
<1>3. wait \in Runners!Calls \cup {0} /\ wait \in 0..heard' /\ (wait # 0 => results[wait] = <<>>)
  BY <1>1, <1>2 DEF Runners!Calls
<1>4. results' = Runners!Replied(results, wait, TRUE, pr) /\ m_waitResultPack' = 0
  BY <1>2 DEF Runners!SendWaitResult, Runners!WaitResult
<1>5. More(results, results', wait)
  BY <1>1, <1>3, <1>4, RepliedMore
<1>6. heard' \in Nat /\ heard <= heard' /\ heard' <= Len(Runners!calls)
  BY <1>1
<1> QED
  BY <1>3, <1>4, <1>5, <1>6, RunAnswer

\* Neither an answer nor a Wait changes.
LEMMA RunKeeps ==
    ASSUME ScriptsInv, play.plugin = "RunCmd", UNCHANGED <<play, heard, results, m_waitResultPack>>, FinishOnly(frames')
    PROVE  ScriptsInv'
<1>1. /\ m_waitResultPack # 0 => m_waitResultPack \in 1..heard /\ results[m_waitResultPack] = <<>>
      /\ results = [x \in Runners!Calls |-> results[x]] /\ \A x \in Runners!Calls : IsSeq(results[x])
      /\ heard \in Nat /\ heard <= Len(Runners!calls)
  BY RunFacts
<1> QED
  BY <1>1, RunStep

\* A program of RunCmdPlugin ends: the Wait is answered at once or a slot spins for it.
LEMMA RunFinishedInv ==
    ASSUME ScriptsInv, play.plugin = "RunCmd", NEW p, Runners!Finished(p)
    PROVE  ScriptsInv'
<1>1. FinishOnly(frames) /\ UNCHANGED <<play, heard>>
  BY RunFacts DEF Runners!Finished
<1>2. CASE Runners!SendWaitResult(Runners!Ended(p)) /\ UNCHANGED frames
  <2>1. PICK pr : pr = Runners!Ended(p)
    OBVIOUS
  <2> QED
    BY <1>1, <1>2, <2>1, SendWaitInv
<1>3. CASE frames' = Append(Runners!Quit(frames, p), Runners!Frame("finish", p, 0, <<>>, "no")) /\ UNCHANGED <<results, Runners!runCmdVars>>
  <2>1. PICK fs : fs = Runners!Quit(frames, p)
    OBVIOUS
  <2>2. Len(frames) \in Nat /\ DOMAIN frames = 1..Len(frames)
    BY <1>1 DEF FinishOnly, IsSeq
  <2>3. fs = [n \in 1..Len(frames) |-> [frames[n] EXCEPT !.quit = @ \/ (frames[n].kind = "stop" /\ frames[n].p = p)]]
    BY <2>1, <2>2 DEF Runners!Quit
  <2>4. IsSeq(fs) /\ Len(fs) = Len(frames)
    <3>1. DOMAIN fs = 1..Len(frames) /\ fs = [n \in 1..Len(frames) |-> fs[n]]
      BY ONLY <2>3
    <3>2. fs \in Seq({fs[n] : n \in 1..Len(frames)})
      BY ONLY <2>2, <3>1, IsASeq
    <3>3. DOMAIN fs = 1..Len(fs) /\ Len(fs) \in Nat
      BY ONLY <3>2, LenProperties
    <3>4. Len(fs) = Len(frames)
      BY ONLY <2>2, <3>1, <3>3
    <3> QED
      BY ONLY <2>2, <3>1, <3>4 DEF IsSeq
  <2>5. ASSUME NEW k \in 1..Len(fs) PROVE "kind" \in DOMAIN fs[k] /\ fs[k].kind = "finish"
    <3>1. "kind" \in DOMAIN frames[k] /\ frames[k].kind = "finish"
      BY <1>1, <2>4 DEF FinishOnly
    <3>2. PICK b : fs[k] = [frames[k] EXCEPT !.quit = b]
      BY <2>3, <2>4
    <3> QED
      BY ONLY <3>1, <3>2
  <2>6. PICK f : f = Runners!Frame("finish", p, 0, <<>>, "no")
    OBVIOUS
  <2>7. "kind" \in DOMAIN f /\ f.kind = "finish"
    BY <2>6 DEF Runners!Frame
  <2>8. PICK gs : gs = Append(fs, f)
    OBVIOUS
  <2>9. /\ IsSeq(gs) /\ Len(gs) = Len(fs) + 1 /\ gs[Len(fs) + 1] = f
        /\ \A k \in 1..Len(fs) : gs[k] = fs[k]
        /\ \A k \in 1..Len(gs) : k \in 1..Len(fs) \/ k = Len(fs) + 1
    BY <2>4, <2>8, SeqAppend
  <2>10. \A k \in 1..Len(gs) : "kind" \in DOMAIN gs[k] /\ gs[k].kind = "finish"
    BY <2>5, <2>7, <2>9
  <2>11. FinishOnly(gs)
    BY <2>9, <2>10 DEF FinishOnly
  <2>12. frames' = gs /\ UNCHANGED <<results, m_waitResultPack>>
    BY <1>3, <2>1, <2>6, <2>8 DEF Runners!runCmdVars
  <2> QED
    BY <1>1, <2>11, <2>12, RunKeeps
<1> QED
  BY <1>2, <1>3 DEF Runners!Finished

\* The slot that spins for the Wait returns.
LEMMA RunReturnInv ==
    ASSUME ScriptsInv, play.plugin = "RunCmd", Runners!Return
    PROVE  ScriptsInv'
<1>1. FinishOnly(frames)
  BY RunFacts
<1>2. frames # <<>> /\ UNCHANGED <<play, heard>> /\ Runners!SendWaitResult(procs) /\ frames' = Runners!Under
  BY DEF Runners!Return
<1>3. IsSeq(frames) /\ Len(frames) \in Nat
  BY <1>1 DEF FinishOnly, IsSeq
<1>4. Len(frames) # 0
  <2>1. CASE Len(frames) = 0
    <3>1. frames = [n \in 1..0 |-> frames[n]]
      BY ONLY <1>3, <2>1 DEF IsSeq
    <3>2. frames = <<>>
      BY ONLY <3>1
    <3> QED
      BY <1>2, <3>2
  <2> QED
    BY <2>1
<1>5. PICK i, j : i = 1 /\ j = Len(frames) - 1
  OBVIOUS
<1>6. i \in 1..Len(frames) + 1 /\ j \in 0..Len(frames)
  BY ONLY <1>3, <1>4, <1>5
<1>7. PICK under : under = SubSeq(frames, i, j)
  OBVIOUS
<1>8. IsSeq(under) /\ \A k \in 1..Len(under) : k + i - 1 \in 1..Len(frames) /\ under[k] = frames[k + i - 1]
  BY <1>3, <1>6, <1>7, SeqPart
<1>9. FinishOnly(under)
  BY <1>1, <1>8 DEF FinishOnly
<1>10. frames' = under
  BY <1>2, <1>5, <1>7 DEF Runners!Under, Runners!Front
<1>11. PICK pr : pr = procs
  OBVIOUS
<1> QED
  BY <1>2, <1>9, <1>10, <1>11, SendWaitInv

-----------------------------------------------------------------------------
\* Every step of the two plugins keeps the invariant.
LEMMA ScriptsInvStep == ScriptsInv /\ [Runners!ScriptsNext]_runnerVars => ScriptsInv'
<1> SUFFICES ASSUME ScriptsInv, [Runners!ScriptsNext]_runnerVars PROVE ScriptsInv'
  OBVIOUS
<1>1. play.plugin \in {"RunCmd", "Debuggerlite"}
  BY RunnersAssumption DEF ScriptsInv
<1>2. CASE Runners!Receive
  <2>1. /\ heard < Len(Runners!calls) /\ heard' = heard + 1 /\ UNCHANGED <<play, hungUp>>
        /\ \/ play.plugin = "RunCmd" /\ Runners!RunCmdCall(heard + 1)
           \/ play.plugin = "Debuggerlite" /\ Runners!DebuggerliteCall(heard + 1)
    BY <1>2 DEF Runners!Receive
  <2> QED
    BY <2>1, RunCmdInv, DebuggerliteInv
<1>3. CASE \E ws \in play.closes : Runners!Close(ws)
  <2>1. PICK ws : Runners!Close(ws)
    BY <1>3
  <2>2. UNCHANGED <<play, heard>> /\ hungUp' = hungUp \cup {ws}
    BY <2>1 DEF Runners!Close
  <2>3. CASE play.plugin = "RunCmd"
    <3>1. UNCHANGED <<results, m_waitResultPack, frames>>
      BY <2>1, <2>3 DEF Runners!Close, Runners!stopProcess
    <3>2. FinishOnly(frames')
      BY <2>3, <3>1, RunFacts
    <3> QED
      BY <2>2, <2>3, <3>1, <3>2, RunKeeps
  <2>4. CASE play.plugin = "Debuggerlite"
    <3>1. Runners!handleCloseWebSocket(ws)
      BY <2>1, <2>4 DEF Runners!Close
    <3> QED
      BY <2>2, <2>4, <3>1, CloseSome
  <2> QED
    BY <1>1, <2>3, <2>4
<1>4. CASE \E p \in DOMAIN procs : Runners!Finished(p)
  BY <1>1, <1>4, FinishedInv, RunFinishedInv
<1>5. CASE \E p \in DOMAIN procs : Runners!KillUnseen(p)
  <2>1. PICK p \in DOMAIN procs : Runners!KillUnseen(p)
    BY <1>5
  <2>2. play.plugin = "Debuggerlite"
    BY <2>1 DEF Runners!KillUnseen
  <2> QED
    BY <2>1, <2>2, UnseenInv
<1>6. CASE Runners!Return
  <2>1. CASE play.plugin = "RunCmd"
    BY <1>6, <2>1, RunReturnInv
  <2>2. CASE play.plugin = "Debuggerlite"
    <3>1. /\ frames # <<>> /\ UNCHANGED <<play, heard, hungUp>>
          /\ \/ /\ Runners!Top.kind = "finish" /\ procs[Runners!Top.p].waitCmdFinished /\ Runners!slotFinish(Runners!Top.p, procs)
                /\ frames' = Runners!Under /\ UNCHANGED <<procs, m_procs>>
             \/ Runners!Top.kind = "stop" /\ Runners!StopReturns
      BY <1>6, <2>2 DEF Runners!Return
    <3> QED
      BY <2>2, <3>1, FinishReturns, StopReturnsInv
  <2> QED
    BY <1>1, <2>1, <2>2
<1>7. CASE Runners!Crash
  BY <1>7, DeathInv
<1>8. CASE UNCHANGED runnerVars
  <2>1. UNCHANGED <<play, heard, hungUp, procs, m_procs, m_waitResultPack, frames, results>>
    BY <1>8 DEF runnerVars
  <2> QED
    BY <2>1 DEF ScriptsInv, ResultsInv, Runners!Calls, Runners!calls
<1> QED
  BY <1>2, <1>3, <1>4, <1>5, <1>6, <1>7, <1>8 DEF Runners!ScriptsNext

\* It holds at the start.
LEMMA ScriptsInvStart == Runners!ScriptsInit => ScriptsInv
<1> SUFFICES ASSUME Runners!ScriptsInit PROVE ScriptsInv
  OBVIOUS
<1>1. /\ play \in Plays /\ heard = 0 /\ hungUp = {} /\ procs = <<>> /\ m_procs = {} /\ m_waitResultPack = 0 /\ frames = <<>>
      /\ results = [id \in Runners!Calls |-> <<>>]
  BY DEF Runners!ScriptsInit
<1>2. Len(Runners!calls) \in Nat
  BY <1>1, RunnersAssumption DEF Runners!calls
<1>3. ResultsInv(heard, results)
  <2>1. IsSeq(<<>>)
    BY DEF IsSeq
  <2> QED
    BY <1>1, <2>1 DEF ResultsInv
<1>4. IsSeq(frames) /\ Len(frames) = 0 /\ DOMAIN procs = {}
  BY <1>1 DEF IsSeq
<1>5. DebugInv(procs, m_procs, frames, hungUp, Runners!calls, heard, results)
  <2>1. \A id \in 1..heard : FALSE
    BY <1>1
  <2>2. \A k \in 1..Len(frames) : FALSE
    BY <1>4
  <2>3. FramesInv(frames, DOMAIN procs, CalmIn(procs, Runners!calls, heard, hungUp), StoppingIn(Runners!calls, heard, results))
    BY <1>4, <2>2 DEF FramesInv
  <2> QED
    BY <1>1, <1>4, <2>1, <2>3 DEF DebugInv
<1>6. RunInv(frames, m_waitResultPack, heard, results)
  <2>1. \A id \in 1..heard : FALSE
    BY <1>1
  <2>2. \A k \in 1..Len(frames) : FALSE
    BY <1>4
  <2> QED
    BY <1>1, <1>4, <2>1, <2>2 DEF RunInv, FinishOnly
<1> QED
  BY <1>1, <1>2, <1>3, <1>5, <1>6 DEF ScriptsInv

\* It says that calls are answered once.
LEMMA ScriptsAnswers == ScriptsInv => Runners!ScriptsAnsweredOnce
<1> SUFFICES ASSUME ScriptsInv, NEW id \in 1..heard, Len(results[id]) > 1
             PROVE  /\ Runners!calls[id].api = "Wait" /\ play.plugin = "Debuggerlite"
                    /\ procs[Runners!calls[id].of].nested \/ hungUp # {} \/ Runners!StopsOf(Runners!calls[id].ws) # {}
  BY DEF Runners!ScriptsAnsweredOnce
<1>1. play.plugin \in {"RunCmd", "Debuggerlite"}
  BY RunnersAssumption DEF ScriptsInv
<1>2. CASE play.plugin = "RunCmd"
  <2>1. Len(results[id]) <= 1 /\ Len(results[id]) \in Nat
    <3>1. id \in Runners!Calls
      BY <1>2, RunFacts DEF Runners!Calls
    <3> QED
      BY <1>2, <3>1, RunFacts DEF IsSeq
  <2> QED
    BY <2>1
<1>3. CASE play.plugin = "Debuggerlite"
  <2>1. Excused(procs, Runners!calls, heard, hungUp, id)
    BY <1>3, DebugFacts DEF DebugInv
  <2>2. PICK p \in DOMAIN procs : p \notin CalmIn(procs, Runners!calls, heard, hungUp) /\ id \in WaitOf(Runners!calls, heard, p, procs[p].ws)
    BY <2>1 DEF Excused
  <2>3. Runners!calls[id].api = "Wait" /\ Runners!calls[id].of = p /\ Runners!calls[id].ws = procs[p].ws
    BY <2>2 DEF WaitOf
  <2>4. procs[p].nested \/ hungUp # {} \/ \E k \in 1..heard : Runners!calls[k].api \in Stops /\ Runners!calls[k].ws = procs[p].ws
    BY <2>2 DEF CalmIn
  <2> QED
    BY <1>3, <2>3, <2>4 DEF Runners!StopsOf, Stops
<1> QED
  BY <1>1, <1>2, <1>3

-----------------------------------------------------------------------------
\* Waits that are answered in time.  A process may be gone: somebody hung up, or one of the
\* first n calls was a Stop or a Wait.
Reason(h, cs, n) == h # {} \/ \E k \in 1..n : cs[k].api \in {"Stop", "EmergencyStop", "Wait"}

\* The Wait for p may be answered while p runs: it was started inside a slot or, in RunCmd,
\* one before it was.
Early(pr, p, plugin) == \E q \in DOMAIN pr : pr[q].nested /\ (q = p \/ (plugin = "RunCmd" /\ q < p))

\* Answer a to the Wait id, and all the answers to the first n calls.
HonestAnswer(a, id, pr, h, cs, plugin) ==
    IF a.ok THEN a.alive => Early(pr, cs[id].of, plugin)
    ELSE \/ cs[id].of \notin DOMAIN pr \/ Reason(h, cs, id - 1)
         \/ plugin = "Debuggerlite" /\ pr[cs[id].of].ws # cs[id].ws
WaitsInv(rs, n, pr, h, cs, plugin) ==
    \A id \in 1..n : cs[id].api = "Wait" => \A k \in 1..Len(rs[id]) : HonestAnswer(rs[id][k], id, pr, h, cs, plugin)

\* Debuggerlite: what is not listed was stopped, stop() waits for what it has killed, and a
\* process that runs while a slot for its end spins was started inside it.
GoneInv(pr, listed, fs, h, cs, n) ==
    /\ \A p \in DOMAIN pr : p \notin listed => Reason(h, cs, n)
    /\ \A k \in 1..Len(fs) :
           /\ fs[k].kind = "stop" => /\ fs[k].quit \/ pr[fs[k].p].at \in {"killed", "unseen"}
                                     /\ fs[k].delete # "no" => Reason(h, cs, n)
           /\ fs[k].kind = "finish" /\ pr[fs[k].p].at = "running" => pr[fs[k].p].nested

\* RunCmd: the process it has is the last and the only one that was not deleted; one that
\* goes on without it, or runs while a slot spins, comes of a start inside a slot.
OnlyInv(pr, mp, fs, h, cs, n, wc, sc) ==
    /\ DOMAIN pr \subseteq 1..n /\ \A p \in DOMAIN pr : ProcShape(pr[p])
    /\ mp # 0 => mp \in DOMAIN pr /\ \A q \in DOMAIN pr : q <= mp
    /\ \A p \in DOMAIN pr : /\ pr[p].at = "running" => p = mp
                            /\ pr[p].at \in {"killed", "unseen"} => Early(pr, p, "RunCmd")
                            /\ p # mp => Reason(h, cs, n)
    /\ fs # <<>> /\ mp # 0 /\ pr[mp].at = "running" => Early(pr, mp, "RunCmd")
    /\ wc \/ sc => Reason(h, cs, n)

HonestInv ==
    /\ WaitsInv(results, heard, procs, hungUp, Runners!calls, play.plugin)
    /\ play.plugin = "Debuggerlite" => GoneInv(procs, m_procs, frames, hungUp, Runners!calls, heard)
    /\ play.plugin = "RunCmd" =>
           OnlyInv(procs, m_process, frames, hungUp, Runners!calls, heard, m_bWaitCommandCalled, m_bStopCommandCalled)

\* A reason stays one.
LEMMA ReasonLater ==
    ASSUME NEW h, NEW g, h \subseteq g, NEW cs, NEW n \in Nat, NEW m \in Nat, n <= m, Reason(h, cs, n)
    PROVE  Reason(g, cs, m)
<1>1. \A k \in 1..n : k \in 1..m
  OBVIOUS
<1>2. h # {} => g # {}
  OBVIOUS
<1> QED
  BY <1>1, <1>2 DEF Reason

\* So does the excuse for an early answer.
LEMMA EarlyLater ==
    ASSUME NEW pr, NEW qr, LaterProcs(pr, qr), NEW p, NEW plugin, Early(pr, p, plugin)
    PROVE  Early(qr, p, plugin)
<1>1. PICK q \in DOMAIN pr : pr[q].nested /\ (q = p \/ (plugin = "RunCmd" /\ q < p))
  BY DEF Early
<1>2. q \in DOMAIN qr /\ qr[q].nested
  BY <1>1, Zenon DEF LaterProcs
<1> QED
  BY <1>1, <1>2 DEF Early

\* Answers that were honest are so later.
LEMMA AnswersLater ==
    ASSUME NEW rs, NEW n \in Nat, NEW pr, NEW qr, LaterProcs(pr, qr), \A q \in DOMAIN qr : q \in DOMAIN pr \/ q \notin 0..n,
           NEW h, NEW g, h \subseteq g, NEW cs, \A id \in 1..n : cs[id].of \in 0..id - 1,
           NEW plugin, WaitsInv(rs, n, pr, h, cs, plugin)
    PROVE  WaitsInv(rs, n, qr, g, cs, plugin)
<1> SUFFICES ASSUME NEW id \in 1..n, cs[id].api = "Wait", NEW k \in 1..Len(rs[id])
             PROVE  HonestAnswer(rs[id][k], id, qr, g, cs, plugin)
  BY DEF WaitsInv
<1>1. PICK a, p : a = rs[id][k] /\ p = cs[id].of
  OBVIOUS
<1>2. HonestAnswer(a, id, pr, h, cs, plugin)
  BY <1>1 DEF WaitsInv
<1>3. p \in 0..n
  BY <1>1
<1>4. CASE a.ok
  BY <1>1, <1>2, <1>4, EarlyLater DEF HonestAnswer
<1>5. CASE ~a.ok
  <2>1. p \notin DOMAIN pr => p \notin DOMAIN qr
    BY <1>3
  <2>2. Reason(h, cs, id - 1) => Reason(g, cs, id - 1)
    BY ReasonLater
  <2>3. p \in DOMAIN pr => qr[p].ws = pr[p].ws
    BY DEF LaterProcs
  <2> QED
    BY <1>1, <1>2, <1>5, <2>1, <2>2, <2>3 DEF HonestAnswer
<1> QED
  BY <1>1, <1>4, <1>5

\* ss are the answers rs and, to Waits, one more, a, to call x (or none).
Adds(rs, ss, x, a) ==
    \A id \in Runners!Calls : Runners!calls[id].api = "Wait" =>
        \A k \in 1..Len(ss[id]) : \/ k \in 1..Len(rs[id]) /\ ss[id][k] = rs[id][k]
                                  \/ id = x /\ ss[id][k] = a

\* What Replied adds: alive says whether the process named runs.
LEMMA RepliedAdds ==
    ASSUME NEW rs, rs = [x \in Runners!Calls |-> rs[x]], \A x \in Runners!Calls : IsSeq(rs[x]),
           NEW id \in Runners!Calls \cup {0}, NEW ok, NEW pr
    PROVE  \E a : /\ Adds(rs, Runners!Replied(rs, id, ok, pr), id, a)
                  /\ a.ok = ok
                  /\ a.alive => Runners!calls[id].of \in DOMAIN pr /\ pr[Runners!calls[id].of].at = "running"
<1>1. PICK alive : alive = (Runners!Alive(Runners!calls[id].of, pr) /\ pr[Runners!calls[id].of].at = "running")
  OBVIOUS
<1>2. PICK a : a = [ok |-> ok, alive |-> alive]
  OBVIOUS
<1>3. a.ok = ok /\ a.alive = alive
  BY ONLY <1>2
<1>4. a.alive => Runners!calls[id].of \in DOMAIN pr /\ pr[Runners!calls[id].of].at = "running"
  BY <1>1, <1>3 DEF Runners!Alive
<1>5. PICK ss : ss = Runners!Replied(rs, id, ok, pr)
  OBVIOUS
<1>6. CASE id = 0
  BY <1>3, <1>4, <1>5, <1>6 DEF Runners!Replied, Adds
<1>7. CASE id # 0
  <2>1. ss = [rs EXCEPT ![id] = Append(@, a)]
    BY <1>1, <1>2, <1>5, <1>7 DEF Runners!Replied
  <2>2. ss = [x \in Runners!Calls |-> IF x = id THEN Append(rs[id], a) ELSE rs[x]]
    BY <2>1
  <2>3. PICK s : s = rs[id]
    OBVIOUS
  <2>4. IsSeq(s)
    BY <1>7, <2>3
  <2>5. /\ Len(Append(s, a)) = Len(s) + 1 /\ Append(s, a)[Len(s) + 1] = a
        /\ \A k \in 1..Len(s) : Append(s, a)[k] = s[k]
        /\ \A k \in 1..Len(s) + 1 : k \in 1..Len(s) \/ k = Len(s) + 1
    BY <2>4, SeqAppend
  <2>6. PICK t : t = Append(s, a)
    OBVIOUS
  <2>7. \A k \in 1..Len(t) : (k \in 1..Len(s) /\ t[k] = s[k]) \/ t[k] = a
    BY <2>5, <2>6
  <2>8. \A x \in Runners!Calls : ss[x] = IF x = id THEN t ELSE rs[x]
    BY ONLY <2>2, <2>3, <2>6
  <2>9. Adds(rs, ss, id, a)
    BY ONLY <2>3, <2>7, <2>8 DEF Adds
  <2> QED
    BY <1>3, <1>4, <1>5, <2>9
<1> QED
  BY <1>6, <1>7

\* One honest answer more.
LEMMA AnswersMore ==
    ASSUME NEW rs, NEW n \in Nat, NEW m \in Nat, m <= MaxCalls, ResultsInv(n, rs), NEW pr, NEW h, NEW cs, NEW plugin,
           WaitsInv(rs, n, pr, h, cs, plugin),
           cs = Runners!calls, NEW ss, NEW x, NEW a, Adds(rs, ss, x, a),
           x \in 1..m /\ cs[x].api = "Wait" => HonestAnswer(a, x, pr, h, cs, plugin)
    PROVE  WaitsInv(ss, m, pr, h, cs, plugin)
<1> SUFFICES ASSUME NEW id \in 1..m, cs[id].api = "Wait", NEW k \in 1..Len(ss[id])
             PROVE  HonestAnswer(ss[id][k], id, pr, h, cs, plugin)
  BY DEF WaitsInv
<1>1. id \in Runners!Calls
  BY CallsInside
<1>2. CASE k \in 1..Len(rs[id]) /\ ss[id][k] = rs[id][k]
  <2>1. id \in 1..n
    <3>1. CASE id > n
      <4>1. rs[id] = <<>>
        BY <1>1, <3>1 DEF ResultsInv
      <4> QED
        BY <1>2, <4>1
    <3> QED
      BY <3>1
  <2> QED
    BY <1>2, <2>1 DEF WaitsInv
<1>3. CASE id = x /\ ss[id][k] = a
  BY <1>3
<1> QED
  BY <1>1, <1>2, <1>3 DEF Adds

\* What is known of calls and answers.
LEMMA PlayFacts ==
    ASSUME ScriptsInv
    PROVE  /\ heard \in Nat /\ heard <= Len(Runners!calls) /\ Len(Runners!calls) \in Nat /\ Len(Runners!calls) <= MaxCalls
           /\ MaxCalls \in Nat /\ \A id \in 1..Len(Runners!calls) : Runners!calls[id].of \in 0..id - 1
           /\ ResultsInv(heard, results) /\ play.plugin \in {"RunCmd", "Debuggerlite"}
           /\ results = [x \in Runners!Calls |-> results[x]] /\ \A x \in Runners!Calls : IsSeq(results[x])
<1>1. play \in Plays /\ heard \in Nat /\ heard <= Len(Runners!calls) /\ ResultsInv(heard, results)
  BY DEF ScriptsInv
<1>2. /\ Len(Runners!calls) \in Nat /\ Len(Runners!calls) <= MaxCalls /\ MaxCalls \in Nat /\ play.plugin \in {"RunCmd", "Debuggerlite"}
      /\ \A id \in 1..Len(Runners!calls) : Runners!calls[id].of \in 0..id - 1
  BY <1>1, RunnersAssumption DEF Runners!calls
<1> QED
  BY <1>1, <1>2 DEF ResultsInv

\* Nothing is added.
LEMMA NothingAdded == ASSUME NEW rs, NEW a PROVE Adds(rs, rs, 0, a)
BY DEF Adds

\* A step that adds an honest answer to call x, or none.
LEMMA HonestStep ==
    ASSUME ScriptsInv, HonestInv, play' = play, heard' \in Nat, heard <= heard', heard' <= Len(Runners!calls),
           hungUp \subseteq hungUp', LaterProcs(procs, procs'), \A q \in DOMAIN procs' : q \in DOMAIN procs \/ q \notin 0..heard,
           NEW x, NEW a, Adds(results, results', x, a),
           x \in 1..heard' /\ Runners!calls[x].api = "Wait" => HonestAnswer(a, x, procs', hungUp', Runners!calls, play.plugin),
           play.plugin = "Debuggerlite" => GoneInv(procs', m_procs', frames', hungUp', Runners!calls, heard'),
           play.plugin = "RunCmd" =>
               OnlyInv(procs', m_process', frames', hungUp', Runners!calls, heard', m_bWaitCommandCalled', m_bStopCommandCalled')
    PROVE  HonestInv'
<1>1. /\ heard \in Nat /\ heard <= Len(Runners!calls) /\ Len(Runners!calls) \in Nat /\ Len(Runners!calls) <= MaxCalls
      /\ MaxCalls \in Nat /\ \A id \in 1..Len(Runners!calls) : Runners!calls[id].of \in 0..id - 1
      /\ ResultsInv(heard, results)
  BY PlayFacts
<1>2. \A id \in 1..heard : Runners!calls[id].of \in 0..id - 1
  BY <1>1
<1>3. WaitsInv(results, heard, procs, hungUp, Runners!calls, play.plugin)
  BY DEF HonestInv
<1>4. WaitsInv(results, heard, procs', hungUp', Runners!calls, play.plugin)
  BY <1>1, <1>2, <1>3, AnswersLater
<1>5. WaitsInv(results', heard', procs', hungUp', Runners!calls, play.plugin)
  <2>1. heard' <= MaxCalls
    BY <1>1
  <2>2. PICK cs, pr, h, plugin : cs = Runners!calls /\ pr = procs' /\ h = hungUp' /\ plugin = play.plugin
    OBVIOUS
  <2>3. WaitsInv(results', heard', pr, h, cs, plugin)
    BY <1>1, <1>4, <2>1, <2>2, AnswersMore
  <2> QED
    BY <2>2, <2>3
<1>6. Runners!calls' = Runners!calls
  BY DEF Runners!calls
<1> QED
  BY <1>5, <1>6 DEF HonestInv

-----------------------------------------------------------------------------
\* What it says of Debuggerlite.
LEMMA GoneFacts ==
    ASSUME ScriptsInv, HonestInv, play.plugin = "Debuggerlite"
    PROVE  /\ \A p \in DOMAIN procs : p \notin m_procs => Reason(hungUp, Runners!calls, heard)
           /\ \A k \in 1..Len(frames) :
                  /\ frames[k].p \in DOMAIN procs
                  /\ frames[k].kind = "stop" => /\ frames[k].quit \/ procs[frames[k].p].at \in {"killed", "unseen"}
                                                /\ frames[k].delete # "no" => Reason(hungUp, Runners!calls, heard)
                  /\ frames[k].kind = "finish" /\ procs[frames[k].p].at = "running" => procs[frames[k].p].nested
           /\ IsSeq(frames) /\ Len(frames) \in Nat /\ DOMAIN procs \subseteq 1..heard /\ m_procs \subseteq DOMAIN procs
           /\ \A p \in DOMAIN procs : ProcShape(procs[p])
           /\ \A p \in DOMAIN procs : procs[p].waitId \in 0..heard
           /\ \A p \in DOMAIN procs : procs[p].waitId # 0 => Runners!calls[procs[p].waitId].of = p
<1>1. DebugInv(procs, m_procs, frames, hungUp, Runners!calls, heard, results) /\ heard \in Nat
  BY DebugFacts
<1>2. FramesInv(frames, DOMAIN procs, CalmIn(procs, Runners!calls, heard, hungUp), StoppingIn(Runners!calls, heard, results))
  BY <1>1 DEF DebugInv
<1>3. (\A k \in 1..Len(frames) : frames[k].p \in DOMAIN procs) /\ IsSeq(frames) /\ Len(frames) \in Nat
  BY <1>2 DEF FramesInv, FrameInv, IsSeq
<1>4. GoneInv(procs, m_procs, frames, hungUp, Runners!calls, heard)
  BY DEF HonestInv
<1>5. \A p \in DOMAIN procs : ProcShape(procs[p]) /\ procs[p].waitId \in WaitOf(Runners!calls, heard, p, procs[p].ws) \cup {0}
  BY <1>1 DEF DebugInv, ProcInv
<1>6. \A p \in DOMAIN procs : procs[p].waitId \in 0..heard /\ (procs[p].waitId # 0 => Runners!calls[procs[p].waitId].of = p)
  BY <1>1, <1>5 DEF WaitOf
<1> QED
  BY <1>1, <1>3, <1>4, <1>5, <1>6 DEF GoneInv, DebugInv

\* A step after which a process that a slot waits for is at what it was at, or no longer runs
\* and was not being stopped; the slots are the same.
LEMMA GoneSame ==
    ASSUME ScriptsInv, HonestInv, play.plugin = "Debuggerlite", heard' \in Nat, heard <= heard', hungUp \subseteq hungUp',
           m_procs \subseteq m_procs', frames' = frames, \A q \in DOMAIN procs' : q \in DOMAIN procs \/ q \in m_procs',
           \A p \in DOMAIN procs :
               /\ procs[p].at \in {"killed", "unseen"} => procs'[p].at \in {"killed", "unseen"}
               /\ procs'[p].at = "running" => \/ procs[p].at = "running" /\ (procs[p].nested => procs'[p].nested)
                                              \/ Spinning(frames, p) => procs'[p].nested
    PROVE  GoneInv(procs', m_procs', frames', hungUp', Runners!calls, heard')
<1>1. heard \in Nat
  BY PlayFacts
<1>2. Reason(hungUp, Runners!calls, heard) => Reason(hungUp', Runners!calls, heard')
  BY <1>1, ReasonLater
<1>3. ASSUME NEW p \in DOMAIN procs', p \notin m_procs' PROVE Reason(hungUp', Runners!calls, heard')
  BY <1>2, <1>3, GoneFacts
<1>4. ASSUME NEW k \in 1..Len(frames), frames[k].kind = "stop"
      PROVE  /\ frames[k].quit \/ procs'[frames[k].p].at \in {"killed", "unseen"}
             /\ frames[k].delete # "no" => Reason(hungUp', Runners!calls, heard')
  BY <1>2, <1>4, GoneFacts
<1>5. ASSUME NEW k \in 1..Len(frames), frames[k].kind = "finish", procs'[frames[k].p].at = "running"
      PROVE  procs'[frames[k].p].nested
  <2>1. frames[k].p \in DOMAIN procs /\ Spinning(frames, frames[k].p)
        /\ (procs[frames[k].p].at = "running" => procs[frames[k].p].nested)
    BY <1>5, GoneFacts DEF Spinning
  <2> QED
    BY <1>5, <2>1
<1> QED
  BY <1>3, <1>4, <1>5 DEF GoneInv

\* What Replies adds.
LEMMA ReplyAdds ==
    ASSUME ScriptsInv, NEW id \in Runners!Calls \cup {0}, NEW ok, Runners!Replies(id, ok)
    PROVE  \E a : /\ Adds(results, results', id, a) /\ a.ok = ok
                  /\ a.alive => Runners!calls[id].of \in DOMAIN procs /\ procs[Runners!calls[id].of].at = "running"
<1>1. results = [x \in Runners!Calls |-> results[x]] /\ \A x \in Runners!Calls : IsSeq(results[x])
  BY PlayFacts
<1>2. PICK pr : pr = procs
  OBVIOUS
<1>3. results' = Runners!Replied(results, id, ok, pr)
  BY <1>2 DEF Runners!Replies
<1> QED
  BY <1>1, <1>2, <1>3, RepliedAdds

\* A call that comes in, and is the last so far.
LEMMA NewCall ==
    ASSUME ScriptsInv, heard < Len(Runners!calls), heard' = heard + 1
    PROVE  /\ heard' \in Nat /\ heard <= heard' /\ heard' <= Len(Runners!calls) /\ heard' \in Runners!Calls
           /\ heard' \in 1..heard' /\ heard' # 0 /\ heard' - 1 = heard /\ heard' \notin 0..heard
<1>1. heard \in Nat /\ Len(Runners!calls) \in Nat /\ Len(Runners!calls) <= MaxCalls /\ MaxCalls \in Nat
  BY PlayFacts
<1> QED
  BY <1>1 DEF Runners!Calls

\* It is answered and nothing else: no Wait, or a Wait for a process that is gone or is
\* another client's.
LEMMA AnsweredHonest ==
    ASSUME ScriptsInv, HonestInv, play.plugin = "Debuggerlite", play' = play, heard < Len(Runners!calls), heard' = heard + 1,
           NEW ok, Runners!Replies(heard + 1, ok), UNCHANGED <<procs, m_procs, frames, hungUp>>,
           Runners!calls[heard + 1].api = "Wait" => ~ok /\ ~Runners!getProc(heard + 1)
    PROVE  HonestInv'
<1>1. /\ heard' \in Nat /\ heard <= heard' /\ heard' <= Len(Runners!calls) /\ heard' \in Runners!Calls
      /\ heard' \in 1..heard' /\ heard' # 0 /\ heard' - 1 = heard
  BY NewCall
<1>2. PICK id : id = heard'
  OBVIOUS
<1>3. PICK a : Adds(results, results', id, a) /\ a.ok = ok
  BY <1>1, <1>2, ReplyAdds
<1>4. LaterProcs(procs, procs') /\ hungUp \subseteq hungUp' /\ \A q \in DOMAIN procs' : q \in DOMAIN procs
  BY DEF LaterProcs
<1>5. GoneInv(procs', m_procs', frames', hungUp', Runners!calls, heard')
  BY <1>1, <1>4, GoneSame
<1>6. ASSUME Runners!calls[id].api = "Wait" PROVE HonestAnswer(a, id, procs', hungUp', Runners!calls, play.plugin)
  <2>1. ~a.ok /\ ~Runners!getProc(id)
    BY <1>2, <1>3, <1>6
  <2>2. PICK p : p = Runners!calls[id].of
    OBVIOUS
  <2>3. p \notin m_procs \/ procs[p].ws # Runners!calls[id].ws
    BY <2>1, <2>2 DEF Runners!getProc
  <2>4. p \in DOMAIN procs /\ p \notin m_procs => Reason(hungUp, Runners!calls, id - 1)
    BY <1>1, <1>2, GoneFacts
  <2> QED
    BY <2>1, <2>2, <2>3, <2>4 DEF HonestAnswer
<1> QED
  BY <1>1, <1>3, <1>4, <1>5, <1>6, HonestStep

\* _handlePrepareCommand.
LEMMA PrepareHonest ==
    ASSUME ScriptsInv, HonestInv, play.plugin = "Debuggerlite", play' = play, heard < Len(Runners!calls), heard' = heard + 1,
           UNCHANGED hungUp, Runners!calls[heard + 1].api = "Prepare", Runners!handlePrepareCommand(heard + 1)
    PROVE  HonestInv'
<1>1. /\ heard' \in Nat /\ heard <= heard' /\ heard' <= Len(Runners!calls) /\ heard' \in Runners!Calls
      /\ heard' \in 1..heard' /\ heard' # 0 /\ heard' - 1 = heard /\ heard' \notin 0..heard
  BY NewCall
<1>2. CASE Runners!Replies(heard + 1, FALSE) /\ UNCHANGED <<procs, m_procs, frames>>
  BY <1>2, AnsweredHonest
<1>3. CASE /\ procs' = Runners!With(procs, heard + 1, Runners!Process(Runners!calls[heard + 1].ws, "prepared"))
           /\ m_procs' = m_procs \cup {heard + 1} /\ Runners!Replies(heard + 1, TRUE) /\ UNCHANGED frames
  <2>1. PICK id : id = heard'
    OBVIOUS
  <2>2. PICK a : Adds(results, results', id, a)
    BY <1>1, <1>3, <2>1, ReplyAdds
  <2>3. id \notin DOMAIN procs
    BY <1>1, <2>1, GoneFacts, PlayFacts
  <2>4. DOMAIN procs' = DOMAIN procs \cup {id} /\ \A p \in DOMAIN procs : procs'[p] = procs[p]
    BY <1>3, <2>1, <2>3 DEF Runners!With
  <2>5. LaterProcs(procs, procs') /\ hungUp \subseteq hungUp' /\ \A q \in DOMAIN procs' : q \in DOMAIN procs \/ q \notin 0..heard
    BY <1>1, <2>1, <2>4 DEF LaterProcs
  <2>6. m_procs \subseteq m_procs' /\ \A q \in DOMAIN procs' : q \in DOMAIN procs \/ q \in m_procs'
    BY <1>3, <2>1, <2>4
  <2>7. GoneInv(procs', m_procs', frames', hungUp', Runners!calls, heard')
    BY <1>1, <1>3, <2>4, <2>5, <2>6, GoneSame
  <2>8. Runners!calls[id].api # "Wait"
    BY <2>1
  <2> QED
    BY <1>1, <2>2, <2>5, <2>7, <2>8, HonestStep
<1> QED
  BY <1>2, <1>3 DEF Runners!handlePrepareCommand

\* DProcess::start, of one or of all.
LEMMA StartHonest ==
    ASSUME ScriptsInv, HonestInv, play.plugin = "Debuggerlite", play' = play, heard < Len(Runners!calls), heard' = heard + 1,
           UNCHANGED hungUp, Runners!calls[heard + 1].api # "Wait", NEW S, Runners!StartThese(heard + 1, S)
    PROVE  HonestInv'
<1>1. /\ heard' \in Nat /\ heard <= heard' /\ heard' <= Len(Runners!calls) /\ heard' \in Runners!Calls
      /\ heard' \in 1..heard' /\ heard' # 0
  BY NewCall
<1>2. PICK id, idle : id = heard' /\ idle = {p \in S : ~Runners!isRunning(p)}
  OBVIOUS
<1>3. PICK failed : /\ procs' = [p \in DOMAIN procs |-> IF p \in idle THEN Runners!Started(p, p \notin failed) ELSE procs[p]]
                    /\ Runners!Replies(id, failed = {}) /\ UNCHANGED <<m_procs, frames>>
  BY <1>2 DEF Runners!StartThese
<1>4. PICK a : Adds(results, results', id, a)
  <2>1. PICK ok : ok = (failed = {})
    OBVIOUS
  <2> QED
    BY <1>1, <1>2, <1>3, <2>1, ReplyAdds
<1>5. DOMAIN procs' = DOMAIN procs
  BY ONLY <1>3
<1>6. ASSUME NEW p \in DOMAIN procs
      PROVE  /\ procs'[p].ws = procs[p].ws /\ (procs[p].nested => procs'[p].nested)
             /\ procs[p].at \in {"killed", "unseen"} => procs'[p].at \in {"killed", "unseen"}
             /\ procs'[p].at = "running" => procs[p].at = "running" \/ (Spinning(frames, p) => procs'[p].nested)
  <2>1. CASE p \in idle
    <3>1. procs[p] = [ws |-> procs[p].ws, at |-> procs[p].at, waitId |-> procs[p].waitId,
                      waitCmdFinished |-> procs[p].waitCmdFinished, nested |-> procs[p].nested]
      BY GoneFacts DEF ProcShape
    <3>2. PICK at, nested : /\ at = (IF p \notin failed THEN "running" ELSE procs[p].at)
                            /\ nested = (procs[p].nested \/ Runners!SpinsFor(p))
      OBVIOUS
    <3>3. procs'[p] = [procs[p] EXCEPT !.waitCmdFinished = FALSE, !.at = IF p \notin failed THEN "running" ELSE @,
                                       !.nested = @ \/ Runners!SpinsFor(p)]
      BY <1>3, <2>1 DEF Runners!Started
    <3>4. procs'[p] = [ws |-> procs[p].ws, at |-> at, waitId |-> procs[p].waitId, waitCmdFinished |-> FALSE, nested |-> nested]
      BY ONLY <3>1, <3>2, <3>3
    <3>5. procs'[p].ws = procs[p].ws /\ procs'[p].nested = nested
      BY ONLY <3>4
    <3>6. Spinning(frames, p) => Runners!SpinsFor(p)
      <4>1. DOMAIN frames = 1..Len(frames)
        BY GoneFacts DEF IsSeq
      <4> QED
        BY <4>1 DEF Spinning, Runners!SpinsFor
    <3>7. procs[p].at \notin {"killed", "unseen"}
      BY <1>2, <2>1 DEF Runners!isRunning, Runners!Alive
    <3> QED
      BY <3>2, <3>5, <3>6, <3>7
  <2>2. CASE p \notin idle
    BY <1>3, <2>2
  <2> QED
    BY <2>1, <2>2
<1>7. LaterProcs(procs, procs') /\ hungUp \subseteq hungUp' /\ \A q \in DOMAIN procs' : q \in DOMAIN procs
  BY <1>5, <1>6 DEF LaterProcs
<1>8. GoneInv(procs', m_procs', frames', hungUp', Runners!calls, heard')
  BY <1>1, <1>3, <1>6, <1>7, GoneSame
<1> QED
  BY <1>1, <1>2, <1>4, <1>7, <1>8, HonestStep

\* _handleWaitCommand of Debuggerlite.
LEMMA DebugWaitHonest ==
    ASSUME ScriptsInv, HonestInv, play.plugin = "Debuggerlite", play' = play, heard < Len(Runners!calls), heard' = heard + 1,
           UNCHANGED hungUp, Runners!getProc(heard + 1), Runners!handleDebugWait(heard + 1)
    PROVE  HonestInv'
<1>1. /\ heard' \in Nat /\ heard <= heard' /\ heard' <= Len(Runners!calls) /\ 0 \notin 1..heard'
  BY NewCall
<1>2. PICK id, p : id = heard' /\ p = Runners!calls[id].of
  OBVIOUS
<1>3. /\ procs' = [procs EXCEPT ![p].waitId = id, ![p].waitCmdFinished = TRUE] /\ UNCHANGED <<m_procs, frames, results>>
      /\ p \in DOMAIN procs
  <2>1. p \in m_procs
    BY <1>2 DEF Runners!getProc
  <2> QED
    BY <1>2, <2>1, GoneFacts DEF Runners!handleDebugWait
<1>4. DOMAIN procs' = DOMAIN procs /\ \A q \in DOMAIN procs : q # p => procs'[q] = procs[q]
  BY ONLY <1>3
<1>5. procs'[p].ws = procs[p].ws /\ procs'[p].at = procs[p].at /\ procs'[p].nested = procs[p].nested
  <2>1. procs[p] = [ws |-> procs[p].ws, at |-> procs[p].at, waitId |-> procs[p].waitId,
                    waitCmdFinished |-> procs[p].waitCmdFinished, nested |-> procs[p].nested]
    BY <1>3, GoneFacts DEF ProcShape
  <2>2. procs'[p] = [procs[p] EXCEPT !.waitId = id, !.waitCmdFinished = TRUE]
    BY ONLY <1>3
  <2>3. procs'[p] = [ws |-> procs[p].ws, at |-> procs[p].at, waitId |-> id, waitCmdFinished |-> TRUE, nested |-> procs[p].nested]
    BY ONLY <2>1, <2>2
  <2> QED
    BY ONLY <2>3
<1>6. \A q \in DOMAIN procs : procs'[q].ws = procs[q].ws /\ procs'[q].at = procs[q].at /\ procs'[q].nested = procs[q].nested
  BY ONLY <1>4, <1>5
<1>7. LaterProcs(procs, procs') /\ hungUp \subseteq hungUp' /\ \A q \in DOMAIN procs' : q \in DOMAIN procs
  BY <1>4, <1>6 DEF LaterProcs
<1>8. GoneInv(procs', m_procs', frames', hungUp', Runners!calls, heard')
  BY <1>1, <1>3, <1>6, <1>7, GoneSame
<1>9. PICK x, a : x = 0 /\ Adds(results, results', x, a)
  BY <1>3, NothingAdded
<1> QED
  BY <1>1, <1>7, <1>8, <1>9, HonestStep

\* Slots that were good and one more, for an end that was seen or for what was killed.
LEMMA GoneAppend ==
    ASSUME NEW pr, NEW listed, NEW fs, NEW h, NEW cs, NEW n, IsSeq(fs), GoneInv(pr, listed, fs, h, cs, n), NEW f,
           f.kind = "stop" => pr[f.p].at \in {"killed", "unseen"} /\ (f.delete # "no" => Reason(h, cs, n)),
           f.kind = "finish" => pr[f.p].at # "running"
    PROVE  GoneInv(pr, listed, Append(fs, f), h, cs, n)
<1>1. PICK gs : gs = Append(fs, f)
  OBVIOUS
<1>2. /\ Len(gs) = Len(fs) + 1 /\ gs[Len(fs) + 1] = f /\ \A k \in 1..Len(fs) : gs[k] = fs[k]
      /\ \A k \in 1..Len(gs) : k \in 1..Len(fs) \/ k = Len(fs) + 1
  BY <1>1, SeqAppend
<1>3. GoneInv(pr, listed, gs, h, cs, n)
  BY <1>2 DEF GoneInv
<1> QED
  BY <1>1, <1>3

\* Stopping one after the other, on behalf of call id.
LEMMA StopNextHonest ==
    ASSUME ScriptsInv, HonestInv, play.plugin = "Debuggerlite", play' = play, heard' \in Nat, heard <= heard',
           heard' <= Len(Runners!calls), hungUp \subseteq hungUp',
           NEW id \in 0..heard', id # 0 => Runners!calls[id].api # "Wait",
           NEW pr, DOMAIN pr = DOMAIN procs,
           \A p \in DOMAIN procs : ProcShape(pr[p]) /\ pr[p].ws = procs[p].ws /\ pr[p].nested = procs[p].nested,
           NEW ps, IsSeq(ps), \A k \in 1..Len(ps) : ps[k] \in DOMAIN procs,
           NEW listed, NEW below, IsSeq(below), \A k \in 1..Len(below) : below[k].p \in DOMAIN procs,
           GoneInv(pr, listed, below, hungUp', Runners!calls, heard'),
           NEW delete, delete # "no" => Reason(hungUp', Runners!calls, heard'),
           Runners!StopNext(id, ps, delete, below, pr, listed)
    PROVE  HonestInv'
<1>1. PICK first, deleted :
        /\ first \in 1..Len(ps) + 1
        /\ deleted = IF delete = "no" THEN {} ELSE {ps[n] : n \in 1..first - 1}
        /\ \A n \in 1..first - 1 : ~Runners!Alive(ps[n], pr)
        /\ first <= Len(ps) => Runners!Alive(ps[first], pr)
        /\ m_procs' = listed \ deleted
        /\ procs' = [p \in DOMAIN pr |->
                       IF p \in deleted THEN [pr[p] EXCEPT !.at = "deleted", !.waitCmdFinished = TRUE]
                       ELSE IF first <= Len(ps) /\ p = ps[first] THEN [pr[p] EXCEPT !.at = Runners!Slain(@), !.waitCmdFinished = TRUE]
                       ELSE pr[p]]
        /\ \/ frames' = below /\ results' = Runners!Replied(results, id, TRUE, procs)
           \/ /\ first <= Len(ps)
              /\ frames' = Append(below, Runners!Frame("stop", ps[first], id, SubSeq(ps, first + 1, Len(ps)), delete))
              /\ UNCHANGED results
  <2>1. PICK first \in 1..Len(ps) + 1 :
          LET runsOn == first <= Len(ps)
              deleted == IF delete = "no" THEN {} ELSE {ps[n] : n \in 1..first - 1}
          IN /\ \A n \in 1..first - 1 : ~Runners!Alive(ps[n], pr)
             /\ runsOn => Runners!Alive(ps[first], pr)
             /\ m_procs' = listed \ deleted
             /\ procs' = [p \in DOMAIN pr |->
                           IF p \in deleted THEN [pr[p] EXCEPT !.at = "deleted", !.waitCmdFinished = TRUE]
                           ELSE IF runsOn /\ p = ps[first] THEN [pr[p] EXCEPT !.at = Runners!Slain(@), !.waitCmdFinished = TRUE]
                           ELSE pr[p]]
             /\ \/ frames' = below /\ results' = Runners!Replied(results, id, TRUE, procs)
                \/ /\ runsOn
                   /\ frames' = Append(below, Runners!Frame("stop", ps[first], id, SubSeq(ps, first + 1, Len(ps)), delete))
                   /\ UNCHANGED results
    BY DEF Runners!StopNext
  <2>2. PICK deleted : deleted = IF delete = "no" THEN {} ELSE {ps[n] : n \in 1..first - 1}
    OBVIOUS
  <2> QED
    BY <2>1, <2>2, Zenon
<1>2. Len(ps) \in Nat /\ DOMAIN procs' = DOMAIN procs
  BY <1>1 DEF IsSeq
<1>3. PICK target : target = IF first <= Len(ps) THEN {ps[first]} ELSE {}
  OBVIOUS
<1>4. target \subseteq DOMAIN procs
  <2>1. first \in 1..Len(ps) + 1
    BY <1>1
  <2>2. first <= Len(ps) => first \in 1..Len(ps)
    BY ONLY <1>2, <2>1
  <2>3. first <= Len(ps) => ps[first] \in DOMAIN procs
    BY <2>2
  <2> QED
    BY ONLY <1>3, <2>3
<1>5. ASSUME NEW p \in DOMAIN procs
      PROVE  /\ procs'[p].ws = procs[p].ws /\ procs'[p].nested = procs[p].nested
             /\ p \in target \ deleted => procs'[p].at \in {"killed", "unseen"}
             /\ p \in deleted => procs'[p].at = "deleted" /\ delete # "no" /\ pr[p].at \notin {"killed", "unseen"}
             /\ p \notin target \cup deleted => procs'[p] = pr[p]
  <2>1. pr[p] = [ws |-> pr[p].ws, at |-> pr[p].at, waitId |-> pr[p].waitId, waitCmdFinished |-> pr[p].waitCmdFinished,
                 nested |-> pr[p].nested] /\ pr[p].ws = procs[p].ws /\ pr[p].nested = procs[p].nested
    BY DEF ProcShape
  <2>2. CASE p \in deleted
    <3>1. procs'[p] = [pr[p] EXCEPT !.at = "deleted", !.waitCmdFinished = TRUE]
      BY <1>1, <2>2
    <3>2. procs'[p] = [ws |-> pr[p].ws, at |-> "deleted", waitId |-> pr[p].waitId, waitCmdFinished |-> TRUE, nested |-> pr[p].nested]
      BY ONLY <2>1, <3>1
    <3>3. procs'[p].ws = pr[p].ws /\ procs'[p].at = "deleted" /\ procs'[p].nested = pr[p].nested
      BY ONLY <3>2
    <3>4. delete # "no" /\ ~Runners!Alive(p, pr)
      BY <1>1, <2>2
    <3>5. pr[p].at \notin {"killed", "unseen"}
      BY <3>4 DEF Runners!Alive
    <3> QED
      BY ONLY <2>1, <2>2, <3>3, <3>4, <3>5
  <2>3. CASE p \in target \ deleted
    <3>1. procs'[p] = [pr[p] EXCEPT !.at = Runners!Slain(@), !.waitCmdFinished = TRUE]
      BY <1>1, <1>3, <2>3
    <3>0. PICK at : at = Runners!Slain(pr[p].at)
      OBVIOUS
    <3>2. procs'[p] = [ws |-> pr[p].ws, at |-> at, waitId |-> pr[p].waitId, waitCmdFinished |-> TRUE, nested |-> pr[p].nested]
      BY ONLY <2>1, <3>0, <3>1
    <3>4. at \in {"killed", "unseen"}
      BY ONLY <3>0 DEF Runners!Slain
    <3>3. procs'[p].ws = pr[p].ws /\ procs'[p].at \in {"killed", "unseen"} /\ procs'[p].nested = pr[p].nested
      BY ONLY <3>2, <3>4
    <3> QED
      BY ONLY <2>1, <2>3, <3>3
  <2>4. CASE p \notin target \cup deleted
    <3>1. procs'[p] = pr[p]
      BY <1>1, <1>3, <2>4
    <3> QED
      BY ONLY <2>1, <2>4, <3>1
  <2> QED
    BY <2>2, <2>3, <2>4
<1>6. GoneInv(procs', m_procs', below, hungUp', Runners!calls, heard')
  <2>1. ASSUME NEW p \in DOMAIN procs', p \notin m_procs' PROVE Reason(hungUp', Runners!calls, heard')
    BY <1>1, <1>2, <1>5, <2>1 DEF GoneInv
  <2>2. ASSUME NEW k \in 1..Len(below)
        PROVE  /\ below[k].kind = "stop" => /\ below[k].quit \/ procs'[below[k].p].at \in {"killed", "unseen"}
                                            /\ below[k].delete # "no" => Reason(hungUp', Runners!calls, heard')
               /\ below[k].kind = "finish" /\ procs'[below[k].p].at = "running" => procs'[below[k].p].nested
    <3>1. PICK p : p = below[k].p
      OBVIOUS
    <3>2. p \in DOMAIN procs
      BY <3>1
    <3>3. /\ below[k].kind = "stop" => /\ below[k].quit \/ pr[p].at \in {"killed", "unseen"}
                                       /\ below[k].delete # "no" => Reason(hungUp', Runners!calls, heard')
          /\ below[k].kind = "finish" /\ pr[p].at = "running" => pr[p].nested
      BY <3>1 DEF GoneInv
    <3>4. pr[p].at \in {"killed", "unseen"} => procs'[p].at \in {"killed", "unseen"}
      BY <1>5, <3>2
    <3>5. procs'[p].at = "running" => procs'[p] = pr[p]
      BY <1>5, <3>2
    <3> QED
      BY <3>1, <3>3, <3>4, <3>5
  <2> QED
    BY <2>1, <2>2 DEF GoneInv
<1>7. LaterProcs(procs, procs') /\ \A q \in DOMAIN procs' : q \in DOMAIN procs
  BY <1>2, <1>5 DEF LaterProcs
<1>8. CASE frames' = below /\ results' = Runners!Replied(results, id, TRUE, procs)
  <2>1. id \in Runners!Calls \cup {0}
    BY PlayFacts DEF Runners!Calls
  <2>2. PICK ok : ok = TRUE
    OBVIOUS
  <2>3. Runners!Replies(id, ok)
    BY <1>8, <2>2 DEF Runners!Replies
  <2>4. PICK a : Adds(results, results', id, a)
    BY <2>1, <2>3, ReplyAdds
  <2>5. id \in 1..heard' => Runners!calls[id].api # "Wait"
    OBVIOUS
  <2> QED
    BY <1>6, <1>7, <1>8, <2>4, <2>5, HonestStep
<1>9. CASE /\ first <= Len(ps) /\ UNCHANGED results
           /\ frames' = Append(below, Runners!Frame("stop", ps[first], id, SubSeq(ps, first + 1, Len(ps)), delete))
  <2>1. PICK f : f = Runners!Frame("stop", ps[first], id, SubSeq(ps, first + 1, Len(ps)), delete)
    OBVIOUS
  <2>2. f.kind = "stop" /\ f.p = ps[first] /\ f.delete = delete
    BY <2>1 DEF Runners!Frame
  <2>3. f.p \in target /\ f.p \in DOMAIN procs
    BY <1>3, <1>4, <1>9, <2>2
  <2>4. f.p \notin deleted
    <3>1. \A p \in deleted : ~Runners!Alive(p, pr)
      BY ONLY <1>1
    <3>2. Runners!Alive(f.p, pr)
      BY <1>1, <1>9, <2>2
    <3> QED
      BY ONLY <3>1, <3>2
  <2>5. procs'[f.p].at \in {"killed", "unseen"}
    BY <1>5, <2>3, <2>4
  <2>6. GoneInv(procs', m_procs', Append(below, f), hungUp', Runners!calls, heard')
    <3>1. f.kind # "finish" /\ (f.delete # "no" => Reason(hungUp', Runners!calls, heard'))
      BY <2>2
    <3>2. PICK qr, fl : qr = procs' /\ fl = m_procs'
      OBVIOUS
    <3>3. GoneInv(qr, fl, Append(below, f), hungUp', Runners!calls, heard')
      BY <1>6, <2>5, <3>1, <3>2, GoneAppend
    <3> QED
      BY <3>2, <3>3
  <2>7. GoneInv(procs', m_procs', frames', hungUp', Runners!calls, heard')
    BY <1>9, <2>1, <2>6
  <2>8. PICK x, a : x = 0 /\ Adds(results, results', x, a)
    BY <1>9, NothingAdded
  <2>9. x \notin 1..heard'
    BY <2>8
  <2> QED
    BY <1>7, <2>7, <2>8, <2>9, HonestStep
<1> QED
  BY <1>1, <1>8, <1>9

\* The slots and the list as they are, later.
LEMMA GoneLater ==
    ASSUME ScriptsInv, HonestInv, play.plugin = "Debuggerlite", heard' \in Nat, heard <= heard', hungUp \subseteq hungUp'
    PROVE  GoneInv(procs, m_procs, frames, hungUp', Runners!calls, heard')
<1>1. heard \in Nat
  BY PlayFacts
<1>2. Reason(hungUp, Runners!calls, heard) => Reason(hungUp', Runners!calls, heard')
  BY <1>1, ReasonLater
<1>3. GoneInv(procs, m_procs, frames, hungUp, Runners!calls, heard)
  BY DEF HonestInv
<1> QED
  BY <1>2, <1>3 DEF GoneInv

\* Stopping some of those that are listed, from outside.
LEMMA StopSomeHonest ==
    ASSUME ScriptsInv, HonestInv, play.plugin = "Debuggerlite", play' = play, heard' \in Nat, heard <= heard',
           heard' <= Len(Runners!calls), hungUp \subseteq hungUp',
           NEW id \in 0..heard', id # 0 => Runners!calls[id].api # "Wait",
           NEW ps, IsSeq(ps), \A k \in 1..Len(ps) : ps[k] \in DOMAIN procs,
           NEW delete, delete # "no" => Reason(hungUp', Runners!calls, heard'),
           Runners!StopNext(id, ps, delete, frames, procs, m_procs)
    PROVE  HonestInv'
<1>1. PICK pr, listed, below : pr = procs /\ listed = m_procs /\ below = frames
  OBVIOUS
<1>2. GoneInv(pr, listed, below, hungUp', Runners!calls, heard')
  BY <1>1, GoneLater
<1>3. /\ DOMAIN pr = DOMAIN procs /\ IsSeq(below) /\ \A k \in 1..Len(below) : below[k].p \in DOMAIN procs
      /\ \A p \in DOMAIN procs : ProcShape(pr[p]) /\ pr[p].ws = procs[p].ws /\ pr[p].nested = procs[p].nested
  BY <1>1, GoneFacts
<1>4. Runners!StopNext(id, ps, delete, below, pr, listed)
  BY <1>1
<1> QED
  BY <1>2, <1>3, <1>4, StopNextHonest

\* _handleStopCommand, which is a reason.
LEMMA StopHonest ==
    ASSUME ScriptsInv, HonestInv, play.plugin = "Debuggerlite", play' = play, heard < Len(Runners!calls), heard' = heard + 1,
           UNCHANGED hungUp, Runners!calls[heard + 1].api \in {"Stop", "EmergencyStop"}, Runners!getProc(heard + 1),
           Runners!handleStop(heard + 1)
    PROVE  HonestInv'
<1>1. heard' \in Nat /\ heard <= heard' /\ heard' <= Len(Runners!calls) /\ heard' \in 1..heard' /\ heard' \in 0..heard'
  BY NewCall
<1>2. PICK id, p, ps, delete : id = heard' /\ p = Runners!calls[id].of /\ ps = <<p>> /\ delete = "then"
  OBVIOUS
<1>3. Runners!StopNext(id, ps, delete, frames, procs, m_procs)
  BY <1>2 DEF Runners!handleStop
<1>4. p \in DOMAIN procs
  BY <1>2, GoneFacts DEF Runners!getProc
<1>5. IsSeq(ps) /\ \A k \in 1..Len(ps) : ps[k] \in DOMAIN procs
  <2>1. Len(ps) = 1 /\ ps[1] = p /\ ps = [k \in 1..1 |-> ps[k]]
    BY ONLY <1>2
  <2> QED
    BY ONLY <1>4, <2>1 DEF IsSeq
<1>6. Reason(hungUp', Runners!calls, heard') /\ Runners!calls[id].api # "Wait"
  BY <1>1, <1>2 DEF Reason
<1>7. id \in 0..heard' /\ hungUp \subseteq hungUp'
  BY <1>1, <1>2
<1> QED
  BY <1>1, <1>3, <1>5, <1>6, <1>7, StopSomeHonest

\* _handleStopAllCommand, which deletes nothing, and _handleCloseWebSocket, which is a reason.
LEMMA StopTheseHonest ==
    ASSUME ScriptsInv, HonestInv, play.plugin = "Debuggerlite", play' = play, heard' \in Nat, heard <= heard',
           heard' <= Len(Runners!calls), hungUp \subseteq hungUp',
           NEW id \in 0..heard', id # 0 => Runners!calls[id].api # "Wait",
           NEW Q, Q \subseteq m_procs, NEW delete, delete # "no" => Reason(hungUp', Runners!calls, heard'),
           Runners!StopThese(id, Q, delete)
    PROVE  HonestInv'
<1>1. PICK ps \in Runners!InOrder(Q) : Runners!StopNext(id, ps, delete, frames, procs, m_procs)
  BY DEF Runners!StopThese
<1>2. IsSeq(ps) /\ \A k \in 1..Len(ps) : ps[k] \in Q
  BY <1>1, InOrderSeq
<1>3. \A k \in 1..Len(ps) : ps[k] \in DOMAIN procs
  BY <1>2, GoneFacts
<1> QED
  BY <1>1, <1>2, <1>3, StopSomeHonest

\* A program ends, or counts as ended, and the Wait that its process knows is answered.
LEMMA WaitAnsweredHonest ==
    ASSUME ScriptsInv, HonestInv, play.plugin = "Debuggerlite", NEW p \in DOMAIN procs, NEW pr, Runners!slotFinish(p, pr),
           p \in DOMAIN pr /\ pr[p].at = "running" => procs[p].nested,
           UNCHANGED <<play, heard, hungUp>>, LaterProcs(procs, procs'), \A q \in DOMAIN procs' : q \in DOMAIN procs,
           GoneInv(procs', m_procs', frames', hungUp', Runners!calls, heard')
    PROVE  HonestInv'
<1>1. /\ heard \in Nat /\ heard <= Len(Runners!calls) /\ Len(Runners!calls) \in Nat /\ Len(Runners!calls) <= MaxCalls
      /\ MaxCalls \in Nat /\ results = [x \in Runners!Calls |-> results[x]] /\ \A x \in Runners!Calls : IsSeq(results[x])
  BY PlayFacts
<1>2. PICK id, ok : id = procs[p].waitId /\ ok = TRUE
  OBVIOUS
<1>3. id \in 0..heard /\ (id # 0 => Runners!calls[id].of = p) /\ id \in Runners!Calls \cup {0}
  <2>1. id \in 0..heard /\ (id # 0 => Runners!calls[id].of = p)
    BY <1>2, GoneFacts
  <2> QED
    BY <1>1, <2>1 DEF Runners!Calls
<1>4. results' = Runners!Replied(results, id, ok, pr)
  BY <1>2 DEF Runners!slotFinish
<1>5. PICK a : /\ Adds(results, results', id, a) /\ a.ok = ok
               /\ a.alive => Runners!calls[id].of \in DOMAIN pr /\ pr[Runners!calls[id].of].at = "running"
  <2>1. PICK rs : rs = results
    OBVIOUS
  <2>2. rs = [x \in Runners!Calls |-> rs[x]] /\ \A x \in Runners!Calls : IsSeq(rs[x])
    BY <1>1, <2>1
  <2>3. id \in Runners!Calls \cup {0}
    BY <1>3
  <2>4. \E a : /\ Adds(rs, Runners!Replied(rs, id, ok, pr), id, a) /\ a.ok = ok
               /\ a.alive => Runners!calls[id].of \in DOMAIN pr /\ pr[Runners!calls[id].of].at = "running"
    BY ONLY <2>2, <2>3, RepliedAdds
  <2>5. results' = Runners!Replied(rs, id, ok, pr)
    BY <1>4, <2>1
  <2> QED
    BY ONLY <2>1, <2>4, <2>5
<1>6. ASSUME id \in 1..heard' PROVE HonestAnswer(a, id, procs', hungUp', Runners!calls, play.plugin)
  <2>1. a.ok /\ Runners!calls[id].of = p
    BY <1>2, <1>3, <1>5, <1>6
  <2>2. a.alive => procs[p].nested
    BY <1>5, <2>1
  <2>3. p \in DOMAIN procs' /\ (procs[p].nested => procs'[p].nested)
    BY DEF LaterProcs
  <2> QED
    BY <2>1, <2>2, <2>3 DEF HonestAnswer, Early
<1>7. heard' \in Nat /\ heard <= heard' /\ heard' <= Len(Runners!calls) /\ hungUp \subseteq hungUp'
  BY <1>1
<1> QED
  BY <1>5, <1>6, <1>7, HonestStep

\* The slots where the loops for p have quit, once p runs no more.
LEMMA QuitGone ==
    ASSUME NEW fs, NEW D, NEW C, NEW U, FramesInv(fs, D, C, U), NEW pr, NEW listed, NEW h, NEW cs, NEW n,
           GoneInv(pr, listed, fs, h, cs, n), NEW p, NEW qr, NEW ls, \A q \in D : q # p => qr[q] = pr[q],
           qr[p].at # "running", \A q \in DOMAIN qr : q \notin ls => Reason(h, cs, n)
    PROVE  /\ GoneInv(qr, ls, Runners!Quit(fs, p), h, cs, n) /\ IsSeq(Runners!Quit(fs, p))
           /\ \A k \in 1..Len(Runners!Quit(fs, p)) : Runners!Quit(fs, p)[k].p \in D
<1>1. IsSeq(fs) /\ Len(fs) \in Nat /\ DOMAIN fs = 1..Len(fs)
  BY DEF FramesInv, IsSeq
<1>2. PICK gs : gs = Runners!Quit(fs, p)
  OBVIOUS
<1>3. gs = [j \in 1..Len(fs) |-> [fs[j] EXCEPT !.quit = @ \/ (fs[j].kind = "stop" /\ fs[j].p = p)]]
  BY <1>1, <1>2 DEF Runners!Quit
<1>4. FramesInv(gs, D, C, U) /\ Len(gs) = Len(fs)
  BY <1>2, QuitAlike
<1>5. IsSeq(gs) /\ \A k \in 1..Len(gs) : gs[k].p \in D
  BY <1>4 DEF FramesInv, FrameInv
<1>6. ASSUME NEW k \in 1..Len(gs)
      PROVE  /\ gs[k].kind = "stop" => /\ gs[k].quit \/ qr[gs[k].p].at \in {"killed", "unseen"}
                                       /\ gs[k].delete # "no" => Reason(h, cs, n)
             /\ gs[k].kind = "finish" /\ qr[gs[k].p].at = "running" => qr[gs[k].p].nested
  <2>0. k \in 1..Len(fs)
    BY <1>4
  <2>1. fs[k] = [kind |-> fs[k].kind, p |-> fs[k].p, id |-> fs[k].id, rest |-> fs[k].rest, delete |-> fs[k].delete, quit |-> fs[k].quit]
        /\ fs[k].p \in D
    BY <2>0 DEF FramesInv, FrameInv
  <2>2. PICK b : b = (fs[k].quit \/ (fs[k].kind = "stop" /\ fs[k].p = p))
    OBVIOUS
  <2>3. gs[k] = [fs[k] EXCEPT !.quit = b]
    BY <1>3, <2>0, <2>2
  <2>4. gs[k] = [kind |-> fs[k].kind, p |-> fs[k].p, id |-> fs[k].id, rest |-> fs[k].rest, delete |-> fs[k].delete, quit |-> b]
    BY ONLY <2>1, <2>3
  <2>5. gs[k].kind = fs[k].kind /\ gs[k].p = fs[k].p /\ gs[k].delete = fs[k].delete /\ gs[k].quit = b
    BY ONLY <2>4
  <2>6. /\ fs[k].kind = "stop" => /\ fs[k].quit \/ pr[fs[k].p].at \in {"killed", "unseen"}
                                  /\ fs[k].delete # "no" => Reason(h, cs, n)
        /\ fs[k].kind = "finish" /\ pr[fs[k].p].at = "running" => pr[fs[k].p].nested
    BY <2>0 DEF GoneInv
  <2>7. CASE fs[k].p = p
    BY <2>2, <2>5, <2>6, <2>7
  <2>8. CASE fs[k].p # p
    <3>1. qr[fs[k].p] = pr[fs[k].p]
      BY <2>1, <2>8
    <3> QED
      BY ONLY <2>2, <2>5, <2>6, <3>1
  <2> QED
    BY <2>7, <2>8
<1>7. GoneInv(qr, ls, gs, h, cs, n)
  BY <1>6 DEF GoneInv
<1> QED
  BY <1>2, <1>5, <1>7

\* A program ends.
LEMMA FinishedHonest ==
    ASSUME ScriptsInv, HonestInv, play.plugin = "Debuggerlite", NEW p \in DOMAIN procs, Runners!Finished(p)
    PROVE  HonestInv'
<1>1. UNCHANGED <<play, heard, hungUp>>
  BY DEF Runners!Finished
<1>2. PICK C, U : FramesInv(frames, DOMAIN procs, C, U)
  BY DebugFacts DEF DebugInv
<1>3. procs' = Runners!Ended(p) /\ m_procs' = m_procs
  BY DEF Runners!Finished
<1>4. /\ DOMAIN procs' = DOMAIN procs /\ \A q \in DOMAIN procs : q # p => procs'[q] = procs[q]
      /\ procs'[p].ws = procs[p].ws /\ procs'[p].nested = procs[p].nested /\ procs'[p].at = "ended"
  BY <1>3, EndedProc
<1>5. LaterProcs(procs, procs') /\ \A q \in DOMAIN procs' : q \in DOMAIN procs
  BY <1>4 DEF LaterProcs
<1>6. PICK fs : fs = Runners!Quit(frames, p)
  OBVIOUS
<1>7. GoneInv(procs', m_procs', fs, hungUp', Runners!calls, heard') /\ IsSeq(fs)
  <2>1. PICK gs, pr, qr, listed : gs = frames /\ pr = procs /\ qr = procs' /\ listed = m_procs
    OBVIOUS
  <2>2. GoneInv(pr, listed, gs, hungUp, Runners!calls, heard)
    BY <2>1 DEF HonestInv
  <2>3. \A q \in DOMAIN qr : q \notin listed => Reason(hungUp, Runners!calls, heard)
    BY <1>4, <2>1, GoneFacts
  <2>4. (\A q \in DOMAIN procs : q # p => qr[q] = pr[q]) /\ qr[p].at # "running"
    BY <1>4, <2>1
  <2>5. FramesInv(gs, DOMAIN procs, C, U)
    BY <1>2, <2>1
  <2>6. GoneInv(qr, listed, Runners!Quit(gs, p), hungUp, Runners!calls, heard) /\ IsSeq(Runners!Quit(gs, p))
    BY <2>2, <2>3, <2>4, <2>5, QuitGone
  <2> QED
    BY <1>1, <1>3, <1>6, <2>1, <2>6
<1>8. CASE Runners!slotFinish(p, Runners!Ended(p)) /\ frames' = Runners!Quit(frames, p)
  <2>1. PICK pr : pr = Runners!Ended(p)
    OBVIOUS
  <2>2. pr[p].at # "running" /\ Runners!slotFinish(p, pr)
    BY <1>3, <1>4, <1>8, <2>1
  <2>3. GoneInv(procs', m_procs', frames', hungUp', Runners!calls, heard')
    BY <1>6, <1>7, <1>8
  <2> QED
    BY <1>1, <1>5, <2>2, <2>3, WaitAnsweredHonest
<1>9. CASE UNCHANGED results /\ frames' = Append(Runners!Quit(frames, p), Runners!Frame("finish", p, 0, <<>>, "no"))
  <2>1. PICK f : f = Runners!Frame("finish", p, 0, <<>>, "no")
    OBVIOUS
  <2>2. f.kind = "finish" /\ f.p = p
    BY <2>1 DEF Runners!Frame
  <2>3. PICK qr, listed : qr = procs' /\ listed = m_procs'
    OBVIOUS
  <2>4. GoneInv(qr, listed, fs, hungUp', Runners!calls, heard') /\ IsSeq(fs)
    BY <1>7, <2>3
  <2>5. f.kind # "stop" /\ qr[f.p].at # "running"
    BY <1>4, <2>2, <2>3
  <2>6. GoneInv(qr, listed, Append(fs, f), hungUp', Runners!calls, heard')
    BY <2>4, <2>5, GoneAppend
  <2>7. GoneInv(procs', m_procs', frames', hungUp', Runners!calls, heard')
    BY <1>6, <1>9, <2>1, <2>3, <2>6
  <2>8. PICK x, a : x = 0 /\ Adds(results, results', x, a)
    BY <1>9, NothingAdded
  <2>9. x \notin 1..heard' /\ heard' \in Nat /\ heard <= heard' /\ heard' <= Len(Runners!calls) /\ hungUp \subseteq hungUp'
    BY <1>1, <2>8, PlayFacts
  <2> QED
    BY <1>1, <1>5, <2>7, <2>8, <2>9, HonestStep
<1> QED
  BY <1>8, <1>9 DEF Runners!Finished

\* A kill whose end is unseen.
LEMMA UnseenHonest ==
    ASSUME ScriptsInv, HonestInv, play.plugin = "Debuggerlite", NEW p \in DOMAIN procs, Runners!KillUnseen(p)
    PROVE  HonestInv'
<1>1. UNCHANGED <<play, heard, hungUp, m_procs, frames, results>>
  BY DEF Runners!KillUnseen
<1>2. /\ DOMAIN procs' = DOMAIN procs /\ \A q \in DOMAIN procs : q # p => procs'[q] = procs[q]
      /\ procs'[p].ws = procs[p].ws /\ procs'[p].nested = procs[p].nested /\ procs'[p].at = "unseen"
  BY UnseenProc
<1>3. heard' \in Nat /\ heard <= heard' /\ heard' <= Len(Runners!calls) /\ hungUp \subseteq hungUp'
  BY <1>1, PlayFacts
<1>4. \A q \in DOMAIN procs :
          /\ procs[q].at \in {"killed", "unseen"} => procs'[q].at \in {"killed", "unseen"}
          /\ procs'[q].at = "running" => procs[q].at = "running" /\ (procs[q].nested => procs'[q].nested)
  BY <1>2
<1>5. GoneInv(procs', m_procs', frames', hungUp', Runners!calls, heard')
  BY <1>1, <1>2, <1>3, <1>4, GoneSame
<1>6. LaterProcs(procs, procs') /\ \A q \in DOMAIN procs' : q \in DOMAIN procs
  BY <1>2 DEF LaterProcs
<1>7. PICK x, a : x = 0 /\ Adds(results, results', x, a)
  BY <1>1, NothingAdded
<1>8. x \notin 1..heard'
  BY <1>7
<1> QED
  BY <1>1, <1>3, <1>5, <1>6, <1>7, <1>8, HonestStep

\* The slot for an end returns: if the process runs again, it was started in there.
LEMMA FinishReturnsHonest ==
    ASSUME ScriptsInv, HonestInv, play.plugin = "Debuggerlite", frames # <<>>, Runners!Top.kind = "finish",
           Runners!slotFinish(Runners!Top.p, procs), frames' = Runners!Under, UNCHANGED <<play, heard, hungUp, procs, m_procs>>
    PROVE  HonestInv'
<1>1. PICK C, U : FramesInv(frames, DOMAIN procs, C, U)
  BY DebugFacts DEF DebugInv
<1>2. PICK p, pr : p = Runners!Top.p /\ pr = procs
  OBVIOUS
<1>3. /\ Len(frames) = Len(Runners!Under) + 1 /\ Runners!Top = frames[Len(frames)]
      /\ \A k \in 1..Len(Runners!Under) : Runners!Under[k] = frames[k]
      /\ Len(frames) \in Nat /\ Len(Runners!Under) \in Nat
  BY <1>1, TopUnder DEF FramesInv, IsSeq
<1>4. Len(frames) \in 1..Len(frames) /\ \A k \in 1..Len(Runners!Under) : k \in 1..Len(frames)
  BY ONLY <1>3
<1>5. p \in DOMAIN procs /\ (pr[p].at = "running" => procs[p].nested)
  BY <1>2, <1>3, <1>4, GoneFacts
<1>6. GoneInv(procs, m_procs, frames, hungUp, Runners!calls, heard)
  BY DEF HonestInv
<1>7. GoneInv(procs', m_procs', frames', hungUp', Runners!calls, heard')
  BY <1>3, <1>4, <1>6 DEF GoneInv
<1>8. Runners!slotFinish(p, pr) /\ LaterProcs(procs, procs') /\ \A q \in DOMAIN procs' : q \in DOMAIN procs
  BY <1>2 DEF LaterProcs
<1> QED
  BY <1>5, <1>7, <1>8, WaitAnsweredHonest

\* stop() returns.
LEMMA StopReturnsHonest ==
    ASSUME ScriptsInv, HonestInv, play.plugin = "Debuggerlite", frames # <<>>, Runners!Top.kind = "stop", Runners!StopReturns,
           UNCHANGED <<play, heard, hungUp>>
    PROVE  HonestInv'
<1>1. PICK C, U : FramesInv(frames, DOMAIN procs, C, U) /\ U = StoppingIn(Runners!calls, heard, results)
  BY DebugFacts DEF DebugInv
<1>2. PICK top, under, p : top = Runners!Top /\ under = Runners!Under /\ p = top.p
  OBVIOUS
<1>3. /\ FrameInv(top, DOMAIN procs, C, U) /\ FramesInv(under, DOMAIN procs, C, U)
      /\ Len(frames) = Len(under) + 1 /\ top = frames[Len(frames)]
      /\ \A k \in 1..Len(under) : under[k] = frames[k]
  BY <1>1, <1>2, TopUnder
<1>4. /\ Len(frames) \in Nat /\ Len(under) \in Nat /\ IsSeq(under) /\ \A k \in 1..Len(under) : under[k].p \in DOMAIN procs
  BY <1>1, <1>3 DEF FramesInv, IsSeq, FrameInv
<1>5. Len(frames) \in 1..Len(frames) /\ \A k \in 1..Len(under) : k \in 1..Len(frames)
  BY ONLY <1>3, <1>4
<1>6. /\ top = [kind |-> top.kind, p |-> top.p, id |-> top.id, rest |-> top.rest, delete |-> top.delete, quit |-> top.quit]
      /\ top.kind = "stop" /\ p \in DOMAIN procs /\ top.id \in U \cup {0} /\ IsSeq(top.rest)
      /\ \A k \in 1..Len(top.rest) : top.rest[k] \in DOMAIN procs
  BY <1>2, <1>3 DEF FrameInv
<1>7. top.delete # "no" => Reason(hungUp, Runners!calls, heard)
  BY <1>3, <1>5, <1>6, GoneFacts
<1>8. GoneInv(procs, m_procs, under, hungUp, Runners!calls, heard)
  <2>1. GoneInv(procs, m_procs, frames, hungUp, Runners!calls, heard)
    BY DEF HonestInv
  <2> QED
    BY <1>3, <1>5, <2>1 DEF GoneInv
<1>9. /\ heard' \in Nat /\ heard <= heard' /\ heard' <= Len(Runners!calls) /\ hungUp \subseteq hungUp'
  BY PlayFacts
<1>10. PICK id, ps : id = top.id /\ ps = top.rest
  OBVIOUS
<1>11. id \in 0..heard' /\ (id # 0 => Runners!calls[id].api # "Wait")
  BY <1>1, <1>6, <1>9, <1>10 DEF StoppingIn, Stops
<1>12. \A q \in DOMAIN procs : ProcShape(procs[q])
  BY GoneFacts
<1>13. IsSeq(ps) /\ \A k \in 1..Len(ps) : ps[k] \in DOMAIN procs
  BY <1>6, <1>10
<1>14. CASE /\ Runners!Top.delete = "then"
            /\ frames' = Append(Runners!Under, [Runners!Top EXCEPT !.delete = "now", !.quit = FALSE])
            /\ procs' = [procs EXCEPT ![Runners!Top.p].at = Runners!Slain(@), ![Runners!Top.p].waitCmdFinished = TRUE]
            /\ UNCHANGED results
  <2>1. PICK f : f = [top EXCEPT !.delete = "now", !.quit = FALSE]
    OBVIOUS
  <2>2. f = [kind |-> top.kind, p |-> top.p, id |-> top.id, rest |-> top.rest, delete |-> "now", quit |-> FALSE]
    BY ONLY <1>6, <2>1
  <2>3. f.kind = "stop" /\ f.p = p
    BY ONLY <1>2, <1>6, <2>2
  <2>4. Reason(hungUp', Runners!calls, heard')
    BY <1>2, <1>7, <1>14
  <2>5. /\ DOMAIN procs' = DOMAIN procs /\ \A q \in DOMAIN procs : q # p => procs'[q] = procs[q]
        /\ procs'[p].ws = procs[p].ws /\ procs'[p].nested = procs[p].nested /\ procs'[p].at \in {"killed", "unseen"}
    <3>0. PICK at : at = Runners!Slain(procs[p].at)
      OBVIOUS
    <3>6. at \in {"killed", "unseen"}
      BY ONLY <3>0 DEF Runners!Slain
    <3>1. procs' = [procs EXCEPT ![p].at = at, ![p].waitCmdFinished = TRUE]
      BY <1>2, <1>14, <3>0
    <3>2. DOMAIN procs' = DOMAIN procs /\ \A q \in DOMAIN procs : q # p => procs'[q] = procs[q]
      BY ONLY <3>1
    <3>3. procs'[p] = [procs[p] EXCEPT !.at = at, !.waitCmdFinished = TRUE]
      BY ONLY <1>6, <3>1
    <3>4. procs[p] = [ws |-> procs[p].ws, at |-> procs[p].at, waitId |-> procs[p].waitId,
                      waitCmdFinished |-> procs[p].waitCmdFinished, nested |-> procs[p].nested]
      BY ONLY <1>6, <1>12 DEF ProcShape
    <3>5. procs'[p] = [ws |-> procs[p].ws, at |-> at, waitId |-> procs[p].waitId, waitCmdFinished |-> TRUE, nested |-> procs[p].nested]
      BY ONLY <3>3, <3>4
    <3> QED
      BY ONLY <3>2, <3>5, <3>6
  <2>6. GoneInv(procs', m_procs', under, hungUp', Runners!calls, heard')
    <3>1. ASSUME NEW k \in 1..Len(under)
          PROVE  /\ under[k].kind = "stop" => /\ under[k].quit \/ procs'[under[k].p].at \in {"killed", "unseen"}
                                              /\ under[k].delete # "no" => Reason(hungUp', Runners!calls, heard')
                 /\ under[k].kind = "finish" /\ procs'[under[k].p].at = "running" => procs'[under[k].p].nested
      <4>1. PICK q : q = under[k].p
        OBVIOUS
      <4>2. q \in DOMAIN procs /\ (under[k].kind = "stop" => under[k].quit \/ procs[q].at \in {"killed", "unseen"})
            /\ (under[k].kind = "finish" /\ procs[q].at = "running" => procs[q].nested)
        BY <1>4, <1>8, <4>1 DEF GoneInv
      <4>3. CASE q = p
        BY <2>4, <2>5, <4>1, <4>3
      <4>4. CASE q # p
        <5>1. procs'[q] = procs[q]
          BY <2>5, <4>2, <4>4
        <5> QED
          BY <2>4, <4>1, <4>2, <5>1
      <4> QED
        BY <4>3, <4>4
    <3> QED
      BY <2>4, <3>1 DEF GoneInv
  <2>7. GoneInv(procs', m_procs', frames', hungUp', Runners!calls, heard')
    <3>1. PICK qr, listed : qr = procs' /\ listed = m_procs'
      OBVIOUS
    <3>2. GoneInv(qr, listed, under, hungUp', Runners!calls, heard') /\ qr[f.p].at \in {"killed", "unseen"} /\ f.kind # "finish"
      BY <2>3, <2>5, <2>6, <3>1
    <3>3. GoneInv(qr, listed, Append(under, f), hungUp', Runners!calls, heard')
      BY <1>4, <2>4, <3>2, GoneAppend
    <3> QED
      BY <1>2, <1>14, <2>1, <3>1, <3>3
  <2>8. LaterProcs(procs, procs') /\ \A q \in DOMAIN procs' : q \in DOMAIN procs
    BY <2>5 DEF LaterProcs
  <2>9. PICK x, a : x = 0 /\ Adds(results, results', x, a)
    BY <1>14, NothingAdded
  <2>10. x \notin 1..heard'
    BY <1>9, <2>9
  <2> QED
    BY <1>9, <2>7, <2>8, <2>9, <2>10, HonestStep
<1>15. CASE Runners!StopNext(Runners!Top.id, Runners!Top.rest, "no", Runners!Under, procs, m_procs)
  <2>1. PICK delete, pr, listed : delete = "no" /\ pr = procs /\ listed = m_procs
    OBVIOUS
  <2>2. Runners!StopNext(id, ps, delete, under, pr, listed)
    BY <1>2, <1>10, <1>15, <2>1
  <2>3. GoneInv(pr, listed, under, hungUp', Runners!calls, heard') /\ (delete # "no" => Reason(hungUp', Runners!calls, heard'))
    BY <1>8, <2>1
  <2>4. /\ DOMAIN pr = DOMAIN procs
        /\ \A q \in DOMAIN procs : ProcShape(pr[q]) /\ pr[q].ws = procs[q].ws /\ pr[q].nested = procs[q].nested
    BY <1>12, <2>1
  <2> QED
    BY <1>4, <1>9, <1>11, <1>13, <2>2, <2>3, <2>4, StopNextHonest
<1>16. CASE /\ Runners!Top.delete # "no"
            /\ Runners!StopNext(Runners!Top.id, Runners!Top.rest, "then", Runners!Quit(Runners!Under, Runners!Top.p),
                                [procs EXCEPT ![Runners!Top.p].at = "deleted",
                                              ![Runners!Top.p].waitCmdFinished = @ \/ Runners!Top.delete = "then"],
                                m_procs \ {Runners!Top.p})
  <2>1. PICK delete, below, pr, listed, b :
          /\ delete = "then" /\ below = Runners!Quit(under, p) /\ listed = m_procs \ {p}
          /\ pr = [procs EXCEPT ![p].at = "deleted", ![p].waitCmdFinished = @ \/ top.delete = "then"]
          /\ b = (procs[p].waitCmdFinished \/ top.delete = "then")
    OBVIOUS
  <2>2. Runners!StopNext(id, ps, delete, below, pr, listed)
    BY <1>2, <1>10, <1>16, <2>1
  <2>3. Reason(hungUp', Runners!calls, heard')
    BY <1>2, <1>7, <1>16
  <2>4. /\ DOMAIN pr = DOMAIN procs /\ \A q \in DOMAIN procs : q # p => pr[q] = procs[q]
        /\ ProcShape(pr[p]) /\ pr[p].ws = procs[p].ws /\ pr[p].nested = procs[p].nested /\ pr[p].at = "deleted"
    <3>1. DOMAIN pr = DOMAIN procs /\ \A q \in DOMAIN procs : q # p => pr[q] = procs[q]
      BY ONLY <2>1
    <3>2. PICK x : x = procs[p]
      OBVIOUS
    <3>3. ProcShape(x)
      BY <1>6, <1>12, <3>2
    <3>4. [x EXCEPT !.at = "deleted", !.waitCmdFinished = @ \/ top.delete = "then"] = [x EXCEPT !.at = "deleted", !.waitCmdFinished = b]
      BY ONLY <2>1, <3>2, <3>3 DEF ProcShape
    <3>5. pr[p] = [ws |-> x.ws, at |-> "deleted", waitId |-> x.waitId, waitCmdFinished |-> b, nested |-> x.nested]
      <4>1. pr = [procs EXCEPT ![p].at = "deleted", ![p].waitCmdFinished = b]
        BY ONLY <1>6, <2>1, <3>2, <3>4
      <4>2. pr[p] = [x EXCEPT !.at = "deleted", !.waitCmdFinished = b]
        BY ONLY <1>6, <3>2, <4>1
      <4> QED
        BY ONLY <3>3, <4>2 DEF ProcShape
    <3>6. pr[p].ws = x.ws /\ pr[p].nested = x.nested /\ pr[p].at = "deleted"
      BY ONLY <3>5
    <3>7. ProcShape(pr[p])
      BY ONLY <3>5 DEF ProcShape
    <3> QED
      BY ONLY <3>1, <3>2, <3>6, <3>7
  <2>5. \A q \in DOMAIN procs : ProcShape(pr[q]) /\ pr[q].ws = procs[q].ws /\ pr[q].nested = procs[q].nested
    BY <1>12, <2>4
  <2>6. /\ GoneInv(pr, listed, below, hungUp', Runners!calls, heard') /\ IsSeq(below)
        /\ \A k \in 1..Len(below) : below[k].p \in DOMAIN procs
    <3>1. PICK qr, ls, D : qr = procs /\ ls = m_procs /\ D = DOMAIN procs
      OBVIOUS
    <3>2. GoneInv(qr, ls, under, hungUp', Runners!calls, heard') /\ FramesInv(under, D, C, U)
      BY <1>3, <1>8, <3>1
    <3>3. (\A q \in D : q # p => pr[q] = qr[q]) /\ pr[p].at # "running"
      BY <2>4, <3>1
    <3>4. /\ GoneInv(pr, listed, Runners!Quit(under, p), hungUp', Runners!calls, heard') /\ IsSeq(Runners!Quit(under, p))
          /\ \A k \in 1..Len(Runners!Quit(under, p)) : Runners!Quit(under, p)[k].p \in D
      BY <2>3, <3>2, <3>3, QuitGone
    <3> QED
      BY <2>1, <3>1, <3>4
  <2> QED
    BY <1>9, <1>11, <1>13, <2>2, <2>3, <2>4, <2>5, <2>6, StopNextHonest
<1> QED
  BY <1>14, <1>15, <1>16 DEF Runners!StopReturns

\* The program dies, which is a reason.
LEMMA DeathHonest ==
    ASSUME ScriptsInv, HonestInv, Runners!Crash
    PROVE  HonestInv'
<1>1. /\ play.plugin = "Debuggerlite" /\ frames' = <<>> /\ hungUp' = hungUp \cup {0}
      /\ UNCHANGED <<play, heard, procs, m_procs, results>>
  BY DEF Runners!Crash
<1>2. heard' \in Nat /\ heard <= heard' /\ heard' <= Len(Runners!calls) /\ hungUp \subseteq hungUp' /\ hungUp' # {}
      /\ 0 \notin 1..heard'
  BY <1>1, PlayFacts
<1>3. GoneInv(procs', m_procs', frames', hungUp', Runners!calls, heard')
  <2>1. Len(frames') = 0
    BY <1>1
  <2> QED
    BY <1>2, <2>1 DEF GoneInv, Reason
<1>4. LaterProcs(procs, procs') /\ \A q \in DOMAIN procs' : q \in DOMAIN procs
  BY <1>1 DEF LaterProcs
<1>5. PICK x, a : x = 0 /\ Adds(results, results', x, a)
  BY <1>1, NothingAdded
<1> QED
  BY <1>1, <1>2, <1>3, <1>4, <1>5, HonestStep

\* What DebuggerlitePlugin does with a call.
LEMMA DebuggerliteHonest ==
    ASSUME ScriptsInv, HonestInv, play.plugin = "Debuggerlite", play' = play, heard < Len(Runners!calls), heard' = heard + 1,
           UNCHANGED hungUp, Runners!DebuggerliteCall(heard + 1)
    PROVE  HonestInv'
<1>1. CASE Runners!calls[heard + 1].api = "Prepare" /\ Runners!handlePrepareCommand(heard + 1)
  BY <1>1, PrepareHonest
<1>2. CASE Runners!Refused(heard + 1) /\ (Runners!calls[heard + 1].api = "Wait" => ~Runners!getProc(heard + 1))
  BY <1>2, AnsweredHonest DEF Runners!Refused
<1>3. CASE Runners!calls[heard + 1].api # "Wait" /\ \E S : Runners!StartThese(heard + 1, S)
  BY <1>3, StartHonest
<1>4. CASE Runners!getProc(heard + 1) /\ Runners!handleDebugWait(heard + 1)
  BY <1>4, DebugWaitHonest
<1>5. CASE /\ Runners!calls[heard + 1].api \in {"Stop", "EmergencyStop"} /\ Runners!getProc(heard + 1)
           /\ Runners!handleStop(heard + 1)
  BY <1>5, StopHonest
<1>6. CASE Runners!calls[heard + 1].api = "StopAll" /\ Runners!handleStopAllCommand(heard + 1)
  <2>1. heard' \in Nat /\ heard <= heard' /\ heard' <= Len(Runners!calls) /\ heard' \in 0..heard' /\ hungUp \subseteq hungUp'
    BY NewCall
  <2>2. PICK id, delete, Q : id = heard' /\ delete = "no" /\ Q = Runners!Of(Runners!calls[id].ws)
    OBVIOUS
  <2>3. Runners!StopThese(id, Q, delete) /\ Q \subseteq m_procs /\ Runners!calls[id].api # "Wait" /\ id \in 0..heard'
    BY <1>6, <2>1, <2>2 DEF Runners!handleStopAllCommand, Runners!Of
  <2> QED
    BY <2>1, <2>2, <2>3, StopTheseHonest
<1>7. CASE /\ Runners!calls[heard + 1].api # "Wait" /\ (\E ok : Runners!Replies(heard + 1, ok))
           /\ UNCHANGED <<procs, m_procs, frames>>
  BY <1>7, AnsweredHonest
<1> QED
  BY <1>1, <1>2, <1>3, <1>4, <1>5, <1>6, <1>7 DEF Runners!DebuggerliteCall, Runners!DebuggerliteApis

-----------------------------------------------------------------------------
\* What it says of RunCmdPlugin.
LEMMA OnlyFacts ==
    ASSUME ScriptsInv, HonestInv, play.plugin = "RunCmd"
    PROVE  /\ DOMAIN procs \subseteq 1..heard /\ \A p \in DOMAIN procs : ProcShape(procs[p])
           /\ m_process # 0 => m_process \in DOMAIN procs /\ \A q \in DOMAIN procs : q <= m_process
           /\ \A p \in DOMAIN procs : /\ procs[p].at = "running" => p = m_process
                                      /\ procs[p].at \in {"killed", "unseen"} => Early(procs, p, "RunCmd")
                                      /\ p # m_process => Reason(hungUp, Runners!calls, heard)
           /\ frames # <<>> /\ m_process # 0 /\ procs[m_process].at = "running" => Early(procs, m_process, "RunCmd")
           /\ m_bWaitCommandCalled \/ m_bStopCommandCalled => Reason(hungUp, Runners!calls, heard)
           /\ 0 \notin DOMAIN procs
<1>1. OnlyInv(procs, m_process, frames, hungUp, Runners!calls, heard, m_bWaitCommandCalled, m_bStopCommandCalled)
  BY DEF HonestInv
<1>2. DOMAIN procs \subseteq 1..heard /\ heard \in Nat
  BY <1>1, PlayFacts DEF OnlyInv
<1>3. 0 \notin DOMAIN procs
  BY <1>2
<1> QED
  BY <1>1, <1>3 DEF OnlyInv

\* One that goes on although it is not the process it has came of a start inside a slot, and
\* so the later one is excused.
LEMMA EarlyBefore ==
    ASSUME NEW pr, NEW p \in Nat, NEW q \in Nat, p <= q, DOMAIN pr \subseteq Nat, Early(pr, p, "RunCmd")
    PROVE  Early(pr, q, "RunCmd")
<1>1. PICK x \in DOMAIN pr : pr[x].nested /\ (x = p \/ x < p)
  BY DEF Early
<1>2. x \in Nat /\ (x = q \/ x < q)
  BY <1>1
<1> QED
  BY <1>1, <1>2 DEF Early

\* The process and the slots stay.
LEMMA OnlyLater ==
    ASSUME ScriptsInv, HonestInv, play.plugin = "RunCmd", UNCHANGED <<procs, m_process, frames>>, heard' \in Nat, heard <= heard',
           hungUp \subseteq hungUp', m_bWaitCommandCalled' \/ m_bStopCommandCalled' => Reason(hungUp', Runners!calls, heard')
    PROVE  OnlyInv(procs', m_process', frames', hungUp', Runners!calls, heard', m_bWaitCommandCalled', m_bStopCommandCalled')
<1>1. heard \in Nat
  BY PlayFacts
<1>2. Reason(hungUp, Runners!calls, heard) => Reason(hungUp', Runners!calls, heard')
  BY <1>1, ReasonLater
<1>3. DOMAIN procs \subseteq 1..heard'
  BY <1>1, OnlyFacts
<1> QED
  BY <1>2, <1>3, OnlyFacts DEF OnlyInv

\* _sendWaitResult, and what ends like it: there is a reason, the process is deleted, and what
\* still runs of pr then was excused.
LEMMA ResultHonest ==
    ASSUME ScriptsInv, HonestInv, play.plugin = "RunCmd", play' = play, heard' \in Nat, heard <= heard',
           heard' <= Len(Runners!calls), hungUp \subseteq hungUp', Reason(hungUp', Runners!calls, heard'),
           NEW pr, DOMAIN pr = DOMAIN procs,
           \A p \in DOMAIN procs : /\ ProcShape(pr[p]) /\ pr[p].ws = procs[p].ws /\ pr[p].nested = procs[p].nested
                                   /\ pr[p].at = "running" => procs[p].at = "running" /\ Early(procs, p, "RunCmd")
                                   /\ pr[p].at \in {"killed", "unseen"} => procs[p].at \in {"killed", "unseen"},
           NEW w, NEW a, Adds(results, results', w, a),
           w # 0 => a.ok /\ (a.alive => Runners!calls[w].of \in DOMAIN pr /\ pr[Runners!calls[w].of].at = "running"),
           procs' = Runners!Deleted(pr), m_process' = 0
    PROVE  HonestInv'
<1>1. PICK mp, at : mp = m_process /\ at = IF Runners!Alive(mp, pr) THEN "killed" ELSE "deleted"
  OBVIOUS
<1>2. /\ DOMAIN procs' = DOMAIN procs /\ \A p \in DOMAIN procs : p # mp => procs'[p] = pr[p]
      /\ mp # 0 => procs'[mp] = [pr[mp] EXCEPT !.at = at]
  <2>1. CASE mp = 0
    BY <1>1, <2>1 DEF Runners!Deleted
  <2>2. CASE mp # 0
    <3>1. procs' = [pr EXCEPT ![mp].at = at] /\ mp \in DOMAIN pr
      BY <1>1, <2>2, OnlyFacts DEF Runners!Deleted
    <3> QED
      BY ONLY <3>1, DOMAIN pr = DOMAIN procs
  <2> QED
    BY <2>1, <2>2
<1>3. ASSUME NEW p \in DOMAIN procs
      PROVE  /\ ProcShape(procs'[p]) /\ procs'[p].ws = procs[p].ws /\ procs'[p].nested = procs[p].nested
             /\ procs'[p].at # "running"
             /\ procs'[p].at \in {"killed", "unseen"} => Early(procs, p, "RunCmd")
  <2>1. CASE p # mp
    <3>1. procs'[p] = pr[p] /\ procs[p].at # "running"
      BY <1>1, <1>2, <2>1, OnlyFacts
    <3> QED
      BY <3>1, OnlyFacts
  <2>2. CASE p = mp
    <3>1. pr[p] = [ws |-> pr[p].ws, at |-> pr[p].at, waitId |-> pr[p].waitId, waitCmdFinished |-> pr[p].waitCmdFinished,
                   nested |-> pr[p].nested]
      BY DEF ProcShape
    <3>2. procs'[p] = [pr[p] EXCEPT !.at = at]
      BY <1>2, <2>2, OnlyFacts
    <3>3. procs'[p] = [ws |-> pr[p].ws, at |-> at, waitId |-> pr[p].waitId, waitCmdFinished |-> pr[p].waitCmdFinished,
                       nested |-> pr[p].nested]
      BY ONLY <3>1, <3>2
    <3>4. procs'[p].ws = pr[p].ws /\ procs'[p].nested = pr[p].nested /\ procs'[p].at = at
      BY ONLY <3>3
    <3>5. ProcShape(procs'[p])
      BY ONLY <3>3 DEF ProcShape
    <3>6. at # "running" /\ (at \in {"killed", "unseen"} => pr[p].at \in {"running", "killed", "unseen"})
      BY <1>1, <2>2 DEF Runners!Alive
    <3>7. at \in {"killed", "unseen"} => Early(procs, p, "RunCmd")
      BY <3>6, OnlyFacts
    <3> QED
      BY <3>4, <3>5, <3>6, <3>7
  <2> QED
    BY <2>1, <2>2
<1>4. LaterProcs(procs, procs') /\ \A q \in DOMAIN procs' : q \in DOMAIN procs
  BY <1>2, <1>3 DEF LaterProcs
<1>5. \A p : Early(procs, p, "RunCmd") => Early(procs', p, "RunCmd")
  BY <1>4, EarlyLater
<1>6. OnlyInv(procs', m_process', frames', hungUp', Runners!calls, heard', m_bWaitCommandCalled', m_bStopCommandCalled')
  <2>1. DOMAIN procs' \subseteq 1..heard'
    BY <1>2, OnlyFacts, PlayFacts
  <2> QED
    BY <1>2, <1>3, <1>5, <2>1 DEF OnlyInv
<1>7. ASSUME w \in 1..heard' PROVE HonestAnswer(a, w, procs', hungUp', Runners!calls, play.plugin)
  <2>1. w # 0 /\ a.ok
    BY <1>7
  <2>2. a.alive => Early(procs', Runners!calls[w].of, "RunCmd")
    BY <1>5, <2>1
  <2> QED
    BY <2>1, <2>2 DEF HonestAnswer
<1> QED
  BY <1>4, <1>6, <1>7, HonestStep

\* A call is answered, or not, and nothing else happens: no Wait, or one that is refused for
\* a process that is gone.
LEMMA RunAnsweredHonest ==
    ASSUME ScriptsInv, HonestInv, play.plugin = "RunCmd", play' = play, heard < Len(Runners!calls), heard' = heard + 1,
           UNCHANGED <<procs, m_process, frames, hungUp>>,
           m_bWaitCommandCalled' \/ m_bStopCommandCalled' => Reason(hungUp', Runners!calls, heard'),
           NEW ok, Runners!Replies(heard + 1, ok) \/ UNCHANGED results,
           Runners!calls[heard + 1].api = "Wait" => UNCHANGED results \/ (~ok /\ ~Runners!checkProcess(Runners!calls[heard + 1].of))
    PROVE  HonestInv'
<1>1. /\ heard' \in Nat /\ heard <= heard' /\ heard' <= Len(Runners!calls) /\ heard' \in Runners!Calls
      /\ heard' \in 1..heard' /\ heard' # 0 /\ heard' - 1 = heard /\ 0 \notin 1..heard'
  BY NewCall
<1>2. LaterProcs(procs, procs') /\ hungUp \subseteq hungUp' /\ \A q \in DOMAIN procs' : q \in DOMAIN procs
  BY DEF LaterProcs
<1>3. OnlyInv(procs', m_process', frames', hungUp', Runners!calls, heard', m_bWaitCommandCalled', m_bStopCommandCalled')
  BY <1>1, <1>2, OnlyLater
<1>4. CASE UNCHANGED results
  <2>1. PICK x, a : x = 0 /\ Adds(results, results', x, a)
    BY <1>4, NothingAdded
  <2> QED
    BY <1>1, <1>2, <1>3, <2>1, HonestStep
<1>5. CASE Runners!Replies(heard + 1, ok) /\ results' # results
  <2>1. PICK id : id = heard'
    OBVIOUS
  <2>2. PICK a : Adds(results, results', id, a) /\ a.ok = ok
    BY <1>1, <1>5, <2>1, ReplyAdds
  <2>3. ASSUME Runners!calls[id].api = "Wait" PROVE HonestAnswer(a, id, procs', hungUp', Runners!calls, play.plugin)
    <3>1. ~a.ok /\ ~Runners!checkProcess(Runners!calls[id].of)
      BY <1>5, <2>1, <2>2, <2>3
    <3>2. PICK p : p = Runners!calls[id].of
      OBVIOUS
    <3>3. p \in DOMAIN procs => p # m_process
      BY <3>1, <3>2, OnlyFacts DEF Runners!checkProcess
    <3>4. p \in DOMAIN procs => Reason(hungUp, Runners!calls, id - 1)
      BY <1>1, <2>1, <3>3, OnlyFacts
    <3> QED
      BY <3>1, <3>2, <3>4 DEF HonestAnswer
  <2> QED
    BY <1>1, <1>2, <1>3, <2>2, <2>3, HonestStep
<1> QED
  BY <1>4, <1>5

\* _handleStartCommand: the process is the only one, and excused if a slot spins.
LEMMA RunStartHonest ==
    ASSUME ScriptsInv, HonestInv, play.plugin = "RunCmd", play' = play, heard < Len(Runners!calls), heard' = heard + 1,
           UNCHANGED hungUp, Runners!calls[heard + 1].api = "Start", Runners!handleStartCommand(heard + 1)
    PROVE  HonestInv'
<1>1. ~m_bWaitCommandCalled' /\ ~m_bStopCommandCalled' /\ UNCHANGED frames
  BY DEF Runners!handleStartCommand
<1>2. CASE UNCHANGED <<procs, m_process, results>>
  BY <1>1, <1>2, RunAnsweredHonest
<1>3. CASE Runners!Replies(heard + 1, FALSE) /\ UNCHANGED <<procs, m_process>>
  BY <1>1, <1>3, RunAnsweredHonest
<1>4. CASE /\ procs' = Runners!With(procs, heard + 1, Runners!Process(Runners!calls[heard + 1].ws, "running"))
           /\ m_process = 0 /\ m_process' = heard + 1 /\ Runners!Replies(heard + 1, TRUE)
  <2>1. /\ heard' \in Nat /\ heard <= heard' /\ heard' <= Len(Runners!calls) /\ heard' \in Runners!Calls
        /\ heard' \in 1..heard' /\ heard' # 0 /\ heard' \notin 0..heard /\ heard \in Nat
    BY NewCall, PlayFacts
  <2>2. PICK id, b : id = heard' /\ b = (frames # <<>>)
    OBVIOUS
  <2>3. PICK a : Adds(results, results', id, a)
    <3>1. PICK ok : ok = TRUE
      OBVIOUS
    <3> QED
      BY <1>4, <2>1, <2>2, <3>1, ReplyAdds
  <2>4. id \notin DOMAIN procs /\ DOMAIN procs \subseteq 1..heard
    BY <2>1, <2>2, OnlyFacts
  <2>5. /\ DOMAIN procs' = DOMAIN procs \cup {id} /\ \A p \in DOMAIN procs : procs'[p] = procs[p]
        /\ procs'[id] = [ws |-> Runners!calls[id].ws, at |-> "running", waitId |-> 0, waitCmdFinished |-> FALSE, nested |-> b]
    BY <1>4, <2>2, <2>4 DEF Runners!With, Runners!Process
  <2>6. ProcShape(procs'[id]) /\ procs'[id].nested = b /\ procs'[id].at = "running"
    <3>1. procs'[id].nested = b /\ procs'[id].at = "running"
      BY ONLY <2>5
    <3>2. ProcShape(procs'[id])
      BY ONLY <2>5 DEF ProcShape
    <3> QED
      BY ONLY <3>1, <3>2
  <2>7. LaterProcs(procs, procs') /\ hungUp \subseteq hungUp' /\ \A q \in DOMAIN procs' : q \in DOMAIN procs \/ q \notin 0..heard
    BY <2>1, <2>2, <2>5 DEF LaterProcs
  <2>8. \A p : Early(procs, p, "RunCmd") => Early(procs', p, "RunCmd")
    BY <2>7, EarlyLater
  <2>9. Reason(hungUp, Runners!calls, heard) => Reason(hungUp', Runners!calls, heard')
    BY <2>1, <2>7, ReasonLater
  <2>10. OnlyInv(procs', m_process', frames', hungUp', Runners!calls, heard', m_bWaitCommandCalled', m_bStopCommandCalled')
    <3>1. m_process' = id /\ id # 0 /\ id \in DOMAIN procs'
      BY <1>4, <2>1, <2>2, <2>5
    <3>2. DOMAIN procs' \subseteq 1..heard' /\ \A q \in DOMAIN procs' : q <= id
      BY <2>1, <2>2, <2>4, <2>5
    <3>3. \A p \in DOMAIN procs' : ProcShape(procs'[p])
      BY <2>5, <2>6, OnlyFacts
    <3>4. ASSUME NEW p \in DOMAIN procs'
          PROVE  /\ procs'[p].at = "running" => p = id
                 /\ procs'[p].at \in {"killed", "unseen"} => Early(procs', p, "RunCmd")
                 /\ p # id => Reason(hungUp', Runners!calls, heard')
      <4>1. CASE p = id
        BY <2>6, <4>1
      <4>2. CASE p # id
        <5>1. p \in DOMAIN procs /\ procs'[p] = procs[p] /\ p # m_process
          BY <1>4, <2>5, <4>2, OnlyFacts
        <5> QED
          BY <2>8, <2>9, <4>2, <5>1, OnlyFacts
      <4> QED
        BY <4>1, <4>2
    <3>5. frames' # <<>> => Early(procs', id, "RunCmd")
      BY <1>1, <2>2, <2>6, <3>1 DEF Early
    <3> QED
      BY <1>1, <3>1, <3>2, <3>3, <3>4, <3>5 DEF OnlyInv
  <2>11. Runners!calls[id].api # "Wait"
    BY <2>2
  <2> QED
    BY <2>1, <2>3, <2>7, <2>10, <2>11, HonestStep
<1> QED
  BY <1>2, <1>3, <1>4 DEF Runners!handleStartCommand

\* _handleWaitCommand of RunCmd.
LEMMA RunWaitHonest ==
    ASSUME ScriptsInv, HonestInv, play.plugin = "RunCmd", play' = play, heard < Len(Runners!calls), heard' = heard + 1,
           UNCHANGED hungUp, Runners!calls[heard + 1].api = "Wait", Runners!handleWaitCommand(heard + 1)
    PROVE  HonestInv'
<1>1. Reason(hungUp', Runners!calls, heard')
  <2>1. heard' \in 1..heard'
    BY NewCall
  <2> QED
    BY <2>1 DEF Reason
<1>2. PICK ok : ok = FALSE
  OBVIOUS
<1>3. UNCHANGED <<procs, m_process, frames>> /\ (UNCHANGED results \/ (~Runners!checkProcess(Runners!calls[heard + 1].of) /\ Runners!Replies(heard + 1, ok)))
  BY <1>2 DEF Runners!handleWaitCommand
<1> QED
  BY <1>1, <1>2, <1>3, RunAnsweredHonest

\* The process closed, as _stopProcess leaves it: nothing runs.
LEMMA ClosedProcs ==
    ASSUME ScriptsInv, HonestInv, play.plugin = "RunCmd", m_process # 0
    PROVE  /\ DOMAIN Runners!Closed = DOMAIN procs
           /\ \A p \in DOMAIN procs :
                  /\ ProcShape(Runners!Closed[p]) /\ Runners!Closed[p].ws = procs[p].ws
                  /\ Runners!Closed[p].nested = procs[p].nested /\ Runners!Closed[p].at # "running"
                  /\ Runners!Closed[p].at \in {"killed", "unseen"} => procs[p].at \in {"killed", "unseen"}
<1>1. PICK mp, pr : mp = m_process /\ pr = Runners!Closed
  OBVIOUS
<1>2. pr = [procs EXCEPT ![mp].at = "ended"] /\ mp \in DOMAIN procs
  BY <1>1, OnlyFacts DEF Runners!Closed
<1>3. DOMAIN pr = DOMAIN procs /\ \A p \in DOMAIN procs : p # mp => pr[p] = procs[p]
  BY ONLY <1>2
<1>4. procs[mp] = [ws |-> procs[mp].ws, at |-> procs[mp].at, waitId |-> procs[mp].waitId,
                   waitCmdFinished |-> procs[mp].waitCmdFinished, nested |-> procs[mp].nested]
  BY <1>2, OnlyFacts DEF ProcShape
<1>5. pr[mp] = [procs[mp] EXCEPT !.at = "ended"]
  BY ONLY <1>2
<1>6. pr[mp] = [ws |-> procs[mp].ws, at |-> "ended", waitId |-> procs[mp].waitId,
                waitCmdFinished |-> procs[mp].waitCmdFinished, nested |-> procs[mp].nested]
  BY ONLY <1>4, <1>5
<1>7. ProcShape(pr[mp]) /\ pr[mp].ws = procs[mp].ws /\ pr[mp].nested = procs[mp].nested /\ pr[mp].at = "ended"
  <2>1. pr[mp].ws = procs[mp].ws /\ pr[mp].nested = procs[mp].nested /\ pr[mp].at = "ended"
    BY ONLY <1>6
  <2>2. ProcShape(pr[mp])
    BY ONLY <1>6 DEF ProcShape
  <2> QED
    BY ONLY <2>1, <2>2
<1>8. ASSUME NEW p \in DOMAIN procs
      PROVE  /\ ProcShape(pr[p]) /\ pr[p].ws = procs[p].ws /\ pr[p].nested = procs[p].nested /\ pr[p].at # "running"
             /\ pr[p].at \in {"killed", "unseen"} => procs[p].at \in {"killed", "unseen"}
  <2>1. CASE p = mp
    BY <1>7, <2>1
  <2>2. CASE p # mp
    BY <1>1, <1>3, <2>2, OnlyFacts
  <2> QED
    BY <2>1, <2>2
<1> QED
  BY <1>1, <1>3, <1>8

\* _handleStopCommand of RunCmd, which is a reason.
LEMMA RunStopHonest ==
    ASSUME ScriptsInv, HonestInv, play.plugin = "RunCmd", play' = play, heard < Len(Runners!calls), heard' = heard + 1,
           UNCHANGED hungUp, Runners!calls[heard + 1].api = "Stop", Runners!handleStopCommand(heard + 1)
    PROVE  HonestInv'
<1>1. /\ heard' \in Nat /\ heard <= heard' /\ heard' <= Len(Runners!calls) /\ heard' \in Runners!Calls
      /\ heard' \in 1..heard' /\ heard' # 0 /\ hungUp \subseteq hungUp'
  BY NewCall
<1>2. Reason(hungUp', Runners!calls, heard')
  BY <1>1 DEF Reason
<1>3. CASE Runners!Replies(heard + 1, FALSE) /\ UNCHANGED <<m_bStopCommandCalled, procs, m_process>>
  <2>1. UNCHANGED frames
    BY DEF Runners!handleStopCommand
  <2> QED
    BY <1>2, <1>3, <2>1, RunAnsweredHonest
<1>4. CASE /\ Runners!checkProcess(Runners!calls[heard + 1].of)
           /\ Runners!WaitResult(Runners!Replied(results, heard + 1, TRUE, Runners!Closed), Runners!Closed)
  <2>1. PICK id, pr, w, ok : id = heard' /\ pr = Runners!Closed /\ w = m_waitResultPack /\ ok = TRUE
    OBVIOUS
  <2>2. m_process # 0
    BY <1>4 DEF Runners!checkProcess
  <2>3. PICK rs, ss : rs = results /\ ss = Runners!Replied(rs, id, ok, pr)
    OBVIOUS
  <2>4. /\ id \in Runners!Calls \cup {0} /\ w \in Runners!Calls \cup {0} /\ rs = [x \in Runners!Calls |-> rs[x]]
        /\ \A x \in Runners!Calls : IsSeq(rs[x])
    BY <1>1, <2>1, <2>3, RunFacts DEF Runners!Calls
  <2>5. PICK b : Adds(rs, ss, id, b)
    BY <2>3, <2>4, RepliedAdds
  <2>6. ss = [x \in Runners!Calls |-> ss[x]] /\ \A x \in Runners!Calls : IsSeq(ss[x])
    <3>1. More(rs, ss, id)
      BY <2>3, <2>4, RepliedMore
    <3> QED
      BY <3>1 DEF More
  <2>7. results' = Runners!Replied(ss, w, ok, pr) /\ procs' = Runners!Deleted(pr) /\ m_process' = 0
    BY <1>4, <2>1, <2>3 DEF Runners!WaitResult
  <2>8. PICK a : /\ Adds(ss, results', w, a) /\ a.ok = ok
                 /\ a.alive => Runners!calls[w].of \in DOMAIN pr /\ pr[Runners!calls[w].of].at = "running"
    <3>1. \E a : /\ Adds(ss, Runners!Replied(ss, w, ok, pr), w, a) /\ a.ok = ok
                 /\ a.alive => Runners!calls[w].of \in DOMAIN pr /\ pr[Runners!calls[w].of].at = "running"
      BY ONLY <2>4, <2>6, RepliedAdds
    <3> QED
      BY <2>7, <3>1
  <2>9. Adds(results, results', w, a)
    <3>1. Runners!calls[id].api # "Wait"
      BY <2>1
    <3> QED
      BY <2>3, <2>5, <2>8, <3>1 DEF Adds
  <2>10. DOMAIN pr = DOMAIN procs
         /\ \A p \in DOMAIN procs : /\ ProcShape(pr[p]) /\ pr[p].ws = procs[p].ws /\ pr[p].nested = procs[p].nested
                                    /\ pr[p].at # "running" /\ (pr[p].at \in {"killed", "unseen"} => procs[p].at \in {"killed", "unseen"})
    BY <2>1, <2>2, ClosedProcs
  <2>11. a.ok
    BY <2>1, <2>8
  <2> QED
    BY <1>1, <1>2, <2>7, <2>8, <2>9, <2>10, <2>11, ResultHonest
<1> QED
  BY <1>3, <1>4 DEF Runners!handleStopCommand

\* _stopProcess when somebody hangs up, which is a reason.
LEMMA RunCloseHonest ==
    ASSUME ScriptsInv, HonestInv, play.plugin = "RunCmd", UNCHANGED <<play, heard>>, NEW ws, hungUp' = hungUp \cup {ws},
           Runners!stopProcess(ws)
    PROVE  HonestInv'
<1>1. heard' \in Nat /\ heard <= heard' /\ heard' <= Len(Runners!calls) /\ hungUp \subseteq hungUp' /\ 0 \notin 1..heard'
  BY PlayFacts
<1>2. Reason(hungUp', Runners!calls, heard')
  BY DEF Reason
<1>3. UNCHANGED <<frames, results>>
  BY DEF Runners!stopProcess
<1>4. PICK x, a : x = 0 /\ Adds(results, results', x, a)
  BY <1>3, NothingAdded
<1>5. CASE UNCHANGED <<procs, m_process>>
  <2>1. OnlyInv(procs', m_process', frames', hungUp', Runners!calls, heard', m_bWaitCommandCalled', m_bStopCommandCalled')
    BY <1>1, <1>2, <1>3, <1>5, OnlyLater
  <2>2. LaterProcs(procs, procs') /\ \A q \in DOMAIN procs' : q \in DOMAIN procs
    BY <1>5 DEF LaterProcs
  <2> QED
    BY <1>1, <1>4, <2>1, <2>2, HonestStep
<1>6. CASE m_process # 0 /\ procs' = Runners!Deleted(Runners!Closed) /\ m_process' = 0
  <2>1. PICK pr : pr = Runners!Closed
    OBVIOUS
  <2>2. DOMAIN pr = DOMAIN procs
        /\ \A p \in DOMAIN procs : /\ ProcShape(pr[p]) /\ pr[p].ws = procs[p].ws /\ pr[p].nested = procs[p].nested
                                   /\ pr[p].at # "running" /\ (pr[p].at \in {"killed", "unseen"} => procs[p].at \in {"killed", "unseen"})
    BY <1>6, <2>1, ClosedProcs
  <2>3. procs' = Runners!Deleted(pr)
    BY <1>6, <2>1
  <2> QED
    BY <1>1, <1>2, <1>4, <1>6, <2>2, <2>3, ResultHonest
<1> QED
  BY <1>5, <1>6 DEF Runners!stopProcess

\* _sendWaitResult: a flag is set, so there is a reason.
LEMMA SendWaitHonest ==
    ASSUME ScriptsInv, HonestInv, play.plugin = "RunCmd", UNCHANGED <<play, heard, hungUp>>, Runners!Called,
           NEW pr, Runners!SendWaitResult(pr), DOMAIN pr = DOMAIN procs,
           \A p \in DOMAIN procs : /\ ProcShape(pr[p]) /\ pr[p].ws = procs[p].ws /\ pr[p].nested = procs[p].nested
                                   /\ pr[p].at = "running" => procs[p].at = "running" /\ Early(procs, p, "RunCmd")
                                   /\ pr[p].at \in {"killed", "unseen"} => procs[p].at \in {"killed", "unseen"}
    PROVE  HonestInv'
<1>1. heard' \in Nat /\ heard <= heard' /\ heard' <= Len(Runners!calls) /\ hungUp \subseteq hungUp'
  BY PlayFacts
<1>2. Reason(hungUp', Runners!calls, heard')
  BY OnlyFacts DEF Runners!Called
<1>3. PICK rs, w, ok : rs = results /\ w = m_waitResultPack /\ ok = TRUE
  OBVIOUS
<1>4. w \in Runners!Calls \cup {0} /\ rs = [x \in Runners!Calls |-> rs[x]] /\ \A x \in Runners!Calls : IsSeq(rs[x])
  BY <1>3, RunFacts DEF Runners!Calls
<1>5. results' = Runners!Replied(rs, w, ok, pr) /\ procs' = Runners!Deleted(pr) /\ m_process' = 0
  BY <1>3 DEF Runners!SendWaitResult, Runners!WaitResult
<1>6. PICK a : /\ Adds(rs, results', w, a) /\ a.ok = ok
               /\ a.alive => Runners!calls[w].of \in DOMAIN pr /\ pr[Runners!calls[w].of].at = "running"
  <2>1. \E a : /\ Adds(rs, Runners!Replied(rs, w, ok, pr), w, a) /\ a.ok = ok
               /\ a.alive => Runners!calls[w].of \in DOMAIN pr /\ pr[Runners!calls[w].of].at = "running"
    BY ONLY <1>4, RepliedAdds
  <2> QED
    BY <1>5, <2>1
<1>7. Adds(results, results', w, a) /\ a.ok
  BY <1>3, <1>6
<1> QED
  BY <1>1, <1>2, <1>5, <1>6, <1>7, ResultHonest

\* A program of RunCmd ends: if it is not the one that the plugin has, that one is excused.
LEMMA RunFinishedHonest ==
    ASSUME ScriptsInv, HonestInv, play.plugin = "RunCmd", NEW p \in DOMAIN procs, Runners!Finished(p)
    PROVE  HonestInv'
<1>1. UNCHANGED <<play, heard, hungUp>> /\ procs[p].at \in {"running", "killed", "unseen"}
  BY DEF Runners!Finished, Runners!isRunning, Runners!Alive
<1>2. PICK pr : pr = Runners!Ended(p)
  OBVIOUS
<1>3. /\ DOMAIN pr = DOMAIN procs /\ \A q \in DOMAIN procs : q # p => pr[q] = procs[q]
      /\ ProcShape(pr[p]) /\ pr[p].ws = procs[p].ws /\ pr[p].nested = procs[p].nested /\ pr[p].at = "ended"
  <2>1. procs[p] = [ws |-> procs[p].ws, at |-> procs[p].at, waitId |-> procs[p].waitId,
                    waitCmdFinished |-> procs[p].waitCmdFinished, nested |-> procs[p].nested]
    BY OnlyFacts DEF ProcShape
  <2>2. pr = [procs EXCEPT ![p].at = "ended"]
    BY <1>2 DEF Runners!Ended
  <2>3. DOMAIN pr = DOMAIN procs /\ \A q \in DOMAIN procs : q # p => pr[q] = procs[q]
    BY ONLY <2>2
  <2>4. pr[p] = [procs[p] EXCEPT !.at = "ended"]
    BY ONLY <2>2, p \in DOMAIN procs
  <2>5. pr[p] = [ws |-> procs[p].ws, at |-> "ended", waitId |-> procs[p].waitId,
                 waitCmdFinished |-> procs[p].waitCmdFinished, nested |-> procs[p].nested]
    BY ONLY <2>1, <2>4
  <2>6. ProcShape(pr[p])
    BY ONLY <2>5 DEF ProcShape
  <2> QED
    BY ONLY <2>3, <2>5, <2>6
<1>4. ASSUME NEW q \in DOMAIN procs, pr[q].at = "running"
      PROVE  procs[q].at = "running" /\ q = m_process /\ Early(procs, q, "RunCmd")
  <2>1. q # p /\ procs[q].at = "running"
    BY <1>3, <1>4
  <2>2. q = m_process /\ m_process # 0
    BY <2>1, OnlyFacts
  <2>3. p # m_process /\ procs[p].at \in {"killed", "unseen"}
    BY <1>1, <2>1, <2>2, OnlyFacts
  <2>4. Early(procs, p, "RunCmd") /\ p <= q
    BY <2>2, <2>3, OnlyFacts
  <2>5. p \in Nat /\ q \in Nat /\ DOMAIN procs \subseteq Nat
    BY OnlyFacts, PlayFacts
  <2> QED
    BY <2>1, <2>2, <2>4, <2>5, EarlyBefore
<1>5. ASSUME NEW q \in DOMAIN procs
      PROVE  /\ ProcShape(pr[q]) /\ pr[q].ws = procs[q].ws /\ pr[q].nested = procs[q].nested
             /\ pr[q].at = "running" => procs[q].at = "running" /\ Early(procs, q, "RunCmd")
             /\ pr[q].at \in {"killed", "unseen"} => procs[q].at \in {"killed", "unseen"}
  <2>1. CASE q = p
    BY <1>3, <2>1
  <2>2. CASE q # p
    <3>1. pr[q] = procs[q]
      BY <1>3, <2>2
    <3> QED
      BY <1>4, <3>1, OnlyFacts
  <2> QED
    BY <2>1, <2>2
<1>6. CASE Runners!Called /\ Runners!SendWaitResult(Runners!Ended(p))
  <2>1. Runners!SendWaitResult(pr)
    BY <1>2, <1>6
  <2> QED
    BY <1>1, <1>3, <1>5, <1>6, <2>1, SendWaitHonest
<1>7. CASE procs' = Runners!Ended(p) /\ UNCHANGED <<results, Runners!runCmdVars>>
  <2>1. procs' = pr /\ UNCHANGED <<m_process, m_bWaitCommandCalled, m_bStopCommandCalled>>
    BY <1>2, <1>7 DEF Runners!runCmdVars
  <2>2. LaterProcs(procs, procs') /\ \A q \in DOMAIN procs' : q \in DOMAIN procs
    BY <1>3, <1>5, <2>1 DEF LaterProcs
  <2>3. \A q : Early(procs, q, "RunCmd") => Early(procs', q, "RunCmd")
    BY <2>2, EarlyLater
  <2>4. m_process # 0 /\ procs'[m_process].at = "running" => Early(procs', m_process, "RunCmd")
    BY <1>4, <2>1, <2>3, OnlyFacts
  <2>5. \A q \in DOMAIN procs : /\ procs'[q].at = "running" => q = m_process
                                /\ procs'[q].at \in {"killed", "unseen"} => Early(procs', q, "RunCmd")
    BY <1>4, <1>5, <2>1, <2>3, OnlyFacts
  <2>6. OnlyInv(procs', m_process', frames', hungUp', Runners!calls, heard', m_bWaitCommandCalled', m_bStopCommandCalled')
    BY <1>1, <1>3, <1>5, <2>1, <2>4, <2>5, OnlyFacts DEF OnlyInv
  <2>7. PICK x, a : x = 0 /\ Adds(results, results', x, a)
    BY <1>7, NothingAdded
  <2>8. heard' \in Nat /\ heard <= heard' /\ heard' <= Len(Runners!calls) /\ hungUp \subseteq hungUp' /\ 0 \notin 1..heard'
    BY <1>1, PlayFacts
  <2> QED
    BY <1>1, <2>2, <2>6, <2>7, <2>8, HonestStep
<1> QED
  BY <1>6, <1>7 DEF Runners!Finished

\* The slot that spins for the Wait returns: what runs was started in there.
LEMMA RunReturnHonest ==
    ASSUME ScriptsInv, HonestInv, play.plugin = "RunCmd", Runners!Return
    PROVE  HonestInv'
<1>1. frames # <<>> /\ UNCHANGED <<play, heard, hungUp>> /\ Runners!Called /\ Runners!SendWaitResult(procs)
  BY DEF Runners!Return
<1>2. PICK pr : pr = procs
  OBVIOUS
<1>3. \A p \in DOMAIN procs : ProcShape(procs[p]) /\ (procs[p].at = "running" => Early(procs, p, "RunCmd"))
  BY <1>1, OnlyFacts
<1>4. Runners!SendWaitResult(pr)
  BY <1>1, <1>2
<1> QED
  BY <1>1, <1>2, <1>3, <1>4, SendWaitHonest

\* What RunCmdPlugin does with a call.
LEMMA RunCmdHonest ==
    ASSUME ScriptsInv, HonestInv, play.plugin = "RunCmd", play' = play, heard < Len(Runners!calls), heard' = heard + 1,
           UNCHANGED hungUp, Runners!RunCmdCall(heard + 1)
    PROVE  HonestInv'
<1>1. CASE Runners!calls[heard + 1].api = "Start" /\ Runners!handleStartCommand(heard + 1)
  BY <1>1, RunStartHonest
<1>2. CASE Runners!calls[heard + 1].api = "Wait" /\ Runners!handleWaitCommand(heard + 1)
  BY <1>2, RunWaitHonest
<1>3. CASE Runners!calls[heard + 1].api = "Stop" /\ Runners!handleStopCommand(heard + 1)
  BY <1>3, RunStopHonest
<1>4. CASE Runners!calls[heard + 1].api # "Wait" /\ Runners!Refused(heard + 1) /\ UNCHANGED Runners!runCmdVars
  <2>1. UNCHANGED <<procs, m_process, frames, m_bWaitCommandCalled, m_bStopCommandCalled>> /\ Runners!Replies(heard + 1, FALSE)
    BY <1>4 DEF Runners!Refused, Runners!runCmdVars
  <2>2. heard \in Nat /\ heard' \in Nat /\ heard <= heard' /\ hungUp \subseteq hungUp'
    BY NewCall, PlayFacts
  <2>3. Reason(hungUp, Runners!calls, heard) => Reason(hungUp', Runners!calls, heard')
    BY <2>2, ReasonLater
  <2>4. m_bWaitCommandCalled' \/ m_bStopCommandCalled' => Reason(hungUp', Runners!calls, heard')
    BY <2>1, <2>3, OnlyFacts
  <2> QED
    BY <1>4, <2>1, <2>4, RunAnsweredHonest
<1> QED
  BY <1>1, <1>2, <1>3, <1>4 DEF Runners!RunCmdCall

-----------------------------------------------------------------------------
\* Every step of the two plugins keeps it.
LEMMA HonestInvStep == ScriptsInv /\ HonestInv /\ [Runners!ScriptsNext]_runnerVars => HonestInv'
<1> SUFFICES ASSUME ScriptsInv, HonestInv, [Runners!ScriptsNext]_runnerVars PROVE HonestInv'
  OBVIOUS
<1>1. play.plugin \in {"RunCmd", "Debuggerlite"}
  BY PlayFacts
<1>2. CASE Runners!Receive
  <2>1. /\ heard < Len(Runners!calls) /\ heard' = heard + 1 /\ UNCHANGED <<play, hungUp>>
        /\ \/ play.plugin = "RunCmd" /\ Runners!RunCmdCall(heard + 1)
           \/ play.plugin = "Debuggerlite" /\ Runners!DebuggerliteCall(heard + 1)
    BY <1>2 DEF Runners!Receive
  <2> QED
    BY <2>1, RunCmdHonest, DebuggerliteHonest
<1>3. CASE \E ws \in play.closes : Runners!Close(ws)
  <2>1. PICK ws : Runners!Close(ws)
    BY <1>3
  <2>2. UNCHANGED <<play, heard>> /\ hungUp' = hungUp \cup {ws}
    BY <2>1 DEF Runners!Close
  <2>3. CASE play.plugin = "RunCmd"
    BY <2>1, <2>2, <2>3, RunCloseHonest DEF Runners!Close
  <2>4. CASE play.plugin = "Debuggerlite"
    <3>1. heard' \in Nat /\ heard <= heard' /\ heard' <= Len(Runners!calls) /\ hungUp \subseteq hungUp' /\ 0 \in 0..heard'
      BY <2>2, PlayFacts
    <3>2. PICK id, Q, delete : id = 0 /\ Q = Runners!Of(ws) /\ delete = "then"
      OBVIOUS
    <3>3. Runners!StopThese(id, Q, delete) /\ Q \subseteq m_procs /\ id \in 0..heard' /\ Reason(hungUp', Runners!calls, heard')
      BY <2>1, <2>2, <2>4, <3>1, <3>2 DEF Runners!Close, Runners!handleCloseWebSocket, Runners!Of, Reason
    <3> QED
      BY <2>2, <2>4, <3>1, <3>2, <3>3, StopTheseHonest
  <2> QED
    BY <1>1, <2>3, <2>4
<1>4. CASE \E p \in DOMAIN procs : Runners!Finished(p)
  BY <1>1, <1>4, FinishedHonest, RunFinishedHonest
<1>5. CASE \E p \in DOMAIN procs : Runners!KillUnseen(p)
  <2>1. PICK p \in DOMAIN procs : Runners!KillUnseen(p)
    BY <1>5
  <2>2. play.plugin = "Debuggerlite"
    BY <2>1 DEF Runners!KillUnseen
  <2> QED
    BY <2>1, <2>2, UnseenHonest
<1>6. CASE Runners!Return
  <2>1. CASE play.plugin = "RunCmd"
    BY <1>6, <2>1, RunReturnHonest
  <2>2. CASE play.plugin = "Debuggerlite"
    <3>1. /\ frames # <<>> /\ UNCHANGED <<play, heard, hungUp>>
          /\ \/ /\ Runners!Top.kind = "finish" /\ Runners!slotFinish(Runners!Top.p, procs)
                /\ frames' = Runners!Under /\ UNCHANGED <<procs, m_procs>>
             \/ Runners!Top.kind = "stop" /\ Runners!StopReturns
      BY <1>6, <2>2 DEF Runners!Return
    <3> QED
      BY <2>2, <3>1, FinishReturnsHonest, StopReturnsHonest
  <2> QED
    BY <1>1, <2>1, <2>2
<1>7. CASE Runners!Crash
  BY <1>7, DeathHonest
<1>8. CASE UNCHANGED runnerVars
  <2>1. UNCHANGED <<play, heard, hungUp, procs, m_procs, m_process, m_bWaitCommandCalled, m_bStopCommandCalled, frames, results>>
    BY <1>8 DEF runnerVars
  <2> QED
    BY <2>1 DEF HonestInv, Runners!calls
<1> QED
  BY <1>2, <1>3, <1>4, <1>5, <1>6, <1>7, <1>8 DEF Runners!ScriptsNext

\* It holds at the start.
LEMMA HonestInvStart == Runners!ScriptsInit => HonestInv
<1> SUFFICES ASSUME Runners!ScriptsInit PROVE HonestInv
  OBVIOUS
<1>1. /\ heard = 0 /\ procs = <<>> /\ m_procs = {} /\ m_process = 0 /\ frames = <<>>
      /\ ~m_bWaitCommandCalled /\ ~m_bStopCommandCalled
  BY DEF Runners!ScriptsInit
<1>2. DOMAIN procs = {} /\ Len(frames) = 0 /\ 1..heard = {}
  BY <1>1
<1>3. WaitsInv(results, heard, procs, hungUp, Runners!calls, play.plugin)
  BY <1>2 DEF WaitsInv
<1>4. GoneInv(procs, m_procs, frames, hungUp, Runners!calls, heard)
  BY <1>2 DEF GoneInv
<1>5. OnlyInv(procs, m_process, frames, hungUp, Runners!calls, heard, m_bWaitCommandCalled, m_bStopCommandCalled)
  BY <1>1, <1>2 DEF OnlyInv
<1> QED
  BY <1>3, <1>4, <1>5 DEF HonestInv

\* It says that Waits are answered in time.
LEMMA HonestAnswers == ScriptsInv /\ HonestInv => Runners!WaitHonest
<1> SUFFICES ASSUME ScriptsInv, HonestInv, NEW id \in 1..heard, NEW n \in DOMAIN results[id], Runners!calls[id].api = "Wait"
             PROVE  LET p == Runners!calls[id].of
                        before == {k \in 1..id - 1 : Runners!calls[k].api \in {"Stop", "EmergencyStop", "Wait"}}
                    IN IF results[id][n].ok
                       THEN results[id][n].alive =>
                                \/ procs[p].nested
                                \/ play.plugin = "RunCmd" /\ \E q \in DOMAIN procs : q < p /\ procs[q].nested
                       ELSE \/ p \notin DOMAIN procs \/ before # {} \/ hungUp # {}
                            \/ play.plugin = "Debuggerlite" /\ procs[p].ws # Runners!calls[id].ws
  BY DEF Runners!WaitHonest
<1>1. n \in 1..Len(results[id])
  <2>1. id \in Runners!Calls
    BY PlayFacts DEF Runners!Calls
  <2>2. IsSeq(results[id])
    BY <2>1, PlayFacts
  <2> QED
    BY <2>2 DEF IsSeq
<1>2. HonestAnswer(results[id][n], id, procs, hungUp, Runners!calls, play.plugin)
  BY <1>1 DEF HonestInv, WaitsInv
<1> QED
  BY <1>2 DEF HonestAnswer, Early, Reason
=============================================================================
