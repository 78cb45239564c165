------------------------------- MODULE Codec --------------------------------
(***************************************************************************)
(* What the tables of the Protocol2 codecs are written in.  An encoder     *)
(* turns the params of a JSON command into a sequence of bytes, a decoder  *)
(* turns the bytes of a reply into a JSON object; both go field by field.  *)
(* A byte is a cell <<value, key, type, n>>: the n-th byte of that type    *)
(* holding the value given under that key.  What the values are, and how a *)
(* number becomes a float or a bool a byte, is left out; which bytes a     *)
(* decoder takes for which value is not.                                   *)
(***************************************************************************)
EXTENDS Naturals, Sequences, FiniteSets, FiniteSetsExt, SequencesExt

\* Bytes of a text, its final zero included.
TextLen == 3

Width == [u8 |-> 1, u16 |-> 2, u32 |-> 4, i32 |-> 4, f32 |-> 4, u64 |-> 8]

\* Values that no call gives: a constant of the encoder, one of the device's own, a
\* queue index, and what lies behind the end of the params.
Constant == 90
FromDevice == 91
IndexValue == 92
Behind == 93

\* A field is read or written behind the fields before it (at = Following), or
\* at a place of its own.
Following == 999
Field(key, type, width, at) == [key |-> key, type |-> type, width |-> width, at |-> at]
Fields(type, keys) == [i \in DOMAIN keys |-> Field(keys[i], type, Width[type], Following)]
U8(keys) == Fields("u8", keys)
U16(keys) == Fields("u16", keys)
U32(keys) == Fields("u32", keys)
I32(keys) == Fields("i32", keys)
F32(keys) == Fields("f32", keys)
U64(keys) == Fields("u64", keys)
Chars(key, n) == <<Field(key, "text", n, Following)>>
Text(key) == Chars(key, TextLen)
\* The rest of a reply, however long.
Rest(key) == <<Field(key, "rest", 0, Following)>>
Skip(n) == <<Field("", "skip", n, Following)>>
At(at, type, key) == <<Field(key, type, Width[type], at)>>
CharsAt(at, key, n) == <<Field(key, "text", n, at)>>
\* A byte the encoder writes whatever the params are (a sub id, a constant).
Fix(n) == <<Field("", "fix", 1, n)>>

\* Arrays of four floats, as JOG and PTP params have them.
Velocities == F32(<<"velocity0", "velocity1", "velocity2", "velocity3",
                    "acceleration0", "acceleration1", "acceleration2", "acceleration3">>)
CPParams == F32(<<"targetAcc", "junctionVel", "accOrPeriod">>) \o U8(<<"isRealTimeTrack">>)
CirPoint == <<"cirPoint.x", "cirPoint.y", "cirPoint.z", "cirPoint.r">>
ToPoint == <<"toPoint.x", "toPoint.y", "toPoint.z", "toPoint.r">>
\* The outputs to switch on the way: their number and, here, one of them.
ParallelOutput == U8(<<"poCount", "ratio">>) \o U16(<<"port">>) \o U8(<<"level">>)
Address == U8(<<"address0", "address1", "address2", "address3">>)

Size(fields) == FoldSeq(LAMBDA f, n : n + f.width, 0, fields)

-----------------------------------------------------------------------------
\* A request of the table: the command, its id, rw and the fields of its params.
Set(id, cmd, fields) == [cmd |-> cmd, id |-> id, rw |-> 1, fields |-> fields]
Get(id, cmd, fields) == [cmd |-> cmd, id |-> id, rw |-> 0, fields |-> fields]

CellsOf(f, value) ==
    IF f.type = "fix" THEN <<<<Constant, "", "", f.at>>>> ELSE [n \in 1..f.width |-> <<value, f.key, f.type, n>>]

\* The params of a frame that carries this value in every field.
Encode(fields, value) == FlattenSeq([i \in DOMAIN fields |-> CellsOf(fields[i], value)])

-----------------------------------------------------------------------------
\* One branch of a decoder: taken for these rw and these lengths of the params.
Case(rws, min, max, fields) == [rws |-> rws, min |-> min, max |-> max, fields |-> fields]
Exactly(fields) == Case({0, 1}, Size(fields), Size(fields), fields)
AtLeast(n, fields) == Case({0, 1}, n, 255, fields)
ReadExactly(fields) == Case({0}, Size(fields), Size(fields), fields)
WrittenAtLeast(n, fields) == Case({1}, n, 255, fields)
\* addQueueIndexInfo
QueueIndex == Exactly(U64(<<"queuedCmdIndex">>))

\* A decoder: what it is called for (id and sub id), the cmd it names a reply
\* with rw 0 and with rw 1 ("" for none), and its branches in order.
Reply(id, sub, get, set, cases) ==
    [id |-> id, sub |-> sub, names |-> <<get, set>>, cases |-> cases]
Names(id, get, set) == Reply(id, 0, get, set, <<>>)
Register(id, get, set, fields) == Reply(id, 0, get, set, <<Exactly(fields)>>)
\* MUTANT of QueuedRegister: the struct's members in another order.
QueuedRegisterReversed(id, get, set, fields) ==
    Reply(id, 0, get, set, <<Exactly(Reverse(fields)), QueueIndex>>)
QueuedRegister(id, get, set, fields) == Reply(id, 0, get, set, <<Exactly(fields), QueueIndex>>)
Reading(id, get, fields) == Register(id, get, "", fields)
Queued(id, set) == Reply(id, 0, "", set, <<QueueIndex>>)
SetDone(id, sub, set) == Reply(id, sub, "", set, <<>>)
GetDone(id, sub, get) == Reply(id, sub, get, "", <<>>)

\* Where the i-th field of a layout starts, counted from 0.
Start(fields, i) ==
    IF fields[i].at # Following THEN fields[i].at
    ELSE Size(SelectSeq(SubSeq(fields, 1, i - 1), LAMBDA f : f.at = Following))

\* What a decoder finds behind the end of the params.
Outside == <<Behind, "", "", 0>>

Taken(f, from, params) ==
    LET width == IF f.type = "rest"
                 THEN (IF Len(params) > from THEN Len(params) - from ELSE 0)
                 ELSE f.width
    IN [n \in 1..width |-> IF from + n <= Len(params) THEN params[from + n] ELSE Outside]

\* The branch taken, 0 for none.
Branch(row, rw, params) ==
    LET fits == {i \in DOMAIN row.cases :
                    /\ rw \in row.cases[i].rws
                    /\ Len(params) \in row.cases[i].min .. row.cases[i].max}
    IN IF fits = {} THEN 0 ELSE Min(fits)

\* The JSON of a reply: its cmd and, per key, the bytes the value was made of.
Decode(row, rw, params) ==
    LET b == Branch(row, rw, params)
        fields == IF b = 0 THEN <<>> ELSE row.cases[b].fields
    IN [cmd |-> row.names[rw + 1],
        hasParams |-> b # 0,
        values |-> {[key |-> fields[i].key, type |-> fields[i].type,
                     cells |-> Taken(fields[i], Start(fields, i), params)] :
                        i \in {j \in DOMAIN fields : fields[j].type # "skip"}}]
=============================================================================
