------------------------------ MODULE RxFrame ------------------------------
(***************************************************************************)
(* MessageHandler::_HandleNewDataFromDevice: cutting the byte stream of    *)
(* the serial port or socket into Protocol2 and Protocol3 frames.  The     *)
(* bytes arrive in pieces of any length; the loop runs to its break before *)
(* the next piece is read.  One action per branch of the loop.             *)
(*                                                                         *)
(* A script is what the device sends: a sequence of good frames, damaged   *)
(* frames and noise.  Nothing in the module but the properties looks at it *)
(* otherwise than as bytes.                                                *)
(***************************************************************************)
EXTENDS Naturals, Sequences, SequencesExt

CONSTANTS Scripts,    \* sequences of [kind : {"frame", "damaged", "noise"}, bytes]
          Crc16(_)    \* DProtocol3::_CalcCheckSum, a table-driven CRC

HEAD_1 == 170         \* 0xAA, of both protocols
HEAD_P2_2 == 170
HEAD_P3_2 == 187      \* 0xBB

VARIABLES
    script,    \* what the device sends
    received,  \* number of bytes read so far
    rxBuffer,  \* m_rxBuffer
    handling,  \* the loop is running
    frames     \* the frames handed over, as [at, len] in the stream (history)

vars == <<script, received, rxBuffer, handling, frames>>

Stream == FlattenSeq([n \in DOMAIN script |-> script[n].bytes])

Init ==
    /\ script \in Scripts
    /\ received = 0
    /\ rxBuffer = <<>>
    /\ handling = FALSE
    /\ frames = <<>>

-----------------------------------------------------------------------------
Header(b) == Len(b) > 1 /\ b[1] = HEAD_1 /\ b[2] \in {HEAD_P2_2, HEAD_P3_2}
IsP2(b) == b[2] = HEAD_P2_2

\* DProtocol2::_CalcCheckSum, in quint8.
CalcCheckSum(payload) == (256 - (FoldLeft(LAMBDA s, x : (s + x) % 256, 0, payload))) % 256

\* The length a header announces, of the whole frame.
FrameLen(b) ==
    IF IsP2(b) THEN 4 + b[3] ELSE 17 + b[3] + 256 * b[4]

\* handleRawData of the two protocols: TOO_SHORT ...
TooShort(b) ==
    IF Len(b) < (IF IsP2(b) THEN 5 ELSE 4) THEN TRUE ELSE Len(b) < FrameLen(b)

\* ... and, of a whole frame, OK or CHECKSUM_ERR.
CheckSumOK(b) ==
    LET n == FrameLen(b)
    IN  IF IsP2(b)
        THEN b[n] = CalcCheckSum(SubSeq(b, 4, n - 1))
        ELSE b[n - 1] + 256 * b[n] = Crc16(SubSeq(b, 1, n - 2))

\* onSerialReadyRead_slot, onReadDatagram_slot of a connected handler.
ReadyRead(n) ==
    /\ ~handling
    /\ received' = received + n
    /\ rxBuffer' = rxBuffer \o SubSeq(Stream, received + 1, received + n)
    /\ handling' = TRUE
    /\ UNCHANGED <<script, frames>>

Discard(n) ==
    /\ rxBuffer' = SubSeq(rxBuffer, n + 1, Len(rxBuffer))
    /\ UNCHANGED <<script, received, handling>>

\* MUTANT of BadFirst: the byte after it goes too.
BadFirstTwo ==
    /\ handling
    /\ Len(rxBuffer) > 1
    /\ rxBuffer[1] # HEAD_1
    /\ Discard(2)
    /\ UNCHANGED frames

\* "bad pack": the first byte starts no header ...
BadFirst ==
    /\ handling
    /\ Len(rxBuffer) > 1
    /\ rxBuffer[1] # HEAD_1
    /\ Discard(1)
    /\ UNCHANGED frames

\* ... or the first two are none.
BadSecond ==
    /\ handling
    /\ Len(rxBuffer) > 1
    /\ rxBuffer[1] = HEAD_1
    /\ ~Header(rxBuffer)
    /\ Discard(2)
    /\ UNCHANGED frames

\* OK: handleRawData takes the frame out of the buffer and handles it.
Frame ==
    /\ handling
    /\ Header(rxBuffer)
    /\ ~TooShort(rxBuffer)
    /\ CheckSumOK(rxBuffer)
    /\ Discard(FrameLen(rxBuffer))
    /\ frames' = Append(frames, [at |-> received - Len(rxBuffer) + 1,
                                 len |-> FrameLen(rxBuffer)])

\* The places of _ClearBuffer's search where a header stands.
NextHeader == {i \in 2..(Len(rxBuffer) - 2) : Header(SubSeq(rxBuffer, i + 1, i + 2))}

\* CHECKSUM_ERR: _ClearBuffer drops what is before the first of them, or all.
ClearBuffer ==
    /\ handling
    /\ Header(rxBuffer)
    /\ ~TooShort(rxBuffer)
    /\ ~CheckSumOK(rxBuffer)
    /\ Discard(IF NextHeader = {} THEN Len(rxBuffer)
              ELSE CHOOSE i \in NextHeader : \A j \in NextHeader : i <= j)
    /\ UNCHANGED frames

\* The breaks of the loop.
Break ==
    /\ handling
    /\ \/ Len(rxBuffer) <= 1
       \/ Header(rxBuffer) /\ TooShort(rxBuffer)
    /\ handling' = FALSE
    /\ UNCHANGED <<script, received, rxBuffer, frames>>

Loop == BadFirst \/ BadSecond \/ Frame \/ ClearBuffer \/ Break

Next ==
    \/ \E n \in 1..(Len(Stream) - received) : ReadyRead(n)
    \/ Loop

\* The loop is not interrupted and does not pause.
Spec == Init /\ [][Next]_vars /\ WF_vars(Loop)

-----------------------------------------------------------------------------
TypeOK ==
    /\ script \in Scripts
    /\ received \in 0..Len(Stream)
    /\ rxBuffer \in Seq(0..255)
    /\ Len(rxBuffer) <= received
    /\ handling \in BOOLEAN
    /\ frames \in Seq([at : 1..Len(Stream), len : 4..Len(Stream)])

\* Bytes of the pieces before the n-th.
Before(n) == Len(FlattenSeq([m \in 1..(n - 1) |-> script[m].bytes]))

\* The good frames of the script that have been read to their last byte.
WholeFrames ==
    {[at |-> Before(n) + 1, len |-> Len(script[n].bytes)] :
        n \in {m \in DOMAIN script :
                 script[m].kind = "frame" /\ Before(m) + Len(script[m].bytes) <= received}}

Undamaged == \A n \in DOMAIN script : script[n].kind # "damaged"

\* Positions of the noise: bytes that belong to no frame.
NoiseAt ==
    UNION {Before(n) + 1..Before(n) + Len(script[n].bytes) :
              n \in {m \in DOMAIN script : script[m].kind = "noise"}}

\* A byte of the noise and the one after it, a frame's first perhaps, look like
\* a header: its "length" is whatever comes next.
FalseHeader ==
    \E k \in NoiseAt : k < Len(Stream) /\ Header(SubSeq(Stream, k, k + 1))

\* However the bytes of an undamaged stream are cut into pieces, whenever the
\* loop has come to rest exactly the good frames read so far have been handed
\* over: none is held back or lost, although noise stands between them, with
\* first bytes of headers in it, or the frames themselves contain headers.
\* Only a whole header that begins in the noise spoils it.
PromptAndExact ==
    ~handling /\ Undamaged /\ ~FalseHeader
        => {frames[n] : n \in DOMAIN frames} = WholeFrames

\* "Clears the data before the next header" (the comment in _ClearBuffer): a
\* damaged frame does not cost the good ones that follow it.  It does not hold
\* (DamagedScripts in MCRxFrame).
DamageIsLocal ==
    ~handling => WholeFrames \subseteq {frames[n] : n \in DOMAIN frames}
=============================================================================
