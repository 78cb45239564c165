----------------------------- MODULE MCRxFrame -----------------------------
(***************************************************************************)
(* Streams of two or three pieces.  Payloads hold header bytes, checksums  *)
(* equal header bytes, and noise stands between frames: a byte, the second *)
(* byte of a header, the first one, and both of them.                      *)
(***************************************************************************)
EXTENDS RxFrame

\* Any function of the bytes serves as the CRC here.
MCCrc16(b) == FoldLeft(LAMBDA s, x : (3 * s + x) % 65536, 7, b)

Piece(k, b) == [kind |-> k, bytes |-> b]

P2Frame(payload) ==
    Piece("frame", <<HEAD_1, HEAD_P2_2, Len(payload)>> \o payload \o <<CalcCheckSum(payload)>>)

P3Frame(payload) ==
    LET b == <<HEAD_1, HEAD_P3_2, Len(payload), 0, 1, 2, 3, 4, 5, 6, 7, 8, 9, 10, 11>> \o payload
    IN  Piece("frame", b \o <<MCCrc16(b) % 256, MCCrc16(b) \div 256>>)

\* One byte of a frame changed on the way: position n becomes x.
Damaged(p, n, x) == Piece("damaged", [p.bytes EXCEPT ![n] = x])

Goods == {P2Frame(<<10, 0>>),            \* plain
          P2Frame(<<170, 170>>),         \* its payload is a header
          P2Frame(<<43, 43, 0>>),        \* its checksum is 0xAA
          P2Frame(<<170, 187, 1>>),      \* its payload is the other header
          P3Frame(<<>>)}
Noises == {Piece("noise", b) : b \in {<<1>>, <<187, 0>>, <<170, 1>>, <<1, 170>>, <<170, 187>>}}

MixedScripts ==
    {<<f, g>> : f \in Goods, g \in Goods}
    \cup {<<x, f, y, g>> : f \in Goods, g \in Goods, x \in Noises, y \in Noises}
    \cup {<<Damaged(f, 5, 9), g>> : f \in Goods, g \in Goods}

DamagedScripts == {<<Damaged(P2Frame(<<10, 0>>), 5, 7), P2Frame(<<20, 0>>)>>}
=============================================================================
