------------------------------- MODULE P2Link -------------------------------
(***************************************************************************)
(* DProtocol2 joined to the wire and the device.  The wire loses frames    *)
(* (serial noise, UDP) and may deliver them in another order (UDP); copies *)
(* of a frame come from resends only.  The device, outside the repository, *)
(* runs every frame it gets and answers each with a frame of the same key. *)
(* Frames carry no request number, so an answer is known by its key alone. *)
(* The resend setting stays as it is.                                      *)
(***************************************************************************)
EXTENDS DProtocol2

VARIABLES
    toDevice,    \* copies of each packet's frame on the way to the device
    fromDevice,  \* answers with each key on the way back
    runs         \* times the device has run a command with each key

linkVars == <<vars, toDevice, fromDevice, runs>>

LinkInit ==
    /\ Init
    /\ toDevice = [r \in Reqs |-> 0]
    /\ fromDevice = [k \in Keys |-> 0]
    /\ runs = [k \in Keys |-> 0]

\* MessageHandler::sendRawData_slot: what a step of the protocol emits goes on
\* the wire.
Transmit ==
    /\ toDevice' = [r \in Reqs |-> toDevice[r] + (sends'[r] - sends[r])]
    /\ UNCHANGED <<fromDevice, runs>>

DeviceRuns(r) ==
    /\ toDevice[r] > 0
    /\ toDevice' = [toDevice EXCEPT ![r] = @ - 1]
    /\ runs' = [runs EXCEPT ![KeyOf[r]] = @ + 1]
    /\ fromDevice' = [fromDevice EXCEPT ![KeyOf[r]] = @ + 1]
    /\ UNCHANGED vars

\* MUTANT of Matches: the command id is not compared.
MatchesAny(f, k) == sendingPackets[k] # None

\* An answer with key f is taken for the packet in flight under key k.
Matches(f, k) == f = k /\ sendingPackets[k] # None

\* handleRawData: a frame that matches no packet is dropped.
Deliver(f) ==
    /\ fromDevice[f] > 0
    /\ fromDevice' = [fromDevice EXCEPT ![f] = @ - 1]
    /\ \/ \E k \in Keys : Matches(f, k) /\ HandleRawData(k)
       \/ (\A k \in Keys : ~Matches(f, k)) /\ UNCHANGED vars
    /\ UNCHANGED <<toDevice, runs>>

LoseToDevice(r) ==
    /\ toDevice[r] > 0
    /\ toDevice' = [toDevice EXCEPT ![r] = @ - 1]
    /\ UNCHANGED <<vars, fromDevice, runs>>

LoseFromDevice(f) ==
    /\ fromDevice[f] > 0
    /\ fromDevice' = [fromDevice EXCEPT ![f] = @ - 1]
    /\ UNCHANGED <<vars, toDevice, runs>>

LinkNext ==
    \/ \E r \in Reqs : SendData(r) /\ Transmit
    \/ \E r \in Reqs : Expire(r) /\ Transmit
    \/ PeriodicTask /\ Transmit
    \/ Start /\ Transmit
    \/ Stop /\ Transmit
    \/ \E r \in Reqs : DeviceRuns(r)
    \/ \E f \in Keys : Deliver(f)
    \/ \E r \in Reqs : LoseToDevice(r)
    \/ \E f \in Keys : LoseFromDevice(f)

LinkSpec == LinkInit /\ [][LinkNext]_linkVars

-----------------------------------------------------------------------------
Replied(k) == {r \in Reqs : KeyOf[r] = k /\ Kind[r] = "ask" /\ result[r] = "reply"}

\* However resends, late answers and reconnections interleave, the calls told
\* they succeeded under a command key never outnumber the runs of that command
\* by the device: an answer serves one call and no answer is invented, although a late
\* one may be taken for that of a later call.
RepliesBacked == \A k \in Keys : Cardinality(Replied(k)) <= runs[k]
=============================================================================
