---------------------------- MODULE CommandPort ----------------------------
(***************************************************************************)
(* What the link layer promises the layer above it, with no word on how:   *)
(* a call is answered at once or accepted; an accepted call is answered at *)
(* most once, after every earlier open call with the same command key; a   *)
(* disconnection may abandon accepted calls, which then get no answer.     *)
(* DProtocol2 implements this specification.                               *)
(***************************************************************************)
EXTENDS Naturals

CONSTANTS Reqs,     \* calls of sendData, one per packet
          Keys,     \* (cmdId, subId) pairs
          KeyOf     \* the key of each call's packet

VARIABLES up,       \* the link is running
          arrival,  \* 0 before the call, then its place in the order of calls
          open,     \* accepted and neither answered nor abandoned
          answers   \* number of answers given to each call

portVars == <<up, arrival, open, answers>>

PortInit ==
    /\ up = TRUE
    /\ arrival = [r \in Reqs |-> 0]
    /\ open = {}
    /\ answers = [r \in Reqs |-> 0]

\* r arrives after every call made so far.
Arrive(r) ==
    /\ arrival[r] = 0
    /\ arrival'[r] > 0
    /\ \A q \in Reqs \ {r} : arrival'[q] = arrival[q] /\ arrival[q] < arrival'[r]

AnswerAtOnce(r) ==
    /\ Arrive(r)
    /\ answers' = [answers EXCEPT ![r] = 1]
    /\ UNCHANGED <<up, open>>

Accept(r) ==
    /\ up
    /\ Arrive(r)
    /\ open' = open \cup {r}
    /\ UNCHANGED <<up, answers>>

Answer(r) ==
    /\ r \in open
    /\ \A q \in open : KeyOf[q] = KeyOf[r] => arrival[r] <= arrival[q]
    /\ open' = open \ {r}
    /\ answers' = [answers EXCEPT ![r] = 1]
    /\ UNCHANGED <<up, arrival>>

\* Only a disconnection gives up accepted calls.
Disconnect ==
    /\ up' = FALSE
    /\ open' \in SUBSET open
    /\ UNCHANGED <<arrival, answers>>

Connect ==
    /\ up' = TRUE
    /\ UNCHANGED <<arrival, open, answers>>

PortNext ==
    \/ \E r \in Reqs : AnswerAtOnce(r) \/ Accept(r) \/ Answer(r)
    \/ Disconnect
    \/ Connect

PortSpec == PortInit /\ [][PortNext]_portVars
=============================================================================
