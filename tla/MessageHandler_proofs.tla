------------------------ MODULE MessageHandler_proofs ------------------------
(***************************************************************************)
(* For any number of connect requests: a connection attempt is alone in    *)
(* its event loop and answered once, and an open port is owned and watched.*)
(***************************************************************************)
EXTENDS MessageHandler, TLAPS

\* A request not made has no answer and is not inside the loop: what OneProbe
\* needs to hold of the next request.
NotCalled == \A c \in Calls \ called : answers[c] = 0 /\ c # probing

HandlerInv == TypeOK /\ NotCalled /\ OneProbe /\ OpenIsOwned

\* Every step of connectDevice, disconnectDevice, the keep-alive timer and the
\* error slot keeps the invariant.
LEMMA HandlerStep == HandlerInv /\ [Next]_vars => HandlerInv'
<1> USE MessageHandlerAssumption
<1> SUFFICES ASSUME HandlerInv, [Next]_vars PROVE HandlerInv'
  OBVIOUS
<1> USE DEF HandlerInv, TypeOK, NotCalled, OneProbe, OpenIsOwned
<1>1. ASSUME NEW c \in Calls, ConnectFails(c) PROVE HandlerInv'
  <2>1. TypeOK'
    BY <1>1 DEF ConnectFails, Call, Answer
  <2>2. NotCalled'
    BY <1>1 DEF ConnectFails, Call, Answer
  <2>3. OneProbe'
    BY <1>1 DEF ConnectFails, Call, Answer
  <2>4. OpenIsOwned'
    BY <1>1 DEF ConnectFails
  <2> QED  BY <2>1, <2>2, <2>3, <2>4
<1>2. ASSUME NEW c \in Calls, ConnectOpens(c) PROVE HandlerInv'
  <2>1. probing = NoCall
    BY <1>2 DEF ConnectOpens
  <2>2. TypeOK' /\ OpenIsOwned'
    BY <1>2 DEF ConnectOpens, Call
  <2>3. NotCalled' /\ OneProbe'
    BY <1>2, <2>1 DEF ConnectOpens, Call
  <2> QED  BY <2>2, <2>3
<1>3. ASSUME NEW c \in Calls, ConnectReturns(c) PROVE HandlerInv'
  <2>1. c \in called
    BY <1>3 DEF ConnectReturns
  <2>2. TypeOK' /\ OpenIsOwned'
    <3>1. worker' \in BOOLEAN
      BY <1>3, Zenon DEF ConnectReturns
    <3>2. answers' \in [Calls -> Nat]
      BY <1>3 DEF ConnectReturns, Answer
    <3>3. /\ present' \in BOOLEAN /\ open' \in BOOLEAN /\ keepAlive' \in BOOLEAN
          /\ isConnecting' \in BOOLEAN /\ isConnected' \in BOOLEAN
          /\ OpenIsOwned'
      BY <1>3, Zenon DEF ConnectReturns
    <3> QED
      BY <1>3, <3>1, <3>2, <3>3, Zenon DEF ConnectReturns
  <2>3. NotCalled' /\ OneProbe'
    BY <1>3, <2>1 DEF ConnectReturns, Answer
  <2> QED  BY <2>2, <2>3
<1>4. CASE DisConnectDevice
  BY <1>4 DEF DisConnectDevice, DisconnectHandler
<1>5. CASE KeepAliveTimeout
  BY <1>5 DEF KeepAliveTimeout, DisconnectHandler
<1>6. CASE ResourceError
  BY <1>6 DEF ResourceError
<1>7. CASE Plug
  BY <1>7 DEF Plug
<1>8. CASE UNCHANGED vars
  BY <1>8 DEF vars
<1> QED
  BY <1>1, <1>2, <1>3, <1>4, <1>5, <1>6, <1>7, <1>8 DEF Next

\* The invariant holds from the constructor on.
THEOREM HandlerInvariant == Spec => []HandlerInv
<1>1. ASSUME Init PROVE HandlerInv
  <2>1. present \in BOOLEAN
    BY <1>1, Zenon DEF Init
  <2>2. TypeOK
    BY <1>1, <2>1 DEF Init, TypeOK
  <2>3. NotCalled /\ OneProbe
    BY <1>1, MessageHandlerAssumption DEF Init, NotCalled, OneProbe
  <2>4. OpenIsOwned
    BY <1>1, Zenon DEF Init, OpenIsOwned
  <2> QED
    BY <2>2, <2>3, <2>4 DEF HandlerInv
<1> QED
  BY <1>1, HandlerStep, PTL DEF Spec

\* m_isConnecting is set exactly while one call is inside the event loop, and
\* every other call has been answered once.
THEOREM ConnectsOneAtATime == Spec => []OneProbe
<1>1. HandlerInv => OneProbe
  BY DEF HandlerInv
<1> QED
  BY <1>1, HandlerInvariant, PTL

\* Whatever interleaves with the event loop, an open port belongs to a
\* connection or to a connect under way and is watched.
THEOREM PortNeverLeaked == Spec => []OpenIsOwned
<1>1. HandlerInv => OpenIsOwned
  BY DEF HandlerInv
<1> QED
  BY <1>1, HandlerInvariant, PTL
=============================================================================
