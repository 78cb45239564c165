--------------------------- MODULE MessageHandler ---------------------------
(***************************************************************************)
(* The life of a serial connection: MessageHandler::connectDevice and      *)
(* disconnectDevice with the keep-alive timer and the port's error slot,   *)
(* and the status MagicDevice keeps above them.  connectDevice asks the    *)
(* device for its firmware in a nested event loop (_checkMarlin): until    *)
(* that returns, every other slot may run, another connect or disconnect   *)
(* request included.  The loop is the only place where a handler is not    *)
(* atomic; it splits connectDevice into ConnectOpens and ConnectReturns.   *)
(***************************************************************************)
EXTENDS Naturals

CONSTANTS Calls,   \* connect requests
          NoCall   \* no connect request

ASSUME MessageHandlerAssumption == NoCall \notin Calls

VARIABLES
    present,       \* the port is in the system's list (environment)
    open,          \* m_ioDevice->isOpen()
    keepAlive,     \* m_timerDeviceKeepAlive is active
    isConnecting,  \* m_isConnecting
    isConnected,   \* m_isConnected
    worker,        \* m_protocol2 runs (DProtocol2)
    status,        \* MagicDevicePrivate::m_status
    probing,       \* the call inside _checkMarlin's event loop
    called,        \* connect requests so far (history)
    answers        \* answers to each (history)

vars == <<present, open, keepAlive, isConnecting, isConnected, worker, status,
          probing, called, answers>>

Init ==
    /\ present \in BOOLEAN
    /\ open = FALSE
    /\ keepAlive = FALSE
    /\ isConnecting = FALSE
    /\ isConnected = FALSE
    /\ worker = TRUE
    /\ status = "UNCONNECTED"
    /\ probing = NoCall
    /\ called = {}
    /\ answers = [c \in Calls |-> 0]

-----------------------------------------------------------------------------
Call(c) ==
    /\ c \notin called
    /\ called' = called \cup {c}

Answer(c) == answers' = [answers EXCEPT ![c] = @ + 1]

\* MUTANT of ConnectFails: m_isConnecting is not reset.
ConnectFailsStuck(c) ==
    /\ Call(c)
    /\ Answer(c)
    /\ isConnecting' = TRUE
    /\ UNCHANGED <<present, open, keepAlive, isConnected, worker, status, probing>>

\* connectDevice, the returns with ERROR_SERIALPORT_OPEN: a connect is under
\* way, there is a connection, or the port cannot be opened.
ConnectFails(c) ==
    /\ Call(c)
    /\ Answer(c)
    /\ UNCHANGED <<present, open, keepAlive, isConnecting, isConnected, worker,
                   status, probing>>

\* connectDevice up to the event loop.
ConnectOpens(c) ==
    /\ Call(c)
    /\ ~isConnecting
    /\ ~isConnected
    /\ present
    /\ isConnecting' = TRUE
    /\ open' = TRUE
    /\ keepAlive' = TRUE
    /\ probing' = c
    /\ UNCHANGED <<present, isConnected, worker, status, answers>>

\* The loop ends, by the answer of a Marlin firmware or after 100 ms; the rest
\* of connectDevice and of its caller.  A Dobot firmware gets its protocols.
ConnectReturns(c) ==
    /\ probing = c
    /\ \/ open /\ present /\ UNCHANGED worker
       \/ worker' = TRUE
    /\ isConnected' = TRUE
    /\ isConnecting' = FALSE
    /\ status' = "CONNECTED"
    /\ Answer(c)
    /\ probing' = NoCall
    /\ UNCHANGED <<present, open, keepAlive, called>>

\* MessageHandler::disconnectDevice; m_isConnecting stays as it is.
DisconnectHandler ==
    /\ open' = FALSE
    /\ keepAlive' = FALSE
    /\ worker' = FALSE
    /\ isConnected' = FALSE

\* MagicDevice::disConnectDevice
DisConnectDevice ==
    /\ status' = "UNCONNECTED"
    /\ DisconnectHandler
    /\ UNCHANGED <<present, isConnecting, probing, called, answers>>

\* MUTANT of KeepAliveTimeout: the loss is reported and nothing done.
KeepAliveTimeoutReports ==
    /\ keepAlive
    /\ ~present
    /\ UNCHANGED vars

\* The keep-alive timer does not find the port in the system's list.
KeepAliveTimeout ==
    /\ keepAlive
    /\ ~present
    /\ DisconnectHandler
    /\ UNCHANGED <<present, isConnecting, status, probing, called, answers>>

\* MUTANT of ResourceError: the port is not closed.
ResourceErrorOpen ==
    /\ open
    /\ ~present
    /\ isConnected' = FALSE
    /\ UNCHANGED <<present, open, keepAlive, isConnecting, worker, status, probing,
                   called, answers>>

\* QSerialPort::ResourceError, raised by an unplugged port.
ResourceError ==
    /\ open
    /\ ~present
    /\ isConnected' = FALSE
    /\ open' = FALSE
    /\ UNCHANGED <<present, keepAlive, isConnecting, worker, status, probing,
                   called, answers>>

\* The environment.
Plug ==
    /\ present' = ~present
    /\ UNCHANGED <<open, keepAlive, isConnecting, isConnected, worker, status,
                   probing, called, answers>>

Next ==
    \/ \E c \in Calls : ConnectFails(c) \/ ConnectOpens(c) \/ ConnectReturns(c)
    \/ DisConnectDevice
    \/ KeepAliveTimeout
    \/ ResourceError
    \/ Plug

Spec == Init /\ [][Next]_vars

\* The 100 ms timer ends the loop; the 500 ms timer looks at the ports.
Fairness ==
    /\ \A c \in Calls : WF_vars(ConnectReturns(c))
    /\ WF_vars(KeepAliveTimeout)

FairSpec == Spec /\ Fairness

-----------------------------------------------------------------------------
TypeOK ==
    /\ present \in BOOLEAN
    /\ open \in BOOLEAN
    /\ keepAlive \in BOOLEAN
    /\ isConnecting \in BOOLEAN
    /\ isConnected \in BOOLEAN
    /\ worker \in BOOLEAN
    /\ status \in {"UNCONNECTED", "CONNECTED"}
    /\ probing \in Calls \cup {NoCall}
    /\ called \in SUBSET Calls
    /\ answers \in [Calls -> Nat]

\* m_isConnecting is set exactly while a call is inside the event loop, and
\* that call is the only one not answered yet: no error path leaves the flag
\* behind (every later connect would fail), and none answers a call twice.
OneProbe ==
    /\ isConnecting <=> probing # NoCall
    /\ \A c \in called : answers[c] = IF c = probing THEN 0 ELSE 1

\* An open port belongs to a connection or to a connect under way, and the
\* keep-alive timer watches it: no interleaving of unplugging, errors and
\* requests leaves the port held by a handler that takes itself for closed.
OpenIsOwned == open => (isConnected \/ isConnecting) /\ keepAlive

\* A handler that takes itself for connected to an open port that is unplugged
\* and stays so notices it.
UnplugNoticed == (isConnected /\ open /\ ~present) ~> (~isConnected \/ present)

\* MagicDevice::getConnectStatus tests m_isConnected because "when the serial
\* port is pulled out m_status cannot be told": "connected" means a port.
ConnectStatus == IF ~isConnected THEN "UNCONNECTED" ELSE status
StatusTruthful == ConnectStatus = "CONNECTED" => open
=============================================================================
