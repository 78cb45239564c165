-------------------------- MODULE MCDMessageCenter --------------------------
(***************************************************************************)
(* Routing: sessions 1 and 2 overlap and use the same ids, session 3 has   *)
(* the port of session 1 again.  Liveness: one session with a request of   *)
(* each kind that waits for somebody.  Two version requests at a time.     *)
(***************************************************************************)
EXTENDS DMessageCenter

Three == 1..3
ThreePorts == <<5001, 5002, 5001>>

RouteReqs == 1..4
RouteClientOf == <<1, 2, 3, 3>>
RouteSrcId == <<7, 7, NoId, 8>>
RouteKinds == <<"connect", "download", "connect", "garbage">>

One == {1}
OnePort == <<5001>>

LiveReqs == 1..4
LiveClientOf == <<1, 1, 1, 1>>
LiveSrcId == <<1, 2, 3, 4>>
LiveKinds == <<"connect", "command", "disconnect", "version">>

Two == 1..2
TwoPorts == <<5001, 5002>>

AskReqs == 1..3
AskClientOf == <<1, 2, 1>>
AskSrcId == <<1, 1, 2>>
AskKinds == <<"version", "version", "api">>
=============================================================================
