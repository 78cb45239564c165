---------------------------- MODULE MCDProtocol2 ----------------------------
(***************************************************************************)
(* Four calls on two keys: three that want a reply, two of them with the   *)
(* same key, and one that is sent at once.                                 *)
(***************************************************************************)
EXTENDS DProtocol2

MCReqs == 1..4
MCKeys == {"pose", "ptp"}
MCKeyOf == <<"pose", "ptp", "ptp", "ptp">>
MCKind == <<"ask", "ask", "ask", "tell">>
=============================================================================
