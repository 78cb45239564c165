------------------------------ MODULE MCP2Link ------------------------------
(***************************************************************************)
(* Two calls of one command and a third call of another.                  *)
(***************************************************************************)
EXTENDS P2Link

MCReqs == 1..3
MCKeys == {"pose", "ptp"}
MCKeyOf == <<"ptp", "ptp", "pose">>
MCKind == <<"ask", "ask", "ask">>
=============================================================================
