---------------------------- MODULE MCMagicDevice ----------------------------
(***************************************************************************)
(* Two motions, one behind the other, and a tell, under every fault.       *)
(***************************************************************************)
EXTENDS MagicDevice

Three == 1..3
MotionsAndTell == <<"action", "action", "tell">>

AllFaults == {"loss", "refusal", "unplug", "offline", "stray"}
=============================================================================
