------------------------------ MODULE MCPusher ------------------------------
(***************************************************************************)
(* Pusher for TLC.                                                         *)
(***************************************************************************)
EXTENDS Pusher

BothPolicies == {"drop_oldest", "stop"}
=============================================================================
