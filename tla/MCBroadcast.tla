---------------------------- MODULE MCBroadcast ----------------------------
(* Constant values for checking Broadcast with TLC. *)
EXTENDS Broadcast

None == [e \in Events |-> 0]
FaultAndCrash == [e \in Events |-> 1]
=============================================================================
