----------------------------- MODULE MCBroadcast -----------------------------
(* Constants for checking Broadcast.                                         *)
EXTENDS Broadcast

MCResponseLength == [p \in 1 .. NumPorts |-> IF p = 1 THEN 3 ELSE 6]
==============================================================================
