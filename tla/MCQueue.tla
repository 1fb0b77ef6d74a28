------------------------------ MODULE MCQueue --------------------------------
(* Constants for the model checker: two-byte items whose bytes agree, so   *)
(* that a mixture of two items is never itself an item.                    *)
EXTENDS Queue

MCItemSize == 2
MCByte == {0, 1}
MCItems == {[b \in 0 .. 1 |-> v] : v \in MCByte}
MCGarbage == {[b \in 0 .. 1 |-> b]}
AllOps == {"nonblock", "error", "block", "timed"}
BlockOnly == {"block"}
==============================================================================
