------------------------------ MODULE QueueFifo ------------------------------
(***************************************************************************)
(* What nuhal/queue.h promises its two users: a bounded first-in first-out *)
(* queue between one producer and one consumer.  A call is a request, one  *)
(* atomic step at which it takes effect, and a reply.                      *)
(***************************************************************************)
EXTENDS Naturals, Sequences

CONSTANTS Bound,       \* the items the queue holds: its capacity less one
          Items,       \* the values that can be pushed
          NoItem       \* the consumer holds no item

VARIABLES fifo,        \* the items pushed and not yet popped
          pushing,     \* "no", "failed", or the kind of push in progress
          pushed,      \* the item of the producer's latest call
          pushReply,   \* the reply to it: "none", "true" or "false"
          popping,     \* "no", "failed", or the kind of pop in progress
          wanted,      \* does the latest pop want the item or discard it
          popReply,    \* the reply to it: "none", "true" or "false"
          got          \* the item the latest pop handed over

producer == <<pushing, pushed, pushReply>>
consumer == <<popping, wanted, popReply, got>>
vars == <<fifo, producer, consumer>>

Kinds == {"nonblock", "error", "block", "timed"}

Init ==
    /\ fifo = <<>>
    /\ pushing = "no" /\ pushed \in Items /\ pushReply = "none"
    /\ popping = "no" /\ wanted = TRUE /\ popReply = "none" /\ got = NoItem

AskPush(kind, x) ==
    /\ pushing = "no"
    /\ pushing' = kind /\ pushed' = x /\ pushReply' = "none"
    /\ UNCHANGED <<fifo, consumer>>

DoPush ==
    /\ pushing \in Kinds
    /\ Len(fifo) < Bound
    /\ fifo' = Append(fifo, pushed)
    /\ pushing' = "no" /\ pushReply' = "true"
    /\ UNCHANGED <<pushed, consumer>>

(* Only a non-blocking push may come back empty-handed, and only from a    *)
(* full queue.                                                             *)
RejectPush ==
    /\ pushing = "nonblock"
    /\ Len(fifo) = Bound
    /\ pushing' = "no" /\ pushReply' = "false"
    /\ UNCHANGED <<fifo, pushed, consumer>>

(* The fatal outcomes: a full queue for push_error, time for push_block.   *)
FailPush ==
    /\ \/ pushing = "error" /\ Len(fifo) = Bound
       \/ pushing = "timed"
    /\ pushing' = "failed"
    /\ UNCHANGED <<fifo, pushed, pushReply, consumer>>

AskPop(kind, want) ==
    /\ popping = "no"
    /\ popping' = kind /\ wanted' = want /\ popReply' = "none" /\ got' = NoItem
    /\ UNCHANGED <<fifo, producer>>

DoPop ==
    /\ popping \in Kinds
    /\ fifo # <<>>
    /\ fifo' = Tail(fifo)
    /\ popping' = "no" /\ popReply' = "true"
    /\ got' = IF wanted THEN Head(fifo) ELSE NoItem
    /\ UNCHANGED <<wanted, producer>>

RejectPop ==
    /\ popping = "nonblock"
    /\ fifo = <<>>
    /\ popping' = "no" /\ popReply' = "false"
    /\ UNCHANGED <<fifo, wanted, got, producer>>

FailPop ==
    /\ \/ popping = "error" /\ fifo = <<>>
       \/ popping = "timed"
    /\ popping' = "failed"
    /\ UNCHANGED <<fifo, wanted, popReply, got, producer>>

Next ==
    \/ \E kind \in Kinds, x \in Items : AskPush(kind, x)
    \/ DoPush \/ RejectPush \/ FailPush
    \/ \E kind \in Kinds, want \in BOOLEAN : AskPop(kind, want)
    \/ DoPop \/ RejectPop \/ FailPop

Spec == Init /\ [][Next]_vars
==============================================================================
