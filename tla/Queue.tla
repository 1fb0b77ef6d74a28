-------------------------------- MODULE Queue --------------------------------
(***************************************************************************)
(* nuhal_all/src/queue.c: the lock-free circular buffer between one        *)
(* producer thread and one consumer thread.  A step is one access to       *)
(* memory the other thread can see: the read of the other side's index in  *)
(* the full or empty test, one byte of a copy, one atomic increment.       *)
(*                                                                         *)
(* The two indices run freely modulo IndexMod (2^32 in the code) and are   *)
(* reduced to a slot only when used; capacity - 1 as a bit mask is modelled *)
(* as the remainder, which module QueueIndex checks.  error() never        *)
(* returns, so a thread that calls it takes no further step.               *)
(***************************************************************************)
EXTENDS Integers, Sequences

CONSTANTS Capacity,    \* slots in the buffer
          IndexMod,    \* the indices wrap at this value
          ItemSize,    \* bytes in an item
          Byte,        \* the values a byte takes
          Items,       \* the items the producer may push
          Garbage,     \* what a slot or out may hold before it is written
          PushOps,     \* the entry points the producer calls
          PopOps,      \* the entry points the consumer calls
          NoItem       \* not an item

Offsets == 0 .. ItemSize - 1
Item == [Offsets -> Byte]
Kinds == {"nonblock", "error", "block", "timed"}

ASSUME CapacityAssumption == Capacity \in Nat /\ Capacity > 1
ASSUME IndexAssumption ==
    IndexMod \in Nat /\ \E laps \in 1 .. IndexMod : IndexMod = Capacity * laps
ASSUME ItemAssumption == ItemSize \in Nat /\ Items \subseteq Item
ASSUME GarbageAssumption == Garbage \subseteq Item
ASSUME OpsAssumption == PushOps \subseteq Kinds /\ PopOps \subseteq Kinds

VARIABLES data,         \* the slots, each a function from offsets to bytes
          write_index,  \* free-running count of pushes
          read_index,   \* free-running count of pops
          pushPc,       \* where the producer is: "idle", "check", "copy", "error"
          pushOp,       \* the entry point it is in
          item,         \* what its argument points to
          pushAt,       \* the i of its copy loop
          pushReply,    \* "none", or what its latest call returned
          popPc,        \* where the consumer is
          popOp,        \* the entry point it is in
          wantOut,      \* FALSE when its argument out is NULL
          out,          \* what its argument out points to
          popAt,        \* the i of its copy loop
          popReply      \* "none", or what its latest call returned

producer == <<pushPc, pushOp, item, pushAt, pushReply>>
consumer == <<popPc, popOp, wantOut, out, popAt, popReply>>
vars == <<data, write_index, read_index, producer, consumer>>

Slots == 0 .. Capacity - 1
Indices == 0 .. IndexMod - 1
Pcs == {"idle", "check", "copy", "error"}
Replies == {"none", "true", "false"}

queue_index(curr) == curr % Capacity

Increment(index) == (index + 1) % IndexMod

(* Mutant: the full test compares the indices without masking them.        *)
FullUnmasked == Increment(write_index) = read_index
queue_is_full ==
    queue_index(Increment(write_index)) = queue_index(read_index)

(* Mutant: the empty test counts the increment, as the full test does.     *)
EmptyOffByOne == queue_index(Increment(read_index)) = queue_index(write_index)
queue_is_empty == queue_index(read_index) = queue_index(write_index)

Init ==
    /\ data \in [Slots -> Garbage]
    /\ write_index = 0 /\ read_index = 0
    /\ pushPc = "idle" /\ pushOp = "nonblock" /\ item \in Items
    /\ pushAt = 0 /\ pushReply = "none"
    /\ popPc = "idle" /\ popOp = "nonblock" /\ wantOut = TRUE
    /\ out \in Garbage /\ popAt = 0 /\ popReply = "none"

------------------------------------------------------------------------------
(* The producer.                                                           *)

CallPush(op, x) ==
    /\ pushPc = "idle"
    /\ pushPc' = "check" /\ pushOp' = op /\ item' = x /\ pushReply' = "none"
    /\ UNCHANGED <<data, write_index, read_index, pushAt, consumer>>

(* The loop condition of push_block finds the timeout elapsed; a late      *)
(* poller meets this even with space on the queue.                         *)
PushTimeout ==
    /\ pushPc = "check" /\ pushOp = "timed"
    /\ pushPc' = "error"
    /\ UNCHANGED <<data, write_index, read_index, pushOp, item, pushAt,
                   pushReply, consumer>>

(* The queue is full: try again, return false, or stop in error().         *)
PushFull ==
    /\ pushPc = "check" /\ queue_is_full
    /\ \/ pushOp \in {"block", "timed"} /\ UNCHANGED <<pushPc, pushReply>>
       \/ pushOp = "nonblock" /\ pushPc' = "idle" /\ pushReply' = "false"
       \/ pushOp = "error" /\ pushPc' = "error" /\ UNCHANGED pushReply
    /\ UNCHANGED <<data, write_index, read_index, pushOp, item, pushAt,
                   consumer>>

PushSpace ==
    /\ pushPc = "check" /\ ~queue_is_full
    /\ pushPc' = "copy" /\ pushAt' = 0
    /\ UNCHANGED <<data, write_index, read_index, pushOp, item, pushReply,
                   consumer>>

PushByte ==
    /\ pushPc = "copy" /\ pushAt # ItemSize
    /\ data' = [data EXCEPT ![queue_index(write_index)] =
                    [@ EXCEPT ![pushAt] = item[pushAt]]]
    /\ pushAt' = pushAt + 1
    /\ UNCHANGED <<write_index, read_index, pushPc, pushOp, item, pushReply,
                   consumer>>

(* Mutant: the item is published before its last byte is copied.           *)
PublishEarly ==
    /\ pushPc = "copy" /\ pushAt = ItemSize - 1
    /\ write_index' = Increment(write_index)
    /\ pushPc' = "idle" /\ pushReply' = "true" /\ pushAt' = 0
    /\ UNCHANGED <<data, read_index, pushOp, item, consumer>>

PushPublish ==
    /\ pushPc = "copy" /\ pushAt = ItemSize
    /\ write_index' = Increment(write_index)
    /\ pushPc' = "idle" /\ pushReply' = "true" /\ pushAt' = 0
    /\ UNCHANGED <<data, read_index, pushOp, item, consumer>>

PushStep == PushTimeout \/ PushFull \/ PushSpace \/ PushByte \/ PushPublish

------------------------------------------------------------------------------
(* The consumer.                                                           *)

CallPop(op, want) ==
    /\ popPc = "idle"
    /\ popPc' = "check" /\ popOp' = op /\ wantOut' = want /\ popReply' = "none"
    /\ UNCHANGED <<data, write_index, read_index, out, popAt, producer>>

PopTimeout ==
    /\ popPc = "check" /\ popOp = "timed"
    /\ popPc' = "error"
    /\ UNCHANGED <<data, write_index, read_index, popOp, wantOut, out, popAt,
                   popReply, producer>>

PopEmpty ==
    /\ popPc = "check" /\ queue_is_empty
    /\ \/ popOp \in {"block", "timed"} /\ UNCHANGED <<popPc, popReply>>
       \/ popOp = "nonblock" /\ popPc' = "idle" /\ popReply' = "false"
       \/ popOp = "error" /\ popPc' = "error" /\ UNCHANGED popReply
    /\ UNCHANGED <<data, write_index, read_index, popOp, wantOut, out, popAt,
                   producer>>

PopItem ==
    /\ popPc = "check" /\ ~queue_is_empty
    /\ popPc' = "copy" /\ popAt' = 0
    /\ UNCHANGED <<data, write_index, read_index, popOp, wantOut, out,
                   popReply, producer>>

PopByte ==
    /\ popPc = "copy" /\ wantOut /\ popAt # ItemSize
    /\ out' = [out EXCEPT ![popAt] = data[queue_index(read_index)][popAt]]
    /\ popAt' = popAt + 1
    /\ UNCHANGED <<data, write_index, read_index, popPc, popOp, wantOut,
                   popReply, producer>>

(* Mutant: a pop without an out leaves the item on the queue.              *)
PopKeepsUnwanted ==
    /\ popPc = "copy" /\ (wantOut => popAt = ItemSize)
    /\ read_index' = IF wantOut THEN Increment(read_index) ELSE read_index
    /\ popPc' = "idle" /\ popReply' = "true" /\ popAt' = 0
    /\ UNCHANGED <<data, write_index, popOp, wantOut, out, producer>>

(* The copy is done, or out is NULL and nothing is copied.                 *)
PopAdvance ==
    /\ popPc = "copy" /\ (wantOut => popAt = ItemSize)
    /\ read_index' = Increment(read_index)
    /\ popPc' = "idle" /\ popReply' = "true" /\ popAt' = 0
    /\ UNCHANGED <<data, write_index, popOp, wantOut, out, producer>>

PopStep == PopTimeout \/ PopEmpty \/ PopItem \/ PopByte \/ PopAdvance

------------------------------------------------------------------------------
Next ==
    \/ \E op \in PushOps, x \in Items : CallPush(op, x)
    \/ PushStep
    \/ \E op \in PopOps, want \in BOOLEAN : CallPop(op, want)
    \/ PopStep

Spec == Init /\ [][Next]_vars

(* The two threads of queue_concurrent_test.cpp: both are scheduled, and   *)
(* the consumer always comes back for more.                                *)
FairSpec ==
    /\ Spec
    /\ WF_vars(PushStep) /\ WF_vars(PopStep)
    /\ WF_vars(\E op \in PopOps, want \in BOOLEAN : CallPop(op, want))

------------------------------------------------------------------------------
(* Every variable stays in its C type, offsets within the item.            *)
TypeOK ==
    /\ data \in [Slots -> Item]
    /\ write_index \in Indices /\ read_index \in Indices
    /\ pushPc \in Pcs /\ pushOp \in Kinds /\ item \in Items
    /\ pushAt \in 0 .. ItemSize /\ pushReply \in Replies
    /\ popPc \in Pcs /\ popOp \in Kinds /\ wantOut \in BOOLEAN
    /\ out \in Item /\ popAt \in 0 .. ItemSize /\ popReply \in Replies

(* The items on the queue, from the two free-running indices.              *)
Count == (write_index - read_index) % IndexMod

(* One slot always stays unused, across index wrap-around, and a thread    *)
(* that has passed its test keeps the room or the item it found however    *)
(* far the other one has moved since.                                      *)
RoomKept ==
    /\ Count <= Capacity - 1
    /\ pushPc = "copy" => Count <= Capacity - 2
    /\ popPc = "copy" => Count >= 1

(* The two threads never copy into and out of one slot at the same time.   *)
NoSharedSlot ==
    pushPc = "copy" /\ popPc = "copy" =>
        queue_index(write_index) # queue_index(read_index)

(* The bytes a pop has copied are those of the item at the head, and the   *)
(* bytes a push has copied are those of its item: no torn item.            *)
NoTornItem ==
    /\ popPc = "copy" /\ wantOut =>
        \A i \in 0 .. popAt - 1 : out[i] = data[queue_index(read_index)][i]
    /\ pushPc = "copy" =>
        \A i \in 0 .. pushAt - 1 : data[queue_index(write_index)][i] = item[i]

------------------------------------------------------------------------------
(* The queue seen as a bounded FIFO: an item is in it from the increment   *)
(* of write_index to that of read_index, and a call is under way until it  *)
(* returns or stops in error().                                            *)
Contents == [k \in 1 .. Count |-> data[queue_index(read_index + k - 1)]]

Call(pc, op) == IF pc = "idle" THEN "no" ELSE IF pc = "error" THEN "failed" ELSE op

HandedOver ==
    IF popPc = "idle" /\ popReply = "true" /\ wantOut THEN out ELSE NoItem

Fifo == INSTANCE QueueFifo WITH
    Bound <- Capacity - 1,
    fifo <- Contents,
    pushing <- Call(pushPc, pushOp),
    pushed <- item,
    popping <- Call(popPc, popOp),
    wanted <- wantOut,
    got <- HandedOver

(* Every behaviour of the two threads is one of the FIFO: nothing lost,    *)
(* duplicated, reordered or altered, a push refused only when full and a   *)
(* pop only when empty.                                                    *)
ImplementsFifo == Fifo!Spec

(* queue_push_block with no timeout returns once the consumer keeps        *)
(* popping.                                                                *)
PushReturns == pushPc # "idle" ~> pushPc = "idle"

(* The consumer catches up with every value write_index has taken: all     *)
(* that was pushed is popped.                                              *)
ConsumerCatchesUp == \A i \in Indices : write_index = i ~> read_index = i
==============================================================================
