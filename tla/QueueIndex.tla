----------------------------- MODULE QueueIndex ------------------------------
(***************************************************************************)
(* The word arithmetic of nuhal_all/src/queue.c that module Queue takes as *)
(* the remainder: queue_init's test for a power of two and the masking of  *)
(* free-running Width-bit indices (32 bits in the code).                   *)
(***************************************************************************)
EXTENDS Integers

CONSTANTS Width,                   \* bits in a word
          Weight                   \* of each bit: 1, 2, 4 and so on

ASSUME WidthAssumption == Width \in Nat \ {0}

ASSUME WeightAssumption ==
    /\ Weight \in [0 .. Width -> Nat] /\ Weight[0] = 1
    /\ \A i \in 0 .. Width - 1 : Weight[i + 1] = 2 * Weight[i]

WordMod == Weight[Width]
Words == 0 .. WordMod - 1

(* The operator & of C: the word that has the bits both have.              *)
Bit(word, i) == (word \div Weight[i]) % 2
And(a, b) ==
    CHOOSE word \in Words :
        \A i \in 0 .. Width - 1 : Bit(word, i) = 1 <=> Bit(a, i) = 1 /\ Bit(b, i) = 1

VARIABLES capacity,                \* the argument of queue_init
          status,                  \* "new", "ready", or "error" after error()
          mask, write_index, read_index

qi_vars == <<capacity, status, mask, write_index, read_index>>

queue_index(curr) == And(curr, mask)
Increment(index) == (index + 1) % WordMod

PowerOfTwo(n) == And((n - 1) % WordMod, n) = 0

(* Mutants: queue_init without one of its two tests.                       *)
AcceptsZeroAndOne(n) == PowerOfTwo(n)
AcceptsAnySize(n) == n > 1

Accepted(n) == PowerOfTwo(n) /\ n > 1

queue_is_full ==
    queue_index(Increment(write_index)) = queue_index(read_index)
queue_is_empty == queue_index(read_index) = queue_index(write_index)

QiInit ==
    /\ capacity \in Words /\ status = "new"
    /\ mask = 0 /\ write_index = 0 /\ read_index = 0

queue_init ==
    /\ status = "new"
    /\ IF Accepted(capacity)
       THEN status' = "ready" /\ mask' = capacity - 1
       ELSE status' = "error" /\ UNCHANGED mask
    /\ UNCHANGED <<capacity, write_index, read_index>>

Push ==
    /\ status = "ready" /\ ~queue_is_full
    /\ write_index' = Increment(write_index)
    /\ UNCHANGED <<capacity, status, mask, read_index>>

Pop ==
    /\ status = "ready" /\ ~queue_is_empty
    /\ read_index' = Increment(read_index)
    /\ UNCHANGED <<capacity, status, mask, write_index>>

QiNext == queue_init \/ Push \/ Pop

QiSpec == QiInit /\ [][QiNext]_qi_vars

------------------------------------------------------------------------------
(* queue_init lets through exactly the powers of two above one, whatever   *)
(* the word: 0 - 1 wraps to all ones, and 0 would pass the first test.     *)
AcceptsPowersOfTwo ==
    /\ status = "ready" => \E k \in 1 .. Width - 1 : capacity = Weight[k]
    /\ status = "error" => ~ \E k \in 1 .. Width - 1 : capacity = Weight[k]

(* Successive pushes and pops walk the slots in order, round and round,    *)
(* with no jump where the free-running index wraps.                        *)
SlotsInOrder ==
    [][ /\ write_index' # write_index =>
             queue_index(write_index)' = (queue_index(write_index) + 1) % capacity
        /\ read_index' # read_index =>
             queue_index(read_index)' = (queue_index(read_index) + 1) % capacity
      ]_qi_vars
==============================================================================
