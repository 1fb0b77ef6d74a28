----------------------------- MODULE QueueProofs -----------------------------
(***************************************************************************)
(* Proofs about Queue for every capacity, index width, item size and set   *)
(* of calls: the inductive invariant behind the lock-free protocol, and    *)
(* the refinement of the bounded FIFO.                                     *)
(***************************************************************************)
EXTENDS Queue, SequenceTheorems, TLAPS

------------------------------------------------------------------------------
(* Remainders by a number that is not fixed.                               *)

(* Quotient and remainder recompose the dividend.                          *)
LEMMA DivMod ==
    ASSUME NEW c \in Nat, c > 0, NEW i \in Int
    PROVE  /\ i % c \in 0 .. c - 1
           /\ i \div c \in Int
           /\ i = c * (i \div c) + (i % c)
BY SMT

(* A decomposition with a small remainder is the one % computes.           *)
LEMMA ModUnique ==
    ASSUME NEW c \in Nat, c > 0, NEW i \in Int, NEW q \in Int,
           NEW r \in 0 .. c - 1, i = c * q + r
    PROVE  i % c = r
BY SMT

(* Whole multiples of the modulus do not change a remainder.               *)
LEMMA ModShift ==
    ASSUME NEW c \in Nat, c > 0, NEW i \in Int, NEW j \in Int, NEW q \in Int,
           j = i + c * q
    PROVE  j % c = i % c
<1> DEFINE p == i \div c
           r == i % c
           s == p + q
<1>1. p \in Int /\ r \in 0 .. c - 1 /\ i = c * p + r
  BY DivMod
<1>2. s \in Int /\ s = p + q
  BY <1>1
<1> HIDE DEF p, r, s
<1>3. j = c * s + r
  BY <1>1, <1>2
<1>4. j % c = r
  BY <1>1, <1>2, <1>3, ModUnique
<1> QED
  BY <1>4 DEF r

(* Numbers less than a modulus apart have different remainders.            *)
LEMMA ModDistinct ==
    ASSUME NEW c \in Nat, c > 0, NEW i \in Int, NEW j \in Int,
           i < j, j < i + c
    PROVE  j % c # i % c
<1> DEFINE p == i \div c
           r == i % c
           q == j \div c
<1> SUFFICES ASSUME j % c = r PROVE FALSE
  OBVIOUS
<1>1. p \in Int /\ r \in 0 .. c - 1 /\ i = c * p + r
  BY DivMod
<1>2. q \in Int /\ j = c * q + r
  BY DivMod
<1> HIDE DEF p, q, r
<1>3. CASE q <= p
  <2>1. c * q <= c * p
    BY <1>1, <1>2, <1>3
  <2> QED
    BY <1>1, <1>2, <2>1
<1>4. CASE q >= p + 1
  <2>1. c * q >= c * p + c
    BY <1>1, <1>2, <1>4
  <2> QED
    BY <1>1, <1>2, <2>1
<1> QED
  BY <1>1, <1>2, <1>3, <1>4

(* Equal remainders differ by whole multiples.                             *)
LEMMA ModSame ==
    ASSUME NEW c \in Nat, c > 0, NEW i \in Int, NEW j \in Int, i % c = j % c
    PROVE  \E q \in Int : j = i + c * q
<1> DEFINE p == i \div c
           q == j \div c
           r == i % c
<1>1. p \in Int /\ r \in Int /\ i = c * p + r
  BY DivMod
<1>2. q \in Int /\ j = c * q + r
  BY DivMod
<1> HIDE DEF p, q, r
<1>3. j = i + c * (q - p)
  BY <1>1, <1>2
<1>4. q - p \in Int
  BY <1>1, <1>2
<1> QED
  BY <1>3, <1>4

------------------------------------------------------------------------------
(* The free-running indices.                                               *)

(* The index width is at least one lap of the buffer.                      *)
LEMMA Widths ==
    /\ Capacity \in Nat /\ Capacity > 1 /\ Capacity > 0
    /\ IndexMod \in Nat /\ IndexMod >= Capacity /\ IndexMod > 0
<1>1. PICK laps \in 1 .. IndexMod : IndexMod = Capacity * laps
  BY IndexAssumption
<1>2. Capacity * laps >= Capacity
  BY <1>1, CapacityAssumption, IndexAssumption
<1> QED
  BY <1>1, <1>2, CapacityAssumption, IndexAssumption

(* Numbers equal modulo the index width lie in the same slot.              *)
LEMMA WidthIsLaps ==
    ASSUME NEW i \in Int, NEW j \in Int, NEW q \in Int, j = i + IndexMod * q
    PROVE  j % Capacity = i % Capacity
<1>1. PICK laps \in 1 .. IndexMod : IndexMod = Capacity * laps
  BY IndexAssumption
<1> DEFINE m == laps * q
<1>2. m \in Int
  BY <1>1, Widths
<1>3. IndexMod * q = Capacity * m
  BY <1>1, Widths
<1> HIDE DEF m
<1>4. j = i + Capacity * m
  BY <1>3
<1> QED
  BY <1>2, <1>4, Widths, ModShift

(* The write slot lies Count slots beyond the read slot.                   *)
LEMMA WriteSlot ==
    ASSUME write_index \in Indices, read_index \in Indices
    PROVE  /\ write_index \in Int /\ read_index \in Int
           /\ Count \in 0 .. IndexMod - 1
           /\ write_index % Capacity = (read_index + Count) % Capacity
<1>1. write_index \in Int /\ read_index \in Int
  BY Widths DEF Indices
<1> DEFINE q == (write_index - read_index) \div IndexMod
           i == read_index + Count
<1>2. /\ Count \in 0 .. IndexMod - 1 /\ q \in Int
      /\ write_index - read_index = IndexMod * q + Count
  BY <1>1, DivMod, Widths DEF Count
<1> HIDE DEF q
<1>3. i \in Int /\ write_index = i + IndexMod * q
  BY <1>1, <1>2, Widths
<1> HIDE DEF i
<1>4. write_index % Capacity = i % Capacity
  BY <1>1, <1>2, <1>3, WidthIsLaps
<1> QED
  BY <1>1, <1>2, <1>4 DEF i

(* The empty test is exact.                                                *)
LEMMA EmptyTest ==
    ASSUME write_index \in Indices, read_index \in Indices,
           Count <= Capacity - 1
    PROVE  queue_is_empty <=> Count = 0
<1>1. read_index \in Int /\ Count \in 0 .. Capacity - 1
  BY Widths, WriteSlot
<1>2. CASE Count = 0
  BY <1>1, <1>2, WriteSlot DEF queue_is_empty, queue_index
<1>3. CASE Count # 0
  <2>1. (read_index + Count) % Capacity # read_index % Capacity
    BY <1>1, <1>3, Widths, ModDistinct
  <2> QED
    BY <2>1, <1>3, WriteSlot DEF queue_is_empty, queue_index
<1> QED
  BY <1>2, <1>3

(* An index may be reduced to a slot before or after it wraps.             *)
LEMMA SlotOfNext ==
    ASSUME NEW i \in Int
    PROVE  Increment(i) % Capacity = (i + 1) % Capacity
<1> DEFINE v == Increment(i)
           p == (i + 1) \div IndexMod
<1>1. v \in Int /\ p \in Int /\ i + 1 = v + IndexMod * p
  BY DivMod, Widths DEF Increment
<1> HIDE DEF v, p
<1>2. i + 1 \in Int
  OBVIOUS
<1>3. (i + 1) % Capacity = v % Capacity
  BY <1>1, <1>2, WidthIsLaps
<1> QED
  BY <1>3 DEF v

(* The slot after the write slot lies Count + 1 beyond the read slot.      *)
LEMMA NextWriteSlot ==
    ASSUME write_index \in Indices, read_index \in Indices
    PROVE  Increment(write_index) % Capacity
             = (read_index + Count + 1) % Capacity
<1> DEFINE i == read_index + Count
           j == i + 1
           k == write_index + 1
<1>1. /\ write_index \in Int /\ i \in Int /\ j \in Int /\ k \in Int
      /\ i % Capacity = write_index % Capacity
  BY WriteSlot
<1>2. PICK q \in Int : write_index = i + Capacity * q
  BY <1>1, Widths, ModSame
<1>3. k = j + Capacity * q
  BY <1>1, <1>2, Widths
<1>4. k % Capacity = j % Capacity
  BY <1>1, <1>3, Widths, ModShift
<1> QED
  BY <1>1, <1>4, SlotOfNext

(* The full test is exact: it holds with one slot unused, and only then.   *)
LEMMA FullTest ==
    ASSUME write_index \in Indices, read_index \in Indices,
           Count <= Capacity - 1
    PROVE  queue_is_full <=> Count = Capacity - 1
<1> DEFINE j == read_index + Count + 1
<1>1. /\ read_index \in Int /\ Count \in 0 .. Capacity - 1 /\ j \in Int
      /\ read_index < j
  BY Widths, WriteSlot
<1>2. queue_is_full <=> j % Capacity = read_index % Capacity
  BY NextWriteSlot DEF queue_is_full, queue_index
<1>3. CASE Count = Capacity - 1
  <2>1. PICK q \in Int : j = read_index + Capacity * q
    <3>1. j = read_index + Capacity * 1
      BY <1>1, <1>3, Widths
    <3> QED
      BY <3>1
  <2> HIDE DEF j
  <2>2. j % Capacity = read_index % Capacity
    BY <1>1, <2>1, Widths, ModShift
  <2> QED
    BY <1>2, <1>3, <2>2
<1>4. CASE Count # Capacity - 1
  <2>1. j < read_index + Capacity
    BY <1>1, <1>4, Widths
  <2> HIDE DEF j
  <2>2. j % Capacity # read_index % Capacity
    BY <1>1, <2>1, Widths, ModDistinct
  <2> QED
    BY <1>2, <1>4, <2>2
<1> QED
  BY <1>3, <1>4

(* Advancing the write index adds one item, wrap or not.                   *)
LEMMA CountAfterPush ==
    ASSUME NEW w \in Indices, NEW r \in Indices,
           (w - r) % IndexMod <= Capacity - 2
    PROVE  /\ Increment(w) \in Indices
           /\ (Increment(w) - r) % IndexMod = ((w - r) % IndexMod) + 1
<1> DEFINE n == (w - r) % IndexMod
           q == (w - r) \div IndexMod
           p == (w + 1) \div IndexMod
           v == Increment(w)
           s == q - p
           d == v - r
           m == n + 1
<1>1. w \in Int /\ r \in Int
  BY Widths DEF Indices
<1>2. n \in 0 .. IndexMod - 1 /\ q \in Int /\ w - r = IndexMod * q + n
  BY <1>1, DivMod, Widths
<1>3. v \in 0 .. IndexMod - 1 /\ p \in Int /\ w + 1 = IndexMod * p + v
  BY <1>1, DivMod, Widths DEF Increment
<1>4. n <= Capacity - 2
  OBVIOUS
<1> HIDE DEF n, q, p, v
<1>5. /\ s \in Int /\ d \in Int /\ m \in 0 .. IndexMod - 1
      /\ d = IndexMod * s + m
  BY <1>1, <1>2, <1>3, <1>4, Widths
<1> HIDE DEF s, d, m
<1>6. d % IndexMod = m
  BY <1>5, Widths, ModUnique
<1> QED
  BY <1>3, <1>6 DEF n, v, d, m, Indices

(* Advancing the read index removes one item, wrap or not.                 *)
LEMMA CountAfterPop ==
    ASSUME NEW w \in Indices, NEW r \in Indices, (w - r) % IndexMod >= 1
    PROVE  /\ Increment(r) \in Indices
           /\ (w - Increment(r)) % IndexMod = ((w - r) % IndexMod) - 1
<1> DEFINE n == (w - r) % IndexMod
           q == (w - r) \div IndexMod
           p == (r + 1) \div IndexMod
           v == Increment(r)
           s == q + p
           d == w - v
           m == n - 1
<1>1. w \in Int /\ r \in Int
  BY Widths DEF Indices
<1>2. n \in 0 .. IndexMod - 1 /\ q \in Int /\ w - r = IndexMod * q + n
  BY <1>1, DivMod, Widths
<1>3. v \in 0 .. IndexMod - 1 /\ p \in Int /\ r + 1 = IndexMod * p + v
  BY <1>1, DivMod, Widths DEF Increment
<1>4. n >= 1
  OBVIOUS
<1> HIDE DEF n, q, p, v
<1>5. /\ s \in Int /\ d \in Int /\ m \in 0 .. IndexMod - 1
      /\ d = IndexMod * s + m
  BY <1>1, <1>2, <1>3, <1>4, Widths
<1> HIDE DEF s, d, m
<1>6. d % IndexMod = m
  BY <1>5, Widths, ModUnique
<1> QED
  BY <1>3, <1>6 DEF n, v, d, m, Indices

------------------------------------------------------------------------------
(* The inductive invariant.  RoomKept alone is not inductive without the   *)
(* types of the indices; NoTornItem needs RoomKept, since the only way to  *)
(* tear an item is to write the slot the other side is reading.            *)
IInv == TypeOK /\ RoomKept /\ NoTornItem

(* The invariant excludes a shared slot: while both threads copy, Count is *)
(* between 1 and Capacity - 2.                                             *)
LEMMA InvNoSharedSlot == IInv => NoSharedSlot
<1> SUFFICES ASSUME IInv, pushPc = "copy", popPc = "copy"
             PROVE  queue_index(write_index) # queue_index(read_index)
  BY DEF NoSharedSlot
<1> DEFINE i == read_index + Count
<1>1. /\ read_index \in Int /\ Count \in 1 .. Capacity - 2 /\ i \in Int
      /\ read_index < i /\ i < read_index + Capacity
      /\ write_index % Capacity = i % Capacity
  BY Widths, WriteSlot DEF IInv, TypeOK, RoomKept
<1> HIDE DEF i
<1>2. i % Capacity # read_index % Capacity
  BY <1>1, Widths, ModDistinct
<1> QED
  BY <1>1, <1>2 DEF queue_index

(* An empty queue and two idle threads satisfy the invariant.              *)
LEMMA InvInit == Init => IInv
<1> SUFFICES ASSUME Init PROVE IInv
  OBVIOUS
<1>1. TypeOK
  <2>1. 0 \in Indices /\ 0 \in 0 .. ItemSize
    BY Widths, ItemAssumption DEF Indices
  <2>2. data \in [Slots -> Item] /\ out \in Item
    BY GarbageAssumption DEF Init
  <2> QED
    BY <2>1, <2>2 DEF Init, TypeOK, Pcs, Kinds, Replies
<1>2. Count = 0
  BY Widths, ModUnique DEF Init, Count
<1> QED
  BY <1>1, <1>2, Widths DEF IInv, Init, RoomKept, NoTornItem

(* A step of the producer keeps the invariant.                             *)
LEMMA InvPush ==
    ASSUME IInv, PushStep \/ \E op \in PushOps, x \in Items : CallPush(op, x)
    PROVE  IInv'
<1> USE DEF IInv, TypeOK, RoomKept, NoTornItem
<1>1. ASSUME NEW op \in PushOps, NEW x \in Items, CallPush(op, x)
      PROVE  IInv'
  BY <1>1, OpsAssumption DEF CallPush, consumer, Count, Pcs, Replies
<1>2. CASE PushTimeout
  BY <1>2 DEF PushTimeout, consumer, Count, Pcs
<1>3. CASE PushFull
  BY <1>3 DEF PushFull, consumer, Count, Pcs, Replies
<1>4. CASE PushSpace
  <2>1. Count # Capacity - 1 /\ Count \in Int
    BY <1>4, FullTest, WriteSlot DEF PushSpace
  <2>2. TypeOK'
    BY <1>4, ItemAssumption DEF PushSpace, consumer, Pcs
  <2>3. RoomKept'
    BY <1>4, <2>1, Widths DEF PushSpace, consumer, Count
  <2>4. NoTornItem'
    BY <1>4 DEF PushSpace, consumer
  <2> QED
    BY <2>2, <2>3, <2>4
<1>5. CASE PushByte
  <2> DEFINE s == queue_index(write_index)
  <2>1. s \in Slots /\ write_index \in Int /\ read_index \in Int
    BY DivMod, Widths, WriteSlot DEF queue_index, Slots
  <2>2. pushAt \in Offsets /\ pushAt + 1 \in 0 .. ItemSize
    BY <1>5, ItemAssumption DEF PushByte, Offsets
  <2>3. item[pushAt] \in Byte
    BY <2>2, ItemAssumption DEF Item
  <2>4. data' \in [Slots -> Item]
    BY <1>5, <2>1, <2>2, <2>3 DEF PushByte, Item
  <2>5. TypeOK'
    BY <1>5, <2>2, <2>4 DEF PushByte, consumer
  <2>6. RoomKept'
    BY <1>5 DEF PushByte, consumer, Count
  <2>7. ASSUME popPc' = "copy", wantOut', NEW i \in 0 .. popAt' - 1
        PROVE  out'[i] = data'[queue_index(read_index)'][i]
    <3>1. s # queue_index(read_index)
      BY <1>5, <2>7, InvNoSharedSlot DEF PushByte, consumer, NoSharedSlot
    <3>2. queue_index(read_index) \in Slots
      BY <2>1, DivMod, Widths DEF queue_index, Slots
    <3> QED
      BY <1>5, <2>7, <3>1, <3>2 DEF PushByte, consumer, queue_index
  <2>8. ASSUME NEW i \in 0 .. pushAt' - 1
        PROVE  data'[s][i] = item[i]
    <3>1. i \in Offsets /\ (i # pushAt => i \in 0 .. pushAt - 1)
      BY <1>5, <2>2, <2>8, ItemAssumption DEF PushByte, Offsets
    <3>2. data[s] \in Item
      BY <2>1
    <3>3. data'[s] = [data[s] EXCEPT ![pushAt] = item[pushAt]]
      BY <1>5, <2>1 DEF PushByte
    <3> QED
      BY <1>5, <2>2, <3>1, <3>2, <3>3 DEF PushByte, Item
  <2>9. NoTornItem'
    BY <1>5, <2>7, <2>8 DEF PushByte, queue_index
  <2> QED
    BY <2>5, <2>6, <2>9
<1>6. CASE PushPublish
  <2>1. Increment(write_index) \in Indices /\ Count' = Count + 1
    BY <1>6, CountAfterPush DEF PushPublish, Count
  <2>2. Count \in Int
    BY WriteSlot
  <2>3. TypeOK'
    BY <1>6, <2>1, ItemAssumption DEF PushPublish, consumer, Pcs, Replies
  <2>4. RoomKept'
    BY <1>6, <2>1, <2>2, Widths DEF PushPublish, consumer
  <2>5. NoTornItem'
    BY <1>6 DEF PushPublish, consumer
  <2> QED
    BY <2>3, <2>4, <2>5
<1> QED
  BY <1>1, <1>2, <1>3, <1>4, <1>5, <1>6 DEF PushStep

(* A step of the consumer keeps the invariant.                             *)
LEMMA InvPop ==
    ASSUME IInv,
           PopStep \/ \E op \in PopOps, want \in BOOLEAN : CallPop(op, want)
    PROVE  IInv'
<1> USE DEF IInv, TypeOK, RoomKept, NoTornItem
<1>1. ASSUME NEW op \in PopOps, NEW want \in BOOLEAN, CallPop(op, want)
      PROVE  IInv'
  BY <1>1, OpsAssumption DEF CallPop, producer, Count, Pcs, Replies
<1>2. CASE PopTimeout
  BY <1>2 DEF PopTimeout, producer, Count, Pcs
<1>3. CASE PopEmpty
  BY <1>3 DEF PopEmpty, producer, Count, Pcs, Replies
<1>4. CASE PopItem
  <2>1. Count # 0 /\ Count \in Nat
    BY <1>4, EmptyTest, WriteSlot, Widths DEF PopItem
  <2>2. TypeOK'
    BY <1>4, ItemAssumption DEF PopItem, producer, Pcs
  <2>3. RoomKept'
    BY <1>4, <2>1, Widths DEF PopItem, producer, Count
  <2>4. NoTornItem'
    BY <1>4 DEF PopItem, producer
  <2> QED
    BY <2>2, <2>3, <2>4
<1>5. CASE PopByte
  <2> DEFINE s == queue_index(read_index)
  <2>1. s \in Slots
    BY DivMod, Widths, WriteSlot DEF queue_index, Slots
  <2>2. popAt \in Offsets /\ popAt + 1 \in 0 .. ItemSize
    BY <1>5, ItemAssumption DEF PopByte, Offsets
  <2>3. data[s][popAt] \in Byte
    BY <2>1, <2>2 DEF Item
  <2>4. out' \in Item
    BY <1>5, <2>2, <2>3 DEF PopByte, Item
  <2>5. TypeOK'
    BY <1>5, <2>2, <2>4 DEF PopByte, producer
  <2>6. RoomKept'
    BY <1>5 DEF PopByte, producer, Count
  <2>7. ASSUME NEW i \in 0 .. popAt' - 1
        PROVE  out'[i] = data[s][i]
    <3>1. i \in Offsets /\ (i # popAt => i \in 0 .. popAt - 1)
      BY <1>5, <2>2, <2>7, ItemAssumption DEF PopByte, Offsets
    <3> QED
      BY <1>5, <2>2, <3>1 DEF PopByte, Item
  <2>8. NoTornItem'
    BY <1>5, <2>7 DEF PopByte, producer, queue_index
  <2> QED
    BY <2>5, <2>6, <2>8
<1>6. CASE PopAdvance
  <2>1. Increment(read_index) \in Indices /\ Count' = Count - 1
    BY <1>6, CountAfterPop DEF PopAdvance, Count
  <2>2. Count \in Int
    BY WriteSlot
  <2>3. TypeOK'
    BY <1>6, <2>1, ItemAssumption DEF PopAdvance, producer, Pcs, Replies
  <2>4. RoomKept'
    BY <1>6, <2>1, <2>2, Widths DEF PopAdvance, producer
  <2>5. NoTornItem'
    BY <1>6 DEF PopAdvance, producer
  <2> QED
    BY <2>3, <2>4, <2>5
<1> QED
  BY <1>1, <1>2, <1>3, <1>4, <1>5, <1>6 DEF PopStep

(* IInv holds in every reachable state.                                    *)
THEOREM Invariance == Spec => []IInv
<1>1. IInv /\ [Next]_vars => IInv'
  <2> SUFFICES ASSUME IInv, [Next]_vars PROVE IInv'
    OBVIOUS
  <2>1. CASE Next
    BY <2>1, InvPush, InvPop DEF Next
  <2>2. CASE UNCHANGED vars
    BY <2>2 DEF vars, producer, consumer, IInv, TypeOK, RoomKept, NoTornItem,
                Count
  <2> QED
    BY <2>1, <2>2
<1> QED
  BY InvInit, <1>1, PTL DEF Spec

(* Every variable keeps its type.                                          *)
THEOREM TypeCorrect == Spec => []TypeOK
BY Invariance, PTL DEF IInv

(* One slot stays unused, and the room or the item a thread's test found   *)
(* is still there when it commits.                                         *)
THEOREM RoomIsKept == Spec => []RoomKept
BY Invariance, PTL DEF IInv

(* No slot is written while it is being read.                              *)
THEOREM SlotsAreDisjoint == Spec => []NoSharedSlot
BY Invariance, InvNoSharedSlot, PTL

(* No item is torn.                                                        *)
THEOREM ItemsAreWhole == Spec => []NoTornItem
BY Invariance, PTL DEF IInv

------------------------------------------------------------------------------
(* Refinement.                                                             *)

(* The items on the queue form a sequence of Count items.                  *)
LEMMA ContentsType ==
    ASSUME IInv
    PROVE  /\ Count \in 0 .. Capacity - 1
           /\ Contents \in Seq(Item) /\ Len(Contents) = Count
           /\ Contents = <<>> <=> Count = 0
           /\ \A k \in 1 .. Count :
                 Contents[k] = data[queue_index(read_index + k - 1)]
<1>1. Count \in 0 .. Capacity - 1 /\ read_index \in Int
  BY Widths, WriteSlot DEF IInv, TypeOK, RoomKept
<1>2. \A k \in 1 .. Count : data[queue_index(read_index + k - 1)] \in Item
  BY <1>1, Widths, DivMod DEF IInv, TypeOK, queue_index, Slots
<1> QED
  BY <1>1, <1>2 DEF Contents

(* A byte written into the write slot leaves the items on the queue alone. *)
LEMMA ContentsAfterByte ==
    ASSUME IInv, PushByte
    PROVE  Contents' = Contents
<1>1. /\ write_index \in Int /\ read_index \in Int
      /\ Count \in 0 .. Capacity - 2
      /\ write_index % Capacity = (read_index + Count) % Capacity
  BY Widths, WriteSlot DEF IInv, TypeOK, RoomKept, PushByte
<1>2. ASSUME NEW k \in 1 .. Count
      PROVE  data'[queue_index(read_index + k - 1)]
               = data[queue_index(read_index + k - 1)]
  <2> DEFINE i == read_index + k - 1
             j == read_index + Count
  <2>1. i \in Int /\ j \in Int /\ i < j /\ j < i + Capacity
    BY <1>1, <1>2, Widths
  <2> HIDE DEF i, j
  <2>2. j % Capacity # i % Capacity
    BY <2>1, Widths, ModDistinct
  <2>3. queue_index(i) # queue_index(write_index)
    BY <1>1, <2>2 DEF queue_index, j
  <2>4. queue_index(i) \in Slots
    BY <2>1, Widths, DivMod DEF queue_index, Slots
  <2>5. data'[queue_index(i)] = data[queue_index(i)]
    BY <2>3, <2>4 DEF PushByte, IInv, TypeOK
  <2> QED
    BY <2>5 DEF i
<1>3. Count' = Count /\ read_index' = read_index
  BY DEF PushByte, Count
<1> QED
  BY <1>2, <1>3 DEF Contents, queue_index

(* Publishing the copied item appends it.                                  *)
LEMMA ContentsAfterPublish ==
    ASSUME IInv, PushPublish
    PROVE  Len(Contents) < Capacity - 1 /\ Contents' = Append(Contents, item)
<1>1. /\ Count \in 0 .. Capacity - 2 /\ Count' = Count + 1
      /\ read_index \in Int /\ write_index \in Int
      /\ queue_index(write_index) = queue_index(read_index + Count)
  BY Widths, WriteSlot, CountAfterPush
  DEF IInv, TypeOK, RoomKept, PushPublish, Count, queue_index
<1>2. data[queue_index(write_index)] = item
  <2>1. queue_index(write_index) \in Slots
    BY <1>1, Widths, DivMod DEF queue_index, Slots
  <2>2. data[queue_index(write_index)] \in Item /\ item \in Item
    BY <2>1, ItemAssumption DEF IInv, TypeOK
  <2>3. \A b \in Offsets : data[queue_index(write_index)][b] = item[b]
    BY DEF IInv, NoTornItem, PushPublish, Offsets
  <2> QED
    BY <2>2, <2>3 DEF Item
<1>3. /\ data' = data /\ read_index' = read_index
      /\ Contents' = [k \in 1 .. Count + 1 |->
                        data[queue_index(read_index + k - 1)]]
  BY <1>1 DEF PushPublish, Contents, queue_index
<1>4. /\ item \in Item /\ Contents \in Seq(Item) /\ Len(Contents) = Count
      /\ \A k \in 1 .. Count :
            Contents[k] = data[queue_index(read_index + k - 1)]
  BY ContentsType, ItemAssumption DEF IInv, TypeOK
<1>5. ASSUME NEW k \in 1 .. Count + 1
      PROVE  Contents'[k] = Append(Contents, item)[k]
  <2>1. Contents'[k] = data[queue_index(read_index + k - 1)]
    BY <1>3
  <2>2. CASE k = Count + 1
    <3>1. read_index + k - 1 = read_index + Count
      BY <1>1, <2>2
    <3> QED
      BY <1>1, <1>2, <1>4, <2>1, <2>2, <3>1, AppendProperties
  <2>3. CASE k \in 1 .. Count
    BY <1>4, <2>1, <2>3, AppendProperties
  <2>4. k = Count + 1 \/ k \in 1 .. Count
    BY <1>1
  <2> QED
    BY <2>2, <2>3, <2>4
<1>6. Append(Contents, item) \in Seq(Item) /\ Len(Append(Contents, item)) = Count + 1
  BY <1>4, AppendProperties
<1>7. \A k \in 1 .. Count + 1 : Append(Contents, item)[k] \in Item
  BY <1>6, ElementOfSeq
<1>8. Contents' \in Seq(Item) /\ Len(Contents') = Count + 1
  <2>1. Contents' \in [1 .. Count + 1 -> Item]
    BY <1>3, <1>5, <1>7
  <2> QED
    BY <1>1, <2>1
<1> DEFINE s == Contents'
           t == Append(Contents, item)
<1>9. \A k \in 1 .. Len(s) : s[k] = t[k]
  BY <1>5, <1>8
<1>10. s \in Seq(Item) /\ t \in Seq(Item) /\ Len(s) = Len(t)
  BY <1>6, <1>8
<1> HIDE DEF s, t
<1>11. s = t
  BY <1>9, <1>10, SeqEqual
<1>12. Contents' = Append(Contents, item)
  BY <1>11 DEF s, t
<1>13. Len(Contents) < Capacity - 1
  BY <1>1, <1>4, Widths
<1> QED
  BY <1>12, <1>13

(* Advancing read_index removes the head.                                  *)
LEMMA ContentsAfterAdvance ==
    ASSUME IInv, PopAdvance
    PROVE  Contents # <<>> /\ Contents' = Tail(Contents)
<1>1. /\ Count \in 1 .. Capacity - 1 /\ Count' = Count - 1
      /\ read_index \in Int /\ read_index' = Increment(read_index)
      /\ Increment(read_index) \in Int /\ data' = data
  <2>1. Count \in 1 .. Capacity - 1 /\ read_index \in Int
    BY Widths, WriteSlot DEF IInv, TypeOK, RoomKept, PopAdvance
  <2>2. Count' = Count - 1 /\ Increment(read_index) \in Indices
    BY <2>1, CountAfterPop DEF IInv, TypeOK, PopAdvance, Count
  <2> QED
    BY <2>1, <2>2, Widths DEF PopAdvance, Indices
<1>2. ASSUME NEW k \in 1 .. Count - 1
      PROVE  queue_index(Increment(read_index) + k - 1)
               = queue_index(read_index + (k + 1) - 1)
  <2> DEFINE v == Increment(read_index)
             p == (read_index + 1) \div IndexMod
             i == v + k - 1
             j == read_index + (k + 1) - 1
  <2>1. v \in Int /\ p \in Int /\ read_index + 1 = v + IndexMod * p
    BY <1>1, DivMod, Widths DEF Increment
  <2> HIDE DEF v, p
  <2>2. i \in Int /\ j \in Int /\ j = i + IndexMod * p
    BY <1>1, <1>2, <2>1, Widths
  <2> HIDE DEF i, j
  <2>3. j % Capacity = i % Capacity
    BY <2>1, <2>2, WidthIsLaps
  <2> QED
    BY <2>3 DEF i, j, v, queue_index
<1>3. Contents \in Seq(Item) /\ Len(Contents) = Count /\ Contents # <<>>
  BY <1>1, ContentsType
<1>4. Contents' = [k \in 1 .. Count - 1 |->
                     data[queue_index(Increment(read_index) + k - 1)]]
  BY <1>1 DEF Contents, queue_index
<1>5. /\ Tail(Contents) \in Seq(Item) /\ Len(Tail(Contents)) = Count - 1
      /\ \A k \in 1 .. Count - 1 : Tail(Contents)[k] = Contents[k + 1]
  BY <1>1, <1>3, HeadTailProperties
<1>6. ASSUME NEW k \in 1 .. Count - 1
      PROVE  Contents'[k] = Tail(Contents)[k]
  <2>1. k + 1 \in 1 .. Count
    BY <1>1
  <2>2. Contents[k + 1] = data[queue_index(read_index + (k + 1) - 1)]
    BY <2>1, ContentsType
  <2> QED
    BY <1>2, <1>4, <1>5, <2>2
<1>7. Contents' \in Seq(Item) /\ Len(Contents') = Count - 1
  <2>1. \A k \in 1 .. Count - 1 : Tail(Contents)[k] \in Item
    BY <1>5, ElementOfSeq
  <2>2. Contents' \in [1 .. Count - 1 -> Item]
    BY <1>4, <1>6, <2>1
  <2> QED
    BY <1>1, <2>2
<1> QED
  BY <1>3, <1>5, <1>6, <1>7, SeqEqual

(* What a pop that wants the item has copied is the head.                  *)
LEMMA CopyIsHead ==
    ASSUME IInv, PopAdvance, wantOut
    PROVE  out = Head(Contents)
<1>1. Count \in 1 .. Capacity - 1 /\ read_index \in Int
  BY Widths, WriteSlot DEF IInv, TypeOK, RoomKept, PopAdvance
<1>2. Head(Contents) = data[queue_index(read_index)]
  <2>1. Head(Contents) = Contents[1]
    BY <1>1, ContentsType
  <2>2. Contents[1] = data[queue_index(read_index + 1 - 1)]
    BY <1>1, ContentsType
  <2>3. read_index + 1 - 1 = read_index
    BY <1>1
  <2> QED
    BY <2>1, <2>2, <2>3
<1>3. data[queue_index(read_index)] \in Item /\ out \in Item
  BY <1>1, Widths, DivMod DEF IInv, TypeOK, queue_index, Slots
<1>4. \A b \in Offsets : out[b] = data[queue_index(read_index)][b]
  BY DEF IInv, NoTornItem, PopAdvance, Offsets
<1> QED
  BY <1>2, <1>3, <1>4 DEF Item

(* The producer's steps are steps of the FIFO or stutter.                  *)
LEMMA PushRefines ==
    ASSUME IInv, PushStep \/ \E op \in PushOps, x \in Items : CallPush(op, x)
    PROVE  [Fifo!Next]_(Fifo!vars)
<1> USE DEF Fifo!vars, Fifo!producer, Fifo!consumer, Call
<1> DEFINE unpopped == /\ Call(popPc, popOp)' = Call(popPc, popOp)
                       /\ UNCHANGED <<wantOut, popReply>>
                       /\ HandedOver' = HandedOver
<1>1. Kinds = Fifo!Kinds /\ pushOp \in Kinds
  BY DEF Kinds, Fifo!Kinds, IInv, TypeOK
<1>2. ASSUME NEW op \in PushOps, NEW x \in Items, CallPush(op, x)
      PROVE  Fifo!AskPush(op, x) /\ op \in Fifo!Kinds
  BY <1>2, OpsAssumption
  DEF CallPush, Fifo!AskPush, consumer, HandedOver, Contents, Count,
      queue_index, Kinds, Fifo!Kinds
<1>3. CASE PushTimeout
  <2>1. Fifo!FailPush
    BY <1>3 DEF PushTimeout, Fifo!FailPush, consumer, HandedOver, Contents,
                Count, queue_index
  <2> QED
    BY <2>1 DEF Fifo!Next
<1>4. CASE PushFull
  <2>1. Len(Contents) = Capacity - 1
    BY <1>4, FullTest, ContentsType DEF PushFull, IInv, TypeOK, RoomKept
  <2>2. Contents' = Contents /\ unpopped /\ UNCHANGED <<item, pushOp>>
    BY <1>4 DEF PushFull, consumer, HandedOver, Contents, Count, queue_index
  <2>3. CASE pushOp \in {"block", "timed"}
    BY <1>4, <2>2, <2>3 DEF PushFull
  <2>4. CASE pushOp = "nonblock"
    <3>1. Fifo!RejectPush
      BY <1>4, <2>1, <2>2, <2>4 DEF PushFull, Fifo!RejectPush
    <3> QED
      BY <3>1 DEF Fifo!Next
  <2>5. CASE pushOp = "error"
    <3>1. Fifo!FailPush
      BY <1>4, <2>1, <2>2, <2>5 DEF PushFull, Fifo!FailPush
    <3> QED
      BY <3>1 DEF Fifo!Next
  <2> QED
    BY <1>1, <2>3, <2>4, <2>5 DEF Kinds
<1>5. CASE PushSpace
  BY <1>5 DEF PushSpace, consumer, HandedOver, Contents, Count, queue_index
<1>6. CASE PushByte
  BY <1>6, ContentsAfterByte DEF PushByte, consumer, HandedOver
<1>7. CASE PushPublish
  <2>1. Fifo!DoPush
    BY <1>1, <1>7, ContentsAfterPublish
    DEF PushPublish, Fifo!DoPush, consumer, HandedOver, Kinds
  <2> QED
    BY <2>1 DEF Fifo!Next
<1> QED
  BY <1>2, <1>3, <1>4, <1>5, <1>6, <1>7 DEF PushStep, Fifo!Next

(* The consumer's steps are steps of the FIFO or stutter.                  *)
LEMMA PopRefines ==
    ASSUME IInv,
           PopStep \/ \E op \in PopOps, want \in BOOLEAN : CallPop(op, want)
    PROVE  [Fifo!Next]_(Fifo!vars)
<1> USE DEF Fifo!vars, Fifo!producer, Fifo!consumer, Call
<1> DEFINE unpushed == /\ Call(pushPc, pushOp)' = Call(pushPc, pushOp)
                       /\ UNCHANGED <<item, pushReply>>
<1>1. Kinds = Fifo!Kinds /\ popOp \in Kinds /\ wantOut \in BOOLEAN
  BY DEF Kinds, Fifo!Kinds, IInv, TypeOK
<1>2. ASSUME NEW op \in PopOps, NEW want \in BOOLEAN, CallPop(op, want)
      PROVE  Fifo!AskPop(op, want) /\ op \in Fifo!Kinds
  BY <1>2, OpsAssumption
  DEF CallPop, Fifo!AskPop, producer, HandedOver, Contents, Count,
      queue_index, Kinds, Fifo!Kinds
<1>3. CASE PopTimeout
  <2>1. Fifo!FailPop
    BY <1>3 DEF PopTimeout, Fifo!FailPop, producer, HandedOver, Contents,
                Count, queue_index
  <2> QED
    BY <2>1 DEF Fifo!Next
<1>4. CASE PopEmpty
  <2>1. Contents = <<>>
    BY <1>4, EmptyTest, ContentsType DEF PopEmpty, IInv, TypeOK, RoomKept
  <2>2. Contents' = Contents /\ unpushed /\ UNCHANGED <<wantOut, popOp>>
    BY <1>4 DEF PopEmpty, producer, Contents, Count, queue_index
  <2>3. CASE popOp \in {"block", "timed"}
    BY <1>4, <2>2, <2>3 DEF PopEmpty, HandedOver
  <2>4. CASE popOp = "nonblock"
    <3>1. Fifo!RejectPop
      BY <1>4, <2>1, <2>2, <2>4 DEF PopEmpty, Fifo!RejectPop, HandedOver
    <3> QED
      BY <3>1 DEF Fifo!Next
  <2>5. CASE popOp = "error"
    <3>1. Fifo!FailPop
      BY <1>4, <2>1, <2>2, <2>5 DEF PopEmpty, Fifo!FailPop, HandedOver
    <3> QED
      BY <3>1 DEF Fifo!Next
  <2> QED
    BY <1>1, <2>3, <2>4, <2>5 DEF Kinds
<1>5. CASE PopItem
  BY <1>5 DEF PopItem, producer, HandedOver, Contents, Count, queue_index
<1>6. CASE PopByte
  BY <1>6 DEF PopByte, producer, HandedOver, Contents, Count, queue_index
<1>7. CASE PopAdvance
  <2>1. Fifo!DoPop
    BY <1>1, <1>7, ContentsAfterAdvance, CopyIsHead
    DEF PopAdvance, Fifo!DoPop, producer, HandedOver, Kinds
  <2> QED
    BY <2>1 DEF Fifo!Next
<1> QED
  BY <1>2, <1>3, <1>4, <1>5, <1>6, <1>7 DEF PopStep, Fifo!Next

(* The circular buffer implements the bounded FIFO: across any             *)
(* interleaving, index wrap-around and mixture of calls, each item pushed  *)
(* is handed over once, whole and in order.                                *)
THEOREM Refinement == Spec => ImplementsFifo
<1>1. Init => Fifo!Init
  <2> SUFFICES ASSUME Init PROVE Fifo!Init
    OBVIOUS
  <2>1. IInv /\ Count = 0
    BY InvInit, Widths, ModUnique DEF Init, Count
  <2>2. Contents = <<>>
    BY <2>1, ContentsType
  <2> QED
    BY <2>2 DEF Init, Fifo!Init, Call, HandedOver
<1>2. IInv /\ [Next]_vars => [Fifo!Next]_(Fifo!vars)
  <2> SUFFICES ASSUME IInv, [Next]_vars PROVE [Fifo!Next]_(Fifo!vars)
    OBVIOUS
  <2>1. CASE Next
    BY <2>1, PushRefines, PopRefines DEF Next
  <2>2. CASE UNCHANGED vars
    BY <2>2 DEF vars, producer, consumer, Fifo!vars, Fifo!producer,
                Fifo!consumer, Contents, Count, queue_index, Call, HandedOver
  <2> QED
    BY <2>1, <2>2
<1> QED
  BY <1>1, <1>2, Invariance, PTL DEF Spec, ImplementsFifo, Fifo!Spec
==============================================================================
