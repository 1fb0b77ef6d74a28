--------------------------- MODULE BroadcastProofs ----------------------------
(***************************************************************************)
(* Proofs about Broadcast for every number of ports that protocol.c        *)
(* accepts (one to three), every length of a request and of a response,    *)
(* every depth of the FIFOs and every number of calls: a broadcast that    *)
(* returns has the whole response of every port to this very request, it   *)
(* leaves nothing behind on any port, and its loop loses nothing as long as *)
(* the bytes do not come faster than it reads.                             *)
(***************************************************************************)
EXTENDS Broadcast, TLAPS

------------------------------------------------------------------------------
(* The invariant.                                                          *)

Active == pc \in {"write", "read", "check", "verify"}

(* The bytes of the request that were offered to a port.                   *)
Sent(p) ==
    IF pc = "write" THEN IF p < port THEN i + 1 ELSE i
                    ELSE length_of

(* The device has not answered: it takes the bytes of the request in their *)
(* order, and those that were dropped on the way never come.               *)
Unanswered(p) ==
    /\ coming[p] = <<>> /\ rx[p] = <<>> /\ in_packet[p] = <<>> /\ ~overrun[p]
    /\ seen[p] <= Sent(p)
    /\ \A k \in 1 .. Len(tx[p]) : seen[p] <= tx[p][k] /\ tx[p][k] < Sent(p)
    /\ \A k, m \in 1 .. Len(tx[p]) : k < m => tx[p][k] < tx[p][m]

(* What was read from a port and what is in its FIFO are the start of the  *)
(* answer A, and what is to come is the rest of it unless some was lost;   *)
(* the FIFO was full then, and stays so: reading it is an error.           *)
Delivered(p, A) ==
    /\ index(p) + Len(rx[p]) + Len(coming[p]) <= Len(A)
    /\ \A k \in 1 .. index(p) : in_packet[p][k] = A[k]
    /\ \A k \in 1 .. Len(rx[p]) : rx[p][k] = A[index(p) + k]
    /\ overrun[p] => platform = "tiva" /\ Len(rx[p]) >= RxDepth
    /\ ~overrun[p] =>
          /\ index(p) + Len(rx[p]) + Len(coming[p]) = Len(A)
          /\ \A k \in 1 .. Len(coming[p]) :
                coming[p][k] = A[index(p) + Len(rx[p]) + k]

(* The device took the whole request and has answered it once.             *)
Answered(p) ==
    /\ tx[p] = <<>> /\ seen[p] = 0 /\ Sent(p) = length_of
    /\ \E A \in Answers(p) : Delivered(p, A)

(* A length is the first byte of the packet, or 1 until that was read.     *)
LengthKnown(p) ==
    /\ length_set[p] => index(p) > 0 /\ length[p] = LengthByte(p, in_packet[p][1])
    /\ ~length_set[p] => length[p] = 1
    /\ pc = "verify" => length_set[p] /\ length[p] <= index(p)

(* Between two calls.                                                      *)
Quiet(p) ==
    /\ tx[p] = <<>> /\ seen[p] = 0 /\ coming[p] = <<>> /\ rx[p] = <<>> /\ ~overrun[p]
    /\ round > 0 => in_packet[p] = Answer(p, "ok", ResponseLength[p])

(* What keeps up with the ports.                                           *)
Paced(p) ==
    /\ pace <= Chunk => Len(rx[p]) <= since[p]
    /\ pace <= Chunk /\ pace <= RxDepth => ~overrun[p]

Loops ==
    /\ length_of > 0 => round > 0
    /\ pc = "write" => i < length_of
    /\ pc \notin {"write", "error"} => i = 0
    /\ pc \in {"idle", "check", "verify"} => port = 1
    /\ Active => length_of > 0

IInv ==
    /\ TypeOK
    /\ Loops
    /\ \A p \in Ports : Paced(p)
    /\ pc = "idle" => \A p \in Ports : Quiet(p)
    /\ Active => \A p \in Ports : /\ Unanswered(p) \/ Answered(p)
                                  /\ LengthKnown(p)

------------------------------------------------------------------------------
(* Types.                                                                  *)

LEMMA Constants ==
    /\ NumPorts \in 1 .. 3 /\ 1 \in Ports /\ Ports \subseteq Nat
    /\ \A p \in Ports : ResponseLength[p] \in Nat /\ ResponseLength[p] > 2
    /\ RequestLengths \subseteq Nat /\ \A n \in RequestLengths : n > 0
    /\ TxDepth \in Nat /\ RxDepth \in Nat /\ RxDepth > 0 /\ Chunk \in Nat
    /\ Paces \subseteq Nat /\ timeout \in Nat /\ MaxRounds \in Nat
    /\ Platforms \subseteq {"host", "tiva"}
BY BroadcastAssumption DEF Ports, HEADER_BYTES

(* The types of the wires, of the FIFOs, of the loops and of the packets.  *)
EndTypes ==
    /\ platform \in Platforms /\ pace \in Paces
    /\ tx \in [Ports -> Seq(Nat)] /\ \A p \in Ports : Len(tx[p]) <= TxDepth
    /\ seen \in [Ports -> Nat] /\ coming \in [Ports -> Seq(Bytes)]

FifoTypes ==
    /\ rx \in [Ports -> Seq(Bytes)] /\ since \in [Ports -> 0 .. pace]
    /\ overrun \in [Ports -> BOOLEAN]

LoopTypes ==
    /\ pc \in {"idle", "write", "read", "check", "verify", "error"}
    /\ i \in Nat /\ port \in Ports /\ length_of \in {0} \cup RequestLengths
    /\ elapsed \in 0 .. timeout + 1 /\ round \in 0 .. MaxRounds

PacketTypes ==
    /\ in_packet \in [Ports -> Seq(Bytes)]
    /\ length \in [Ports -> Nat] /\ length_set \in [Ports -> BOOLEAN]

LEMMA TypeParts ==
    /\ TypeOK <=> EndTypes /\ FifoTypes /\ LoopTypes /\ PacketTypes
    /\ TypeOK' <=> EndTypes' /\ FifoTypes' /\ LoopTypes' /\ PacketTypes'
BY DEF TypeOK, EndTypes, FifoTypes, LoopTypes, PacketTypes

LEMMA TypeInit == Init => TypeOK
<1> SUFFICES ASSUME Init PROVE TypeOK
  OBVIOUS
<1>1. EndTypes
  BY Constants DEF Init, EndTypes
<1>2. FifoTypes
  BY Constants DEF Init, FifoTypes
<1>3. LoopTypes
  BY Constants DEF Init, LoopTypes
<1>4. PacketTypes
  BY Constants DEF Init, PacketTypes
<1> QED
  BY <1>1, <1>2, <1>3, <1>4, TypeParts

(* An answer is a sequence of bytes of this call, and its first byte says  *)
(* what it is.                                                             *)
LEMMA Packets ==
    ASSUME LoopTypes, NEW p \in Ports, NEW A \in Answers(p)
    PROVE  /\ Len(A) \in Nat /\ Len(A) >= 2
           /\ round > 0 => A \in Seq(Bytes)
           /\ \/ A = Answer(p, "ok", ResponseLength[p]) /\ Len(A) = ResponseLength[p]
                                                        /\ A[1].kind = "ok"
              \/ Len(A) = 3 /\ A[1].kind = "error"
              \/ Len(A) = 2 /\ A[1].kind = "ack"
<1>1. ASSUME NEW kind \in {"ok", "error", "ack"}, NEW n \in Nat, n >= 2
      PROVE  /\ Len(Answer(p, kind, n)) = n
             /\ Answer(p, kind, n)[1].kind = kind
             /\ round > 0 => Answer(p, kind, n) \in Seq(Bytes)
  <2> DEFINE B == Answer(p, kind, n)
  <2>1. B = [k \in 1 .. n |-> [kind |-> kind, round |-> round, at |-> k]]
    BY DEF Answer
  <2>2. ASSUME round > 0 PROVE B \in [1 .. n -> Bytes]
    BY <2>1, <2>2, Constants DEF LoopTypes, Bytes
  <2>3. Len(B) = n
    BY <2>1
  <2> QED
    BY <1>1, <2>1, <2>2, <2>3
<1>2. PICK kind \in {"ok", "error", "ack"}, n \in {ResponseLength[p], 3, 2} :
         /\ A = Answer(p, kind, n)
         /\ \/ kind = "ok" /\ n = ResponseLength[p]
            \/ kind = "error" /\ n = 3
            \/ kind = "ack" /\ n = 2
  BY Zenon DEF Answers
<1>3. n \in Nat /\ n >= 2
  BY Constants
<1>4. Len(A) = n /\ A[1].kind = kind /\ (round > 0 => A \in Seq(Bytes))
  BY <1>1, <1>2, <1>3
<1> QED
  BY <1>2, <1>3, <1>4

(* The length byte of a packet.                                            *)
LEMMA LengthBytes ==
    ASSUME NEW p \in Ports, NEW byte \in Bytes PROVE LengthByte(p, byte) \in Nat
BY Constants DEF Bytes, LengthByte

LEMMA EndStep == TypeOK /\ Loops /\ Next => EndTypes'
<1> SUFFICES ASSUME EndTypes, LoopTypes, Loops, Next PROVE EndTypes'
  BY TypeParts
<1>1. ASSUME NEW p \in Ports, Send(p) PROVE EndTypes'
  <2>1. /\ tx[p] \in Seq(Nat) /\ Len(tx[p]) \in Nat /\ Len(tx[p]) <= TxDepth
        /\ Tail(tx[p]) \in Seq(Nat) /\ Len(Tail(tx[p])) = Len(tx[p]) - 1
    BY <1>1 DEF Send, EndTypes
  <2>2. tx' = [tx EXCEPT ![p] = Tail(tx[p])]
    BY <1>1 DEF Send
  <2>3. tx' \in [Ports -> Seq(Nat)] /\ \A q \in Ports : Len(tx'[q]) <= TxDepth
    BY <2>1, <2>2, Constants DEF EndTypes
  <2>4. seen' \in [Ports -> Nat]
    BY <1>1 DEF Send, EndTypes
  <2> QED
    BY <1>1, <2>3, <2>4 DEF Send, EndTypes
<1>2. ASSUME NEW p \in Ports, Respond(p) PROVE EndTypes'
  <2>1. PICK A \in Answers(p) : coming' = [coming EXCEPT ![p] = A]
    BY <1>2 DEF Respond
  <2>2. A \in Seq(Bytes)
    BY <1>2, <2>1, Packets DEF Respond, Loops
  <2> QED
    BY <1>2, <2>1, <2>2 DEF Respond, EndTypes
<1>3. ASSUME NEW p \in Ports, Arrive(p) PROVE EndTypes'
  BY <1>3 DEF Arrive, EndTypes
<1>4. CASE Write
  <2>1. /\ port \in Ports /\ i \in Nat /\ tx[port] \in Seq(Nat)
        /\ Append(tx[port], i) \in Seq(Nat) /\ Len(Append(tx[port], i)) = Len(tx[port]) + 1
    BY DEF EndTypes, LoopTypes
  <2>2. \/ Len(tx[port]) < TxDepth /\ tx' = [tx EXCEPT ![port] = Append(tx[port], i)]
        \/ tx' = tx
    BY <1>4 DEF Write
  <2>3. tx' \in [Ports -> Seq(Nat)] /\ \A q \in Ports : Len(tx'[q]) <= TxDepth
    <3>1. CASE Len(tx[port]) < TxDepth /\ tx' = [tx EXCEPT ![port] = Append(tx[port], i)]
      <4>1. Len(tx[port]) + 1 <= TxDepth
        BY <2>1, <3>1, Constants
      <4> QED
        BY <2>1, <3>1, <4>1 DEF EndTypes
    <3>2. CASE tx' = tx
      BY <3>2 DEF EndTypes
    <3> QED
      BY <2>2, <3>1, <3>2
  <2> QED
    BY <1>4, <2>3 DEF Write, EndTypes
<1>5. CASE UNCHANGED ends
  BY <1>5 DEF ends, EndTypes
<1>6. Tick \/ Call \/ WriteFails \/ Read \/ ReadFails \/ Check \/ Verify
        => UNCHANGED ends
  BY DEF Tick, Call, WriteFails, Read, ReadFails, Check, Verify
<1> QED
  BY <1>1, <1>2, <1>3, <1>4, <1>5, <1>6 DEF Next, Host

(* What is read from a FIFO and what stays there.                          *)
LEMMA Halves ==
    ASSUME FifoTypes, LoopTypes
    PROVE  /\ Taken \in 0 .. Len(rx[port]) /\ Len(rx[port]) \in Nat
           /\ SubSeq(rx[port], 1, Taken) \in Seq(Bytes)
           /\ Len(SubSeq(rx[port], 1, Taken)) = Taken
           /\ SubSeq(rx[port], Taken + 1, Len(rx[port])) \in Seq(Bytes)
           /\ Len(SubSeq(rx[port], Taken + 1, Len(rx[port]))) = Len(rx[port]) - Taken
           /\ \A k \in 1 .. Taken : SubSeq(rx[port], 1, Taken)[k] = rx[port][k]
           /\ \A k \in 1 .. Len(rx[port]) - Taken :
                 SubSeq(rx[port], Taken + 1, Len(rx[port]))[k] = rx[port][Taken + k]
<1> DEFINE s == rx[port]
           t == Taken
<1>1. s \in Seq(Bytes)
  BY DEF FifoTypes, LoopTypes
<1>2. t \in 0 .. Len(s) /\ Len(s) \in Nat
  BY <1>1, Constants DEF Taken
<1> HIDE DEF s, t
<1> QED
  <2>1. /\ SubSeq(s, 1, t) \in Seq(Bytes) /\ Len(SubSeq(s, 1, t)) = t
        /\ \A k \in 1 .. t : SubSeq(s, 1, t)[k] = s[k]
    BY <1>1, <1>2
  <2>2. /\ SubSeq(s, t + 1, Len(s)) \in Seq(Bytes)
        /\ Len(SubSeq(s, t + 1, Len(s))) = Len(s) - t
        /\ \A k \in 1 .. Len(s) - t : SubSeq(s, t + 1, Len(s))[k] = s[t + k]
    BY <1>1, <1>2
  <2> QED
    BY <1>2, <2>1, <2>2 DEF s, t

LEMMA FifoStep == TypeOK /\ Next => FifoTypes'
<1> SUFFICES ASSUME EndTypes, FifoTypes, LoopTypes, Next PROVE FifoTypes'
  BY TypeParts
<1>0. pace \in Nat
  BY Constants DEF EndTypes
<1>1. ASSUME NEW p \in Ports, Arrive(p) PROVE FifoTypes'
  <2>1. coming[p] \in Seq(Bytes) /\ Head(coming[p]) \in Bytes
    BY <1>1 DEF Arrive, EndTypes
  <2>2. rx' \in [Ports -> Seq(Bytes)]
    <3>1. Append(rx[p], Head(coming[p])) \in Seq(Bytes)
      BY <2>1 DEF FifoTypes
    <3>2. rx' = [rx EXCEPT ![p] = Append(rx[p], Head(coming[p]))] \/ rx' = rx
      BY <1>1 DEF Arrive
    <3> QED
      BY <3>1, <3>2 DEF FifoTypes
  <2>4. since' \in [Ports -> 0 .. pace] /\ pace' = pace
    <3>1. since[p] \in Nat /\ since[p] < pace /\ since' = [since EXCEPT ![p] = since[p] + 1]
      BY <1>0, <1>1 DEF Arrive, FifoTypes
    <3> QED
      BY <1>0, <1>1, <3>1 DEF Arrive, FifoTypes
  <2>3. overrun' \in [Ports -> BOOLEAN]
    BY <1>1, Zenon DEF Arrive, FifoTypes
  <2> QED
    BY <2>2, <2>3, <2>4 DEF FifoTypes
<1>2. CASE Call
  BY <1>0, <1>2 DEF Call, FifoTypes, ends
<1>3. CASE Read
  BY <1>0, <1>3, Halves DEF Read, FifoTypes, ends, LoopTypes
<1>4. CASE UNCHANGED <<fifo, pace>>
  BY <1>4 DEF fifo, FifoTypes
<1>5. Tick \/ Write \/ WriteFails \/ ReadFails \/ Check \/ Verify
        => UNCHANGED <<fifo, pace>>
  BY DEF Tick, Write, WriteFails, ReadFails, Check, Verify, ends
<1>6. ASSUME NEW p \in Ports, Send(p) \/ Respond(p) PROVE UNCHANGED <<fifo, pace>>
  BY <1>6 DEF Send, Respond
<1> QED
  BY <1>1, <1>2, <1>3, <1>4, <1>5, <1>6 DEF Next, Host

LEMMA LoopStep == TypeOK /\ Next => LoopTypes'
<1> SUFFICES ASSUME LoopTypes, Next PROVE LoopTypes'
  BY TypeParts
<1>1. CASE Call
  BY <1>1, Constants DEF Call, LoopTypes
<1>2. CASE Write
  BY <1>2, Constants DEF Write, NextPort, LoopTypes, Ports
<1>3. CASE Read
  BY <1>3, Constants DEF Read, NextPort, LoopTypes, Ports
<1>4. CASE Tick
  BY <1>4, Constants DEF Tick, LoopTypes, loop
<1>5. CASE WriteFails \/ ReadFails \/ Check \/ Verify
  BY <1>5 DEF WriteFails, ReadFails, Check, Verify, LoopTypes
<1>6. CASE \E p \in Ports : Send(p) \/ Respond(p) \/ Arrive(p)
  BY <1>6 DEF Send, Respond, Arrive, LoopTypes, loop
<1> QED
  BY <1>1, <1>2, <1>3, <1>4, <1>5, <1>6 DEF Next, Host

LEMMA PacketStep == TypeOK /\ Next => PacketTypes'
<1> SUFFICES ASSUME FifoTypes, LoopTypes, PacketTypes, Next PROVE PacketTypes'
  BY TypeParts
<1>1. CASE Call
  BY <1>1 DEF Call, PacketTypes
<1>2. CASE Read
  <2>1. in_packet' \in [Ports -> Seq(Bytes)]
    BY <1>2, Halves DEF Read, LoopTypes, PacketTypes
  <2>2. UNCHANGED <<length, length_set>>
    BY <1>2 DEF Read
  <2> QED
    BY <2>1, <2>2 DEF PacketTypes
<1>3. CASE Check
  <2>1. \A p \in Ports : LengthNow(p) \in Nat
    <3> SUFFICES ASSUME NEW p \in Ports PROVE LengthNow(p) \in Nat
      OBVIOUS
    <3>1. index(p) > 0 => in_packet[p][1] \in Bytes
      BY DEF PacketTypes, index
    <3> QED
      BY <3>1, LengthBytes DEF LengthNow, PacketTypes
  <2>2. length' \in [Ports -> Nat]
    BY <1>3, <2>1 DEF Check
  <2>3. length_set' \in [Ports -> BOOLEAN]
    BY <1>3, Zenon DEF Check, PacketTypes
  <2>4. UNCHANGED in_packet
    BY <1>3 DEF Check
  <2> QED
    BY <2>2, <2>3, <2>4 DEF PacketTypes
<1>4. CASE UNCHANGED packets
  BY <1>4 DEF packets, PacketTypes
<1>5. Tick \/ Write \/ WriteFails \/ ReadFails \/ Verify => UNCHANGED packets
  BY DEF Tick, Write, WriteFails, ReadFails, Verify
<1>6. ASSUME NEW p \in Ports, Send(p) \/ Respond(p) \/ Arrive(p) PROVE UNCHANGED packets
  BY <1>6 DEF Send, Respond, Arrive
<1> QED
  BY <1>1, <1>2, <1>3, <1>4, <1>5, <1>6 DEF Next, Host

LEMMA TypeStep == TypeOK /\ Loops /\ [Next]_vars => TypeOK'
<1>1. TypeOK /\ Loops /\ Next => TypeOK'
  BY EndStep, FifoStep, LoopStep, PacketStep, TypeParts
<1>2. TypeOK /\ UNCHANGED vars => TypeOK'
  BY DEF TypeOK, vars, ends, fifo, loop, packets
<1> QED
  BY <1>1, <1>2

------------------------------------------------------------------------------
(* The invariant is kept.                                                  *)

PortInv(p) == Unanswered(p) \/ Answered(p)

LEMMA InvInit == Init => IInv
<1> SUFFICES ASSUME Init PROVE IInv
  OBVIOUS
<1>1. TypeOK
  BY TypeInit
<1>2. Loops
  BY DEF Init, Loops, Active
<1>3. \A p \in Ports : Paced(p) /\ Quiet(p)
  BY DEF Init, Paced, Quiet
<1>4. ~Active
  BY DEF Init, Active
<1> QED
  BY <1>1, <1>2, <1>3, <1>4 DEF IInv

(* What was offered to a port is never more than the request.              *)
LEMMA SentBounds ==
    ASSUME TypeOK, Loops, NEW p \in Ports
    PROVE  Sent(p) \in Nat /\ length_of \in Nat /\ (pc = "write" => Sent(p) <= length_of)
<1>1. length_of \in Nat
  <2>1. length_of = 0 \/ length_of \in RequestLengths
    BY TypeParts DEF LoopTypes
  <2>2. \A n \in RequestLengths : n \in Nat
    BY Constants
  <2>3. CASE length_of = 0
    BY <2>3
  <2>4. CASE length_of \in RequestLengths
    BY <2>2, <2>4
  <2> QED
    BY <2>1, <2>3, <2>4
<1>2. i \in Nat /\ port \in Nat /\ p \in Nat
  BY TypeParts, Constants DEF LoopTypes
<1> QED
  BY <1>1, <1>2 DEF Loops, Sent

(* A port that a step leaves alone, but for more of the request that was   *)
(* offered to it.                                                          *)
LEMMA Frame ==
    ASSUME TypeOK, NEW p \in Ports, PortInv(p),
           UNCHANGED <<tx[p], seen[p], coming[p], rx[p], overrun[p], in_packet[p],
                       platform, round, length_of>>,
           Sent(p) \in Nat, Sent(p)' \in Nat, Sent(p) <= Sent(p)',
           Sent(p) = length_of => Sent(p)' = length_of
    PROVE  PortInv(p)'
<1>1. tx[p] \in Seq(Nat) /\ seen[p] \in Nat
  BY TypeParts DEF EndTypes
<1>2. CASE Unanswered(p)
  <2>1. \A k \in 1 .. Len(tx[p]) : tx[p][k] \in Nat
    BY <1>1
  <2> QED
    BY <1>1, <1>2, <2>1 DEF PortInv, Unanswered
<1>3. CASE Answered(p)
  <2>1. PICK A \in Answers(p) : Delivered(p, A)
    BY <1>3 DEF Answered
  <2>2. A \in Answers(p)' /\ index(p)' = index(p)
    BY DEF Answers, Answer, index
  <2>3. Delivered(p, A)'
    BY <2>1, <2>2 DEF Delivered
  <2> QED
    BY <1>3, <2>2, <2>3 DEF PortInv, Answered
<1> QED
  BY <1>2, <1>3 DEF PortInv

(* The same, of every port but one, when the loops do not move.            *)
LEMMA OtherPorts ==
    ASSUME IInv, Active, UNCHANGED <<platform, loop, packets, round>>, NEW p \in Ports,
           \A q \in Ports \ {p} : UNCHANGED <<tx[q], seen[q], coming[q], rx[q], overrun[q]>>,
           PortInv(p)'
    PROVE  \A q \in Ports : (Unanswered(q) \/ Answered(q))' /\ LengthKnown(q)'
<1> SUFFICES ASSUME NEW q \in Ports
             PROVE  PortInv(q)' /\ LengthKnown(q)'
  BY DEF PortInv
<1>1. LengthKnown(q)'
  BY DEF IInv, LengthKnown, index, LengthByte, loop, packets
<1>2. CASE q = p
  BY <1>1, <1>2
<1>3. CASE q # p
  <2>1. Sent(q)' = Sent(q) /\ Sent(q) \in Nat
    BY SentBounds DEF IInv, Sent, loop
  <2>2. UNCHANGED <<tx[q], seen[q], coming[q], rx[q], overrun[q], in_packet[q],
                    platform, round, length_of>>
    BY <1>3 DEF loop, packets
  <2>3. TypeOK /\ PortInv(q)
    BY DEF IInv, PortInv
  <2> QED
    BY <1>1, <2>1, <2>2, <2>3, Frame
<1> QED
  BY <1>2, <1>3

LEMMA InvSend == ASSUME IInv, TypeOK', NEW p \in Ports, Send(p) PROVE IInv'
<1>1. /\ tx[p] # <<>> /\ UNCHANGED <<platform, pace, coming, fifo, loop, packets, round>>
      /\ tx' = [tx EXCEPT ![p] = Tail(tx[p])]
      /\ seen' = [seen EXCEPT ![p] = IF Head(tx[p]) = seen[p] THEN seen[p] + 1 ELSE seen[p]]
  BY DEF Send
<1>2. /\ tx \in [Ports -> Seq(Nat)] /\ seen \in [Ports -> Nat]
      /\ pc \in {"idle", "write", "read", "check", "verify", "error"}
  BY TypeParts DEF IInv, EndTypes, LoopTypes
<1>3. pc # "idle"
  BY <1>1 DEF IInv, Quiet
<1>4. Loops' /\ (Active' <=> Active)
  BY <1>1 DEF IInv, Loops, loop, Active
<1>5. \A q \in Ports : Paced(q)'
  BY <1>1 DEF IInv, Paced, fifo
<1>6. ASSUME Active PROVE PortInv(p)'
  <2> DEFINE s == tx[p]
             n == seen[p]
  <2>1. Unanswered(p)
    BY <1>1, <1>6 DEF IInv, Answered
  <2>2. s \in Seq(Nat) /\ s # <<>> /\ n \in Nat /\ tx'[p] = Tail(s)
        /\ seen'[p] = IF Head(s) = n THEN n + 1 ELSE n
    BY <1>1, <1>2
  <2>3. Sent(p)' = Sent(p) /\ Sent(p) \in Nat
    BY <1>1, SentBounds DEF IInv, Sent, loop
  <2>4. /\ \A k \in 1 .. Len(s) : n <= s[k] /\ s[k] < Sent(p)
        /\ \A k, m \in 1 .. Len(s) : k < m => s[k] < s[m]
    BY <2>1 DEF Unanswered
  <2> HIDE DEF s, n
  <2>5. /\ Len(s) \in Nat /\ 1 \in 1 .. Len(s) /\ Head(s) = s[1]
        /\ Len(Tail(s)) = Len(s) - 1
        /\ \A k \in 1 .. Len(s) - 1 : Tail(s)[k] = s[k + 1] /\ k + 1 \in 1 .. Len(s)
    BY <2>2
  <2>6. \A k \in 1 .. Len(s) : s[k] \in Nat
    BY <2>2
  <2>7. /\ seen'[p] <= Sent(p)
        /\ \A k \in 1 .. Len(s) - 1 : seen'[p] <= s[k + 1] /\ s[k + 1] < Sent(p)
    BY <2>2, <2>3, <2>4, <2>5, <2>6
  <2>8. \A k, m \in 1 .. Len(s) - 1 : k < m => s[k + 1] < s[m + 1]
    BY <2>4, <2>5
  <2>9. /\ \A k \in 1 .. Len(tx'[p]) : seen'[p] <= tx'[p][k] /\ tx'[p][k] < Sent(p)'
        /\ \A k, m \in 1 .. Len(tx'[p]) : k < m => tx'[p][k] < tx'[p][m]
    BY <2>2, <2>3, <2>5, <2>7, <2>8
  <2>10. UNCHANGED <<coming, rx, in_packet, overrun>>
    BY <1>1 DEF fifo, packets
  <2> QED
    BY <2>1, <2>3, <2>7, <2>9, <2>10 DEF PortInv, Unanswered
<1>7. Active => \A q \in Ports : (Unanswered(q) \/ Answered(q))' /\ LengthKnown(q)'
  <2>1. \A q \in Ports \ {p} : UNCHANGED <<tx[q], seen[q], coming[q], rx[q], overrun[q]>>
    BY <1>1, <1>2 DEF fifo
  <2> QED
    BY <1>1, <1>6, <2>1, OtherPorts
<1> QED
  BY <1>1, <1>3, <1>4, <1>5, <1>7 DEF IInv, loop

(* The device answers once, when it has the whole request.                 *)
LEMMA InvRespond == ASSUME IInv, TypeOK', NEW p \in Ports, Respond(p) PROVE IInv'
<1>1. /\ length_of > 0 /\ seen[p] = length_of
      /\ UNCHANGED <<platform, pace, tx, fifo, loop, packets, round>>
      /\ seen' = [seen EXCEPT ![p] = 0]
  BY DEF Respond
<1>2. PICK A \in Answers(p) : coming' = [coming EXCEPT ![p] = A]
  BY DEF Respond
<1>3. /\ tx \in [Ports -> Seq(Nat)] /\ seen \in [Ports -> Nat]
      /\ coming \in [Ports -> Seq(Bytes)] /\ length_of \in Nat
      /\ pc \in {"idle", "write", "read", "check", "verify", "error"}
  BY TypeParts, SentBounds DEF IInv, EndTypes, LoopTypes
<1>4. pc # "idle"
  BY <1>1 DEF IInv, Quiet
<1>5. Loops' /\ (Active' <=> Active)
  BY <1>1 DEF IInv, Loops, loop, Active
<1>6. \A q \in Ports : Paced(q)'
  BY <1>1 DEF IInv, Paced, fifo
<1>7. ASSUME Active PROVE PortInv(p)'
  <2>1. Unanswered(p)
    BY <1>1, <1>3, <1>7 DEF IInv, Answered
  <2>2. Sent(p) = length_of
    BY <1>1, <1>3, <2>1, SentBounds DEF IInv, Unanswered, Sent
  <2>3. Len(tx[p]) = 0
    <3> SUFFICES ASSUME Len(tx[p]) # 0 PROVE FALSE
      OBVIOUS
    <3>1. 1 \in 1 .. Len(tx[p]) /\ tx[p][1] \in Nat
      BY <1>3
    <3>2. length_of <= tx[p][1] /\ tx[p][1] < length_of
      BY <1>1, <2>1, <2>2, <3>1 DEF Unanswered
    <3> QED
      BY <1>3, <3>1, <3>2
  <2>4. tx[p] = <<>>
    BY <1>3, <2>3
  <2>5. Len(A) \in Nat /\ coming'[p] = A /\ A \in Answers(p)'
    BY <1>1, <1>2, <1>3, Packets, TypeParts DEF IInv, Answers, Answer
  <2>6. UNCHANGED <<tx, rx, in_packet, overrun, length_of>> /\ Sent(p)' = Sent(p)
    BY <1>1 DEF fifo, packets, loop, Sent
  <2>7. Delivered(p, A)'
    <3>1. in_packet'[p] = <<>> /\ rx'[p] = <<>> /\ ~overrun'[p]
      BY <2>1, <2>6 DEF Unanswered
    <3>2. Len(in_packet'[p]) = 0 /\ Len(rx'[p]) = 0
      BY <3>1
    <3> QED
      BY <2>5, <3>1, <3>2 DEF Delivered, index
  <2> QED
    BY <1>1, <1>3, <2>2, <2>4, <2>5, <2>6, <2>7 DEF PortInv, Answered
<1>8. Active => \A q \in Ports : (Unanswered(q) \/ Answered(q))' /\ LengthKnown(q)'
  <2>1. \A q \in Ports \ {p} : UNCHANGED <<tx[q], seen[q], coming[q], rx[q], overrun[q]>>
    BY <1>1, <1>2, <1>3 DEF fifo
  <2> QED
    BY <1>1, <1>7, <2>1, OtherPorts
<1> QED
  BY <1>1, <1>4, <1>5, <1>6, <1>8 DEF IInv, loop

(* A byte that arrives is the next of the answer, unless some was lost.    *)
LEMMA InvArrive == ASSUME IInv, TypeOK', NEW p \in Ports, Arrive(p) PROVE IInv'
<1>1. /\ coming[p] # <<>> /\ since[p] < pace
      /\ UNCHANGED <<platform, pace, tx, seen, loop, packets, round>>
      /\ coming' = [coming EXCEPT ![p] = Tail(coming[p])]
      /\ since' = [since EXCEPT ![p] = since[p] + 1]
  BY DEF Arrive
<1>2. \/ /\ rx' = [rx EXCEPT ![p] = Append(rx[p], Head(coming[p]))] /\ overrun' = overrun
         /\ platform = "host" \/ Len(rx[p]) < RxDepth
      \/ /\ platform = "tiva" /\ overrun' = [overrun EXCEPT ![p] = TRUE] /\ rx' = rx
         /\ ~(Len(rx[p]) < RxDepth)
  BY TypeParts, Constants DEF Arrive, IInv, EndTypes
<1>3. /\ coming \in [Ports -> Seq(Bytes)] /\ rx \in [Ports -> Seq(Bytes)]
      /\ overrun \in [Ports -> BOOLEAN] /\ since \in [Ports -> 0 .. pace]
      /\ in_packet \in [Ports -> Seq(Bytes)]
      /\ pc \in {"idle", "write", "read", "check", "verify", "error"}
  BY TypeParts DEF IInv, EndTypes, FifoTypes, LoopTypes, PacketTypes
<1>4. pc # "idle"
  BY <1>1 DEF IInv, Quiet
<1>5. Loops' /\ (Active' <=> Active)
  BY <1>1 DEF IInv, Loops, loop, Active
<1>6. pace \in Nat
  BY TypeParts, Constants DEF IInv, EndTypes
<1> DEFINE r == Len(rx[p])
           head == Head(coming[p])
<1>7. r \in Nat /\ head \in Bytes
      /\ Len(Append(rx[p], head)) = r + 1 /\ Append(rx[p], head)[r + 1] = head
      /\ \A k \in 1 .. r : Append(rx[p], head)[k] = rx[p][k]
  BY <1>1, <1>3
<1>8. \A q \in Ports : Paced(q)'
  <2>1. ASSUME NEW q \in Ports, q # p PROVE Paced(q)'
    BY <1>1, <1>2, <1>3, <2>1 DEF IInv, Paced
  <2>2. since[p] \in Nat /\ since'[p] = since[p] + 1 /\ pace' = pace
    BY <1>1, <1>3, <1>6
  <2>3. Paced(p)
    BY DEF IInv
  <2>4. Paced(p)'
    <3>1. CASE rx' = [rx EXCEPT ![p] = Append(rx[p], head)] /\ overrun' = overrun
      BY <1>3, <1>7, <2>2, <2>3, <3>1 DEF Paced
    <3>2. CASE rx' = rx /\ ~(r < RxDepth)
      <4>1. ~(pace <= Chunk /\ pace <= RxDepth)
        BY <1>1, <1>6, <1>7, <2>2, <2>3, <3>2, Constants DEF Paced
      <4> QED
        BY <1>7, <2>2, <2>3, <3>2, <4>1 DEF Paced
    <3> QED
      BY <1>2, <3>1, <3>2
  <2> QED
    BY <2>1, <2>4
<1>9. ASSUME Active PROVE PortInv(p)'
  <2>1. PICK A \in Answers(p) : Delivered(p, A)
    BY <1>1, <1>9 DEF IInv, Unanswered, Answered
  <2>2. Answered(p)
    BY <1>1, <1>9 DEF IInv, Unanswered
  <2> DEFINE n == index(p)
             c == Len(coming[p])
             a == Len(A)
  <2>3. /\ n \in Nat /\ c \in Nat /\ c > 0 /\ head = coming[p][1]
        /\ Len(coming'[p]) = c - 1
        /\ \A k \in 1 .. c - 1 : coming'[p][k] = coming[p][k + 1]
        /\ index(p)' = index(p) /\ in_packet' = in_packet
    <3>1. coming[p] \in Seq(Bytes) /\ coming'[p] = Tail(coming[p])
      BY <1>1, <1>3
    <3> QED
      BY <1>1, <1>3, <3>1 DEF index, packets
  <2>4. a \in Nat /\ A \in Answers(p)'
    BY <1>1, <2>1, Packets, TypeParts DEF IInv, Answers, Answer
  <2>5. Delivered(p, A)'
    <3>1. CASE /\ rx' = [rx EXCEPT ![p] = Append(rx[p], head)] /\ overrun' = overrun
               /\ platform = "host" \/ r < RxDepth
      <4>1. rx'[p] = Append(rx[p], head) /\ overrun'[p] = overrun[p]
        BY <1>3, <3>1
      <4>6. ~overrun[p]
        BY <1>7, <2>1, <3>1, Constants DEF Delivered
      <4> HIDE DEF r, head, n, c, a
      <4>2. /\ n + r + c <= a
            /\ \A k \in 1 .. n : in_packet[p][k] = A[k]
            /\ \A k \in 1 .. r : rx[p][k] = A[n + k]
            /\ ~overrun[p] => /\ n + r + c = a
                              /\ \A k \in 1 .. c : coming[p][k] = A[n + r + k]
        BY <2>1 DEF Delivered, n, r, c, a
      <4>4. ~overrun[p] => head = A[n + (r + 1)]
        <5>1. 1 \in 1 .. c /\ n + r + 1 = n + (r + 1)
          BY <1>7, <2>3
        <5>2. ~overrun[p] => coming[p][1] = A[n + r + 1]
          BY <4>2, <5>1
        <5> QED
          BY <2>3, <5>1, <5>2
      <4>5. /\ Len(rx'[p]) = r + 1 /\ \A k \in 1 .. r : rx'[p][k] = rx[p][k]
            /\ rx'[p][r + 1] = head
        BY <1>7, <4>1
      <4>7. \A k \in 1 .. r + 1 : rx'[p][k] = A[n + k]
        <5> SUFFICES ASSUME NEW k \in 1 .. r + 1 PROVE rx'[p][k] = A[n + k]
          OBVIOUS
        <5>1. CASE k = r + 1
          BY <4>4, <4>5, <4>6, <5>1
        <5>2. CASE k # r + 1
          <6>1. k \in 1 .. r
            BY <1>7, <5>2
          <6> QED
            BY <4>2, <4>5, <6>1
        <5> QED
          BY <5>1, <5>2
      <4>8. \A k \in 1 .. c - 1 : coming'[p][k] = A[n + (r + 1) + k]
        <5> SUFFICES ASSUME NEW k \in 1 .. c - 1
                     PROVE  coming'[p][k] = A[n + (r + 1) + k]
          OBVIOUS
        <5>1. k + 1 \in 1 .. c /\ n + r + (k + 1) = n + (r + 1) + k
          BY <1>7, <2>3
        <5>2. coming[p][k + 1] = A[n + r + (k + 1)]
          BY <4>2, <4>6, <5>1
        <5> QED
          BY <2>3, <5>1, <5>2
      <4>9. n + (r + 1) + (c - 1) = a
        BY <1>7, <2>3, <4>2, <4>6
      <4>10. /\ index(p)' = n /\ Len(rx'[p]) = r + 1 /\ Len(coming'[p]) = c - 1
             /\ Len(A) = a /\ a \in Nat /\ in_packet'[p] = in_packet[p] /\ ~overrun'[p]
        <5>1. index(p)' = n /\ Len(coming'[p]) = c - 1 /\ in_packet'[p] = in_packet[p]
          BY <2>3 DEF n
        <5>2. Len(A) = a /\ a \in Nat
          BY <2>4 DEF a
        <5>3. ~overrun'[p]
          BY <4>1, <4>6
        <5> QED
          BY <4>5, <5>1, <5>2, <5>3
      <4> QED
        BY <4>2, <4>7, <4>8, <4>9, <4>10 DEF Delivered
    <3>2. CASE /\ platform = "tiva" /\ overrun' = [overrun EXCEPT ![p] = TRUE]
               /\ rx' = rx /\ ~(r < RxDepth)
      <4>1. r >= RxDepth /\ overrun'[p] = TRUE /\ rx'[p] = rx[p] /\ platform' = "tiva"
        BY <1>1, <1>3, <1>7, <3>2, Constants
      <4> HIDE DEF n, c, a
      <4>2. /\ n + r + c <= a
            /\ \A k \in 1 .. n : in_packet[p][k] = A[k]
            /\ \A k \in 1 .. r : rx[p][k] = A[n + k]
        BY <2>1 DEF Delivered, n, c, a
      <4>3. n + r + (c - 1) <= a
        BY <1>7, <2>3, <2>4, <4>2
      <4>4. /\ index(p)' = n /\ Len(rx'[p]) = r /\ Len(coming'[p]) = c - 1
            /\ Len(A) = a /\ in_packet'[p] = in_packet[p]
        <5>1. index(p)' = n /\ Len(coming'[p]) = c - 1 /\ in_packet'[p] = in_packet[p]
          BY <2>3 DEF n
        <5> QED
          BY <4>1, <5>1 DEF a
      <4> QED
        BY <4>1, <4>2, <4>3, <4>4 DEF Delivered
    <3> QED
      BY <1>2, <3>1, <3>2
  <2>6. Sent(p)' = Sent(p) /\ length_of' = length_of
    BY <1>1 DEF Sent, loop
  <2> QED
    BY <1>1, <2>2, <2>4, <2>5, <2>6 DEF PortInv, Answered
<1>10. Active => \A q \in Ports : (Unanswered(q) \/ Answered(q))' /\ LengthKnown(q)'
  <2>1. \A q \in Ports \ {p} : UNCHANGED <<tx[q], seen[q], coming[q], rx[q], overrun[q]>>
    BY <1>1, <1>2, <1>3
  <2> QED
    BY <1>1, <1>9, <2>1, OtherPorts
<1> QED
  BY <1>1, <1>4, <1>5, <1>8, <1>10 DEF IInv, loop

LEMMA InvAside == ASSUME IInv, TypeOK', UNCHANGED <<ends, fifo, loop, packets, round>>
                  PROVE  IInv'
<1>1. Loops' /\ (Active' <=> Active) /\ pc' = pc /\ \A p \in Ports : Paced(p)'
  BY DEF IInv, Loops, loop, Active, Paced, ends, fifo
<1>2. pc = "idle" => \A p \in Ports : Quiet(p)'
  BY DEF IInv, Quiet, Answer, ends, fifo, loop, packets
<1>3. ASSUME Active, NEW p \in Ports PROVE PortInv(p)' /\ LengthKnown(p)'
  <2>1. Sent(p)' = Sent(p) /\ Sent(p) \in Nat
    BY SentBounds DEF IInv, Sent, loop
  <2>2. TypeOK /\ PortInv(p)
    BY <1>3 DEF IInv, PortInv
  <2>3. UNCHANGED <<tx[p], seen[p], coming[p], rx[p], overrun[p], in_packet[p],
                    platform, round, length_of>>
    BY DEF ends, fifo, loop, packets
  <2>4. PortInv(p)'
    BY <2>1, <2>2, <2>3, Frame
  <2>5. LengthKnown(p)'
    BY <1>3 DEF IInv, LengthKnown, index, LengthByte, loop, packets
  <2> QED
    BY <2>4, <2>5
<1> QED
  BY <1>1, <1>2, <1>3 DEF IInv, PortInv

(* The error handler takes over, wherever the ports are.                   *)
LEMMA InvError ==
    ASSUME IInv, TypeOK', pc' = "error",
           UNCHANGED <<pace, fifo, length_of, round>>
    PROVE  IInv'
<1>1. Loops' /\ ~Active'
  BY DEF IInv, Loops, Active
<1>2. \A p \in Ports : Paced(p)'
  BY DEF IInv, Paced, fifo
<1> QED
  BY <1>1, <1>2 DEF IInv

(* A call finds nothing outstanding.                                       *)
LEMMA InvCall == ASSUME IInv, TypeOK', Call PROVE IInv'
<1>1. /\ pc = "idle" /\ round' = round + 1
      /\ UNCHANGED <<ends, rx, overrun, i, port>>
      /\ in_packet' = [p \in Ports |-> <<>>] /\ length' = [p \in Ports |-> 1]
      /\ length_set' = [p \in Ports |-> FALSE] /\ since' = [p \in Ports |-> 0]
  BY DEF Call
<1>2. \/ pc' = "error"
      \/ pc' = "write" /\ length_of' \in RequestLengths
  BY Constants DEF Call
<1>3. \A p \in Ports : Quiet(p)
  BY <1>1 DEF IInv
<1>4. i = 0 /\ port = 1 /\ round \in Nat
  BY <1>1, TypeParts, Constants DEF IInv, Loops, LoopTypes
<1>5. length_of' \in Nat /\ (pc' = "write" => length_of' > 0)
  <2>1. TypeOK' => length_of' \in {0} \cup RequestLengths
    BY TypeParts DEF LoopTypes
  <2>2. \A n \in RequestLengths : n \in Nat
    BY Constants
  <2>3. \A n \in RequestLengths : n > 0
    BY Constants
  <2>4. CASE length_of' \in RequestLengths
    BY <2>2, <2>3, <2>4
  <2>5. CASE length_of' = 0
    BY <1>2, <2>3, <2>5
  <2> QED
    BY <2>1, <2>4, <2>5
<1>6. Loops'
  BY <1>1, <1>2, <1>4, <1>5 DEF Loops, Active
<1>7. \A p \in Ports : Paced(p)'
  <2> SUFFICES ASSUME NEW p \in Ports PROVE Paced(p)'
    OBVIOUS
  <2>1. rx'[p] = <<>> /\ ~overrun'[p] /\ since'[p] = 0
    BY <1>1, <1>3 DEF Quiet
  <2>2. Len(rx'[p]) = 0
    BY <2>1
  <2> QED
    BY <2>1, <2>2 DEF Paced
<1>8. ASSUME pc' = "write", NEW p \in Ports PROVE Unanswered(p)' /\ LengthKnown(p)'
  <2>1. /\ tx'[p] = <<>> /\ seen'[p] = 0 /\ coming'[p] = <<>> /\ rx'[p] = <<>>
        /\ ~overrun'[p] /\ in_packet'[p] = <<>>
    BY <1>1, <1>3 DEF Quiet, ends
  <2>2. Sent(p)' = 0
    BY <1>1, <1>4, <1>8, Constants DEF Sent, Ports
  <2>3. Len(tx'[p]) = 0
    BY <2>1
  <2>4. Unanswered(p)'
    BY <2>1, <2>2, <2>3 DEF Unanswered
  <2>5. LengthKnown(p)'
    BY <1>1, <1>8 DEF LengthKnown
  <2> QED
    BY <2>4, <2>5
<1> QED
  BY <1>2, <1>6, <1>7, <1>8 DEF IInv, Active

(* The next byte is offered to the next port.                              *)
LEMMA InvWrite == ASSUME IInv, TypeOK', Write PROVE IInv'
<1>1. /\ pc = "write"
      /\ UNCHANGED <<platform, pace, seen, coming, fifo, length_of, packets, round>>
  BY DEF Write
<1>2. tx' = [tx EXCEPT ![port] = Append(tx[port], i)] \/ tx' = tx
  BY DEF Write
<1>3. \/ port < NumPorts /\ port' = port + 1 /\ UNCHANGED <<pc, i>>
      \/ ~(port < NumPorts) /\ port' = 1 /\ i + 1 = length_of /\ i' = 0 /\ pc' = "read"
      \/ ~(port < NumPorts) /\ port' = 1 /\ i + 1 # length_of /\ i' = i + 1 /\ pc' = "write"
  BY <1>1 DEF Write, NextPort
<1>4. /\ tx \in [Ports -> Seq(Nat)] /\ seen \in [Ports -> Nat]
      /\ port \in Ports /\ i \in Nat
  BY TypeParts DEF IInv, EndTypes, LoopTypes
<1>5. length_of \in Nat /\ i < length_of
  BY <1>1, <1>4, SentBounds DEF IInv, Loops
<1>6. NumPorts \in Nat /\ port \in 1 .. NumPorts /\ Ports = 1 .. NumPorts
  BY <1>4, Constants DEF Ports
<1>7. Loops'
  BY <1>1, <1>3, <1>4, <1>5 DEF IInv, Loops, Active
<1>8. \A p \in Ports : Paced(p)' /\ LengthKnown(p)'
  BY <1>1, <1>3 DEF IInv, Active, Paced, LengthKnown, index, LengthByte, fifo, packets
<1>9. ASSUME NEW p \in Ports PROVE PortInv(p)'
  <2>1. p \in 1 .. NumPorts /\ PortInv(p) /\ TypeOK
    BY <1>1, <1>6 DEF IInv, Active, PortInv
  <2>2. /\ Sent(p) = IF p < port THEN i + 1 ELSE i
        /\ Sent(p)' = IF p <= port THEN i + 1 ELSE i
    <3>1. CASE port < NumPorts
      BY <1>1, <1>3, <1>6, <2>1, <3>1 DEF Sent
    <3>2. CASE ~(port < NumPorts)
      BY <1>1, <1>3, <1>4, <1>5, <1>6, <2>1, <3>2 DEF Sent
    <3> QED
      BY <3>1, <3>2
  <2>3. UNCHANGED <<seen[p], coming[p], rx[p], overrun[p], in_packet[p],
                    platform, round, length_of>>
    BY <1>1 DEF fifo, packets
  <2>4. CASE tx'[p] = tx[p]
    <3>1. /\ Sent(p) \in Nat /\ Sent(p)' \in Nat /\ Sent(p) <= Sent(p)'
          /\ Sent(p) = length_of => Sent(p)' = length_of
      BY <1>4, <1>5, <1>6, <2>1, <2>2
    <3> QED
      BY <2>1, <2>3, <2>4, <3>1, Frame
  <2>5. CASE tx'[p] # tx[p]
    <3>1. p = port /\ tx'[p] = Append(tx[p], i)
      BY <1>2, <1>4, <2>5
    <3>2. Sent(p) = i /\ Sent(p)' = i + 1
      BY <1>4, <1>6, <2>2, <3>1
    <3>3. Unanswered(p)
      BY <1>4, <1>5, <2>1, <3>2 DEF PortInv, Answered
    <3> DEFINE s == tx[p]
               n == seen[p]
    <3>4. s \in Seq(Nat) /\ n \in Nat /\ tx'[p] = Append(s, i) /\ seen'[p] = n
      BY <1>1, <1>4, <3>1
    <3>5. /\ n <= i
          /\ \A k \in 1 .. Len(s) : n <= s[k] /\ s[k] < i
          /\ \A k, m \in 1 .. Len(s) : k < m => s[k] < s[m]
      BY <3>2, <3>3 DEF Unanswered
    <3> HIDE DEF s, n
    <3>6. /\ Len(s) \in Nat /\ Len(Append(s, i)) = Len(s) + 1
          /\ Append(s, i)[Len(s) + 1] = i
          /\ \A k \in 1 .. Len(s) : Append(s, i)[k] = s[k] /\ s[k] \in Nat
      BY <1>4, <3>4
    <3>7. \A k \in 1 .. Len(s) + 1 : k = Len(s) + 1 \/ k \in 1 .. Len(s)
      BY <3>6
    <3>8. \A k \in 1 .. Len(s) + 1 : n <= Append(s, i)[k] /\ Append(s, i)[k] < i + 1
      BY <1>4, <3>4, <3>5, <3>6, <3>7
    <3>9. \A k, m \in 1 .. Len(s) + 1 :
             k < m => Append(s, i)[k] < Append(s, i)[m]
      <4> SUFFICES ASSUME NEW k \in 1 .. Len(s) + 1, NEW m \in 1 .. Len(s) + 1, k < m
                   PROVE  Append(s, i)[k] < Append(s, i)[m]
        OBVIOUS
      <4>1. k \in 1 .. Len(s)
        BY <3>6
      <4>2. CASE m = Len(s) + 1
        BY <3>5, <3>6, <4>1, <4>2
      <4>3. CASE m \in 1 .. Len(s)
        BY <3>5, <3>6, <4>1, <4>3
      <4> QED
        BY <3>7, <4>2, <4>3
    <3>10. seen'[p] <= Sent(p)'
      BY <1>4, <3>2, <3>4, <3>5
    <3> QED
      BY <2>3, <3>2, <3>3, <3>4, <3>6, <3>8, <3>9, <3>10 DEF PortInv, Unanswered
  <2> QED
    BY <2>4, <2>5
<1> QED
  BY <1>3, <1>1, <1>7, <1>8, <1>9 DEF IInv, PortInv

(* Two sequences one after the other.                                      *)
LEMMA Concats ==
    ASSUME NEW S, NEW x \in Seq(S), NEW y \in Seq(S)
    PROVE  /\ Len(x) \in Nat /\ Len(y) \in Nat
           /\ x \o y \in Seq(S) /\ Len(x \o y) = Len(x) + Len(y)
           /\ \A k \in 1 .. Len(x) : (x \o y)[k] = x[k]
           /\ \A k \in 1 .. Len(y) : (x \o y)[Len(x) + k] = y[k]
OBVIOUS

(* What is taken from the FIFO goes to the end of the packet.              *)
LEMMA InvRead == ASSUME IInv, TypeOK', Read PROVE IInv'
<1> DEFINE s == rx[port]
           t == Taken
           b == in_packet[port]
<1>1. /\ pc = "read" /\ ~(overrun[port] /\ s # <<>>)
      /\ in_packet' = [in_packet EXCEPT ![port] = b \o SubSeq(s, 1, t)]
      /\ rx' = [rx EXCEPT ![port] = SubSeq(s, t + 1, Len(s))]
      /\ since' = [since EXCEPT ![port] = 0]
      /\ UNCHANGED <<ends, overrun, length_of, length, length_set, round>>
  BY DEF Read
<1>2. i' = i /\ (UNCHANGED pc \/ (pc' = "check" /\ port' = 1))
  <2>1. NextPort(pc' = "check" /\ UNCHANGED i)
    BY DEF Read
  <2>2. CASE port < NumPorts
    BY <2>1, <2>2 DEF NextPort
  <2>3. CASE ~(port < NumPorts)
    BY <2>1, <2>3 DEF NextPort
  <2> QED
    BY <2>2, <2>3
<1>3. /\ rx \in [Ports -> Seq(Bytes)] /\ in_packet \in [Ports -> Seq(Bytes)]
      /\ overrun \in [Ports -> BOOLEAN] /\ since \in [Ports -> 0 .. pace] /\ port \in Ports
      /\ FifoTypes /\ LoopTypes /\ TypeOK
  BY TypeParts DEF IInv, FifoTypes, LoopTypes, PacketTypes
<1>4. Loops' /\ Active /\ Active'
  BY <1>1, <1>2 DEF IInv, Loops, Active
<1>5. /\ t \in Nat /\ t <= Len(s) /\ Len(s) \in Nat
      /\ Len(SubSeq(s, 1, t)) = t /\ Len(SubSeq(s, t + 1, Len(s))) = Len(s) - t
      /\ SubSeq(s, 1, t) \in Seq(Bytes) /\ SubSeq(s, t + 1, Len(s)) \in Seq(Bytes)
  BY <1>3, Halves
<1>6. /\ \A k \in 1 .. t : SubSeq(s, 1, t)[k] = s[k]
      /\ \A k \in 1 .. Len(s) - t : SubSeq(s, t + 1, Len(s))[k] = s[t + k]
  BY <1>3, Halves
<1>7. /\ rx'[port] = SubSeq(s, t + 1, Len(s)) /\ in_packet'[port] = b \o SubSeq(s, 1, t)
      /\ \A p \in Ports : p # port => /\ rx'[p] = rx[p] /\ in_packet'[p] = in_packet[p]
                                      /\ since'[p] = since[p]
  BY <1>1, <1>3
<1>8. \A p \in Ports : Paced(p)'
  <2>1. ASSUME NEW p \in Ports, p # port PROVE Paced(p)'
    BY <1>1, <1>7, <2>1 DEF IInv, Paced, ends
  <2>2. Paced(port) /\ since[port] <= pace /\ since'[port] = 0 /\ pace \in Nat
        /\ pace' = pace /\ since[port] \in Nat
    <3>1. pace \in Nat
      BY <1>3, TypeParts, Constants DEF EndTypes
    <3> QED
      BY <1>1, <1>3, <3>1 DEF IInv, ends
  <2>3. t = IF Len(s) < Chunk THEN Len(s) ELSE Chunk
    BY DEF Taken
  <2>4. pace <= Chunk => Len(rx'[port]) <= 0
    <3>1. pace <= Chunk => Len(s) <= Chunk
      BY <1>5, <2>2, Constants DEF Paced
    <3> QED
      BY <1>5, <1>7, <2>3, <3>1, Constants
  <2>5. ASSUME NEW p \in Ports, p = port PROVE Paced(p)'
    BY <1>1, <2>2, <2>4, <2>5 DEF Paced
  <2> QED
    BY <2>1, <2>5
<1>9. ASSUME NEW p \in Ports PROVE LengthKnown(p)'
  <2>1. LengthKnown(p) /\ pc' # "verify"
    BY <1>1, <1>2, <1>4 DEF IInv
  <2>2. CASE p # port
    BY <1>1, <1>7, <2>1, <2>2 DEF LengthKnown, index, LengthByte
  <2>3. CASE p = port
    <3> DEFINE u == SubSeq(s, 1, t)
    <3>1. b \in Seq(Bytes) /\ u \in Seq(Bytes) /\ in_packet'[p] = b \o u
          /\ in_packet[p] = b
      BY <1>3, <1>5, <1>7, <2>3
    <3> HIDE DEF b, u
    <3>2. Len(b \o u) >= Len(b) /\ (Len(b) > 0 => (b \o u)[1] = b[1])
      BY <3>1, Concats
    <3>3. index(p) > 0 => index(p)' > 0 /\ in_packet'[p][1] = in_packet[p][1]
      BY <3>1, <3>2 DEF index
    <3> QED
      BY <1>1, <2>1, <3>3 DEF LengthKnown, LengthByte
  <2> QED
    BY <2>2, <2>3
<1>10. ASSUME NEW p \in Ports PROVE PortInv(p)'
  <2>1. Sent(p)' = Sent(p) /\ Sent(p) \in Nat /\ length_of' = length_of
    BY <1>1, <1>2, <1>3, SentBounds DEF Sent, IInv
  <2>2. TypeOK /\ PortInv(p)
    BY <1>4 DEF IInv, PortInv
  <2>3. UNCHANGED <<tx[p], seen[p], coming[p], overrun[p], platform, round, length_of>>
    BY <1>1 DEF ends
  <2>4. CASE p # port
    <3>1. rx'[p] = rx[p] /\ in_packet'[p] = in_packet[p]
      BY <1>7, <2>4
    <3>6. UNCHANGED <<tx[p], seen[p], coming[p], rx[p], overrun[p], in_packet[p],
                      platform, round, length_of>>
      BY <2>3, <3>1
    <3> QED
      BY <2>1, <2>2, <3>6, Frame
  <2>5. CASE p = port /\ Unanswered(p)
    <3>1. s = <<>> /\ b = <<>>
      BY <2>5 DEF Unanswered
    <3>2. t = 0 /\ Len(s) = 0
      BY <1>5, <3>1
    <3>3. SubSeq(s, 1, t) = <<>> /\ SubSeq(s, t + 1, Len(s)) = <<>>
      BY <1>5, <3>2
    <3>4. b \o SubSeq(s, 1, t) = <<>>
      BY <3>1, <3>3
    <3>5. rx'[p] = rx[p] /\ in_packet'[p] = in_packet[p]
      BY <1>7, <2>5, <3>1, <3>3, <3>4
    <3>6. UNCHANGED <<tx[p], seen[p], coming[p], rx[p], overrun[p], in_packet[p],
                      platform, round, length_of>>
      BY <2>3, <3>5
    <3> QED
      BY <2>1, <2>2, <3>6, Frame
  <2>6. CASE p = port /\ Answered(p)
    <3>1. PICK A \in Answers(p) : Delivered(p, A)
      BY <2>6 DEF Answered
    <3>2. A \in Answers(p)' /\ Len(A) \in Nat
      BY <1>3, <3>1, <2>3, Packets DEF Answers, Answer
    <3>3. ~overrun[p]
      <4>1. overrun[p] => Len(s) > 0
        BY <1>5, <2>6, <3>1, Constants DEF Delivered
      <4>2. overrun[p] => s # <<>>
        BY <4>1
      <4> QED
        BY <1>1, <2>6, <4>2
    <3> DEFINE n == Len(b)
               r == Len(s)
               c == Len(coming[p])
    <3>4. /\ n + r + c = Len(A)
          /\ \A k \in 1 .. n : b[k] = A[k]
          /\ \A k \in 1 .. r : s[k] = A[n + k]
          /\ \A k \in 1 .. c : coming[p][k] = A[n + r + k]
      BY <2>6, <3>1, <3>3 DEF Delivered, index
    <3>5. n \in Nat /\ r \in Nat /\ c \in Nat /\ b \in Seq(Bytes)
      BY <1>3, <1>5, <2>6, TypeParts DEF EndTypes
    <3>6. /\ Len(rx'[p]) = r - t /\ \A k \in 1 .. r - t : rx'[p][k] = s[t + k]
      BY <1>5, <1>6, <1>7, <2>6
    <3>7. /\ Len(in_packet'[p]) = n + t
          /\ \A k \in 1 .. n : in_packet'[p][k] = b[k]
          /\ \A k \in 1 .. t : in_packet'[p][n + k] = s[k]
      <4> DEFINE u == SubSeq(s, 1, t)
      <4>1. /\ u \in Seq(Bytes) /\ Len(u) = t /\ in_packet'[p] = b \o u
            /\ \A k \in 1 .. t : u[k] = s[k]
        BY <1>5, <1>6, <1>7, <2>6
      <4>3. b \in Seq(Bytes) /\ t \in Nat
        BY <1>5, <3>5
      <4> HIDE DEF u, t, b, n, s
      <4>2. /\ Len(b \o u) = Len(b) + t
            /\ \A k \in 1 .. Len(b) : (b \o u)[k] = b[k]
            /\ \A k \in 1 .. t : (b \o u)[Len(b) + k] = u[k]
        <5>0. b \in Seq(Bytes) /\ u \in Seq(Bytes)
          BY <4>1, <4>3
        <5>1. Len(b \o u) = Len(b) + Len(u)
          BY <5>0, Concats
        <5>2. \A k \in 1 .. Len(b) : (b \o u)[k] = b[k]
          BY <5>0, Concats
        <5>3. \A k \in 1 .. Len(u) : (b \o u)[Len(b) + k] = u[k]
          BY <5>0, Concats
        <5> QED
          BY <4>1, <5>1, <5>2, <5>3
      <4> QED
        BY <4>1, <4>2 DEF n
    <3> HIDE DEF n, r, c, b, s, t
    <3>8. t \in Nat /\ t <= r
      BY <1>5 DEF r
    <3>9. \A k \in 1 .. n + t : in_packet'[p][k] = A[k]
      <4> SUFFICES ASSUME NEW k \in 1 .. n + t PROVE in_packet'[p][k] = A[k]
        OBVIOUS
      <4>1. CASE k \in 1 .. n
        BY <3>4, <3>7, <4>1
      <4>2. CASE k \notin 1 .. n
        <5>1. k - n \in 1 .. t /\ k - n \in 1 .. r /\ n + (k - n) = k
          BY <3>5, <3>8, <4>2
        <5>2. in_packet'[p][n + (k - n)] = s[k - n] /\ s[k - n] = A[n + (k - n)]
          BY <3>4, <3>7, <5>1
        <5> QED
          BY <5>1, <5>2
      <4> QED
        BY <4>1, <4>2
    <3>10. \A k \in 1 .. r - t : rx'[p][k] = A[(n + t) + k]
      <4> SUFFICES ASSUME NEW k \in 1 .. r - t PROVE rx'[p][k] = A[(n + t) + k]
        OBVIOUS
      <4>1. t + k \in 1 .. r /\ n + (t + k) = (n + t) + k
        BY <3>5, <3>8
      <4>2. s[t + k] = A[n + (t + k)] /\ rx'[p][k] = s[t + k]
        BY <3>4, <3>6, <4>1
      <4> QED
        BY <4>1, <4>2
    <3>11. /\ (n + t) + (r - t) = n + r
           /\ (n + t) + (r - t) + c = Len(A)
      BY <3>4, <3>5, <3>8
    <3>12. /\ index(p)' = n + t /\ Len(rx'[p]) = r - t /\ Len(coming'[p]) = c
           /\ coming'[p] = coming[p] /\ ~overrun'[p]
      <4>1. Len(coming'[p]) = c /\ coming'[p] = coming[p]
        BY <2>3 DEF c
      <4>2. ~overrun'[p]
        BY <2>3, <3>3
      <4> QED
        BY <3>6, <3>7, <4>1, <4>2 DEF index
    <3>13. \A k \in 1 .. c : coming'[p][k] = A[(n + t) + (r - t) + k]
      BY <3>4, <3>11, <3>12
    <3>14. Delivered(p, A)'
      BY <3>2, <3>9, <3>10, <3>11, <3>12, <3>13 DEF Delivered
    <3> QED
      BY <2>1, <2>3, <2>6, <3>2, <3>14 DEF PortInv, Answered
  <2> QED
    BY <2>2, <2>4, <2>5, <2>6 DEF PortInv
<1> QED
  BY <1>1, <1>2, <1>4, <1>8, <1>9, <1>10 DEF IInv, PortInv

(* The loop is left only when no port has less than its length, which is   *)
(* then known.                                                             *)
LEMMA InvCheck == ASSUME IInv, TypeOK', Check PROVE IInv'
<1>1. /\ pc = "check" /\ UNCHANGED <<ends, fifo, i, port, length_of, in_packet, round>>
      /\ length' = [p \in Ports |-> LengthNow(p)]
      /\ length_set' = [p \in Ports |-> length_set[p] \/ index(p) > 0]
  BY DEF Check
<1>2. pc' \in {"error", "read", "verify"} /\ (pc' = "verify" => ~SomeIncomplete)
  BY DEF Check
<1>3. CASE pc' = "error"
  BY <1>1, <1>3, InvError DEF ends
<1>4. CASE pc' # "error"
  <2>1. Loops' /\ Active /\ Active' /\ length_of > 0
    BY <1>1, <1>2, <1>4 DEF IInv, Loops, Active
  <2>2. \A p \in Ports : Paced(p)'
    BY <1>1 DEF IInv, Paced, ends, fifo
  <2>3. ASSUME NEW p \in Ports PROVE PortInv(p)'
    <3>1. Sent(p)' = Sent(p) /\ Sent(p) \in Nat /\ TypeOK /\ PortInv(p)
      BY <1>1, <1>2, <2>1, SentBounds DEF IInv, Sent, PortInv
    <3>2. UNCHANGED <<tx[p], seen[p], coming[p], rx[p], overrun[p], in_packet[p],
                      platform, round, length_of>>
      BY <1>1 DEF ends, fifo
    <3> QED
      BY <3>1, <3>2, Frame
  <2>4. ASSUME NEW p \in Ports PROVE LengthKnown(p)'
    <3>1. LengthKnown(p)
      BY <2>1 DEF IInv
    <3>2. /\ length'[p] = LengthNow(p) /\ index(p)' = index(p) /\ in_packet' = in_packet
          /\ length_set'[p] <=> length_set[p] \/ index(p) > 0
      BY <1>1 DEF index
    <3>3. length_set'[p] => /\ index(p)' > 0
                            /\ length'[p] = LengthByte(p, in_packet[p][1])
      BY <3>1, <3>2 DEF LengthKnown, LengthNow
    <3>4. ~length_set'[p] => length'[p] = 1
      BY <3>1, <3>2 DEF LengthKnown, LengthNow
    <3>5. pc' = "verify" => length_set'[p] /\ length'[p] <= index(p)'
      <4>1. index(p) \in Nat /\ length'[p] \in Nat
        BY TypeParts DEF IInv, PacketTypes, index
      <4>2. pc' = "verify" => ~(index(p) < length'[p])
        BY <1>2 DEF SomeIncomplete
      <4> QED
        BY <3>2, <3>4, <4>1, <4>2
    <3>6. LengthByte(p, in_packet[p][1])' = LengthByte(p, in_packet[p][1])
      BY <3>2 DEF LengthByte
    <3> QED
      BY <3>3, <3>4, <3>5, <3>6 DEF LengthKnown
  <2> QED
    BY <1>2, <1>4, <2>1, <2>2, <2>3, <2>4 DEF IInv, PortInv
<1> QED
  BY <1>3, <1>4

(* A valid packet of the length its first byte says is a whole answer:     *)
(* there is no more of it.                                                 *)
LEMMA InvVerify == ASSUME IInv, TypeOK', Verify PROVE IInv'
<1>1. /\ pc = "verify" /\ UNCHANGED <<ends, fifo, i, port, length_of, packets, round>>
      /\ pc' \in {"idle", "error"} /\ (pc' = "idle" => \A p \in Ports : Valid(p))
  BY DEF Verify
<1>2. CASE pc' = "error"
  BY <1>1, <1>2, InvError DEF ends
<1>3. CASE pc' = "idle"
  <2>1. Loops' /\ Active /\ ~Active'
    BY <1>1, <1>3 DEF IInv, Loops, Active
  <2>2. \A p \in Ports : Paced(p)'
    BY <1>1 DEF IInv, Paced, ends, fifo
  <2>3. ASSUME NEW p \in Ports PROVE Quiet(p)'
    <3> DEFINE b == in_packet[p]
               R == ResponseLength[p]
               W == Answer(p, "ok", R)
    <3>1. /\ length_set[p] /\ index(p) > 0 /\ length[p] = LengthByte(p, b[1])
          /\ length[p] <= index(p) /\ b[1].kind = "ok"
      BY <1>1, <1>3, <2>1 DEF IInv, LengthKnown, Valid
    <3>2. /\ b \in Seq(Bytes) /\ rx[p] \in Seq(Bytes) /\ coming[p] \in Seq(Bytes)
          /\ LoopTypes
      BY TypeParts DEF IInv, PacketTypes, FifoTypes, EndTypes
    <3>3. Len(b) \in Nat /\ Len(b) >= R /\ Len(b) > 0 /\ R \in Nat
      BY <3>1, <3>2, Constants DEF LengthByte, index
    <3>4. b # <<>>
      BY <3>3
    <3>5. Answered(p)
      BY <2>1, <3>4 DEF IInv, Unanswered
    <3>6. PICK A \in Answers(p) : Delivered(p, A)
      BY <3>5 DEF Answered
    <3>7. /\ Len(b) + Len(rx[p]) + Len(coming[p]) <= Len(A)
          /\ \A k \in 1 .. Len(b) : b[k] = A[k]
          /\ overrun[p] => Len(rx[p]) >= RxDepth
      BY <3>6 DEF Delivered, index
    <3>8. A[1].kind = "ok"
      BY <3>1, <3>3, <3>7
    <3>9. A = W /\ Len(A) = R
      BY <3>2, <3>6, <3>8, Packets
    <3>10. Len(b) = R /\ Len(rx[p]) = 0 /\ Len(coming[p]) = 0
      <4> DEFINE r == Len(rx[p])
                 c == Len(coming[p])
                 l == Len(b)
                 a == Len(A)
      <4>1. r \in Nat /\ c \in Nat
        BY <3>2
      <4>2. l \in Nat /\ l >= R /\ R \in Nat /\ l + r + c <= a /\ a = R
        BY <3>3, <3>7, <3>9
      <4> HIDE DEF r, c, l, a, R
      <4>3. l = R /\ r = 0 /\ c = 0
        BY <4>1, <4>2
      <4> QED
        BY <4>3 DEF r, c, l
    <3>11. rx[p] = <<>> /\ coming[p] = <<>> /\ ~overrun[p]
      BY <3>2, <3>7, <3>10, Constants
    <3>12. b = W
      <4>1. W = [k \in 1 .. R |-> [kind |-> "ok", round |-> round, at |-> k]]
        BY DEF Answer
      <4>2. b = [k \in 1 .. R |-> b[k]]
        BY <3>2, <3>10
      <4>3. \A k \in 1 .. R : b[k] = W[k]
        BY <3>7, <3>9, <3>10
      <4> HIDE DEF b, R, W
      <4>4. W = [k \in 1 .. R |-> W[k]]
        BY <4>1
      <4> QED
        BY <4>2, <4>3, <4>4
    <3>13. tx[p] = <<>> /\ seen[p] = 0
      BY <3>5 DEF Answered
    <3>14. in_packet'[p] = Answer(p, "ok", ResponseLength[p])'
      BY <1>1, <3>12 DEF packets, Answer
    <3> QED
      BY <1>1, <3>11, <3>13, <3>14 DEF Quiet, ends, fifo
  <2> QED
    BY <1>3, <2>1, <2>2, <2>3 DEF IInv
<1> QED
  BY <1>1, <1>2, <1>3

LEMMA InvStep == IInv /\ [Next]_vars => IInv'
<1> SUFFICES ASSUME IInv, [Next]_vars PROVE IInv'
  OBVIOUS
<1> TypeOK'
  BY TypeStep DEF IInv
<1>1. CASE UNCHANGED vars \/ Tick
  <2>1. UNCHANGED <<ends, fifo, loop, packets, round>>
    BY <1>1 DEF vars, Tick
  <2> QED
    BY <2>1, InvAside
<1>2. CASE WriteFails \/ ReadFails
  <2>1. pc' = "error" /\ UNCHANGED <<pace, fifo, length_of, round>>
    BY <1>2 DEF WriteFails, ReadFails, ends
  <2> QED
    BY <2>1, InvError
<1>3. ASSUME NEW p \in Ports, Send(p) \/ Respond(p) \/ Arrive(p) PROVE IInv'
  BY <1>3, InvSend, InvRespond, InvArrive
<1> QED
  BY <1>1, <1>2, <1>3, InvCall, InvWrite, InvRead, InvCheck, InvVerify DEF Next, Host

THEOREM Invariance == Spec => []IInv
BY InvInit, InvStep, PTL DEF Spec

(* OwnResponses: a broadcast that returns has from every port the whole    *)
(* response of that port to this very request and not a byte more, however *)
(* the responses were cut into reads (protocol_broadcast_timeout).         *)
THEOREM WholeResponses == Spec => []OwnResponses
<1>1. IInv => OwnResponses
  BY DEF IInv, Quiet, OwnResponses
<1> QED
  BY <1>1, Invariance, PTL

(* InStep: a broadcast that returns leaves nothing on any port that the    *)
(* next call could take for its own.                                       *)
THEOREM PortsInStep == Spec => []InStep
<1>1. IInv => InStep
  BY DEF IInv, Quiet, InStep
<1> QED
  BY <1>1, Invariance, PTL

(* NoOverrun: "This loop must always complete before the FIFO on the other *)
(* ports is full" (protocol.c:417); if no more bytes come between two      *)
(* reads of a port than one read takes and its FIFO holds, none is lost.   *)
THEOREM NothingLost == Spec => []NoOverrun
<1>1. IInv => NoOverrun
  BY DEF IInv, Paced, NoOverrun
<1> QED
  BY <1>1, Invariance, PTL
==============================================================================
