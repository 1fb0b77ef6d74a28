---------------------------- MODULE ProtocolProofs -----------------------------
(***************************************************************************)
(* Proofs about Protocol for every set of commands, every timeout and      *)
(* every number of requests: a request that was sent when nothing was      *)
(* outstanding, and whose reads were in time, gets its own response, and   *)
(* the line stays at the boundaries of packets until a read times out.     *)
(***************************************************************************)
EXTENDS Protocol, TLAPS

------------------------------------------------------------------------------
(* The invariant.                                                          *)

(* Nothing is outstanding.                                                 *)
Quiet == requests = <<>> /\ line = <<>>

(* The latest request as the device sees it, and what it may answer.       *)
Latest == [command |-> command, payload |-> number - 1]
Replies == {Answer(Latest), ErrorAnswer}

(* The bytes of the packet read so far.                                    *)
Taken == IF pc = "header" THEN got ELSE HEADER_BYTES + got

(* The host has read the start of the packet A, and the rest, no more, is  *)
(* on the line.                                                            *)
Reading(A) ==
    /\ Len(line) = Len(A) - Taken
    /\ \A k \in 1 .. Len(A) : k > Taken => line[k - Taken] = A[k]
    /\ \A k \in 1 .. Len(A) : k <= Taken => out[k - 1] = A[k]
    /\ pc = "data" => want = Len(A) - HEADER_BYTES /\ want > 0

(* The device has yet to answer the latest request, or its answer is the   *)
(* only thing that is read.                                                *)
Exchange ==
    \/ requests = <<Latest>> /\ line = <<>> /\ pc = "header" /\ got = 0
    \/ requests = <<>> /\ \E A \in Replies : Reading(A)

(* The latest request was sent when nothing was outstanding, and none of   *)
(* its reads ran out of time.                                              *)
Clean == number > 0 /\ fresh /\ late # number

CleanInv ==
    Clean => /\ ~polling
             /\ result = "true" => Matches
             /\ pc = "idle" => Quiet
             /\ pc \in {"header", "data"} => result = "none" /\ Exchange

(* As long as nothing was late every request finds nothing outstanding.    *)
IInv ==
    /\ TypeOK
    /\ pc = "header" => want = HEADER_BYTES
    /\ pc \in {"header", "data"} => number > 0
    /\ number = 0 => Quiet
    /\ late = 0 => fresh
    /\ CleanInv

------------------------------------------------------------------------------
(* Packets.                                                                *)

LEMMA Constants ==
    /\ MaxRequests \in Nat /\ 0 < MaxRequests /\ MaxRequests <= 200
    /\ WordMod \in Nat /\ 4 < WordMod
    /\ PerByte \in Nat /\ PollTimeout \in Nat /\ Timeouts \subseteq Nat
    /\ Commands \cup Bootloader \subseteq Byte
    /\ Modes \subseteq BOOLEAN
    /\ BufferSize \in Nat /\ BufferSize >= 6
BY ProtocolAssumption
   DEF LongestPacket, BufferSize, HEADER_BYTES, Byte

(* A remainder by the word, whatever was computed.                         *)
LEMMA WordRange == ASSUME NEW i \in Int PROVE i % WordMod \in 0 .. WordMod - 1
BY Constants

(* What a device may answer is a sequence of bytes, as long as its first   *)
(* byte says; that byte is 0 for an acknowledgement, which is a header.    *)
LEMMA Packets ==
    ASSUME NEW r, r.command \in Commands \cup Bootloader, r.payload \in Byte,
           NEW A \in {Answer(r), ErrorAnswer}
    PROVE  /\ A \in Seq(Byte)
           /\ \/ Len(A) = 2 /\ A[1] = 0
              \/ Len(A) = 3 /\ A[1] = 3 /\ A[3] = PROTOCOL_ERROR
              \/ Len(A) = 4 /\ A[1] = 4 /\ A[3] = r.command /\ A[4] = r.payload
<1>1. CASE A = ErrorAnswer
  BY <1>1 DEF ErrorAnswer, PROTOCOL_ERROR, Byte
<1>2. CASE A = Answer(r) /\ r.command \in Bootloader
  BY <1>2 DEF Answer, AckChecksum, Byte
<1>3. CASE A = Answer(r) /\ r.command \notin Bootloader
  <2> DEFINE c == r.command
             p == r.payload
             sum == (c + p) % 256
  <2>1. c \in Byte /\ p \in Byte
    BY Constants
  <2> HIDE DEF c, p
  <2>2. sum \in Byte
    BY <2>1 DEF Byte
  <2>3. A = <<4, sum, c, p>>
    BY <1>3 DEF Answer, c, p
  <2> HIDE DEF sum
  <2>4. /\ A \in Seq(Byte) /\ Len(A) = 4
        /\ A[1] = 4 /\ A[3] = c /\ A[4] = p
    BY <2>1, <2>2, <2>3 DEF Byte
  <2> QED
    BY <2>4 DEF c, p
<1> QED
  BY <1>1, <1>2, <1>3

(* What is left to read after the header of such a packet.                 *)
LEMMA Lengths ==
    /\ DataLength(0) = 0 /\ DataLength(3) = 1 /\ DataLength(4) = 2
    /\ \A n \in Byte : DataLength(n) \in 0 .. WordMod - 1
<1>1. 1 % WordMod = 1 /\ 2 % WordMod = 2
  BY Constants
<1>2. \A n \in Byte : (n - 2) % WordMod \in 0 .. WordMod - 1
  BY WordRange DEF Byte
<1> QED
  BY <1>1, <1>2, Constants DEF DataLength, HEADER_BYTES, Byte

------------------------------------------------------------------------------
(* Types.                                                                  *)

LEMMA HeaderLimits ==
    ASSUME NEW timeout \in Nat PROVE HeaderLimit(timeout) \in 0 .. WordMod - 1
<1> DEFINE sum == timeout + PerByte * HEADER_BYTES
<1>1. sum \in Int
  BY Constants DEF HEADER_BYTES
<1> HIDE DEF sum
<1>2. sum % WordMod \in 0 .. WordMod - 1
  BY <1>1, WordRange
<1> QED
  BY <1>2, Constants DEF HeaderLimit, sum

LEMMA DataLimits ==
    ASSUME NEW n \in Nat, NEW timeout \in Nat
    PROVE  (PerByte * n + timeout) % WordMod \in 0 .. WordMod - 1
<1> DEFINE sum == PerByte * n + timeout
<1>1. sum \in Int
  BY Constants
<1> HIDE DEF sum
<1>2. sum % WordMod \in 0 .. WordMod - 1
  BY <1>1, WordRange
<1> QED
  BY <1>2 DEF sum

(* The types of the wire, of the latest call, and of the read in progress. *)
Requests == [command : Commands \cup Bootloader, payload : Byte]

WireTypes ==
    requests \in Seq(Requests) /\ line \in Seq(Byte) /\ ready \in 0 .. Len(line)

CallTypes ==
    /\ number \in 0 .. MaxRequests /\ command \in Commands \cup Bootloader
    /\ timeout_ms \in Timeouts \cup {PollTimeout}
    /\ late \in 0 .. number

ReadTypes ==
    /\ pc \in {"idle", "header", "data", "error"}
    /\ out \in [0 .. BufferSize - 1 -> Byte]
    /\ want \in 0 .. WordMod - 1 /\ got \in 0 .. want
    /\ limit \in 0 .. WordMod - 1 /\ elapsed \in 0 .. limit
    /\ result \in {"none", "true", "false"}

Flags == timeout_error \in Modes \cup {TRUE} /\ polling \in BOOLEAN /\ fresh \in BOOLEAN

LEMMA TypeParts ==
    /\ TypeOK <=> WireTypes /\ CallTypes /\ Flags /\ ReadTypes
    /\ TypeOK' <=> WireTypes' /\ CallTypes' /\ Flags' /\ ReadTypes'
BY DEF TypeOK, WireTypes, CallTypes, Flags, ReadTypes, Requests

LEMMA TypeInit == Init => TypeOK
<1> SUFFICES ASSUME Init PROVE TypeOK
  OBVIOUS
<1>1. out \in [0 .. BufferSize - 1 -> Byte]
  BY ProtocolAssumption DEF Init
<1>2. WireTypes
  BY DEF Init, WireTypes
<1>3. CallTypes
  BY Constants DEF Init, CallTypes
<1>4. ReadTypes
  BY <1>1, Constants DEF Init, ReadTypes
<1>5. Flags
  BY DEF Init, Flags
<1> QED
  BY <1>2, <1>3, <1>4, <1>5, TypeParts

LEMMA WireStep == TypeOK /\ Next => WireTypes'
<1> SUFFICES ASSUME WireTypes, CallTypes, Next PROVE WireTypes'
  BY TypeParts
<1>1. CASE Respond
  <2> DEFINE r == Head(requests)
  <2>1. r \in Requests /\ Tail(requests) \in Seq(Requests)
    BY <1>1 DEF Respond, WireTypes
  <2>2. r.command \in Commands \cup Bootloader /\ r.payload \in Byte
    BY <2>1 DEF Requests
  <2>3. PICK answer \in {Answer(r), ErrorAnswer} : line' = line \o answer
    BY <1>1 DEF Respond
  <2> HIDE DEF r
  <2>4. answer \in Seq(Byte)
    BY <2>2, <2>3, Packets
  <2>5. line' \in Seq(Byte) /\ ready' \in 0 .. Len(line')
    BY <1>1, <2>3, <2>4 DEF Respond, WireTypes
  <2> QED
    BY <1>1, <2>1, <2>5 DEF Respond, WireTypes
<1>2. CASE Arrive
  BY <1>2 DEF Arrive, WireTypes
<1>3. ASSUME NEW c \in Commands \cup Bootloader, NEW t \in Timeouts, NEW fatal \in Modes,
             Request(c, t, fatal)
      PROVE  WireTypes'
  <2>1. number \in Byte
    BY <1>3, Constants DEF Request, CallTypes, Byte
  <2>2. [command |-> c, payload |-> number] \in Requests
    BY <2>1 DEF Requests
  <2> QED
    BY <1>3, <2>2 DEF Request, WireTypes
<1>4. CASE ReadByte
  BY <1>4 DEF ReadByte, WireTypes
<1>5. CASE UNCHANGED device
  BY <1>5 DEF device, WireTypes
<1>6. (\/ Tick \/ RequestUnwritten \/ Poll \/ HeaderRead \/ DataRead \/ DataTimeout)
        => UNCHANGED device
  BY DEF Tick, RequestUnwritten, Poll, HeaderRead, DataRead, DataTimeout, device
<1> QED
  BY <1>1, <1>2, <1>3, <1>4, <1>5, <1>6 DEF Next, Read

LEMMA FlagStep == TypeOK /\ Next => Flags'
<1> SUFFICES ASSUME Flags, Next PROVE Flags'
  BY TypeParts
<1>1. ASSUME NEW c \in Commands \cup Bootloader, NEW t \in Timeouts, NEW fatal \in Modes,
             Request(c, t, fatal)
      PROVE  Flags'
  BY <1>1, Zenon DEF Request, Flags
<1>2. CASE Poll
  BY <1>2, Zenon DEF Poll, Flags
<1>3. CASE UNCHANGED request
  BY <1>3, Zenon DEF request, Flags
<1>4. (Respond \/ Arrive \/ Tick \/ RequestUnwritten \/ Read) => UNCHANGED request
  BY DEF Respond, Arrive, Tick, RequestUnwritten, Read, ReadByte, HeaderRead,
         DataRead, DataTimeout
<1> QED
  BY <1>1, <1>2, <1>3, <1>4 DEF Next

LEMMA CallStep == TypeOK /\ Next => CallTypes'
<1> SUFFICES ASSUME CallTypes, WireTypes, ReadTypes, Next PROVE CallTypes'
  BY TypeParts
<1>1. ASSUME NEW c \in Commands \cup Bootloader, NEW t \in Timeouts, NEW fatal \in Modes,
             Request(c, t, fatal)
      PROVE  CallTypes'
  BY <1>1, Constants DEF Request, CallTypes
<1>2. CASE Poll
  BY <1>2 DEF Poll, CallTypes
<1>3. CASE HeaderRead
  BY <1>3, Constants DEF HeaderRead, CallTypes, request
<1>4. CASE DataTimeout
  BY <1>4, Constants DEF DataTimeout, CallTypes, request
<1>5. CASE UNCHANGED <<request, late>>
  BY <1>5 DEF request, CallTypes
<1>6. (\/ Respond \/ Arrive \/ Tick \/ RequestUnwritten \/ ReadByte \/ DataRead)
        => UNCHANGED <<request, late>>
  BY DEF Respond, Arrive, Tick, RequestUnwritten, ReadByte, DataRead, request
<1> QED
  BY <1>1, <1>2, <1>3, <1>4, <1>5, <1>6 DEF Next, Read

(* A call that ends, or whose error handler takes over.                    *)
LEMMA TypeStop ==
    ASSUME ReadTypes, UNCHANGED out,
           Error \/ Stop("true") \/ Stop("false")
    PROVE  ReadTypes'
BY Constants DEF ReadTypes, Stop, Error

LEMMA ReadStep == TypeOK /\ Next => ReadTypes'
<1> SUFFICES ASSUME CallTypes, WireTypes, ReadTypes, Next PROVE ReadTypes'
  BY TypeParts
<1>1. ASSUME NEW c \in Commands \cup Bootloader, NEW t \in Timeouts, NEW fatal \in Modes,
             Request(c, t, fatal)
      PROVE  ReadTypes'
  <2>1. limit' \in 0 .. WordMod - 1
    BY <1>1, HeaderLimits, Constants DEF Request
  <2> QED
    BY <1>1, <2>1, Constants DEF Request, ReadTypes, HEADER_BYTES
<1>2. CASE RequestUnwritten \/ DataRead \/ DataTimeout
  <2>1. UNCHANGED out /\ (Error \/ Stop("true") \/ Stop("false"))
    BY <1>2 DEF RequestUnwritten, DataRead, DataTimeout, Verify, NothingRead
  <2> QED
    BY <2>1, TypeStop
<1>3. CASE Poll
  <2>1. limit' \in 0 .. WordMod - 1
    BY <1>3, HeaderLimits, Constants DEF Poll
  <2> QED
    BY <1>3, <2>1, Constants DEF Poll, ReadTypes, HEADER_BYTES
<1>4. CASE Tick
  BY <1>4, Constants DEF Tick, ReadTypes
<1>5. CASE ReadByte
  <2>1. line # <<>> /\ Head(line) \in Byte
    BY <1>5 DEF ReadByte, WireTypes
  <2>2. out' \in [0 .. BufferSize - 1 -> Byte]
    BY <1>5, <2>1 DEF ReadByte, ReadTypes
  <2> QED
    BY <1>5, <2>2, Constants DEF ReadByte, ReadTypes
<1>6. CASE HeaderRead
  <2> DEFINE n == DataLength(out[0])
  <2>1. n \in 0 .. WordMod - 1
    BY Lengths, Constants DEF ReadTypes
  <2>2. (PerByte * n + timeout_ms) % WordMod \in 0 .. WordMod - 1
    BY <2>1, DataLimits, Constants DEF CallTypes
  <2>3. UNCHANGED out
    BY <1>6 DEF HeaderRead
  <2>4. CASE n = 0
    <3>1. NothingRead
      BY <1>6, <2>4 DEF HeaderRead
    <3> QED
      BY <2>3, <3>1, TypeStop DEF NothingRead
  <2>5. CASE n # 0
    <3>1. /\ pc' = "data" /\ want' = n /\ got' = 0 /\ elapsed' = 0 /\ UNCHANGED result
          /\ limit' = (PerByte * n + timeout_ms) % WordMod
      BY <1>6, <2>5 DEF HeaderRead
    <3> HIDE DEF n
    <3> QED
      BY <2>1, <2>2, <2>3, <3>1, Constants DEF ReadTypes
  <2> QED
    BY <2>4, <2>5
<1>7. CASE UNCHANGED <<pc, out, want, got, limit, elapsed, result>>
  BY <1>7 DEF ReadTypes
<1>8. Respond \/ Arrive => UNCHANGED <<pc, out, want, got, limit, elapsed, result>>
  BY DEF Respond, Arrive
<1> QED
  BY <1>1, <1>2, <1>3, <1>4, <1>5, <1>6, <1>7, <1>8 DEF Next, Read

LEMMA TypeStep == TypeOK /\ [Next]_vars => TypeOK'
<1>1. TypeOK /\ Next => TypeOK'
  BY WireStep, CallStep, FlagStep, ReadStep, TypeParts
<1>2. TypeOK /\ UNCHANGED vars => TypeOK'
  BY DEF TypeOK, vars, device, request
<1> QED
  BY <1>1, <1>2

(* Every variable has its type: in particular a length byte of any value,  *)
(* of a packet that was not even read, gives a length of a word.           *)
THEOREM TypeCorrect == Spec => []TypeOK
BY TypeInit, TypeStep, PTL DEF Spec

------------------------------------------------------------------------------
(* The invariant is kept.                                                  *)

LEMMA InvInit == Init => IInv
<1> SUFFICES ASSUME Init PROVE IInv
  OBVIOUS
<1>1. TypeOK
  BY TypeInit
<1> QED
  BY <1>1 DEF Init, IInv, Quiet, CleanInv, Clean

(* The payload of a request is a byte.                                     *)
LEMMA LatestFits ==
    ASSUME TypeOK, number > 0
    PROVE  Latest.command \in Commands \cup Bootloader /\ Latest.payload \in Byte
<1>1. command \in Commands \cup Bootloader /\ number - 1 \in Byte
  BY Constants, TypeParts DEF CallTypes, Byte
<1> QED
  BY <1>1 DEF Latest

(* A packet with its parts named, when one is being read.                  *)
LEMMA OwnPacket ==
    ASSUME TypeOK, number > 0, NEW A \in Replies
    PROVE  /\ A \in Seq(Byte)
           /\ \/ Len(A) = 2 /\ A[1] = 0
              \/ Len(A) = 3 /\ A[1] = 3 /\ A[3] = PROTOCOL_ERROR
              \/ Len(A) = 4 /\ A[1] = 4 /\ A[3] = command /\ A[4] = number - 1
<1>1. Latest.command = command /\ Latest.payload = number - 1
  BY DEF Latest
<1> QED
  BY <1>1, LatestFits, Packets DEF Replies

(* A request finds nothing outstanding as long as no read was late, and is *)
(* all that is outstanding then.                                           *)
LEMMA InvRequest ==
    ASSUME IInv, TypeOK',
           NEW c \in Commands \cup Bootloader, NEW t \in Timeouts, NEW fatal \in Modes,
           Request(c, t, fatal)
    PROVE  IInv'
<1>1. number \in Nat /\ late \in 0 .. number
  BY TypeParts DEF IInv, CallTypes
<1>2. /\ number' = number + 1 /\ late' = late /\ fresh' = Quiet /\ pc = "idle"
      /\ pc' = "header" /\ want' = HEADER_BYTES /\ got' = 0
      /\ ~polling' /\ result' = "none" /\ line' = line
      /\ requests' = Append(requests, [command |-> c, payload |-> number])
      /\ command' = c
  BY DEF Request, Quiet
<1>3. late = 0 => Quiet
  BY <1>1, <1>2 DEF IInv, CleanInv, Clean
<1>4. ASSUME Quiet PROVE Exchange'
  <2>1. number' - 1 = number
    BY <1>1, <1>2
  <2>2. Latest' = [command |-> c, payload |-> number]
    BY <1>2, <2>1 DEF Latest
  <2>3. requests' = <<Latest'>> /\ line' = <<>>
    BY <1>2, <1>4, <2>2 DEF Quiet
  <2> QED
    BY <1>2, <2>3 DEF Exchange
<1>5. number' > 0
  BY <1>1, <1>2
<1>6. CleanInv'
  BY <1>2, <1>4 DEF CleanInv, Clean
<1> QED
  BY <1>2, <1>3, <1>5, <1>6 DEF IInv

(* The device's answer to the only request outstanding is all that is on   *)
(* the line.                                                               *)
LEMMA InvRespond == ASSUME IInv, TypeOK', Respond PROVE IInv'
<1>1. /\ requests # <<>> /\ requests' = Tail(requests)
      /\ UNCHANGED <<pc, number, command, polling, fresh, out, want, got, result, late>>
  BY DEF Respond, request
<1>2. ~Quiet
  BY <1>1 DEF Quiet
<1>3. ASSUME Clean, pc \in {"header", "data"} PROVE Exchange'
  <2>1. requests = <<Latest>> /\ line = <<>> /\ pc = "header" /\ got = 0
    BY <1>1, <1>3 DEF IInv, CleanInv, Exchange
  <2>2. PICK A \in {Answer(Latest), ErrorAnswer} : line' = line \o A
    BY <2>1 DEF Respond
  <2>3. A \in Seq(Byte)
    BY <1>3, <2>2, OwnPacket DEF IInv, Clean, Replies
  <2>4. line' = A /\ requests' = <<>> /\ Latest' = Latest
    BY <1>1, <2>1, <2>2, <2>3 DEF Latest
  <2>5. A \in Replies'
    BY <2>2, <2>4 DEF Replies, Answer, ErrorAnswer
  <2>6. Taken' = 0 /\ pc' = "header"
    BY <1>1, <2>1 DEF Taken
  <2>7. Reading(A)'
    BY <2>3, <2>4, <2>6 DEF Reading
  <2> QED
    BY <2>4, <2>5, <2>7 DEF Exchange
<1>4. CleanInv'
  BY <1>1, <1>2, <1>3 DEF IInv, CleanInv, Clean, Matches
<1> QED
  BY <1>1, <1>2, <1>4 DEF IInv

(* What is being read is not touched by the steps that only count.         *)
LEMMA InvAside ==
    ASSUME IInv, TypeOK',
           UNCHANGED <<requests, line, pc, number, command, polling, fresh, out,
                       want, got, result, late>>
    PROVE  IInv'
BY DEF IInv, Quiet, CleanInv, Clean, Matches, Exchange, Reading, Taken, Latest,
       Replies, Answer, ErrorAnswer

LEMMA InvPoll == ASSUME IInv, TypeOK', Poll PROVE IInv'
<1>1. /\ pc = "idle" /\ ready > 0 /\ pc' = "header" /\ want' = HEADER_BYTES
      /\ UNCHANGED <<requests, line, number, fresh, late>>
  BY DEF Poll, device
<1>2. line # <<>>
  BY <1>1, TypeParts DEF IInv, WireTypes
<1>3. ~Quiet
  BY <1>2 DEF Quiet
<1>4. number > 0
  BY <1>3, TypeParts DEF IInv, CallTypes
<1>5. ~Clean
  BY <1>1, <1>3 DEF IInv, CleanInv
<1> QED
  BY <1>1, <1>4, <1>5 DEF IInv, CleanInv, Clean

(* Reading a byte advances in the packet.                                  *)
LEMMA InvReadByte == ASSUME IInv, TypeOK', ReadByte PROVE IInv'
<1>1. /\ pc \in {"header", "data"} /\ ready > 0 /\ got < want
      /\ line' = Tail(line) /\ got' = got + 1
      /\ out' = [out EXCEPT ![Taken] = Head(line)]
      /\ UNCHANGED <<requests, pc, number, command, polling, fresh, want, result, late>>
  BY DEF ReadByte, request, Taken
<1>2. number > 0 /\ line # <<>> /\ line \in Seq(Byte)
  BY <1>1, TypeParts DEF IInv, WireTypes
<1>3. ASSUME Clean PROVE Exchange'
  <2>1. PICK A \in Replies : Reading(A)
    BY <1>1, <1>2, <1>3 DEF IInv, CleanInv, Exchange
  <2>2. A \in Seq(Byte) /\ Len(A) \in 2 .. 4
    BY <1>2, <2>1, OwnPacket DEF IInv
  <2>3. Taken \in Nat /\ Taken' = Taken + 1
    BY <1>1, TypeParts, Constants DEF IInv, ReadTypes, Taken, HEADER_BYTES
  <2>4. Len(line) = Len(A) - Taken /\ Len(line') = Len(line) - 1
    BY <1>1, <1>2, <2>1 DEF Reading
  <2>5. Taken < Len(A)
    BY <1>2, <2>2, <2>3, <2>4
  <2>6. Head(line) = A[Taken + 1]
    BY <1>2, <2>1, <2>2, <2>3, <2>5 DEF Reading
  <2>7. out \in [0 .. BufferSize - 1 -> Byte]
    BY TypeParts DEF IInv, ReadTypes
  <2>8. ASSUME NEW k \in 1 .. Len(A), k <= Taken' PROVE out'[k - 1] = A[k]
    <3> DEFINE len == Len(A)
    <3>0. k \in 1 .. len /\ len \in 2 .. 4
      BY <2>2
    <3> HIDE DEF len
    <3>1. k - 1 \in 0 .. BufferSize - 1 /\ k \in Int
      BY <3>0, Constants
    <3>2. out'[k - 1] = IF k - 1 = Taken THEN Head(line) ELSE out[k - 1]
      BY <1>1, <2>7, <3>1
    <3>3. k = Taken + 1 \/ k <= Taken
      BY <2>3, <2>8, <3>1
    <3>4. k <= Taken => out[k - 1] = A[k] /\ k - 1 # Taken
      BY <2>1, <2>3, <3>1 DEF Reading
    <3> QED
      BY <2>3, <2>6, <3>1, <3>2, <3>3, <3>4
  <2>9. \A k \in 1 .. Len(A) : k > Taken' => line'[k - Taken'] = A[k]
    BY <1>1, <1>2, <2>1, <2>2, <2>3, <2>4 DEF Reading
  <2>10. Reading(A)'
    BY <1>1, <2>1, <2>2, <2>3, <2>4, <2>8, <2>9 DEF Reading
  <2>11. A \in Replies' /\ requests' = <<>>
    BY <1>1, <1>2, <1>3 DEF IInv, CleanInv, Exchange, Replies, Answer, ErrorAnswer, Latest
  <2> QED
    BY <2>10, <2>11 DEF Exchange
<1>4. CleanInv'
  BY <1>1, <1>3 DEF IInv, CleanInv, Clean
<1> QED
  BY <1>1, <1>2, <1>4 DEF IInv

(* Once the header is read the rest of the packet is what is asked for; an *)
(* acknowledgement has no rest.                                            *)
LEMMA InvHeaderRead == ASSUME IInv, TypeOK', HeaderRead PROVE IInv'
<1> DEFINE n == DataLength(out[0])
<1>1. /\ pc = "header" /\ late' = IF got = want THEN late ELSE number
      /\ UNCHANGED <<requests, line, number, command, polling, fresh, out>>
  BY DEF HeaderRead, device, request
<1>2. number > 0 /\ want = 2 /\ number \in Nat
  BY <1>1, TypeParts DEF IInv, HEADER_BYTES, CallTypes
<1>3. \/ n = 0 /\ NothingRead
      \/ n # 0 /\ pc' = "data" /\ want' = n /\ got' = 0 /\ UNCHANGED result
  BY DEF HeaderRead
<1> HIDE DEF n
<1>4. ASSUME Clean, got = want
      PROVE  ~polling /\ result = "none" /\ requests = <<>>
             /\ \E A \in Replies : Reading(A) /\ (n = 0 => line = <<>>)
                                  /\ (n # 0 => n = Len(A) - 2) /\ Len(A) \in 2 .. 4
  <2>1. ~polling /\ result = "none" /\ Exchange
    BY <1>1, <1>4 DEF IInv, CleanInv
  <2>2. PICK A \in Replies : Reading(A) /\ requests = <<>>
    BY <1>2, <1>4, <2>1 DEF Exchange
  <2>3. Taken = 2
    BY <1>1, <1>2, <1>4 DEF Taken
  <2>4. /\ A \in Seq(Byte)
        /\ \/ Len(A) = 2 /\ A[1] = 0
           \/ Len(A) = 3 /\ A[1] = 3
           \/ Len(A) = 4 /\ A[1] = 4
    BY <1>2, OwnPacket DEF IInv
  <2>5. out[0] = A[1]
    BY <2>2, <2>3, <2>4 DEF Reading
  <2>6. n = Len(A) - 2 /\ Len(line) = Len(A) - 2 /\ Len(A) \in 2 .. 4
    <3>1. n = DataLength(A[1])
      BY <2>5 DEF n
    <3>2. \/ Len(A) = 2 /\ n = 0
          \/ Len(A) = 3 /\ n = 1
          \/ Len(A) = 4 /\ n = 2
      BY <2>4, <3>1, Lengths, Zenon
    <3> QED
      BY <2>2, <2>3, <3>2 DEF Reading
  <2>7. line \in Seq(Byte)
    BY TypeParts DEF IInv, WireTypes
  <2>8. n = 0 => line = <<>>
    BY <2>6, <2>7
  <2> QED
    BY <2>1, <2>2, <2>6, <2>8
<1>5. Clean' => Clean /\ got = want
  BY <1>1, <1>2 DEF Clean
<1>6. CASE n = 0
  <2>1. ASSUME Clean' PROVE /\ ~polling' /\ result' # "true"
                            /\ pc' = "idle" => Quiet'
                            /\ pc' \notin {"header", "data"}
    BY <1>1, <1>3, <1>4, <1>5, <1>6, <2>1 DEF NothingRead, Stop, Error, Quiet
  <2>2. pc' \in {"idle", "error"}
    BY <1>3, <1>6 DEF NothingRead, Stop, Error
  <2> QED
    BY <1>1, <1>2, <2>1, <2>2 DEF IInv, CleanInv
<1>7. CASE n # 0
  <2>1. ASSUME Clean' PROVE Exchange'
    <3>1. PICK A \in Replies : Reading(A) /\ n = Len(A) - 2 /\ Len(A) \in 2 .. 4
      BY <1>4, <1>5, <1>7, <2>1
    <3>2. requests' = <<>>
      BY <1>1, <1>4, <1>5, <2>1
    <3>3. Taken = 2 /\ Taken' = 2
      BY <1>1, <1>2, <1>3, <1>5, <1>7, <2>1 DEF Taken, HEADER_BYTES
    <3>4. Reading(A)'
      BY <1>1, <1>3, <1>7, <3>1, <3>3 DEF Reading, HEADER_BYTES
    <3>5. A \in Replies'
      BY <1>1 DEF Replies, Answer, ErrorAnswer, Latest
    <3> QED
      BY <3>2, <3>4, <3>5 DEF Exchange
  <2>2. CleanInv'
    BY <1>1, <1>3, <1>4, <1>5, <1>7, <2>1 DEF CleanInv
  <2> QED
    BY <1>1, <1>2, <1>3, <1>7, <2>2 DEF IInv
<1> QED
  BY <1>6, <1>7

(* A packet that was read whole leaves nothing on the line, and is the     *)
(* response to the latest request if it is a valid one.                    *)
LEMMA InvDataRead == ASSUME IInv, TypeOK', DataRead PROVE IInv'
<1>1. /\ pc = "data" /\ got = want /\ Verify
      /\ UNCHANGED <<requests, line, number, command, polling, fresh, out, late>>
  BY DEF DataRead, device, request
<1>2. number > 0
  BY <1>1 DEF IInv
<1>3. \/ pc' = "error" /\ UNCHANGED result
      \/ pc' = "idle" /\ result' = "true" /\ (polling \/ Validated)
  BY <1>1 DEF Verify, Error, Stop
<1>4. ASSUME Clean PROVE ~polling /\ result = "none" /\ Quiet /\ (Validated => Matches)
  <2>1. ~polling /\ result = "none" /\ Exchange
    BY <1>1, <1>4 DEF IInv, CleanInv
  <2>2. PICK A \in Replies : Reading(A) /\ requests = <<>>
    BY <1>1, <2>1 DEF Exchange
  <2>3. want = Len(A) - 2 /\ want > 0 /\ Taken = 2 + want /\ want \in Nat
    BY <1>1, <2>2, TypeParts, Constants DEF Reading, Taken, HEADER_BYTES, IInv, ReadTypes
  <2>4. /\ A \in Seq(Byte)
        /\ \/ Len(A) = 2
           \/ Len(A) = 3 /\ A[3] = PROTOCOL_ERROR
           \/ Len(A) = 4 /\ A[3] = command /\ A[4] = number - 1
    BY <1>2, OwnPacket DEF IInv
  <2>5. Taken = Len(A)
    BY <2>3, <2>4
  <2>6. \A k \in 1 .. Len(A) : out[k - 1] = A[k]
    BY <2>2, <2>4, <2>5 DEF Reading
  <2>7. Len(line) = 0
    BY <2>2, <2>4, <2>5 DEF Reading
  <2>8. Quiet
    BY <2>2, <2>7, TypeParts DEF IInv, WireTypes, Quiet
  <2>9. Validated => Matches
    BY <2>3, <2>4, <2>6 DEF Validated, Matches, HEADER_BYTES
  <2> QED
    BY <2>1, <2>8, <2>9
<1>5. Clean' <=> Clean
  BY <1>1 DEF Clean
<1>6. CleanInv'
  BY <1>1, <1>3, <1>4, <1>5 DEF CleanInv, Matches, Quiet
<1> QED
  BY <1>1, <1>2, <1>3, <1>6 DEF IInv

LEMMA InvDataTimeout == ASSUME IInv, TypeOK', DataTimeout PROVE IInv'
<1>1. /\ pc = "data" /\ late' = number /\ UNCHANGED <<number, fresh>>
      /\ pc' \in {"idle", "error"}
  BY DEF DataTimeout, request, Error, NothingRead, Verify, Stop
<1>2. number > 0
  BY <1>1 DEF IInv
<1> QED
  BY <1>1, <1>2 DEF IInv, CleanInv, Clean

LEMMA InvUnwritten == ASSUME IInv, TypeOK', RequestUnwritten PROVE IInv'
<1>1. /\ pc' = "error"
      /\ UNCHANGED <<requests, line, number, command, polling, fresh, out, result, late>>
  BY DEF RequestUnwritten, Error, device, request
<1> QED
  BY <1>1 DEF IInv, CleanInv, Clean, Matches, Quiet

LEMMA InvStep == IInv /\ [Next]_vars => IInv'
<1> SUFFICES ASSUME IInv, [Next]_vars PROVE IInv'
  OBVIOUS
<1> TypeOK'
  BY TypeStep DEF IInv
<1>1. CASE \/ UNCHANGED vars \/ Arrive \/ Tick
  <2>1. UNCHANGED <<requests, line, pc, number, command, polling, fresh, out,
                    want, got, result, late>>
    BY <1>1 DEF vars, Arrive, Tick, device, request
  <2> QED
    BY <2>1, InvAside
<1>2. CASE \E c \in Commands \cup Bootloader, t \in Timeouts, fatal \in Modes :
              Request(c, t, fatal)
  BY <1>2, InvRequest
<1> QED
  BY <1>1, <1>2, InvUnwritten, InvPoll, InvRespond, InvReadByte, InvHeaderRead,
     InvDataRead, InvDataTimeout DEF Next, Read

THEOREM Invariance == Spec => []IInv
BY InvInit, InvStep, PTL DEF Spec

(* AnswersMatch: a request that was sent when nothing was outstanding and  *)
(* none of whose reads ran out of time returns true only with the response *)
(* to that very request (protocol_request_timeout, protocol.c).            *)
THEOREM OwnAnswer == Spec => []AnswersMatch
<1>1. IInv => AnswersMatch
  <2> SUFFICES ASSUME IInv, fresh, late # number, result = "true", ~polling PROVE Matches
    BY DEF AnswersMatch
  <2>1. late = 0 => number # 0
    OBVIOUS
  <2>2. number > 0
    BY <2>1, TypeParts DEF IInv, CallTypes
  <2> QED
    BY <2>2 DEF IInv, CleanInv, Clean
<1> QED
  BY <1>1, Invariance, PTL

(* InStep: as long as no read ran out of time, a request that returns has  *)
(* read its answer to the last byte (protocol_read_block_error).           *)
THEOREM LineInStep == Spec => []InStep
<1>1. IInv => InStep
  <2> SUFFICES ASSUME IInv, late = 0, pc = "idle" PROVE Quiet
    BY DEF InStep, Quiet
  <2>1. CASE number = 0
    BY <2>1 DEF IInv
  <2>2. CASE number # 0
    BY <2>2, TypeParts DEF IInv, CallTypes, CleanInv, Clean
  <2> QED
    BY <2>1, <2>2
<1> QED
  BY <1>1, Invariance, PTL
==============================================================================
