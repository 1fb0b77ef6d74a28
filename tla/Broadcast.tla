------------------------------ MODULE Broadcast ------------------------------
(***************************************************************************)
(* protocol_broadcast_timeout of nuhal_all/src/protocol.c: a request to    *)
(* several ports at once, its bytes interleaved, and the responses         *)
(* collected in one loop under one timeout.                                *)
(*                                                                         *)
(* Each port has a transmit and a receive FIFO, and a device that answers  *)
(* a request that reached it whole, when it likes, if ever: properly, with *)
(* an error report or, from a bootloader, with an empty packet.  On the    *)
(* Tiva a byte that does not fit a transmit FIFO is not sent and one that  *)
(* does not fit a receive FIFO is lost; on the host the first is an error  *)
(* and the kernel's receive buffer is taken to be large enough.            *)
(***************************************************************************)
EXTENDS Integers, Sequences

CONSTANTS NumPorts,        \* num_ports
          ResponseLength,  \* of each port
          RequestLengths,  \* packet lengths the caller may pass
          LongestRequest,  \* ARRAY_LEN(_data) - HEADER_BYTES
          TxDepth, RxDepth,   \* of the FIFOs
          Chunk,           \* most bytes taken from a port at a time
          Paces,           \* how many bytes may reach a port between two reads
          timeout,
          Platforms,       \* a subset of {"host", "tiva"}
          MaxRounds        \* bound on the calls

Ports == 1 .. NumPorts
HEADER_BYTES == 2

ASSUME BroadcastAssumption ==
    /\ NumPorts \in 1 .. 3 /\ ResponseLength \in [Ports -> Nat]
    /\ \A p \in Ports : ResponseLength[p] > HEADER_BYTES
    /\ RequestLengths \subseteq Nat /\ \A n \in RequestLengths : n >= HEADER_BYTES
    /\ LongestRequest \in Nat
    /\ TxDepth \in Nat /\ RxDepth \in Nat \ {0} /\ Chunk \in Nat /\ Paces \subseteq Nat
    /\ timeout \in Nat /\ Platforms \subseteq {"host", "tiva"}
    /\ MaxRounds \in Nat

VARIABLES platform, pace,
          tx,              \* bytes of the request each port has yet to send
          seen,            \* bytes of the request each device has taken
          coming,          \* bytes each device has yet to send
          rx, overrun,     \* receive FIFOs and their error flags
          since,           \* bytes that came since the port was last read
          pc, i, port,     \* the byte being written, the port of the loop
          length_of,       \* of the request, in this call
          in_packet,       \* what was read from each port; its length is index
          length, length_set,
          elapsed,         \* the time stamp
          round            \* history: calls so far

ends == <<platform, pace, tx, seen, coming>>
fifo == <<rx, overrun, since>>
loop == <<pc, i, port, length_of>>
packets == <<in_packet, length, length_set>>
vars == <<ends, fifo, loop, packets, elapsed, round>>

index(p) == Len(in_packet[p])

(* A byte is known by the answer it belongs to and its place there.        *)
Answer(p, kind, n) == [k \in 1 .. n |-> [kind |-> kind, round |-> round, at |-> k]]
Answers(p) == {Answer(p, "ok", ResponseLength[p]), Answer(p, "error", 3),
               Answer(p, "ack", 2)}

(* The length byte of the packet a first byte belongs to.                  *)
LengthByte(p, byte) ==
    CASE byte.kind = "ok" -> ResponseLength[p]
      [] byte.kind = "error" -> 3
      [] byte.kind = "ack" -> 0

Init ==
    /\ platform \in Platforms /\ pace \in Paces
    /\ tx = [p \in Ports |-> <<>>] /\ seen = [p \in Ports |-> 0]
    /\ coming = [p \in Ports |-> <<>>] /\ rx = [p \in Ports |-> <<>>]
    /\ overrun = [p \in Ports |-> FALSE] /\ since = [p \in Ports |-> 0]
    /\ pc = "idle" /\ i = 0 /\ port = 1 /\ length_of = 0
    /\ in_packet = [p \in Ports |-> <<>>] /\ length = [p \in Ports |-> 1]
    /\ length_set = [p \in Ports |-> FALSE]
    /\ elapsed = 0 /\ round = 0

------------------------------------------------------------------------------
(* The ports and the devices.                                              *)

(* The device takes the next byte.  One that is not next leaves it with a  *)
(* request that is not whole.                                              *)
Send(p) ==
    /\ tx[p] # <<>> /\ tx' = [tx EXCEPT ![p] = Tail(@)]
    /\ seen' = [seen EXCEPT ![p] = IF Head(tx[p]) = @ THEN @ + 1 ELSE @]
    /\ UNCHANGED <<platform, pace, coming, fifo, loop, packets, elapsed, round>>

Respond(p) ==
    /\ length_of > 0 /\ seen[p] = length_of
    /\ \E answer \in Answers(p) : coming' = [coming EXCEPT ![p] = answer]
    /\ seen' = [seen EXCEPT ![p] = 0]
    /\ UNCHANGED <<platform, pace, tx, fifo, loop, packets, elapsed, round>>

Arrive(p) ==
    /\ coming[p] # <<>> /\ since[p] < pace
    /\ IF platform = "host" \/ Len(rx[p]) < RxDepth
         THEN rx' = [rx EXCEPT ![p] = Append(@, Head(coming[p]))] /\ UNCHANGED overrun
         ELSE overrun' = [overrun EXCEPT ![p] = TRUE] /\ UNCHANGED rx
    /\ coming' = [coming EXCEPT ![p] = Tail(@)]
    /\ since' = [since EXCEPT ![p] = @ + 1]
    /\ UNCHANGED <<platform, pace, tx, seen, loop, packets, elapsed, round>>

(* One unit more than the timeout is enough to be late.                    *)
Tick ==
    /\ pc \in {"read", "check"} /\ elapsed <= timeout /\ elapsed' = elapsed + 1
    /\ UNCHANGED <<ends, fifo, loop, packets, round>>

------------------------------------------------------------------------------
(* protocol_broadcast_timeout.                                             *)

(* The arguments are checked: every packet has the same length.            *)
Call ==
    /\ pc = "idle" /\ round < MaxRounds /\ round' = round + 1
    /\ \E lengths \in [Ports -> RequestLengths] :
          /\ length_of' = lengths[1]
          /\ pc' = IF /\ \A p \in Ports : lengths[p] = lengths[1]
                      /\ lengths[1] <= LongestRequest
                   THEN "write" ELSE "error"
    /\ in_packet' = [p \in Ports |-> <<>>] /\ length' = [p \in Ports |-> 1]
    /\ length_set' = [p \in Ports |-> FALSE] /\ elapsed' = 0
    /\ since' = [p \in Ports |-> 0]
    /\ UNCHANGED <<ends, rx, overrun, i, port>>

(* The next port, and at the last one what the statement after the inner   *)
(* loop does.                                                              *)
NextPort(after) ==
    IF port < NumPorts THEN port' = port + 1 /\ UNCHANGED <<pc, i>>
                       ELSE port' = 1 /\ after

(* uart_write_nonblock, whose result is ignored.                           *)
Write ==
    /\ pc = "write"
    /\ IF Len(tx[port]) < TxDepth
         THEN tx' = [tx EXCEPT ![port] = Append(@, i)]
         ELSE platform = "tiva" /\ UNCHANGED tx
    /\ NextPort(/\ i' = IF i + 1 = length_of THEN 0 ELSE i + 1
                /\ pc' = IF i + 1 = length_of THEN "read" ELSE "write")
    /\ UNCHANGED <<platform, pace, seen, coming, fifo, length_of, packets, elapsed, round>>

WriteFails ==
    /\ pc = "write" /\ platform = "host" /\ Len(tx[port]) >= TxDepth
    /\ pc' = "error"
    /\ UNCHANGED <<ends, fifo, i, port, length_of, packets, elapsed, round>>

(* uart_read_nonblock takes what is there, up to Chunk bytes.  Mutant: one *)
(* byte at a time.                                                         *)
TakeOne == IF rx[port] = <<>> THEN 0 ELSE 1
Taken == IF Len(rx[port]) < Chunk THEN Len(rx[port]) ELSE Chunk

Read ==
    /\ pc = "read"
    /\ ~(overrun[port] /\ rx[port] # <<>>)
    /\ in_packet' = [in_packet EXCEPT ![port] = @ \o SubSeq(rx[port], 1, Taken)]
    /\ rx' = [rx EXCEPT ![port] = SubSeq(@, Taken + 1, Len(@))]
    /\ since' = [since EXCEPT ![port] = 0]
    /\ NextPort(pc' = "check" /\ UNCHANGED i)
    /\ UNCHANGED <<ends, overrun, length_of, length, length_set, elapsed, round>>

ReadFails ==
    /\ pc = "read" /\ overrun[port] /\ rx[port] # <<>>
    /\ pc' = "error"
    /\ UNCHANGED <<ends, fifo, i, port, length_of, packets, elapsed, round>>

(* The lengths known after this pass.                                      *)
LengthNow(p) ==
    IF ~length_set[p] /\ index(p) > 0 THEN LengthByte(p, in_packet[p][1])
                                      ELSE length[p]

SomeIncomplete == \E p \in Ports : index(p) < length'[p]

(* Mutant: a timeout is only noticed once every port has sent something.   *)
LateWithData == elapsed > timeout /\ \A p \in Ports : index(p) > 0
Late == elapsed > timeout

Check ==
    /\ pc = "check"
    /\ length' = [p \in Ports |-> LengthNow(p)]
    /\ length_set' = [p \in Ports |-> length_set[p] \/ index(p) > 0]
    /\ pc' = IF Late THEN "error"
             ELSE IF SomeIncomplete THEN "read" ELSE "verify"
    /\ UNCHANGED <<ends, fifo, i, port, length_of, in_packet, elapsed, round>>

(* The checksum is that of the bytes up to the packet's own length.        *)
ChecksumOK(p) ==
    LET bytes == LengthByte(p, in_packet[p][1])
    IN  index(p) >= bytes /\ \A k \in 1 .. bytes : in_packet[p][k].at = k

(* Mutants: the command is not compared with the request's; the length of  *)
(* an acknowledgement is accepted.                                         *)
ValidLength(p) == length[p] >= HEADER_BYTES /\ ChecksumOK(p)
ValidAck(p) == ChecksumOK(p) /\ in_packet[p][1].kind # "error"
Valid(p) ==
    length[p] >= HEADER_BYTES /\ ChecksumOK(p) /\ in_packet[p][1].kind = "ok"

Verify ==
    /\ pc = "verify"
    /\ pc' = IF \A p \in Ports : Valid(p) THEN "idle" ELSE "error"
    /\ UNCHANGED <<ends, fifo, i, port, length_of, packets, elapsed, round>>

------------------------------------------------------------------------------
Host == Call \/ Write \/ WriteFails \/ Read \/ ReadFails \/ Check \/ Verify

Next ==
    \/ Host \/ Tick
    \/ \E p \in Ports : Send(p) \/ Respond(p) \/ Arrive(p)

Spec == Init /\ [][Next]_vars

(* The caller is scheduled and the clock runs; ports and devices may stop. *)
FairSpec == Spec /\ WF_vars(Host) /\ WF_vars(Tick)

------------------------------------------------------------------------------
Bytes == [kind : {"ok", "error", "ack"}, round : 1 .. MaxRounds, at : Nat]

TypeOK ==
    /\ platform \in Platforms /\ pace \in Paces
    /\ tx \in [Ports -> Seq(Nat)] /\ \A p \in Ports : Len(tx[p]) <= TxDepth
    /\ {coming, rx, in_packet} \subseteq [Ports -> Seq(Bytes)]
    /\ seen \in [Ports -> Nat] /\ overrun \in [Ports -> BOOLEAN]
    /\ since \in [Ports -> 0 .. pace]
    /\ pc \in {"idle", "write", "read", "check", "verify", "error"}
    /\ i \in Nat /\ port \in Ports /\ length_of \in {0} \cup RequestLengths
    /\ length \in [Ports -> Nat] /\ length_set \in [Ports -> BOOLEAN]
    /\ elapsed \in 0 .. timeout + 1 /\ round \in 0 .. MaxRounds

(* A broadcast that returns has from every port the whole response of that *)
(* port to this very request, and not a byte more, however the responses   *)
(* were cut into reads and whatever was dropped on the way there.          *)
OwnResponses ==
    pc = "idle" /\ round > 0 =>
       \A p \in Ports : in_packet[p] = Answer(p, "ok", ResponseLength[p])

(* A broadcast that returns leaves nothing on any port that the next call  *)
(* could take for its own.                                                 *)
InStep ==
    pc = "idle" => \A p \in Ports : tx[p] \o rx[p] \o coming[p] = <<>> /\ seen[p] = 0

(* "This loop must always complete before the FIFO on the other ports is   *)
(* full" (protocol.c:417): reading up to Chunk bytes in turn loses none,   *)
(* as long as no more than that come between two reads of a port.          *)
NoOverrun ==
    pace <= Chunk /\ pace <= RxDepth => \A p \in Ports : ~overrun[p]

(* The call returns or stops the program even if a port never answers or   *)
(* the request did not reach it whole.                                     *)
BroadcastEnds == pc \notin {"idle", "error"} ~> pc \in {"idle", "error"}
==============================================================================
