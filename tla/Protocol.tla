------------------------------- MODULE Protocol -------------------------------
(***************************************************************************)
(* Request and response over one port: protocol_request and                *)
(* protocol_request_timeout of nuhal_all/src/protocol.c, with the packet   *)
(* layout, the checksum, the reading of a packet in two timed reads, the   *)
(* validation of the response and the polling for packets between          *)
(* requests by protocol_read_nonblock.                                     *)
(*                                                                         *)
(* The device at the far end takes requests in order and answers each one  *)
(* when it likes, if ever, so that an answer may be late.  Its bytes reach *)
(* the host one by one.  A timed read is that of module UartRead, on a     *)
(* clock in units whose readings do not roll over.  A request is written   *)
(* whole, or its write times out and ends the program.                     *)
(***************************************************************************)
EXTENDS Integers, Sequences, FiniteSetsExt

CONSTANTS Commands,        \* commands with a payload in their response
          Bootloader,      \* commands acknowledged by an empty packet
          Timeouts,        \* timeout_ms
          Modes,           \* timeout_error
          PerByte,         \* TIMEOUT_MS_PER_BYTE
          PollTimeout,     \* TIMEOUT_MS_BASE
          WordMod,         \* uint32_t wraps here
          Leftover,        \* bytes out may hold before its first use
          Prompt,          \* TRUE: the host reads what has arrived before
                           \* the next tick; FALSE: it may be late itself
          MaxRequests      \* bound on the requests of a behaviour

Byte == 0 .. 255
PROTOCOL_ERROR == 255
AckChecksum == 204
HEADER_BYTES == 2
LongestPacket == 4
BufferSize == HEADER_BYTES + LongestPacket * MaxRequests

ASSUME ProtocolAssumption ==
    /\ Commands \subseteq Byte \ {PROTOCOL_ERROR} /\ Bootloader \subseteq Byte
    /\ Timeouts \subseteq Nat /\ Modes \subseteq BOOLEAN
    /\ PerByte \in Nat /\ PollTimeout \in Nat \ {0}
    /\ WordMod \in Nat /\ WordMod > LongestPacket
    /\ Leftover \subseteq Byte /\ Prompt \in BOOLEAN
    /\ MaxRequests \in 1 .. 200

VARIABLES requests,        \* requests the device has not answered
          line,            \* bytes of its answers the host has not read
          ready,           \* how many of them have reached the host
          pc,              \* "idle", "header", "data" or "error"
          number,          \* requests sent so far
          command, timeout_ms, timeout_error,      \* of the latest request
          polling,         \* the latest call was a protocol_read_nonblock
          fresh,           \* history: nothing was outstanding at the latest request
          out,             \* _data of the packet that takes the response
          want, got,       \* bytes the read in progress asked for and has
          limit, elapsed,  \* its timeout (0: none) and its time stamp
          result,          \* of the latest request: "none", "true", "false"
          late             \* history: the latest request a read of which ran
                           \* out of time, 0 when there is none

device == <<requests, line, ready>>
request == <<number, command, timeout_ms, timeout_error, polling, fresh>>
vars == <<device, pc, request, out, want, got, limit, elapsed, result, late>>

------------------------------------------------------------------------------
(* Packets.                                                                *)

(* protocol_checksum: the sum of all that follows the header.  A length of *)
(* one lets the loop's byte-wide index run on through zero.                *)
Summed(length) ==
    IF length > 0 /\ length < HEADER_BYTES
    THEN DOMAIN out \ {1}
    ELSE {i \in DOMAIN out : HEADER_BYTES <= i /\ i < length}

ChecksumOK ==
    out[1] = IF out[0] = 0 THEN AckChecksum
             ELSE MapThenSumSet(LAMBDA i : out[i], Summed(out[0])) % 256

(* What the device sends.  The payload tells which request it answers.     *)
Answer(r) ==
    IF r.command \in Bootloader
    THEN <<0, AckChecksum>>
    ELSE <<4, (r.command + r.payload) % 256, r.command, r.payload>>

ErrorAnswer == <<3, PROTOCOL_ERROR, PROTOCOL_ERROR>>

(* What is left to read after the header.  Mutants: in signed arithmetic;  *)
(* the command byte counted as part of the header.                         *)
DataLengthSigned(length) == IF length = 0 THEN 0 ELSE length - HEADER_BYTES
DataLengthShort(length) ==
    IF length = 0 THEN 0 ELSE (length - HEADER_BYTES - 1) % WordMod
DataLength(length) ==
    IF length = 0 THEN 0 ELSE (length - HEADER_BYTES) % WordMod

(* protocol_validate_response.  Mutant: every response is valid.           *)
AnyResponse == TRUE
Validated == out[HEADER_BYTES] # PROTOCOL_ERROR /\ out[HEADER_BYTES] = command

------------------------------------------------------------------------------
Init ==
    /\ requests = <<>> /\ line = <<>> /\ ready = 0
    /\ pc = "idle" /\ number = 0 /\ result = "none" /\ late = 0
    /\ command \in Commands /\ timeout_ms \in Timeouts /\ timeout_error \in Modes
    /\ polling = FALSE /\ fresh = TRUE
    /\ out \in {[i \in 0 .. BufferSize - 1 |-> b] : b \in Leftover}
    /\ want = 0 /\ got = 0 /\ limit = 0 /\ elapsed = 0

(* The device answers its oldest request, or reports an error.             *)
Respond ==
    /\ requests # <<>>
    /\ \E answer \in {Answer(Head(requests)), ErrorAnswer} : line' = line \o answer
    /\ requests' = Tail(requests)
    /\ UNCHANGED <<ready, pc, request, out, want, got, limit, elapsed, result, late>>

Arrive ==
    /\ ready < Len(line) /\ ready' = ready + 1
    /\ UNCHANGED <<requests, line, pc, request, out, want, got, limit, elapsed,
                   result, late>>

(* Both time stamps are polled throughout, so time stops at the limit.     *)
Tick ==
    /\ pc \in {"header", "data"} /\ elapsed < limit
    /\ Prompt => ready = 0 /\ got < want
    /\ elapsed' = elapsed + 1
    /\ UNCHANGED <<device, pc, request, out, want, got, limit, result, late>>

------------------------------------------------------------------------------
(* The host.                                                               *)

(* The timeout of the header.  Mutant: there is none.                      *)
HeaderUntimed(timeout) == 0
HeaderLimit(timeout) ==
    IF timeout = 0 THEN 0 ELSE (timeout + PerByte * HEADER_BYTES) % WordMod

Error == pc' = "error" /\ UNCHANGED <<want, got, limit, elapsed, result>>

(* protocol_request_timeout up to the read: out keeps its previous bytes,  *)
(* those of the static devnull included.                                   *)
Request(c, timeout, fatal) ==
    /\ pc = "idle" /\ number < MaxRequests
    /\ requests' = Append(requests, [command |-> c, payload |-> number])
    /\ number' = number + 1 /\ command' = c
    /\ timeout_ms' = timeout /\ timeout_error' = fatal
    /\ polling' = FALSE /\ fresh' = (requests = <<>> /\ line = <<>>)
    /\ pc' = "header" /\ want' = HEADER_BYTES /\ got' = 0
    /\ limit' = HeaderLimit(timeout) /\ elapsed' = 0 /\ result' = "none"
    /\ UNCHANGED <<line, ready, out, late>>

(* protocol_write_block times out, which is fatal.                         *)
RequestUnwritten ==
    /\ pc = "idle" /\ number < MaxRequests /\ Error
    /\ UNCHANGED <<device, request, out, late>>

(* protocol_read_nonblock when a byte is there: a packet is read with the  *)
(* base timeout, which is fatal.                                           *)
Poll ==
    /\ pc = "idle" /\ ready > 0
    /\ polling' = TRUE /\ timeout_ms' = PollTimeout /\ timeout_error' = TRUE
    /\ pc' = "header" /\ want' = HEADER_BYTES /\ got' = 0
    /\ limit' = HeaderLimit(PollTimeout) /\ elapsed' = 0 /\ result' = "none"
    /\ UNCHANGED <<device, number, command, fresh, out, late>>

InTime == limit = 0 \/ elapsed < limit

(* One byte of a uart_read_block or uart_read_block_error.                 *)
ReadByte ==
    /\ pc \in {"header", "data"} /\ InTime /\ ready > 0 /\ got < want
    /\ out' = [out EXCEPT ![IF pc = "header" THEN got ELSE HEADER_BYTES + got] =
                              Head(line)]
    /\ line' = Tail(line) /\ ready' = ready - 1 /\ got' = got + 1
    /\ UNCHANGED <<requests, pc, request, want, limit, elapsed, result, late>>

Stop(answer) ==
    /\ pc' = "idle" /\ result' = answer
    /\ want' = 0 /\ got' = 0 /\ limit' = 0 /\ elapsed' = 0

(* A read of no bytes returns 0, which is what a timeout returns; and      *)
(* protocol_read_nonblock does not look at what the read returned.         *)
NothingRead ==
    IF polling THEN Stop("true") ELSE IF timeout_error THEN Error ELSE Stop("false")

(* The header is read, or its time is up, which goes unnoticed: the length *)
(* byte of out is used all the same.                                       *)
HeaderRead ==
    /\ pc = "header" /\ (got = want \/ ~InTime)
    /\ late' = IF got = want THEN late ELSE number
    /\ LET data_length == DataLength(out[0])
       IN  IF data_length = 0
           THEN NothingRead
           ELSE /\ pc' = "data" /\ want' = data_length /\ got' = 0
                /\ limit' = (PerByte * data_length + timeout_ms) % WordMod
                /\ elapsed' = 0 /\ UNCHANGED result
    /\ UNCHANGED <<device, request, out>>

Verify == IF ChecksumOK /\ (polling \/ Validated) THEN Stop("true") ELSE Error

DataRead ==
    /\ pc = "data" /\ got = want
    /\ Verify
    /\ UNCHANGED <<device, request, out, late>>

(* With timeout_error the read itself stops the program.  Without it, what *)
(* was read in time is taken for the packet.                               *)
DataTimeout ==
    /\ pc = "data" /\ got < want /\ ~InTime
    /\ late' = number
    /\ IF timeout_error THEN Error
       ELSE IF got = 0 THEN NothingRead ELSE Verify
    /\ UNCHANGED <<device, request, out>>

Read == ReadByte \/ HeaderRead \/ DataRead \/ DataTimeout

Next ==
    \/ \E c \in Commands \cup Bootloader, t \in Timeouts, fatal \in Modes :
          Request(c, t, fatal)
    \/ RequestUnwritten \/ Poll \/ Respond \/ Arrive \/ Tick \/ Read

Spec == Init /\ [][Next]_vars

(* The clock runs and the host is scheduled; the device owes nothing.      *)
FairSpec == Spec /\ WF_vars(Tick) /\ WF_vars(Read)

------------------------------------------------------------------------------
TypeOK ==
    /\ requests \in Seq([command : Commands \cup Bootloader, payload : Byte])
    /\ line \in Seq(Byte) /\ ready \in 0 .. Len(line)
    /\ pc \in {"idle", "header", "data", "error"}
    /\ number \in 0 .. MaxRequests /\ command \in Commands \cup Bootloader
    /\ timeout_ms \in Timeouts \cup {PollTimeout}
    /\ timeout_error \in Modes \cup {TRUE} /\ polling \in BOOLEAN /\ fresh \in BOOLEAN
    /\ out \in [0 .. BufferSize - 1 -> Byte]
    /\ want \in 0 .. WordMod - 1 /\ got \in 0 .. want
    /\ limit \in 0 .. WordMod - 1 /\ elapsed \in 0 .. limit
    /\ result \in {"none", "true", "false"} /\ late \in 0 .. number

(* The response in out is the one to the latest request.                   *)
Matches == out[2] = command /\ out[3] = number - 1

(* A request that was sent when nothing was outstanding, be it that late   *)
(* answers were polled away first, and whose own reads did not run out of  *)
(* time, returns true only with the response to that very request, whole,  *)
(* and no error report passes for one.                                     *)
AnswersMatch ==
    fresh /\ late # number /\ result = "true" /\ ~polling => Matches

(* As long as no read has run out of time, a request that returns leaves   *)
(* nothing behind: its answer is read to the last byte, and the next       *)
(* request starts at the boundary of a packet.                             *)
InStep == late = 0 /\ pc = "idle" => requests = <<>> /\ line = <<>>

(* A length byte of 1 makes data_length the largest word, and the timeout  *)
(* of the data PerByte less than that of the request: 0 if it was PerByte. *)
NoLimitLeft == pc = "data" /\ want = WordMod - 1 /\ timeout_ms = PerByte

(* A request with a timeout returns or stops the program, whatever the     *)
(* device sends and whatever length out held, but for that one timeout     *)
(* with that one length.                                                   *)
RequestEnds ==
    pc \in {"header", "data"} /\ timeout_ms # 0 ~>
        pc \in {"idle", "error"} \/ NoLimitLeft

(* protocol.h of protocol_request_timeout: it returns false, or stops the  *)
(* program, if the request timed out; only a timeout of 0 is infinite.     *)
TimedRequestEnds ==
    pc \in {"header", "data"} /\ timeout_ms # 0 ~> pc \in {"idle", "error"}

(* protocol.h of protocol_request: send a request and wait for the         *)
(* matching response.                                                      *)
MatchingResponse == timeout_error /\ ~polling /\ result = "true" => Matches

(* protocol.h of timeout_error: if false, this function returns false on   *)
(* timeout.                                                                *)
TimeoutReturnsFalse == pc = "error" /\ ~timeout_error => late # number

(* protocol.h of protocol_read_block_error: true unless a timeout occurs.  *)
FalseMeansTimeout == result = "false" => late = number

(* protocol.h of timeout: 0 is an infinite timeout.                        *)
ZeroIsInfinite == timeout_ms = 0 /\ number > 0 => late # number
==============================================================================
