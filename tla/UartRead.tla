------------------------------ MODULE UartRead -------------------------------
(***************************************************************************)
(* The blocking read of nuhal_all/src/uart.c over the port functions of    *)
(* both platforms: uart_read_block_error, the uart_read_block that calls   *)
(* it, uart_wait_for_data and uart_read_nonblock.                          *)
(*                                                                         *)
(* Bytes are numbered as they enter a receive buffer of Depth bytes, while *)
(* the caller and the clock run.  One that finds it full is lost, and the  *)
(* bytes after it still come: there is a hole after the whole bytes.  The  *)
(* caller's loops take no more than MaxGap ticks from step to step; the    *)
(* host sleeps in poll() for as long as it asked, within MaxGap.  Its      *)
(* clock is that with TicksPerUnit = 1; the Tiva's stands in for it        *)
(* where both platforms are checked at once.                               *)
(***************************************************************************)
EXTENDS Clock

CONSTANTS Platforms,     \* some of "host" and "tiva"
          Bytes,         \* bytes the peer sends
          Ends,          \* the positions of those that match a terminator
          Depth,         \* bytes the receive buffer holds
          Lens,          \* lengths asked for
          Timeouts,      \* timeouts given, in units; 0 waits for ever
          Entries,       \* the entry points the caller uses
          IntMax,        \* the longest timeout poll() takes
          MaxGap

EntryPoints == {"read_block", "read_error", "read_noerror"}

ASSUME ReadAssumption ==
    /\ Platforms \subseteq {"host", "tiva"}
    /\ Bytes \in Nat /\ Ends \subseteq 1 .. Bytes /\ Depth \in Nat \ {0}
    /\ Lens \subseteq Nat /\ Timeouts \subseteq Nat /\ MaxGap \in Nat
    /\ IntMax \in Nat
    /\ Entries \subseteq EntryPoints

ASSUME TimeoutsBounded == \E n \in Timeouts : \A m \in Timeouts : m <= n

VARIABLES counter,       \* the clock, in ticks since its rollover
          idle,          \* ticks since the caller's latest step
          since,         \* ticks since the call, up to SinceMax
          platform,      \* the one the library is built for
          faulty,        \* the host's system calls may fail
          arrived,       \* bytes that reached the receive buffer
          whole,         \* those before the first hole or damaged byte
          damaged,       \* the Tiva's byte after these has an error of its own
          lost,          \* a byte found the receive buffer full
          taken,         \* bytes the caller has read
          pc,            \* "idle", "wait", "loop", "read" or "error"
          call,          \* the arguments of the call
          stamp,         \* the stamp of uart_read_block_error
          waitStamp,     \* the stamp of the Tiva's uart_wait_for_data
          waitFailed,    \* uart_wait_for_data returned false
          read,          \* bytes read by this call
          ret            \* what the latest call returned; -1 before

clock == <<counter, idle, since>>
port == <<platform, faulty, arrived, whole, damaged, lost>>
thread == <<pc, call, stamp, waitStamp, waitFailed, read, ret>>
vars == <<clock, port, taken, thread>>

Calls == [len : Lens, timeout : Timeouts, term : {"none", "char"},
          entry : Entries]

LongestTimeout == CHOOSE t \in Timeouts : \A u \in Timeouts : u <= t
Slack == 3 * MaxGap + 2 * TicksPerUnit
SinceMax == LongestTimeout * TicksPerUnit + Slack + 1

available == arrived - taken

Unset == [curr |-> 0, elapsed |-> 0]       \* a stamp out of scope

Init ==
    /\ counter \in Counts /\ idle = 0 /\ since = 0
    /\ platform \in Platforms
    /\ faulty \in BOOLEAN /\ (faulty => platform = "host")
    /\ arrived = 0 /\ whole = 0 /\ damaged = FALSE /\ lost = FALSE /\ taken = 0
    /\ pc = "idle" /\ call = [len |-> 0, timeout |-> 0, term |-> "none",
                             entry |-> "read_block"]
    /\ stamp = Unset /\ waitStamp = Unset /\ waitFailed = FALSE
    /\ read = 0 /\ ret = -1

------------------------------------------------------------------------------
(* The clock and the line.                                                 *)

Tick ==
    /\ CASE pc = "idle" -> TRUE
         [] pc = "wait" /\ platform = "host" ->
              call.timeout = 0
              \/ since < call.timeout * TicksPerUnit + MaxGap
         [] pc = "error" -> FALSE
         [] OTHER -> idle < MaxGap
    /\ counter' = (counter + 1) % TickPeriod
    /\ IF pc = "idle"
       THEN UNCHANGED <<idle, since>>
       ELSE /\ idle' = IF idle < MaxGap THEN idle + 1 ELSE idle
            /\ since' = IF since < SinceMax THEN since + 1 ELSE since
    /\ UNCHANGED <<port, taken, thread>>

(* Framing, parity and break errors come with their byte, and only the     *)
(* first of them matters: it is fatal.                                     *)
Arrive ==
    /\ arrived < Bytes
    /\ IF available < Depth
       THEN /\ arrived' = arrived + 1 /\ UNCHANGED lost
            /\ \/ /\ whole' = IF lost \/ damaged THEN whole ELSE whole + 1
                  /\ UNCHANGED damaged
               \/ /\ platform = "tiva" /\ ~lost /\ ~damaged
                  /\ damaged' = TRUE /\ UNCHANGED whole
       ELSE lost' = TRUE /\ UNCHANGED <<arrived, whole, damaged>>
    /\ UNCHANGED <<platform, faulty, clock, taken, thread>>

------------------------------------------------------------------------------
(* The caller.                                                             *)

timeout_error == call.entry = "read_error"

Return(n) ==
    /\ pc' = "idle" /\ ret' = n
    /\ read' = 0 /\ stamp' = Unset /\ waitStamp' = Unset /\ waitFailed' = FALSE

(* A read of no bytes is over at once; any other starts the clock.         *)
Call ==
    /\ pc = "idle"
    /\ \E c \in Calls :
          /\ call' = c
          /\ IF c.len = 0
             THEN Return(0)
             ELSE /\ pc' = "wait"
                  /\ stamp' = NewStamp(counter)
                  /\ waitStamp' = IF platform = "tiva" THEN NewStamp(counter)
                                                      ELSE Unset
                  /\ UNCHANGED <<waitFailed, read, ret>>
    /\ idle' = 0 /\ since' = 0
    /\ UNCHANGED <<counter, port, taken>>

(* poll() takes an int.                                                    *)
TooLong == platform = "host" /\ call.timeout > IntMax

(* uart_wait_for_data: poll() on the host, a timed loop on the Tiva.  What *)
(* it returns is ignored.                                                  *)
WaitData ==
    /\ pc = "wait" /\ available > 0 /\ ~TooLong
    /\ pc' = "loop" /\ idle' = 0
    /\ UNCHANGED <<counter, since, port, taken, call, stamp, waitStamp,
                   waitFailed, read, ret>>

WaitTimeout ==
    /\ pc = "wait" /\ available = 0 /\ call.timeout # 0 /\ ~TooLong
    /\ \/ /\ platform = "host"
          /\ since >= call.timeout * TicksPerUnit
          /\ UNCHANGED waitStamp
       \/ /\ platform = "tiva"
          /\ waitStamp' = Polled(waitStamp, counter)
          /\ waitStamp'.elapsed > call.timeout
    /\ pc' = "loop" /\ waitFailed' = TRUE /\ idle' = 0
    /\ UNCHANGED <<counter, since, port, taken, call, stamp, read, ret>>

WaitAgain ==
    /\ pc = "wait" /\ available = 0 /\ platform = "tiva"
    /\ waitStamp' = Polled(waitStamp, counter)
    /\ call.timeout = 0 \/ waitStamp'.elapsed <= call.timeout
    /\ idle' = 0
    /\ UNCHANGED <<counter, since, port, taken, pc, call, stamp, waitFailed,
                   read, ret>>

(* error() does not return.                                                *)
Die ==
    /\ pc' = "error" /\ idle' = 0
    /\ UNCHANGED <<counter, since, port, taken, call, stamp, waitStamp,
                   waitFailed, read, ret>>

WaitFails ==
    /\ pc = "wait" /\ (faulty \/ TooLong)
    /\ Die

(* Mutant: the time stamp starts anew in every iteration of the loop.      *)
StampRestarted == NewStamp(counter)
StampPolled == Polled(stamp, counter)

(* A timeout of 0 is for ever.                                             *)
Late == call.timeout # 0 /\ StampPolled.elapsed >= call.timeout

(* What a read that is out of time hands over.  Mutant: nothing.           *)
GiveUpEmpty == Return(0)
GiveUp == Return(read)

(* The loop condition, and what follows the loop when it fails.            *)
LoopTest ==
    /\ pc = "loop"
    /\ \/ /\ ~Late
          /\ pc' = "read"
          /\ stamp' = IF call.timeout = 0 THEN stamp ELSE StampPolled
          /\ UNCHANGED <<waitStamp, waitFailed, read, ret>>
       \/ /\ Late /\ timeout_error
          /\ pc' = "error"
          /\ UNCHANGED <<stamp, waitStamp, waitFailed, read, ret>>
       \/ Late /\ ~timeout_error /\ GiveUp
    /\ idle' = 0
    /\ UNCHANGED <<counter, since, port, taken, call>>

(* data[read - 1] matches the termination condition.  With nothing read it *)
(* is the byte before the buffer, which may be anything.                   *)
Terminated == call.term = "char" /\ (read > 0 => taken \in Ends)

NotTerminated == call.term = "none" \/ (read > 0 => taken \notin Ends)

(* UARTRxErrorGet as a byte is taken: the overrun status tells of the FIFO *)
(* and stays, the others of that byte.  Mutant: looked at once, before the *)
(* first byte of a call.                                                   *)
ErrorStatus == lost \/ (damaged /\ taken = whole)
ErrorSeenAtFirst == platform = "tiva" /\ read = 0 /\ ErrorStatus
ErrorNoticed == platform = "tiva" /\ ErrorStatus

MoreToRead == available > 0 /\ read < call.len

(* uart_read_nonblock.  On the Tiva bytes go on arriving while it runs.    *)
ReadByte ==
    /\ pc = "read" /\ MoreToRead /\ ~ErrorNoticed
    /\ taken' = taken + 1 /\ read' = read + 1
    /\ UNCHANGED <<clock, port, pc, call, stamp, waitStamp, waitFailed, ret>>

(* A byte with an error, or a read() that fails, ends the program.         *)
ReadError ==
    /\ pc = "read"
    /\ (MoreToRead /\ ErrorNoticed) \/ faulty
    /\ Die

(* The rest of the loop's body.                                            *)
ReadDone ==
    /\ pc = "read" /\ ~MoreToRead
    /\ \/ (read = call.len \/ Terminated) /\ Return(read)
       \/ /\ read # call.len /\ NotTerminated
          /\ pc' = "loop"
          /\ UNCHANGED <<read, stamp, waitStamp, waitFailed, ret>>
    /\ idle' = 0
    /\ UNCHANGED <<counter, since, port, taken, call>>

Work ==
    \/ WaitData \/ WaitTimeout \/ WaitAgain \/ WaitFails
    \/ LoopTest
    \/ ReadByte \/ ReadError \/ ReadDone

Next == Tick \/ Arrive \/ Call \/ Work

Spec == Init /\ [][Next]_vars

(* The clock runs and the caller's thread is scheduled.                    *)
FairSpec == Spec /\ WF_vars(Tick) /\ WF_vars(Work)

------------------------------------------------------------------------------
Busy == pc \in {"wait", "loop", "read"}

TypeOK ==
    /\ counter \in Counts /\ idle \in 0 .. MaxGap /\ since \in 0 .. SinceMax
    /\ platform \in Platforms /\ faulty \in BOOLEAN
    /\ arrived \in 0 .. Bytes /\ whole \in 0 .. arrived
    /\ damaged \in BOOLEAN /\ lost \in BOOLEAN
    /\ taken \in 0 .. arrived /\ available <= Depth
    /\ pc \in {"idle", "wait", "loop", "read", "error"} 
    /\ call \in [len : Nat, timeout : Nat, term : {"none", "char"}, entry : EntryPoints]
    /\ stamp \in [curr : 0 .. time_period, elapsed : 0 .. StampMod - 1]
    /\ waitStamp \in [curr : 0 .. time_period, elapsed : 0 .. StampMod - 1]
    /\ waitFailed \in BOOLEAN /\ read \in 0 .. taken
    /\ ret \in -1 .. Bytes

(* A call that returns fewer bytes than asked for ends in a terminator it  *)
(* was told of, or its time is up to within a unit.                        *)
ShortForAReason ==
    pc = "idle" /\ ret \in 0 .. call.len - 1 =>
        \/ call.term = "char" /\ ret > 0 /\ taken \in Ends
        \/ call.timeout # 0 /\ since > (call.timeout - 1) * TicksPerUnit

(* A call with a timeout is over soon after it, though its stamp is not    *)
(* polled while uart_wait_for_data waits.                                  *)
OverInTime ==
    Busy /\ call.timeout # 0 => since <= call.timeout * TicksPerUnit + Slack

(* The comment in uart_read_block_error: no need to check if the wait      *)
(* timed out, as the loop will be skipped if it did.                       *)
LoopSkippedAfterTimeout == pc = "read" => ~waitFailed

(* What a caller on the Tiva has been given is the stream itself: it never *)
(* reads past a byte the receive FIFO had no room for, nor one that came   *)
(* with an error, though bytes follow and the error comes up in the middle *)
(* of a read.                                                              *)
NothingMissing == platform = "tiva" => taken <= whole

(* A read with a timeout ends, whatever arrives.                           *)
ReadEnds == Busy /\ call.timeout # 0 ~> ~Busy

(* To its callers the read is one atomic step: it takes what it returns    *)
(* off the stream at once, all that was asked for, up to a terminator, or  *)
(* what has come when the time is up; it is over in time, and an error is  *)
(* one of a timeout, the line or the host.                                 *)
Atomic == INSTANCE TimedRead WITH
    consumed <- taken - read,
    phase <- IF Busy THEN "busy" ELSE pc,
    since <- IF call.timeout = 0 THEN 0 ELSE since

ImplementsAtomicRead == Atomic!Spec

(* uart.h: the read stops at a terminator even if len characters have not  *)
(* been read.                                                              *)
StopsAtTerminator ==
    pc = "idle" /\ ret > 0 /\ call.term = "char" =>
        \A position \in taken - ret + 1 .. taken - 1 : position \notin Ends

(* uart.h: a timeout of uart_read_block ends the program.                  *)
TimeoutIsFatal ==
    pc = "idle" /\ call.entry = "read_block" /\ call.term = "none"
        /\ ret >= 0 => ret = call.len
==============================================================================
