------------------------------ MODULE UartWrite ------------------------------
(***************************************************************************)
(* The blocking write of nuhal_all/src/uart.c over uart_write_nonblock of  *)
(* both platforms, and uart_printf, which writes up to BufferLen           *)
(* characters with half a unit of timeout per character, then a warning if *)
(* there was more.                                                         *)
(*                                                                         *)
(* Characters leave the port's output buffer of Depth bytes at any pace,   *)
(* flow control included.  The caller takes no more than MaxGap ticks from *)
(* step to step.                                                           *)
(***************************************************************************)
EXTENDS Clock

CONSTANTS Platforms,     \* some of "host" and "tiva"
          Depth,         \* bytes the output buffer holds
          Lens,          \* lengths given to uart_write_block
          Timeouts,      \* timeouts given to it, in units; 0 waits for ever
          PrintLens,     \* lengths of what uart_printf formats
          BufferLen,     \* what of it fits its buffer (1024)
          WarnLen,       \* the length of its warning
          MaxGap

ASSUME WriteAssumption ==
    /\ Platforms \subseteq {"host", "tiva"} /\ Depth \in Nat \ {0}
    /\ Lens \subseteq Nat /\ Timeouts \subseteq Nat /\ PrintLens \subseteq Nat
    /\ BufferLen \in Nat /\ WarnLen \in Nat \ {0} /\ MaxGap \in Nat

(* The timeouts of the caller, and of uart_printf and its warning.         *)
AllTimeouts == Timeouts \cup {BufferLen \div 2, WarnLen \div 2}

ASSUME TimeoutsBounded == \E n \in AllTimeouts : \A m \in AllTimeouts : m <= n

VARIABLES counter,       \* the clock, in ticks since its rollover
          idle,          \* ticks since the caller's latest step
          since,         \* ticks since the latest uart_write_block began
          platform,      \* the one the library is built for
          queued,        \* bytes in the output buffer
          pc,            \* "idle", "loop", "write"; "timeout" or "error"
                         \* when error() was called
          call,          \* the uart_write_block in progress
          stamp,
          written        \* bytes of it in the output buffer so far

clock == <<counter, idle, since>>
port == <<platform, queued>>
thread == <<pc, call, stamp, written>>
vars == <<clock, port, thread>>

LongestTimeout == CHOOSE n \in AllTimeouts : \A m \in AllTimeouts : m <= n
Slack == 2 * MaxGap + 2 * TicksPerUnit
SinceMax == LongestTimeout * TicksPerUnit + Slack + 1

Busy == pc \in {"loop", "write"}

Init ==
    /\ counter \in Counts /\ idle = 0 /\ since = 0
    /\ platform \in Platforms /\ queued \in 0 .. Depth
    /\ pc = "idle"
    /\ stamp = NewStamp(counter) /\ written = 0
    /\ call = [entry |-> "write", len |-> 0, timeout |-> 0, warn |-> FALSE]

------------------------------------------------------------------------------
Tick ==
    /\ pc = "idle" \/ (Busy /\ idle < MaxGap)
    /\ counter' = (counter + 1) % TickPeriod
    /\ IF Busy
       THEN idle' = idle + 1 /\ since' = IF since < SinceMax THEN since + 1 ELSE since
       ELSE UNCHANGED <<idle, since>>
    /\ UNCHANGED <<port, thread>>

(* A character leaves, when flow control lets it.                          *)
Transmit ==
    /\ queued > 0 /\ queued' = queued - 1
    /\ UNCHANGED <<platform, clock, thread>>

------------------------------------------------------------------------------
(* uart_write_block is entered: its time stamp is taken.                   *)
Begin(entry, len, timeout, warn) ==
    /\ pc' = "loop" /\ stamp' = NewStamp(counter) /\ written' = 0
    /\ call' = [entry |-> entry, len |-> len, timeout |-> timeout, warn |-> warn]
    /\ idle' = 0 /\ since' = 0

Write(len, timeout) ==
    /\ pc = "idle"
    /\ Begin("write", len, timeout, FALSE)
    /\ UNCHANGED <<counter, port>>

(* A length of exactly BufferLen already counts as one that does not fit.  *)
Printf(len) ==
    /\ pc = "idle"
    /\ LET fits == len < BufferLen
           real_len == IF fits THEN len ELSE BufferLen
       IN  Begin("printf", real_len, real_len \div 2, ~fits)
    /\ UNCHANGED <<counter, port>>

(* Faults: the stamp starts anew in every iteration; a unit too few.       *)
StampRestarted == NewStamp(counter)
StampPolled == Polled(stamp, counter)
LateEarly == call.timeout # 0 /\ StampPolled.elapsed + 1 >= call.timeout
Late == call.timeout # 0 /\ StampPolled.elapsed >= call.timeout

LoopTest ==
    /\ pc = "loop"
    /\ pc' = IF Late THEN "timeout" ELSE "write"
    /\ stamp' = IF call.timeout = 0 THEN stamp ELSE StampPolled
    /\ idle' = 0
    /\ UNCHANGED <<counter, since, port, call, written>>

(* uart_write_nonblock takes what fits.  On the host a full buffer makes   *)
(* write() fail with EAGAIN, which is an error like any other.             *)
WriteBody ==
    /\ pc = "write"
    /\ ~(platform = "host" /\ queued = Depth /\ written < call.len)
    /\ LET left == call.len - written
           space == Depth - queued
           k == IF space < left THEN space ELSE left
       IN  /\ queued' = queued + k
           /\ IF k < left
              THEN /\ pc' = "loop" /\ written' = written + k /\ idle' = 0
                   /\ UNCHANGED <<since, call, stamp>>
              ELSE IF call.warn
              THEN Begin("printf", WarnLen, WarnLen \div 2, FALSE)
              ELSE /\ pc' = "idle" /\ written' = 0 /\ idle' = 0
                   /\ UNCHANGED <<since, call, stamp>>
    /\ UNCHANGED <<counter, platform>>

WriteAgain ==
    /\ pc = "write" /\ platform = "host" /\ queued = Depth /\ written < call.len
    /\ pc' = "error"
    /\ UNCHANGED <<clock, port, call, stamp, written>>

Work == LoopTest \/ WriteBody \/ WriteAgain

Next ==
    \/ Tick \/ Transmit \/ Work
    \/ \E len \in Lens, timeout \in Timeouts : Write(len, timeout)
    \/ \E len \in PrintLens : Printf(len)

Spec == Init /\ [][Next]_vars

(* The clock runs and the caller is scheduled; flow control may hold the   *)
(* output back for ever.                                                   *)
FairSpec == Spec /\ WF_vars(Tick) /\ WF_vars(Work)

------------------------------------------------------------------------------
TypeOK ==
    /\ counter \in Counts /\ idle \in 0 .. MaxGap /\ since \in 0 .. SinceMax
    /\ platform \in Platforms /\ queued \in 0 .. Depth
    /\ pc \in {"idle", "loop", "write", "timeout", "error"}
    /\ call \in [entry : {"write", "printf"}, len : Nat, timeout : Nat,
                 warn : BOOLEAN]
    /\ stamp \in [curr : 0 .. time_period, elapsed : 0 .. StampMod - 1]
    /\ written \in 0 .. call.len

(* The fatal timeout is never a whole unit early, however the clock rolls  *)
(* over while the output is held back.                                     *)
NotTimedOutEarly ==
    pc = "timeout" => since > (call.timeout - 1) * TicksPerUnit

(* A write with a timeout is over soon after it.                           *)
OverInTime ==
    Busy /\ call.timeout # 0 => since <= call.timeout * TicksPerUnit + Slack

(* A write with a timeout ends, though the output may be held for ever; so *)
(* does the warning that follows a truncated uart_printf.                  *)
WriteEnds == Busy /\ call.timeout # 0 ~> ~Busy

(* uart.h of uart_printf: blocks until the data can be written or a        *)
(* timeout equal to 0.5 ms per character occurs.                           *)
PrintfWaits ==
    pc = "timeout" /\ call.entry = "printf" =>
        2 * since >= call.len * TicksPerUnit

(* The same sentence: one of the two occurs.                               *)
PrintfEnds == Busy /\ call.entry = "printf" ~> ~Busy

(* uart.h of uart_write_block: blocking write, a fatal error if it takes   *)
(* longer than the timeout.                                                *)
FullBufferIsWaitedFor == pc # "error"
==============================================================================
