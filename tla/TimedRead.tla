------------------------------ MODULE TimedRead ------------------------------
(***************************************************************************)
(* What a caller of uart_read_block and uart_read_block_error may rely on: *)
(* the read as one atomic step, which takes what it returns off the stream *)
(* at once, within the time it was given.  Platforms differ in their       *)
(* errors: a lost or damaged byte ends a read on the Tiva, which hands out *)
(* nothing after it; system calls fail on the host, which notices no loss. *)
(***************************************************************************)
EXTENDS Integers

CONSTANTS Platforms,     \* some of "host" and "tiva"
          Bytes,         \* bytes the peer sends
          Ends,          \* the positions of those that match a terminator
          Depth,         \* bytes the receive buffer holds
          Calls,         \* the arguments of the calls, as records
          TicksPerUnit,  \* ticks of the clock in a unit of the timeouts
          IntMax,        \* the longest timeout the host takes
          Slack          \* ticks a call may go on after its timeout

VARIABLES platform,      \* the one the library is built for
          faulty,        \* the host's system calls may fail
          arrived,       \* bytes that came in
          whole,         \* those before the first lost or damaged byte
          damaged,       \* the byte after these came with an error
          lost,          \* a byte came that there was no room for
          consumed,      \* bytes handed over by the calls that returned
          phase,         \* "idle", "busy" or "error"
          call,          \* the arguments of the latest call
          since,         \* ticks since then, if it has a timeout
          ret            \* what the latest call returned; -1 before

line == <<platform, faulty, arrived, whole, damaged, lost>>
vars == <<line, consumed, phase, call, since, ret>>

Init ==
    /\ platform \in Platforms
    /\ faulty \in BOOLEAN /\ (faulty => platform = "host")
    /\ arrived = 0 /\ whole = 0 /\ damaged = FALSE /\ lost = FALSE /\ consumed = 0
    /\ phase = "idle" /\ since = 0 /\ ret = -1
    /\ call = [len |-> 0, timeout |-> 0, term |-> "none", entry |-> "read_block"]

pending == arrived - consumed

Clean == ~lost /\ ~damaged

ByteComes ==
    /\ arrived' = arrived + 1 /\ whole' = IF Clean THEN whole + 1 ELSE whole
    /\ UNCHANGED <<damaged, lost>>

DamagedByteComes ==
    /\ platform = "tiva" /\ Clean
    /\ arrived' = arrived + 1 /\ damaged' = TRUE
    /\ UNCHANGED <<whole, lost>>

(* Only while a buffer's worth is not handed over.                         *)
ByteIsLost ==
    /\ pending >= Depth /\ lost' = TRUE
    /\ UNCHANGED <<arrived, whole, damaged>>

Arrive ==
    /\ arrived < Bytes
    /\ ByteComes \/ DamagedByteComes \/ ByteIsLost
    /\ UNCHANGED <<platform, faulty, consumed, phase, call, since, ret>>

(* Time passes, but no more than a call with a timeout may take.           *)
Tick ==
    /\ phase = "busy" /\ call.timeout # 0
    /\ since < call.timeout * TicksPerUnit + Slack
    /\ since' = since + 1
    /\ UNCHANGED <<line, consumed, phase, call, ret>>

(* A read of no bytes is over at once.                                     *)
Call ==
    /\ phase = "idle"
    /\ \E c \in Calls :
          /\ call' = c
          /\ IF c.len = 0 THEN phase' = "idle" /\ ret' = 0
                          ELSE phase' = "busy" /\ UNCHANGED ret
    /\ since' = 0
    /\ UNCHANGED <<line, consumed>>

TimeIsUp == call.timeout # 0 /\ since > (call.timeout - 1) * TicksPerUnit

Return(n) ==
    /\ phase = "busy" /\ n <= pending
    /\ platform = "tiva" => consumed + n <= whole
    /\ phase' = "idle" /\ ret' = n /\ consumed' = consumed + n
    /\ UNCHANGED <<line, call, since>>

(* All that was asked for, or up to a terminator.                          *)
Deliver ==
    \E n \in 1 .. call.len :
        /\ n = call.len \/ (call.term = "char" /\ consumed + n \in Ends)
        /\ Return(n)

(* What has come when the time is up.                                      *)
TimeOut ==
    \E n \in 0 .. call.len - 1 :
        TimeIsUp /\ call.entry # "read_error" /\ Return(n)

(* error() does not return.                                                *)
Fail ==
    /\ phase = "busy"
    /\ \/ TimeIsUp /\ call.entry = "read_error"
       \/ platform = "tiva" /\ ~Clean /\ pending > 0
       \/ faulty \/ (platform = "host" /\ call.timeout > IntMax)
    /\ phase' = "error"
    /\ UNCHANGED <<line, consumed, call, since, ret>>

Next == Arrive \/ Tick \/ Call \/ Deliver \/ TimeOut \/ Fail

Spec == Init /\ [][Next]_vars
==============================================================================
