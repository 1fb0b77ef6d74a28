-------------------------------- MODULE Clock --------------------------------
(***************************************************************************)
(* The time source of nuhal on either platform, and the sum nuhal_all's    *)
(* time.c builds on it.  Time passes in ticks of a counter that rolls      *)
(* over.  On the host a tick is a unit (a millisecond) and the count       *)
(* starts at 0; on the Tiva it runs from 1 to the SysTick period, and a    *)
(* reading drops the fraction of a unit, as does the period.  The shifts   *)
(* by 8 of time_tiva.c cancel in a nested integer division.                *)
(***************************************************************************)
EXTENDS Integers

CONSTANTS TickPeriod,     \* ticks from one rollover of the counter to the next
          TicksPerUnit,   \* ticks in a millisecond or microsecond
          First,          \* what the counter shows after a rollover
          StampMod        \* elapsed_time wraps at this value (2^32)

ASSUME CounterAssumption ==
    /\ TickPeriod \in Nat /\ TicksPerUnit \in Nat /\ StampMod \in Nat
    /\ 0 < TicksPerUnit /\ TicksPerUnit <= TickPeriod /\ 0 < StampMod
    /\ First \in {0, 1}
    /\ First = 0 => TicksPerUnit = 1

Counts == 0 .. TickPeriod - 1

time_current(count) == (First + count) \div TicksPerUnit
time_period == TickPeriod \div TicksPerUnit

(* Mutant: the rollover counts as one unit more than the period.           *)
AdvanceOffByOne(curr, prev) ==
    IF curr >= prev THEN curr - prev ELSE (time_period - prev) + curr + 1

(* What one call of time_elapsed adds to elapsed_time.                     *)
Advance(curr, prev) ==
    IF curr >= prev THEN curr - prev ELSE (time_period - prev) + curr

(* A time stamp as its user sees it: time_elapsed_ms_init, and what a call *)
(* of time_elapsed_ms makes of it.                                         *)
NewStamp(count) == [curr |-> time_current(count), elapsed |-> 0]

Polled(stamp, count) ==
    [curr |-> time_current(count),
     elapsed |-> (stamp.elapsed + Advance(time_current(count), stamp.curr))
                 % StampMod]
==============================================================================
