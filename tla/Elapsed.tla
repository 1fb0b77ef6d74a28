------------------------------- MODULE Elapsed -------------------------------
(***************************************************************************)
(* The loop of time_delay_ms in nuhal_all/src/time.c, which is also that   *)
(* of every timeout of the library: initialise a time stamp, then poll it  *)
(* until Limit units have elapsed, over a clock that rolls over meanwhile. *)
(* origin, polled and unseen are history variables that record the ticks   *)
(* that really passed.                                                     *)
(***************************************************************************)
EXTENDS Clock

CONSTANTS Limit,          \* the delay asked for, in units
          MaxGap,         \* the most ticks between two polls of the loop
          MaxTicks,       \* bound on the ticks a behaviour lasts
          MaxStep         \* the furthest the clock can be set back, in ticks

ASSUME LoopAssumption ==
    /\ Limit \in Nat /\ Limit > 0 /\ MaxGap \in Nat
    /\ MaxTicks \in Nat /\ MaxStep \in Nat
    /\ StampMod > Limit + MaxGap + 2

VARIABLES counter,        \* ticks since the latest rollover
          curr_time, prev_time, elapsed_time,     \* struct time_elapsed
          loop,           \* "waiting" or "done"
          origin,         \* the counter when the stamp was initialised
          polled,         \* ticks from then to the latest poll
          unseen          \* ticks since the latest poll

stamp == <<curr_time, prev_time, elapsed_time>>
vars == <<counter, stamp, loop, origin, polled, unseen>>

(* time_elapsed_ms_init, at any moment of the clock.                       *)
Init ==
    /\ counter \in Counts /\ origin = counter
    /\ curr_time = time_current(counter) /\ prev_time = 0 /\ elapsed_time = 0
    /\ loop = "waiting" /\ polled = 0 /\ unseen = 0

Tick ==
    /\ loop = "waiting"
    /\ unseen < MaxGap /\ polled + unseen < MaxTicks
    /\ counter' = (counter + 1) % TickPeriod
    /\ unseen' = unseen + 1
    /\ UNCHANGED <<stamp, loop, origin, polled>>

(* Mutant: the time of the latest poll replaces the sum.                   *)
PollForgets ==
    /\ loop = "waiting"
    /\ prev_time' = curr_time
    /\ curr_time' = time_current(counter)
    /\ elapsed_time' = Advance(curr_time', prev_time') % StampMod
    /\ loop' = IF elapsed_time' < Limit THEN "waiting" ELSE "done"
    /\ polled' = polled + unseen /\ unseen' = 0
    /\ UNCHANGED <<counter, origin>>

(* time_elapsed, and the loop condition on what it returns.                *)
Poll ==
    /\ loop = "waiting"
    /\ prev_time' = curr_time
    /\ curr_time' = time_current(counter)
    /\ elapsed_time' =
         (elapsed_time + Advance(curr_time', prev_time')) % StampMod
    /\ loop' = IF elapsed_time' < Limit THEN "waiting" ELSE "done"
    /\ polled' = polled + unseen /\ unseen' = 0
    /\ UNCHANGED <<counter, origin>>

Next == Tick \/ Poll

Spec == Init /\ [][Next]_vars

FairSpec == Spec /\ WF_vars(Tick) /\ WF_vars(Poll)

(* The host reads CLOCK_REALTIME, which can be set back while it is in use. *)
StepBack ==
    /\ loop = "waiting"
    /\ \E ticks \in 1 .. MaxStep :
          /\ ticks <= counter
          /\ counter' = counter - ticks
    /\ UNCHANGED <<stamp, loop, origin, polled, unseen>>

SteppingSpec == Init /\ [][Next \/ StepBack]_vars

------------------------------------------------------------------------------
TypeOK ==
    /\ counter \in Counts /\ origin \in Counts
    /\ curr_time \in 0 .. time_period /\ prev_time \in 0 .. time_period
    /\ elapsed_time \in 0 .. StampMod - 1
    /\ loop \in {"waiting", "done"}
    /\ polled \in Nat /\ unseen \in 0 .. MaxGap

(* The rollovers between the initialisation and the latest poll.           *)
Rollovers == (origin + polled) \div TickPeriod

(* The elapsed time follows the ticks that really passed, over any number  *)
(* of rollovers: it is never a whole unit ahead, and behind only by a      *)
(* fraction of a unit and the fraction that each rollover drops.           *)
ElapsedTracks ==
    LET counted == elapsed_time * TicksPerUnit
    IN  /\ counted < polled + TicksPerUnit
        /\ counted > polled - TicksPerUnit
                       - Rollovers * (TickPeriod % TicksPerUnit)

(* A delay or timeout never ends a whole unit early.                       *)
NotEarly == loop = "done" => polled > (Limit - 1) * TicksPerUnit

(* A delay ends: no poll throws away the time that passed before it.       *)
DelayEnds == loop = "waiting" ~> loop = "done"
==============================================================================
