--------------------------- MODULE UartWriteProofs ----------------------------
(***************************************************************************)
(* Proofs about UartWrite for every clock, buffer, length and timeout: for *)
(* any gap between two steps of the caller, the types, and that the fatal  *)
(* timeout of a blocking write is not early; for a caller that is Prompt,  *)
(* that a write is over in time.                                           *)
(***************************************************************************)
EXTENDS UartWrite, ClockProofs

(* The stamp is never ahead of the ticks since the call; since itself is   *)
(* capped, at more than any timeout.                                       *)
Tracked ==
    Busy /\ since < SinceMax =>
        \E o \in Counts, k \in Nat :
            k <= since /\ NeverAhead(stamp, o, k) /\ counter = Position(o, since)

Obeyed == call.timeout <= LongestTimeout

IInv == TypeOK /\ Tracked /\ Obeyed /\ NotTimedOutEarly

(* What the assumptions say of each constant, for the solver.              *)
LEMMA Constants ==
    /\ Platforms \subseteq {"host", "tiva"} /\ Depth \in Nat /\ Depth > 0
    /\ Lens \subseteq Nat /\ Timeouts \subseteq Nat /\ PrintLens \subseteq Nat
    /\ BufferLen \in Nat /\ WarnLen \in Nat /\ WarnLen > 0 /\ MaxGap \in Nat
BY WriteAssumption

LEMMA Longest ==
    /\ AllTimeouts \subseteq Nat /\ LongestTimeout \in Nat
    /\ \A t \in AllTimeouts : t <= LongestTimeout
    /\ SinceMax \in Nat /\ SinceMax > LongestTimeout * TicksPerUnit
<1>1. BufferLen \div 2 \in Nat /\ WarnLen \div 2 \in Nat
  BY Constants
<1>2. AllTimeouts \subseteq Nat
  BY <1>1, Constants DEF AllTimeouts
<1>3. LongestTimeout \in AllTimeouts /\ \A t \in AllTimeouts : t <= LongestTimeout
  BY TimeoutsBounded DEF LongestTimeout
<1>4. LongestTimeout \in Nat
  BY <1>2, <1>3
<1> DEFINE x == LongestTimeout * TicksPerUnit
<1>5. x \in Nat /\ SinceMax = x + Slack + 1
  BY <1>4, ClockConstants DEF SinceMax
<1> HIDE DEF x
<1>6. Slack \in Nat
  BY Constants, ClockConstants DEF Slack
<1> QED
  BY <1>2, <1>3, <1>4, <1>5, <1>6 DEF x

(* The half of a length that uart_printf may write.                        *)
LEMMA Halves ==
    ASSUME NEW len \in Nat, len <= BufferLen
    PROVE  len \div 2 \in Nat /\ len \div 2 <= LongestTimeout
<1>1. len \div 2 \in Nat /\ BufferLen \div 2 \in Nat /\ len \div 2 <= BufferLen \div 2
  BY Constants
<1>2. BufferLen \div 2 \in AllTimeouts
  BY DEF AllTimeouts
<1> QED
  BY <1>1, <1>2, Longest

------------------------------------------------------------------------------
LEMMA InvInit == Init => IInv
<1> SUFFICES ASSUME Init PROVE IInv
  OBVIOUS
<1>1. counter \in Counts /\ stamp = NewStamp(counter) /\ pc = "idle"
      /\ call = [entry |-> "write", len |-> 0, timeout |-> 0, warn |-> FALSE]
  BY DEF Init
<1>2. stamp \in [curr : 0 .. time_period, elapsed : 0 .. StampMod - 1]
  BY <1>1, NewNeverAhead DEF NewStamp
<1>3. TypeOK
  BY <1>1, <1>2, Constants, Longest DEF Init, TypeOK
<1>4. Tracked /\ NotTimedOutEarly
  BY <1>1 DEF Tracked, Busy, NotTimedOutEarly
<1>5. Obeyed
  BY <1>1, Longest DEF Obeyed
<1> QED
  BY <1>3, <1>4, <1>5 DEF IInv

(* A call that begins takes a stamp that shows nothing yet.                *)
LEMMA InvBegin ==
    ASSUME IInv, NEW entry \in {"write", "printf"}, NEW len \in Nat,
           NEW timeout \in Nat, timeout <= LongestTimeout, NEW warn \in BOOLEAN,
           Begin(entry, len, timeout, warn), counter' = counter,
           platform' = platform, queued' \in 0 .. Depth
    PROVE  IInv'
<1>1. counter \in Counts /\ platform \in Platforms
  BY DEF IInv, TypeOK
<1>2. /\ pc' = "loop" /\ stamp' = NewStamp(counter) /\ written' = 0
      /\ idle' = 0 /\ since' = 0
      /\ call' = [entry |-> entry, len |-> len, timeout |-> timeout, warn |-> warn]
  BY DEF Begin
<1>3. stamp' \in [curr : 0 .. time_period, elapsed : 0 .. StampMod - 1]
  BY <1>1, <1>2, NewNeverAhead DEF NewStamp
<1>4. TypeOK'
  <2>1. /\ idle' \in 0 .. MaxGap /\ since' \in 0 .. SinceMax
        /\ call'.len = len /\ written' \in 0 .. call'.len
    BY <1>2, Constants, Longest
  <2>2. call' \in [entry : {"write", "printf"}, len : Nat, timeout : Nat, warn : BOOLEAN]
    BY <1>2
  <2> QED
    BY <1>1, <1>2, <1>3, <2>1, <2>2 DEF TypeOK, Counts, time_period
<1>5. Tracked'
  <2>1. NeverAhead(stamp', counter, 0) /\ counter' = Position(counter, since')
    BY <1>1, <1>2, NewNeverAhead
  <2>2. 0 \in Nat /\ 0 <= since'
    BY <1>2
  <2>3. \E o \in Counts, k \in Nat : k <= since' /\ NeverAhead(stamp', o, k)
                                     /\ counter' = Position(o, since')
    BY <1>1, <2>1, <2>2
  <2> QED
    BY <2>3 DEF Tracked, Counts, NeverAhead, Position, Laps, time_current, time_period
<1>6. Obeyed' /\ NotTimedOutEarly'
  BY <1>2 DEF Obeyed, NotTimedOutEarly, LongestTimeout, AllTimeouts
<1> QED
  BY <1>4, <1>5, <1>6 DEF IInv

LEMMA InvWrite ==
    ASSUME IInv, NEW len \in Lens, NEW timeout \in Timeouts, Write(len, timeout)
    PROVE  IInv'
<1>1. len \in Nat /\ timeout \in Nat /\ timeout <= LongestTimeout
  BY Constants, Longest DEF AllTimeouts
<1>2. /\ Begin("write", len, timeout, FALSE)
      /\ counter' = counter /\ platform' = platform /\ queued' = queued
  BY DEF Write, port
<1>3. queued' \in 0 .. Depth
  BY <1>2 DEF IInv, TypeOK
<1> QED
  BY <1>1, <1>2, <1>3, InvBegin

LEMMA InvPrintf ==
    ASSUME IInv, NEW len \in PrintLens, Printf(len)
    PROVE  IInv'
<1> DEFINE fits == len < BufferLen
           real_len == IF fits THEN len ELSE BufferLen
<1>1. len \in Nat /\ real_len \in Nat /\ real_len <= BufferLen /\ (~fits) \in BOOLEAN
  BY Constants
<1>2. /\ Begin("printf", real_len, real_len \div 2, ~fits)
      /\ counter' = counter /\ platform' = platform /\ queued' = queued
  BY DEF Printf, port
<1>3. queued' \in 0 .. Depth
  BY <1>2 DEF IInv, TypeOK
<1> HIDE DEF fits, real_len
<1>4. real_len \div 2 \in Nat /\ real_len \div 2 <= LongestTimeout
  BY <1>1, Halves
<1> QED
  BY <1>1, <1>2, <1>3, <1>4, InvBegin

(* A tick moves the clock and the time since the call together.            *)
LEMMA InvTick ==
    ASSUME IInv, Tick
    PROVE  IInv'
<1>1. /\ counter' = (counter + 1) % TickPeriod /\ UNCHANGED <<port, thread>>
      /\ pc = "idle" \/ Busy
  BY DEF Tick
<1>2. /\ platform' = platform /\ queued' = queued /\ pc' = pc /\ call' = call
      /\ stamp' = stamp /\ written' = written
  BY <1>1 DEF port, thread
<1>3. counter' \in Counts
  BY <1>1, ClockConstants DEF IInv, TypeOK, Counts
<1>4. idle' \in 0 .. MaxGap /\ since' \in 0 .. SinceMax
  BY Constants, Longest DEF Tick, Busy, IInv, TypeOK
<1>5. TypeOK'
  BY <1>2, <1>3, <1>4 DEF IInv, TypeOK, Counts, time_period
<1>6. Tracked'
  <2> SUFFICES ASSUME Busy, since' < SinceMax
               PROVE  \E o \in Counts, k \in Nat : k <= since' /\ NeverAhead(stamp, o, k)
                                                 /\ counter' = Position(o, since')
    BY <1>2 DEF Tracked, Busy, NeverAhead, Position, Laps, time_current, time_period,
                Counts, SinceMax, LongestTimeout, AllTimeouts, Slack
  <2>1. since \in Nat /\ since' = since + 1 /\ since < SinceMax
    BY Longest DEF Tick, IInv, TypeOK
  <2>2. PICK o \in Counts, k \in Nat : k <= since /\ NeverAhead(stamp, o, k)
                                       /\ counter = Position(o, since)
    BY <2>1 DEF IInv, Tracked
  <2>3. counter' = Position(o, since + 1)
    BY <1>1, <2>1, <2>2, PositionTick
  <2>4. k <= since'
    BY <2>1, <2>2
  <2> QED
    BY <2>1, <2>2, <2>3, <2>4
<1>7. NotTimedOutEarly' /\ Obeyed'
  BY <1>1, <1>2 DEF IInv, Obeyed, NotTimedOutEarly, Busy, LongestTimeout, AllTimeouts
<1> QED
  BY <1>5, <1>6, <1>7 DEF IInv

(* The loop condition: a timeout it sees has passed, to within a unit.     *)
LEMMA InvLoopTest ==
    ASSUME IInv, LoopTest
    PROVE  IInv'
<1>1. /\ pc = "loop" /\ pc' \in {"timeout", "write"} /\ idle' = 0
      /\ counter' = counter /\ since' = since /\ platform' = platform
      /\ queued' = queued /\ call' = call /\ written' = written
      /\ stamp' = IF call.timeout = 0 THEN stamp ELSE StampPolled
      /\ pc' = "timeout" => Late
  BY DEF LoopTest, port
<1>2. /\ since \in Nat /\ stamp \in Stamps /\ call.timeout \in Nat
      /\ call.timeout <= LongestTimeout /\ counter \in Counts
  <2>1. stamp \in [curr : 0 .. time_period, elapsed : 0 .. StampMod - 1]
        /\ time_period \in Nat
    BY PeriodBounds DEF IInv, TypeOK
  <2>2. stamp \in Stamps
    BY <2>1, ClockConstants DEF Stamps
  <2> QED
    BY <2>2, Longest DEF IInv, TypeOK, Obeyed
<1>3. StampPolled \in [curr : 0 .. time_period, elapsed : 0 .. StampMod - 1]
  <2>1. time_current(counter) \in 0 .. time_period
    BY <1>2, ReadingBounds
  <2>2. Advance(time_current(counter), stamp.curr) \in Int /\ stamp.elapsed \in Int
    BY <1>2, <2>1, PeriodBounds DEF Advance, Stamps
  <2> DEFINE sum == stamp.elapsed + Advance(time_current(counter), stamp.curr)
  <2>3. sum \in Int
    BY <2>2
  <2> HIDE DEF sum
  <2>4. sum % StampMod \in 0 .. StampMod - 1
    BY <2>3, ClockConstants, DivMod
  <2> QED
    BY <2>1, <2>4 DEF StampPolled, Polled, sum
<1>4. TypeOK'
  <2>1. 0 \in 0 .. MaxGap
    BY Constants
  <2> QED
    BY <1>1, <1>3, <2>1 DEF IInv, TypeOK, Counts, time_period, SinceMax
<1>5. ASSUME since < SinceMax
      PROVE  \E o \in Counts : NeverAhead(StampPolled, o, since)
                                /\ StampPolled \in Stamps
  <2>1. PICK o \in Counts, k \in Nat : k <= since /\ NeverAhead(stamp, o, k)
                                       /\ counter = Position(o, since)
    BY <1>1, <1>5 DEF IInv, Tracked, Busy
  <2> DEFINE u == since - k
  <2>2. u \in Nat /\ k + u = since
    BY <1>2, <2>1
  <2> HIDE DEF u
  <2>3. NeverAhead(StampPolled, o, since) /\ StampPolled \in Stamps
    BY <1>2, <2>1, <2>2, PolledNeverAhead DEF StampPolled
  <2> QED
    BY <2>3
<1>6. Tracked'
  <2> SUFFICES ASSUME since < SinceMax
               PROVE  \E o \in Counts, k \in Nat : k <= since /\ NeverAhead(stamp', o, k)
                                                 /\ counter = Position(o, since)
    BY <1>1 DEF Tracked, Busy, NeverAhead, Position, Laps, time_current, time_period,
                Counts, SinceMax, LongestTimeout, AllTimeouts, Slack
  <2>1. PICK p \in Counts, j \in Nat : j <= since /\ NeverAhead(stamp, p, j)
                                       /\ counter = Position(p, since)
    BY <1>1 DEF IInv, Tracked, Busy
  <2>2. CASE call.timeout = 0
    BY <1>1, <2>1, <2>2
  <2>3. CASE call.timeout # 0
    <3> DEFINE u == since - j
    <3>1. u \in Nat /\ j + u = since
      BY <1>2, <2>1
    <3> HIDE DEF u
    <3>2. NeverAhead(StampPolled, p, since)
      BY <1>2, <2>1, <3>1, PolledNeverAhead DEF StampPolled
    <3>3. stamp' = StampPolled /\ since <= since
      BY <1>1, <1>2, <2>3
    <3> QED
      BY <1>2, <2>1, <3>2, <3>3
  <2> QED
    BY <2>2, <2>3
<1>7. NotTimedOutEarly'
  <2> SUFFICES ASSUME Late PROVE since > (call.timeout - 1) * TicksPerUnit
    BY <1>1 DEF NotTimedOutEarly
  <2> DEFINE x == call.timeout * TicksPerUnit
             y == LongestTimeout * TicksPerUnit
  <2>1. x \in Nat /\ y \in Nat /\ x <= y /\ (call.timeout - 1) * TicksPerUnit = x - TicksPerUnit
    BY <1>2, Longest, ClockConstants
  <2>2. CASE since < SinceMax
    <3>1. PICK o \in Counts : NeverAhead(StampPolled, o, since) /\ StampPolled \in Stamps
      BY <1>5, <2>2
    <3>2. StampPolled.elapsed * TicksPerUnit < since + TicksPerUnit
      BY <1>2, <3>1, NeverAheadBound
    <3>3. StampPolled.elapsed \in Nat /\ StampPolled.elapsed >= call.timeout
      BY <3>1 DEF Stamps, Late
    <3>4. StampPolled.elapsed * TicksPerUnit >= x
      BY <1>2, <3>3, ClockConstants
    <3>5. StampPolled.elapsed * TicksPerUnit \in Int
      BY <3>3, ClockConstants
    <3> HIDE DEF x
    <3> QED
      BY <1>2, <2>1, <3>2, <3>4, <3>5, ClockConstants
  <2>3. CASE since >= SinceMax
    <3>1. SinceMax > y /\ SinceMax \in Nat
      BY Longest
    <3> HIDE DEF x, y
    <3> QED
      BY <1>2, <2>1, <2>3, <3>1, ClockConstants
  <2> QED
    BY <1>2, <2>2, <2>3, Longest
<1>8. Obeyed'
  BY <1>1 DEF IInv, Obeyed, LongestTimeout, AllTimeouts
<1> QED
  BY <1>4, <1>6, <1>7, <1>8 DEF IInv

(* The body writes what fits; a call that is complete may be followed by   *)
(* the warning.                                                            *)
LEMMA InvWriteBody ==
    ASSUME IInv, WriteBody
    PROVE  IInv'
<1> DEFINE left == call.len - written
           space == Depth - queued
           k == IF space < left THEN space ELSE left
<1>1. /\ queued \in 0 .. Depth /\ written \in 0 .. call.len /\ call.len \in Nat
      /\ counter' = counter /\ platform' = platform /\ queued' = queued + k
  BY DEF IInv, TypeOK, WriteBody
<1>2. k \in 0 .. left /\ queued' \in 0 .. Depth /\ written + k \in 0 .. call.len
  BY <1>1, Constants
<1>3. CASE k < left
  <2>1. /\ pc = "write" /\ pc' = "loop" /\ written' = written + k /\ idle' = 0
        /\ since' = since /\ call' = call /\ stamp' = stamp
    BY <1>3 DEF WriteBody
  <2> HIDE DEF k, left, space
  <2>2. 0 \in 0 .. MaxGap
    BY Constants
  <2>3. TypeOK'
    BY <1>1, <1>2, <2>1, <2>2 DEF IInv, TypeOK, Counts, time_period
  <2>4. Tracked'
    BY <1>1, <2>1 DEF IInv, Tracked, Busy, NeverAhead, Position, Laps, time_current,
                      time_period, Counts, SinceMax, LongestTimeout, AllTimeouts, Slack
  <2>5. Obeyed' /\ NotTimedOutEarly'
    BY <2>1 DEF IInv, Obeyed, NotTimedOutEarly, LongestTimeout, AllTimeouts
  <2> QED
    BY <2>3, <2>4, <2>5 DEF IInv
<1>4. CASE ~(k < left) /\ call.warn
  <2>1. Begin("printf", WarnLen, WarnLen \div 2, FALSE)
    BY <1>4 DEF WriteBody
  <2>2. WarnLen \in Nat /\ WarnLen \div 2 \in Nat /\ WarnLen \div 2 <= LongestTimeout
    BY Constants, Longest DEF AllTimeouts
  <2> HIDE DEF k, left, space
  <2> QED
    BY <1>1, <1>2, <2>1, <2>2, InvBegin
<1>5. CASE ~(k < left) /\ ~call.warn
  <2>1. /\ pc' = "idle" /\ written' = 0 /\ idle' = 0
        /\ since' = since /\ call' = call /\ stamp' = stamp
    BY <1>5 DEF WriteBody
  <2> HIDE DEF k, left, space
  <2>2. 0 \in 0 .. MaxGap /\ 0 \in 0 .. call.len
    BY <1>1, Constants
  <2>3. TypeOK'
    BY <1>1, <1>2, <2>1, <2>2 DEF IInv, TypeOK, Counts, time_period
  <2>4. Tracked' /\ Obeyed' /\ NotTimedOutEarly'
    BY <2>1 DEF IInv, Tracked, Busy, Obeyed, NotTimedOutEarly, LongestTimeout, AllTimeouts
  <2> QED
    BY <2>3, <2>4 DEF IInv
<1> QED
  BY <1>3, <1>4, <1>5

LEMMA InvWriteAgain ==
    ASSUME IInv, WriteAgain
    PROVE  IInv'
<1>1. /\ pc' = "error" /\ counter' = counter /\ idle' = idle /\ since' = since
      /\ platform' = platform /\ queued' = queued /\ call' = call
      /\ stamp' = stamp /\ written' = written
  BY DEF WriteAgain, clock, port
<1> QED
  BY <1>1 DEF IInv, TypeOK, Tracked, Busy, Obeyed, NotTimedOutEarly, Counts,
              time_period, SinceMax, LongestTimeout, AllTimeouts, Slack

LEMMA InvTransmit ==
    ASSUME IInv, Transmit
    PROVE  IInv'
<1>1. /\ queued' = queued - 1 /\ queued > 0
      /\ platform' = platform /\ UNCHANGED <<clock, thread>>
  BY DEF Transmit
<1>2. /\ counter' = counter /\ idle' = idle /\ since' = since /\ pc' = pc
      /\ call' = call /\ stamp' = stamp /\ written' = written
  BY <1>1 DEF clock, thread
<1>3. queued' \in 0 .. Depth
  BY <1>1, Constants DEF IInv, TypeOK
<1> QED
  BY <1>1, <1>2, <1>3 DEF IInv, TypeOK, Tracked, Busy, Obeyed, NotTimedOutEarly, Counts,
     NeverAhead, Position, Laps, time_current, time_period, SinceMax, LongestTimeout,
     AllTimeouts, Slack

(* IInv holds in every reachable state.                                    *)
THEOREM Invariance == Spec => []IInv
<1>1. IInv /\ [Next]_vars => IInv'
  <2> SUFFICES ASSUME IInv, [Next]_vars PROVE IInv'
    OBVIOUS
  <2>1. CASE Tick
    BY <2>1, InvTick
  <2>2. CASE Transmit
    BY <2>2, InvTransmit
  <2>3. CASE LoopTest
    BY <2>3, InvLoopTest
  <2>4. CASE WriteBody
    BY <2>4, InvWriteBody
  <2>5. CASE WriteAgain
    BY <2>5, InvWriteAgain
  <2>6. CASE \E len \in Lens, timeout \in Timeouts : Write(len, timeout)
    BY <2>6, InvWrite
  <2>7. CASE \E len \in PrintLens : Printf(len)
    BY <2>7, InvPrintf
  <2>8. CASE UNCHANGED vars
    BY <2>8 DEF vars, clock, port, thread, IInv, TypeOK, Tracked, Busy, Obeyed,
       NotTimedOutEarly, Counts, NeverAhead, Position, Laps, time_current,
       time_period, SinceMax, LongestTimeout, AllTimeouts, Slack
  <2> QED
    BY <2>1, <2>2, <2>3, <2>4, <2>5, <2>6, <2>7, <2>8 DEF Next, Work
<1> QED
  BY InvInit, <1>1, PTL DEF Spec

(* A blocking write, that of a printf included, is never timed out a whole *)
(* unit early, however the clock rolls over while the output is held back  *)
(* and however late the caller is scheduled.                               *)
THEOREM TimeoutIsNotEarly == Spec => []NotTimedOutEarly
BY Invariance, PTL DEF IInv

(* Every variable keeps its type: no more is written than was asked for,   *)
(* and the output buffer is never filled beyond its size.                  *)
THEOREM TypeCorrect == Spec => []TypeOK
BY Invariance, PTL DEF IInv
------------------------------------------------------------------------------
(* A write is over in time, across any number of rollovers, for a caller   *)
(* that sees each of them, a word that holds the timeout, and rollovers    *)
(* that drop no more than two units' worth of fractions in a call.  On the *)
(* host they drop none.                                                    *)
Prompt ==
    /\ 2 * MaxGap + TicksPerUnit <= TickPeriod
    /\ LongestTimeout + 2 * MaxGap <= StampMod
    /\ ((TickPeriod + SinceMax) \div TickPeriod) * (TickPeriod % TicksPerUnit)
           <= 2 * TicksPerUnit

Limit == call.timeout * TicksPerUnit

(* Ticks since the step that polled the stamp.                             *)
Unpolled == idle + (IF pc = "loop" THEN MaxGap ELSE 0)

PolledAt(o, k) ==
    /\ k <= since /\ since - k <= Unpolled /\ counter = Position(o, since)
    /\ Exact(stamp, o, k) /\ stamp.elapsed < call.timeout

Timely ==
    Busy /\ call.timeout # 0 =>
        /\ since <= Limit + 2 * TicksPerUnit + Unpolled
        /\ \E o \in Counts, k \in Nat : PolledAt(o, k)

LEMMA PolledNext ==
    ASSUME NEW o \in Counts, NEW k \in Nat
    PROVE  PolledAt(o, k)' <=>
             /\ k <= since' /\ since' - k <= Unpolled' /\ counter' = Position(o, since')
             /\ Exact(stamp', o, k) /\ stamp'.elapsed < call'.timeout
BY DEF PolledAt, Position, Exact, Units, Laps, time_current, time_period

LEMMA TimelyNext ==
    ASSUME Busy' /\ call'.timeout # 0 =>
             /\ since' <= Limit' + 2 * TicksPerUnit + Unpolled'
             /\ \E o \in Counts, k \in Nat : PolledAt(o, k)'
    PROVE  Timely'
BY DEF Timely, Counts

(* The numbers of a call with a timeout.                                   *)
LEMMA Numbers ==
    ASSUME IInv, Timely, Busy, call.timeout # 0
    PROVE  /\ call.timeout \in Nat /\ call.timeout > 0
           /\ call.timeout <= LongestTimeout /\ LongestTimeout \in Nat
           /\ Limit \in Nat /\ since \in Nat /\ since <= Limit + Slack
           /\ idle \in Nat /\ idle <= MaxGap /\ MaxGap \in Nat
           /\ Unpolled \in Nat /\ Unpolled <= idle + MaxGap
           /\ since < SinceMax /\ SinceMax \in Nat
           /\ stamp \in Stamps /\ counter \in Counts
<1>1. /\ call.timeout \in Nat /\ call.timeout > 0 /\ call.timeout <= LongestTimeout
      /\ LongestTimeout \in Nat /\ since \in Nat /\ idle \in Nat /\ idle <= MaxGap
      /\ MaxGap \in Nat /\ counter \in Counts /\ SinceMax \in Nat
  BY Longest, Constants DEF IInv, TypeOK, Obeyed
<1>2. Limit \in Nat /\ Unpolled \in Nat /\ Unpolled <= idle + MaxGap
  BY <1>1, ClockConstants DEF Limit, Unpolled
<1>3. Slack = 2 * MaxGap + 2 * TicksPerUnit
  BY DEF Slack
<1>4. since <= Limit + 2 * TicksPerUnit + Unpolled
  BY DEF Timely
<1>5. since <= Limit + Slack
  BY <1>1, <1>2, <1>3, <1>4, ClockConstants
<1> DEFINE y == LongestTimeout * TicksPerUnit
<1>6. y \in Nat /\ Limit <= y /\ SinceMax = y + Slack + 1
  BY <1>1, ClockConstants DEF Limit, SinceMax
<1> HIDE DEF y
<1>7. since < SinceMax
  BY <1>1, <1>2, <1>3, <1>5, <1>6, ClockConstants
<1>8. stamp \in Stamps
  BY StampTypes DEF IInv, TypeOK, StampType
<1> QED
  BY <1>1, <1>2, <1>5, <1>7, <1>8

(* Ticks after which a prompt caller's clock shows less than the timeout.  *)
LEMMA UnitsWithin ==
    ASSUME Prompt, NEW o \in Counts, NEW k \in Nat, k <= SinceMax,
           NEW t \in Nat, Units(o, k) < t
    PROVE  k < t * TicksPerUnit + 2 * TicksPerUnit
<1> DEFINE a == Units(o, k)
           L == Laps(o, k)
           M == (TickPeriod + SinceMax) \div TickPeriod
           w == TickPeriod % TicksPerUnit
           h == TicksPerUnit
<1>1. a \in Int /\ a * h > k - h - L * w
  BY UnitsLag
<1>2. L \in Nat /\ M \in Nat /\ L <= M
  BY Longest, LapsBound
<1>3. w \in Nat /\ h \in Nat
  BY PeriodBounds, ClockConstants
<1>4. M * w <= 2 * h
  BY DEF Prompt
<1> HIDE DEF a, L, M, w, h
<1> DEFINE x == a * h
           y == t * h
           v == L * w
           z == M * w
<1>5. v \in Int /\ z \in Int /\ v <= z
  BY <1>2, <1>3
<1>6. x \in Int /\ y \in Int /\ x + h <= y
  <2>1. a + 1 <= t
    BY <1>1 DEF a
  <2>2. (a + 1) * h <= t * h
    BY <1>1, <1>3, <2>1
  <2> QED
    BY <1>1, <1>3, <2>2
<1>7. x > k - h - v /\ z <= 2 * h
  BY <1>1, <1>4
<1> HIDE DEF x, y, v, z
<1>8. k < y + 2 * h
  BY <1>3, <1>5, <1>6, <1>7
<1> QED
  BY <1>8 DEF y, h

LEMMA TimelyTick ==
    ASSUME IInv, Timely, Tick
    PROVE  Timely'
<1>1. /\ counter' = (counter + 1) % TickPeriod /\ pc' = pc /\ call' = call /\ stamp' = stamp
  BY DEF Tick, thread
<1> SUFFICES ASSUME Busy, call.timeout # 0
             PROVE  /\ since' <= Limit' + 2 * TicksPerUnit + Unpolled'
                    /\ \E o \in Counts, k \in Nat : PolledAt(o, k)'
  BY <1>1, TimelyNext DEF Busy
<1>2. since' = since + 1 /\ idle' = idle + 1
  BY Numbers DEF Tick
<1>3. Unpolled' = Unpolled + 1 /\ Limit' = Limit
  BY <1>1, <1>2, Numbers DEF Unpolled, Limit
<1>4. PICK o \in Counts, k \in Nat : PolledAt(o, k)
  BY DEF Timely
<1>5. counter' = Position(o, since + 1)
  BY <1>1, <1>4, Numbers, PositionTick DEF PolledAt
<1>6. k <= since' /\ since' - k <= Unpolled'
  BY <1>2, <1>3, <1>4, Numbers DEF PolledAt
<1>7. PolledAt(o, k)'
  BY <1>1, <1>2, <1>4, <1>5, <1>6, PolledNext DEF PolledAt
<1>8. since' <= Limit' + 2 * TicksPerUnit + Unpolled'
  BY <1>2, <1>3, Numbers, ClockConstants DEF Timely
<1> QED
  BY <1>7, <1>8

LEMMA TimelyBegin ==
    ASSUME IInv, NEW entry, NEW len, NEW timeout \in Nat, NEW warn,
           Begin(entry, len, timeout, warn), counter' = counter
    PROVE  Timely'
<1>1. /\ pc' = "loop" /\ stamp' = NewStamp(counter) /\ idle' = 0 /\ since' = 0
      /\ call'.timeout = timeout
  BY DEF Begin
<1>2. counter \in Counts /\ MaxGap \in Nat
  BY Constants DEF IInv, TypeOK
<1>3. Unpolled' = MaxGap
  BY <1>1, <1>2 DEF Unpolled
<1>4. Limit' = timeout * TicksPerUnit /\ timeout * TicksPerUnit \in Nat
  BY <1>1, ClockConstants DEF Limit
<1>5. since' <= Limit' + 2 * TicksPerUnit + Unpolled'
  BY <1>1, <1>2, <1>3, <1>4, ClockConstants
<1>6. timeout # 0 => PolledAt(counter, 0)'
  <2>1. Exact(NewStamp(counter), counter, 0) /\ counter = Position(counter, 0)
    BY <1>2, NewExact
  <2>2. NewStamp(counter).elapsed = 0
    BY DEF NewStamp
  <2>3. 0 - 0 <= Unpolled' /\ 0 <= since'
    BY <1>1, <1>2, <1>3
  <2>4. 0 \in Nat /\ since' - 0 = 0
    BY <1>1
  <2> QED
    BY <1>1, <1>2, <2>1, <2>2, <2>3, <2>4, PolledNext
<1> QED
  BY <1>1, <1>2, <1>5, <1>6, TimelyNext

(* A poll in time is exact, and one that is not late bounds the ticks.     *)
LEMMA TimelyLoopTest ==
    ASSUME Prompt, IInv, Timely, LoopTest
    PROVE  Timely'
<1>1. /\ pc = "loop" /\ pc' = (IF Late THEN "timeout" ELSE "write")
      /\ idle' = 0 /\ counter' = counter /\ since' = since /\ call' = call
      /\ stamp' = IF call.timeout = 0 THEN stamp ELSE StampPolled
  BY DEF LoopTest
<1> SUFFICES ASSUME ~Late, call.timeout # 0
             PROVE  /\ since' <= Limit' + 2 * TicksPerUnit + Unpolled'
                    /\ \E o \in Counts, k \in Nat : PolledAt(o, k)'
  BY <1>1, TimelyNext DEF Busy
<1>2. Busy
  BY <1>1 DEF Busy
<1>3. PICK o \in Counts, k \in Nat : PolledAt(o, k)
  BY <1>2 DEF Timely
<1> DEFINE u == since - k
<1>4. u \in Nat /\ k + u = since /\ u <= 2 * MaxGap
  BY <1>2, <1>3, Numbers DEF PolledAt
<1> HIDE DEF u
<1>5. u + TicksPerUnit <= TickPeriod /\ stamp.elapsed + u < StampMod
  <2>1. stamp.elapsed \in Nat /\ stamp.elapsed < call.timeout
    BY <1>2, <1>3, Numbers DEF PolledAt, Stamps
  <2> QED
    BY <1>2, <1>4, <2>1, Numbers, ClockConstants DEF Prompt
<1>6. Exact(StampPolled, o, since)
  <2>1. Exact(Polled(stamp, Position(o, k + u)), o, k + u)
    BY <1>2, <1>3, <1>4, <1>5, Numbers, PolledStaysExact DEF PolledAt
  <2> QED
    BY <1>3, <1>4, <2>1 DEF PolledAt, StampPolled
<1>7. Units(o, since) \in Int /\ StampPolled.elapsed = Units(o, since)
  BY <1>2, <1>6, Numbers, UnitsLag DEF Exact
<1>8. StampPolled.elapsed < call.timeout
  BY <1>2, <1>7, Numbers DEF Late
<1>9. since < Limit + 2 * TicksPerUnit
  BY <1>2, <1>7, <1>8, Numbers, UnitsWithin DEF Limit
<1>10. Unpolled' = 0 /\ Limit' = Limit
  BY <1>1 DEF Unpolled, Limit
<1>11. since' <= Limit' + 2 * TicksPerUnit + Unpolled'
  BY <1>1, <1>2, <1>9, <1>10, Numbers, ClockConstants
<1>12. PICK s \in Nat : s = since
  BY <1>2, Numbers
<1>13. s <= since' /\ since' - s <= Unpolled'
  BY <1>1, <1>10, <1>12
<1>14. PolledAt(o, s)'
  BY <1>1, <1>3, <1>6, <1>8, <1>12, <1>13, PolledNext DEF PolledAt
<1> QED
  BY <1>11, <1>14

LEMMA TimelyWriteBody ==
    ASSUME IInv, Timely, WriteBody
    PROVE  Timely'
<1>1. /\ pc = "write" /\ counter' = counter
      /\ \/ /\ pc' = "loop" /\ idle' = 0 /\ since' = since /\ call' = call /\ stamp' = stamp
         \/ Begin("printf", WarnLen, WarnLen \div 2, FALSE)
         \/ pc' = "idle"
  BY DEF WriteBody
<1>2. CASE Begin("printf", WarnLen, WarnLen \div 2, FALSE)
  <2>1. WarnLen \div 2 \in Nat
    BY Constants
  <2> QED
    BY <1>1, <1>2, <2>1, TimelyBegin
<1>3. CASE pc' = "idle"
  BY <1>3, TimelyNext DEF Busy
<1>4. CASE pc' = "loop" /\ idle' = 0 /\ since' = since /\ call' = call /\ stamp' = stamp
  <2> SUFFICES ASSUME call.timeout # 0
               PROVE  /\ since' <= Limit' + 2 * TicksPerUnit + Unpolled'
                      /\ \E o \in Counts, k \in Nat : PolledAt(o, k)'
    BY <1>4, TimelyNext
  <2>1. Busy
    BY <1>1 DEF Busy
  <2>2. Unpolled' = MaxGap /\ Limit' = Limit /\ Unpolled = idle
    BY <1>1, <1>4, <2>1, Numbers DEF Unpolled, Limit
  <2>3. PICK o \in Counts, k \in Nat : PolledAt(o, k)
    BY <2>1 DEF Timely
  <2>4. PolledAt(o, k)'
    <3>1. since - k <= Unpolled'
      BY <2>1, <2>2, <2>3, Numbers DEF PolledAt
    <3> QED
      BY <1>1, <1>4, <2>3, <3>1, PolledNext DEF PolledAt
  <2>5. since' <= Limit' + 2 * TicksPerUnit + Unpolled'
    BY <1>4, <2>1, <2>2, Numbers, ClockConstants DEF Timely
  <2> QED
    BY <2>4, <2>5
<1> QED
  BY <1>1, <1>2, <1>3, <1>4

(* A write with a timeout is over within two gaps and two units of it,     *)
(* though flow control may hold the output for ever.                       *)
THEOREM WriteIsOverInTime == ASSUME Prompt PROVE Spec => []OverInTime
<1>1. Init => Timely
  BY DEF Init, Timely, Busy
<1>2. IInv /\ Timely /\ [Next]_vars => Timely'
  <2> SUFFICES ASSUME IInv, Timely, [Next]_vars PROVE Timely'
    OBVIOUS
  <2>1. CASE Tick
    BY <2>1, TimelyTick
  <2>2. CASE LoopTest
    BY <2>2, Prompt, TimelyLoopTest
  <2>3. CASE WriteBody
    BY <2>3, TimelyWriteBody
  <2>4. CASE WriteAgain
    BY <2>4, TimelyNext DEF WriteAgain, Busy
  <2>5. ASSUME NEW len \in Lens, NEW timeout \in Timeouts, Write(len, timeout)
        PROVE  Timely'
    BY <2>5, Constants, TimelyBegin DEF Write
  <2>6. ASSUME NEW len \in PrintLens, Printf(len)
        PROVE  Timely'
    <3> DEFINE fits == len < BufferLen
               real_len == IF fits THEN len ELSE BufferLen
    <3>1. Begin("printf", real_len, real_len \div 2, ~fits) /\ counter' = counter
      BY <2>6 DEF Printf
    <3>2. real_len \div 2 \in Nat
      BY Constants
    <3> HIDE DEF fits, real_len
    <3> QED
      BY <3>1, <3>2, TimelyBegin
  <2>7. CASE Transmit \/ UNCHANGED vars
    <3>1. UNCHANGED <<counter, idle, since, pc, call, stamp>>
      BY <2>7 DEF Transmit, vars, clock, thread
    <3> QED
      BY <3>1 DEF Timely, Busy, Limit, Unpolled, PolledAt, Exact, Units, Position, Laps,
         time_current, time_period, Counts
  <2> QED
    BY <2>1, <2>2, <2>3, <2>4, <2>5, <2>6, <2>7 DEF Next, Work
<1>3. IInv /\ Timely => OverInTime
  <2> SUFFICES ASSUME IInv, Timely, Busy, call.timeout # 0
               PROVE  since <= call.timeout * TicksPerUnit + Slack
    BY DEF OverInTime
  <2> QED
    BY Numbers DEF Limit
<1> QED
  BY <1>1, <1>2, <1>3, Invariance, PTL DEF Spec
==============================================================================
