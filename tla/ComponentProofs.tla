--------------------------- MODULE ComponentProofs ----------------------------
(***************************************************************************)
(* Proofs about the components of one process, for every value of their    *)
(* constants.                                                              *)
(*                                                                         *)
(* Elapsed: polled at least once per rollover period less one unit, a time *)
(* stamp follows the ticks that pass across any number of rollovers.  The  *)
(* gap is a hypothesis, since the weaker one time.h documents does not     *)
(* suffice.  No timeout ends early, whatever the gap.                      *)
(*                                                                         *)
(* Encoder: the ticks of a calibrated encoder are its angle, for every     *)
(* resolution, orientation and history of turns and calibrations.  The     *)
(* inductive invariant keeps the raw reading, the zero point and the       *)
(* shaft's angle in their ranges and their difference a whole turn or      *)
(* none.  A zero point of a full turn, ticks_per_rev itself, is a value    *)
(* encoder_zero_raw really returns, so it is in the range.                 *)
(*                                                                         *)
(* Pid: the integral under back calculation, for every gains, limits and   *)
(* bound on the error.                                                     *)
(*                                                                         *)
(* Passthrough: what is delivered, in a FIFO or lost is what was sent, and *)
(* returns and breaks, for every depth of the FIFOs and every timeout.     *)
(*                                                                         *)
(* Pins: the set-up of pins from every set of tables, and calls that are   *)
(* interrupted between any two accesses to the port.                       *)
(*                                                                         *)
(* Bytestream: what is injected is extracted, for every base of the bytes, *)
(* buffer, sequence of injections and value of every structure.  Where the *)
(* items begin is the existential part of the inductive invariant.         *)
(*                                                                         *)
(* QueueIndex: the test for a power of two and the masking of indices, for *)
(* every width of the word.  What needs induction over the bits is stated  *)
(* as a set of bit positions that holds 0 and every successor (UpTo).      *)
(*                                                                         *)
(* Matrix: every variable of a program of calls means what the calls are   *)
(* documented to give, for every contents of the variables and number of   *)
(* calls, element by element as the code computes them.                    *)
(***************************************************************************)
EXTENDS Elapsed, Encoder, Pid, Passthrough, Pins, Bytestream, QueueIndex,
        Matrix, ClockProofs, SequenceTheorems, FiniteSetTheorems, WellFoundedInduction

------------------------------------------------------------------------------
(* Elapsed.                                                                *)

GapShort == MaxGap + TicksPerUnit <= TickPeriod

(* The position of the latest poll, counted from a rollover of the counter. *)
At == origin + polled

(* The inductive invariant: the counter, the stamp and the sum of the      *)
(* stamp's differences are functions of the ticks that have passed.        *)
ElapsedIInv ==
    /\ TypeOK
    /\ counter = (At + unseen) % TickPeriod
    /\ curr_time = time_current(At % TickPeriod)
    /\ elapsed_time =
         Rollovers * time_period + curr_time - time_current(origin)
    /\ loop = "waiting" <=> elapsed_time < Limit

(* What the assumptions say of each constant, for the solver.              *)
LEMMA ElapsedConstants ==
    /\ TickPeriod \in Nat /\ TickPeriod > 0
    /\ TicksPerUnit \in Nat /\ TicksPerUnit > 0 /\ TicksPerUnit <= TickPeriod
    /\ First \in Int /\ First >= 0 /\ First <= 1
    /\ MaxGap \in Nat /\ Limit \in Nat /\ Limit > 0
    /\ StampMod \in Nat /\ StampMod > Limit + MaxGap + 2
BY CounterAssumption, LoopAssumption

------------------------------------------------------------------------------
(* A stamp just initialised satisfies the invariant.                       *)
LEMMA ElapsedInvInit == Init => ElapsedIInv
<1> SUFFICES ASSUME Init PROVE ElapsedIInv
  OBVIOUS
<1>1. /\ origin \in Counts /\ origin \in Int /\ 0 <= origin
      /\ origin < TickPeriod /\ At = origin /\ At + unseen = origin
      /\ 0 \in 0 .. time_period
  BY ReadingBounds, PeriodBounds, ElapsedConstants DEF Init, At, Counts
<1>2. At = TickPeriod * 0 + origin /\ origin \in 0 .. TickPeriod - 1
  BY <1>1, ElapsedConstants
<1>3. At % TickPeriod = origin
  BY <1>1, <1>2, ElapsedConstants, ModUnique
<1>4. Rollovers = 0
  BY <1>1, <1>2, ElapsedConstants, DivUnique DEF Rollovers, At
<1>5. TypeOK
  BY <1>1, ReadingBounds, ElapsedConstants DEF Init, TypeOK
<1>6. time_current(origin) \in Int /\ time_period \in Int
  BY <1>1, ReadingBounds, PeriodBounds
<1> QED
  BY <1>1, <1>3, <1>4, <1>5, <1>6, ElapsedConstants DEF Init, ElapsedIInv

(* A tick moves the counter and the unseen ticks together.                 *)
LEMMA ElapsedInvTick ==
    ASSUME ElapsedIInv, Tick
    PROVE  ElapsedIInv'
<1> DEFINE i == At + unseen
           q == i \div TickPeriod
           v == (counter + 1) % TickPeriod
           p == (counter + 1) \div TickPeriod
           s == q + p
           j == i + 1
<1>1. /\ counter \in Int /\ i \in Int /\ unseen \in Int /\ At \in Int
      /\ unseen >= 0 /\ unseen < MaxGap
  BY ElapsedConstants DEF ElapsedIInv, TypeOK, Counts, At, Tick
<1>2. q \in Int /\ i = TickPeriod * q + counter
  BY <1>1, ElapsedConstants, DivMod DEF ElapsedIInv
<1>3. v \in 0 .. TickPeriod - 1 /\ p \in Int /\ counter + 1 = TickPeriod * p + v
  BY <1>1, ElapsedConstants, DivMod
<1>4. j \in Int /\ j = At + (unseen + 1)
  BY <1>1
<1>5. counter' = v
  BY DEF Tick
<1> HIDE DEF i, q, v, p
<1>6. s \in Int /\ j = TickPeriod * s + v
  BY <1>1, <1>2, <1>3, ElapsedConstants
<1> HIDE DEF s, j
<1>7. v = j % TickPeriod
  BY <1>3, <1>4, <1>6, ElapsedConstants, ModUnique
<1>8. TypeOK'
  BY <1>1, <1>3, <1>5, ElapsedConstants DEF Tick, ElapsedIInv, TypeOK, Counts, stamp
<1>9. counter' = (At' + unseen') % TickPeriod
  BY <1>4, <1>5, <1>7 DEF Tick, At
<1> QED
  BY <1>8, <1>9 DEF Tick, ElapsedIInv, At, Rollovers, stamp

(* A poll adds the ticks it has not seen, by the two lemmas on Advance.    *)
LEMMA ElapsedInvPoll ==
    ASSUME GapShort, ElapsedIInv, Poll
    PROVE  ElapsedIInv'
<1> DEFINE c == At % TickPeriod
           L == At \div TickPeriod
           u == unseen
           j == At + u
           d == Advance(time_current(counter), time_current(c))
<1>1. /\ At \in Int /\ u \in 0 .. MaxGap /\ u \in Nat /\ j \in Int
      /\ polled \in Nat /\ origin \in Counts
  BY ElapsedConstants DEF ElapsedIInv, TypeOK, At, Counts
<1>2. /\ c \in Counts /\ c \in Int /\ L \in Int
      /\ At = TickPeriod * L + c /\ L = Rollovers
  BY <1>1, ElapsedConstants, DivMod DEF Counts, At, Rollovers
<1>3. curr_time = time_current(c) /\ counter = j % TickPeriod
      /\ elapsed_time = L * time_period + time_current(c) - time_current(origin)
      /\ elapsed_time \in Nat /\ elapsed_time < Limit
  BY <1>2, ElapsedConstants DEF ElapsedIInv, Poll, TypeOK
<1>4. At' = j /\ Rollovers' = j \div TickPeriod /\ (At' + unseen') = j
  <2>1. origin' = origin /\ polled' = polled + unseen /\ unseen' = 0
    BY DEF Poll
  <2>2. origin + (polled + unseen) = j /\ j + 0 = j
    BY <1>1, ElapsedConstants DEF At, Counts
  <2> QED
    BY <2>1, <2>2 DEF At, Rollovers
<1>5. /\ time_current(c) \in Int /\ time_current(origin) \in Int
      /\ time_current(counter) \in 0 .. time_period
      /\ time_current(c) \in 0 .. time_period /\ time_period \in Int
  BY <1>1, <1>2, ReadingBounds, PeriodBounds DEF ElapsedIInv, TypeOK
<1> HIDE DEF c, L, j
<1>6. /\ d \in 0 .. u
      /\ Rollovers' * time_period + time_current(counter)
           = L * time_period + time_current(c) + d
  <2>1. CASE c + u < TickPeriod
    <3>1. j = TickPeriod * L + (c + u) /\ c + u \in 0 .. TickPeriod - 1
      BY <1>1, <1>2, <2>1, ElapsedConstants DEF j, Counts
    <3>2. counter = c + u /\ Rollovers' = L
      BY <1>1, <1>2, <1>3, <1>4, <3>1, ElapsedConstants, ModUnique, DivUnique
    <3>3. d = time_current(counter) - time_current(c) /\ d \in 0 .. u
      BY <1>1, <1>2, <2>1, <3>2, AdvanceSameLap
    <3> QED
      BY <1>2, <1>5, <3>2, <3>3
  <2>2. CASE c + u >= TickPeriod
    <3>1. /\ j = TickPeriod * (L + 1) + (c + u - TickPeriod)
          /\ c + u - TickPeriod \in 0 .. TickPeriod - 1 /\ L + 1 \in Int
      BY <1>1, <1>2, <2>2, ElapsedConstants DEF j, Counts, GapShort
    <3>2. counter = c + u - TickPeriod /\ Rollovers' = L + 1
      <4> DEFINE r == c + u - TickPeriod
                 m == L + 1
      <4>1. j = TickPeriod * m + r /\ r \in 0 .. TickPeriod - 1 /\ m \in Int
        BY <3>1
      <4> HIDE DEF r, m
      <4>2. j % TickPeriod = r /\ j \div TickPeriod = m
        BY <1>1, <4>1, ElapsedConstants, ModUnique, DivUnique
      <4> QED
        BY <1>3, <1>4, <4>2 DEF r, m
    <3>3. d = time_period + time_current(counter) - time_current(c) /\ d \in 0 .. u
      BY <1>1, <1>2, <2>2, <3>2, AdvanceNextLap, ElapsedConstants DEF GapShort
    <3> QED
      BY <1>2, <1>5, <3>2, <3>3
  <2> QED
    BY <1>1, <1>2, <2>1, <2>2, ElapsedConstants
<1>7. elapsed_time' = elapsed_time + d
  <2>1. elapsed_time' = (elapsed_time + d) % StampMod
    BY <1>3 DEF Poll
  <2>2. elapsed_time + d \in 0 .. StampMod - 1
    BY <1>1, <1>3, <1>6, ElapsedConstants
  <2> HIDE DEF d
  <2>3. (elapsed_time + d) % StampMod = elapsed_time + d
    BY <2>2, ElapsedConstants, SMT
  <2> QED
    BY <2>1, <2>3
<1>8. elapsed_time' = Rollovers' * time_period + curr_time' - time_current(origin)'
  <2> HIDE DEF d
  <2>1. curr_time' = time_current(counter)
        /\ time_current(origin)' = time_current(origin)
    BY DEF Poll, time_current
  <2> DEFINE a == Rollovers' * time_period
             b == L * time_period
  <2>2. d \in Int /\ b \in Int /\ Rollovers' \in Int /\ a \in Int
    BY <1>1, <1>2, <1>4, <1>5, <1>6, ElapsedConstants, DivMod
  <2>3. a + time_current(counter) = b + time_current(c) + d
    BY <1>6
  <2>4. elapsed_time' = b + time_current(c) - time_current(origin) + d
    BY <1>3, <1>7
  <2> HIDE DEF a, b
  <2>5. elapsed_time' = a + time_current(counter) - time_current(origin)
    BY <1>5, <2>2, <2>3, <2>4
  <2> QED
    BY <2>1, <2>5 DEF a
<1>9. TypeOK'
  <2> HIDE DEF d
  <2>1. elapsed_time' \in 0 .. StampMod - 1
    BY <1>1, <1>3, <1>6, <1>7, ElapsedConstants
  <2> QED
    BY <1>1, <1>5, <2>1, ElapsedConstants DEF Poll, ElapsedIInv, TypeOK
<1>10. counter' = (At' + unseen') % TickPeriod
  BY <1>3, <1>4 DEF Poll
<1>11. curr_time' = time_current(At' % TickPeriod)
  BY <1>3, <1>4 DEF Poll
<1>12. loop' = "waiting" <=> elapsed_time' < Limit
  BY DEF Poll
<1> QED
  BY <1>8, <1>9, <1>10, <1>11, <1>12 DEF ElapsedIInv, time_period, time_current

(* ElapsedIInv holds in every reachable state of a loop that polls in time.       *)
THEOREM ElapsedInvariance == ASSUME GapShort PROVE Spec => []ElapsedIInv
<1>1. ElapsedIInv /\ [Next]_vars => ElapsedIInv'
  <2> SUFFICES ASSUME ElapsedIInv, [Next]_vars PROVE ElapsedIInv'
    OBVIOUS
  <2>1. CASE Tick
    BY <2>1, ElapsedInvTick
  <2>2. CASE Poll
    BY <2>2, ElapsedInvPoll, GapShort
  <2>3. CASE UNCHANGED vars
    BY <2>3 DEF vars, stamp, ElapsedIInv, TypeOK, At, Rollovers
  <2> QED
    BY <2>1, <2>2, <2>3 DEF Next
<1> QED
  BY ElapsedInvInit, <1>1, PTL DEF Spec

(* What the invariant says in ticks: the readings at both ends are within  *)
(* a unit of the counter, and each rollover drops the period's fraction.   *)
LEMMA ElapsedInvTracks == ElapsedIInv => ElapsedTracks
<1> SUFFICES ASSUME ElapsedIInv PROVE ElapsedTracks
  OBVIOUS
<1> DEFINE c == At % TickPeriod
           L == Rollovers
           h == TicksPerUnit
           e == TickPeriod % TicksPerUnit
           p == time_period
           t == time_current(c)
           o == time_current(origin)
<1>1. /\ c \in Counts /\ c \in Int /\ L \in Int /\ polled \in Int /\ origin \in Int
      /\ origin + polled = TickPeriod * L + c
  BY ElapsedConstants, DivMod DEF ElapsedIInv, TypeOK, Counts, At, Rollovers
<1>2. /\ t \in Int /\ h * t <= First + c /\ First + c < h * t + h
  BY <1>1, ReadingBounds, PeriodBounds
<1>3. /\ o \in Int /\ h * o <= First + origin /\ First + origin < h * o + h
  BY ReadingBounds, PeriodBounds DEF ElapsedIInv, TypeOK
<1>4. p \in Int /\ e \in Int /\ TickPeriod = h * p + e
  BY PeriodBounds, ElapsedConstants
<1>5. elapsed_time = L * p + t - o
  BY DEF ElapsedIInv
<1>6. h \in Int /\ First \in Int /\ TickPeriod \in Int
  BY ElapsedConstants
<1> HIDE DEF c, L, h, e, p, t, o
<1>7. elapsed_time * h = L * (h * p) + h * t - h * o
  BY <1>1, <1>2, <1>3, <1>4, <1>5, <1>6
<1>8. TickPeriod * L = L * (h * p) + L * e
  BY <1>1, <1>4, <1>6
<1> DEFINE x == L * (h * p)
           y == L * e
           z == TickPeriod * L
           m == h * t
           n == h * o
<1>9. x \in Int /\ y \in Int /\ z \in Int /\ m \in Int /\ n \in Int
  BY <1>1, <1>2, <1>3, <1>4, <1>6
<1>10. /\ elapsed_time * h = x + m - n /\ z = x + y /\ origin + polled = z + c
       /\ m <= First + c /\ First + c < m + h
       /\ n <= First + origin /\ First + origin < n + h
  BY <1>1, <1>2, <1>3, <1>7, <1>8
<1> HIDE DEF x, y, z, m, n
<1>11. elapsed_time * h < polled + h - y /\ elapsed_time * h > polled - h - y
  BY <1>1, <1>6, <1>9, <1>10
<1>12. y >= 0
  <2>1. e >= 0
    BY PeriodBounds, ElapsedConstants DEF e
  <2>2. L >= 0
    <3>1. L > -1
      <4>1. TickPeriod * (-1) < TickPeriod * L
        BY <1>1, ElapsedConstants DEF ElapsedIInv, TypeOK, Counts
      <4> QED
        BY <4>1, <1>1, ElapsedConstants, FactorLess
    <3> QED
      BY <3>1, <1>1
  <2> QED
    BY <2>1, <2>2, <1>1, <1>4 DEF y
<1>13. elapsed_time * h < polled + h
  BY <1>6, <1>1, <1>9, <1>11, <1>12, <1>10
<1> QED
  BY <1>11, <1>13 DEF ElapsedTracks, y, L, e, h

(* A time stamp polled in time follows the clock across rollovers.         *)
THEOREM StampTracksClock == ASSUME GapShort PROVE Spec => []ElapsedTracks
BY ElapsedInvariance, ElapsedInvTracks, GapShort, PTL

------------------------------------------------------------------------------
(* That no timeout ends early needs no bound on the gap: every mistake the *)
(* stamp can make, a missed rollover or a sum that wraps, holds it back.   *)
Shown == [curr |-> curr_time, elapsed |-> elapsed_time]

EarlyInv ==
    /\ origin \in Counts /\ polled \in Nat /\ unseen \in Nat
    /\ counter = Position(origin, polled + unseen)
    /\ Shown \in Stamps /\ NeverAhead(Shown, origin, polled)
    /\ loop = "done" => elapsed_time >= Limit

LEMMA EarlyInit == Init => EarlyInv
<1> SUFFICES ASSUME Init PROVE EarlyInv
  OBVIOUS
<1>1. origin \in Counts /\ counter = origin /\ polled = 0 /\ unseen = 0
      /\ loop = "waiting" /\ Shown = NewStamp(origin)
  BY DEF Init, Shown, NewStamp
<1> QED
  BY <1>1, NewNeverAhead DEF EarlyInv

LEMMA EarlyTick ==
    ASSUME EarlyInv, Tick
    PROVE  EarlyInv'
<1>1. /\ polled' = polled /\ unseen' = unseen + 1 /\ origin' = origin
      /\ Shown' = Shown /\ loop' = loop /\ elapsed_time' = elapsed_time
      /\ counter' = (counter + 1) % TickPeriod
  BY DEF Tick, stamp, Shown
<1>2. /\ polled + unseen \in Nat /\ origin \in Counts
      /\ polled + (unseen + 1) = (polled + unseen) + 1
  BY DEF EarlyInv
<1>3. counter' = Position(origin, (polled + unseen) + 1)
  BY <1>1, <1>2, PositionTick DEF EarlyInv
<1>4. NeverAhead(Shown', origin', polled')
  BY <1>1 DEF EarlyInv
<1> QED
  BY <1>1, <1>2, <1>3, <1>4 DEF EarlyInv, NeverAhead, Position, Laps, time_current, time_period

LEMMA EarlyPoll ==
    ASSUME EarlyInv, Poll
    PROVE  EarlyInv'
<1> DEFINE t == Polled(Shown, counter)
<1>1. /\ origin \in Counts /\ polled \in Nat /\ unseen \in Nat /\ Shown \in Stamps
      /\ NeverAhead(Shown, origin, polled)
      /\ counter = Position(origin, polled + unseen)
  BY DEF EarlyInv
<1>2. t \in Stamps /\ NeverAhead(t, origin, polled + unseen)
  BY <1>1, PolledNeverAhead
<1>3. Shown' = t
  BY DEF Poll, Shown, Polled, time_current, Advance, time_period
<1>4. /\ origin' = origin /\ polled' = polled + unseen /\ unseen' = 0
      /\ counter' = counter
  BY DEF Poll
<1>5. loop' = "done" => elapsed_time' >= Limit
  <2>1. elapsed_time' = t.elapsed
    BY <1>3 DEF Shown
  <2>2. elapsed_time' \in Nat
    BY <1>2, <2>1 DEF Stamps
  <2> QED
    BY <2>2, ElapsedConstants DEF Poll
<1>6. (polled + unseen) + 0 = polled + unseen /\ polled + unseen \in Nat
  BY <1>1
<1>7. NeverAhead(Shown', origin', polled')
  BY <1>2, <1>3, <1>4
<1>8. counter' = Position(origin', polled' + unseen')
  BY <1>1, <1>4, <1>6
<1> QED
  BY <1>1, <1>2, <1>3, <1>4, <1>5, <1>6, <1>7, <1>8
     DEF EarlyInv, NeverAhead, Position, Laps, time_current, time_period

(* The loop stops on the sum, and the sum is never a unit ahead.           *)
LEMMA EarlyNotEarly == EarlyInv => NotEarly
<1> SUFFICES ASSUME EarlyInv, loop = "done"
             PROVE  polled > (Limit - 1) * TicksPerUnit
  BY DEF NotEarly
<1>1. Shown.elapsed = elapsed_time
  BY DEF Shown
<1>2. elapsed_time \in Nat /\ polled \in Nat /\ elapsed_time >= Limit
  BY <1>1 DEF EarlyInv, Stamps
<1>3. elapsed_time * TicksPerUnit < polled + TicksPerUnit
  BY <1>1, NeverAheadBound DEF EarlyInv
<1>4. elapsed_time * TicksPerUnit >= Limit * TicksPerUnit
  BY <1>2, ElapsedConstants
<1> QED
  BY <1>2, <1>3, <1>4, ElapsedConstants

(* No delay or timeout ends a whole unit early, however late it is polled  *)
(* and however often the clock rolls over.                                 *)
THEOREM DelayIsNotEarly == Spec => []NotEarly
<1>1. EarlyInv /\ [Next]_vars => EarlyInv'
  <2> SUFFICES ASSUME EarlyInv, [Next]_vars PROVE EarlyInv'
    OBVIOUS
  <2>1. CASE Tick
    BY <2>1, EarlyTick
  <2>2. CASE Poll
    BY <2>2, EarlyPoll
  <2>3. CASE UNCHANGED vars
    BY <2>3 DEF vars, stamp, EarlyInv, Shown, NeverAhead, Position, Laps,
                time_current, time_period
  <2> QED
    BY <2>1, <2>2, <2>3 DEF Next
<1> QED
  BY EarlyInit, <1>1, EarlyNotEarly, PTL DEF Spec

------------------------------------------------------------------------------
(* Every variable keeps its type; elapsed_time in particular never wraps.  *)
THEOREM ElapsedTypeCorrect == ASSUME GapShort PROVE Spec => []TypeOK
BY ElapsedInvariance, GapShort, PTL DEF ElapsedIInv

------------------------------------------------------------------------------
(* Encoder.                                                                *)

(* The raw reading's way from the zero point, in the shaft's direction.    *)
Way == IF orientation = "UP_UP" THEN single - zero_angle_ticks
                                ELSE zero_angle_ticks - single

InRange ==
    /\ ticks_per_rev \in Resolutions /\ orientation \in Orientations
    /\ zero_angle_ticks \in 0 .. ticks_per_rev
    /\ single \in 0 .. ticks_per_rev - 1 /\ shaft \in 0 .. ticks_per_rev - 1

EncoderIInv ==
    /\ InRange
    /\ shaft \in {Way - ticks_per_rev, Way, Way + ticks_per_rev}

------------------------------------------------------------------------------
(* The remainder of a number within a modulus of the range of remainders.  *)
LEMMA ModNear ==
    ASSUME NEW c \in Nat, c > 0, NEW i \in -c .. 2 * c - 1
    PROVE  i % c = IF i < 0 THEN i + c ELSE IF i < c THEN i ELSE i - c
<1>1. CASE i < 0
  <2>1. i = c * (-1) + (i + c) /\ i + c \in 0 .. c - 1
    BY <1>1
  <2> QED
    BY <2>1, <1>1, ModUnique
<1>2. CASE 0 <= i /\ i < c
  <2>1. i = c * 0 + i /\ i \in 0 .. c - 1
    BY <1>2
  <2> QED
    BY <2>1, <1>2, ModUnique
<1>3. CASE c <= i
  <2>1. i = c * 1 + (i - c) /\ i - c \in 0 .. c - 1
    BY <1>3
  <2> QED
    BY <2>1, <1>3, ModUnique
<1> QED
  BY <1>1, <1>2, <1>3

(* A word holds every number the arithmetic of the encoder makes.          *)
LEMMA NoWrap ==
    ASSUME InRange, NEW n \in 0 .. 2 * ticks_per_rev - 1
    PROVE  Word(n) = n
<1>1. WordSize \in Nat /\ n \in 0 .. WordSize - 1 /\ WordSize > 0
  BY EncoderAssumption DEF InRange
<1>2. n = WordSize * 0 + n
  BY <1>1
<1> QED
  BY <1>1, <1>2, ModUnique DEF Word

(* The resolution is positive.                                             *)
LEMMA Resolution == InRange => ticks_per_rev \in Nat /\ ticks_per_rev > 0
BY EncoderAssumption DEF InRange

(* The angle over a full turn lies in 0 .. ticks_per_rev, and differs from *)
(* the way from the zero point by a whole turn or none.                    *)
LEMMA FullTurn ==
    ASSUME InRange
    PROVE  /\ angle_full \in 0 .. ticks_per_rev
           /\ angle_full \in {Way, Way + ticks_per_rev}
<1> DEFINE T == ticks_per_rev
           a == single - zero_angle_ticks
           b == zero_angle_ticks - single
<1>1. /\ T \in Nat /\ T > 0 /\ single \in Int /\ zero_angle_ticks \in Int
      /\ 0 <= single /\ single < T /\ 0 <= zero_angle_ticks /\ zero_angle_ticks <= T
  BY Resolution DEF InRange
<1>2. orientation = "UP_UP" \/ orientation = "UP_DOWN"
  BY DEF InRange, Orientations
<1>3. CASE single > zero_angle_ticks
  <2>1. T - a \in 0 .. 2 * T - 1
    BY <1>1, <1>3
  <2>2. Word(T - a) = T - a
    BY <2>1, NoWrap
  <2> QED
    BY <1>1, <1>2, <1>3, <2>2 DEF angle_full, Way
<1>4. CASE ~(single > zero_angle_ticks)
  <2>1. T - b \in 0 .. 2 * T - 1
    BY <1>1, <1>4
  <2>2. Word(T - b) = T - b
    BY <2>1, NoWrap
  <2> QED
    BY <1>1, <1>2, <1>4, <2>2 DEF angle_full, Way
<1> QED
  BY <1>3, <1>4

(* The zero point that follows from a declared angle puts the reading that *)
(* angle away from it.                                                     *)
LEMMA ZeroPoint ==
    ASSUME InRange, NEW ticks \in Angles
    PROVE  /\ encoder_zero_raw(ticks) \in 0 .. ticks_per_rev
           /\ uticks(ticks) \in 0 .. ticks_per_rev - 1
           /\ ticks % ticks_per_rev = uticks(ticks)
           /\ orientation = "UP_UP" =>
                uticks(ticks) - (single - encoder_zero_raw(ticks)) \in {0, ticks_per_rev}
           /\ orientation # "UP_UP" =>
                uticks(ticks) - (encoder_zero_raw(ticks) - single) \in {0, ticks_per_rev}
<1> DEFINE T == ticks_per_rev
           u == uticks(ticks)
<1>1. T \in Nat /\ T > 0 /\ single \in Int /\ 0 <= single /\ single < T
  BY Resolution DEF InRange
<1>2. ticks \in Int /\ -T < ticks /\ ticks <= T \div 2 /\ T \div 2 < T /\ T \div 2 \in Int
  BY <1>1 DEF Angles
<1>3. u \in 0 .. T - 1 /\ u = IF ticks < 0 THEN ticks + T ELSE ticks
  <2>1. CASE ticks < 0
    <3>1. ticks + T \in 0 .. 2 * T - 1
      BY <1>1, <1>2, <2>1
    <3>2. Word(ticks + T) = ticks + T
      BY <3>1, NoWrap
    <3> QED
      BY <1>1, <1>2, <2>1, <3>2 DEF uticks
  <2>2. CASE ~(ticks < 0)
    BY <1>1, <1>2, <2>2 DEF uticks
  <2> QED
    BY <2>1, <2>2
<1>4. ticks % T = u
  <2>1. ticks \in -T .. 2 * T - 1
    BY <1>1, <1>2
  <2>2. ticks % T = IF ticks < 0 THEN ticks + T ELSE IF ticks < T THEN ticks ELSE ticks - T
    BY <1>1, <2>1, ModNear
  <2> QED
    BY <1>1, <1>2, <1>3, <2>2
<1> HIDE DEF u
<1>5. CASE orientation = "UP_UP"
  <2>1. CASE u < single
    BY <1>1, <1>3, <1>4, <1>5, <2>1 DEF encoder_zero_raw, ZeroUpUp, u
  <2>2. CASE ~(u < single)
    <3>1. T + single \in 0 .. 2 * T - 1 /\ T + single - u \in 0 .. 2 * T - 1
      BY <1>1, <1>3, <2>2
    <3>2. Word(T + single) = T + single /\ Word(T + single - u) = T + single - u
      BY <3>1, NoWrap
    <3>3. encoder_zero_raw(ticks) = T + single - u
      BY <1>1, <1>3, <1>5, <2>2, <3>2 DEF encoder_zero_raw, ZeroUpUp, u
    <3> QED
      BY <1>1, <1>3, <1>4, <1>5, <2>2, <3>3 DEF u
  <2> QED
    BY <2>1, <2>2
<1>6. CASE orientation # "UP_UP"
  <2> DEFINE s == single + u
  <2>1. s \in 0 .. 2 * T - 1 /\ s \in -T .. 2 * T - 1
    BY <1>1, <1>3
  <2>2. Word(s) = s
    BY <2>1, NoWrap
  <2>3. encoder_zero_raw(ticks) = s % T
    BY <1>6, <2>2 DEF encoder_zero_raw, u
  <2> HIDE DEF s
  <2>4. s % T = IF s < 0 THEN s + T ELSE IF s < T THEN s ELSE s - T
    BY <1>1, <2>1, ModNear
  <2>5. encoder_zero_raw(ticks) = IF single + u < T THEN single + u ELSE single + u - T
    BY <1>1, <1>3, <2>1, <2>3, <2>4 DEF s
  <2> QED
    BY <1>1, <1>3, <1>4, <1>6, <2>5 DEF u
<1> QED
  BY <1>5, <1>6

------------------------------------------------------------------------------
LEMMA EncoderInvInit == EncoderInit => EncoderIInv
<1> SUFFICES ASSUME EncoderInit PROVE EncoderIInv
  OBVIOUS
<1>1. ticks_per_rev \in Nat /\ ticks_per_rev > 0
  BY EncoderAssumption DEF EncoderInit
<1> QED
  BY <1>1 DEF EncoderInit, EncoderIInv, InRange, Way, Orientations

(* A tick of the shaft moves the reading and the angle together.           *)
LEMMA EncoderInvTurn ==
    ASSUME EncoderIInv, NEW by \in {1, -1}, Turn(by)
    PROVE  EncoderIInv'
<1> DEFINE T == ticks_per_rev
           Near(i) == IF i < 0 THEN i + T ELSE IF i < T THEN i ELSE i - T
<1>1. /\ T \in Nat /\ T > 0 /\ single \in Int /\ zero_angle_ticks \in Int /\ shaft \in Int
      /\ 0 <= single /\ single < T /\ 0 <= zero_angle_ticks /\ zero_angle_ticks <= T
      /\ 0 <= shaft /\ shaft < T /\ by \in Int /\ -1 <= by /\ by <= 1
  BY Resolution DEF EncoderIInv, InRange
<1>2. /\ shaft + by \in -T .. 2 * T - 1 /\ single + by \in -T .. 2 * T - 1
      /\ single - by \in -T .. 2 * T - 1
  BY <1>1
<1>3. /\ (shaft + by) % T = Near(shaft + by)
      /\ (single + by) % T = Near(single + by)
      /\ (single - by) % T = Near(single - by)
  BY <1>1, <1>2, ModNear
<1>4. /\ shaft' = Near(shaft + by)
      /\ single' = IF orientation = "UP_UP" THEN Near(single + by) ELSE Near(single - by)
      /\ ticks_per_rev' = T /\ zero_angle_ticks' = zero_angle_ticks
      /\ orientation' = orientation
  BY <1>3 DEF Turn, encoder
<1>5. InRange'
  BY <1>1, <1>4 DEF EncoderIInv, InRange
<1>6. shaft' \in {Way' - T, Way', Way' + T}
  <2>1. CASE orientation = "UP_UP"
    BY <1>1, <1>4, <2>1 DEF EncoderIInv, Way
  <2>2. CASE orientation # "UP_UP"
    BY <1>1, <1>4, <2>2 DEF EncoderIInv, Way
  <2> QED
    BY <2>1, <2>2
<1> QED
  BY <1>4, <1>5, <1>6 DEF EncoderIInv

(* Calibration makes the angle the declared one.                           *)
LEMMA EncoderInvCalibrate ==
    ASSUME EncoderIInv, Calibrate
    PROVE  EncoderIInv'
<1> DEFINE T == ticks_per_rev
<1>1. PICK ticks \in Angles :
        /\ zero_angle_ticks' = encoder_zero_raw(ticks)
        /\ shaft' = ticks % ticks_per_rev
        /\ UNCHANGED <<ticks_per_rev, orientation, single>>
  BY DEF Calibrate
<1>2. /\ InRange /\ T \in Nat /\ T > 0 /\ single \in Int
      /\ 0 <= single /\ single < T
  BY Resolution DEF EncoderIInv, InRange
<1> DEFINE u == uticks(ticks)
           z == encoder_zero_raw(ticks)
<1>3. /\ z \in 0 .. T /\ u \in 0 .. T - 1 /\ shaft' = u
      /\ orientation = "UP_UP" => u - (single - z) \in {0, T}
      /\ orientation # "UP_UP" => u - (z - single) \in {0, T}
  BY <1>1, <1>2, ZeroPoint
<1> HIDE DEF u, z
<1>4. InRange'
  BY <1>1, <1>2, <1>3 DEF InRange, z
<1>5. shaft' \in {Way' - T, Way', Way' + T}
  <2>1. Way' = IF orientation = "UP_UP" THEN single - z ELSE z - single
    BY <1>1 DEF Way, z
  <2> QED
    BY <1>2, <1>3, <2>1
<1> QED
  BY <1>1, <1>4, <1>5 DEF EncoderIInv

LEMMA EncoderInvariance == EncoderSpec => []EncoderIInv
<1>1. EncoderIInv /\ [EncoderNext]_encoder_vars => EncoderIInv'
  <2> SUFFICES ASSUME EncoderIInv, [EncoderNext]_encoder_vars PROVE EncoderIInv'
    OBVIOUS
  <2>1. CASE Turn(1)
    BY <2>1, EncoderInvTurn
  <2>2. CASE Turn(-1)
    BY <2>2, EncoderInvTurn
  <2>3. CASE Calibrate
    BY <2>3, EncoderInvCalibrate
  <2>4. CASE UNCHANGED encoder_vars
    BY <2>4 DEF encoder_vars, encoder, EncoderIInv, InRange, Way
  <2> QED
    BY <2>1, <2>2, <2>3, <2>4 DEF EncoderNext
<1> QED
  BY EncoderInvInit, <1>1, PTL DEF EncoderSpec

(* Under the invariant the ticks differ from the angle by whole turns.     *)
LEMMA EncoderInvMeasures == EncoderIInv => TicksMeasureAngle
<1> SUFFICES ASSUME EncoderIInv PROVE TicksMeasureAngle
  OBVIOUS
<1> DEFINE T == ticks_per_rev
           h == T \div 2
           f == angle_full
           e == encoder_ticks
<1>1. /\ T \in Nat /\ T > 0 /\ shaft \in Int /\ Way \in Int /\ InRange
      /\ h \in Int /\ 0 <= h /\ h <= T
  BY Resolution DEF EncoderIInv, InRange, Way
<1>2. f \in 0 .. T /\ f \in {Way, Way + T}
  BY <1>1, FullTurn
<1>3. e = IF f < h THEN f ELSE -(T - f)
  BY DEF encoder_ticks
<1> HIDE DEF f, h, e
<1>4. e \in Int /\ -(T - h) <= e /\ e <= h
  BY <1>1, <1>2, <1>3
<1>5. PICK k \in -2 .. 2 : e - shaft = T * k
  <2>1. e - shaft \in {-2 * T, -T, 0, T, 2 * T}
    BY <1>1, <1>2, <1>3 DEF EncoderIInv
  <2>2. /\ -2 * T = T * (-2) /\ -T = T * (-1) /\ 0 = T * 0
        /\ T = T * 1 /\ 2 * T = T * 2
    BY <1>1
  <2> QED
    BY <2>1, <2>2
<1>6. (e - shaft) % T = 0
  <2>1. e - shaft \in Int /\ k \in Int /\ e - shaft = T * k + 0 /\ 0 \in 0 .. T - 1
    BY <1>1, <1>4, <1>5
  <2> QED
    BY <1>1, <2>1, ModUnique
<1> QED
  BY <1>4, <1>6 DEF TicksMeasureAngle, e, h

(* The ticks of an encoder are the angle of its shaft, in the range the    *)
(* header gives, for every resolution and after every calibration.         *)
THEOREM TicksAreTheAngle == EncoderSpec => []TicksMeasureAngle
BY EncoderInvariance, EncoderInvMeasures, PTL

------------------------------------------------------------------------------
(* Pid.                                                                    *)

Upper == (IF u_max > 0 THEN u_max ELSE 0) + Reach
Lower == (IF u_min < 0 THEN u_min ELSE 0) - Reach

(* What back calculation keeps: the integral is a number within reach of   *)
(* the limits, whatever a reading may be.                                  *)
PidIInv ==
    /\ p_error \in Errors \cup {NaN}
    /\ antiwindup = "BACK_CALCULATE" =>
          /\ i_error \in Int
          /\ Lower <= ki * i_error /\ ki * i_error <= Upper
          /\ effort = NaN <=> NaN \in {p_error, d_error}

------------------------------------------------------------------------------
(* What the constants are.                                                 *)
LEMMA Gains ==
    /\ kp \in Nat /\ ki \in Nat /\ ki > 0 /\ kd \in Nat /\ MaxError \in Nat
    /\ u_max \in Int /\ u_min \in Int /\ u_min < u_max /\ NaN \notin Int
BY PidAssumption

(* A product is within the bounds of its second factor.                    *)
LEMMA ProductBounds ==
    ASSUME NEW k \in Nat, NEW m \in Nat, NEW a \in Int, -m <= a, a <= m
    PROVE  k * a \in Int /\ k * m \in Nat /\ -(k * m) <= k * a /\ k * a <= k * m
<1>1. k * (m - a) >= 0 /\ k * (m + a) >= 0
  BY SMT
<1>2. k * (m - a) = k * m - k * a /\ k * (m + a) = k * m + k * a
  OBVIOUS
<1> QED
  BY <1>1, <1>2

(* The share of the error and of its change in the signal.                 *)
LEMMA ShareBounds ==
    ASSUME NEW e \in Errors, NEW p \in Errors
    PROVE  /\ kp * e + kd * (e - p) \in Int /\ Reach \in Int
           /\ -Reach <= kp * e + kd * (e - p) /\ kp * e + kd * (e - p) <= Reach
<1> DEFINE m == 2 * MaxError
           d == e - p
<1>1. /\ e \in Int /\ -MaxError <= e /\ e <= MaxError
      /\ m \in Nat /\ d \in Int /\ -m <= d /\ d <= m
  BY Gains DEF Errors
<1>2. /\ kp * e \in Int /\ kp * MaxError \in Nat
      /\ -(kp * MaxError) <= kp * e /\ kp * e <= kp * MaxError
  BY <1>1, Gains, ProductBounds
<1>3. /\ kd * d \in Int /\ kd * m \in Nat /\ -(kd * m) <= kd * d /\ kd * d <= kd * m
  <2> HIDE DEF m, d
  <2> QED
    BY <1>1, Gains, ProductBounds
<1>4. Reach = kp * MaxError + kd * m
  BY Gains DEF Reach
<1> QED
  BY <1>2, <1>3, <1>4

(* The signal is a number exactly when both readings are.                  *)
LEMMA SignalIsNumber ==
    ASSUME NEW i \in Int, NEW e \in Errors \cup {NaN}, p_error \in Errors \cup {NaN}
    PROVE  /\ NaN \in {e, p_error} => Signal(i, e) = NaN
           /\ NaN \notin {e, p_error} =>
                Signal(i, e) = kp * e + ki * i + kd * (e - p_error) /\ Signal(i, e) \in Int
<1>1. CASE e = NaN
  BY <1>1, Gains DEF Signal, Plus, Times, Minus
<1>2. CASE e # NaN /\ p_error = NaN
  <2>1. e \in Int /\ i # NaN
    BY <1>2, Gains DEF Errors
  <2> QED
    BY <1>2, <2>1, Gains DEF Signal, Plus, Times, Minus
<1>3. CASE e # NaN /\ p_error # NaN
  <2>1. e \in Int /\ p_error \in Int /\ i # NaN /\ e - p_error \in Int
    BY <1>3, Gains DEF Errors
  <2>2. kp * e \in Int /\ ki * i \in Int /\ kd * (e - p_error) \in Int
    BY <2>1, Gains
  <2>3. /\ Minus(e, p_error) = e - p_error /\ Minus(e, p_error) # NaN
        /\ Times(kp, e) = kp * e /\ Times(ki, i) = ki * i
        /\ Times(kd, Minus(e, p_error)) = kd * (e - p_error)
    BY <1>3, <2>1, Gains DEF Minus, Times
  <2>4. Plus(kp * e, ki * i) = kp * e + ki * i
    BY <2>2, Gains DEF Plus
  <2>5. Plus(kp * e + ki * i, kd * (e - p_error)) = kp * e + ki * i + kd * (e - p_error)
    BY <2>2, Gains DEF Plus
  <2> QED
    BY <1>3, <2>2, <2>3, <2>4, <2>5, Gains DEF Signal
<1> QED
  BY <1>1, <1>2, <1>3

(* A bounded signal is NaN exactly when the signal is.                     *)
LEMMA BoundedNaN ==
    ASSUME NEW u \in Int \cup {NaN}
    PROVE  Bounded(u) = NaN <=> u = NaN
<1>1. CASE u = NaN
  BY <1>1 DEF Bounded, Less
<1>2. CASE u \in Int
  BY <1>2, Gains DEF Bounded, Less
<1> QED
  BY <1>1, <1>2

(* What back calculation makes of the integral.                            *)
LEMMA IntegralKept ==
    ASSUME antiwindup = "BACK_CALCULATE", p_error \in Errors \cup {NaN},
           i_error \in Int, Lower <= ki * i_error, ki * i_error <= Upper,
           NEW e \in Errors \cup {NaN}
    PROVE  /\ Integral(e) \in Int
           /\ Lower <= ki * Integral(e) /\ ki * Integral(e) <= Upper
<1> DEFINE i == Plus(i_error, e)
           u == Signal(i, e)
<1>1. CASE ~MayAccumulate(u, e)
  BY <1>1 DEF Integral
<1>2. CASE MayAccumulate(u, e)
  <2>1. Integral(e) = i
    BY <1>2 DEF Integral
  <2>2. u # NaN
    BY <1>2 DEF MayAccumulate, Less
  <2>3. e # NaN
    BY <2>2, Gains DEF Signal, Plus, Times, Minus
  <2>4. e \in Errors /\ e \in Int /\ i = i_error + e /\ i \in Int
    BY <2>3, Gains DEF Errors, Plus
  <2> DEFINE w == kp * e + kd * (e - p_error)
             s == ki * i
             t == ki * i_error
  <2> HIDE DEF i
  <2>5. p_error # NaN /\ p_error \in Errors /\ p_error \in Int
    BY <2>2, <2>4, SignalIsNumber DEF Errors
  <2>6. u = kp * e + ki * i + kd * (e - p_error) /\ u \in Int
    BY <2>3, <2>4, <2>5, SignalIsNumber
  <2>7. w \in Int /\ Reach \in Int /\ -Reach <= w /\ w <= Reach
    BY <2>4, <2>5, ShareBounds
  <2>8. s \in Int /\ t \in Int /\ u = s + w
    <3>1. kp * e \in Int /\ kd * (e - p_error) \in Int
      BY <2>4, <2>5, Gains
    <3> QED
      BY <2>4, <2>6, <3>1, Gains
  <2>9. s = t + ki * e
    BY <2>4, Gains
  <2>10. (e < 0 => ki * e < 0) /\ (0 < e => 0 < ki * e) /\ ki * e \in Int
    BY <2>4, Gains
  <2>11. t <= Upper /\ Lower <= t
    OBVIOUS
  <2>12. \/ u_min < u /\ u < u_max
         \/ e < 0 /\ u_max < u
         \/ 0 < e /\ u < u_min
    BY <1>2 DEF MayAccumulate, Less
  <2> HIDE DEF u, w, s, t
  <2>13. Lower <= s /\ s <= Upper
    BY <2>4, <2>6, <2>7, <2>8, <2>9, <2>10, <2>11, <2>12, Gains DEF Upper, Lower
  <2> QED
    BY <2>1, <2>4, <2>13 DEF s
<1> QED
  BY <1>1, <1>2

------------------------------------------------------------------------------
LEMMA PidInvInit == PidInit => PidIInv
<1> SUFFICES ASSUME PidInit PROVE PidIInv
  OBVIOUS
<1>1. 0 \in Errors
  BY Gains DEF Errors
<1>2. Reach \in Int /\ 0 <= Reach
  <2>1. kp * 0 + kd * (0 - 0) = 0
    BY Gains
  <2> QED
    BY <1>1, <2>1, ShareBounds
<1>3. ki * 0 = 0 /\ NaN # 0
  BY Gains
<1> QED
  BY <1>1, <1>2, <1>3, Gains DEF PidInit, PidIInv, Upper, Lower

LEMMA PidInvStep ==
    ASSUME PidIInv, NEW e \in Errors \cup {NaN}, pid_compute(e)
    PROVE  PidIInv'
<1>1. p_error' = e /\ antiwindup' = antiwindup /\ p_error \in Errors \cup {NaN}
  BY DEF pid_compute, PidIInv
<1>2. SUFFICES ASSUME antiwindup = "BACK_CALCULATE"
               PROVE  /\ i_error' \in Int
                      /\ Lower <= ki * i_error' /\ ki * i_error' <= Upper
                      /\ effort' = NaN <=> NaN \in {p_error', d_error'}
  BY <1>1 DEF PidIInv, Lower, Upper, Reach
<1>3. i_error' \in Int /\ Lower <= ki * i_error' /\ ki * i_error' <= Upper
  <2>1. i_error' = Integral(e)
    BY DEF pid_compute
  <2> QED
    BY <1>1, <1>2, <2>1, IntegralKept DEF PidIInv
<1>4. effort' = NaN <=> NaN \in {e, p_error}
  <2> DEFINE i == i_error'
  <2>1. i \in Int /\ effort' = Bounded(Signal(i, e))
    BY <1>3 DEF pid_compute
  <2> HIDE DEF i
  <2>2. Signal(i, e) \in Int \cup {NaN} /\ (Signal(i, e) = NaN <=> NaN \in {e, p_error})
    BY <1>1, <2>1, SignalIsNumber, Gains
  <2> QED
    BY <2>1, <2>2, BoundedNaN
<1>5. NaN \in {p_error', d_error'} <=> NaN \in {e, p_error}
  <2>1. d_error' = Minus(e, p_error)
    BY DEF pid_compute
  <2>2. e # NaN /\ p_error # NaN => e - p_error \in Int
    BY <1>1 DEF Errors
  <2> QED
    BY <1>1, <2>1, <2>2, Gains DEF Minus
<1> QED
  BY <1>3, <1>4, <1>5

LEMMA PidInvariance == PidSpec => []PidIInv
<1>1. PidIInv /\ [PidNext]_pid_vars => PidIInv'
  <2> SUFFICES ASSUME PidIInv, [PidNext]_pid_vars PROVE PidIInv'
    OBVIOUS
  <2>1. CASE PidNext
    BY <2>1, PidInvStep DEF PidNext
  <2>2. CASE UNCHANGED pid_vars
    BY <2>2 DEF pid_vars, pid_state, PidIInv, Lower, Upper, Reach
  <2> QED
    BY <2>1, <2>2
<1> QED
  BY PidInvInit, <1>1, PTL DEF PidSpec

LEMMA PidInvBounds == PidIInv => IntegralBounded /\ NaNForgotten
BY Gains DEF PidIInv, IntegralBounded, NaNForgotten, Upper, Lower

(* No windup, for every gains and limits: whatever the errors, and however *)
(* long the signal is saturated, back calculation keeps the integral       *)
(* within reach of the limits.                                             *)
THEOREM NoWindup == PidSpec => []IntegralBounded
BY PidInvariance, PidInvBounds, PTL

(* A broken reading is forgotten, for every gains and limits: it never     *)
(* enters the integral, and spoils the effort of two calls at most.        *)
THEOREM BadReadingForgotten == PidSpec => []NaNForgotten
BY PidInvariance, PidInvBounds, PTL

------------------------------------------------------------------------------
(* Passthrough.                                                            *)

(* Of the first n characters, the sequence s holds those not lost, in      *)
(* order and once, and perhaps some breaks.                                *)
InOrder(s, n, lost) ==
    /\ \A j, k \in DOMAIN s : j < k /\ s[j] # BREAK /\ s[k] # BREAK => s[j] < s[k]
    /\ \A k \in DOMAIN s : s[k] # BREAK => s[k] \in (1 .. n) \ lost
    /\ \A c \in (1 .. n) \ lost : \E k \in DOMAIN s : s[k] = c

BreaksIn(s) == {k \in DOMAIN s : s[k] = BREAK}

(* A path with a delivered, b to be sent and c received, of n characters   *)
(* sent and those of lost lost on the way; no break is passed on.          *)
Path(a, b, c, n, lost) ==
    /\ lost \subseteq 1 .. n
    /\ InOrder((a \o b) \o c, n, lost)
    /\ \A k \in DOMAIN (a \o b) : (a \o b)[k] # BREAK

PtTypes ==
    /\ pt_rx \in [Ports -> Seq(Nat)] /\ pt_tx \in [Ports -> Seq(Nat)]
    /\ pt_out \in [Ports -> Seq(Nat)] /\ pt_sent \in [Ports -> Nat]
    /\ pt_lost \in [Ports -> SUBSET Nat]

Route(p) == Path(pt_out[Other(p)], pt_tx[Other(p)], pt_rx[p], pt_sent[p], pt_lost[p])
NoneOnPort2 == \A k \in DOMAIN pt_rx[2] : pt_rx[2][k] # BREAK

(* Every return is owed to a break of its own: a break waits in the FIFO,  *)
(* or is the one being waited for, or has ended a call.                    *)
Waiting == IF pt_pc \in {"wait", "error"} THEN 1 ELSE 0
FlagInWait == pt_flag => pt_pc \in {"wait", "error"}
BreaksOwed ==
    /\ pt_breaks \in Nat /\ pt_returns \in Nat
    /\ Cardinality(BreaksIn(pt_rx[1])) + pt_returns + Waiting <= pt_breaks

PtIInv == /\ PtTypes /\ (\A p \in Ports : Route(p)) /\ NoneOnPort2
          /\ FlagInWait /\ BreaksOwed

(* Sequences of characters: one arrives, is lost, or is taken out; a break *)
(* arrives.                                                                *)
LEMMA CharacterArrives ==
    ASSUME NEW s \in Seq(Nat), NEW n \in Nat, NEW lost \in SUBSET (1 .. n),
           InOrder(s, n, lost)
    PROVE  InOrder(Append(s, n + 1), n + 1, lost)
<1> DEFINE t == Append(s, n + 1)
<1>1. /\ DOMAIN s = 1 .. Len(s) /\ DOMAIN t = 1 .. Len(s) + 1 /\ Len(s) \in Nat
      /\ \A k \in 1 .. Len(s) : t[k] = s[k] /\ s[k] \in Nat
      /\ t[Len(s) + 1] = n + 1
  OBVIOUS
<1> HIDE DEF t
<1>2. \A k \in DOMAIN t : k \in DOMAIN s \/ k = Len(s) + 1
  BY <1>1
<1>3. \A c \in (1 .. n + 1) \ lost : c \in (1 .. n) \ lost \/ c = n + 1
  OBVIOUS
<1>4. \A j, k \in DOMAIN t : j < k /\ t[j] # BREAK /\ t[k] # BREAK => t[j] < t[k]
  BY <1>1 DEF InOrder
<1>5. \A k \in DOMAIN t : t[k] # BREAK => t[k] \in (1 .. n + 1) \ lost
  BY <1>1, <1>2 DEF InOrder
<1>6. \A c \in (1 .. n + 1) \ lost : \E k \in DOMAIN t : t[k] = c
  <2> SUFFICES ASSUME NEW c \in (1 .. n + 1) \ lost PROVE \E k \in DOMAIN t : t[k] = c
    OBVIOUS
  <2>1. CASE c = n + 1
    BY <1>1, <2>1
  <2>2. CASE c # n + 1
    <3>1. PICK k \in DOMAIN s : s[k] = c
      BY <2>2 DEF InOrder
    <3> QED
      BY <1>1, <3>1
  <2> QED
    BY <2>1, <2>2
<1> QED
  BY <1>4, <1>5, <1>6 DEF InOrder, t

LEMMA CharacterLost ==
    ASSUME NEW s \in Seq(Nat), NEW n \in Nat, NEW lost \in SUBSET (1 .. n),
           InOrder(s, n, lost)
    PROVE  InOrder(s, n + 1, lost \cup {n + 1})
<1>1. (1 .. n + 1) \ (lost \cup {n + 1}) = (1 .. n) \ lost
  OBVIOUS
<1> QED
  BY <1>1 DEF InOrder

LEMMA BreakArrives ==
    ASSUME NEW s \in Seq(Nat), NEW n \in Nat, NEW lost, InOrder(s, n, lost)
    PROVE  InOrder(Append(s, BREAK), n, lost)
<1> DEFINE t == Append(s, BREAK)
<1>1. /\ DOMAIN s = 1 .. Len(s) /\ DOMAIN t = 1 .. Len(s) + 1 /\ Len(s) \in Nat
      /\ \A k \in 1 .. Len(s) : t[k] = s[k]
      /\ t[Len(s) + 1] = BREAK
  BY DEF BREAK
<1> HIDE DEF t
<1>2. \A k \in DOMAIN t : t[k] # BREAK => k \in DOMAIN s /\ t[k] = s[k]
  BY <1>1
<1>3. \A k \in DOMAIN s : k \in DOMAIN t /\ t[k] = s[k]
  BY <1>1
<1> QED
  BY <1>2, <1>3 DEF InOrder, t

LEMMA CharacterTaken ==
    ASSUME NEW len \in Nat, NEW s \in [1 .. len -> Nat], NEW t \in [1 .. len - 1 -> Nat],
           NEW n \in Nat, NEW lost, NEW m \in 1 .. len, InOrder(s, n, lost),
           \A k \in 1 .. len - 1 : t[k] = IF k < m THEN s[k] ELSE s[k + 1]
    PROVE  InOrder(t, n, IF s[m] = BREAK THEN lost ELSE lost \cup {s[m]})
<1> DEFINE from == [k \in 1 .. len - 1 |-> IF k < m THEN k ELSE k + 1]
           gone == IF s[m] = BREAK THEN lost ELSE lost \cup {s[m]}
<1>1. from \in [1 .. len - 1 -> 1 .. len]
  OBVIOUS
<1>2. \A k \in 1 .. len - 1 : from[k] # m /\ t[k] = s[from[k]]
  OBVIOUS
<1>3. \A j, k \in 1 .. len - 1 : j < k => from[j] < from[k]
  OBVIOUS
<1>4. ASSUME NEW i \in 1 .. len, i # m PROVE \E k \in 1 .. len - 1 : t[k] = s[i]
  <2>1. CASE i < m
    <3>1. i \in 1 .. len - 1 /\ t[i] = s[i]
      BY <2>1
    <3> QED
      BY <3>1
  <2>2. CASE i > m
    <3>1. i - 1 \in 1 .. len - 1 /\ t[i - 1] = s[i]
      BY <2>2
    <3> QED
      BY <3>1
  <2> QED
    BY <1>4, <2>1, <2>2
<1> HIDE DEF from
<1>5. ASSUME NEW i \in 1 .. len, i # m, s[i] # BREAK, s[m] # BREAK PROVE s[i] # s[m]
  <2>1. s[i] < s[m] \/ s[m] < s[i]
    BY <1>5 DEF InOrder
  <2> QED
    BY <2>1
<1>6. ASSUME NEW j \in 1 .. len - 1, NEW k \in 1 .. len - 1, j < k, t[j] # BREAK, t[k] # BREAK
      PROVE  t[j] < t[k]
  BY <1>1, <1>2, <1>3, <1>6 DEF InOrder
<1>7. ASSUME NEW k \in 1 .. len - 1, t[k] # BREAK PROVE t[k] \in (1 .. n) \ gone
  <2>1. from[k] \in 1 .. len /\ from[k] # m /\ t[k] = s[from[k]]
    BY <1>1, <1>2
  <2>2. s[from[k]] \in (1 .. n) \ lost
    BY <1>7, <2>1 DEF InOrder
  <2>3. s[m] # BREAK => s[from[k]] # s[m]
    BY <1>5, <1>7, <2>1
  <2> QED
    BY <2>1, <2>2, <2>3
<1>8. ASSUME NEW c \in (1 .. n) \ gone PROVE \E k \in 1 .. len - 1 : t[k] = c
  <2>1. c \in (1 .. n) \ lost /\ c # s[m]
    BY DEF BREAK
  <2>2. PICK i \in 1 .. len : s[i] = c
    BY <2>1 DEF InOrder
  <2> QED
    BY <1>4, <2>1, <2>2
<1> HIDE DEF gone
<1>9. InOrder(t, n, gone)
  BY <1>6, <1>7, <1>8 DEF InOrder
<1> QED
  BY <1>9 DEF gone

(* The moves between the three parts of the way.                           *)
LEMMA Joined ==
    ASSUME NEW a \in Seq(Nat), NEW b \in Seq(Nat)
    PROVE  /\ a \o b \in Seq(Nat) /\ Len(a \o b) = Len(a) + Len(b)
           /\ DOMAIN (a \o b) = 1 .. Len(a) + Len(b) /\ Len(a) \in Nat /\ Len(b) \in Nat
           /\ \A i \in 1 .. Len(a) + Len(b) :
                 (a \o b)[i] = IF i <= Len(a) THEN a[i] ELSE b[i - Len(a)]
BY ConcatProperties, LenProperties

LEMMA Shorter ==
    ASSUME NEW b \in Seq(Nat), b # << >>
    PROVE  /\ Head(b) \in Nat /\ Head(b) = b[1] /\ Tail(b) \in Seq(Nat)
           /\ Len(b) \in Nat \ {0} /\ Len(Tail(b)) = Len(b) - 1
           /\ \A i \in 1 .. Len(b) - 1 : Tail(b)[i] = b[i + 1]
BY HeadTailProperties, EmptySeq

LEMMA Moved ==
    ASSUME NEW a \in Seq(Nat), NEW b \in Seq(Nat), b # << >>
    PROVE  Append(a, Head(b)) \o Tail(b) = a \o b
<1>1. Head(b) \in Nat /\ Head(b) = b[1] /\ Tail(b) \in Seq(Nat) /\ Len(b) \in Nat \ {0}
  BY Shorter
<1>2. <<Head(b)>> \o Tail(b) = b
  <2>1. SubSeq(b, 1, Len(b)) = <<b[1]>> \o SubSeq(b, 1 + 1, Len(b))
    <3>1. 1 \in 1 .. Len(b) /\ Len(b) \in 1 .. Len(b)
      BY <1>1
    <3> QED
      BY <3>1, SubSeqRecursiveFirst
  <2>2. SubSeq(b, 1, Len(b)) = b
    BY SubSeqFull
  <2>3. Tail(b) = SubSeq(b, 2, Len(b))
    BY TailIsSubSeq
  <2>4. 1 + 1 = 2
    OBVIOUS
  <2> QED
    BY <1>1, <2>1, <2>2, <2>3, <2>4
<1>3. Append(a, Head(b)) = a \o <<Head(b)>>
  BY <1>1, AppendIsConcat
<1>4. <<Head(b)>> \in Seq(Nat)
  BY <1>1
<1>5. (a \o <<Head(b)>>) \o Tail(b) = a \o (<<Head(b)>> \o Tail(b))
  BY <1>1, <1>4, ConcatAssociative
<1> QED
  BY <1>2, <1>3, <1>5

LEMMA Longer ==
    ASSUME NEW a \in Seq(Nat), NEW b \in Seq(Nat), NEW x \in Nat
    PROVE  a \o Append(b, x) = Append(a \o b, x)
<1>1. <<x>> \in Seq(Nat) /\ a \o b \in Seq(Nat)
  BY Joined
<1>2. Append(b, x) = b \o <<x>>
  BY AppendIsConcat
<1>3. Append(a \o b, x) = (a \o b) \o <<x>>
  BY <1>1, AppendIsConcat
<1>4. (a \o b) \o <<x>> = a \o (b \o <<x>>)
  BY <1>1, ConcatAssociative
<1> QED
  BY <1>2, <1>3, <1>4

LEMMA Dropped ==
    ASSUME NEW a \in Seq(Nat), NEW c \in Seq(Nat), c # << >>
    PROVE  /\ Len(a) + 1 \in 1 .. Len(a \o c) /\ (a \o c)[Len(a) + 1] = Head(c)
           /\ Len(a \o Tail(c)) = Len(a \o c) - 1
           /\ \A k \in 1 .. Len(a \o c) - 1 :
                 (a \o Tail(c))[k] = IF k < Len(a) + 1 THEN (a \o c)[k] ELSE (a \o c)[k + 1]
<1> DEFINE d == Tail(c)
           u == a \o c
           v == a \o d
<1>1. d \in Seq(Nat) /\ Len(d) = Len(c) - 1 /\ Len(c) \in Nat \ {0} /\ Head(c) = c[1]
      /\ \A i \in 1 .. Len(c) - 1 : d[i] = c[i + 1]
  BY Shorter
<1>2. /\ Len(u) = Len(a) + Len(c) /\ Len(a) \in Nat
      /\ \A i \in 1 .. Len(a) + Len(c) : u[i] = IF i <= Len(a) THEN a[i] ELSE c[i - Len(a)]
  BY Joined
<1> HIDE DEF d
<1>3. /\ Len(v) = Len(a) + Len(d)
      /\ \A i \in 1 .. Len(a) + Len(d) : v[i] = IF i <= Len(a) THEN a[i] ELSE d[i - Len(a)]
  BY <1>1, Joined
<1> HIDE DEF u, v
<1>4. PICK la \in Nat, lc \in Nat \ {0} : la = Len(a) /\ lc = Len(c)
  BY <1>1, <1>2
<1>5. Len(u) = la + lc /\ Len(v) = la + lc - 1
  BY <1>1, <1>2, <1>3, <1>4
<1>6. ASSUME NEW i \in 1 .. lc - 1 PROVE d[i] = c[i + 1]
  BY <1>1, <1>4
<1>7. ASSUME NEW i \in 1 .. la + lc PROVE u[i] = IF i <= la THEN a[i] ELSE c[i - la]
  BY <1>2, <1>4
<1>8. ASSUME NEW i \in 1 .. la + lc - 1 PROVE v[i] = IF i <= la THEN a[i] ELSE d[i - la]
  <2>1. Len(a) + Len(d) = la + lc - 1
    BY <1>1, <1>4
  <2> QED
    BY <1>3, <1>4, <2>1
<1>9. ASSUME NEW k \in 1 .. la + lc - 1 PROVE v[k] = IF k < la + 1 THEN u[k] ELSE u[k + 1]
  <2>1. CASE k <= la
    <3>1. k \in 1 .. la + lc /\ k < la + 1
      BY <2>1
    <3> QED
      BY <1>7, <1>8, <2>1, <3>1
  <2>2. CASE k > la
    <3>1. k - la \in 1 .. lc - 1 /\ k + 1 \in 1 .. la + lc /\ (k + 1) - la = (k - la) + 1
          /\ ~(k + 1 <= la) /\ ~(k <= la) /\ ~(k < la + 1)
      BY <2>2
    <3>2. v[k] = d[k - la]
      BY <1>8, <3>1
    <3>3. d[k - la] = c[(k - la) + 1]
      BY <1>6, <3>1
    <3>4. u[k + 1] = c[(k + 1) - la]
      BY <1>7, <3>1
    <3> QED
      BY <3>1, <3>2, <3>3, <3>4
  <2> QED
    BY <2>1, <2>2
<1>10. la + 1 \in 1 .. la + lc /\ u[la + 1] = c[1]
  <2>1. la + 1 \in 1 .. la + lc /\ ~(la + 1 <= la) /\ (la + 1) - la = 1
    OBVIOUS
  <2> QED
    BY <1>7, <2>1
<1>11. /\ Len(a) + 1 \in 1 .. Len(u) /\ u[Len(a) + 1] = Head(c)
       /\ Len(v) = Len(u) - 1
       /\ \A k \in 1 .. Len(u) - 1 : v[k] = IF k < Len(a) + 1 THEN u[k] ELSE u[k + 1]
  BY <1>1, <1>4, <1>5, <1>9, <1>10
<1> QED
  BY <1>11 DEF d, u, v

(* The breaks in a FIFO are counted as they come and go.                   *)
LEMMA BreaksFinite ==
    ASSUME NEW s \in Seq(Nat)
    PROVE  IsFiniteSet(BreaksIn(s)) /\ Cardinality(BreaksIn(s)) \in Nat
<1>1. BreaksIn(s) \in SUBSET (1 .. Len(s)) /\ Len(s) \in Nat
  BY LenProperties DEF BreaksIn
<1>2. IsFiniteSet(1 .. Len(s))
  BY <1>1, FS_Interval
<1>3. IsFiniteSet(BreaksIn(s))
  BY <1>1, <1>2, FS_Subset
<1> QED
  BY <1>3, FS_CardinalityType

LEMMA BreaksGrow ==
    ASSUME NEW s \in Seq(Nat), NEW x \in Nat
    PROVE  Cardinality(BreaksIn(Append(s, x)))
             = Cardinality(BreaksIn(s)) + (IF x = BREAK THEN 1 ELSE 0)
<1>1. /\ DOMAIN s = 1 .. Len(s) /\ DOMAIN Append(s, x) = 1 .. Len(s) + 1 /\ Len(s) \in Nat
      /\ \A i \in 1 .. Len(s) : Append(s, x)[i] = s[i]
      /\ Append(s, x)[Len(s) + 1] = x
  BY AppendProperties, LenProperties
<1>2. IsFiniteSet(BreaksIn(s)) /\ Cardinality(BreaksIn(s)) \in Nat
  BY BreaksFinite
<1>3. CASE x = BREAK
  <2>1. BreaksIn(Append(s, x)) = BreaksIn(s) \cup {Len(s) + 1} /\ Len(s) + 1 \notin BreaksIn(s)
    BY <1>1, <1>3 DEF BreaksIn
  <2>2. Cardinality(BreaksIn(s) \cup {Len(s) + 1}) = Cardinality(BreaksIn(s)) + 1
    BY <1>2, <2>1, FS_AddElement
  <2> QED
    BY <1>3, <2>1, <2>2
<1>4. CASE x # BREAK
  <2>1. BreaksIn(Append(s, x)) = BreaksIn(s)
    BY <1>1, <1>4 DEF BreaksIn
  <2> QED
    BY <1>2, <1>4, <2>1
<1> QED
  BY <1>3, <1>4

LEMMA BreaksShrink ==
    ASSUME NEW s \in Seq(Nat), s # << >>
    PROVE  Cardinality(BreaksIn(s))
             = Cardinality(BreaksIn(Tail(s))) + (IF Head(s) = BREAK THEN 1 ELSE 0)
<1> DEFINE S == BreaksIn(Tail(s))
           T == BreaksIn(s) \ {1}
           f == [k \in S |-> k + 1]
<1>1. /\ DOMAIN s = 1 .. Len(s) /\ Len(s) \in Nat \ {0} /\ Head(s) = s[1]
      /\ Tail(s) \in Seq(Nat) /\ DOMAIN Tail(s) = 1 .. Len(s) - 1
      /\ \A i \in 1 .. Len(s) - 1 : Tail(s)[i] = s[i + 1]
  BY Shorter, LenProperties
<1>2. \A k \in S : k + 1 \in T
  BY <1>1 DEF BreaksIn
<1>3. \A k \in T : k - 1 \in S /\ k = (k - 1) + 1
  BY <1>1 DEF BreaksIn
<1>4. S \subseteq Int
  BY <1>1 DEF BreaksIn
<1>5. IsFiniteSet(S) /\ IsFiniteSet(BreaksIn(s))
  BY <1>1, BreaksFinite
<1>6. Cardinality(S) \in Nat /\ Cardinality(BreaksIn(s)) \in Nat
  BY <1>1, BreaksFinite
<1> HIDE DEF S, T
<1>7. f \in Bijection(S, T)
  <2>1. f \in [S -> T]
    BY <1>2
  <2>2. \A j, k \in S : f[j] = f[k] => j = k
    BY <1>4
  <2>3. \A k \in T : \E j \in S : f[j] = k
    BY <1>3
  <2> HIDE DEF f
  <2> QED
    BY <2>1, <2>2, <2>3 DEF Bijection, Injection, Surjection, IsInjective
<1> HIDE DEF f
<1>8. Cardinality(T) = Cardinality(S)
  <2>1. ExistsBijection(S, T)
    BY <1>7 DEF ExistsBijection
  <2> QED
    BY <1>5, <2>1, FS_Bijection
<1>9. Cardinality(T) = IF 1 \in BreaksIn(s) THEN Cardinality(BreaksIn(s)) - 1
                                            ELSE Cardinality(BreaksIn(s))
  <2>1. Cardinality(BreaksIn(s) \ {1}) = IF 1 \in BreaksIn(s) THEN Cardinality(BreaksIn(s)) - 1
                                                             ELSE Cardinality(BreaksIn(s))
    BY <1>5, FS_RemoveElement
  <2> QED
    BY <2>1 DEF T
<1>10. 1 \in BreaksIn(s) <=> Head(s) = BREAK
  BY <1>1 DEF BreaksIn
<1>11. Cardinality(BreaksIn(s)) = Cardinality(S) + (IF Head(s) = BREAK THEN 1 ELSE 0)
  BY <1>6, <1>8, <1>9, <1>10
<1> QED
  BY <1>11 DEF S

(* The paths, step by step.                                                *)
LEMMA PathArrives ==
    ASSUME NEW a \in Seq(Nat), NEW b \in Seq(Nat), NEW c \in Seq(Nat), NEW n \in Nat, NEW lost,
           Path(a, b, c, n, lost)
    PROVE  Path(a, b, Append(c, n + 1), n + 1, lost)
<1>1. a \o b \in Seq(Nat) /\ (a \o b) \o c \in Seq(Nat)
  BY Joined
<1>2. lost \in SUBSET (1 .. n) /\ InOrder((a \o b) \o c, n, lost)
  BY DEF Path
<1>3. InOrder(Append((a \o b) \o c, n + 1), n + 1, lost)
  BY <1>1, <1>2, CharacterArrives
<1>4. (a \o b) \o Append(c, n + 1) = Append((a \o b) \o c, n + 1)
  BY <1>1, Longer
<1>5. lost \subseteq 1 .. n + 1
  BY <1>2
<1> QED
  BY <1>3, <1>4, <1>5 DEF Path

LEMMA PathLost ==
    ASSUME NEW a \in Seq(Nat), NEW b \in Seq(Nat), NEW c \in Seq(Nat), NEW n \in Nat, NEW lost,
           Path(a, b, c, n, lost)
    PROVE  Path(a, b, c, n + 1, lost \cup {n + 1})
<1>1. (a \o b) \o c \in Seq(Nat)
  BY Joined
<1>2. lost \in SUBSET (1 .. n) /\ InOrder((a \o b) \o c, n, lost)
  BY DEF Path
<1>3. InOrder((a \o b) \o c, n + 1, lost \cup {n + 1})
  BY <1>1, <1>2, CharacterLost
<1>5. lost \cup {n + 1} \subseteq 1 .. n + 1
  BY <1>2
<1> QED
  BY <1>3, <1>5 DEF Path

LEMMA PathBreak ==
    ASSUME NEW a \in Seq(Nat), NEW b \in Seq(Nat), NEW c \in Seq(Nat), NEW n \in Nat, NEW lost,
           Path(a, b, c, n, lost)
    PROVE  Path(a, b, Append(c, BREAK), n, lost)
<1>1. a \o b \in Seq(Nat) /\ (a \o b) \o c \in Seq(Nat) /\ BREAK \in Nat
  BY Joined DEF BREAK
<1>2. InOrder(Append((a \o b) \o c, BREAK), n, lost)
  BY <1>1, BreakArrives DEF Path
<1>3. (a \o b) \o Append(c, BREAK) = Append((a \o b) \o c, BREAK)
  BY <1>1, Longer
<1> QED
  BY <1>2, <1>3 DEF Path

LEMMA PathLeaves ==
    ASSUME NEW a \in Seq(Nat), NEW b \in Seq(Nat), NEW c \in Seq(Nat), NEW n \in Nat, NEW lost,
           Path(a, b, c, n, lost), b # << >>
    PROVE  Path(Append(a, Head(b)), Tail(b), c, n, lost)
<1>1. Append(a, Head(b)) \o Tail(b) = a \o b
  BY Moved
<1> QED
  BY <1>1 DEF Path

LEMMA PathPasses ==
    ASSUME NEW a \in Seq(Nat), NEW b \in Seq(Nat), NEW c \in Seq(Nat), NEW n \in Nat, NEW lost,
           Path(a, b, c, n, lost), c # << >>, Head(c) # BREAK
    PROVE  Path(a, Append(b, Head(c)), Tail(c), n, lost)
<1>1. a \o b \in Seq(Nat) /\ Head(c) \in Nat
  BY Joined, Shorter
<1>2. a \o Append(b, Head(c)) = Append(a \o b, Head(c))
  BY <1>1, Longer
<1>3. Append(a \o b, Head(c)) \o Tail(c) = (a \o b) \o c
  BY <1>1, Moved
<1>4. \A k \in DOMAIN Append(a \o b, Head(c)) : Append(a \o b, Head(c))[k] # BREAK
  <2> DEFINE s == a \o b
             x == Head(c)
             t == Append(s, x)
  <2>1. /\ DOMAIN s = 1 .. Len(s) /\ DOMAIN t = 1 .. Len(t) /\ Len(s) \in Nat /\ Len(t) = Len(s) + 1
        /\ \A i \in 1 .. Len(s) : t[i] = s[i]
        /\ t[Len(s) + 1] = x
    BY <1>1, AppendProperties, LenProperties
  <2>2. \A k \in DOMAIN s : s[k] # BREAK
    BY DEF Path
  <2> HIDE DEF s, x, t
  <2>3. \A k \in DOMAIN t : k \in DOMAIN s \/ k = Len(s) + 1
    BY <2>1
  <2>4. x # BREAK
    BY DEF x
  <2>5. \A k \in DOMAIN t : t[k] # BREAK
    BY <2>1, <2>2, <2>3, <2>4
  <2> QED
    BY <2>5 DEF t, s, x
<1> QED
  BY <1>2, <1>3, <1>4 DEF Path

LEMMA PathDrops ==
    ASSUME NEW a \in Seq(Nat), NEW b \in Seq(Nat), NEW c \in Seq(Nat), NEW n \in Nat, NEW lost,
           Path(a, b, c, n, lost), c # << >>
    PROVE  Path(a, b, Tail(c), n, IF Head(c) = BREAK THEN lost ELSE lost \cup {Head(c)})
<1> DEFINE s == a \o b
           u == s \o c
           v == s \o Tail(c)
           gone == IF Head(c) = BREAK THEN lost ELSE lost \cup {Head(c)}
<1>1. s \in Seq(Nat) /\ Head(c) \in Nat /\ Tail(c) \in Seq(Nat)
  BY Joined, Shorter
<1>2. u \in Seq(Nat) /\ v \in Seq(Nat)
  BY <1>1, Joined
<1>3. /\ Len(s) + 1 \in 1 .. Len(u) /\ u[Len(s) + 1] = Head(c) /\ Len(v) = Len(u) - 1
      /\ \A k \in 1 .. Len(u) - 1 : v[k] = IF k < Len(s) + 1 THEN u[k] ELSE u[k + 1]
  BY <1>1, Dropped
<1>4. InOrder(u, n, lost) /\ lost \subseteq 1 .. n
  BY DEF Path
<1> HIDE DEF u, v, s
<1>5. PICK len \in Nat, m \in Nat : len = Len(u) /\ m = Len(s) + 1
  BY <1>1, <1>2, LenProperties
<1>6. u \in [1 .. len -> Nat] /\ v \in [1 .. len - 1 -> Nat]
  BY <1>2, <1>3, <1>5, LenProperties
<1>7. m \in 1 .. len /\ u[m] = Head(c)
      /\ \A k \in 1 .. len - 1 : v[k] = IF k < m THEN u[k] ELSE u[k + 1]
  BY <1>3, <1>5
<1>8. InOrder(v, n, IF u[m] = BREAK THEN lost ELSE lost \cup {u[m]})
  BY <1>4, <1>6, <1>7, CharacterTaken
<1>9. InOrder(v, n, gone)
  BY <1>7, <1>8
<1>10. Head(c) # BREAK => Head(c) \in 1 .. n
  BY <1>4, <1>6, <1>7 DEF InOrder
<1>11. gone \subseteq 1 .. n
  BY <1>4, <1>10
<1> HIDE DEF gone
<1>12. \A k \in DOMAIN (a \o b) : (a \o b)[k] # BREAK
  BY DEF Path
<1>13. Path(a, b, Tail(c), n, gone)
  BY <1>9, <1>11, <1>12 DEF Path, v, s
<1> QED
  BY <1>13 DEF gone

(* The ports, a port's parts, and what an action leaves alone.             *)
LEMMA OtherPort ==
    ASSUME NEW p \in Ports
    PROVE  Other(p) \in Ports /\ Other(p) # p /\ Other(Other(p)) = p
           /\ (\A q \in Ports : q # p => q = Other(p))
           /\ Ports = {1, 2} /\ Other(1) = 2 /\ Other(2) = 1
BY DEF Ports, Other

LEMMA PortParts ==
    ASSUME PtIInv, NEW p \in Ports
    PROVE  /\ pt_rx[p] \in Seq(Nat) /\ pt_tx[p] \in Seq(Nat) /\ pt_out[p] \in Seq(Nat)
           /\ pt_sent[p] \in Nat
           /\ Path(pt_out[Other(p)], pt_tx[Other(p)], pt_rx[p], pt_sent[p], pt_lost[p])
           /\ (\A q \in Nat : q \in pt_lost[p] => q \in 1 .. pt_sent[p])
<1>1. /\ pt_rx[p] \in Seq(Nat) /\ pt_tx[p] \in Seq(Nat) /\ pt_out[p] \in Seq(Nat)
      /\ pt_sent[p] \in Nat
  BY DEF PtIInv, PtTypes
<1>2. Path(pt_out[Other(p)], pt_tx[Other(p)], pt_rx[p], pt_sent[p], pt_lost[p])
  BY DEF PtIInv, Route
<1> QED
  BY <1>1, <1>2 DEF Path

LEMMA RouteKept ==
    ASSUME PtIInv, NEW p \in Ports,
           pt_out'[Other(p)] = pt_out[Other(p)], pt_tx'[Other(p)] = pt_tx[Other(p)],
           pt_rx'[p] = pt_rx[p], pt_sent'[p] = pt_sent[p], pt_lost'[p] = pt_lost[p]
    PROVE  Route(p)'
BY DEF PtIInv, Route

LEMMA PtTypesStep ==
    ASSUME PtIInv, PtNext
    PROVE  PtTypes'
<1> USE DEF PtTypes, PtIInv, fifos, lines
<1>0. /\ 1 \in Ports /\ 2 \in Ports /\ (\A p \in Ports : Other(p) \in Ports)
      /\ pt_rx[1] \in Seq(Nat) /\ pt_rx[2] \in Seq(Nat)
  BY DEF Ports, Other
<1>1. ASSUME NEW p \in Ports, Arrive(p) PROVE PtTypes'
  <2>1. pt_sent' \in [Ports -> Nat] /\ pt_sent'[p] \in Nat
    BY <1>1 DEF Arrive
  <2>2. Append(pt_rx[p], pt_sent'[p]) \in Seq(Nat)
    BY <2>1, AppendProperties
  <2>3. CASE Len(pt_rx[p]) < FifoDepth
    <3>1. pt_rx' = [pt_rx EXCEPT ![p] = Append(pt_rx[p], pt_sent'[p])] /\ pt_lost' = pt_lost
      BY <1>1, <2>3 DEF Arrive
    <3> QED
      BY <1>1, <2>1, <2>2, <3>1 DEF Arrive
  <2>4. CASE ~(Len(pt_rx[p]) < FifoDepth)
    <3>1. pt_lost' = [pt_lost EXCEPT ![p] = pt_lost[p] \cup {pt_sent'[p]}] /\ pt_rx' = pt_rx
      BY <1>1, <2>4 DEF Arrive
    <3>2. pt_lost[p] \cup {pt_sent'[p]} \in SUBSET Nat
      BY <2>1
    <3> QED
      BY <1>1, <2>1, <3>1, <3>2 DEF Arrive
  <2> QED
    BY <2>3, <2>4
<1>2. ASSUME NEW p \in Ports, Leave(p) PROVE PtTypes'
  <2>1. Tail(pt_tx[p]) \in Seq(Nat) /\ Append(pt_out[p], Head(pt_tx[p])) \in Seq(Nat)
    BY <1>2, Shorter DEF Leave
  <2> QED
    BY <1>2, <2>1 DEF Leave
<1>3. CASE BreakStarts
  <2>1. pt_rx[1] \in Seq(Nat) /\ BREAK \in Nat
    BY <1>0 DEF BREAK
  <2>2. Append(pt_rx[1], BREAK) \in Seq(Nat)
    BY <2>1, AppendProperties
  <2>3. pt_rx' \in [Ports -> Seq(Nat)]
    BY <1>3, <2>2 DEF BreakStarts
  <2> QED
    BY <1>3, <2>3 DEF BreakStarts
<1>4. CASE BreakStops
  BY <1>4 DEF BreakStops
<1>5. CASE Millisecond
  BY <1>5 DEF Millisecond
<1>6. CASE Called
  BY <1>6 DEF Called
<1>7. ASSUME NEW p \in Ports, NEW c \in Nat, Send(p, c)
      PROVE  pt_tx' \in [Ports -> Seq(Nat)] /\ pt_lost' \in [Ports -> SUBSET Nat]
  <2>1. CASE Len(pt_tx[p]) < FifoDepth
    <3>1. Append(pt_tx[p], c) \in Seq(Nat)
      BY AppendProperties
    <3> QED
      BY <1>7, <2>1, <3>1 DEF Send
  <2>2. CASE ~(Len(pt_tx[p]) < FifoDepth)
    <3>1. pt_lost[Other(p)] \cup {c} \in SUBSET Nat
      BY <1>0
    <3> QED
      BY <1>0, <1>7, <2>2, <3>1 DEF Send
  <2> QED
    BY <2>1, <2>2
<1>8. CASE FromPort1
  <2>1. CASE pt_rx[1] # << >> /\ TakeFromPort1
    <3>1. Tail(pt_rx[1]) \in Seq(Nat) /\ Head(pt_rx[1]) \in Nat
      BY <1>0, <2>1, Shorter
    <3>2. pt_rx' \in [Ports -> Seq(Nat)]
      BY <2>1, <3>1 DEF TakeFromPort1
    <3>3. pt_tx' \in [Ports -> Seq(Nat)] /\ pt_lost' \in [Ports -> SUBSET Nat]
      BY <1>0, <1>7, <2>1, <3>1 DEF TakeFromPort1
    <3> QED
      BY <1>8, <3>2, <3>3 DEF FromPort1
  <2>2. CASE UNCHANGED fifos
    BY <1>8, <2>2 DEF FromPort1
  <2> QED
    BY <1>8, <2>1, <2>2 DEF FromPort1
<1>9. CASE FromPort2
  <2>1. CASE pt_rx[2] # << >>
    <3>1. Tail(pt_rx[2]) \in Seq(Nat) /\ Head(pt_rx[2]) \in Nat
      BY <1>0, <2>1, Shorter
    <3>2. pt_rx' \in [Ports -> Seq(Nat)]
      BY <1>9, <2>1, <3>1 DEF FromPort2
    <3>3. pt_tx' \in [Ports -> Seq(Nat)] /\ pt_lost' \in [Ports -> SUBSET Nat]
      BY <1>0, <1>7, <1>9, <2>1, <3>1 DEF FromPort2
    <3> QED
      BY <1>9, <3>2, <3>3 DEF FromPort2
  <2>2. CASE pt_rx[2] = << >>
    BY <1>9, <2>2 DEF FromPort2
  <2> QED
    BY <2>1, <2>2
<1>10. CASE WaitForEnd
  BY <1>10 DEF WaitForEnd
<1> QED
  BY <1>1, <1>2, <1>3, <1>4, <1>5, <1>6, <1>8, <1>9, <1>10 DEF PtNext, Loop

(* A character is sent on, or dropped, as it is taken from the FIFO.       *)
LEMMA TakenAndSent ==
    ASSUME PtIInv, NEW p \in Ports, pt_rx[p] # << >>, Head(pt_rx[p]) # BREAK,
           pt_rx' = [pt_rx EXCEPT ![p] = Tail(@)], Send(Other(p), Head(pt_rx[p])),
           UNCHANGED <<pt_out, pt_sent>>
    PROVE  \A q \in Ports : Route(q)'
<1> DEFINE o == Other(p)
<1>1. o \in Ports /\ o # p /\ Other(o) = p
  BY OtherPort
<1>2. pt_rx'[p] = Tail(pt_rx[p]) /\ pt_rx'[o] = pt_rx[o]
  BY <1>1 DEF PtIInv, PtTypes
<1>3. Route(p)'
  <2>1. CASE Len(pt_tx[o]) < FifoDepth
    <3>1. pt_tx'[o] = Append(pt_tx[o], Head(pt_rx[p])) /\ pt_lost' = pt_lost
      BY <1>1, <2>1 DEF Send, PtIInv, PtTypes
    <3>2. Path(pt_out[o], Append(pt_tx[o], Head(pt_rx[p])), Tail(pt_rx[p]), pt_sent[p], pt_lost[p])
      BY <1>1, PortParts, PathPasses
    <3> QED
      BY <1>2, <3>1, <3>2 DEF Route
  <2>2. CASE ~(Len(pt_tx[o]) < FifoDepth)
    <3>1. pt_lost'[p] = pt_lost[p] \cup {Head(pt_rx[p])} /\ pt_tx' = pt_tx
      BY <1>1, <2>2 DEF Send, PtIInv, PtTypes
    <3>2. Path(pt_out[o], pt_tx[o], Tail(pt_rx[p]), pt_sent[p], pt_lost[p] \cup {Head(pt_rx[p])})
      BY <1>1, PortParts, PathDrops
    <3> QED
      BY <1>2, <3>1, <3>2 DEF Route
  <2> QED
    BY <2>1, <2>2
<1>4. Route(o)'
  <2>1. pt_tx'[p] = pt_tx[p] /\ pt_lost'[o] = pt_lost[o]
    BY <1>1 DEF Send, PtIInv, PtTypes
  <2> QED
    BY <1>1, <1>2, <2>1, RouteKept
<1> QED
  BY <1>3, <1>4, OtherPort

LEMMA RoutesStep ==
    ASSUME PtIInv, PtNext
    PROVE  \A q \in Ports : Route(q)'
<1>0. /\ 1 \in Ports /\ 2 \in Ports /\ Other(1) = 2 /\ Other(2) = 1 /\ 1 # 2
      /\ (\A p \in Ports : Other(p) \in Ports)
  BY DEF Ports, Other
<1>1. ASSUME NEW p \in Ports, Arrive(p), NEW q \in Ports PROVE Route(q)'
  <2>1. pt_sent' = [pt_sent EXCEPT ![p] = @ + 1] /\ pt_sent \in [Ports -> Nat]
        /\ pt_rx \in [Ports -> Seq(Nat)] /\ pt_lost \in [Ports -> SUBSET Nat]
        /\ UNCHANGED <<pt_out, pt_tx>>
    BY <1>1 DEF Arrive, PtIInv, PtTypes
  <2>2. CASE q # p
    <3>1. pt_rx'[q] = pt_rx[q] /\ pt_lost'[q] = pt_lost[q] /\ pt_sent'[q] = pt_sent[q]
      BY <1>1, <2>1, <2>2 DEF Arrive
    <3> QED
      BY <2>1, <3>1, RouteKept
  <2>3. CASE q = p /\ Len(pt_rx[p]) < FifoDepth
    <3>1. /\ pt_sent'[p] = pt_sent[p] + 1 /\ pt_rx'[p] = Append(pt_rx[p], pt_sent[p] + 1)
          /\ pt_lost' = pt_lost
      BY <1>1, <2>1, <2>3 DEF Arrive
    <3>2. Path(pt_out[Other(p)], pt_tx[Other(p)], Append(pt_rx[p], pt_sent[p] + 1), pt_sent[p] + 1,
              pt_lost[p])
      BY <1>0, PortParts, PathArrives
    <3> QED
      BY <2>1, <2>3, <3>1, <3>2 DEF Route
  <2>4. CASE q = p /\ ~(Len(pt_rx[p]) < FifoDepth)
    <3>1. /\ pt_sent'[p] = pt_sent[p] + 1 /\ pt_lost'[p] = pt_lost[p] \cup {pt_sent[p] + 1}
          /\ pt_rx' = pt_rx
      BY <1>1, <2>1, <2>4 DEF Arrive
    <3>2. Path(pt_out[Other(p)], pt_tx[Other(p)], pt_rx[p], pt_sent[p] + 1,
              pt_lost[p] \cup {pt_sent[p] + 1})
      BY <1>0, PortParts, PathLost
    <3> QED
      BY <2>1, <2>4, <3>1, <3>2 DEF Route
  <2> QED
    BY <2>2, <2>3, <2>4
<1>2. ASSUME NEW p \in Ports, Leave(p), NEW q \in Ports PROVE Route(q)'
  <2>1. /\ pt_out'[p] = Append(pt_out[p], Head(pt_tx[p])) /\ pt_tx'[p] = Tail(pt_tx[p])
        /\ pt_tx[p] # << >> /\ UNCHANGED <<pt_rx, pt_sent, pt_lost>>
        /\ (Other(q) # p => pt_out'[Other(q)] = pt_out[Other(q)]
                             /\ pt_tx'[Other(q)] = pt_tx[Other(q)])
    BY <1>0, <1>2 DEF Leave, PtIInv, PtTypes
  <2>2. CASE Other(q) # p
    BY <2>1, <2>2, RouteKept
  <2>3. CASE Other(q) = p
    <3>1. Path(Append(pt_out[p], Head(pt_tx[p])), Tail(pt_tx[p]), pt_rx[q], pt_sent[q], pt_lost[q])
      BY <2>1, <2>3, PortParts, PathLeaves
    <3> QED
      BY <2>1, <2>3, <3>1 DEF Route
  <2> QED
    BY <2>2, <2>3
<1>3. ASSUME BreakStarts, NEW q \in Ports PROVE Route(q)'
  <2>1. UNCHANGED <<pt_out, pt_tx, pt_sent, pt_lost>> /\ pt_rx \in [Ports -> Seq(Nat)]
    BY <1>3 DEF BreakStarts, PtIInv, PtTypes
  <2>2. CASE q # 1 \/ ~(Len(pt_rx[1]) < FifoDepth)
    <3>1. pt_rx'[q] = pt_rx[q]
      BY <1>0, <1>3, <2>1, <2>2 DEF BreakStarts
    <3> QED
      BY <2>1, <3>1, RouteKept
  <2>3. CASE q = 1 /\ Len(pt_rx[1]) < FifoDepth
    <3>1. pt_rx'[q] = Append(pt_rx[q], BREAK)
      BY <1>0, <1>3, <2>1, <2>3 DEF BreakStarts
    <3>2. Path(pt_out[Other(q)], pt_tx[Other(q)], Append(pt_rx[q], BREAK), pt_sent[q], pt_lost[q])
      BY <1>0, PortParts, PathBreak
    <3> QED
      BY <2>1, <3>1, <3>2 DEF Route
  <2> QED
    BY <2>2, <2>3
<1>4. ASSUME UNCHANGED <<fifos, pt_sent, pt_out>>, NEW q \in Ports PROVE Route(q)'
  BY <1>4, RouteKept DEF fifos
<1>5. ASSUME FromPort1, NEW q \in Ports PROVE Route(q)'
  <2>1. UNCHANGED <<pt_sent, pt_out>>
    BY <1>5 DEF FromPort1, lines
  <2>2. CASE pt_rx[1] # << >> /\ Head(pt_rx[1]) # BREAK
    <3>1. pt_rx' = [pt_rx EXCEPT ![1] = Tail(@)] /\ Send(2, Head(pt_rx[1]))
      BY <1>5, <2>2 DEF FromPort1, TakeFromPort1
    <3> QED
      BY <1>0, <2>1, <2>2, <3>1, TakenAndSent
  <2>3. CASE pt_rx[1] # << >> /\ Head(pt_rx[1]) = BREAK
    <3>1. pt_rx' = [pt_rx EXCEPT ![1] = Tail(@)] /\ UNCHANGED <<pt_tx, pt_lost>>
      BY <1>5, <2>3 DEF FromPort1, TakeFromPort1
    <3>2. CASE q = 1
      <4>1. Path(pt_out[Other(q)], pt_tx[Other(q)], Tail(pt_rx[q]), pt_sent[q], pt_lost[q])
        BY <1>0, <2>3, <3>2, PortParts, PathDrops
      <4>2. pt_rx'[q] = Tail(pt_rx[q])
        BY <3>1, <3>2 DEF PtIInv, PtTypes
      <4> QED
        BY <2>1, <3>1, <4>1, <4>2 DEF Route
    <3>3. CASE q # 1
      <4>1. pt_rx'[q] = pt_rx[q]
        BY <3>1, <3>3 DEF PtIInv, PtTypes
      <4> QED
        BY <2>1, <3>1, <4>1, RouteKept
    <3> QED
      BY <3>2, <3>3
  <2>4. CASE pt_rx[1] = << >>
    <3>1. UNCHANGED fifos
      BY <1>5, <2>4 DEF FromPort1
    <3> QED
      BY <1>4, <2>1, <3>1
  <2> QED
    BY <2>2, <2>3, <2>4
<1>6. ASSUME FromPort2, NEW q \in Ports PROVE Route(q)'
  <2>1. UNCHANGED <<pt_sent, pt_out>>
    BY <1>6 DEF FromPort2, lines
  <2>2. CASE pt_rx[2] # << >>
    <3>1. pt_rx' = [pt_rx EXCEPT ![2] = Tail(@)] /\ Send(1, Head(pt_rx[2]))
      BY <1>6, <2>2 DEF FromPort2
    <3>2. Head(pt_rx[2]) # BREAK
      <4>1. pt_rx[2] \in Seq(Nat)
        BY <1>0 DEF PtIInv, PtTypes
      <4>2. Head(pt_rx[2]) = pt_rx[2][1] /\ 1 \in DOMAIN pt_rx[2]
        BY <2>2, <4>1, Shorter, LenProperties
      <4> QED
        BY <4>2 DEF PtIInv, NoneOnPort2
    <3> QED
      BY <1>0, <2>1, <2>2, <3>1, <3>2, TakenAndSent
  <2>3. CASE pt_rx[2] = << >>
    <3>1. UNCHANGED fifos
      BY <1>6, <2>3 DEF FromPort2
    <3> QED
      BY <1>4, <2>1, <3>1
  <2> QED
    BY <2>2, <2>3
<1>7. ASSUME BreakStops \/ Millisecond \/ Called \/ WaitForEnd
      PROVE  UNCHANGED <<fifos, pt_sent, pt_out>>
  BY <1>7 DEF BreakStops, Millisecond, Called, WaitForEnd, lines
<1> QED
  BY <1>1, <1>2, <1>3, <1>4, <1>5, <1>6, <1>7 DEF PtNext, Loop

(* Breaks arrive on port 1 only.                                           *)
LEMMA NoneOnPort2Step ==
    ASSUME PtIInv, PtNext
    PROVE  NoneOnPort2'
<1>0. 1 \in Ports /\ 2 \in Ports /\ 1 # 2 /\ pt_rx \in [Ports -> Seq(Nat)] /\ pt_rx[2] \in Seq(Nat)
      /\ pt_sent \in [Ports -> Nat] /\ (\A k \in DOMAIN pt_rx[2] : pt_rx[2][k] # BREAK)
  BY DEF Ports, PtIInv, PtTypes, NoneOnPort2
<1>1. CASE pt_rx'[2] = pt_rx[2]
  BY <1>0, <1>1 DEF NoneOnPort2
<1>2. CASE Arrive(2) /\ pt_rx'[2] # pt_rx[2]
  <2>1. PICK x \in Nat : x # BREAK /\ pt_rx'[2] = Append(pt_rx[2], x)
    <3>1. pt_sent[2] + 1 \in Nat /\ pt_sent[2] + 1 # BREAK
      BY <1>0 DEF BREAK
    <3>2. pt_rx'[2] = Append(pt_rx[2], pt_sent[2] + 1)
      BY <1>0, <1>2 DEF Arrive
    <3> QED
      BY <3>1, <3>2
  <2> DEFINE s == pt_rx[2]
             u == Append(s, x)
  <2>2. /\ DOMAIN s = 1 .. Len(s) /\ DOMAIN u = 1 .. Len(s) + 1 /\ Len(s) \in Nat
        /\ \A i \in 1 .. Len(s) : u[i] = s[i]
        /\ u[Len(s) + 1] = x
    BY <1>0, AppendProperties, LenProperties
  <2>3. \A k \in DOMAIN s : s[k] # BREAK
    BY <1>0
  <2> HIDE DEF s, u
  <2>4. \A k \in DOMAIN u : k \in DOMAIN s \/ k = Len(s) + 1
    BY <2>2
  <2>5. \A k \in DOMAIN u : u[k] # BREAK
    BY <2>1, <2>2, <2>3, <2>4
  <2>6. \A k \in DOMAIN pt_rx'[2] : pt_rx'[2][k] # BREAK
    BY <2>1, <2>5 DEF u, s
  <2> QED
    BY <2>6 DEF NoneOnPort2
<1>3. CASE FromPort2 /\ pt_rx[2] # << >>
  <2>1. pt_rx'[2] = Tail(pt_rx[2])
    BY <1>0, <1>3 DEF FromPort2
  <2>2. \A k \in DOMAIN Tail(pt_rx[2]) : Tail(pt_rx[2])[k] # BREAK
    <3> DEFINE s == pt_rx[2]
               u == Tail(s)
    <3>1. /\ DOMAIN s = 1 .. Len(s) /\ DOMAIN u = 1 .. Len(s) - 1 /\ Len(s) \in Nat
          /\ \A i \in 1 .. Len(s) - 1 : u[i] = s[i + 1]
      BY <1>0, <1>3, Shorter, LenProperties
    <3>2. \A k \in DOMAIN s : s[k] # BREAK
      BY <1>0
    <3> HIDE DEF s, u
    <3>3. \A k \in DOMAIN u : k + 1 \in DOMAIN s /\ u[k] = s[k + 1]
      BY <3>1
    <3>4. \A k \in DOMAIN u : u[k] # BREAK
      BY <3>2, <3>3
    <3> QED
      BY <3>4 DEF u, s
  <2> QED
    BY <2>1, <2>2 DEF NoneOnPort2
<1>4. CASE Arrive(1) \/ BreakStarts \/ FromPort1
  <2>1. pt_rx'[2] = pt_rx[2]
    BY <1>0, <1>4 DEF Arrive, BreakStarts, FromPort1, TakeFromPort1, fifos
  <2> QED
    BY <1>1, <2>1
<1>5. CASE \/ \E p \in Ports : Leave(p)
           \/ BreakStops \/ Millisecond \/ Called \/ WaitForEnd
           \/ FromPort2 /\ pt_rx[2] = << >>
  <2>1. pt_rx' = pt_rx
    BY <1>5 DEF Leave, BreakStops, Millisecond, Called, WaitForEnd, FromPort2, fifos
  <2> QED
    BY <1>1, <2>1
<1> QED
  BY <1>1, <1>2, <1>3, <1>4, <1>5 DEF PtNext, Loop, Ports

(* The flag is raised only while the end of a break is waited for.         *)
LEMMA FlagStep ==
    ASSUME PtIInv, PtNext
    PROVE  FlagInWait'
<1>0. pt_flag => pt_pc \in {"wait", "error"}
  BY DEF PtIInv, FlagInWait
<1>1. CASE UNCHANGED <<pt_flag, pt_pc>>
  BY <1>0, <1>1 DEF FlagInWait
<1>2. CASE (\E p \in Ports : Arrive(p) \/ Leave(p)) \/ BreakStarts \/ BreakStops \/ Millisecond
  BY <1>1, <1>2 DEF Arrive, Leave, BreakStarts, BreakStops, Millisecond
<1>3. CASE Called
  BY <1>0, <1>3 DEF Called, FlagInWait
<1>4. CASE FromPort1
  <2>1. CASE pt_pc' = "wait"
    BY <2>1 DEF FlagInWait
  <2>2. CASE pt_pc' # "wait"
    BY <1>0, <1>4, <2>2 DEF FromPort1, TakeFromPort1, FlagInWait
  <2> QED
    BY <2>1, <2>2
<1>5. CASE FromPort2
  BY <1>0, <1>5 DEF FromPort2, FlagInWait
<1>6. CASE WaitForEnd
  BY <1>6 DEF WaitForEnd, FlagInWait
<1> QED
  BY <1>2, <1>3, <1>4, <1>5, <1>6 DEF PtNext, Loop

(* A return takes a break from the FIFO first.                             *)
LEMMA Owed ==
    ASSUME NEW b \in Nat, NEW r \in Nat, NEW r1 \in Nat,
           NEW w \in Nat, NEW w1 \in Nat, NEW n \in Nat,
           b + r + w <= n, w1 + r1 <= w + r
    PROVE  b + r1 + w1 <= n
OBVIOUS

LEMMA OwedAfter ==
    ASSUME NEW b \in Nat, NEW r \in Nat, NEW w \in Nat, NEW n \in Nat, (b + w) + r + 0 <= n
    PROVE  b + r + w <= n
OBVIOUS

LEMMA BreaksStep ==
    ASSUME PtIInv, PtNext
    PROVE  BreaksOwed'
<1> DEFINE B == Cardinality(BreaksIn(pt_rx[1]))
<1>0. /\ 1 \in Ports /\ pt_rx[1] \in Seq(Nat) /\ pt_rx \in [Ports -> Seq(Nat)]
      /\ pt_breaks \in Nat /\ pt_returns \in Nat /\ Waiting \in Nat /\ B \in Nat
      /\ B + pt_returns + Waiting <= pt_breaks
  <2>1. 1 \in Ports /\ pt_rx[1] \in Seq(Nat) /\ pt_rx \in [Ports -> Seq(Nat)]
    BY DEF Ports, PtIInv, PtTypes
  <2> QED
    BY <2>1, BreaksFinite DEF PtIInv, BreaksOwed, Waiting
<1>1. CASE pt_rx'[1] = pt_rx[1] /\ Waiting' + pt_returns' <= Waiting + pt_returns
           /\ pt_returns' \in Nat /\ pt_breaks' = pt_breaks
  <2>1. B' = B
    BY <1>1
  <2>2. Waiting' \in Nat
    BY DEF Waiting
  <2> HIDE DEF B
  <2>3. PICK w \in Nat : w = Waiting'
    BY <2>2
  <2>4. w + pt_returns' <= Waiting + pt_returns
    BY <1>1, <2>3
  <2>5. B + pt_returns' + w <= pt_breaks
    <3>1. B \in Nat /\ pt_returns \in Nat /\ Waiting \in Nat /\ pt_breaks \in Nat
          /\ pt_returns' \in Nat /\ B + pt_returns + Waiting <= pt_breaks
      BY <1>0, <1>1
    <3> QED
      BY <2>4, <3>1, Owed
  <2>6. B' + pt_returns' + Waiting' <= pt_breaks'
    BY <1>1, <2>1, <2>3, <2>5
  <2> QED
    BY <1>0, <1>1, <2>6 DEF BreaksOwed, B
<1>2. ASSUME NEW x \in Nat, pt_rx' = [pt_rx EXCEPT ![1] = Append(@, x)],
             UNCHANGED <<pt_pc, pt_returns>>,
             pt_breaks' = pt_breaks + (IF x = BREAK THEN 1 ELSE 0)
      PROVE  BreaksOwed'
  <2>1. pt_rx'[1] = Append(pt_rx[1], x)
    BY <1>0, <1>2
  <2>2. B' = B + (IF x = BREAK THEN 1 ELSE 0)
    BY <1>0, <2>1, BreaksGrow
  <2>3. Waiting' = Waiting
    BY <1>2 DEF Waiting
  <2> HIDE DEF B
  <2>4. B' + pt_returns' + Waiting' <= pt_breaks' /\ pt_breaks' \in Nat
    BY <1>0, <1>2, <2>2, <2>3
  <2> QED
    BY <1>0, <1>2, <2>4 DEF BreaksOwed, B
<1>3. CASE Arrive(1)
  <2>1. CASE Len(pt_rx[1]) < FifoDepth
    <3>1. pt_sent[1] \in Nat /\ pt_sent'[1] = pt_sent[1] + 1
      BY <1>0, <1>3 DEF Arrive, PtIInv, PtTypes
    <3>2. pt_sent'[1] \in Nat /\ pt_sent'[1] # BREAK
      BY <3>1 DEF BREAK
    <3>3. pt_rx' = [pt_rx EXCEPT ![1] = Append(@, pt_sent'[1])]
          /\ UNCHANGED <<pt_pc, pt_returns, pt_breaks>>
      BY <1>3, <2>1 DEF Arrive
    <3>4. pt_breaks' = pt_breaks + (IF pt_sent'[1] = BREAK THEN 1 ELSE 0)
      BY <1>0, <3>2, <3>3
    <3> QED
      BY <1>2, <3>2, <3>3, <3>4
  <2>2. CASE ~(Len(pt_rx[1]) < FifoDepth)
    <3>1. pt_rx' = pt_rx /\ UNCHANGED <<pt_pc, pt_returns, pt_breaks>>
      BY <1>3, <2>2 DEF Arrive
    <3> QED
      BY <1>0, <1>1, <3>1 DEF Waiting
  <2> QED
    BY <2>1, <2>2
<1>4. CASE BreakStarts
  <2>1. CASE Len(pt_rx[1]) < FifoDepth
    <3>1. BREAK \in Nat
      BY DEF BREAK
    <3> QED
      BY <1>0, <1>2, <1>4, <2>1, <3>1 DEF BreakStarts
  <2>2. CASE ~(Len(pt_rx[1]) < FifoDepth)
    <3>1. pt_rx' = pt_rx /\ UNCHANGED <<pt_pc, pt_returns>> /\ pt_breaks' = pt_breaks + 1
      BY <1>4, <2>2 DEF BreakStarts
    <3>2. B' = B /\ Waiting' = Waiting
      BY <3>1 DEF Waiting
    <3> HIDE DEF B
    <3>3. B' + pt_returns' + Waiting' <= pt_breaks' /\ pt_breaks' \in Nat
      BY <1>0, <3>1, <3>2
    <3> QED
      BY <1>0, <3>1, <3>3 DEF BreaksOwed, B
  <2> QED
    BY <2>1, <2>2
<1>5. CASE FromPort1
  <2>1. UNCHANGED <<pt_returns, pt_breaks>> /\ pt_pc = "port1"
    BY <1>5 DEF FromPort1, lines
  <2>2. Waiting = 0
    BY <2>1 DEF Waiting
  <2>3. CASE pt_rx[1] # << >>
    <3>1. pt_rx'[1] = Tail(pt_rx[1])
      BY <1>0, <1>5, <2>3 DEF FromPort1, TakeFromPort1
    <3>2. B = B' + (IF Head(pt_rx[1]) = BREAK THEN 1 ELSE 0)
      BY <1>0, <2>3, <3>1, BreaksShrink
    <3>3. B' \in Nat
      BY <1>0, <2>3, <3>1, Shorter, BreaksFinite
    <3>4. Waiting' = IF Head(pt_rx[1]) = BREAK THEN 1 ELSE 0
      BY <1>5, <2>3 DEF FromPort1, TakeFromPort1, Waiting
    <3> HIDE DEF B
    <3>5. PICK w \in Nat : w = IF Head(pt_rx[1]) = BREAK THEN 1 ELSE 0
      OBVIOUS
    <3>6. B = B' + w /\ Waiting' = w
      BY <3>2, <3>4, <3>5
    <3>7. B' + pt_returns + w <= pt_breaks
      <4>1. /\ B \in Nat /\ pt_returns \in Nat /\ pt_breaks \in Nat
            /\ B + pt_returns + Waiting <= pt_breaks
        BY <1>0
      <4>2. (B' + w) + pt_returns + 0 <= pt_breaks
        BY <2>2, <3>6, <4>1
      <4> QED
        BY <3>3, <4>1, <4>2, OwedAfter
    <3>8. B' + pt_returns' + Waiting' <= pt_breaks'
      BY <2>1, <3>6, <3>7
    <3> QED
      BY <1>0, <2>1, <3>8 DEF BreaksOwed, B
  <2>4. CASE pt_rx[1] = << >>
    <3>1. ~pt_flag
      BY <2>1 DEF PtIInv, FlagInWait
    <3>2. pt_rx' = pt_rx /\ pt_pc' = "port2"
      BY <1>5, <2>4, <3>1 DEF FromPort1, fifos
    <3>3. Waiting' = 0
      BY <3>2 DEF Waiting
    <3> QED
      BY <1>0, <1>1, <2>1, <2>2, <3>2, <3>3
  <2> QED
    BY <2>3, <2>4
<1>6. CASE WaitForEnd
  <2>1. pt_rx' = pt_rx /\ pt_breaks' = pt_breaks /\ pt_pc = "wait"
    BY <1>6 DEF WaitForEnd, fifos, lines
  <2>2. Waiting = 1
    BY <2>1 DEF Waiting
  <2>3. \/ pt_pc' = "idle" /\ pt_returns' = pt_returns + 1
        \/ pt_pc' \in {"error", "wait"} /\ pt_returns' = pt_returns
    BY <1>6 DEF WaitForEnd
  <2>4. \/ Waiting' = 0 /\ pt_returns' = pt_returns + 1
        \/ Waiting' = 1 /\ pt_returns' = pt_returns
    BY <2>3 DEF Waiting
  <2> QED
    BY <1>0, <1>1, <2>1, <2>2, <2>4
<1>7. CASE (\E p \in Ports : Leave(p)) \/ BreakStops \/ Millisecond \/ Arrive(2)
           \/ Called \/ FromPort2
  <2>1. pt_rx'[1] = pt_rx[1] /\ UNCHANGED <<pt_returns, pt_breaks>>
    BY <1>0, <1>7 DEF Leave, BreakStops, Millisecond, Arrive, Called, FromPort2, fifos, lines
  <2>2. Waiting' = Waiting
    BY <1>7 DEF Leave, BreakStops, Millisecond, Arrive, Called, FromPort2, Waiting
  <2> QED
    BY <1>0, <1>1, <2>1, <2>2
<1> QED
  BY <1>3, <1>4, <1>5, <1>6, <1>7 DEF PtNext, Loop, Ports

(* The invariant holds always, and the properties follow from it.          *)
LEMMA PtInitially ==
    ASSUME PtInit
    PROVE  PtIInv
<1>1. PtTypes /\ NoneOnPort2 /\ FlagInWait
  BY DEF PtInit, PtTypes, NoneOnPort2, FlagInWait, Ports
<1>2. ASSUME NEW p \in Ports PROVE Route(p)
  <2>1. /\ pt_out[Other(p)] = << >> /\ pt_tx[Other(p)] = << >> /\ pt_rx[p] = << >>
        /\ pt_sent[p] = 0 /\ pt_lost[p] = {}
    BY OtherPort DEF PtInit
  <2>2. (<< >> \o << >>) \o << >> = << >> /\ << >> \o << >> = << >>
    OBVIOUS
  <2>3. Path(<< >>, << >>, << >>, 0, {})
    BY <2>2 DEF Path, InOrder
  <2> QED
    BY <2>1, <2>3 DEF Route
<1>3. BreaksOwed
  <2>1. pt_rx[1] = << >> /\ pt_breaks = 0 /\ pt_returns = 0 /\ pt_pc = "idle"
    BY DEF PtInit, Ports
  <2>2. BreaksIn(<< >>) = {}
    BY DEF BreaksIn
  <2>3. Cardinality({}) = 0
    BY FS_EmptySet
  <2>4. Cardinality(BreaksIn(pt_rx[1])) = 0 /\ Waiting = 0
    BY <2>1, <2>2, <2>3 DEF Waiting
  <2> QED
    BY <2>1, <2>4 DEF BreaksOwed
<1> QED
  BY <1>1, <1>2, <1>3 DEF PtIInv

LEMMA PtInvariance == PtSpec => []PtIInv
<1>1. PtInit => PtIInv
  BY PtInitially
<1>2. PtIInv /\ [PtNext]_pt_vars => PtIInv'
  <2> SUFFICES ASSUME PtIInv, [PtNext]_pt_vars PROVE PtIInv'
    OBVIOUS
  <2>1. CASE PtNext
    BY <2>1, PtTypesStep, RoutesStep, NoneOnPort2Step, FlagStep, BreaksStep DEF PtIInv
  <2>2. CASE UNCHANGED pt_vars
    <3>1. UNCHANGED <<pt_pc, pt_rx, pt_tx, pt_lost, pt_flag, pt_sent, pt_out, pt_breaks,
                      pt_returns>>
      BY <2>2 DEF pt_vars, fifos, lines
    <3> QED
      BY <3>1 DEF PtIInv, PtTypes, Route, Path, NoneOnPort2, FlagInWait, BreaksOwed, Waiting
  <2> QED
    BY <2>1, <2>2
<1> QED
  BY <1>1, <1>2, PTL DEF PtSpec

LEMMA PathForwards ==
    ASSUME NEW a \in Seq(Nat), NEW b \in Seq(Nat), NEW c \in Seq(Nat), NEW n \in Nat, NEW lost,
           Path(a, b, c, n, lost)
    PROVE  LET passed == a \o b
               all == passed \o c
               places == {k \in DOMAIN all : all[k] # BREAK}
           IN  /\ \A j, k \in places : j < k => all[j] < all[k]
               /\ {all[k] : k \in places} = (1 .. n) \ lost
               /\ DOMAIN passed \subseteq places
<1> DEFINE s == a \o b
           u == s \o c
           places == {k \in DOMAIN u : u[k] # BREAK}
<1>1. /\ DOMAIN s = 1 .. Len(s) /\ DOMAIN u = 1 .. Len(s) + Len(c) /\ Len(s) \in Nat
      /\ Len(c) \in Nat
      /\ \A i \in 1 .. Len(s) + Len(c) : u[i] = IF i <= Len(s) THEN s[i] ELSE c[i - Len(s)]
  BY Joined, LenProperties
<1>2. InOrder(u, n, lost) /\ \A k \in DOMAIN s : s[k] # BREAK
  BY DEF Path
<1> HIDE DEF u, s
<1>3. DOMAIN s \subseteq places
  BY <1>1, <1>2
<1>4. \A j, k \in places : j < k => u[j] < u[k]
  BY <1>2 DEF InOrder
<1>5. {u[k] : k \in places} = (1 .. n) \ lost
  <2>1. ASSUME NEW d \in (1 .. n) \ lost PROVE d \in {u[k] : k \in places}
    <3>1. PICK k \in DOMAIN u : u[k] = d
      BY <1>2 DEF InOrder
    <3>2. d # BREAK
      BY DEF BREAK
    <3> QED
      BY <3>1, <3>2
  <2>2. \A k \in places : u[k] \in (1 .. n) \ lost
    BY <1>2 DEF InOrder
  <2> QED
    BY <2>1, <2>2
<1> QED
  BY <1>3, <1>4, <1>5 DEF u, s

(* What is received on one port is sent on the other, for every depth of   *)
(* the FIFOs: in order, once, nothing invented and no break's character,   *)
(* and what is missing met a full FIFO.                                    *)
THEOREM CharactersForwarded == PtSpec => []PtForwards
<1>1. PtIInv => PtForwards
  <2> SUFFICES ASSUME PtIInv PROVE PtForwards
    OBVIOUS
  <2>1. ASSUME NEW p \in Ports
        PROVE  /\ pt_out[Other(p)] \in Seq(Nat) /\ pt_tx[Other(p)] \in Seq(Nat)
               /\ pt_rx[p] \in Seq(Nat) /\ pt_sent[p] \in Nat
               /\ Path(pt_out[Other(p)], pt_tx[Other(p)], pt_rx[p], pt_sent[p], pt_lost[p])
    BY OtherPort, PortParts
  <2> QED
    BY <2>1, PathForwards DEF PtForwards
<1> QED
  BY <1>1, PtInvariance, PTL

(* Every return from uart_passthrough is owed to a break of its own,       *)
(* however long the breaks last and whenever they come.                    *)
THEOREM OneBreakEach == PtSpec => []PtOneBreakEach
<1>1. PtIInv => PtOneBreakEach
  <2> SUFFICES ASSUME PtIInv PROVE PtOneBreakEach
    OBVIOUS
  <2>1. pt_rx[1] \in Seq(Nat)
    BY DEF PtIInv, PtTypes, Ports
  <2>2. Cardinality(BreaksIn(pt_rx[1])) \in Nat /\ Waiting \in {0, 1}
    BY <2>1, BreaksFinite DEF Waiting
  <2> QED
    BY <2>2 DEF PtIInv, BreaksOwed, PtOneBreakEach
<1> QED
  BY <1>1, PtInvariance, PTL

------------------------------------------------------------------------------
(* Pins.  The tables' entries, and what the set-up keeps: a pin that has a *)
(* function is assigned, once.                                             *)
Listed == UNION {{t[k] : k \in DOMAIN t} : t \in Tables}
Entries == {<<e[1], e[2]>> : e \in Listed}

SetupInv ==
    /\ pn_todo \in Seq(Listed) /\ pn_given \in Seq(Entries)
    /\ \A k \in DOMAIN pn_given : pn_given[k][1] \in pn_assigned
    /\ PnGivenOnce

LEMMA SetupStep ==
    ASSUME SetupInv, PnNext
    PROVE  SetupInv'
<1>1. ASSUME NEW table \in Tables, pin_setup(table) PROVE SetupInv'
  <2>1. {table[k] : k \in DOMAIN table} \subseteq Listed
    BY DEF Listed
  <2>2. table \in Seq({table[k] : k \in DOMAIN table})
    BY PinsAssumption
  <2>3. table \in Seq(Listed)
    BY <2>1, <2>2, SeqMonotonic
  <2> QED
    BY <1>1, <2>3 DEF pin_setup, SetupInv, PnGivenOnce
<1>2. CASE pin_configure
  <2> DEFINE pin == Head(pn_todo)[1]
             type == Head(pn_todo)[2]
             given == Append(pn_given, <<pin, type>>)
  <2>1. /\ pn_todo # << >> /\ pn_todo \in Seq(Listed)
        /\ Head(pn_todo) \in Listed /\ Tail(pn_todo) \in Seq(Listed)
    BY <1>2, HeadTailProperties DEF pin_configure, SetupInv
  <2>2. <<pin, type>> \in Entries /\ <<pin, type>>[1] = pin
    BY <2>1 DEF Entries
  <2> DEFINE allowed == pin \notin BadPins \cup JtagPins /\ Free(pin, type)
  <2>3. CASE ~(allowed /\ type \in Types)
    <3>1. /\ UNCHANGED <<pn_given, pn_todo>> /\ pn_assigned \subseteq pn_assigned'
          /\ pn_unlocked \subseteq pn_unlocked'
      BY <1>2, <2>3 DEF pin_configure
    <3> QED
      BY <3>1 DEF SetupInv, PnGivenOnce
  <2>4. CASE allowed /\ type \in Types
    <3>1. /\ pn_assigned' = pn_assigned \cup {pin} /\ pn_given' = given /\ pn_todo' = Tail(pn_todo)
          /\ pn_unlocked' = IF pin \in NmiPins THEN pn_unlocked \cup {pin} ELSE pn_unlocked
      <4>1. {p \in {pin} \cap NmiPins : allowed} = IF pin \in NmiPins THEN {pin} ELSE {}
        BY <2>4
      <4> QED
        BY <1>2, <2>4, <4>1 DEF pin_configure
    <3>2. pin \notin pn_assigned /\ pin \notin JtagPins
      BY <2>4 DEF Free
    <3>3. /\ DOMAIN pn_given = 1 .. Len(pn_given) /\ DOMAIN given = 1 .. Len(given)
          /\ Len(pn_given) \in Nat /\ Len(given) = Len(pn_given) + 1 /\ given \in Seq(Entries)
          /\ \A k \in 1 .. Len(pn_given) : given[k] = pn_given[k]
          /\ given[Len(pn_given) + 1] = <<pin, type>>
      BY <2>2, AppendProperties, LenProperties DEF SetupInv
    <3>4. given[Len(pn_given) + 1][1] = pin
      BY <2>2, <3>3
    <3>5. PICK len \in Nat : len = Len(pn_given)
      BY <3>3
    <3> HIDE DEF given, pin, type
    <3>6. /\ DOMAIN pn_given = 1 .. len /\ DOMAIN given = 1 .. len + 1
          /\ (\A k \in 1 .. len : given[k] = pn_given[k]) /\ given[len + 1][1] = pin
      BY <3>3, <3>4, <3>5
    <3>7. \A k \in 1 .. len : /\ pn_given[k][1] \in pn_assigned /\ pn_given[k][1] \notin JtagPins
                              /\ pn_given[k][1] \in NmiPins => pn_given[k][1] \in pn_unlocked
      BY <3>6 DEF SetupInv, PnGivenOnce
    <3>8. \A k \in 1 .. len + 1 : k \in 1 .. len \/ k = len + 1
      OBVIOUS
    <3>9. \A k \in DOMAIN given : given[k][1] \in pn_assigned \cup {pin}
      BY <3>6, <3>7, <3>8
    <3>10. \A j, k \in DOMAIN given : given[j][1] = given[k][1] => j = k
      <4>1. \A j, k \in 1 .. len : given[j][1] = given[k][1] => j = k
        BY <3>6 DEF SetupInv, PnGivenOnce
      <4>2. \A k \in 1 .. len : given[k][1] # given[len + 1][1]
        BY <3>2, <3>6, <3>7
      <4> QED
        BY <3>6, <3>8, <4>1, <4>2
    <3>11. \A k \in DOMAIN given : /\ given[k][1] \notin JtagPins
                                   /\ given[k][1] \in NmiPins => given[k][1] \in pn_unlocked'
      BY <3>1, <3>2, <3>6, <3>7, <3>8
    <3> QED
      BY <2>1, <3>1, <3>3, <3>9, <3>10, <3>11 DEF SetupInv, PnGivenOnce
  <2> QED
    BY <2>3, <2>4
<1>3. CASE UNCHANGED setup_vars
  BY <1>3 DEF setup_vars, SetupInv, PnGivenOnce
<1>4. ASSUME led_set \/ led_get \/ pin_invert \/ Access \/ Interrupt PROVE UNCHANGED setup_vars
  BY <1>4 DEF led_set, led_get, pin_invert, Begin, Access, Interrupt
<1> QED
  BY <1>1, <1>2, <1>3, <1>4 DEF PnNext

(* No pin is given a function twice, no JTAG pin is touched and no locked  *)
(* one configured, for every set of tables in whatever order they are set  *)
(* up.                                                                     *)
THEOREM PinsGivenOnce == PnSpec => []PnGivenOnce
<1>1. PnInit => SetupInv
  BY DEF PnInit, SetupInv, PnGivenOnce
<1>2. SetupInv /\ [PnNext]_pn_vars => SetupInv'
  <2> SUFFICES ASSUME SetupInv, [PnNext]_pn_vars PROVE SetupInv'
    OBVIOUS
  <2>1. CASE UNCHANGED pn_vars
    BY <2>1 DEF pn_vars, setup_vars, SetupInv, PnGivenOnce
  <2> QED
    BY <2>1, SetupStep
<1>3. SetupInv => PnGivenOnce
  BY DEF SetupInv
<1> QED
  BY <1>1, <1>2, <1>3, PTL DEF PnSpec

(* How far a call has come: what is left of it, the pins it has written    *)
(* and those it has read.                                                  *)
AtStage(do, arg, todo, done, read) ==
    \/ do = "none" /\ todo = << >> /\ done = {} /\ read = {}
    \/ /\ do = "led_set" /\ arg \subseteq Leds /\ read = {}
       /\ \/ /\ todo = << <<"write", "red">>, <<"write", "blue">>, <<"write", "green">> >>
             /\ done = {}
          \/ todo = << <<"write", "blue">>, <<"write", "green">> >> /\ done = {"red"}
          \/ todo = << <<"write", "green">> >> /\ done = {"red", "blue"}
          \/ todo = << >> /\ done = Leds
    \/ /\ do = "led_get" /\ done = {}
       /\ \/ /\ todo = << <<"read", "red">>, <<"read", "green">>, <<"read", "blue">> >>
             /\ read = {}
          \/ todo = << <<"read", "green">>, <<"read", "blue">> >> /\ read = {"red"}
          \/ todo = << <<"read", "blue">> >> /\ read = {"red", "green"}
          \/ todo = << >> /\ read = Leds
    \/ /\ do = "pin_invert"
       /\ \E pin \in PortPins :
            /\ arg = {pin}
            /\ \/ todo = << <<"read", pin>>, <<"write", pin>> >> /\ done = {} /\ read = {}
               \/ todo = << <<"write", pin>> >> /\ done = {} /\ read = {pin}
               \/ todo = << >> /\ done = {pin} /\ read = {pin}

(* What a call means for a pin it writes.                                  *)
Meant(do, arg, before) == IF do = "pin_invert" THEN arg \ before ELSE arg

(* Of the pins the handler has not touched, those the call has not written *)
(* are as before it, those it has read were read so, and those it has      *)
(* written are as it means; those it has not written are as the handler    *)
(* alone leaves them.                                                      *)
Undisturbed(done, read) ==
    /\ \A pin \in PortPins : pin \notin done /\ pin \notin pn_call.met =>
          (pin \in pn_high <=> pin \in pn_call.before)
    /\ \A pin \in PortPins : pin \notin done => (pin \in pn_high <=> pin \in pn_alone)
    /\ pn_call.got \subseteq read
    /\ \A pin \in PortPins : pin \in read /\ pin \notin pn_call.met =>
          (pin \in pn_call.got <=> pin \in pn_call.before)
    /\ \A pin \in PortPins : pin \in done /\ pin \notin pn_call.met =>
          (pin \in pn_high <=> pin \in Meant(pn_call.do, pn_call.arg, pn_call.before))

Calls == {"none", "led_set", "led_get", "pin_invert"}
CallType ==
    pn_call \in [do : Calls, arg : SUBSET PortPins, todo : Seq({"read", "write"} \X PortPins),
                 got : SUBSET PortPins, before : SUBSET PortPins, met : SUBSET PortPins]
CallInv ==
    /\ CallType /\ pn_high \subseteq PortPins
    /\ \E done, read \in SUBSET PortPins :
          /\ AtStage(pn_call.do, pn_call.arg, pn_call.todo, done, read)
          /\ Undisturbed(done, read)

LEMMA ShortSequences ==
    ASSUME NEW a, NEW b, NEW c
    PROVE  /\ <<a>> # << >> /\ Head(<<a>>) = a /\ Tail(<<a>>) = << >>
           /\ <<a, b>> # << >> /\ Head(<<a, b>>) = a /\ Tail(<<a, b>>) = <<b>>
           /\ <<a, b, c>> # << >> /\ Head(<<a, b, c>>) = a /\ Tail(<<a, b, c>>) = <<b, c>>
OBVIOUS

LEMMA Pair ==
    ASSUME NEW S, NEW a \in S, NEW b \in S
    PROVE  <<a>> \o <<b>> = <<a, b>>
<1>1. <<a>> \in Seq(S)
  OBVIOUS
<1>2. Append(<<a>>, b) = <<a>> \o <<b>>
  BY <1>1, AppendIsConcat
<1>3. Append(<<a>>, b) = <<a, b>>
  <2>1. <<a, b>> \in Seq(S) /\ Len(<<a, b>>) = 2 /\ Len(<<a>>) = 1
    OBVIOUS
  <2>2. Append(<<a>>, b) \in Seq(S) /\ Len(Append(<<a>>, b)) = 2
        /\ Append(<<a>>, b)[1] = a /\ Append(<<a>>, b)[2] = b
    BY <1>1, <2>1, AppendProperties
  <2>3. \A i \in 1 .. 2 : Append(<<a>>, b)[i] = <<a, b>>[i]
    BY <2>2
  <2> QED
    BY <2>1, <2>2, <2>3, SeqEqual
<1> QED
  BY <1>2, <1>3

(* An access takes a call one stage further.                               *)
ReadsOne(do, arg, todo, done, read) ==
    \E pin \in PortPins :
       /\ Head(todo) = <<"read", pin>> /\ pin \notin done /\ pin \notin read
       /\ AtStage(do, arg, Tail(todo), done, read \cup {pin})
WritesOne(do, arg, todo, done, read) ==
    \E pin \in PortPins :
       /\ Head(todo) = <<"write", pin>> /\ pin \notin done
       /\ AtStage(do, arg, Tail(todo), done \cup {pin}, read)
       /\ do = "pin_invert" => arg = {pin} /\ pin \in read

LEMMA NextStage ==
    ASSUME NEW do, NEW arg, NEW todo, NEW done, NEW read,
           AtStage(do, arg, todo, done, read), todo # << >>
    PROVE  ReadsOne(do, arg, todo, done, read) \/ WritesOne(do, arg, todo, done, read)
<1>0. "red" \in PortPins /\ "blue" \in PortPins /\ "green" \in PortPins
  BY DEF PortPins, Leds
<1>1. CASE do = "led_set"
  <2>1. arg \subseteq Leds /\ read = {} /\ do # "pin_invert" /\ do # "led_get" /\ do # "none"
    BY <1>1 DEF AtStage
  <2>2. CASE todo = << <<"write", "red">>, <<"write", "blue">>, <<"write", "green">> >> /\ done = {}
    <3>1. /\ Head(todo) = <<"write", "red">>
          /\ Tail(todo) = << <<"write", "blue">>, <<"write", "green">> >>
      BY <2>2, ShortSequences
    <3> QED
      BY <1>0, <1>1, <2>1, <2>2, <3>1 DEF AtStage, WritesOne
  <2>3. CASE todo = << <<"write", "blue">>, <<"write", "green">> >> /\ done = {"red"}
    <3>1. Head(todo) = <<"write", "blue">> /\ Tail(todo) = << <<"write", "green">> >>
      BY <2>3, ShortSequences
    <3>2. done \cup {"blue"} = {"red", "blue"} /\ "blue" \notin done
      BY <2>3
    <3> QED
      BY <1>0, <1>1, <2>1, <2>3, <3>1, <3>2 DEF AtStage, WritesOne
  <2>4. CASE todo = << <<"write", "green">> >> /\ done = {"red", "blue"}
    <3>1. Head(todo) = <<"write", "green">> /\ Tail(todo) = << >>
      BY <2>4, ShortSequences
    <3>2. done \cup {"green"} = Leds /\ "green" \notin done
      BY <2>4 DEF Leds
    <3> QED
      BY <1>0, <1>1, <2>1, <2>4, <3>1, <3>2 DEF AtStage, WritesOne
  <2> QED
    BY <1>1, <2>1, <2>2, <2>3, <2>4 DEF AtStage
<1>2. CASE do = "led_get"
  <2>1. done = {} /\ do # "pin_invert" /\ do # "led_set" /\ do # "none"
    BY <1>2 DEF AtStage
  <2>2. CASE todo = << <<"read", "red">>, <<"read", "green">>, <<"read", "blue">> >> /\ read = {}
    <3>1. /\ Head(todo) = <<"read", "red">>
          /\ Tail(todo) = << <<"read", "green">>, <<"read", "blue">> >>
      BY <2>2, ShortSequences
    <3> QED
      BY <1>0, <1>2, <2>1, <2>2, <3>1 DEF AtStage, ReadsOne
  <2>3. CASE todo = << <<"read", "green">>, <<"read", "blue">> >> /\ read = {"red"}
    <3>1. Head(todo) = <<"read", "green">> /\ Tail(todo) = << <<"read", "blue">> >>
      BY <2>3, ShortSequences
    <3>2. read \cup {"green"} = {"red", "green"} /\ "green" \notin read
      BY <2>3
    <3> QED
      BY <1>0, <1>2, <2>1, <2>3, <3>1, <3>2 DEF AtStage, ReadsOne
  <2>4. CASE todo = << <<"read", "blue">> >> /\ read = {"red", "green"}
    <3>1. Head(todo) = <<"read", "blue">> /\ Tail(todo) = << >>
      BY <2>4, ShortSequences
    <3>2. read \cup {"blue"} = Leds /\ "blue" \notin read
      BY <2>4 DEF Leds
    <3> QED
      BY <1>0, <1>2, <2>1, <2>4, <3>1, <3>2 DEF AtStage, ReadsOne
  <2> QED
    BY <1>2, <2>1, <2>2, <2>3, <2>4 DEF AtStage
<1>3. CASE do = "pin_invert"
  <2>1. PICK pin \in PortPins :
            /\ arg = {pin}
            /\ \/ todo = << <<"read", pin>>, <<"write", pin>> >> /\ done = {} /\ read = {}
               \/ todo = << <<"write", pin>> >> /\ done = {} /\ read = {pin}
    BY <1>3 DEF AtStage
  <2>2. CASE todo = << <<"read", pin>>, <<"write", pin>> >> /\ done = {} /\ read = {}
    <3>1. Head(todo) = <<"read", pin>> /\ Tail(todo) = << <<"write", pin>> >>
      BY <2>2, ShortSequences
    <3>2. read \cup {pin} = {pin} /\ pin \notin done /\ pin \notin read
      BY <2>2
    <3>3. AtStage(do, arg, Tail(todo), done, read \cup {pin})
      BY <1>3, <2>1, <2>2, <3>1, <3>2 DEF AtStage
    <3> QED
      BY <3>1, <3>2, <3>3 DEF ReadsOne
  <2>3. CASE todo = << <<"write", pin>> >> /\ done = {} /\ read = {pin}
    <3>1. Head(todo) = <<"write", pin>> /\ Tail(todo) = << >>
      BY <2>3, ShortSequences
    <3>2. done \cup {pin} = {pin} /\ pin \notin done /\ pin \in read
      BY <2>3
    <3>3. AtStage(do, arg, Tail(todo), done \cup {pin}, read)
      BY <1>3, <2>1, <2>3, <3>1, <3>2 DEF AtStage
    <3> QED
      BY <2>1, <3>1, <3>2, <3>3 DEF WritesOne
  <2> QED
    BY <2>1, <2>2, <2>3
<1>4. do \in {"led_set", "led_get", "pin_invert"}
  BY DEF AtStage
<1> QED
  BY <1>1, <1>2, <1>3, <1>4

LEMMA LastStage ==
    ASSUME NEW do, NEW arg, NEW done, NEW read, AtStage(do, arg, << >>, done, read)
    PROVE  /\ do = "led_set" => done = Leds
           /\ do = "pin_invert" => done = arg
           /\ do \notin {"led_set", "pin_invert"} => done = {}
           /\ do = "led_get" => read = Leds
BY ShortSequences DEF AtStage

LEMMA BeginStep ==
    ASSUME CallInv, led_set \/ led_get \/ pin_invert
    PROVE  CallInv'
<1>0. "red" \in PortPins /\ "blue" \in PortPins /\ "green" \in PortPins
  BY DEF PortPins, Leds
<1>1. ASSUME NEW do \in Calls, NEW arg \in SUBSET PortPins,
             NEW todo \in Seq({"read", "write"} \X PortPins),
             Begin(do, arg, todo), AtStage(do, arg, todo, {}, {})
      PROVE  CallInv'
  <2>1. /\ pn_call' = [do |-> do, arg |-> arg, todo |-> todo, got |-> {},
                       before |-> pn_high, met |-> {}]
        /\ pn_alone' = pn_high /\ pn_high' = pn_high /\ pn_high \subseteq PortPins
    BY <1>1 DEF Begin, CallInv
  <2>2. CallType'
    BY <2>1 DEF CallType
  <2>3. AtStage(pn_call'.do, pn_call'.arg, pn_call'.todo, {}, {})
    BY <1>1, <2>1
  <2>4. pn_call'.before = pn_high /\ pn_call'.met = {}
    BY <2>1
  <2>5. Undisturbed({}, {})'
    BY <2>1, <2>4 DEF Undisturbed
  <2>6. {} \in SUBSET PortPins
    OBVIOUS
  <2> HIDE DEF AtStage, Undisturbed
  <2> QED
    BY <2>1, <2>2, <2>3, <2>5, <2>6 DEF CallInv
<1>2. CASE led_set
  <2>1. PICK color \in SUBSET Leds : Begin("led_set", color, Writes(led_set_order))
    BY <1>2 DEF led_set
  <2>2. Writes(led_set_order) = << <<"write", "red">>, <<"write", "blue">>, <<"write", "green">> >>
    BY DEF Writes, led_set_order
  <2>3. color \in SUBSET PortPins
    BY DEF PortPins
  <2>4. << <<"write", "red">>, <<"write", "blue">>, <<"write", "green">> >>
           \in Seq({"read", "write"} \X PortPins)
    BY <1>0
  <2>5. AtStage("led_set", color,
                << <<"write", "red">>, <<"write", "blue">>, <<"write", "green">> >>,
                {}, {})
    BY DEF AtStage
  <2>6. Begin("led_set", color, << <<"write", "red">>, <<"write", "blue">>, <<"write", "green">> >>)
    BY <2>1, <2>2
  <2>7. "led_set" \in Calls
    BY DEF Calls
  <2> QED
    BY <1>1, <2>3, <2>4, <2>5, <2>6, <2>7, Zenon
<1>3. CASE led_get
  <2>1. Begin("led_get", {}, Reads(<<"red", "green", "blue">>))
    BY <1>3 DEF led_get
  <2>2. Reads(<<"red", "green", "blue">>)
          = << <<"read", "red">>, <<"read", "green">>, <<"read", "blue">> >>
    BY DEF Reads
  <2>3. << <<"read", "red">>, <<"read", "green">>, <<"read", "blue">> >>
           \in Seq({"read", "write"} \X PortPins)
    BY <1>0
  <2>4. AtStage("led_get", {},
                << <<"read", "red">>, <<"read", "green">>, <<"read", "blue">> >>, {}, {})
    BY DEF AtStage
  <2>5. Begin("led_get", {}, << <<"read", "red">>, <<"read", "green">>, <<"read", "blue">> >>)
    BY <2>1, <2>2
  <2>6. "led_get" \in Calls /\ {} \in SUBSET PortPins
    BY DEF Calls
  <2> QED
    BY <1>1, <2>3, <2>4, <2>5, <2>6, Zenon
<1>4. CASE pin_invert
  <2>1. PICK pin \in PortPins : Begin("pin_invert", {pin}, pin_invert_order(pin))
    BY <1>4 DEF pin_invert
  <2>2. pin_invert_order(pin) = << <<"read", pin>>, <<"write", pin>> >>
    <3>1. Reads(<<pin>>) = << <<"read", pin>> >> /\ Writes(<<pin>>) = << <<"write", pin>> >>
      BY DEF Reads, Writes
    <3>2. << <<"read", pin>> >> \o << <<"write", pin>> >> = << <<"read", pin>>, <<"write", pin>> >>
      <4>1. /\ <<"read", pin>> \in {"read", "write"} \X PortPins
              /\ <<"write", pin>> \in {"read", "write"} \X PortPins
        OBVIOUS
      <4> QED
        BY <4>1, Pair
    <3> QED
      BY <3>1, <3>2 DEF pin_invert_order
  <2>3. << <<"read", pin>>, <<"write", pin>> >> \in Seq({"read", "write"} \X PortPins)
    OBVIOUS
  <2>4. AtStage("pin_invert", {pin}, << <<"read", pin>>, <<"write", pin>> >>, {}, {})
    BY DEF AtStage
  <2>5. Begin("pin_invert", {pin}, << <<"read", pin>>, <<"write", pin>> >>)
    BY <2>1, <2>2
  <2>6. "pin_invert" \in Calls /\ {pin} \in SUBSET PortPins
    BY DEF Calls
  <2> QED
    BY <1>1, <2>3, <2>4, <2>5, <2>6, Zenon
<1> QED
  BY <1>2, <1>3, <1>4

LEMMA AccessStep ==
    ASSUME CallInv, Access
    PROVE  CallInv'
<1> DEFINE todo == pn_call.todo
           rest == [pn_call EXCEPT !.todo = Tail(@)]
<1>1. CallType /\ pn_high \subseteq PortPins /\ todo # << >> /\ pn_alone' = pn_alone
  BY DEF CallInv, Access
<1>2. PICK done \in SUBSET PortPins, read \in SUBSET PortPins :
         AtStage(pn_call.do, pn_call.arg, todo, done, read) /\ Undisturbed(done, read)
  BY DEF CallInv
<1>3. /\ todo \in Seq({"read", "write"} \X PortPins)
      /\ Tail(todo) \in Seq({"read", "write"} \X PortPins)
  <2>1. todo \in Seq({"read", "write"} \X PortPins)
    BY <1>1 DEF CallType
  <2> HIDE DEF todo
  <2> QED
    BY <1>1, <2>1, HeadTailProperties
<1>4. /\ rest.do = pn_call.do /\ rest.arg = pn_call.arg /\ rest.todo = Tail(todo)
      /\ rest.got = pn_call.got /\ rest.before = pn_call.before /\ rest.met = pn_call.met
      /\ rest \in [do : Calls, arg : SUBSET PortPins, todo : Seq({"read", "write"} \X PortPins),
                   got : SUBSET PortPins, before : SUBSET PortPins, met : SUBSET PortPins]
  BY <1>1, <1>3 DEF CallType
<1>5. CASE ReadsOne(pn_call.do, pn_call.arg, todo, done, read)
  <2>1. PICK pin \in PortPins :
           /\ Head(todo) = <<"read", pin>>
           /\ pin \notin done /\ pin \notin read
           /\ AtStage(pn_call.do, pn_call.arg, Tail(todo), done, read \cup {pin})
    BY <1>5 DEF ReadsOne
  <2>2. Head(todo)[1] = "read" /\ Head(todo)[2] = pin
    BY <2>1
  <2>3. /\ pn_call' = [rest EXCEPT !.got = IF pin \in pn_high THEN @ \cup {pin} ELSE @]
        /\ pn_high' = pn_high
    BY <2>2 DEF Access
  <2> HIDE DEF rest, todo
  <2>4. /\ pn_call'.do = pn_call.do /\ pn_call'.arg = pn_call.arg /\ pn_call'.todo = Tail(todo)
        /\ pn_call'.got = (IF pin \in pn_high THEN pn_call.got \cup {pin} ELSE pn_call.got)
        /\ pn_call'.before = pn_call.before /\ pn_call'.met = pn_call.met
    BY <1>4, <2>3
  <2>5. CallType'
    <3>1. (IF pin \in pn_high THEN rest.got \cup {pin} ELSE rest.got) \in SUBSET PortPins
      BY <1>4
    <3> QED
      BY <1>4, <2>3, <3>1 DEF CallType
  <2>6. AtStage(pn_call'.do, pn_call'.arg, pn_call'.todo, done, read \cup {pin})
    BY <2>1, <2>4
  <2>7. \A q \in PortPins : q \in read \cup {pin} /\ q \notin pn_call'.met =>
           (q \in pn_call'.got <=> q \in pn_call'.before)
    <3>1. ASSUME NEW q \in PortPins, q \notin pn_call.met, q \in read \cup {pin}
          PROVE  q \in pn_call'.got <=> q \in pn_call.before
      <4>1. CASE q = pin /\ pin \in pn_high
        BY <1>2, <2>1, <2>4, <3>1, <4>1 DEF Undisturbed
      <4>2. CASE q = pin /\ pin \notin pn_high
        <5>1. pin \notin pn_call.before
          BY <1>2, <2>1, <3>1, <4>2 DEF Undisturbed
        <5>2. pin \notin pn_call.got
          BY <1>2, <2>1 DEF Undisturbed
        <5> QED
          BY <2>4, <4>2, <5>1, <5>2
      <4>3. CASE q # pin
        BY <1>2, <2>4, <3>1, <4>3 DEF Undisturbed
      <4> QED
        BY <4>1, <4>2, <4>3
    <3> QED
      BY <2>4, <3>1
  <2>8. Undisturbed(done, read \cup {pin})'
    <3>1. pn_call'.got \subseteq read \cup {pin}
      BY <1>2, <2>4 DEF Undisturbed
    <3> QED
      BY <1>1, <1>2, <2>3, <2>4, <2>7, <3>1 DEF Undisturbed
  <2>9. read \cup {pin} \in SUBSET PortPins
    OBVIOUS
  <2> QED
    BY <1>1, <2>3, <2>5, <2>6, <2>8, <2>9 DEF CallInv
<1>6. CASE WritesOne(pn_call.do, pn_call.arg, todo, done, read)
  <2>1. PICK pin \in PortPins :
           /\ Head(todo) = <<"write", pin>>
           /\ pin \notin done
           /\ AtStage(pn_call.do, pn_call.arg, Tail(todo), done \cup {pin}, read)
           /\ pn_call.do = "pin_invert" => pn_call.arg = {pin} /\ pin \in read
    BY <1>6 DEF WritesOne
  <2>2. Head(todo)[1] = "write" /\ Head(todo)[2] = pin
    BY <2>1
  <2>3. pn_call' = rest /\ pn_high' = Store(pn_high, pin, Level(pin))
    BY <2>2 DEF Access
  <2> HIDE DEF rest, todo
  <2>4. /\ pn_call'.do = pn_call.do /\ pn_call'.arg = pn_call.arg /\ pn_call'.todo = Tail(todo)
        /\ pn_call'.got = pn_call.got
        /\ pn_call'.before = pn_call.before /\ pn_call'.met = pn_call.met
    BY <1>4, <2>3
  <2>5. CallType' /\ pn_high' \subseteq PortPins
    BY <1>1, <1>4, <2>3 DEF CallType, Store
  <2>6. AtStage(pn_call'.do, pn_call'.arg, pn_call'.todo, done \cup {pin}, read)
    BY <2>1, <2>4
  <2>7. \A q \in PortPins : q # pin => (q \in pn_high' <=> q \in pn_high)
    BY <2>3 DEF Store
  <2>8. pin \notin pn_call.met =>
           (pin \in pn_high' <=> pin \in Meant(pn_call.do, pn_call.arg, pn_call.before))
    <3>1. pin \in pn_high' <=> Level(pin)
      BY <2>3 DEF Store
    <3>2. CASE pn_call.do = "pin_invert"
      <4>1. Level(pin) <=> pin \notin pn_call.got
        BY <3>2 DEF Level
      <4>2. pin \notin pn_call.met => (pin \in pn_call.got <=> pin \in pn_call.before)
        BY <1>2, <2>1, <3>2 DEF Undisturbed
      <4>3. Meant(pn_call.do, pn_call.arg, pn_call.before) = {pin} \ pn_call.before
        BY <2>1, <3>2 DEF Meant
      <4> QED
        BY <3>1, <4>1, <4>2, <4>3
    <3>3. CASE pn_call.do # "pin_invert"
      BY <3>1, <3>3 DEF Level, Meant
    <3> QED
      BY <3>2, <3>3
  <2>9. Undisturbed(done \cup {pin}, read)'
    <3>1. ASSUME NEW q \in PortPins, q \notin done \cup {pin}
          PROVE  /\ q \notin pn_call'.met => (q \in pn_high' <=> q \in pn_call'.before)
                 /\ q \in pn_high' <=> q \in pn_alone'
      BY <1>1, <1>2, <2>4, <2>7, <3>1 DEF Undisturbed
    <3>2. ASSUME NEW q \in PortPins, q \in read, q \notin pn_call'.met
          PROVE  q \in pn_call'.got <=> q \in pn_call'.before
      BY <1>2, <2>4, <3>2 DEF Undisturbed
    <3>3. ASSUME NEW q \in PortPins, q \in done \cup {pin}, q \notin pn_call'.met
          PROVE  q \in pn_high' <=> q \in Meant(pn_call'.do, pn_call'.arg, pn_call'.before)
      <4>1. CASE q = pin
        BY <2>4, <2>8, <3>3, <4>1
      <4>2. CASE q # pin
        BY <1>2, <2>4, <2>7, <3>3, <4>2 DEF Undisturbed
      <4> QED
        BY <4>1, <4>2
    <3> QED
      BY <1>2, <2>4, <3>1, <3>2, <3>3 DEF Undisturbed
  <2>10. done \cup {pin} \in SUBSET PortPins
    OBVIOUS
  <2> QED
    BY <2>5, <2>6, <2>9, <2>10 DEF CallInv
<1>7. AtStage(pn_call.do, pn_call.arg, todo, done, read) /\ todo # << >>
  BY <1>1, <1>2
<1> HIDE DEF todo, rest
<1> QED
  BY <1>5, <1>6, <1>7, NextStage

(* The handler writes the same to the port and to the port it has alone.   *)
LEMMA InterruptStep ==
    ASSUME CallInv, Interrupt
    PROVE  CallInv'
<1>1. ASSUME NEW touched \in SUBSET PortPins,
             pn_call' = [pn_call EXCEPT !.met = @ \cup touched], pn_high' \subseteq PortPins,
             \A pin \in PortPins : pin \notin touched =>
                /\ pin \in pn_high' <=> pin \in pn_high
                /\ pin \in pn_alone' <=> pin \in pn_alone,
             \A pin \in touched : pin \in pn_high' <=> pin \in pn_alone'
      PROVE  CallInv'
  <2>1. PICK done \in SUBSET PortPins, read \in SUBSET PortPins :
           AtStage(pn_call.do, pn_call.arg, pn_call.todo, done, read) /\ Undisturbed(done, read)
    BY DEF CallInv
  <2>2. CallType
    BY DEF CallInv
  <2>3. /\ pn_call'.do = pn_call.do /\ pn_call'.arg = pn_call.arg /\ pn_call'.todo = pn_call.todo
        /\ pn_call'.got = pn_call.got /\ pn_call'.before = pn_call.before
        /\ pn_call'.met = pn_call.met \cup touched /\ CallType'
    BY <1>1, <2>2 DEF CallType
  <2>4. Undisturbed(done, read)'
    <3>1. ASSUME NEW q \in PortPins, q \notin done
          PROVE  /\ q \notin pn_call'.met => (q \in pn_high' <=> q \in pn_call'.before)
                 /\ q \in pn_high' <=> q \in pn_alone'
      <4>1. CASE q \in touched
        BY <1>1, <2>3, <4>1
      <4>2. CASE q \notin touched
        <5>1. (q \in pn_high' <=> q \in pn_high) /\ (q \in pn_alone' <=> q \in pn_alone)
          BY <1>1, <4>2
        <5>2. /\ q \notin pn_call.met => (q \in pn_high <=> q \in pn_call.before)
              /\ q \in pn_high <=> q \in pn_alone
          BY <2>1, <3>1 DEF Undisturbed
        <5> QED
          BY <2>3, <5>1, <5>2
      <4> QED
        BY <4>1, <4>2
    <3>2. ASSUME NEW q \in PortPins, q \in read, q \notin pn_call'.met
          PROVE  q \in pn_call'.got <=> q \in pn_call'.before
      BY <2>1, <2>3, <3>2 DEF Undisturbed
    <3>3. ASSUME NEW q \in PortPins, q \in done, q \notin pn_call'.met
          PROVE  q \in pn_high' <=> q \in Meant(pn_call'.do, pn_call'.arg, pn_call'.before)
      <4>1. q \notin touched /\ q \notin pn_call.met
        BY <2>3, <3>3
      <4>2. q \in pn_high' <=> q \in pn_high
        BY <1>1, <4>1
      <4>3. q \in pn_high <=> q \in Meant(pn_call.do, pn_call.arg, pn_call.before)
        BY <2>1, <3>3, <4>1 DEF Undisturbed
      <4> QED
        BY <2>3, <4>2, <4>3
    <3> QED
      BY <2>1, <2>3, <3>1, <3>2, <3>3 DEF Undisturbed
  <2>5. AtStage(pn_call'.do, pn_call'.arg, pn_call'.todo, done, read)
    BY <2>1, <2>3
  <2> QED
    BY <1>1, <2>3, <2>4, <2>5 DEF CallInv
<1>2. pn_high \subseteq PortPins /\ Leds \subseteq PortPins
  BY DEF CallInv, PortPins
<1>3. ASSUME NEW port, NEW color \in SUBSET Leds, NEW pin
      PROVE  pin \in StoreAll(port, color) <=> IF pin \in Leds THEN pin \in color ELSE pin \in port
  BY DEF StoreAll, Store, Leds
<1>4. ASSUME NEW color \in SUBSET Leds, pn_high' = StoreAll(pn_high, color),
             pn_alone' = StoreAll(pn_alone, color), pn_call' = [pn_call EXCEPT !.met = @ \cup Leds]
      PROVE  CallInv'
  <2>1. pn_high' \subseteq PortPins
    BY <1>2, <1>3, <1>4
  <2>2. \A pin \in PortPins : pin \notin Leds =>
                                     /\ pin \in pn_high' <=> pin \in pn_high
                                     /\ pin \in pn_alone' <=> pin \in pn_alone
    BY <1>3, <1>4
  <2>3. \A pin \in Leds : pin \in pn_high' <=> pin \in pn_alone'
    BY <1>3, <1>4
  <2> QED
    BY <1>1, <1>2, <1>4, <2>1, <2>2, <2>3
<1>5. ASSUME NEW pin \in PortPins, pn_high' = Store(pn_high, pin, pin \notin pn_high),
             pn_alone' = Store(pn_alone, pin, pin \notin pn_high),
             pn_call' = [pn_call EXCEPT !.met = @ \cup {pin}]
      PROVE  CallInv'
  <2>1. pn_high' \subseteq PortPins
    BY <1>2, <1>5 DEF Store
  <2>2. \A q \in PortPins : q \notin {pin} =>
                                    /\ q \in pn_high' <=> q \in pn_high
                                    /\ q \in pn_alone' <=> q \in pn_alone
    BY <1>5 DEF Store
  <2>3. \A q \in {pin} : q \in pn_high' <=> q \in pn_alone'
    BY <1>5 DEF Store
  <2>4. {pin} \in SUBSET PortPins
    OBVIOUS
  <2> QED
    BY <1>1, <1>5, <2>1, <2>2, <2>3, <2>4
<1> QED
  BY <1>4, <1>5 DEF Interrupt

LEMMA CallInvariance == PnSpec => []CallInv
<1>1. PnInit => CallInv
  <2> SUFFICES ASSUME PnInit PROVE CallInv
    OBVIOUS
  <2>1. pn_call = NoCall /\ pn_high = {} /\ pn_alone = {}
    BY DEF PnInit
  <2>2. CallType
    <3>1. "none" \in Calls /\ << >> \in Seq({"read", "write"} \X PortPins) /\ {} \in SUBSET PortPins
      BY DEF Calls
    <3> QED
      BY <2>1, <3>1 DEF CallType, NoCall
  <2>3. AtStage(pn_call.do, pn_call.arg, pn_call.todo, {}, {})
    BY <2>1 DEF AtStage, NoCall
  <2>4. Undisturbed({}, {})
    BY <2>1 DEF Undisturbed, NoCall
  <2>5. {} \in SUBSET PortPins
    OBVIOUS
  <2> QED
    BY <2>1, <2>2, <2>3, <2>4, <2>5 DEF CallInv
<1>2. CallInv /\ [PnNext]_pn_vars => CallInv'
  <2> SUFFICES ASSUME CallInv, [PnNext]_pn_vars PROVE CallInv'
    OBVIOUS
  <2>1. CASE UNCHANGED <<pn_high, pn_call, pn_alone>>
    BY <2>1 DEF CallInv, CallType, Undisturbed
  <2>2. CASE (\E table \in Tables : pin_setup(table)) \/ pin_configure \/ UNCHANGED pn_vars
    <3>1. UNCHANGED <<pn_high, pn_call, pn_alone>>
      BY <2>2 DEF pin_setup, pin_configure, pn_vars, port_vars
    <3> QED
      BY <2>1, <3>1
  <2> QED
    BY <2>2, BeginStep, AccessStep, InterruptStep DEF PnNext
<1> QED
  BY <1>1, <1>2, PTL DEF PnSpec

(* A call and the handlers that meet it on no pin do not disturb each      *)
(* other, for every number of calls and wherever the handlers come.        *)
THEOREM CallsUndisturbed == PnSpec => []PnUndisturbed
<1>1. CallInv => PnUndisturbed
  <2> SUFFICES ASSUME CallInv PROVE PnUndisturbed
    OBVIOUS
  <2> DEFINE written == CASE pn_call.do = "led_set" -> Leds
                          [] pn_call.do = "pin_invert" -> pn_call.arg
                          [] OTHER -> {}
             meant == CASE pn_call.do = "pin_invert" -> pn_call.arg \ pn_call.before
                        [] OTHER -> pn_call.arg
  <2>1. SUFFICES ASSUME pn_call.todo = << >>
                 PROVE  /\ \A pin \in PortPins \ written : pin \in pn_high <=> pin \in pn_alone
                        /\ \A pin \in written \ pn_call.met : pin \in pn_high <=> pin \in meant
                        /\ pn_call.do = "led_get" =>
                              \A pin \in Leds \ pn_call.met :
                                 pin \in pn_call.got <=> pin \in pn_call.before
    BY DEF PnUndisturbed
  <2>2. PICK done \in SUBSET PortPins, read \in SUBSET PortPins :
           AtStage(pn_call.do, pn_call.arg, << >>, done, read) /\ Undisturbed(done, read)
    BY <2>1 DEF CallInv
  <2>3. done = written /\ (pn_call.do = "led_get" => read = Leds)
    BY <2>2, LastStage
  <2>4. meant = Meant(pn_call.do, pn_call.arg, pn_call.before)
    BY DEF Meant
  <2> HIDE DEF written, meant
  <2> QED
    BY <2>2, <2>3, <2>4 DEF Undisturbed
<1> QED
  BY <1>1, CallInvariance, PTL

------------------------------------------------------------------------------
(* Bytestream.                                                             *)

PrimTypes == {"u8", "u16", "u32", "i32", "f"}
FieldNames == {"value", "kp", "ki", "kd", "u_max", "u_min", "i_max", "i_min", "p_error",
               "i_error", "d_error", "reference", "measurement", "effort", "sequence",
               "missed", "before_ticks", "before_radians", "after_ticks", "after_radians",
               "x_ticks", "y_ticks", "z_ticks", "x_radians", "y_radians", "z_radians"}
Layouts == Seq(FieldNames \X PrimTypes)

LEMMA BsConstants ==
    /\ ByteMod \in Nat /\ ByteMod > 1 /\ Capacities \subseteq Nat
    /\ StringRoom \in Nat /\ MaxItems \in Nat
BY BytestreamAssumption

(* Quotient and remainder by the base, within their ranges.                *)
LEMMA BsShift ==
    ASSUME NEW u \in Nat, NEW m \in Nat, u < ByteMod * m
    PROVE  /\ u \div ByteMod \in Nat /\ u \div ByteMod < m
           /\ u % ByteMod \in Byte
           /\ u = (u \div ByteMod) * ByteMod + (u % ByteMod)
<1> DEFINE q == u \div ByteMod
           r == u % ByteMod
<1>1. r \in 0 .. ByteMod - 1 /\ q \in Int /\ u = ByteMod * q + r
  BY BsConstants, DivMod
<1> HIDE DEF q, r
<1>2. q > -1
  <2>1. ByteMod * (-1) < ByteMod * q
    BY <1>1, BsConstants
  <2> QED
    BY <1>1, <2>1, BsConstants, FactorLess
<1>3. q < m
  <2>1. ByteMod * q < ByteMod * m
    BY <1>1, BsConstants
  <2> QED
    BY <1>1, <2>1, BsConstants, FactorLess
<1>4. ByteMod * q = q * ByteMod
  BY <1>1, BsConstants
<1> QED
  BY <1>1, <1>2, <1>3, <1>4 DEF q, r, Byte

LEMMA BsModulus ==
    ASSUME NEW type \in PrimTypes
    PROVE  Modulus(type) \in Nat /\ Modulus(type) > 0
<1>1. ByteMod * ByteMod \in Nat /\ ByteMod * ByteMod > 0
  BY BsConstants
<1> DEFINE b2 == ByteMod * ByteMod
<1> HIDE DEF b2
<1>2. b2 * ByteMod \in Nat /\ b2 * ByteMod > 0
  BY <1>1, BsConstants DEF b2
<1> DEFINE b3 == b2 * ByteMod
<1> HIDE DEF b3
<1>3. b3 * ByteMod \in Nat /\ b3 * ByteMod > 0
  BY <1>2, BsConstants DEF b3
<1> QED
  BY <1>1, <1>3, BsConstants DEF Modulus, b2, b3, PrimTypes

(* The number whose bytes are written.                                     *)
LEMMA BsUnsigned ==
    ASSUME NEW type \in PrimTypes, NEW v \in Int, Representable(type, v)
    PROVE  LET u == v % Modulus(type)
           IN  /\ u \in 0 .. Modulus(type) - 1
               /\ v = IF type = "i32" /\ 2 * u >= Modulus(type)
                      THEN u - Modulus(type) ELSE u
<1> DEFINE M == Modulus(type)
           u == v % M
<1>1. M \in Nat /\ M > 0
  BY BsModulus
<1>2. Representable(type, v) <=>
        IF type = "i32" THEN -M <= 2 * v /\ 2 * v < M ELSE v \in 0 .. M - 1
  BY DEF Representable
<1> HIDE DEF M
<1>3. CASE v >= 0
  <2>1. v \in 0 .. M - 1 /\ v = M * 0 + v /\ 0 \in Int
    BY <1>1, <1>2, <1>3
  <2>2. u = v
    BY <1>1, <2>1, ModUnique
  <2> QED
    BY <1>1, <1>2, <2>1, <2>2 DEF M
<1>4. CASE v < 0
  <2> DEFINE r == v + M
  <2>1. type = "i32" /\ r \in 0 .. M - 1 /\ v = M * (-1) + r /\ -1 \in Int
    BY <1>1, <1>2, <1>4
  <2> HIDE DEF r
  <2>2. u = r
    BY <1>1, <2>1, ModUnique
  <2> QED
    BY <1>1, <1>2, <2>1, <2>2 DEF M, r
<1> QED
  BY <1>3, <1>4

(* Written and read back, most significant byte first, every value of a    *)
(* primitive type is itself again.                                         *)
LEMMA BsValueRoundTrip ==
    ASSUME NEW type \in PrimTypes, NEW v \in Int, Representable(type, v)
    PROVE  /\ Bytes(type, v) \in Seq(Byte) /\ Len(Bytes(type, v)) = WidthOf(type)
           /\ \A b : (\A i \in 1 .. WidthOf(type) : b[i] = Bytes(type, v)[i])
                         => Value(type, b) = v
<1> DEFINE B == ByteMod
           M == Modulus(type)
           u == v % M
           q1 == u \div B
           q2 == q1 \div B
           q3 == q2 \div B
<1>0. B \in Nat /\ B > 1
  BY BsConstants
<1>1. u \in 0 .. M - 1 /\ M \in Nat
      /\ v = IF type = "i32" /\ 2 * u >= M THEN u - M ELSE u
  BY BsUnsigned, BsModulus
<1>2. ASSUME NEW w, NEW b, w = CASE type = "u8" -> b[1]
               [] type = "u16" -> b[1] * ByteMod + b[2]
               [] OTHER -> ((b[1] * ByteMod + b[2]) * ByteMod + b[3]) * ByteMod + b[4],
               w = u
      PROVE  Value(type, b) = v
  BY <1>1, <1>2 DEF Value
<1> HIDE DEF u, M
<1>3. CASE type = "u8"
  <2>1. u \in Byte /\ WidthOf(type) = 1
    BY <1>0, <1>1, <1>3 DEF M, Modulus, Byte, WidthOf
  <2>2. Bytes(type, v) = <<u>>
    BY <1>3 DEF Bytes, u, M
  <2>3. ASSUME NEW b, \A i \in 1 .. WidthOf(type) : b[i] = Bytes(type, v)[i]
        PROVE  Value(type, b) = v
    <3>1. b[1] = u
      BY <2>1, <2>2, <2>3
    <3> QED
      BY <1>2, <1>3, <3>1
  <2> QED
    BY <2>1, <2>2, <2>3
<1>4. CASE type = "u16"
  <2>1. M = B * B /\ WidthOf(type) = 2
    BY <1>4 DEF M, Modulus, WidthOf
  <2>2. u \in Nat /\ u < B * B
    BY <1>1, <2>1
  <2>3. q1 \in Byte /\ u % B \in Byte /\ u = q1 * B + (u % B)
    <3>1. q1 \in Nat /\ q1 < B /\ u % B \in Byte /\ u = q1 * B + (u % B)
      BY <1>0, <2>2, BsShift
    <3> QED
      BY <1>0, <3>1 DEF Byte
  <2>4. Bytes(type, v) = <<q1, u % B>>
    BY <1>4 DEF Bytes, u, M
  <2> HIDE DEF q1
  <2>5. ASSUME NEW b, \A i \in 1 .. WidthOf(type) : b[i] = Bytes(type, v)[i]
        PROVE  Value(type, b) = v
    <3>1. b[1] = q1 /\ b[2] = u % B
      BY <2>1, <2>4, <2>5
    <3>2. b[1] * ByteMod + b[2] = u
      BY <2>3, <3>1
    <3> QED
      BY <1>2, <1>4, <3>2
  <2> QED
    BY <2>1, <2>3, <2>4, <2>5
<1>5. CASE type \notin {"u8", "u16"}
  <2>1. M = B * B * B * B /\ WidthOf(type) = 4
    BY <1>5 DEF M, Modulus, WidthOf
  <2> DEFINE b2 == B * B
             b3 == B * b2
  <2>2. b2 \in Nat /\ M = B * (B * b2)
    BY <1>0, <2>1
  <2> HIDE DEF b2
  <2>3. b3 \in Nat /\ M = B * b3
    BY <1>0, <2>2
  <2> HIDE DEF b3
  <2>4. u \in Nat /\ u < B * b3
    BY <1>1, <2>3
  <2>5. q1 \in Nat /\ q1 < b3 /\ u % B \in Byte /\ u = q1 * B + (u % B)
    BY <2>3, <2>4, BsShift
  <2>6. q1 < B * b2
    BY <2>5 DEF b3
  <2>7. Bytes(type, v) = <<q3, q2 % B, q1 % B, u % B>>
    BY <1>5 DEF Bytes, u, M
  <2> HIDE DEF q1
  <2>8. q2 \in Nat /\ q2 < b2 /\ q1 % B \in Byte /\ q1 = q2 * B + (q1 % B)
    BY <2>2, <2>5, <2>6, BsShift
  <2>9. q2 < B * B
    BY <2>8 DEF b2
  <2> HIDE DEF q2
  <2>10. q3 \in Nat /\ q3 < B /\ q2 % B \in Byte /\ q2 = q3 * B + (q2 % B)
    BY <1>0, <2>8, <2>9, BsShift
  <2> HIDE DEF q3
  <2>11. q3 \in Byte
    BY <1>0, <2>10 DEF Byte
  <2>12. ASSUME NEW b, \A i \in 1 .. WidthOf(type) : b[i] = Bytes(type, v)[i]
         PROVE  Value(type, b) = v
    <3>1. b[1] = q3 /\ b[2] = q2 % B /\ b[3] = q1 % B /\ b[4] = u % B
      BY <2>1, <2>7, <2>12
    <3>2. ((b[1] * ByteMod + b[2]) * ByteMod + b[3]) * ByteMod + b[4] = u
      BY <2>5, <2>8, <2>10, <3>1
    <3> QED
      BY <1>2, <1>5, <3>2
  <2> QED
    BY <2>1, <2>5, <2>7, <2>8, <2>10, <2>11, <2>12
<1> QED
  BY <1>3, <1>4, <1>5
------------------------------------------------------------------------------
(* The two functions of a structure agree on its fields.                   *)
LEMMA BsOrdersAgree == ExtractOrder = InjectOrder
BY DEF ExtractOrder, InjectOrder, pid_gains_inject, pid_gains_extract,
       pid_state_inject, pid_state_extract, pid_signals_inject, pid_signals_extract,
       pid_debug_info_inject, pid_debug_info_extract, encoder_joints_inject,
       encoder_joints_extract, encoder_gimbal_inject, encoder_gimbal_extract,
       led_color_inject, led_color_extract

LEMMA BsFloats ==
    ASSUME NEW names \in Seq(FieldNames)
    PROVE  Floats(names) \in Layouts /\ Len(Floats(names)) = Len(names)
BY DEF Floats, Layouts, PrimTypes

LEMMA BsField ==
    ASSUME NEW name \in FieldNames, NEW type \in PrimTypes
    PROVE  Field(name, type) \in Layouts /\ Len(Field(name, type)) = 1
BY DEF Field, Layouts

LEMMA BsJoined ==
    ASSUME NEW a \in Layouts, NEW b \in Layouts
    PROVE  a \o b \in Layouts /\ Len(a \o b) = Len(a) + Len(b)
BY ConcatProperties DEF Layouts

LEMMA BsLayouts ==
    ASSUME NEW kind \in DOMAIN InjectOrder
    PROVE  InjectOrder[kind] \in Layouts /\ Len(InjectOrder[kind]) > 0
<1> DEFINE Good(o) == o \in Layouts /\ Len(o) > 0
<1>1. ASSUME NEW name \in FieldNames, NEW type \in PrimTypes PROVE Good(Field(name, type))
  <2>1. Field(name, type) \in Layouts /\ Len(Field(name, type)) = 1
    BY <1>1, BsField, Zenon
  <2> QED
    BY <2>1
<1>2. ASSUME NEW a, NEW b, Good(a), Good(b) PROVE Good(a \o b)
  <2>1. Len(a) \in Nat /\ Len(b) \in Nat
    BY <1>2 DEF Layouts
  <2> QED
    BY <1>2, <2>1, BsJoined
<1>3. ASSUME NEW names \in Seq(FieldNames), Len(names) > 0 PROVE Good(Floats(names))
  BY <1>3, BsFloats
<1>4. Good(pid_gains_inject)
  <2> DEFINE names == <<"kp", "ki", "kd", "u_max", "u_min", "i_max", "i_min">>
  <2>1. names \in Seq(FieldNames) /\ Len(names) > 0
    BY DEF FieldNames
  <2> QED
    BY <1>3, <2>1 DEF pid_gains_inject
<1>5. Good(pid_state_inject)
  <2> DEFINE names == <<"p_error", "i_error", "d_error">>
  <2>1. names \in Seq(FieldNames) /\ Len(names) > 0
    BY DEF FieldNames
  <2> QED
    BY <1>3, <2>1 DEF pid_state_inject
<1>6. Good(pid_signals_inject)
  <2> DEFINE names == <<"reference", "measurement", "effort">>
  <2>1. names \in Seq(FieldNames) /\ Len(names) > 0
    BY DEF FieldNames
  <2> QED
    BY <1>3, <2>1 DEF pid_signals_inject
<1>7. Good(Floats(<<"x_radians", "y_radians", "z_radians">>))
  <2> DEFINE names == <<"x_radians", "y_radians", "z_radians">>
  <2>1. names \in Seq(FieldNames) /\ Len(names) > 0
    BY DEF FieldNames
  <2> QED
    BY <1>3, <2>1
<1>8. /\ Good(Field("value", "u8")) /\ Good(Field("value", "u16")) /\ Good(Field("value", "u32"))
      /\ Good(Field("value", "i32")) /\ Good(Field("value", "f"))
  BY <1>1 DEF FieldNames, PrimTypes
<1>9. Good(Field("sequence", "u8")) /\ Good(Field("missed", "u8"))
  BY <1>1 DEF FieldNames, PrimTypes
<1>10. /\ Good(Field("before_ticks", "i32")) /\ Good(Field("before_radians", "f"))
       /\ Good(Field("after_ticks", "i32")) /\ Good(Field("after_radians", "f"))
  BY <1>1 DEF FieldNames, PrimTypes
<1>11. Good(Field("x_ticks", "i32")) /\ Good(Field("y_ticks", "i32")) /\ Good(Field("z_ticks", "i32"))
  BY <1>1 DEF FieldNames, PrimTypes
<1> HIDE DEF Good
<1>12. Good(pid_debug_info_inject)
  <2>1. Good(pid_state_inject \o pid_signals_inject)
    BY <1>2, <1>5, <1>6
  <2>2. Good((pid_state_inject \o pid_signals_inject) \o Field("sequence", "u8"))
    BY <1>2, <1>9, <2>1
  <2>3. Good(((pid_state_inject \o pid_signals_inject) \o Field("sequence", "u8"))
                \o Field("missed", "u8"))
    BY <1>2, <1>9, <2>2
  <2> QED
    BY <2>3 DEF pid_debug_info_inject
<1>13. Good(encoder_joints_inject)
  <2>1. Good(Field("before_ticks", "i32") \o Field("before_radians", "f"))
    BY <1>2, <1>10
  <2>2. Good((Field("before_ticks", "i32") \o Field("before_radians", "f"))
                \o Field("after_ticks", "i32"))
    BY <1>2, <1>10, <2>1
  <2>3. Good(((Field("before_ticks", "i32") \o Field("before_radians", "f"))
                \o Field("after_ticks", "i32")) \o Field("after_radians", "f"))
    BY <1>2, <1>10, <2>2
  <2> QED
    BY <2>3 DEF encoder_joints_inject
<1>14. Good(encoder_gimbal_inject)
  <2>1. Good(Field("x_ticks", "i32") \o Field("y_ticks", "i32"))
    BY <1>2, <1>11
  <2>2. Good((Field("x_ticks", "i32") \o Field("y_ticks", "i32")) \o Field("z_ticks", "i32"))
    BY <1>2, <1>11, <2>1
  <2>3. Good(((Field("x_ticks", "i32") \o Field("y_ticks", "i32")) \o Field("z_ticks", "i32"))
                \o Floats(<<"x_radians", "y_radians", "z_radians">>))
    BY <1>2, <1>7, <2>2
  <2> QED
    BY <2>3 DEF encoder_gimbal_inject
<1>15. Good(led_color_inject)
  BY <1>8 DEF led_color_inject
<1>16. DOMAIN InjectOrder = {"u8", "u16", "u32", "i32", "f", "led_color", "pid_gains",
                             "pid_debug_info", "encoder_joints", "encoder_gimbal"}
  BY DEF InjectOrder
<1>17. CASE kind \in {"u8", "u16", "u32", "i32", "f"}
  <2>1. \E type \in PrimTypes : InjectOrder[kind] = Field("value", type)
    BY <1>17 DEF InjectOrder, PrimTypes
  <2>2. \A type \in PrimTypes : Good(Field("value", type))
    BY <1>8 DEF PrimTypes
  <2>3. Good(InjectOrder[kind])
    BY <2>1, <2>2
  <2> QED
    BY <2>3 DEF Good
<1>18. CASE kind \in {"led_color", "pid_gains", "pid_debug_info", "encoder_joints", "encoder_gimbal"}
  <2>1. InjectOrder[kind] \in {led_color_inject, pid_gains_inject, pid_debug_info_inject,
                               encoder_joints_inject, encoder_gimbal_inject}
    BY <1>18 DEF InjectOrder
  <2>2. Good(InjectOrder[kind])
    BY <1>4, <1>12, <1>13, <1>14, <1>15, <2>1
  <2> QED
    BY <2>2 DEF Good
<1> QED
  BY <1>16, <1>17, <1>18

(* Where the fields are: each begins where the one before it ends.         *)
BsBefore(order, k, types) == { j \in 1 .. k - 1 : order[j][2] \in types }

LEMMA BsBeforeNext ==
    ASSUME NEW order \in Layouts, NEW k \in Nat \ {0}, NEW types
    PROVE  /\ Cardinality(BsBefore(order, 1, types)) = 0
           /\ Cardinality(BsBefore(order, k, types)) \in Nat
           /\ Cardinality(BsBefore(order, k + 1, types)) =
                Cardinality(BsBefore(order, k, types))
                  + (IF order[k][2] \in types THEN 1 ELSE 0)
           /\ \A j \in 1 .. k : Cardinality(BsBefore(order, j, types))
                                   <= Cardinality(BsBefore(order, k, types))
<1> DEFINE S == BsBefore(order, k, types)
<1>1. IsFiniteSet(S) /\ Cardinality(S) \in Nat
  <2>1. IsFiniteSet(1 .. k - 1)
    BY FS_Interval
  <2>2. S \in SUBSET (1 .. k - 1)
    BY DEF BsBefore
  <2> QED
    BY <2>1, <2>2, FS_Subset, FS_CardinalityType
<1>2. BsBefore(order, 1, types) = {}
  BY DEF BsBefore
<1>3. Cardinality(BsBefore(order, k + 1, types)) =
         Cardinality(S) + (IF order[k][2] \in types THEN 1 ELSE 0)
  <2>1. CASE order[k][2] \in types
    <3>1. BsBefore(order, k + 1, types) = S \cup {k} /\ k \notin S
      BY <2>1 DEF BsBefore
    <3> HIDE DEF S
    <3> QED
      BY <1>1, <2>1, <3>1, FS_AddElement
  <2>2. CASE order[k][2] \notin types
    <3>1. BsBefore(order, k + 1, types) = S
      BY <2>2 DEF BsBefore
    <3> HIDE DEF S
    <3> QED
      BY <1>1, <2>2, <3>1
  <2> QED
    BY <2>1, <2>2
<1>4. ASSUME NEW j \in 1 .. k
      PROVE  Cardinality(BsBefore(order, j, types)) <= Cardinality(S)
  <2>1. BsBefore(order, j, types) \in SUBSET S
    BY DEF BsBefore
  <2> HIDE DEF S
  <2> QED
    BY <1>1, <2>1, FS_Subset
<1> QED
  BY <1>1, <1>2, <1>3, <1>4, FS_EmptySet

LEMMA BsOffsets ==
    ASSUME NEW order \in Layouts
    PROVE  /\ Offset(order, 1) = 0
           /\ \A k \in 1 .. Len(order) + 1 : Offset(order, k) \in Nat
           /\ \A k \in 1 .. Len(order) :
                 Offset(order, k + 1) = Offset(order, k) + WidthOf(order[k][2])
           /\ \A k \in 1 .. Len(order) + 1 : \A j \in 1 .. k :
                 Offset(order, j) <= Offset(order, k)
<1> DEFINE a(k) == Cardinality(BsBefore(order, k, {"u8"}))
           b(k) == Cardinality(BsBefore(order, k, {"u16"}))
           c(k) == Cardinality(BsBefore(order, k, {"u32", "i32", "f"}))
<1>1. \A k : Offset(order, k) = a(k) + 2 * b(k) + 4 * c(k)
  BY DEF Offset, BsBefore
<1>2. \A k \in Nat \ {0} :
        /\ a(1) = 0 /\ b(1) = 0 /\ c(1) = 0
        /\ a(k) \in Nat /\ b(k) \in Nat /\ c(k) \in Nat
        /\ a(k + 1) = a(k) + (IF order[k][2] \in {"u8"} THEN 1 ELSE 0)
        /\ b(k + 1) = b(k) + (IF order[k][2] \in {"u16"} THEN 1 ELSE 0)
        /\ c(k + 1) = c(k) + (IF order[k][2] \in {"u32", "i32", "f"} THEN 1 ELSE 0)
        /\ \A j \in 1 .. k : a(j) <= a(k) /\ b(j) <= b(k) /\ c(j) <= c(k)
  BY BsBeforeNext
<1> HIDE DEF a, b, c
<1>3. Offset(order, 1) = 0
  <2>1. 1 \in Nat \ {0}
    OBVIOUS
  <2>2. a(1) = 0 /\ b(1) = 0 /\ c(1) = 0
    BY <1>2, <2>1
  <2> QED
    BY <1>1, <2>2
<1>4. Len(order) \in Nat
  BY DEF Layouts
<1>5. ASSUME NEW k \in 1 .. Len(order) + 1
      PROVE  Offset(order, k) \in Nat /\ \A j \in 1 .. k : Offset(order, j) <= Offset(order, k)
  <2>1. k \in Nat \ {0}
    BY <1>4
  <2>2. a(k) \in Nat /\ b(k) \in Nat /\ c(k) \in Nat
    BY <1>2, <2>1
  <2>3. ASSUME NEW j \in 1 .. k PROVE Offset(order, j) <= Offset(order, k)
    <3>1. j \in Nat \ {0}
      BY <2>1
    <3>2. a(j) \in Nat /\ b(j) \in Nat /\ c(j) \in Nat
      BY <1>2, <3>1
    <3>3. a(j) <= a(k) /\ b(j) <= b(k) /\ c(j) <= c(k)
      BY <1>2, <2>1
    <3> QED
      BY <1>1, <2>2, <3>2, <3>3
  <2> QED
    BY <1>1, <2>2, <2>3
<1>6. ASSUME NEW k \in 1 .. Len(order)
      PROVE  Offset(order, k + 1) = Offset(order, k) + WidthOf(order[k][2])
  <2>1. k \in Nat \ {0} /\ order[k][2] \in PrimTypes
    BY <1>4 DEF Layouts
  <2>2. /\ a(k) \in Nat /\ b(k) \in Nat /\ c(k) \in Nat
        /\ a(k + 1) = a(k) + (IF order[k][2] \in {"u8"} THEN 1 ELSE 0)
        /\ b(k + 1) = b(k) + (IF order[k][2] \in {"u16"} THEN 1 ELSE 0)
        /\ c(k + 1) = c(k) + (IF order[k][2] \in {"u32", "i32", "f"} THEN 1 ELSE 0)
    BY <1>2, <2>1
  <2>3. /\ Offset(order, k) = a(k) + 2 * b(k) + 4 * c(k)
        /\ Offset(order, k + 1) = a(k + 1) + 2 * b(k + 1) + 4 * c(k + 1)
    BY <1>1
  <2>4. CASE order[k][2] = "u8"
    <3>1. /\ WidthOf(order[k][2]) = 1 /\ a(k + 1) = a(k) + 1 /\ b(k + 1) = b(k)
          /\ c(k + 1) = c(k)
      BY <2>2, <2>4 DEF WidthOf
    <3> QED
      BY <2>2, <2>3, <3>1
  <2>5. CASE order[k][2] = "u16"
    <3>1. /\ WidthOf(order[k][2]) = 2 /\ a(k + 1) = a(k) /\ b(k + 1) = b(k) + 1
          /\ c(k + 1) = c(k)
      BY <2>2, <2>5 DEF WidthOf
    <3> QED
      BY <2>2, <2>3, <3>1
  <2>6. CASE order[k][2] \in {"u32", "i32", "f"}
    <3>1. /\ WidthOf(order[k][2]) = 4 /\ a(k + 1) = a(k) /\ b(k + 1) = b(k)
          /\ c(k + 1) = c(k) + 1
      BY <2>2, <2>6 DEF WidthOf
    <3> QED
      BY <2>2, <2>3, <3>1
  <2> QED
    BY <2>1, <2>4, <2>5, <2>6 DEF PrimTypes
<1> QED
  BY <1>3, <1>5, <1>6

(* Byte i of a field is where the field begins, i bytes on.                *)
LEMMA BsEncoded ==
    ASSUME NEW order \in Layouts, NEW v
    PROVE  /\ Length(order) \in Nat
           /\ Len(Encoded(order, v)) = Length(order)
           /\ DOMAIN Encoded(order, v) = 1 .. Length(order)
           /\ \A k \in DOMAIN order : \A i \in 1 .. WidthOf(order[k][2]) :
                 /\ Offset(order, k) + i \in 1 .. Length(order)
                 /\ Offset(order, k) + WidthOf(order[k][2]) <= Length(order)
                 /\ Encoded(order, v)[Offset(order, k) + i]
                       = Bytes(order[k][2], v[order[k][1]])[i]
<1> DEFINE n == Len(order)
           w(k) == WidthOf(order[k][2])
           o(k) == Offset(order, k)
           falls(p, k) == k \in DOMAIN order /\ p - o(k) \in 1 .. w(k)
<1>1. n \in Nat /\ DOMAIN order = 1 .. n
  BY DEF Layouts
<1>2. \A k \in 1 .. n + 1 : o(k) \in Nat /\ \A j \in 1 .. k : o(j) <= o(k)
  BY BsOffsets
<1>3. \A k \in 1 .. n : o(k + 1) = o(k) + w(k)
  BY BsOffsets
<1>4. Length(order) = o(n + 1)
  BY DEF Length
<1>5. \A k \in 1 .. n : w(k) \in Nat
  BY DEF WidthOf
<1>6. Length(order) \in Nat
  BY <1>1, <1>2, <1>4
<1>7. /\ Len(Encoded(order, v)) = Length(order)
      /\ DOMAIN Encoded(order, v) = 1 .. Length(order)
  BY <1>6 DEF Encoded
<1>8. ASSUME NEW k \in 1 .. n, NEW i \in 1 .. w(k)
      PROVE  /\ o(k) + i \in 1 .. Length(order)
             /\ o(k) + w(k) <= Length(order)
             /\ Encoded(order, v)[o(k) + i] = Bytes(order[k][2], v[order[k][1]])[i]
  <2> DEFINE p == o(k) + i
  <2> HIDE DEF o, w
  <2>1. /\ o(k) \in Nat /\ o(k + 1) \in Nat /\ w(k) \in Nat
        /\ o(k + 1) = o(k) + w(k) /\ o(k + 1) <= o(n + 1) /\ o(n + 1) \in Nat
    BY <1>1, <1>2, <1>3, <1>5
  <2>2. p \in 1 .. Length(order) /\ p - o(k) = i /\ o(k) + w(k) <= Length(order)
    BY <1>4, <2>1
  <2>3. falls(p, k)
    BY <1>1, <2>2
  <2>4. ASSUME NEW j, falls(p, j) PROVE j = k
    <3>1. /\ j \in 1 .. n /\ o(j) \in Nat /\ w(j) \in Nat /\ p - o(j) \in 1 .. w(j)
          /\ o(j + 1) = o(j) + w(j) /\ o(j + 1) \in Nat
      BY <1>1, <1>2, <1>3, <1>5, <2>4
    <3>2. ~(j < k)
      <4>1. SUFFICES ASSUME j < k PROVE FALSE
        OBVIOUS
      <4>2. o(j + 1) <= o(k)
        BY <1>1, <1>2, <3>1, <4>1
      <4>3. p \in Nat /\ o(k) < p
        BY <2>1
      <4> HIDE DEF p
      <4>4. p <= o(j) + w(j)
        BY <3>1, <4>3
      <4>5. o(j) + w(j) <= o(k) /\ o(k) \in Nat
        BY <2>1, <3>1, <4>2
      <4> QED
        BY <3>1, <4>3, <4>4, <4>5
    <3>3. ~(k < j)
      <4>1. SUFFICES ASSUME k < j PROVE FALSE
        OBVIOUS
      <4>2. j \in 1 .. n + 1 /\ k + 1 \in 1 .. j
        BY <1>1, <3>1, <4>1
      <4>3. o(k + 1) <= o(j)
        BY <1>2, <4>2
      <4>4. p \in Nat /\ p <= o(k) + w(k)
        BY <2>1
      <4> HIDE DEF p
      <4>5. o(j) < p
        BY <3>1, <4>4
      <4> QED
        BY <2>1, <3>1, <4>3, <4>4, <4>5
    <3> QED
      BY <1>1, <3>1, <3>2, <3>3
  <2>5. (CHOOSE j \in DOMAIN order : p - o(j) \in 1 .. w(j)) = k
    <3> HIDE DEF p
    <3> QED
      BY <2>3, <2>4
  <2>6. Encoded(order, v)[p] =
          LET j == CHOOSE j \in DOMAIN order : p - o(j) \in 1 .. w(j)
          IN  Bytes(order[j][2], v[order[j][1]])[p - o(j)]
    BY <2>2 DEF Encoded, o, w
  <2>7. Encoded(order, v)[p] = Bytes(order[k][2], v[order[k][1]])[p - o(k)]
    BY <2>5, <2>6
  <2> QED
    BY <2>2, <2>7 DEF o, w
<1> QED
  BY <1>1, <1>6, <1>7, <1>8

LEMMA BsLengthPositive ==
    ASSUME NEW order \in Layouts, Len(order) > 0
    PROVE  Length(order) > 0
<1>1. Len(order) \in Nat /\ 1 \in DOMAIN order /\ 1 \in 1 .. WidthOf(order[1][2])
  BY DEF Layouts, WidthOf
<1>2. Offset(order, 1) = 0
  BY BsOffsets
<1>3. Offset(order, 1) + 1 \in 1 .. Length(order) /\ Length(order) \in Nat
  BY <1>1, BsEncoded
<1> QED
  BY <1>2, <1>3

(* A structure whose bytes are in memory is read back as it was.           *)
BsFields(order) == { order[k][1] : k \in DOMAIN order }
BsDecoded(order, start) ==
    LET at(f) == CHOOSE k \in DOMAIN order : order[k][1] = f
        field(f) == LET from == start + Offset(order, at(f))  type == order[at(f)][2]
                    IN  Value(type, SubSeq(bs_data, from + 1, from + WidthOf(type)))
    IN  [f \in BsFields(order) |-> field(f)]

LEMMA BsStructureRoundTrip ==
    ASSUME NEW order \in Layouts, NEW v \in [BsFields(order) -> Int],
           \A k \in DOMAIN order : Representable(order[k][2], v[order[k][1]]),
           NEW start \in Nat,
           \A p \in 1 .. Length(order) : bs_data[start + p] = Encoded(order, v)[p]
    PROVE  BsDecoded(order, start) = v
<1> DEFINE at(f) == CHOOSE k \in DOMAIN order : order[k][1] = f
           type(f) == order[at(f)][2]
           from(f) == start + Offset(order, at(f))
           read(f) == SubSeq(bs_data, from(f) + 1, from(f) + WidthOf(type(f)))
<1>1. ASSUME NEW f \in BsFields(order) PROVE Value(type(f), read(f)) = v[f]
  <2>1. at(f) \in DOMAIN order /\ order[at(f)][1] = f
    BY DEF BsFields
  <2> DEFINE k == at(f)
             w == WidthOf(type(f))
             b == Bytes(type(f), v[f])
  <2> HIDE DEF at
  <2>2. type(f) \in PrimTypes /\ Len(order) \in Nat /\ k \in 1 .. Len(order) + 1
    BY <2>1 DEF Layouts
  <2>3. v[f] \in Int /\ Representable(type(f), v[f])
    BY <2>1
  <2>4. w \in Nat
    BY DEF WidthOf
  <2>5. Offset(order, k) \in Nat
    BY <2>2, BsOffsets
  <2>6. ASSUME NEW i \in 1 .. w PROVE bs_data[from(f) + i] = b[i]
    <3>1. /\ Offset(order, k) + i \in 1 .. Length(order)
          /\ Encoded(order, v)[Offset(order, k) + i] = b[i]
      BY <2>1, BsEncoded
    <3>2. bs_data[start + (Offset(order, k) + i)] = b[i]
      BY <3>1
    <3>3. start + (Offset(order, k) + i) = from(f) + i
      BY <2>4, <2>5
    <3> QED
      BY <3>2, <3>3
  <2>7. ASSUME NEW i \in 1 .. w PROVE read(f)[i] = b[i]
    <3> DEFINE m == from(f) + 1
               n == from(f) + w
               S == { bs_data[j] : j \in m .. n }
    <3>1. m \in Int /\ n \in Int /\ n - m + 1 = w /\ from(f) + i = m + i - 1
      BY <2>4, <2>5
    <3>2. \A j \in m .. n : bs_data[j] \in S
      OBVIOUS
    <3>3. read(f) = SubSeq(bs_data, m, n)
      OBVIOUS
    <3> HIDE DEF m, n, S
    <3>4. SubSeq(bs_data, m, n)[i] = bs_data[m + i - 1]
      BY <3>1, <3>2, SubSeqProperties
    <3> QED
      BY <2>6, <3>1, <3>3, <3>4
  <2>8. \A c : (\A i \in 1 .. w : c[i] = b[i]) => Value(type(f), c) = v[f]
    BY <2>2, <2>3, BsValueRoundTrip
  <2> HIDE DEF b, w, read, type
  <2> QED
    BY <2>7, <2>8
<1>2. BsDecoded(order, start) = [f \in BsFields(order) |-> Value(type(f), read(f))]
  BY DEF BsDecoded
<1> HIDE DEF type, read
<1> QED
  BY <1>1, <1>2
------------------------------------------------------------------------------
(* The items that can be injected, and the bytes of each.                  *)
BsKinds == DOMAIN InjectOrder

BsItem(item) ==
    \/ \E kind \in BsKinds : \E v \in Samples[kind] :
          item = <<kind, v>> /\ ~(kind = "led_color" /\ v.value > 7)
    \/ \E str \in Strings : item = <<"string", str>>
    \/ \E bytes \in Arrays : item = <<"u8_array", bytes>>

BsWritten(item) ==
    IF item[1] = "string" THEN Append(item[2], NUL)
    ELSE IF item[1] = "u8_array" THEN item[2]
    ELSE Encoded(InjectOrder[item[1]], item[2])

LEMMA BsKindNames == "string" \notin BsKinds /\ "u8_array" \notin BsKinds
<1>1. BsKinds = {"u8", "u16", "u32", "i32", "f", "led_color", "pid_gains",
                 "pid_debug_info", "encoder_joints", "encoder_gimbal"}
  BY DEF BsKinds, InjectOrder
<1> QED
  BY <1>1

LEMMA BsWrittenString ==
    ASSUME NEW str \in Strings
    PROVE  LET b == BsWritten(<<"string", str>>)
           IN  /\ Len(str) \in Nat /\ \A i \in 1 .. Len(str) : str[i] # NUL
               /\ str \in Seq(Byte)
               /\ b = Append(str, NUL) /\ b \in Seq(Byte)
               /\ Len(b) = Len(str) + 1 /\ DOMAIN b = 1 .. Len(b)
               /\ \A i \in 1 .. Len(str) : b[i] = str[i]
               /\ b[Len(str) + 1] = NUL
<1>1. str \in Seq(Byte \ {NUL})
  BY ItemsAssumption
<1>2. str \in Seq(Byte) /\ NUL \in Byte
  BY <1>1, BsConstants DEF Byte, NUL
<1>3. Len(str) \in Nat /\ \A i \in 1 .. Len(str) : str[i] # NUL
  BY <1>1
<1>4. BsWritten(<<"string", str>>) = Append(str, NUL)
  BY DEF BsWritten
<1>5. /\ Append(str, NUL) \in Seq(Byte)
      /\ Len(Append(str, NUL)) = Len(str) + 1
      /\ \A i \in 1 .. Len(str) : Append(str, NUL)[i] = str[i]
      /\ Append(str, NUL)[Len(str) + 1] = NUL
  BY <1>2, AppendProperties
<1>6. DOMAIN Append(str, NUL) = 1 .. Len(Append(str, NUL))
  BY <1>5, LenProperties
<1> QED
  BY <1>2, <1>3, <1>4, <1>5, <1>6

LEMMA BsWrittenArray ==
    ASSUME NEW bytes \in Arrays
    PROVE  /\ BsWritten(<<"u8_array", bytes>>) = bytes /\ bytes \in Seq(Byte)
           /\ Len(bytes) \in Nat /\ DOMAIN bytes = 1 .. Len(bytes)
<1>1. bytes \in Seq(Byte)
  BY ItemsAssumption
<1> QED
  BY <1>1 DEF BsWritten

LEMMA BsWrittenStructure ==
    ASSUME NEW kind \in BsKinds, NEW v \in Samples[kind]
    PROVE  LET order == InjectOrder[kind]
               b == BsWritten(<<kind, v>>)
           IN  /\ order \in Layouts /\ b = Encoded(order, v)
               /\ Len(b) = Length(order) /\ Length(order) \in Nat /\ Length(order) > 0
               /\ DOMAIN b = 1 .. Len(b)
               /\ v \in [BsFields(order) -> Int]
               /\ \A k \in DOMAIN order : Representable(order[k][2], v[order[k][1]])
<1> DEFINE order == InjectOrder[kind]
<1>1. order \in Layouts /\ Len(order) > 0
  BY BsLayouts DEF BsKinds
<1>2. BsWritten(<<kind, v>>) = Encoded(order, v)
  BY BsKindNames DEF BsWritten
<1>3. /\ v \in [BsFields(order) -> Int]
      /\ \A k \in DOMAIN order : Representable(order[k][2], v[order[k][1]])
  BY ItemsAssumption DEF BsFields, BsKinds
<1> HIDE DEF order
<1>4. /\ Length(order) \in Nat /\ Len(Encoded(order, v)) = Length(order)
      /\ DOMAIN Encoded(order, v) = 1 .. Length(order)
  BY <1>1, BsEncoded
<1>5. Length(order) > 0
  BY <1>1, BsLengthPositive
<1> QED
  BY <1>1, <1>2, <1>3, <1>4, <1>5 DEF order

LEMMA BsWrittenLength ==
    ASSUME NEW item, BsItem(item)
    PROVE  /\ Len(BsWritten(item)) \in Nat
           /\ DOMAIN BsWritten(item) = 1 .. Len(BsWritten(item))
<1>1. CASE \E kind \in BsKinds : \E v \in Samples[kind] : item = <<kind, v>>
  <2>1. PICK kind \in BsKinds : \E v \in Samples[kind] : item = <<kind, v>>
    BY <1>1
  <2>2. PICK v \in Samples[kind] : item = <<kind, v>>
    BY <2>1
  <2> QED
    BY <2>2, BsWrittenStructure
<1>2. CASE \E str \in Strings : item = <<"string", str>>
  <2>1. PICK str \in Strings : item = <<"string", str>>
    BY <1>2
  <2> QED
    BY <2>1, BsWrittenString
<1>3. CASE \E bytes \in Arrays : item = <<"u8_array", bytes>>
  <2>1. PICK bytes \in Arrays : item = <<"u8_array", bytes>>
    BY <1>3
  <2> QED
    BY <2>1, BsWrittenArray
<1> QED
  BY <1>1, <1>2, <1>3 DEF BsItem

(* A history of items, whatever they are.                                  *)
BsList(s) == \E S : s \in Seq(S)

LEMMA BsListed ==
    ASSUME NEW s, BsList(s), NEW e
    PROVE  /\ Len(s) \in Nat /\ DOMAIN s = 1 .. Len(s)
           /\ BsList(Append(s, e)) /\ Len(Append(s, e)) = Len(s) + 1
           /\ \A k \in 1 .. Len(s) : Append(s, e)[k] = s[k]
           /\ Append(s, e)[Len(s) + 1] = e
<1>1. PICK S : s \in Seq(S)
  BY DEF BsList
<1> DEFINE T == S \cup {e}
<1>2. s \in Seq(T) /\ e \in T
  BY <1>1
<1> HIDE DEF T
<1>3. /\ Append(s, e) \in Seq(T) /\ Len(Append(s, e)) = Len(s) + 1
      /\ \A k \in 1 .. Len(s) : Append(s, e)[k] = s[k]
      /\ Append(s, e)[Len(s) + 1] = e
  BY <1>2, AppendProperties
<1> QED
  BY <1>2, <1>3 DEF BsList

(***************************************************************************)
(* The inductive invariant.  at[k] is where item k begins; the bytes of    *)
(* every item injected before a string was cut are in the buffer, one item *)
(* after the other, and the reader is where the writer was.  A cut string  *)
(* is the last item, since it fills the buffer.                            *)
(***************************************************************************)
BsTypes ==
    /\ bs_capacity \in Nat
    /\ bs_phase \in {"inject", "extract", "refused", "unreadable"}
    /\ BsList(bs_in) /\ Len(bs_in) <= MaxItems
    /\ \A k \in 1 .. Len(bs_in) : BsItem(bs_in[k])
    /\ BsList(bs_out) /\ bs_cut \in Nat

BsCut ==
    \/ bs_cut = MaxItems + 1
    \/ bs_cut + 1 = Len(bs_in) /\ (bs_phase = "inject" => bs_size = bs_capacity)

BsWriting ==
    bs_phase \in {"inject", "refused"} =>
        /\ bs_size \in Nat /\ bs_size <= bs_capacity
        /\ 1 .. bs_capacity \subseteq DOMAIN bs_data
        /\ Len(bs_out) = 0

BsEnd == IF bs_phase \in {"inject", "refused"} THEN bs_size ELSE bs_capacity

BsPlaced(at) ==
    /\ at[1] = 0 /\ at[Len(bs_in) + 1] = BsEnd
    /\ \A k \in 1 .. Len(bs_in) + 1 : at[k] \in Nat /\ at[k] <= BsEnd
    /\ \A k \in 1 .. Len(bs_in) : k <= bs_cut =>
          /\ at[k + 1] = at[k] + Len(BsWritten(bs_in[k]))
          /\ \A i \in 1 .. Len(BsWritten(bs_in[k])) :
                bs_data[at[k] + i] = BsWritten(bs_in[k])[i]

BsReading(at) ==
    bs_phase \in {"extract", "unreadable"} =>
        /\ Len(bs_out) <= Len(bs_in)
        /\ Len(bs_out) <= bs_cut => bs_size = at[Len(bs_out) + 1]
        /\ \A k \in 1 .. Len(bs_out) : k <= bs_cut => bs_out[k] = bs_in[k]
        /\ bs_phase = "unreadable" =>
              \/ Len(bs_out) = bs_cut
              \/ Expected[1] = "string" /\ Len(Expected[2]) >= StringRoom

BsInv == BsTypes /\ BsCut /\ BsWriting /\ \E at : BsPlaced(at) /\ BsReading(at)

LEMMA BsInvInit == BsInit => BsInv
<1> SUFFICES ASSUME BsInit PROVE BsInv
  OBVIOUS
<1> USE DEF BsInit
<1>1. BsList(<< >>) /\ Len(<< >>) = 0
  <2>1. << >> \in Seq({})
    OBVIOUS
  <2> QED
    BY <2>1 DEF BsList
<1>2. bs_capacity \in Nat /\ 1 .. bs_capacity \subseteq DOMAIN bs_data
  BY BsConstants
<1>3. BsTypes
  BY <1>1, <1>2, BsConstants DEF BsTypes
<1>4. BsCut /\ BsWriting
  BY <1>1, <1>2 DEF BsCut, BsWriting
<1> DEFINE at == [k \in {1} |-> 0]
<1>5. BsPlaced(at) /\ BsReading(at)
  BY <1>1 DEF BsPlaced, BsReading, BsEnd
<1> QED
  BY <1>3, <1>4, <1>5 DEF BsInv

(* An item written: its bytes where the stream stood, the rest as it was.  *)
LEMMA BsPut ==
    ASSUME 1 .. bs_capacity \subseteq DOMAIN bs_data, bs_capacity \in Nat, bs_size \in Nat,
           NEW bytes, Len(bytes) \in Nat, DOMAIN bytes = 1 .. Len(bytes),
           bs_size + Len(bytes) <= bs_capacity, NEW item, Put(bytes, item)
    PROVE  /\ DOMAIN bs_data' = DOMAIN bs_data
           /\ \A i \in 1 .. Len(bytes) : bs_data'[bs_size + i] = bytes[i]
           /\ \A p \in 1 .. bs_size : bs_data'[p] = bs_data[p]
<1>1. bs_data' = [k \in DOMAIN bs_data |->
                    IF k - bs_size \in DOMAIN bytes THEN bytes[k - bs_size] ELSE bs_data[k]]
  BY DEF Put
<1>2. ASSUME NEW i \in 1 .. Len(bytes) PROVE bs_data'[bs_size + i] = bytes[i]
  <2>1. bs_size + i \in DOMAIN bs_data /\ (bs_size + i) - bs_size = i
    BY <1>2
  <2> QED
    BY <1>1, <2>1
<1>3. ASSUME NEW p \in 1 .. bs_size PROVE bs_data'[p] = bs_data[p]
  <2>1. p \in DOMAIN bs_data /\ p - bs_size \notin DOMAIN bytes
    BY <1>3
  <2> QED
    BY <1>1, <2>1
<1> QED
  BY <1>1, <1>2, <1>3

LEMMA BsPutStep ==
    ASSUME BsInv, bs_phase = "inject", Len(bs_in) < MaxItems, bs_cut = MaxItems + 1,
           NEW item, BsItem(item),
           NEW bytes, Len(bytes) \in Nat, DOMAIN bytes = 1 .. Len(bytes),
           bs_size + Len(bytes) <= bs_capacity, Put(bytes, item),
           UNCHANGED <<bs_capacity, bs_phase, bs_out>>,
           \/ bytes = BsWritten(item) /\ bs_cut' = bs_cut
           \/ bs_cut' = Len(bs_in) /\ bs_size + Len(bytes) = bs_capacity
    PROVE  BsInv'
<1> USE DEF BsInv
<1> DEFINE n == Len(bs_in)
<1>1. PICK at : BsPlaced(at) /\ BsReading(at)
  OBVIOUS
<1>2. /\ bs_capacity \in Nat /\ bs_size \in Nat /\ bs_size <= bs_capacity
      /\ 1 .. bs_capacity \subseteq DOMAIN bs_data /\ Len(bs_out) = 0
      /\ BsList(bs_in) /\ n \in Nat /\ MaxItems \in Nat /\ BsEnd = bs_size
  BY BsListed, BsConstants DEF BsTypes, BsWriting, BsEnd
<1>3. /\ bs_in' = Append(bs_in, item) /\ bs_size' = bs_size + Len(bytes)
  BY DEF Put
<1>4. /\ BsList(bs_in') /\ Len(bs_in') = n + 1
      /\ \A k \in 1 .. n : bs_in'[k] = bs_in[k]
      /\ bs_in'[n + 1] = item
  BY <1>2, <1>3, BsListed
<1>5. /\ DOMAIN bs_data' = DOMAIN bs_data
      /\ \A i \in 1 .. Len(bytes) : bs_data'[bs_size + i] = bytes[i]
      /\ \A p \in 1 .. bs_size : bs_data'[p] = bs_data[p]
  BY <1>2, BsPut
<1>6. \A k \in 1 .. n + 1 : BsItem(bs_in'[k])
  <2>1. \A k \in 1 .. n : BsItem(bs_in[k])
    BY DEF BsTypes
  <2> SUFFICES ASSUME NEW k \in 1 .. n + 1 PROVE BsItem(bs_in'[k])
    OBVIOUS
  <2>2. k \in 1 .. n \/ k = n + 1
    BY <1>2
  <2> HIDE DEF n
  <2> QED
    BY <1>4, <2>1, <2>2
<1>7. BsTypes'
  <2>1. bs_cut' \in Nat
    BY <1>2
  <2>2. BsList(bs_out)
    BY DEF BsTypes
  <2>3. Len(bs_in') <= MaxItems
    BY <1>2, <1>4
  <2>4. (\A k \in 1 .. Len(bs_in) : BsItem(bs_in[k]))'
    BY <1>4, <1>6 DEF BsItem
  <2> QED
    BY <1>2, <1>4, <2>1, <2>2, <2>3, <2>4 DEF BsTypes
<1>8. BsCut' /\ BsWriting'
  BY <1>2, <1>3, <1>4, <1>5 DEF BsCut, BsWriting
<1>9. PICK next :
          next = [k \in 1 .. n + 2 |-> IF k = n + 2 THEN bs_size + Len(bytes) ELSE at[k]]
  OBVIOUS
<1>10. /\ at[1] = 0 /\ at[n + 1] = bs_size
       /\ \A k \in 1 .. n + 1 : at[k] \in Nat /\ at[k] <= bs_size
       /\ \A k \in 1 .. n : k <= bs_cut =>
             /\ at[k + 1] = at[k] + Len(BsWritten(bs_in[k]))
             /\ \A i \in 1 .. Len(BsWritten(bs_in[k])) :
                   bs_data[at[k] + i] = BsWritten(bs_in[k])[i]
  BY <1>1, <1>2 DEF BsPlaced
<1>11. /\ \A k \in 1 .. n + 1 : next[k] = at[k]
       /\ next[n + 2] = bs_size + Len(bytes)
  BY <1>2, <1>9
<1> HIDE DEF n, BsInv
<1>12. /\ next[1] = 0 /\ next[Len(bs_in') + 1] = bs_size'
       /\ \A k \in 1 .. Len(bs_in') + 1 : next[k] \in Nat /\ next[k] <= bs_size'
  <2>1. next[1] = 0
    <3>1. 1 \in 1 .. n + 1
      BY <1>2
    <3> QED
      BY <1>10, <1>11, <3>1
  <2>2. Len(bs_in') + 1 = n + 2
    BY <1>2, <1>4
  <2>3. next[n + 2] = bs_size'
    BY <1>3, <1>11
  <2>4. ASSUME NEW k \in 1 .. n + 2 PROVE next[k] \in Nat /\ next[k] <= bs_size'
    <3>1. CASE k = n + 2
      BY <1>2, <1>3, <1>11, <3>1
    <3>2. CASE k \in 1 .. n + 1
      <4>1. next[k] \in Nat /\ next[k] <= bs_size
        BY <1>10, <1>11, <3>2
      <4> QED
        BY <1>2, <1>3, <4>1
    <3> QED
      BY <1>2, <3>1, <3>2
  <2> QED
    BY <2>1, <2>2, <2>3, <2>4
<1>13. ASSUME NEW k \in 1 .. n + 1, k <= bs_cut'
       PROVE  /\ next[k + 1] = next[k] + Len(BsWritten(bs_in'[k]))
              /\ \A i \in 1 .. Len(BsWritten(bs_in'[k])) :
                    bs_data'[next[k] + i] = BsWritten(bs_in'[k])[i]
  <2>1. CASE k = n + 1
    <3>1. bytes = BsWritten(item)
      BY <1>2, <1>13, <2>1 DEF n
    <3>2. next[k] = bs_size /\ next[k + 1] = bs_size + Len(bytes) /\ bs_in'[k] = item
      BY <1>2, <1>4, <1>10, <1>11, <2>1
    <3> QED
      BY <1>5, <3>1, <3>2
  <2>2. CASE k \in 1 .. n
    <3>1. k <= bs_cut /\ bs_in'[k] = bs_in[k]
      BY <1>2, <1>4, <2>2 DEF n
    <3>2. k \in 1 .. n + 1 /\ k + 1 \in 1 .. n + 1
      BY <1>2, <2>2
    <3> DEFINE b == BsWritten(bs_in[k])
    <3>3. at[k + 1] = at[k] + Len(b) /\ \A i \in 1 .. Len(b) : bs_data[at[k] + i] = b[i]
      BY <1>10, <2>2, <3>1
    <3>4. at[k] \in Nat /\ at[k + 1] \in Nat /\ at[k + 1] <= bs_size
      BY <1>10, <3>2
    <3>5. next[k] = at[k] /\ next[k + 1] = at[k + 1]
      BY <1>11, <3>2
    <3>6. Len(b) \in Nat
      <4>1. BsItem(bs_in[k])
        BY <2>2 DEF BsInv, BsTypes, n
      <4> QED
        BY <4>1, BsWrittenLength
    <3>7. ASSUME NEW i \in 1 .. Len(b) PROVE bs_data'[at[k] + i] = b[i]
      <4>1. at[k] + i \in 1 .. bs_size
        BY <1>2, <3>3, <3>4, <3>6
      <4> QED
        BY <1>5, <3>3, <4>1
    <3> QED
      BY <3>1, <3>3, <3>5, <3>7
  <2> QED
    BY <1>2, <2>1, <2>2
<1>14. BsPlaced(next)'
  <2>1. BsEnd' = bs_size'
    BY DEF BsEnd
  <2>2. \A k \in 1 .. Len(bs_in') : k <= bs_cut' =>
            /\ next[k + 1] = next[k] + Len(BsWritten(bs_in'[k]))
            /\ \A i \in 1 .. Len(BsWritten(bs_in'[k])) :
                  bs_data'[next[k] + i] = BsWritten(bs_in'[k])[i]
    BY <1>4, <1>13
  <2> QED
    BY <1>12, <2>1, <2>2 DEF BsPlaced
<1>15. BsReading(next)'
  BY DEF BsReading
<1>16. (\E a : BsPlaced(a) /\ BsReading(a))'
  BY <1>14, <1>15
<1> QED
  BY <1>7, <1>8, <1>16 DEF BsInv

(* No injection after a string was cut: the buffer is full.                *)
LEMMA BsRoomLeft ==
    ASSUME BsInv, bs_phase = "inject", NEW n \in Nat \ {0}, bs_size + n <= bs_capacity
    PROVE  bs_cut = MaxItems + 1
<1>1. bs_capacity \in Nat /\ bs_size \in Nat
  BY DEF BsInv, BsTypes, BsWriting
<1> QED
  BY <1>1 DEF BsInv, BsCut

LEMMA BsInvInject ==
    ASSUME BsInv, NEW kind \in BsKinds, NEW v \in Samples[kind], Inject(kind, v)
    PROVE  BsInv'
<1> DEFINE order == InjectOrder[kind]
           item == <<kind, v>>
<1>1. bs_phase = "inject" /\ Len(bs_in) < MaxItems
  BY DEF Inject, More
<1>2. CASE (kind = "led_color" /\ v.value > 7) \/ ~Fits(Length(order))
  <2>1. Error
    BY <1>2 DEF Inject
  <2>2. bs_phase' = "refused" /\ UNCHANGED <<bs_data, bs_capacity, bs_size, bs_in, bs_out, bs_cut>>
    BY <1>1, <2>1 DEF Error
  <2> QED
    BY <1>1, <2>2 DEF BsInv, BsTypes, BsCut, BsWriting, BsPlaced, BsEnd, BsReading
<1>3. CASE ~(kind = "led_color" /\ v.value > 7) /\ Fits(Length(order))
  <2> DEFINE bytes == BsWritten(item)
  <2>1. /\ bytes = Encoded(order, v) /\ Len(bytes) = Length(order)
        /\ Length(order) \in Nat /\ Length(order) > 0 /\ DOMAIN bytes = 1 .. Len(bytes)
    BY BsWrittenStructure
  <2>2. Put(bytes, item) /\ UNCHANGED <<bs_capacity, bs_phase, bs_out, bs_cut>>
    <3>1. Put(Encoded(order, v), item) /\ UNCHANGED <<bs_capacity, bs_phase, bs_out, bs_cut>>
      BY <1>3 DEF Inject
    <3> QED
      BY <2>1, <3>1
  <2>3. BsItem(item)
    BY <1>3 DEF BsItem
  <2>4. bs_size + Len(bytes) <= bs_capacity
    BY <1>3, <2>1 DEF Fits
  <2> HIDE DEF order
  <2>5. Len(bytes) \in Nat \ {0}
    BY <2>1
  <2> HIDE DEF bytes, item
  <2>6. bs_cut = MaxItems + 1
    BY <1>1, <2>4, <2>5, BsRoomLeft
  <2>7. bytes = BsWritten(item)
    BY DEF bytes
  <2> QED
    BY <1>1, <2>1, <2>2, <2>3, <2>4, <2>5, <2>6, <2>7, BsPutStep
<1> QED
  BY <1>2, <1>3

LEMMA BsInvInjectString ==
    ASSUME BsInv, NEW str \in Strings, bytestream_inject_string(str)
    PROVE  BsInv'
<1> DEFINE room == bs_capacity - bs_size - 1
           len == IF room >= 0 /\ room < Len(str) THEN room ELSE Len(str)
           item == <<"string", str>>
           bytes == SubSeq(Append(str, NUL), 1, len + 1)
<1>1. bs_phase = "inject" /\ Len(bs_in) < MaxItems
  BY DEF bytestream_inject_string, More
<1>2. /\ Len(str) \in Nat /\ Append(str, NUL) = BsWritten(item)
      /\ BsWritten(item) \in Seq(Byte) /\ Len(BsWritten(item)) = Len(str) + 1
  BY BsWrittenString
<1>3. bs_capacity \in Nat /\ bs_size \in Nat /\ bs_size <= bs_capacity
      /\ Len(bs_in) \in Nat /\ MaxItems \in Nat
  BY <1>1, BsListed, BsConstants DEF BsInv, BsTypes, BsWriting
<1>4. CASE ~Fits(len + 1)
  <2>1. bs_phase' = "refused" /\ UNCHANGED <<bs_data, bs_capacity, bs_size, bs_in, bs_out, bs_cut>>
    BY <1>1, <1>4 DEF bytestream_inject_string, Error
  <2> QED
    BY <1>1, <2>1 DEF BsInv, BsTypes, BsCut, BsWriting, BsPlaced, BsEnd, BsReading
<1>5. CASE Fits(len + 1)
  <2>1. /\ Put(bytes, item) /\ UNCHANGED <<bs_capacity, bs_phase, bs_out>>
        /\ bs_cut' = IF len < Len(str) /\ bs_cut > MaxItems THEN Len(bs_in) ELSE bs_cut
    BY <1>5 DEF bytestream_inject_string
  <2>2. BsItem(item)
    BY DEF BsItem
  <2>3. len \in Nat /\ len <= Len(str) /\ (len < Len(str) => bs_size + (len + 1) = bs_capacity)
        /\ bs_size + (len + 1) <= bs_capacity
    BY <1>2, <1>3, <1>5 DEF Fits
  <2> HIDE DEF len, item
  <2>4. bytes = SubSeq(BsWritten(item), 1, len + 1)
    BY <1>2
  <2>5. bytes \in Seq(Byte) /\ Len(bytes) = len + 1 /\ DOMAIN bytes = 1 .. Len(bytes)
    <3> DEFINE b == BsWritten(item)
    <3>1. 1 \in Int /\ len + 1 \in Int /\ \A i \in 1 .. len + 1 : b[i] \in Byte
      BY <1>2, <2>3
    <3> HIDE DEF b
    <3>2. /\ SubSeq(b, 1, len + 1) \in Seq(Byte)
          /\ Len(SubSeq(b, 1, len + 1)) = IF 1 <= len + 1 THEN (len + 1) - 1 + 1 ELSE 0
      BY <3>1, SubSeqProperties
    <3>3. bytes = SubSeq(b, 1, len + 1)
      BY <2>4 DEF b
    <3> HIDE DEF bytes
    <3>4. bytes \in Seq(Byte) /\ Len(bytes) = len + 1
      BY <2>3, <3>2, <3>3
    <3> QED
      BY <3>4, LenProperties
  <2>6. Len(bytes) \in Nat \ {0} /\ bs_size + Len(bytes) <= bs_capacity
    BY <2>3, <2>5
  <2>7. len = Len(str) => bytes = BsWritten(item)
    BY <1>2, <2>4, SubSeqFull
  <2> HIDE DEF bytes
  <2>8. bs_cut = MaxItems + 1
    BY <1>1, <2>6, BsRoomLeft
  <2>9. \/ bytes = BsWritten(item) /\ bs_cut' = bs_cut
        \/ bs_cut' = Len(bs_in) /\ bs_size + Len(bytes) = bs_capacity
    <3>1. CASE len < Len(str)
      BY <1>3, <2>1, <2>3, <2>5, <2>8, <3>1
    <3>2. CASE ~(len < Len(str))
      <4>1. len = Len(str)
        BY <1>2, <2>3, <3>2
      <4> QED
        BY <2>1, <2>7, <3>2, <4>1
    <3> QED
      BY <3>1, <3>2
  <2> QED
    BY <1>1, <2>1, <2>2, <2>5, <2>6, <2>8, <2>9, BsPutStep
<1> QED
  BY <1>4, <1>5

LEMMA BsInvInjectArray ==
    ASSUME BsInv, NEW bytes \in Arrays, bytestream_inject_u8_array(bytes)
    PROVE  BsInv'
<1> DEFINE item == <<"u8_array", bytes>>
<1>1. bs_phase = "inject" /\ Len(bs_in) < MaxItems
  BY DEF bytestream_inject_u8_array, More
<1>2. /\ BsWritten(item) = bytes /\ Len(bytes) \in Nat /\ DOMAIN bytes = 1 .. Len(bytes)
      /\ BsItem(item)
  BY BsWrittenArray DEF BsItem
<1>3. bs_capacity \in Nat /\ bs_size \in Nat
  BY <1>1 DEF BsInv, BsTypes, BsWriting
<1>4. CASE bs_capacity - bs_size <= Len(bytes)
  <2>1. bs_phase' = "refused" /\ UNCHANGED <<bs_data, bs_capacity, bs_size, bs_in, bs_out, bs_cut>>
    BY <1>1, <1>4 DEF bytestream_inject_u8_array, Error
  <2> QED
    BY <1>1, <2>1 DEF BsInv, BsTypes, BsCut, BsWriting, BsPlaced, BsEnd, BsReading
<1>5. CASE ~(bs_capacity - bs_size <= Len(bytes))
  <2>1. Put(bytes, item) /\ UNCHANGED <<bs_capacity, bs_phase, bs_out, bs_cut>>
    BY <1>5 DEF bytestream_inject_u8_array
  <2>2. bs_size + Len(bytes) <= bs_capacity /\ bs_size + 1 <= bs_capacity
    BY <1>2, <1>3, <1>5
  <2>3. bs_cut = MaxItems + 1
    <3>1. 1 \in Nat \ {0}
      OBVIOUS
    <3> QED
      BY <1>1, <2>2, <3>1, BsRoomLeft
  <2> HIDE DEF item
  <2> QED
    BY <1>1, <1>2, <2>1, <2>2, <2>3, BsPutStep
<1> QED
  BY <1>4, <1>5

LEMMA BsInvRestart == ASSUME BsInv, bytestream_init PROVE BsInv'
<1> USE DEF bytestream_init
<1>1. PICK at : BsPlaced(at) /\ BsReading(at)
  BY DEF BsInv
<1>2. BsTypes /\ BsCut /\ bs_size \in Nat /\ bs_size <= bs_capacity /\ Len(bs_out) = 0
      /\ Len(bs_in) \in Nat
  BY BsListed DEF BsInv, BsTypes, BsWriting
<1>3. BsTypes' /\ BsCut' /\ BsWriting'
  BY <1>2 DEF BsTypes, BsCut, BsWriting
<1>4. BsPlaced(at)' /\ BsReading(at)'
  BY <1>1, <1>2 DEF BsPlaced, BsEnd, BsReading
<1>5. (\E a : BsPlaced(a) /\ BsReading(a))'
  BY <1>4
<1> QED
  BY <1>3, <1>5 DEF BsInv

(* What the reader is about to read, if no string was cut before it.       *)
LEMMA BsAhead ==
    ASSUME BsInv, bs_phase = "extract", Len(bs_out) < Len(bs_in), Len(bs_out) + 1 <= bs_cut
    PROVE  LET b == BsWritten(Expected)
           IN  /\ BsItem(Expected) /\ bs_size \in Nat /\ bs_capacity \in Nat
               /\ Len(b) \in Nat /\ bs_size + Len(b) <= bs_capacity
               /\ \A i \in 1 .. Len(b) : bs_data[bs_size + i] = b[i]
<1> DEFINE n == Len(bs_out)
<1>1. n \in Nat /\ Len(bs_in) \in Nat /\ bs_capacity \in Nat /\ bs_cut \in Nat
  BY BsListed DEF BsInv, BsTypes
<1>2. PICK at : BsPlaced(at) /\ BsReading(at)
  BY DEF BsInv
<1>3. n + 1 \in 1 .. Len(bs_in) /\ n + 1 \in 1 .. Len(bs_in) + 1 /\ n + 2 \in 1 .. Len(bs_in) + 1
  BY <1>1
<1>4. BsItem(Expected)
  BY <1>3 DEF BsInv, BsTypes, Expected
<1>5. bs_size = at[n + 1]
  BY <1>1, <1>2 DEF BsReading
<1>6. /\ at[n + 1] \in Nat /\ at[n + 2] \in Nat /\ at[n + 2] <= bs_capacity
  BY <1>2, <1>3 DEF BsPlaced, BsEnd
<1>7. /\ at[n + 2] = at[n + 1] + Len(BsWritten(Expected))
      /\ \A i \in 1 .. Len(BsWritten(Expected)) :
            bs_data[at[n + 1] + i] = BsWritten(Expected)[i]
  <2>1. (n + 1) + 1 = n + 2
    BY <1>1
  <2> QED
    BY <1>2, <1>3, <2>1 DEF BsPlaced, Expected
<1>8. Len(BsWritten(Expected)) \in Nat
  BY <1>4, BsWrittenLength
<1> QED
  BY <1>1, <1>4, <1>5, <1>6, <1>7, <1>8

LEMMA BsGotStep ==
    ASSUME BsInv, bs_phase = "extract", Len(bs_out) < Len(bs_in), NEW item, NEW len,
           Got(item, len),
           Len(bs_out) + 1 <= bs_cut => item = Expected /\ len = Len(BsWritten(Expected))
    PROVE  BsInv'
<1> DEFINE n == Len(bs_out)
<1>1. PICK at : BsPlaced(at) /\ BsReading(at)
  BY DEF BsInv
<1>2. /\ bs_out' = Append(bs_out, item) /\ bs_size' = bs_size + len
      /\ UNCHANGED <<bs_data, bs_capacity, bs_phase, bs_in, bs_cut>>
  BY DEF Got
<1>3. /\ BsList(bs_out) /\ BsTypes /\ BsCut /\ n \in Nat /\ Len(bs_in) \in Nat /\ bs_cut \in Nat
  BY BsListed DEF BsInv, BsTypes
<1>4. /\ BsList(bs_out') /\ Len(bs_out') = n + 1
      /\ \A k \in 1 .. n : bs_out'[k] = bs_out[k]
      /\ bs_out'[n + 1] = item
  BY <1>2, <1>3, BsListed
<1>5. BsTypes' /\ BsCut' /\ BsWriting'
  BY <1>2, <1>3, <1>4 DEF BsTypes, BsCut, BsWriting
<1>6. BsPlaced(at)'
  BY <1>1, <1>2 DEF BsPlaced, BsEnd
<1>7. n + 1 <= bs_cut => bs_size + len = at[n + 2]
  <2> SUFFICES ASSUME n + 1 <= bs_cut PROVE bs_size + len = at[n + 2]
    OBVIOUS
  <2>1. bs_size = at[n + 1]
    BY <1>1, <1>3 DEF BsReading
  <2>2. n + 1 \in 1 .. Len(bs_in) /\ (n + 1) + 1 = n + 2
    BY <1>3
  <2>3. at[n + 2] = at[n + 1] + Len(BsWritten(bs_in[n + 1]))
    BY <1>1, <2>2 DEF BsPlaced
  <2> QED
    BY <2>1, <2>3 DEF Expected
<1>8. ASSUME NEW k \in 1 .. n + 1, k <= bs_cut PROVE bs_out'[k] = bs_in[k]
  <2>1. CASE k \in 1 .. n
    BY <1>1, <1>4, <1>8, <2>1 DEF BsReading
  <2>2. CASE k = n + 1
    BY <1>4, <1>8, <2>2 DEF Expected
  <2> QED
    BY <1>3, <2>1, <2>2
<1>9. BsReading(at)'
  <2>1. n + 1 <= Len(bs_in) /\ (n + 1) + 1 = n + 2
    BY <1>3
  <2> HIDE DEF n
  <2> QED
    BY <1>2, <1>4, <1>7, <1>8, <2>1 DEF BsReading
<1>10. (\E a : BsPlaced(a) /\ BsReading(a))'
  BY <1>6, <1>9
<1> QED
  BY <1>5, <1>10 DEF BsInv

LEMMA BsErrorStep ==
    ASSUME BsInv, bs_phase = "extract", Len(bs_out) < Len(bs_in), Error,
           Len(bs_out) + 1 <= bs_cut => Expected[1] = "string" /\ Len(Expected[2]) >= StringRoom
    PROVE  BsInv'
<1>1. PICK at : BsPlaced(at) /\ BsReading(at)
  BY DEF BsInv
<1>2. /\ bs_phase' = "unreadable"
      /\ UNCHANGED <<bs_data, bs_capacity, bs_size, bs_in, bs_out, bs_cut>>
  BY DEF Error
<1>3. /\ BsTypes /\ BsCut /\ Len(bs_out) \in Nat /\ Len(bs_in) \in Nat /\ bs_cut \in Nat
      /\ MaxItems \in Nat /\ Len(bs_in) <= MaxItems
  BY BsListed, BsConstants DEF BsInv, BsTypes
<1>4. BsTypes' /\ BsCut' /\ BsWriting'
  BY <1>2, <1>3 DEF BsTypes, BsCut, BsWriting
<1>5. Len(bs_out) = bs_cut \/ Len(bs_out) + 1 <= bs_cut
  BY <1>3 DEF BsCut
<1>6. Expected' = Expected
  BY <1>2 DEF Expected
<1>7. BsPlaced(at)' /\ BsReading(at)'
  BY <1>1, <1>2, <1>5, <1>6 DEF BsPlaced, BsEnd, BsReading
<1>8. (\E a : BsPlaced(a) /\ BsReading(a))'
  BY <1>7
<1> QED
  BY <1>4, <1>8 DEF BsInv

LEMMA BsInvExtract ==
    ASSUME BsInv, NEW kind \in BsKinds, Extract(kind)
    PROVE  BsInv'
<1> DEFINE order == InjectOrder[kind]
           v == BsDecoded(order, bs_size)
<1>1. bs_phase = "extract" /\ Len(bs_out) < Len(bs_in) /\ Expected[1] = kind
  BY DEF Extract, ToRead
<1>2. ExtractOrder[kind] = order
  BY BsOrdersAgree
<1>3. \/ ~Fits(Length(order)) /\ Error
      \/ Fits(Length(order)) /\ (kind = "led_color" /\ v.value > 7) /\ Error
      \/ Got(<<kind, v>>, Length(order))
  <2>1. IF ~Fits(Length(order)) THEN Error
        ELSE IF kind = "led_color" /\ v.value > 7 THEN Error
             ELSE Got(<<kind, v>>, Length(order))
    BY <1>2 DEF Extract, BsDecoded, BsFields
  <2> HIDE DEF order, v
  <2> QED
    BY <2>1
<1>4. ASSUME Len(bs_out) + 1 <= bs_cut
      PROVE  /\ Fits(Length(order)) /\ Expected = <<kind, v>> /\ ~(kind = "led_color" /\ v.value > 7)
             /\ Length(order) = Len(BsWritten(Expected))
  <2> DEFINE b == BsWritten(Expected)
  <2>1. /\ BsItem(Expected) /\ bs_size \in Nat /\ bs_capacity \in Nat
        /\ Len(b) \in Nat /\ bs_size + Len(b) <= bs_capacity
        /\ \A i \in 1 .. Len(b) : bs_data[bs_size + i] = b[i]
    BY <1>1, <1>4, BsAhead
  <2>2. \E u \in Samples[kind] : Expected = <<kind, u>> /\ ~(kind = "led_color" /\ u.value > 7)
    <3>1. kind # "string" /\ kind # "u8_array"
      BY BsKindNames
    <3> HIDE DEF Expected
    <3> QED
      BY <1>1, <2>1, <3>1 DEF BsItem
  <2>3. PICK u \in Samples[kind] : Expected = <<kind, u>> /\ ~(kind = "led_color" /\ u.value > 7)
    BY <2>2
  <2>4. /\ order \in Layouts /\ b = Encoded(order, u)
        /\ Len(b) = Length(order) /\ u \in [BsFields(order) -> Int]
        /\ \A k \in DOMAIN order : Representable(order[k][2], u[order[k][1]])
    BY <2>3, BsWrittenStructure
  <2> HIDE DEF b, order
  <2>5. \A p \in 1 .. Length(order) : bs_data[bs_size + p] = Encoded(order, u)[p]
    BY <2>1, <2>4
  <2>6. v = u
    BY <2>1, <2>4, <2>5, BsStructureRoundTrip
  <2> HIDE DEF v
  <2> QED
    BY <2>1, <2>3, <2>4, <2>6 DEF Fits, b
<1> HIDE DEF order, v
<1>5. CASE Error
  <2>1. ~(Len(bs_out) + 1 <= bs_cut)
    <3>1. CASE Got(<<kind, v>>, Length(order))
      <4>1. bs_phase' = bs_phase /\ bs_phase' = "unreadable"
        BY <1>1, <1>5, <3>1 DEF Got, Error
      <4> QED
        BY <1>1, <4>1
    <3> QED
      BY <1>3, <1>4, <3>1
  <2> QED
    BY <1>1, <1>5, <2>1, BsErrorStep
<1>6. CASE Got(<<kind, v>>, Length(order))
  BY <1>1, <1>4, <1>6, BsGotStep
<1> QED
  BY <1>3, <1>5, <1>6

LEMMA BsInvExtractString ==
    ASSUME BsInv, bytestream_extract_string
    PROVE  BsInv'
<1> DEFINE ends == { k \in 0 .. bs_capacity - 1 : bs_data[bs_size + k + 1] = NUL }
           in_len == IF ends = {} THEN bs_capacity
                     ELSE CHOOSE k \in ends : \A m \in ends : k <= m
           refused == ~Fits(0) \/ in_len >= bs_capacity \/ in_len >= StringRoom
           item == <<"string", SubSeq(bs_data, bs_size + 1, bs_size + in_len)>>
<1>1. bs_phase = "extract" /\ Len(bs_out) < Len(bs_in) /\ Expected[1] = "string"
  BY DEF bytestream_extract_string, ToRead
<1>2. IF refused THEN Error ELSE Got(item, in_len + 1)
  BY DEF bytestream_extract_string
<1>3. ASSUME Len(bs_out) + 1 <= bs_cut
      PROVE  /\ refused => Len(Expected[2]) >= StringRoom
             /\ item = Expected /\ in_len + 1 = Len(BsWritten(Expected))
  <2> DEFINE b == BsWritten(Expected)
             str == Expected[2]
  <2>1. /\ BsItem(Expected) /\ bs_size \in Nat /\ bs_capacity \in Nat
        /\ Len(b) \in Nat /\ bs_size + Len(b) <= bs_capacity
        /\ \A i \in 1 .. Len(b) : bs_data[bs_size + i] = b[i]
    BY <1>1, <1>3, BsAhead
  <2>2. str \in Strings /\ Expected = <<"string", str>>
    <3> DEFINE e == Expected
    <3>1. \E s \in Strings : e = <<"string", s>>
      <4> HIDE DEF e
      <4>1. BsItem(e) /\ e[1] = "string"
        BY <1>1, <2>1 DEF e
      <4> QED
        BY <4>1, BsKindNames DEF BsItem
    <3> HIDE DEF e
    <3>2. e[2] \in Strings /\ e = <<"string", e[2]>>
      BY <3>1
    <3> QED
      BY <3>2 DEF e
  <2> HIDE DEF str
  <2>3. /\ Len(str) \in Nat /\ \A i \in 1 .. Len(str) : str[i] # NUL
        /\ str \in Seq(Byte) /\ Len(b) = Len(str) + 1
        /\ \A i \in 1 .. Len(str) : b[i] = str[i]
        /\ b[Len(str) + 1] = NUL
    BY <2>2, BsWrittenString
  <2> HIDE DEF b
  <2>4. ASSUME NEW i \in 1 .. Len(str) PROVE bs_data[bs_size + i] = str[i]
    <3>1. i \in 1 .. Len(b)
      BY <2>3
    <3> QED
      BY <2>1, <2>3, <3>1
  <2>5. bs_data[bs_size + Len(str) + 1] = NUL
    <3>1. Len(str) + 1 \in 1 .. Len(b) /\ bs_size + (Len(str) + 1) = bs_size + Len(str) + 1
      BY <2>1, <2>3
    <3> QED
      BY <2>1, <2>3, <3>1
  <2>6. Len(str) \in ends
    BY <2>1, <2>3, <2>5
  <2>7. \A m \in ends : m \in Nat /\ Len(str) <= m
    <3> SUFFICES ASSUME NEW m \in ends PROVE m \in Nat /\ Len(str) <= m
      OBVIOUS
    <3>1. m \in Nat /\ bs_data[bs_size + m + 1] = NUL
      OBVIOUS
    <3>2. ~(m < Len(str))
      <4>1. SUFFICES ASSUME m < Len(str) PROVE FALSE
        OBVIOUS
      <4>2. m + 1 \in 1 .. Len(str) /\ bs_size + (m + 1) = bs_size + m + 1
        BY <2>1, <2>3, <3>1, <4>1
      <4> QED
        BY <2>3, <2>4, <3>1, <4>2
    <3> QED
      BY <2>3, <3>1, <3>2
  <2> HIDE DEF ends
  <2>8. in_len = Len(str)
    BY <2>3, <2>6, <2>7
  <2> HIDE DEF in_len
  <2>9. Len(str) < bs_capacity
    BY <2>1, <2>3
  <2>10. Fits(0)
    BY <2>1 DEF Fits
  <2>11. refused => Len(str) >= StringRoom
    BY <2>8, <2>9, <2>10, <2>3, <2>1
  <2>12. SubSeq(bs_data, bs_size + 1, bs_size + Len(str)) = str
    <3> DEFINE m == bs_size + 1
               n == bs_size + Len(str)
               t == SubSeq(bs_data, m, n)
    <3>1. m \in Int /\ n \in Int /\ n - m + 1 = Len(str)
          /\ \A i \in 1 .. Len(str) : m + i - 1 = bs_size + i
      BY <2>1, <2>3
    <3>2. \A j \in m .. n : bs_data[j] \in Byte
      <4> SUFFICES ASSUME NEW j \in m .. n PROVE bs_data[j] \in Byte
        OBVIOUS
      <4>1. j - bs_size \in 1 .. Len(str) /\ bs_size + (j - bs_size) = j
        BY <2>1, <2>3
      <4> QED
        BY <2>3, <2>4, <4>1
    <3>3. t \in Seq(Byte) /\ Len(t) = (IF m <= n THEN n - m + 1 ELSE 0)
          /\ \A i \in 1 .. n - m + 1 : t[i] = bs_data[m + i - 1]
      <4> HIDE DEF m, n
      <4> QED
        BY <3>1, <3>2, SubSeqProperties
    <3>4. Len(t) = Len(str)
      BY <2>1, <2>3, <3>3
    <3>5. \A i \in 1 .. Len(str) : t[i] = str[i]
      BY <2>4, <3>1, <3>3
    <3> HIDE DEF t
    <3>6. t = str
      BY <2>3, <3>3, <3>4, <3>5, SeqEqual
    <3> QED
      BY <3>6 DEF t
  <2>13. item = <<"string", str>>
    BY <2>8, <2>12
  <2> HIDE DEF item, refused
  <2> QED
    BY <2>2, <2>3, <2>8, <2>11, <2>13 DEF b, str
<1> HIDE DEF refused, item, in_len
<1>4. CASE refused
  BY <1>1, <1>2, <1>3, <1>4, BsErrorStep
<1>5. CASE ~refused
  BY <1>1, <1>2, <1>3, <1>5, BsGotStep
<1> QED
  BY <1>4, <1>5

LEMMA BsInvExtractBytes ==
    ASSUME BsInv, ExtractBytes
    PROVE  BsInv'
<1> DEFINE len == Len(Expected[2])
           item == <<"u8_array", SubSeq(bs_data, bs_size + 1, bs_size + len)>>
<1>1. bs_phase = "extract" /\ Len(bs_out) < Len(bs_in) /\ Expected[1] = "u8_array"
  BY DEF ExtractBytes, ToRead
<1>2. IF ~Fits(len) THEN Error ELSE Got(item, len)
  BY DEF ExtractBytes
<1>3. ASSUME Len(bs_out) + 1 <= bs_cut
      PROVE  Fits(len) /\ item = Expected /\ len = Len(BsWritten(Expected))
  <2> DEFINE bytes == Expected[2]
             b == BsWritten(Expected)
  <2>1. /\ BsItem(Expected) /\ bs_size \in Nat /\ bs_capacity \in Nat
        /\ Len(b) \in Nat /\ bs_size + Len(b) <= bs_capacity
        /\ \A i \in 1 .. Len(b) : bs_data[bs_size + i] = b[i]
    BY <1>1, <1>3, BsAhead
  <2>2. bytes \in Arrays /\ Expected = <<"u8_array", bytes>>
    <3> DEFINE e == Expected
    <3>1. \E s \in Arrays : e = <<"u8_array", s>>
      <4> HIDE DEF e
      <4>1. BsItem(e) /\ e[1] = "u8_array"
        BY <1>1, <2>1 DEF e
      <4> QED
        BY <4>1, BsKindNames DEF BsItem
    <3> HIDE DEF e
    <3>2. e[2] \in Arrays /\ e = <<"u8_array", e[2]>>
      BY <3>1
    <3> QED
      BY <3>2 DEF e
  <2>3. b = bytes /\ bytes \in Seq(Byte) /\ Len(bytes) \in Nat /\ len = Len(bytes)
    BY <2>2, BsWrittenArray
  <2> HIDE DEF bytes, b, len
  <2>4. SubSeq(bs_data, bs_size + 1, bs_size + len) = bytes
    <3> DEFINE m == bs_size + 1
               n == bs_size + len
               t == SubSeq(bs_data, m, n)
    <3>1. m \in Int /\ n \in Int /\ n - m + 1 = len
          /\ \A i \in 1 .. len : m + i - 1 = bs_size + i
      BY <2>1, <2>3
    <3>2. \A j \in m .. n : bs_data[j] \in Byte
      <4> SUFFICES ASSUME NEW j \in m .. n PROVE bs_data[j] \in Byte
        OBVIOUS
      <4>1. j - bs_size \in 1 .. len /\ bs_size + (j - bs_size) = j
        BY <2>1, <2>3
      <4> QED
        BY <2>1, <2>3, <4>1
    <3>3. t \in Seq(Byte) /\ Len(t) = (IF m <= n THEN n - m + 1 ELSE 0)
          /\ \A i \in 1 .. n - m + 1 : t[i] = bs_data[m + i - 1]
      <4> HIDE DEF m, n
      <4> QED
        BY <3>1, <3>2, SubSeqProperties
    <3>4. Len(t) = len
      BY <2>1, <2>3, <3>3
    <3>5. \A i \in 1 .. len : t[i] = bytes[i]
      BY <2>1, <2>3, <3>1, <3>3
    <3> HIDE DEF t
    <3>6. t = bytes
      BY <2>3, <3>3, <3>4, <3>5, SeqEqual
    <3> QED
      BY <3>6 DEF t
  <2> QED
    BY <2>1, <2>2, <2>3, <2>4 DEF Fits, b
<1> HIDE DEF item, len
<1>4. CASE ~Fits(len)
  BY <1>1, <1>2, <1>3, <1>4, BsErrorStep
<1>5. CASE Fits(len)
  BY <1>1, <1>2, <1>3, <1>5, BsGotStep
<1> QED
  BY <1>4, <1>5

LEMMA BsInvariance == BsSpec => []BsInv
<1>1. BsInit => BsInv
  BY BsInvInit
<1>2. BsInv /\ [BsNext]_bs_vars => BsInv'
  <2> SUFFICES ASSUME BsInv, [BsNext]_bs_vars PROVE BsInv'
    OBVIOUS
  <2>1. ASSUME NEW kind \in DOMAIN InjectOrder, NEW v \in Samples[kind], Inject(kind, v)
        PROVE  BsInv'
    BY <2>1, BsInvInject DEF BsKinds
  <2>2. ASSUME NEW str \in Strings, bytestream_inject_string(str) PROVE BsInv'
    BY <2>2, BsInvInjectString
  <2>3. ASSUME NEW bytes \in Arrays, bytestream_inject_u8_array(bytes) PROVE BsInv'
    BY <2>3, BsInvInjectArray
  <2>4. CASE bytestream_init
    BY <2>4, BsInvRestart
  <2>5. ASSUME NEW kind \in DOMAIN ExtractOrder, Extract(kind) PROVE BsInv'
    BY <2>5, BsInvExtract, BsOrdersAgree DEF BsKinds
  <2>6. CASE bytestream_extract_string
    BY <2>6, BsInvExtractString
  <2>7. CASE ExtractBytes
    BY <2>7, BsInvExtractBytes
  <2>8. CASE UNCHANGED bs_vars
    BY <2>8 DEF bs_vars, BsInv, BsTypes, BsCut, BsWriting, BsPlaced, BsEnd, BsReading, Expected
  <2> QED
    BY <2>1, <2>2, <2>3, <2>4, <2>5, <2>6, <2>7, <2>8 DEF BsNext
<1> QED
  BY <1>1, <1>2, PTL DEF BsSpec

(* What is injected is what is extracted, for every buffer, every program  *)
(* of injections and every value of every structure.                       *)
THEOREM ItemsComeBack == BsSpec => []BsRoundTrip
<1>1. BsInv => BsRoundTrip
  <2> SUFFICES ASSUME BsInv PROVE BsRoundTrip
    OBVIOUS
  <2>1. Len(bs_out) \in Nat /\ DOMAIN bs_out = 1 .. Len(bs_out)
        /\ bs_phase \in {"inject", "extract", "refused", "unreadable"}
    BY BsListed DEF BsInv, BsTypes
  <2>2. PICK at : BsReading(at)
    BY DEF BsInv
  <2>3. CASE bs_phase \in {"inject", "refused"}
    BY <2>1, <2>3 DEF BsInv, BsWriting, BsRoundTrip
  <2>4. CASE bs_phase \in {"extract", "unreadable"}
    BY <2>1, <2>2, <2>4 DEF BsReading, BsRoundTrip
  <2> QED
    BY <2>1, <2>3, <2>4
<1> QED
  BY <1>1, BsInvariance, PTL

(* Nothing is written past the end of the buffer, and a stream of whole    *)
(* items is read no further than its end.                                  *)
THEOREM StreamStaysWithin == BsSpec => []BsWithin
<1>1. BsInv => BsWithin
  <2> SUFFICES ASSUME BsInv, Len(bs_out) <= bs_cut PROVE bs_size <= bs_capacity
    BY DEF BsWithin
  <2>1. Len(bs_out) \in Nat /\ Len(bs_in) \in Nat
        /\ bs_phase \in {"inject", "extract", "refused", "unreadable"}
    BY BsListed DEF BsInv, BsTypes
  <2>2. PICK at : BsPlaced(at) /\ BsReading(at)
    BY DEF BsInv
  <2>3. CASE bs_phase \in {"inject", "refused"}
    BY <2>3 DEF BsInv, BsWriting
  <2>4. CASE bs_phase \in {"extract", "unreadable"}
    <3>1. Len(bs_out) + 1 \in 1 .. Len(bs_in) + 1 /\ bs_size = at[Len(bs_out) + 1]
      BY <2>1, <2>2, <2>4 DEF BsReading
    <3> QED
      BY <2>2, <2>4, <3>1 DEF BsPlaced, BsEnd
  <2> QED
    BY <2>1, <2>3, <2>4
<1> QED
  BY <1>1, BsInvariance, PTL

------------------------------------------------------------------------------
(* QueueIndex.                                                             *)

(* Every set of numbers has a least one.                                   *)
LEMMA LeastNumber ==
    ASSUME NEW T, T \subseteq Nat, T # {}
    PROVE  \E x \in T : \A y \in T : x <= y
<1> DEFINE R == OpToRel(<, Nat)
<1>1. \A x, y \in Nat : y < x => <<y, x>> \in R
  BY DEF OpToRel
<1>2. IsWellFoundedOn(R, Nat)
  BY NatLessThanWellFounded
<1> HIDE DEF R
<1>3. PICK x \in T : \A y \in T : ~ (<<y, x>> \in R)
  BY <1>2, WFMin
<1>4. ASSUME NEW y \in T PROVE x <= y
  <2>1. x \in Nat /\ y \in Nat
    OBVIOUS
  <2>2. ~(y < x)
    BY <1>1, <1>3, <2>1
  <2> QED
    BY <2>1, <2>2
<1> QED
  BY <1>4

(* What holds of 0 and, up to m, of every successor holds up to m.         *)
LEMMA UpTo ==
    ASSUME NEW m \in Nat, NEW S, 0 \in S, \A n \in 0 .. m - 1 : n \in S => n + 1 \in S
    PROVE  \A n \in 0 .. m : n \in S
<1> DEFINE T == { n \in 0 .. m : n \notin S }
<1> SUFFICES ASSUME T # {} PROVE FALSE
  OBVIOUS
<1>1. T \subseteq Nat
  OBVIOUS
<1> HIDE DEF T
<1>2. PICK x \in T : \A y \in T : x <= y
  BY <1>1, LeastNumber
<1>3. x \in 0 .. m /\ x \notin S /\ x # 0
  BY DEF T
<1>4. x - 1 \in 0 .. m /\ x - 1 \notin T
  BY <1>1, <1>2, <1>3
<1> QED
  BY <1>3, <1>4 DEF T
------------------------------------------------------------------------------
LEMMA WidthPositive == Width \in Nat /\ Width > 0
BY WidthAssumption

(* The weights are positive, and each divides those of the bits above it.  *)
LEMMA Weights ==
    /\ Weight[0] = 1
    /\ \A i \in 0 .. Width : Weight[i] \in Nat /\ Weight[i] > 0
    /\ \A i \in 0 .. Width - 1 : Weight[i + 1] = 2 * Weight[i]
<1> DEFINE S == { i \in 0 .. Width : Weight[i] > 0 }
<1>1. Width \in Nat /\ Weight[0] = 1 /\ 0 \in 0 .. Width
  BY WidthPositive, WeightAssumption
<1>2. \A i \in 0 .. Width : Weight[i] \in Nat
  BY WeightAssumption
<1>3. \A i \in 0 .. Width - 1 : Weight[i + 1] = 2 * Weight[i]
  BY WeightAssumption
<1>4. 0 \in S
  BY <1>1
<1>5. ASSUME NEW i \in 0 .. Width - 1, i \in S PROVE i + 1 \in S
  <2>1. i \in 0 .. Width /\ i + 1 \in 0 .. Width
    BY <1>1
  <2>2. Weight[i] \in Nat /\ Weight[i] > 0 /\ Weight[i + 1] = 2 * Weight[i]
    BY <1>2, <1>3, <1>5, <2>1
  <2> QED
    BY <2>1, <2>2
<1> HIDE DEF S
<1>6. \A i \in 0 .. Width : i \in S
  BY <1>1, <1>4, <1>5, UpTo
<1> QED
  BY <1>1, <1>2, <1>3, <1>6 DEF S

LEMMA WeightDivides ==
    ASSUME NEW i \in 0 .. Width, NEW j \in i .. Width
    PROVE  \E c \in Nat \ {0} : Weight[j] = c * Weight[i]
<1> DEFINE S == { d \in 0 .. Width - i : \E c \in Nat \ {0} : Weight[i + d] = c * Weight[i] }
           m == Width - i
<1>1. Width \in Nat /\ m \in Nat /\ Weight[i] \in Nat
  BY WidthPositive, Weights
<1>2. 0 \in S
  <2>1. 1 \in Nat \ {0} /\ i + 0 = i /\ Weight[i] = 1 * Weight[i] /\ 0 \in 0 .. Width - i
    BY <1>1
  <2> QED
    BY <2>1
<1>3. ASSUME NEW d \in 0 .. m - 1, d \in S PROVE d + 1 \in S
  <2>1. PICK c \in Nat \ {0} : Weight[i + d] = c * Weight[i]
    BY <1>3
  <2>2. i + d \in 0 .. Width - 1 /\ (i + d) + 1 = i + (d + 1) /\ d + 1 \in 0 .. Width - i
    BY <1>1
  <2>3. Weight[i + (d + 1)] = 2 * Weight[i + d]
    BY <2>2, Weights
  <2>4. Weight[i + (d + 1)] = (2 * c) * Weight[i] /\ 2 * c \in Nat \ {0}
    BY <1>1, <2>1, <2>3
  <2> QED
    BY <2>2, <2>4
<1> HIDE DEF S
<1>4. \A d \in 0 .. m : d \in S
  BY <1>1, <1>2, <1>3, UpTo
<1>5. j - i \in 0 .. m /\ i + (j - i) = j
  BY <1>1
<1>6. j - i \in S
  BY <1>4, <1>5
<1> QED
  BY <1>5, <1>6 DEF S

LEMMA WeightEven ==
    ASSUME NEW j \in 0 .. Width, NEW i \in 0 .. j - 1
    PROVE  \E c \in Nat \ {0} : Weight[j] = (2 * c) * Weight[i]
<1>1. Width \in Nat /\ i \in 0 .. Width - 1 /\ i \in 0 .. Width /\ i + 1 \in 0 .. Width
      /\ j \in i + 1 .. Width
  BY WidthPositive
<1>2. Weight[i] \in Nat /\ Weight[i + 1] = 2 * Weight[i]
  BY <1>1, Weights
<1>3. PICK c \in Nat \ {0} : Weight[j] = c * Weight[i + 1]
  BY <1>1, WeightDivides
<1>4. Weight[j] = (2 * c) * Weight[i]
  BY <1>2, <1>3
<1> QED
  BY <1>4

LEMMA WeightGrows ==
    ASSUME NEW i \in 0 .. Width, NEW j \in i .. Width
    PROVE  Weight[i] <= Weight[j]
<1>1. PICK c \in Nat \ {0} : Weight[j] = c * Weight[i]
  BY WeightDivides
<1>2. Weight[i] \in Nat /\ Width \in Nat
  BY Weights, WidthPositive
<1> QED
  BY <1>1, <1>2

(* A bit, from any decomposition of a number by the bit's weight.          *)
LEMMA BitOf ==
    ASSUME NEW i \in 0 .. Width, NEW n \in Int, NEW h \in Int, NEW b \in {0, 1},
           NEW r \in 0 .. Weight[i] - 1, n = Weight[i] * (2 * h + b) + r
    PROVE  Bit(n, i) = b
<1> DEFINE w == Weight[i]
           q == 2 * h + b
<1>1. w \in Nat /\ w > 0
  BY Weights
<1>2. q \in Int /\ n = w * q + r /\ r \in 0 .. w - 1
  OBVIOUS
<1>3. q = 2 * h + b /\ b \in 0 .. 2 - 1 /\ 2 \in Nat /\ 2 > 0
  OBVIOUS
<1> HIDE DEF w, q
<1>4. n \div w = q
  BY <1>1, <1>2, DivUnique
<1>5. q % 2 = b
  BY <1>2, <1>3, ModUnique
<1> QED
  BY <1>4, <1>5 DEF Bit, w

LEMMA BitParts ==
    ASSUME NEW i \in 0 .. Width, NEW n \in Int
    PROVE  \E h \in Int, r \in 0 .. Weight[i] - 1 :
              /\ Bit(n, i) \in {0, 1}
              /\ n = Weight[i] * (2 * h + Bit(n, i)) + r
              /\ n \div Weight[i] = 2 * h + Bit(n, i)
<1> DEFINE w == Weight[i]
           q == n \div w
           r == n % w
           h == q \div 2
           b == q % 2
<1>1. w \in Nat /\ w > 0
  BY Weights
<1>2. q \in Int /\ r \in 0 .. w - 1 /\ n = w * q + r
  BY <1>1, DivMod
<1>3. h \in Int /\ b \in 0 .. 2 - 1 /\ q = 2 * h + b
  <2>1. 2 \in Nat /\ 2 > 0 /\ q \in Int
    BY <1>2
  <2> HIDE DEF q
  <2> QED
    BY <2>1, DivMod
<1>4. Bit(n, i) = b
  BY DEF Bit
<1>5. b \in {0, 1}
  BY <1>3
<1> HIDE DEF q, r, h, b
<1>6. n = w * (2 * h + b) + r
  BY <1>2, <1>3
<1> QED
  BY <1>2, <1>3, <1>4, <1>5, <1>6 DEF q

(* Multiples of twice a bit's weight leave it as it is.                    *)
LEMMA BitAbove ==
    ASSUME NEW i \in 0 .. Width, NEW n \in Int, NEW c \in Int
    PROVE  Bit(n + (2 * c) * Weight[i], i) = Bit(n, i)
<1> DEFINE w == Weight[i]
           b == Bit(n, i)
<1>1. PICK h \in Int, r \in 0 .. w - 1 : b \in {0, 1} /\ n = w * (2 * h + b) + r
  BY BitParts
<1>2. w \in Nat
  BY Weights
<1> HIDE DEF b
<1>3. n + (2 * c) * w = w * (2 * (h + c) + b) + r /\ h + c \in Int
  BY <1>1, <1>2
<1>4. n + (2 * c) * w \in Int
  BY <1>2
<1> QED
  BY <1>1, <1>3, <1>4, BitOf DEF b

LEMMA NoBitAbove ==
    ASSUME NEW i \in 0 .. Width, NEW n \in Nat, n < Weight[i]
    PROVE  Bit(n, i) = 0
<1>1. Weight[i] \in Nat
  BY Weights
<1>2. n \in 0 .. Weight[i] - 1 /\ n = Weight[i] * (2 * 0 + 0) + n /\ n \in Int
      /\ 0 \in Int /\ 0 \in {0, 1}
  BY <1>1
<1> QED
  BY <1>2, BitOf

LEMMA LeadingBit ==
    ASSUME NEW i \in 0 .. Width, NEW n \in Nat, Weight[i] <= n, n < 2 * Weight[i]
    PROVE  Bit(n, i) = 1
<1>1. Weight[i] \in Nat
  BY Weights
<1>2. n - Weight[i] \in 0 .. Weight[i] - 1 /\ n = Weight[i] * (2 * 0 + 1) + (n - Weight[i])
      /\ n \in Int /\ 0 \in Int /\ 1 \in {0, 1}
  BY <1>1
<1> QED
  BY <1>2, BitOf

(* The bits of a power of two, and of the mask below it.                   *)
LEMMA BitsOfPower ==
    ASSUME NEW k \in 0 .. Width, NEW i \in 0 .. k - 1
    PROVE  Bit(Weight[k], i) = 0 /\ Bit(Weight[k] - 1, i) = 1
<1> DEFINE w == Weight[i]
<1>1. PICK c \in Nat \ {0} : Weight[k] = (2 * c) * w
  BY WeightEven
<1>2. w \in Nat /\ w > 0 /\ i \in 0 .. Width /\ Weight[k] \in Nat /\ Weight[k] > 0
  <2>1. i \in 0 .. Width
    BY WidthPositive
  <2> QED
    BY <2>1, Weights
<1>3. Bit(Weight[k], i) = 0
  <2>1. Weight[k] = w * (2 * c + 0) + 0 /\ 0 \in 0 .. w - 1 /\ 0 \in {0, 1} /\ c \in Int
        /\ Weight[k] \in Int
    BY <1>1, <1>2
  <2> QED
    BY <1>2, <2>1, BitOf
<1>4. Bit(Weight[k] - 1, i) = 1
  <2> DEFINE n == Weight[k] - 1
  <2>1. n = w * (2 * (c - 1) + 1) + (w - 1)
    BY <1>1, <1>2
  <2>2. w - 1 \in 0 .. w - 1 /\ 1 \in {0, 1} /\ c - 1 \in Int /\ n \in Int
    BY <1>1, <1>2
  <2> HIDE DEF n
  <2>3. Bit(n, i) = 1
    BY <1>2, <2>1, <2>2, BitOf
  <2> QED
    BY <2>3 DEF n
<1> QED
  BY <1>3, <1>4

LEMMA WordSize2 ==
    /\ WordMod \in Nat /\ WordMod > 0
    /\ \A n \in Words : n \in Nat /\ n < Weight[Width]
    /\ 0 \in Words
<1>1. Width \in 0 .. Width
  BY WidthPositive
<1>2. Weight[Width] \in Nat /\ Weight[Width] > 0
  BY <1>1, Weights
<1> QED
  BY <1>2 DEF WordMod, Words

(* Words of the same bits are the same.                                    *)
LEMMA SameBits ==
    ASSUME NEW a \in Words, NEW b \in Words, \A i \in 0 .. Width - 1 : Bit(a, i) = Bit(b, i)
    PROVE  a = b
<1> DEFINE S == { d \in 0 .. Width : a \div Weight[Width - d] = b \div Weight[Width - d] }
<1>1. a \in Nat /\ b \in Nat /\ a < Weight[Width] /\ b < Weight[Width] /\ Width \in Nat
  BY WordSize2, WidthPositive
<1>2. ASSUME NEW n \in Nat, n < Weight[Width] PROVE n \div Weight[Width] = 0
  <2>1. Width \in 0 .. Width
    BY <1>1
  <2>2. Weight[Width] \in Nat /\ Weight[Width] > 0
    BY <2>1, Weights
  <2>3. n \in Int /\ 0 \in Int /\ n \in 0 .. Weight[Width] - 1 /\ n = Weight[Width] * 0 + n
    BY <1>2, <2>2
  <2> QED
    BY <2>2, <2>3, DivUnique
<1>3. 0 \in S
  <2>1. Width - 0 = Width /\ 0 \in 0 .. Width
    BY <1>1
  <2>2. a \div Weight[Width] = b \div Weight[Width]
    BY <1>1, <1>2
  <2> QED
    BY <2>1, <2>2
<1>4. ASSUME NEW d \in 0 .. Width - 1, d \in S PROVE d + 1 \in S
  <2> DEFINE i == Width - (d + 1)
             w == Weight[i]
  <2>1. i \in 0 .. Width - 1 /\ i \in 0 .. Width /\ i + 1 = Width - d /\ d + 1 \in 0 .. Width
        /\ i + 1 \in 0 .. Width
    BY <1>1
  <2>2. w \in Nat /\ w > 0 /\ Weight[i + 1] = 2 * w
    BY <2>1, Weights
  <2>3. a \div Weight[i + 1] = b \div Weight[i + 1]
    BY <1>4, <2>1
  <2>4. Bit(a, i) = Bit(b, i)
    BY <2>1
  <2>5. ASSUME NEW n \in Nat
        PROVE  n \div w = 2 * (n \div (2 * w)) + Bit(n, i)
    <3>1. n \in Int
      OBVIOUS
    <3>2. PICK h \in Int, r \in 0 .. w - 1 :
             /\ Bit(n, i) \in {0, 1}
             /\ n = w * (2 * h + Bit(n, i)) + r
             /\ n \div w = 2 * h + Bit(n, i)
      BY <2>1, <3>1, BitParts
    <3> DEFINE e == Bit(n, i)
               s == w * e + r
    <3> HIDE DEF e, w, i
    <3>3. e \in {0, 1}
      BY <3>2 DEF e
    <3>4. s \in 0 .. 2 * w - 1
      <4>1. CASE e = 0
        BY <2>2, <4>1
      <4>2. CASE e = 1
        BY <2>2, <4>2
      <4> QED
        BY <3>3, <4>1, <4>2
    <3>5. n = (2 * w) * h + s
      <4>1. n = w * (2 * h + e) + r
        BY <3>2 DEF e
      <4>2. w * (2 * h + e) = (2 * w) * h + w * e
        BY <2>2, <3>3
      <4>3. w * e \in Int /\ (2 * w) * h \in Int
        BY <2>2, <3>3
      <4> QED
        BY <4>1, <4>2, <4>3
    <3>6. 2 * w \in Nat /\ 2 * w > 0
      BY <2>2
    <3> HIDE DEF s
    <3>7. n \div (2 * w) = h
      BY <3>1, <3>4, <3>5, <3>6, DivUnique
    <3> QED
      BY <3>2, <3>7
  <2> HIDE DEF w, i
  <2>6. a \div w = b \div w
    BY <1>1, <2>2, <2>3, <2>4, <2>5
  <2> QED
    BY <2>1, <2>6 DEF w, i
<1> HIDE DEF S
<1>5. \A d \in 0 .. Width : d \in S
  BY <1>1, <1>3, <1>4, UpTo
<1>6. Width \in 0 .. Width /\ Width - Width = 0
  BY <1>1
<1>7. a \div Weight[0] = b \div Weight[0]
  BY <1>5, <1>6 DEF S
<1>8. a \div 1 = b \div 1
  BY <1>7, Weights
<1> QED
  BY <1>1, <1>8

(* Every set of bits is the set of bits of a word.                         *)
LEMMA WordOfBits ==
    ASSUME NEW B, B \subseteq 0 .. Width - 1
    PROVE  \E r \in Words : \A i \in 0 .. Width - 1 : Bit(r, i) = 1 <=> i \in B
<1> DEFINE Has(r, j) == \A i \in 0 .. Width - 1 : Bit(r, i) = 1 <=> i \in B /\ i < j
           S == { j \in 0 .. Width : \E r \in 0 .. Weight[j] - 1 : Has(r, j) }
<1>1. Width \in Nat
  BY WidthPositive
<1>2. 0 \in S
  <2>1. 0 \in 0 .. Weight[0] - 1 /\ 0 \in 0 .. Width
    BY <1>1, Weights
  <2>2. ASSUME NEW i \in 0 .. Width - 1 PROVE Bit(0, i) # 1 /\ ~(i < 0)
    <3>1. i \in 0 .. Width
      BY <1>1
    <3>2. 0 \in Nat /\ 0 < Weight[i]
      BY <3>1, Weights
    <3> QED
      BY <1>1, <3>1, <3>2, NoBitAbove
  <2> QED
    BY <2>1, <2>2
<1>3. ASSUME NEW j \in 0 .. Width - 1, j \in S PROVE j + 1 \in S
  <2> DEFINE w == Weight[j]
  <2>1. PICK r \in 0 .. w - 1 : Has(r, j)
    BY <1>3
  <2>2. j \in 0 .. Width /\ j + 1 \in 0 .. Width
    BY <1>1
  <2>3. w \in Nat /\ w > 0 /\ Weight[j + 1] = 2 * w
    BY <2>2, Weights
  <2>4. r \in Nat /\ r < w /\ r \in 0 .. Weight[j + 1] - 1
    BY <2>3
  <2>5. CASE j \notin B
    <3>1. Has(r, j + 1)
      <4> SUFFICES ASSUME NEW i \in 0 .. Width - 1
                   PROVE  i \in B /\ i < j <=> i \in B /\ i < j + 1
        BY <2>1
      <4> QED
        BY <1>1, <2>5
    <3> QED
      BY <2>2, <2>4, <3>1
  <2>6. CASE j \in B
    <3> DEFINE s == r + w
    <3>1. s \in 0 .. Weight[j + 1] - 1 /\ s \in Nat /\ w <= s /\ s < 2 * w
      BY <2>3, <2>4
    <3>2. ASSUME NEW i \in 0 .. Width - 1
          PROVE  Bit(s, i) = 1 <=> i \in B /\ i < j + 1
      <4>0. i \in 0 .. Width
        BY <1>1
      <4>1. CASE i < j
        <5>1. i \in 0 .. j - 1
          BY <4>1
        <5>2. PICK c \in Nat \ {0} : w = (2 * c) * Weight[i]
          BY <2>2, <5>1, WeightEven
        <5>3. Bit(r + (2 * c) * Weight[i], i) = Bit(r, i)
          <6>1. r \in Int /\ c \in Int
            BY <2>4
          <6> QED
            BY <4>0, <6>1, BitAbove
        <5>4. Bit(s, i) = Bit(r, i)
          BY <5>2, <5>3
        <5> QED
          BY <2>1, <4>1, <5>4
      <4>2. CASE i = j
        <5>1. Bit(s, i) = 1
          <6> HIDE DEF s
          <6> QED
            BY <2>2, <3>1, <4>2, LeadingBit
        <5> QED
          BY <2>6, <4>2, <5>1
      <4>3. CASE i > j
        <5>1. j + 1 \in 0 .. Width /\ i \in j + 1 .. Width
          BY <1>1, <4>3
        <5>2. Weight[j + 1] <= Weight[i] /\ Weight[i] \in Nat
          BY <4>0, <5>1, WeightGrows, Weights
        <5>3. s < Weight[i]
          BY <2>3, <3>1, <5>2
        <5>4. Bit(s, i) = 0
          <6> HIDE DEF s
          <6> QED
            BY <3>1, <4>0, <5>3, NoBitAbove
        <5> QED
          BY <4>3, <5>4
      <4> QED
        BY <4>1, <4>2, <4>3
    <3>3. Has(s, j + 1)
      BY <3>2
    <3> HIDE DEF s
    <3> QED
      BY <2>2, <3>1, <3>3
  <2> QED
    BY <2>5, <2>6
<1> HIDE DEF S
<1>4. \A j \in 0 .. Width : j \in S
  BY <1>1, <1>2, <1>3, UpTo
<1>5. Width \in S
  BY <1>1, <1>4
<1>6. PICK r \in 0 .. Weight[Width] - 1 : Has(r, Width)
  BY <1>5 DEF S
<1>7. r \in Words
  BY DEF Words, WordMod
<1>8. \A i \in 0 .. Width - 1 : Bit(r, i) = 1 <=> i \in B
  BY <1>1, <1>6
<1> QED
  BY <1>7, <1>8

(* So & is the one word with the bits that both have.                      *)
LEMMA AndBits ==
    ASSUME NEW a, NEW b
    PROVE  /\ And(a, b) \in Words
           /\ \A i \in 0 .. Width - 1 :
                 Bit(And(a, b), i) = 1 <=> Bit(a, i) = 1 /\ Bit(b, i) = 1
<1> DEFINE B == { i \in 0 .. Width - 1 : Bit(a, i) = 1 /\ Bit(b, i) = 1 }
<1>1. \E r \in Words : \A i \in 0 .. Width - 1 : Bit(r, i) = 1 <=> i \in B
  BY WordOfBits
<1>2. \E r \in Words : \A i \in 0 .. Width - 1 :
         Bit(r, i) = 1 <=> Bit(a, i) = 1 /\ Bit(b, i) = 1
  BY <1>1
<1> QED
  BY <1>2 DEF And

LEMMA AndIs ==
    ASSUME NEW a, NEW b, NEW r \in Words,
           \A i \in 0 .. Width - 1 : Bit(r, i) = 1 <=> Bit(a, i) = 1 /\ Bit(b, i) = 1
    PROVE  And(a, b) = r
<1> DEFINE s == And(a, b)
<1>1. s \in Words /\ \A i \in 0 .. Width - 1 : Bit(s, i) = 1 <=> Bit(r, i) = 1
  BY AndBits
<1> HIDE DEF s
<1>2. ASSUME NEW n \in Words, NEW i \in 0 .. Width - 1 PROVE Bit(n, i) \in {0, 1}
  <2>1. i \in 0 .. Width /\ n \in Int
    BY WidthPositive, WordSize2
  <2> QED
    BY <2>1, BitParts
<1>3. \A i \in 0 .. Width - 1 : Bit(s, i) = Bit(r, i)
  BY <1>1, <1>2
<1>4. s = r
  BY <1>1, <1>3, SameBits
<1> QED
  BY <1>4 DEF s

(* Masking is the remainder.                                               *)
LEMMA MaskIsRemainder ==
    ASSUME NEW k \in 0 .. Width, NEW a \in Words
    PROVE  And(a, Weight[k] - 1) = a % Weight[k]
<1> DEFINE c == Weight[k]
           q == a \div c
           r == a % c
<1>1. c \in Nat /\ c > 0 /\ a \in Nat /\ a \in Int /\ Width \in Nat
  BY Weights, WordSize2, WidthPositive
<1>2. r \in 0 .. c - 1 /\ q \in Int /\ a = c * q + r
  BY <1>1, DivMod
<1> HIDE DEF r, q
<1>3. r \in Words
  <2>1. k \in 0 .. Width /\ Width \in k .. Width /\ Width \in 0 .. Width
    BY <1>1
  <2>2. c <= Weight[Width] /\ Weight[Width] \in Nat
    BY <2>1, WeightGrows, Weights
  <2> QED
    BY <1>1, <1>2, <2>2 DEF Words, WordMod
<1>4. ASSUME NEW i \in 0 .. Width - 1
      PROVE  Bit(r, i) = 1 <=> Bit(a, i) = 1 /\ Bit(c - 1, i) = 1
  <2>1. i \in 0 .. Width
    BY <1>1
  <2>2. CASE i < k
    <3>1. i \in 0 .. k - 1
      BY <2>2
    <3>2. Bit(c - 1, i) = 1
      BY <3>1, BitsOfPower
    <3>3. PICK e \in Nat \ {0} : c = (2 * e) * Weight[i]
      BY <3>1, WeightEven
    <3>4. Weight[i] \in Nat
      BY <2>1, Weights
    <3> DEFINE w == Weight[i]
    <3> HIDE DEF w, c
    <3>5. a = r + (2 * (e * q)) * w /\ e * q \in Int
      <4>1. c = (2 * e) * w /\ w \in Nat
        BY <3>3, <3>4 DEF w
      <4>2. e \in Int /\ q \in Int /\ r \in Int
        BY <1>2
      <4>3. c * q = (2 * (e * q)) * w /\ c * q \in Int /\ e * q \in Int
        BY <4>1, <4>2
      <4>4. a = r + c * q
        BY <1>2, <4>2, <4>3
      <4> QED
        BY <4>3, <4>4
    <3>6. r \in Int
      BY <1>2
    <3>7. Bit(r + (2 * (e * q)) * w, i) = Bit(r, i)
      BY <2>1, <3>5, <3>6, BitAbove DEF w
    <3> QED
      BY <3>2, <3>5, <3>7 DEF c
  <2>3. CASE ~(i < k)
    <3>1. i \in k .. Width
      BY <1>1, <2>3
    <3>2. c <= Weight[i] /\ Weight[i] \in Nat
      BY <2>1, <3>1, WeightGrows, Weights
    <3>3. r \in Nat /\ r < Weight[i] /\ c - 1 \in Nat /\ c - 1 < Weight[i]
      BY <1>1, <1>2, <3>2
    <3> HIDE DEF c
    <3>4. Bit(r, i) = 0
      BY <2>1, <3>3, NoBitAbove
    <3>5. Bit(c - 1, i) = 0
      BY <2>1, <3>3, NoBitAbove
    <3> QED
      BY <3>4, <3>5
  <2> QED
    BY <2>2, <2>3
<1> QED
  BY <1>3, <1>4, AndIs DEF r

(* The test of queue_init: n - 1 and n share no bit if n is a power of     *)
(* two, and share the leading one of n otherwise.                          *)
LEMMA TestOfPower ==
    ASSUME NEW n \in Words
    PROVE  Accepted(n) <=> \E k \in 1 .. Width - 1 : n = Weight[k]
<1>1. n \in Nat /\ n < Weight[Width] /\ Width \in Nat /\ Width > 0 /\ WordMod \in Nat
  BY WordSize2, WidthPositive
<1>2. n > 0 => (n - 1) % WordMod = n - 1
  BY <1>1 DEF WordMod
<1>3. ASSUME NEW k \in 1 .. Width - 1, n = Weight[k] PROVE Accepted(n)
  <2>1. k \in 0 .. Width /\ k \in 1 .. Width /\ 1 \in 0 .. Width /\ 0 \in 0 .. Width - 1
    BY <1>1
  <2>2. n > 1
    <3>1. Weight[0 + 1] = 2 * Weight[0] /\ Weight[0] = 1
      BY <2>1, Weights
    <3>2. Weight[1] <= Weight[k]
      BY <2>1, WeightGrows
    <3> QED
      BY <1>1, <1>3, <3>1, <3>2
  <2>3. ASSUME NEW i \in 0 .. Width - 1 PROVE ~(Bit(n - 1, i) = 1 /\ Bit(n, i) = 1)
    <3>1. CASE i < k
      <4>1. i \in 0 .. k - 1
        BY <3>1
      <4> QED
        BY <1>3, <2>1, <4>1, BitsOfPower
    <3>2. CASE ~(i < k)
      <4>1. i \in 0 .. Width /\ i \in k .. Width
        BY <1>1, <3>2
      <4>2. Weight[k] <= Weight[i] /\ Weight[i] \in Nat
        BY <2>1, <4>1, WeightGrows, Weights
      <4>3. n - 1 \in Nat /\ n - 1 < Weight[i]
        BY <1>1, <1>3, <2>2, <4>2
      <4>4. Bit(n - 1, i) = 0
        BY <4>1, <4>3, NoBitAbove
      <4> QED
        BY <4>4
    <3> QED
      BY <1>1, <3>1, <3>2
  <2>4. ASSUME NEW i \in 0 .. Width - 1 PROVE Bit(0, i) # 1
    <3>1. i \in 0 .. Width
      BY <1>1
    <3>2. 0 \in Nat /\ 0 < Weight[i]
      BY <3>1, Weights
    <3> QED
      BY <3>1, <3>2, NoBitAbove
  <2>5. And(n - 1, n) = 0
    BY <2>3, <2>4, WordSize2, AndIs
  <2> QED
    BY <1>2, <2>2, <2>5, <1>1 DEF Accepted, PowerOfTwo
<1>4. ASSUME Accepted(n) PROVE \E k \in 1 .. Width - 1 : n = Weight[k]
  <2>1. n > 1 /\ And(n - 1, n) = 0
    BY <1>1, <1>2, <1>4 DEF Accepted, PowerOfTwo
  <2> DEFINE T == { i \in 0 .. Width : n < Weight[i] }
  <2>2. T \subseteq Nat /\ Width \in T
    BY <1>1
  <2> HIDE DEF T
  <2>3. PICK t \in T : \A y \in T : t <= y
    BY <2>2, LeastNumber
  <2> DEFINE k == t - 1
  <2>4. t \in 0 .. Width /\ n < Weight[t] /\ t # 0
    BY <1>1, <2>1, <2>3, Weights DEF T
  <2>5. k \in 0 .. Width - 1 /\ k \in 0 .. Width /\ k \notin T /\ k + 1 = t
    BY <1>1, <2>2, <2>3, <2>4
  <2> HIDE DEF k
  <2>6. Weight[k] \in Nat /\ Weight[k + 1] = 2 * Weight[k] /\ Weight[k] <= n /\ n < 2 * Weight[k]
    <3>1. Weight[k] \in Nat /\ Weight[k + 1] = 2 * Weight[k]
      BY <2>5, Weights
    <3>2. ~(n < Weight[k])
      BY <2>5 DEF T
    <3> QED
      BY <1>1, <2>4, <2>5, <3>1, <3>2
  <2>7. n = Weight[k]
    <3> SUFFICES ASSUME n # Weight[k] PROVE FALSE
      OBVIOUS
    <3>1. n - 1 \in Nat /\ Weight[k] <= n - 1 /\ n - 1 < 2 * Weight[k]
      BY <1>1, <2>1, <2>6
    <3>2. Bit(n - 1, k) = 1 /\ Bit(n, k) = 1
      BY <1>1, <2>5, <2>6, <3>1, LeadingBit
    <3>3. Bit(0, k) = 1
      BY <2>1, <2>5, <3>2, AndBits
    <3>4. 0 \in Nat /\ 0 < Weight[k]
      BY <2>5, Weights
    <3> QED
      BY <2>5, <3>3, <3>4, NoBitAbove
  <2>8. k # 0
    BY <2>1, <2>7, Weights
  <2>9. k \in 1 .. Width - 1
    BY <1>1, <2>5, <2>8
  <2> QED
    BY <2>7, <2>9
<1> QED
  BY <1>3, <1>4
------------------------------------------------------------------------------
(* The invariant of the queue's indices.                                   *)
QiInv ==
    /\ capacity \in Words /\ write_index \in Words /\ read_index \in Words
    /\ status \in {"new", "ready", "error"}
    /\ status = "ready" => \E k \in 1 .. Width - 1 : capacity = Weight[k] /\ mask = capacity - 1
    /\ status = "error" => ~ \E k \in 1 .. Width - 1 : capacity = Weight[k]

LEMMA QiInvariance == QiSpec => []QiInv
<1>1. QiInit => QiInv
  BY WordSize2 DEF QiInit, QiInv
<1>2. QiInv /\ [QiNext]_qi_vars => QiInv'
  <2> SUFFICES ASSUME QiInv, [QiNext]_qi_vars PROVE QiInv'
    OBVIOUS
  <2>1. \A n \in Words : Increment(n) \in Words
    BY WordSize2 DEF Increment, Words
  <2>2. CASE queue_init
    <3>1. Accepted(capacity) <=> \E k \in 1 .. Width - 1 : capacity = Weight[k]
      BY TestOfPower DEF QiInv
    <3>2. UNCHANGED <<capacity, write_index, read_index>>
          /\ IF Accepted(capacity) THEN status' = "ready" /\ mask' = capacity - 1
             ELSE status' = "error"
      BY <2>2 DEF queue_init
    <3> QED
      BY <3>1, <3>2 DEF QiInv
  <2>3. CASE Push
    BY <2>1, <2>3 DEF Push, QiInv
  <2>4. CASE Pop
    BY <2>1, <2>4 DEF Pop, QiInv
  <2>5. CASE UNCHANGED qi_vars
    BY <2>5 DEF qi_vars, QiInv
  <2> QED
    BY <2>2, <2>3, <2>4, <2>5 DEF QiNext
<1> QED
  BY <1>1, <1>2, PTL DEF QiSpec

(* queue_init lets through exactly the powers of two above one, for every  *)
(* width of the word.                                                      *)
THEOREM PowersAccepted == QiSpec => []AcceptsPowersOfTwo
<1>1. QiInv => AcceptsPowersOfTwo
  BY DEF QiInv, AcceptsPowersOfTwo
<1> QED
  BY <1>1, QiInvariance, PTL

(* Increments modulo the word are increments modulo the capacity.          *)
LEMMA SlotAfter ==
    ASSUME NEW k \in 1 .. Width - 1, NEW n \in Words
    PROVE  And(Increment(n), Weight[k] - 1) = (And(n, Weight[k] - 1) + 1) % Weight[k]
<1> DEFINE c == Weight[k]
<1>1. Width \in Nat /\ k \in 0 .. Width /\ Width \in k .. Width
  BY WidthPositive
<1>2. c \in Nat /\ c > 0
  BY <1>1, Weights
<1>3. WordMod \in Nat /\ WordMod > 0 /\ n \in Nat /\ n + 1 \in Int
  BY WordSize2
<1>4. PICK d \in Nat \ {0} : WordMod = d * c
  BY <1>1, WeightDivides DEF WordMod
<1> DEFINE next == Increment(n)
           q == (n + 1) \div WordMod
<1>5. next \in Words /\ next \in Int /\ q \in Int /\ n + 1 = WordMod * q + next
  <2>1. (n + 1) % WordMod \in 0 .. WordMod - 1 /\ (n + 1) \div WordMod \in Int
        /\ n + 1 = WordMod * ((n + 1) \div WordMod) + ((n + 1) % WordMod)
    BY <1>3, DivMod
  <2> QED
    BY <1>3, <2>1 DEF Increment, Words
<1>6. And(next, c - 1) = next % c /\ And(n, c - 1) = n % c
  BY <1>1, <1>5, MaskIsRemainder
<1> HIDE DEF next, q, c
<1>7. next % c = (n + 1) % c
  <2>1. n + 1 = next + c * (d * q) /\ d * q \in Int
    <3>1. d \in Int /\ q \in Int /\ c \in Int
      BY <1>2, <1>5
    <3>2. WordMod * q = c * (d * q) /\ d * q \in Int /\ c * (d * q) \in Int
      BY <1>4, <3>1
    <3> QED
      BY <1>3, <1>5, <3>2
  <2>2. (n + 1) % c = next % c
    BY <1>2, <1>3, <1>5, <2>1, ModShift
  <2> QED
    BY <2>2
<1>8. (n + 1) % c = ((n % c) + 1) % c
  <2> DEFINE r == n % c
             p == n \div c
  <2>1. r \in 0 .. c - 1 /\ p \in Int /\ n = c * p + r
    BY <1>2, <1>3, DivMod
  <2> HIDE DEF r, p
  <2>2. n + 1 = (r + 1) + c * p /\ r + 1 \in Int
    <3>1. c * p \in Int
      BY <1>2, <2>1
    <3> QED
      BY <1>3, <2>1, <3>1
  <2>3. (n + 1) % c = (r + 1) % c
    BY <1>2, <1>3, <2>1, <2>2, ModShift
  <2> QED
    BY <2>3 DEF r
<1> QED
  BY <1>6, <1>7, <1>8 DEF next, c

(* Masked, the free-running indices walk the slots round and round, for    *)
(* every width of the word and every capacity accepted.                    *)
THEOREM SlotsFollow == QiSpec => SlotsInOrder
<1> DEFINE Ordered ==
        /\ write_index' # write_index =>
             queue_index(write_index)' = (queue_index(write_index) + 1) % capacity
        /\ read_index' # read_index =>
             queue_index(read_index)' = (queue_index(read_index) + 1) % capacity
<1>1. QiInv /\ [QiNext]_qi_vars => [Ordered]_qi_vars
  <2> SUFFICES ASSUME QiInv, QiNext PROVE Ordered
    OBVIOUS
  <2>1. CASE queue_init
    BY <2>1 DEF queue_init
  <2>2. ASSUME status = "ready", mask' = mask, NEW n \in Words
        PROVE  And(Increment(n), mask') = (And(n, mask) + 1) % capacity
    <3>1. PICK k \in 1 .. Width - 1 : capacity = Weight[k] /\ mask = Weight[k] - 1
      BY <2>2 DEF QiInv
    <3> QED
      BY <2>2, <3>1, SlotAfter
  <2>3. CASE Push
    <3>1. status = "ready" /\ mask' = mask /\ write_index' = Increment(write_index)
          /\ read_index' = read_index /\ write_index \in Words
      BY <2>3 DEF Push, QiInv
    <3> QED
      BY <2>2, <3>1 DEF queue_index
  <2>4. CASE Pop
    <3>1. status = "ready" /\ mask' = mask /\ read_index' = Increment(read_index)
          /\ write_index' = write_index /\ read_index \in Words
      BY <2>4 DEF Pop, QiInv
    <3> QED
      BY <2>2, <3>1 DEF queue_index
  <2> QED
    BY <2>1, <2>3, <2>4 DEF QiNext
<1>2. QiSpec => [][Ordered]_qi_vars
  BY <1>1, QiInvariance, PTL DEF QiSpec
<1> QED
  BY <1>2 DEF SlotsInOrder

(* What module Queue takes for granted holds of every queue that           *)
(* queue_init lets through: its CapacityAssumption, its IndexAssumption,   *)
(* that 2^32 is a multiple of the capacity, and that masking an index is   *)
(* taking the remainder.                                                   *)
AsQueueAssumes ==
    status = "ready" =>
        /\ capacity \in Nat /\ capacity > 1
        /\ \E laps \in 1 .. WordMod : WordMod = capacity * laps
        /\ \A n \in Words : queue_index(n) = n % capacity

THEOREM QueueIsJustified == QiSpec => []AsQueueAssumes
<1>1. QiInv => AsQueueAssumes
  <2> SUFFICES ASSUME QiInv, status = "ready"
               PROVE  /\ capacity \in Nat /\ capacity > 1
                      /\ \E laps \in 1 .. WordMod : WordMod = capacity * laps
                      /\ \A n \in Words : queue_index(n) = n % capacity
    BY DEF AsQueueAssumes
  <2>1. PICK k \in 1 .. Width - 1 : capacity = Weight[k] /\ mask = Weight[k] - 1
    BY DEF QiInv
  <2>2. Width \in Nat /\ k \in 0 .. Width /\ Width \in k .. Width
        /\ k - 1 \in 0 .. Width - 1 /\ k - 1 \in 0 .. Width /\ (k - 1) + 1 = k
    BY <2>1, WidthPositive
  <2>3. Weight[k] \in Nat /\ Weight[k - 1] \in Nat /\ Weight[k - 1] > 0
        /\ Weight[k] = 2 * Weight[k - 1]
    BY <2>2, Weights
  <2>4. capacity \in Nat /\ capacity > 1
    BY <2>1, <2>3
  <2>5. PICK laps \in Nat \ {0} : WordMod = laps * capacity
    BY <2>1, <2>2, WeightDivides DEF WordMod
  <2>6. laps \in 1 .. WordMod /\ WordMod = capacity * laps
    <3>1. capacity * laps = laps * capacity /\ laps * capacity >= laps /\ laps * capacity \in Nat
      BY <2>4, <2>5
    <3> QED
      BY <2>5, <3>1
  <2>7. ASSUME NEW n \in Words PROVE queue_index(n) = n % capacity
    BY <2>1, <2>2, MaskIsRemainder DEF queue_index
  <2> QED
    BY <2>4, <2>6, <2>7
<1> QED
  BY <1>1, QiInvariance, PTL

------------------------------------------------------------------------------
(* Matrix.                                                                 *)

(* A first value and a way to the next make a sequence of values.          *)
Iterates(g, m, b, step) == g[0] = b /\ \A k \in 1 .. m : g[k] = step[<<g[k - 1], k>>]

LEMMA Iterated ==
    ASSUME NEW m \in Nat, NEW X, NEW b \in X, NEW step \in [X \X (1 .. m) -> X]
    PROVE  \E g \in [0 .. m -> X] : Iterates(g, m, b, step)
<1> DEFINE Good(n, g) == g[0] = b /\ \A k \in 1 .. n : g[k] = step[<<g[k - 1], k>>]
           S == { n \in 0 .. m : \E g \in [0 .. n -> X] : Good(n, g) }
<1>1. 0 \in S
  <2> DEFINE g == [k \in 0 .. 0 |-> b]
  <2>1. g \in [0 .. 0 -> X] /\ Good(0, g)
    OBVIOUS
  <2> HIDE DEF g
  <2>2. 0 \in 0 .. m
    OBVIOUS
  <2> QED
    BY <2>1, <2>2
<1>2. ASSUME NEW n \in 0 .. m - 1, n \in S PROVE n + 1 \in S
  <2>1. PICK g \in [0 .. n -> X] : Good(n, g)
    BY <1>2
  <2>2. n \in Nat /\ n \in 0 .. n /\ n + 1 \in 1 .. m /\ n + 1 \in 0 .. m /\ 0 \in 0 .. n
    OBVIOUS
  <2> DEFINE v == step[<<g[n], n + 1>>]
             h == [k \in 0 .. n + 1 |-> IF k = n + 1 THEN v ELSE g[k]]
  <2>3. g[n] \in X /\ v \in X
    BY <2>2
  <2> HIDE DEF v
  <2>4. \A k \in 0 .. n + 1 : k # n + 1 => k \in 0 .. n
    BY <2>2
  <2>5. h \in [0 .. n + 1 -> X]
    BY <2>3, <2>4
  <2>6. h[0] = b
    BY <2>1, <2>2
  <2>7. ASSUME NEW k \in 1 .. n + 1 PROVE h[k] = step[<<h[k - 1], k>>]
    <3>1. k - 1 \in 0 .. n /\ k - 1 # n + 1 /\ k \in 0 .. n + 1 /\ k - 1 \in 0 .. n + 1
      BY <2>2
    <3>2. h[k - 1] = g[k - 1]
      BY <3>1
    <3>3. CASE k = n + 1
      <4>1. k - 1 = n
        BY <2>2, <3>3
      <4>2. h[k] = v
        BY <3>1, <3>3
      <4> QED
        BY <3>2, <3>3, <4>1, <4>2 DEF v
    <3>4. CASE k # n + 1
      <4>1. k \in 1 .. n
        BY <2>2, <3>4
      <4>2. h[k] = g[k]
        BY <3>1, <3>4
      <4> QED
        BY <2>1, <3>2, <4>1, <4>2
    <3> QED
      BY <3>3, <3>4
  <2> HIDE DEF h
  <2> QED
    BY <2>2, <2>5, <2>6, <2>7
<1> HIDE DEF S
<1>3. m \in S
  BY <1>1, <1>2, UpTo
<1> QED
  BY <1>3 DEF S, Iterates

(* A sum of numbers is one.                                                *)
LEMMA SumTyped ==
    ASSUME NEW n \in Nat, NEW term \in [1 .. n -> Int]
    PROVE  SumOf(term, n) \in Int
<1> DEFINE Is(f) == f = [k \in 0 .. n |-> IF k = 0 THEN 0 ELSE f[k - 1] + term[k]]
<1>1. PICK step \in [Int \X (1 .. n) -> Int] : \A s \in Int, k \in 1 .. n : step[<<s, k>>] = s + term[k]
  <2> DEFINE st == [d \in Int \X (1 .. n) |-> d[1] + term[d[2]]]
  <2>1. st \in [Int \X (1 .. n) -> Int] /\ \A s \in Int, k \in 1 .. n : st[<<s, k>>] = s + term[k]
    OBVIOUS
  <2> HIDE DEF st
  <2> QED
    BY <2>1
<1>2. PICK g \in [0 .. n -> Int] : Iterates(g, n, 0, step)
  <2>1. 0 \in Int
    OBVIOUS
  <2> HIDE DEF Is
  <2> QED
    BY <2>1, Iterated
<1>3. \A k \in 1 .. n : g[k] = g[k - 1] + term[k]
  <2>1. \A k \in 1 .. n : k - 1 \in 0 .. n
    OBVIOUS
  <2> QED
    BY <1>1, <1>2, <2>1 DEF Iterates
<1>4. Is(g)
  <2>1. \A k \in 0 .. n : k # 0 => k \in 1 .. n
    OBVIOUS
  <2> QED
    BY <1>2, <1>3, <2>1 DEF Iterates
<1> DEFINE f == CHOOSE f : Is(f)
<1>5. SumOf(term, n) = f[n]
  BY DEF SumOf
<1>6. Is(f)
  BY <1>4
<1> DEFINE S == { k \in 0 .. n : f[k] \in Int }
<1> HIDE DEF f
<1>7. f[0] = 0 /\ \A k \in 1 .. n : f[k] = f[k - 1] + term[k]
  BY <1>6
<1>8. 0 \in S
  BY <1>7
<1>9. ASSUME NEW k \in 0 .. n - 1, k \in S PROVE k + 1 \in S
  <2>1. k + 1 \in 1 .. n /\ k + 1 \in 0 .. n /\ (k + 1) - 1 = k
    OBVIOUS
  <2>2. f[k + 1] = f[k] + term[k + 1]
    BY <1>7, <2>1
  <2> QED
    BY <1>9, <2>1, <2>2
<1> HIDE DEF S, Is
<1>10. n \in S
  <2>1. \A k \in 0 .. n - 1 : k \in S => k + 1 \in S
    BY <1>9
  <2>2. n \in Nat /\ n \in 0 .. n
    OBVIOUS
  <2> QED
    BY <1>8, <2>1, <2>2, UpTo
<1> QED
  BY <1>5, <1>10 DEF S

(* What a variable holds: a number in each of its cells.                   *)
Memories ==
    { d \in [Names -> UNION { [Cells(n) -> Int] : n \in Names }] :
        \A n \in Names : d[n] \in [Cells(n) -> Int] }

(* The shape of what a variable means.                                     *)
Dim(n) == IF mx_transpose[n] THEN <<Shape[n][2], Shape[n][1]>> ELSE Shape[n]

(* A call whose operands and output fit.                                   *)
Fitting(call) ==
    /\ call.left \in Names /\ call.right \in Names /\ call.out \in Names
    /\ \/ /\ call.op = "transpose"
          /\ Shape[call.left] = <<3, 3>> /\ Shape[call.out] = <<3, 3>>
       \/ /\ call.op = "flagged" /\ Shape[call.out][2] = Shape[call.right][2]
          /\ Dim(call.left)[1] = Shape[call.out][1] /\ Dim(call.left)[2] = Inner(call)
       \/ /\ call.op = "plain" /\ Shape[call.out][2] = Shape[call.right][2]
          /\ Shape[call.left][1] = Shape[call.out][1] /\ Shape[call.left][2] = Inner(call)
       \/ /\ call.op = "cross" /\ Shape[call.left] = <<3, 1>>
          /\ Shape[call.right] = <<3, 1>> /\ Shape[call.out] = <<3, 1>>

(* The dimensions of each variable.                                        *)
LEMMA Shapes ==
    /\ Names = {"A", "B", "x", "y", "z", "F", "u", "S", "p", "q"}
    /\ \A n \in {"A", "B"} : Shape[n] = <<3, 3>>
    /\ \A n \in {"x", "y", "z"} : Shape[n] = <<3, 1>>
    /\ Shape["F"] = <<4, 3>> /\ Shape["u"] = <<4, 1>> /\ Shape["S"] = <<6, 6>>
    /\ \A n \in {"p", "q"} : Shape[n] = <<6, 1>>
BY DEF Names, Shape

(* No variable is empty.                                                   *)
LEMMA ShapeTyped ==
    ASSUME NEW n \in Names
    PROVE  Shape[n] \in (Nat \ {0}) \X (Nat \ {0})
BY Shapes

(* A memory has a number in every cell.                                    *)
LEMMA CellTyped ==
    ASSUME NEW n \in Names, NEW d \in Memories,
           NEW row \in 1 .. Shape[n][1], NEW col \in 1 .. Shape[n][2]
    PROVE  d[n][<<row, col>>] \in Int
BY DEF Memories, Cells

(* Elements are numbers modulo RingSize.                                   *)
LEMMA RingTyped == RingSize \in Nat \ {0} /\ \A v \in Int : v % RingSize \in Int
BY RingAssumption

(* Going through a variable row by row visits its cells, and all of them.  *)
LEMMA RowMajorCells ==
    ASSUME NEW n \in Names
    PROVE  /\ Size(n) \in Nat
           /\ \A k \in 1 .. Size(n) : RowMajor(n, k) \in Cells(n)
           /\ \A e \in Cells(n) : \E k \in 1 .. Size(n) : e = RowMajor(n, k)
<1> DEFINE rows == Shape[n][1]
           cols == Shape[n][2]
<1>1. rows \in Nat /\ rows > 0 /\ cols \in Nat /\ cols > 0
  BY ShapeTyped
<1>2. Size(n) = cols * rows
  BY <1>1 DEF Size
<1>3. Size(n) \in Nat
  BY <1>1, <1>2
<1>4. ASSUME NEW k \in 1 .. Size(n) PROVE RowMajor(n, k) \in Cells(n)
  <2> DEFINE q == (k - 1) \div cols
             r == (k - 1) % cols
  <2>1. k - 1 \in Int /\ 0 <= k - 1 /\ k - 1 < Size(n)
    BY <1>3
  <2>2. r \in 0 .. cols - 1 /\ q \in Int /\ k - 1 = cols * q + r
    BY <1>1, <2>1, DivMod
  <2>3. RowMajor(n, k) = <<q + 1, r + 1>>
    BY DEF RowMajor
  <2> HIDE DEF q, r, rows, cols
  <2>4. cols * (-1) < cols * q /\ cols * q < cols * rows
    BY <1>1, <1>2, <2>1, <2>2
  <2>5. -1 < q /\ q < rows
    BY <1>1, <2>2, <2>4, FactorLess
  <2>6. q + 1 \in 1 .. rows /\ r + 1 \in 1 .. cols
    BY <1>1, <2>2, <2>5
  <2> QED
    BY <2>3, <2>6 DEF Cells, rows, cols
<1>5. ASSUME NEW e \in Cells(n) PROVE \E k \in 1 .. Size(n) : e = RowMajor(n, k)
  <2>1. PICK row \in 1 .. rows, col \in 1 .. cols : e = <<row, col>>
    BY DEF Cells
  <2> DEFINE q == row - 1
             r == col - 1
             k == cols * q + r + 1
  <2>2. q \in Int /\ 0 <= q /\ q + 1 <= rows /\ r \in 0 .. cols - 1 /\ row = q + 1 /\ col = r + 1
    BY <1>1
  <2> HIDE DEF q, r, rows, cols
  <2>3. cols * q \in Int /\ 0 <= cols * q
    BY <1>1, <2>2
  <2>4. cols * (q + 1) <= cols * rows
    BY <1>1, <2>2
  <2>5. cols * (q + 1) = cols * q + cols
    BY <1>1, <2>2
  <2>6. k \in 1 .. Size(n) /\ k - 1 = cols * q + r
    BY <1>1, <1>2, <2>2, <2>3, <2>4, <2>5
  <2>7. k - 1 \in Int
    BY <1>3, <2>6
  <2>8. (k - 1) % cols = r
    BY <1>1, <2>2, <2>6, <2>7, ModUnique
  <2>9. (k - 1) \div cols = q
    BY <1>1, <2>2, <2>6, <2>7, DivUnique
  <2> HIDE DEF k
  <2> QED
    BY <2>1, <2>2, <2>6, <2>8, <2>9 DEF RowMajor, cols
<1> QED
  BY <1>3, <1>4, <1>5

(* The sums and products the code forms are numbers.                       *)
LEMMA ComputedTyped ==
    ASSUME NEW call, Fitting(call), NEW d \in Memories, NEW e \in Cells(call.out)
    PROVE  Computed(call, d, e) \in Int
<1> DEFINE n == Inner(call)
<1>1. PICK row \in 1 .. Shape[call.out][1], col \in 1 .. Shape[call.out][2] : e = <<row, col>>
  BY DEF Cells
<1>2. call.left \in Names /\ call.right \in Names /\ call.out \in Names
  BY DEF Fitting
<1>3. n \in Nat
  BY <1>2, ShapeTyped DEF Inner
<1>4. CASE call.op = "transpose"
  <2>1. Shape[call.left] = <<3, 3>> /\ Shape[call.out] = <<3, 3>>
    BY <1>4 DEF Fitting
  <2>2. row \in 1 .. 3 /\ col \in 1 .. 3
    BY <2>1
  <2>3. d[call.left][<<col, row>>] \in Int
    BY <1>2, <2>1, <2>2, CellTyped
  <2>4. Computed(call, d, e) = d[call.left][<<e[2], e[1]>>]
    BY <1>4 DEF Computed
  <2> QED
    BY <1>1, <2>3, <2>4
<1>5. CASE call.op = "flagged"
  <2> DEFINE term == [k \in 1 .. n |-> RowOf(d, call.left, e[1], k) * d[call.right][<<k, e[2]>>]]
  <2>1. col \in 1 .. Shape[call.right][2] /\ row \in 1 .. Dim(call.left)[1] /\ Dim(call.left)[2] = n
    BY <1>5 DEF Fitting
  <2>2. ASSUME NEW k \in 1 .. n PROVE term[k] \in Int
    <3>1. d[call.right][<<k, col>>] \in Int
      BY <1>2, <2>1, CellTyped DEF Inner
    <3>2. CASE mx_transpose[call.left]
      <4>1. row \in 1 .. Shape[call.left][2] /\ k \in 1 .. Shape[call.left][1]
        BY <2>1, <3>2 DEF Dim
      <4>2. d[call.left][<<k, row>>] \in Int
        BY <1>2, <4>1, CellTyped
      <4> QED
        BY <1>1, <3>1, <3>2, <4>2 DEF RowOf
    <3>3. CASE ~mx_transpose[call.left]
      <4>1. row \in 1 .. Shape[call.left][1] /\ k \in 1 .. Shape[call.left][2]
        BY <2>1, <3>3 DEF Dim
      <4>2. d[call.left][<<row, k>>] \in Int
        BY <1>2, <4>1, CellTyped
      <4> QED
        BY <1>1, <3>1, <3>3, <4>2 DEF RowOf
    <3> QED
      BY <3>2, <3>3
  <2>3. term \in [1 .. n -> Int]
    BY <2>2
  <2>4. Computed(call, d, e) = SumOf(term, n) % RingSize
    BY <1>5 DEF Computed
  <2> HIDE DEF term, n
  <2> QED
    BY <1>3, <2>3, <2>4, SumTyped, RingTyped
<1>6. CASE call.op = "plain"
  <2> DEFINE term == [k \in 1 .. n |-> d[call.left][<<e[1], k>>] * d[call.right][<<k, e[2]>>]]
  <2>1. col \in 1 .. Shape[call.right][2] /\ row \in 1 .. Shape[call.left][1] /\ Shape[call.left][2] = n
    BY <1>6 DEF Fitting
  <2>2. ASSUME NEW k \in 1 .. n PROVE term[k] \in Int
    <3>1. d[call.right][<<k, col>>] \in Int
      BY <1>2, <2>1, CellTyped DEF Inner
    <3>2. d[call.left][<<row, k>>] \in Int
      BY <1>2, <2>1, CellTyped
    <3> QED
      BY <1>1, <3>1, <3>2
  <2>3. term \in [1 .. n -> Int]
    BY <2>2
  <2>4. Computed(call, d, e) = SumOf(term, n) % RingSize
    BY <1>6 DEF Computed
  <2> HIDE DEF term, n
  <2> QED
    BY <1>3, <2>3, <2>4, SumTyped, RingTyped
<1>7. CASE call.op = "cross"
  <2>1. /\ Shape[call.left] = <<3, 1>> /\ Shape[call.right] = <<3, 1>>
        /\ Shape[call.out] = <<3, 1>>
    BY <1>7 DEF Fitting
  <2>2. \A i \in 1 .. 3 : d[call.left][<<i, 1>>] \in Int /\ d[call.right][<<i, 1>>] \in Int
    BY <1>2, <2>1, CellTyped
  <2>3. e[1] \in {1, 2, 3}
    BY <1>1, <2>1
  <2>4. \E v \in Int : Computed(call, d, e) = v % RingSize
    BY <1>7, <2>2, <2>3 DEF Computed
  <2> QED
    BY <2>4, RingTyped
<1> QED
  BY <1>4, <1>5, <1>6, <1>7 DEF Fitting

(* Storing a number in a cell leaves a memory, and all other cells.        *)
LEMMA StoredCell ==
    ASSUME NEW call, Fitting(call), NEW d \in Memories, NEW e \in Cells(call.out)
    PROVE  /\ Stored(call, d, e) \in Memories
           /\ \A n \in Names \ {call.out} : Stored(call, d, e)[n] = d[n]
           /\ Stored(call, d, e)[call.out][e] = Computed(call, d, e)
           /\ \A c \in Cells(call.out) \ {e} : Stored(call, d, e)[call.out][c] = d[call.out][c]
<1> DEFINE out == call.out
           v == Computed(call, d, e)
           s == Stored(call, d, e)
<1>1. out \in Names
  BY DEF Fitting
<1>2. v \in Int
  BY ComputedTyped
<1> HIDE DEF v
<1>3. s = [d EXCEPT ![out] = [d[out] EXCEPT ![e] = v]]
  BY DEF Stored, v
<1>4. d[out] \in [Cells(out) -> Int]
  BY <1>1 DEF Memories
<1>5. [d[out] EXCEPT ![e] = v] \in [Cells(out) -> Int]
  BY <1>2, <1>4
<1>6. \A n \in Names : d[n] \in [Cells(n) -> Int]
  BY DEF Memories
<1>7. DOMAIN d = Names /\ d = [n \in Names |-> d[n]]
  BY DEF Memories
<1> HIDE DEF s, out
<1>8. /\ s[out] = [d[out] EXCEPT ![e] = v]
      /\ \A n \in Names \ {out} : s[n] = d[n]
      /\ s = [n \in Names |-> s[n]]
  BY <1>1, <1>3, <1>7
<1>9. \A n \in Names : s[n] \in [Cells(n) -> Int]
  BY <1>5, <1>6, <1>8
<1>10. s \in Memories
  BY <1>8, <1>9 DEF Memories
<1>11. s[out][e] = v /\ \A c \in Cells(out) \ {e} : s[out][c] = d[out][c]
  BY <1>4, <1>8 DEF out
<1> QED
  BY <1>8, <1>10, <1>11 DEF s, v, out

(* A value whose operands are not the output is the same all along.        *)
LEMMA ComputedSame ==
    ASSUME NEW call, NEW c, NEW d, c[call.left] = d[call.left], c[call.right] = d[call.right], NEW e
    PROVE  Computed(call, c, e) = Computed(call, d, e)
BY DEF Computed, RowOf

(* What a call leaves: the other variables as they were and, if no operand *)
(* is its output, in every cell of that the value of the operands.         *)
LEMMA AssignedCells ==
    ASSUME NEW call, Fitting(call), mx_data \in Memories
    PROVE  /\ Assigned(call) \in Memories
           /\ \A n \in Names \ {call.out} : Assigned(call)[n] = mx_data[n]
           /\ call.out \notin {call.left, call.right} =>
                \A e \in Cells(call.out) :
                   Assigned(call)[call.out][e] = Computed(call, mx_data, e)
<1> DEFINE out == call.out
           m == Size(out)
           cell(k) == RowMajor(out, k)
           Is(f) == f = [k \in 0 .. m |->
                            IF k = 0 THEN mx_data ELSE Stored(call, f[k - 1], cell(k))]
<1>1. /\ out \in Names /\ m \in Nat /\ call.left \in Names /\ call.right \in Names
      /\ \A k \in 1 .. m : cell(k) \in Cells(out)
      /\ \A e \in Cells(out) : \E k \in 1 .. m : e = cell(k)
  BY RowMajorCells DEF Fitting
<1> HIDE DEF m, cell, out
<1>2. PICK step \in [Memories \X (1 .. m) -> Memories] :
        \A d \in Memories, k \in 1 .. m : step[<<d, k>>] = Stored(call, d, cell(k))
  <2> DEFINE st == [a \in Memories \X (1 .. m) |-> Stored(call, a[1], cell(a[2]))]
  <2>1. \A d \in Memories, k \in 1 .. m : Stored(call, d, cell(k)) \in Memories
    BY <1>1, StoredCell DEF out
  <2>2. st \in [Memories \X (1 .. m) -> Memories]
    BY <2>1
  <2>3. \A d \in Memories, k \in 1 .. m : st[<<d, k>>] = Stored(call, d, cell(k))
    OBVIOUS
  <2> HIDE DEF st
  <2> QED
    BY <2>2, <2>3
<1>3. PICK g \in [0 .. m -> Memories] : Iterates(g, m, mx_data, step)
  <2> HIDE DEF Is
  <2> QED
    BY <1>1, Iterated
<1>4. Is(g)
  <2>1. ASSUME NEW k \in 0 .. m, k # 0 PROVE g[k] = Stored(call, g[k - 1], cell(k))
    <3>1. k \in 1 .. m /\ k - 1 \in 0 .. m
      BY <1>1, <2>1
    <3>2. g[k - 1] \in Memories
      BY <3>1
    <3>3. g[k] = step[<<g[k - 1], k>>]
      BY <1>3, <3>1 DEF Iterates
    <3> QED
      BY <1>2, <3>1, <3>2, <3>3
  <2>2. g[0] = mx_data
    BY <1>3 DEF Iterates
  <2>3. g = [k \in 0 .. m |-> g[k]]
    OBVIOUS
  <2>4. \A k \in 0 .. m : g[k] = IF k = 0 THEN mx_data ELSE Stored(call, g[k - 1], cell(k))
    BY <2>1, <2>2
  <2> QED
    BY <2>3, <2>4
<1> DEFINE f == CHOOSE f : Is(f)
<1>5. Assigned(call) = f[m]
  BY DEF Assigned, m, cell, out
<1>6. Is(f)
  BY <1>4
<1> HIDE DEF f
<1>7. f[0] = mx_data /\ \A k \in 1 .. m : f[k] = Stored(call, f[k - 1], cell(k))
  BY <1>1, <1>6
<1> DEFINE Done(k) == /\ f[k] \in Memories
                      /\ \A n \in Names \ {out} : f[k][n] = mx_data[n]
                      /\ out \notin {call.left, call.right} =>
                           \A j \in 1 .. k : f[k][out][cell(j)] = Computed(call, mx_data, cell(j))
           S == { k \in 0 .. m : Done(k) }
<1> HIDE DEF Is
<1>8. 0 \in S
  <2>1. 1 .. 0 = {}
    OBVIOUS
  <2> QED
    BY <1>1, <1>7, <2>1
<1>9. ASSUME NEW k \in 0 .. m - 1, k \in S PROVE k + 1 \in S
  <2>1. /\ k + 1 \in 1 .. m /\ k + 1 \in 0 .. m /\ (k + 1) - 1 = k /\ k \in 0 .. m
        /\ k \in Nat
    BY <1>1
  <2> DEFINE d == f[k]
             e == cell(k + 1)
             s == Stored(call, d, e)
  <2>2. f[k + 1] = s
    BY <1>7, <2>1
  <2>3. d \in Memories /\ \A n \in Names \ {out} : d[n] = mx_data[n]
    BY <1>9
  <2>4. e \in Cells(out)
    BY <1>1, <2>1
  <2> HIDE DEF d, e
  <2>5. /\ s \in Memories
        /\ \A n \in Names \ {out} : s[n] = d[n]
        /\ s[out][e] = Computed(call, d, e)
        /\ \A c \in Cells(out) \ {e} : s[out][c] = d[out][c]
    BY <2>3, <2>4, StoredCell DEF out
  <2> HIDE DEF s
  <2>6. \A n \in Names \ {out} : s[n] = mx_data[n]
    BY <2>3, <2>5
  <2>7. ASSUME out \notin {call.left, call.right}, NEW j \in 1 .. k + 1
        PROVE  s[out][cell(j)] = Computed(call, mx_data, cell(j))
    <3>1. Computed(call, d, e) = Computed(call, mx_data, e)
      <4>1. d[call.left] = mx_data[call.left] /\ d[call.right] = mx_data[call.right]
        BY <1>1, <2>3, <2>7
      <4> QED
        BY <4>1, ComputedSame
    <3>2. CASE cell(j) = e
      BY <2>5, <3>1, <3>2
    <3>3. CASE cell(j) # e
      <4>1. j # k + 1
        BY <3>3 DEF e
      <4>2. j \in 1 .. k /\ j \in 1 .. m
        BY <1>1, <2>1, <4>1
      <4>3. d[out][cell(j)] = Computed(call, mx_data, cell(j))
        BY <1>9, <2>7, <4>2 DEF d
      <4>4. cell(j) \in Cells(out)
        BY <1>1, <4>2
      <4> QED
        BY <2>5, <3>3, <4>3, <4>4
    <3> QED
      BY <3>2, <3>3
  <2>8. Done(k + 1)
    BY <2>2, <2>5, <2>6, <2>7
  <2> QED
    BY <2>1, <2>8
<1> HIDE DEF S
<1>10. m \in S
  <2>1. \A k \in 0 .. m - 1 : k \in S => k + 1 \in S
    BY <1>9
  <2>2. m \in 0 .. m
    BY <1>1
  <2> HIDE DEF Done
  <2> QED
    BY <1>1, <1>8, <2>1, <2>2, UpTo
<1>11. Done(m)
  BY <1>10 DEF S
<1>12. ASSUME out \notin {call.left, call.right}, NEW e \in Cells(out)
       PROVE  f[m][out][e] = Computed(call, mx_data, e)
  BY <1>1, <1>11, <1>12
<1> QED
  BY <1>5, <1>11, <1>12 DEF out

(* The indices of a product and of a transpose.                            *)
LEMMA Indices ==
    ASSUME NEW P, NEW Q, NEW p0 \in P, NEW q0 \in Q
    PROVE  /\ { <<d[2], d[1]>> : d \in P \X Q } = Q \X P
           /\ { d[1] : d \in P \X Q } = P
           /\ { d[2] : d \in P \X Q } = Q
<1>1. ASSUME NEW p \in P, NEW q \in Q
      PROVE  /\ <<p, q>> \in P \X Q /\ <<p, q>>[1] = p /\ <<p, q>>[2] = q
             /\ <<<<p, q>>[2], <<p, q>>[1]>> = <<q, p>>
  OBVIOUS
<1>2. ASSUME NEW d \in P \X Q PROVE d[1] \in P /\ d[2] \in Q /\ <<d[2], d[1]>> \in Q \X P
  OBVIOUS
<1>3. { <<d[2], d[1]>> : d \in P \X Q } = Q \X P
  <2>1. ASSUME NEW e \in Q \X P PROVE \E d \in P \X Q : e = <<d[2], d[1]>>
    <3>1. PICK q \in Q, p \in P : e = <<q, p>>
      OBVIOUS
    <3> QED
      BY <1>1, <3>1
  <2> QED
    BY <1>2, <2>1
<1>4. { d[1] : d \in P \X Q } = P
  <2>1. ASSUME NEW p \in P PROVE \E d \in P \X Q : p = d[1]
    BY <1>1
  <2> QED
    BY <1>2, <2>1
<1>5. { d[2] : d \in P \X Q } = Q
  <2>1. ASSUME NEW q \in Q PROVE \E d \in P \X Q : q = d[2]
    BY <1>1
  <2> QED
    BY <1>2, <2>1
<1> QED
  BY <1>3, <1>4, <1>5

(* Rows and columns of the meaning of a variable, as RowOf reads them.     *)
LEMMA MeaningCells ==
    ASSUME NEW n \in Names, mx_data \in Memories
    PROVE  /\ Meaning(n) = [e \in (1 .. Dim(n)[1]) \X (1 .. Dim(n)[2]) |->
                              RowOf(mx_data, n, e[1], e[2])]
           /\ Dim(n)[1] \in Nat \ {0} /\ Dim(n)[2] \in Nat \ {0}
<1> DEFINE M == mx_data[n]
           rows == Shape[n][1]
           cols == Shape[n][2]
<1>1. M \in [(1 .. rows) \X (1 .. cols) -> Int]
  BY DEF Memories, Cells
<1>2. rows \in Nat \ {0} /\ cols \in Nat \ {0} /\ Shape[n] = <<rows, cols>>
  BY ShapeTyped
<1>3. CASE mx_transpose[n]
  <2>1. Meaning(n) = Transposed(M) /\ Dim(n) = <<cols, rows>>
    BY <1>3 DEF Meaning, Dim
  <2>2. { <<d[2], d[1]>> : d \in DOMAIN M } = (1 .. cols) \X (1 .. rows)
    <3>1. DOMAIN M = (1 .. rows) \X (1 .. cols)
      BY <1>1
    <3>2. 1 \in 1 .. rows /\ 1 \in 1 .. cols
      BY <1>2
    <3> HIDE DEF M, rows, cols
    <3> QED
      BY <3>1, <3>2, Indices
  <2>3. \A e : RowOf(mx_data, n, e[1], e[2]) = M[<<e[2], e[1]>>]
    BY <1>3 DEF RowOf
  <2> HIDE DEF M, rows, cols
  <2>4. Transposed(M) = [e \in (1 .. cols) \X (1 .. rows) |-> M[<<e[2], e[1]>>]]
    BY <2>2 DEF Transposed
  <2> QED
    BY <1>2, <2>1, <2>3, <2>4
<1>4. CASE ~mx_transpose[n]
  <2>1. Meaning(n) = M /\ Dim(n) = <<rows, cols>>
    BY <1>2, <1>4 DEF Meaning, Dim
  <2>2. \A e : RowOf(mx_data, n, e[1], e[2]) = M[<<e[1], e[2]>>]
    BY <1>4 DEF RowOf
  <2>5. <<rows, cols>>[1] = rows /\ <<rows, cols>>[2] = cols
    OBVIOUS
  <2> HIDE DEF M, rows, cols
  <2>3. M = [e \in (1 .. rows) \X (1 .. cols) |-> M[<<e[1], e[2]>>]]
    BY <1>1
  <2>4. \A e \in (1 .. rows) \X (1 .. cols) : M[<<e[1], e[2]>>] = RowOf(mx_data, n, e[1], e[2])
    BY <2>2
  <2>6. M = [e \in (1 .. rows) \X (1 .. cols) |-> RowOf(mx_data, n, e[1], e[2])]
    BY <2>3, <2>4
  <2> QED
    BY <1>2, <2>1, <2>5, <2>6
<1> QED
  BY <1>3, <1>4

(* The product of an a by n and an n by c matrix, cell by cell.            *)
Table(M, N, a, n, c) ==
    [e \in (1 .. a) \X (1 .. c) |->
       SumOf([k \in 1 .. n |-> M[<<e[1], k>>] * N[<<k, e[2]>>]], n) % RingSize]

Sized(M, a, c) == DOMAIN M = (1 .. a) \X (1 .. c)

LEMMA ProductCells ==
    ASSUME NEW a \in Nat \ {0}, NEW n \in Nat \ {0}, NEW c \in Nat \ {0}, NEW M, NEW N,
           Sized(M, a, n), Sized(N, n, c)
    PROVE  Product(M, N, n) = Table(M, N, a, n, c)
<1>1. 1 \in 1 .. a /\ 1 \in 1 .. n /\ 1 \in 1 .. c
  OBVIOUS
<1> DEFINE rows == 1 .. a
           inner == 1 .. n
           cols == 1 .. c
<1> HIDE DEF rows, inner, cols
<1>2. { d[1] : d \in rows \X inner } = rows
  BY <1>1, Indices DEF rows, inner
<1>3. { d[2] : d \in inner \X cols } = cols
  BY <1>1, Indices DEF inner, cols
<1> QED
  BY <1>2, <1>3 DEF Sized, Product, Table, rows, inner, cols

(* Transposing twice gives the matrix back.                                *)
LEMMA TransposedTwice ==
    ASSUME NEW a \in Nat \ {0}, NEW c \in Nat \ {0}, NEW M, M = [e \in (1 .. a) \X (1 .. c) |-> M[e]]
    PROVE  Transposed(Transposed(M)) = M
<1> DEFINE T == Transposed(M)
<1>0. 1 \in 1 .. a /\ 1 \in 1 .. c /\ DOMAIN M = (1 .. a) \X (1 .. c)
  OBVIOUS
<1>1. { <<d[2], d[1]>> : d \in DOMAIN M } = (1 .. c) \X (1 .. a)
  BY <1>0, Indices
<1>2. T = [e \in (1 .. c) \X (1 .. a) |-> M[<<e[2], e[1]>>]]
  BY <1>1 DEF Transposed
<1> HIDE DEF T
<1>3. { <<d[2], d[1]>> : d \in DOMAIN T } = (1 .. a) \X (1 .. c)
  <2>1. DOMAIN T = (1 .. c) \X (1 .. a)
    BY <1>2
  <2> QED
    BY <1>0, <2>1, Indices
<1>4. Transposed(T) = [e \in (1 .. a) \X (1 .. c) |-> T[<<e[2], e[1]>>]]
  BY <1>3 DEF Transposed
<1>5. ASSUME NEW e \in (1 .. a) \X (1 .. c) PROVE T[<<e[2], e[1]>>] = M[e]
  <2>1. <<e[2], e[1]>> \in (1 .. c) \X (1 .. a) /\ e = <<e[1], e[2]>>
    OBVIOUS
  <2> QED
    BY <1>2, <2>1
<1> QED
  BY <1>4, <1>5 DEF T

(* The inductive invariant.  A vector is never transposed.                 *)
MxTypes ==
    /\ mx_data \in Memories
    /\ mx_transpose \in [Names -> BOOLEAN]
    /\ \A n \in Names : mx_transpose[n] => n \in {"A", "B", "F"}
    /\ DOMAIN mx_meant = Names
    /\ mx_clean \subseteq Names

MxInv == MxTypes /\ MxMeans

(* At the start every variable means what it holds.                        *)
LEMMA MxInitInv == MxInit => MxInv
<1> SUFFICES ASSUME MxInit PROVE MxInv
  OBVIOUS
<1>1. \A n \in Names : Start[n] \in [Cells(n) -> Int]
  BY ContentsAssumption, RingAssumption
<1>2. Start = [n \in Names |-> Start[n]]
  BY ContentsAssumption
<1>3. Start \in Memories
  BY <1>1, <1>2 DEF Memories
<1>4. MxTypes
  BY <1>3, <1>2 DEF MxInit, MxTypes
<1>5. MxMeans
  BY DEF MxInit, MxMeans, Meaning
<1> QED
  BY <1>4, <1>5 DEF MxInv

(* A call that fits and gives its output the value of its operands.        *)
LEMMA CallKeeps ==
    ASSUME NEW op, NEW left, NEW right, NEW out, NEW meant, NEW rules \in BOOLEAN,
           Fitting([op |-> op, left |-> left, right |-> right, out |-> out]),
           Call(op, left, right, out, meant, rules), MxInv,
           ASSUME left \in mx_clean, right \in mx_clean, rules
           PROVE  /\ ~mx_transpose[out]
                  /\ meant = [e \in Cells(out) |->
                       Computed([op |-> op, left |-> left, right |-> right, out |-> out], mx_data, e)]
    PROVE  MxInv'
<1> DEFINE call == [op |-> op, left |-> left, right |-> right, out |-> out]
           legal == {left, right} \subseteq mx_clean /\ out \notin {left, right} /\ rules
<1>1. call.left = left /\ call.right = right /\ call.out = out
  OBVIOUS
<1>2. /\ mx_data' = Assigned(call)
      /\ mx_meant' = [mx_meant EXCEPT ![out] = meant]
      /\ mx_clean' = IF legal THEN mx_clean \cup {out} ELSE mx_clean \ {out}
      /\ mx_transpose' = mx_transpose
  BY DEF Call
<1>3. Fitting(call)
  OBVIOUS
<1>4. out \in Names
  BY <1>1, <1>3 DEF Fitting
<1> HIDE DEF call
<1>5. MxTypes /\ mx_data \in Memories
  BY DEF MxInv, MxTypes
<1>6. /\ mx_data' \in Memories
      /\ \A n \in Names \ {out} : mx_data'[n] = mx_data[n]
      /\ legal => \A e \in Cells(out) : mx_data'[out][e] = Computed(call, mx_data, e)
  BY <1>1, <1>2, <1>3, <1>5, AssignedCells
<1>7. MxTypes'
  BY <1>2, <1>4, <1>5, <1>6 DEF MxTypes, Memories
<1>8. ASSUME NEW n \in mx_clean', n # out PROVE Meaning(n)' = mx_meant'[n]
  <2>1. n \in mx_clean /\ n \in Names
    BY <1>2, <1>5, <1>8 DEF MxTypes
  <2>2. mx_meant'[n] = mx_meant[n]
    BY <1>2, <1>8, <1>5, <2>1 DEF MxTypes
  <2>3. Meaning(n)' = Meaning(n)
    BY <1>2, <1>6, <1>8, <2>1 DEF Meaning
  <2> QED
    BY <2>1, <2>2, <2>3 DEF MxInv, MxMeans
<1>9. ASSUME out \in mx_clean' PROVE Meaning(out)' = mx_meant'[out]
  <2>1. legal
    BY <1>2, <1>9
  <2>2. ~mx_transpose[out] /\ meant = [e \in Cells(out) |-> Computed(call, mx_data, e)]
    BY <2>1 DEF call
  <2>3. Meaning(out)' = mx_data'[out]
    BY <1>2, <2>2 DEF Meaning
  <2>4. mx_data'[out] = [e \in Cells(out) |-> mx_data'[out][e]]
    BY <1>4, <1>6 DEF Memories
  <2>5. mx_data'[out] = [e \in Cells(out) |-> Computed(call, mx_data, e)]
    BY <1>6, <2>1, <2>4
  <2>6. mx_meant'[out] = meant
    BY <1>2, <1>4, <1>5 DEF MxTypes
  <2> QED
    BY <2>2, <2>3, <2>5, <2>6
<1>10. MxMeans'
  BY <1>8, <1>9 DEF MxMeans
<1> QED
  BY <1>7, <1>10 DEF MxInv

(* A product of clean operands is the product of what they mean, whether   *)
(* the flag is heeded or there is none to heed.                            *)
LEMMA ProductMeant ==
    ASSUME NEW op \in {"flagged", "plain"}, NEW left, NEW right, NEW out \in Names,
           MxInv, left \in mx_clean, right \in mx_clean,
           Dim(left)[1] = Shape[out][1], Dim(left)[2] = Shape[right][1],
           Shape[out][2] = Shape[right][2], ~mx_transpose[right],
           op = "plain" => ~mx_transpose[left]
    PROVE  Product(mx_meant[left], mx_meant[right], Shape[right][1])
             = [e \in Cells(out) |->
                  Computed([op |-> op, left |-> left, right |-> right, out |-> out], mx_data, e)]
<1> DEFINE call == [op |-> op, left |-> left, right |-> right, out |-> out]
           n == Shape[right][1]
           M == mx_meant[left]
           N == mx_meant[right]
           rows == Shape[out][1]
           cols == Shape[out][2]
           term(e) == [k \in 1 .. n |-> M[<<e[1], k>>] * N[<<k, e[2]>>]]
<1>1. left \in Names /\ right \in Names /\ mx_data \in Memories
  BY DEF MxInv, MxTypes
<1>2. M = Meaning(left) /\ N = Meaning(right)
  BY DEF MxInv, MxMeans
<1>3. /\ rows \in Nat \ {0} /\ n \in Nat \ {0} /\ cols \in Nat \ {0}
      /\ Dim(left)[1] = rows /\ Dim(left)[2] = n /\ Dim(right) = Shape[right]
      /\ Dim(right)[1] = n /\ Dim(right)[2] = cols
  BY <1>1, ShapeTyped DEF Dim
<1>4. M = [e \in (1 .. rows) \X (1 .. n) |-> RowOf(mx_data, left, e[1], e[2])]
  BY <1>1, <1>2, <1>3, MeaningCells
<1>5. N = [e \in (1 .. n) \X (1 .. cols) |-> RowOf(mx_data, right, e[1], e[2])]
  BY <1>1, <1>2, <1>3, MeaningCells
<1>6. Cells(out) = (1 .. rows) \X (1 .. cols)
  BY DEF Cells
<1>7. call.op = op /\ call.left = left /\ call.right = right /\ Inner(call) = n
  BY DEF Inner
<1>8. \A row, k : op = "plain" => RowOf(mx_data, left, row, k) = mx_data[left][<<row, k>>]
  BY DEF RowOf
<1>9. \A k, col : RowOf(mx_data, right, k, col) = mx_data[right][<<k, col>>]
  BY DEF RowOf
<1> HIDE DEF call, n, M, N, rows, cols
<1>10. Product(M, N, n) = [e \in (1 .. rows) \X (1 .. cols) |-> SumOf(term(e), n) % RingSize]
  <2>1. Sized(M, rows, n) /\ Sized(N, n, cols)
    BY <1>4, <1>5 DEF Sized
  <2>2. Product(M, N, n) = Table(M, N, rows, n, cols)
    <3>1. rows \in Nat \ {0} /\ n \in Nat \ {0} /\ cols \in Nat \ {0}
      BY <1>3
    <3> HIDE DEF term
    <3> QED
      BY <2>1, <3>1, ProductCells
  <2> QED
    BY <2>2 DEF Table
<1>11. ASSUME NEW e \in (1 .. rows) \X (1 .. cols)
       PROVE  SumOf(term(e), n) % RingSize = Computed(call, mx_data, e)
  <2>1. e[1] \in 1 .. rows /\ e[2] \in 1 .. cols
    OBVIOUS
  <2>2. ASSUME NEW k \in 1 .. n
        PROVE  /\ M[<<e[1], k>>] = RowOf(mx_data, left, e[1], k)
               /\ N[<<k, e[2]>>] = mx_data[right][<<k, e[2]>>]
    <3>1. M[<<e[1], k>>] = RowOf(mx_data, left, e[1], k)
      BY <1>4, <2>1
    <3>2. N[<<k, e[2]>>] = RowOf(mx_data, right, k, e[2])
      BY <1>5, <2>1
    <3> QED
      BY <1>9, <3>1, <3>2
  <2>3. CASE op = "flagged"
    <3> DEFINE read == [k \in 1 .. n |-> RowOf(mx_data, left, e[1], k) * mx_data[right][<<k, e[2]>>]]
    <3>1. term(e) = read
      BY <2>2
    <3>2. Computed(call, mx_data, e) = SumOf(read, n) % RingSize
      BY <1>7, <2>3 DEF Computed
    <3> HIDE DEF term, read
    <3> QED
      BY <3>1, <3>2
  <2>4. CASE op = "plain"
    <3> DEFINE read == [k \in 1 .. n |-> mx_data[left][<<e[1], k>>] * mx_data[right][<<k, e[2]>>]]
    <3>1. term(e) = read
      BY <1>8, <2>2, <2>4
    <3>2. Computed(call, mx_data, e) = SumOf(read, n) % RingSize
      BY <1>7, <2>4 DEF Computed
    <3> HIDE DEF term, read
    <3> QED
      BY <3>1, <3>2
  <2> QED
    BY <2>3, <2>4
<1> HIDE DEF term
<1>12. Product(M, N, n) = [e \in Cells(out) |-> Computed(call, mx_data, e)]
  BY <1>6, <1>10, <1>11
<1> QED
  BY <1>12 DEF M, N, n, call

(* matrix_init: the variable is as given, and no longer transposed.        *)
LEMMA InitKeeps ==
    ASSUME NEW m \in {"A", "F", "S"}, matrix_init(m), MxInv
    PROVE  MxInv'
<1>1. m \in Names /\ m \in DOMAIN Given
  BY Shapes, ContentsAssumption
<1>2. Given[m] \in [Cells(m) -> Int]
  BY <1>1, ContentsAssumption, RingAssumption
<1>3. /\ mx_data' = [mx_data EXCEPT ![m] = Given[m]]
      /\ mx_transpose' = [mx_transpose EXCEPT ![m] = FALSE]
      /\ mx_meant' = [mx_meant EXCEPT ![m] = Given[m]]
      /\ mx_clean' = mx_clean \cup {m}
  BY DEF matrix_init
<1>4. MxTypes
  BY DEF MxInv
<1>5. mx_data' = [n \in Names |-> IF n = m THEN Given[m] ELSE mx_data[n]]
  BY <1>1, <1>3, <1>4 DEF MxTypes, Memories
<1>6. \A n \in Names : mx_data'[n] \in [Cells(n) -> Int]
  BY <1>2, <1>4, <1>5 DEF MxTypes, Memories
<1>7. mx_data' \in Memories
  BY <1>5, <1>6 DEF Memories
<1>8. MxTypes'
  BY <1>1, <1>3, <1>4, <1>7 DEF MxTypes
<1>9. ASSUME NEW n \in mx_clean' PROVE Meaning(n)' = mx_meant'[n]
  <2>1. n \in Names
    BY <1>8 DEF MxTypes
  <2>2. CASE n = m
    BY <1>1, <1>3, <1>4, <1>5, <2>2 DEF MxTypes, Meaning
  <2>3. CASE n # m
    <3>1. n \in mx_clean /\ mx_data'[n] = mx_data[n] /\ mx_meant'[n] = mx_meant[n]
          /\ mx_transpose'[n] = mx_transpose[n]
      BY <1>3, <1>4, <1>5, <2>1, <2>3 DEF MxTypes
    <3> QED
      BY <3>1 DEF MxInv, MxMeans, Meaning
  <2> QED
    BY <2>2, <2>3
<1> QED
  BY <1>8, <1>9 DEF MxInv, MxMeans

(* The transpose flag: another one is set, or the one set is taken back.   *)
LEMMA TransposeKeeps ==
    ASSUME NEW m \in {"A", "B", "F"}, matrix_transpose(m), MxInv
    PROVE  MxInv'
<1>1. m \in Names
  BY Shapes
<1>2. /\ mx_data' = mx_data /\ mx_clean' = mx_clean
      /\ mx_transpose' = [mx_transpose EXCEPT ![m] = ~mx_transpose[m]]
      /\ mx_meant' = [mx_meant EXCEPT ![m] = Transposed(mx_meant[m])]
  BY DEF matrix_transpose
<1>3. MxTypes
  BY DEF MxInv
<1>4. /\ mx_transpose'[m] = ~mx_transpose[m] /\ mx_transpose' \in [Names -> BOOLEAN]
      /\ \A n \in Names \ {m} : mx_transpose'[n] = mx_transpose[n]
  BY <1>1, <1>2, <1>3 DEF MxTypes
<1>5. MxTypes'
  BY <1>1, <1>2, <1>3, <1>4 DEF MxTypes
<1>6. ASSUME NEW n \in mx_clean PROVE Meaning(n)' = mx_meant'[n]
  <2>1. n \in Names
    BY <1>3 DEF MxTypes
  <2>2. CASE n # m
    <3>1. mx_meant'[n] = mx_meant[n] /\ mx_transpose'[n] = mx_transpose[n]
      BY <1>2, <1>3, <1>4, <2>1, <2>2 DEF MxTypes
    <3> QED
      BY <1>2, <3>1 DEF MxInv, MxMeans, Meaning
  <2>3. CASE n = m
    <3>1. mx_meant[m] = Meaning(m)
      BY <1>6, <2>3 DEF MxInv, MxMeans
    <3>2. mx_meant'[m] = Transposed(Meaning(m))
      BY <1>1, <1>2, <1>3, <3>1 DEF MxTypes
    <3>3. CASE mx_transpose[m]
      <4> DEFINE M == mx_data[m]
      <4>1. M \in [Cells(m) -> Int]
        BY <1>1, <1>3 DEF MxTypes, Memories
      <4>2. Shape[m][1] \in Nat \ {0} /\ Shape[m][2] \in Nat \ {0}
        BY <1>1, ShapeTyped
      <4>3. M = [e \in (1 .. Shape[m][1]) \X (1 .. Shape[m][2]) |-> M[e]]
        BY <4>1 DEF Cells
      <4>4. Meaning(m) = Transposed(M) /\ Meaning(m)' = M
        BY <1>2, <1>4, <3>3 DEF Meaning
      <4> HIDE DEF M
      <4>5. Transposed(Transposed(M)) = M
        BY <4>2, <4>3, TransposedTwice
      <4> QED
        BY <2>3, <3>2, <4>4, <4>5
    <3>4. CASE ~mx_transpose[m]
      <4>1. Meaning(m) = mx_data[m] /\ Meaning(m)' = Transposed(mx_data[m])
        BY <1>2, <1>4, <3>4 DEF Meaning
      <4> QED
        BY <2>3, <3>2, <4>1
    <3> QED
      BY <3>3, <3>4
  <2> QED
    BY <2>2, <2>3
<1> QED
  BY <1>2, <1>5, <1>6 DEF MxInv, MxMeans

(* matrix_3x3_return_transpose: neither matrix has its flag set.           *)
LEMMA CopyKeeps ==
    ASSUME NEW m \in Mat3, NEW out \in Mat3, matrix_3x3_return_transpose(m, out), MxInv
    PROVE  MxInv'
<1> DEFINE call == [op |-> "transpose", left |-> m, right |-> m, out |-> out]
           rules == ~mx_transpose[m] /\ ~mx_transpose[out]
           meant == Transposed(mx_meant[m])
<1>1. m \in Names /\ out \in Names /\ Shape[m] = <<3, 3>> /\ Shape[out] = <<3, 3>>
  BY Shapes DEF Mat3
<1>2. Fitting(call)
  BY <1>1 DEF Fitting
<1>3. Call("transpose", m, m, out, meant, rules)
  BY DEF matrix_3x3_return_transpose
<1>4. ASSUME m \in mx_clean, rules PROVE meant = [e \in Cells(out) |-> Computed(call, mx_data, e)]
  <2> DEFINE M == mx_data[m]
  <2>1. mx_meant[m] = M
    BY <1>4 DEF MxInv, MxMeans, Meaning
  <2>2. M \in [(1 .. 3) \X (1 .. 3) -> Int]
    <3>1. mx_data[m] \in [Cells(m) -> Int]
      BY <1>1 DEF MxInv, MxTypes, Memories
    <3>2. Cells(m) = (1 .. 3) \X (1 .. 3)
      BY <1>1 DEF Cells
    <3> QED
      BY <3>1, <3>2
  <2>3. Cells(out) = (1 .. 3) \X (1 .. 3)
    BY <1>1 DEF Cells
  <2>4. \A e : Computed(call, mx_data, e) = M[<<e[2], e[1]>>]
    BY DEF Computed
  <2> HIDE DEF M
  <2>5. { <<d[2], d[1]>> : d \in DOMAIN M } = (1 .. 3) \X (1 .. 3)
    <3> DEFINE rows == 1 .. 3
    <3>1. DOMAIN M = rows \X rows /\ 1 \in rows
      BY <2>2
    <3> HIDE DEF rows
    <3>2. { <<d[2], d[1]>> : d \in rows \X rows } = rows \X rows
      BY <3>1, Indices
    <3> QED
      BY <3>1, <3>2 DEF rows
  <2>6. Transposed(M) = [e \in (1 .. 3) \X (1 .. 3) |-> M[<<e[2], e[1]>>]]
    BY <2>5 DEF Transposed
  <2> QED
    BY <2>1, <2>3, <2>4, <2>6
<1> HIDE DEF meant
<1>5. rules \in BOOLEAN /\ (rules => ~mx_transpose[out])
  OBVIOUS
<1> HIDE DEF rules
<1> QED
  BY <1>2, <1>3, <1>4, <1>5, CallKeeps

(* A multiplication whose operands have no flag set but the one it heeds.  *)
LEMMA ProductKeeps ==
    ASSUME NEW op \in {"flagged", "plain"}, NEW left \in Names, NEW right \in Names,
           NEW out \in Names, NEW rules \in BOOLEAN,
           Call(op, left, right, out, Product(mx_meant[left], mx_meant[right], Shape[right][1]), rules),
           MxInv, Shape[out][2] = Shape[right][2],
           op = "flagged" => Dim(left) = <<Shape[out][1], Shape[right][1]>>,
           op = "plain" => Shape[left] = <<Shape[out][1], Shape[right][1]>>,
           rules => /\ ~mx_transpose[right] /\ ~mx_transpose[out]
                    /\ op = "plain" => ~mx_transpose[left]
    PROVE  MxInv'
<1> DEFINE call == [op |-> op, left |-> left, right |-> right, out |-> out]
           meant == Product(mx_meant[left], mx_meant[right], Shape[right][1])
<1>1. Fitting(call)
  BY DEF Fitting, Inner
<1>2. ASSUME left \in mx_clean, right \in mx_clean, rules
      PROVE  meant = [e \in Cells(out) |-> Computed(call, mx_data, e)]
  <2>1. Dim(left)[1] = Shape[out][1] /\ Dim(left)[2] = Shape[right][1]
    BY <1>2 DEF Dim
  <2> QED
    BY <1>2, <2>1, ProductMeant
<1> HIDE DEF meant
<1>3. Call(op, left, right, out, meant, rules)
  BY DEF meant
<1> QED
  BY <1>1, <1>2, <1>3, CallKeeps

(* matrix_3x1_cross.                                                       *)
LEMMA CrossKeeps ==
    ASSUME NEW w \in Vec3, NEW v \in Vec3, NEW out \in Vec3, matrix_3x1_cross(w, v, out), MxInv
    PROVE  MxInv'
<1> DEFINE call == [op |-> "cross", left |-> w, right |-> v, out |-> out]
           meant == Cross(mx_meant[w], mx_meant[v])
<1>1. /\ w \in Names /\ v \in Names /\ out \in Names
      /\ Shape[w] = <<3, 1>> /\ Shape[v] = <<3, 1>> /\ Shape[out] = <<3, 1>>
      /\ \A n \in {w, v, out} : n \notin {"A", "B", "F"}
  BY Shapes DEF Vec3
<1>2. Fitting(call)
  BY <1>1 DEF Fitting
<1>3. \A n \in {w, v, out} : ~mx_transpose[n]
  BY <1>1 DEF MxInv, MxTypes
<1>4. ASSUME w \in mx_clean, v \in mx_clean
      PROVE  meant = [e \in Cells(out) |-> Computed(call, mx_data, e)]
  <2> DEFINE a == mx_data[w]
             b == mx_data[v]
  <2>1. mx_meant[w] = a /\ mx_meant[v] = b
    BY <1>3, <1>4 DEF MxInv, MxMeans, Meaning
  <2>2. a \in [(1 .. 3) \X (1 .. 1) -> Int] /\ b \in [(1 .. 3) \X (1 .. 1) -> Int]
    <3>1. mx_data[w] \in [Cells(w) -> Int] /\ mx_data[v] \in [Cells(v) -> Int]
      BY <1>1 DEF MxInv, MxTypes, Memories
    <3>2. Cells(w) = (1 .. 3) \X (1 .. 1) /\ Cells(v) = (1 .. 3) \X (1 .. 1)
      BY <1>1 DEF Cells
    <3> QED
      BY <3>1, <3>2
  <2>3. Cells(out) = (1 .. 3) \X (1 .. 1)
    BY <1>1 DEF Cells
  <2>4. Cross(a, b) =
          [e \in (1 .. 3) \X (1 .. 1) |->
             (a[<<(e[1] % 3) + 1, 1>>] * b[<<((e[1] + 1) % 3) + 1, 1>>]
              - a[<<((e[1] + 1) % 3) + 1, 1>>] * b[<<(e[1] % 3) + 1, 1>>]) % RingSize]
    BY <2>2 DEF Cross
  <2>5. \A i \in 1 .. 3 : a[<<i, 1>>] \in Int /\ b[<<i, 1>>] \in Int
    BY <2>2
  <2>6. \A e : /\ e[1] = 1 => Computed(call, mx_data, e) = (a[<<2, 1>>] * b[<<3, 1>>] - b[<<2, 1>>] * a[<<3, 1>>]) % RingSize
               /\ e[1] = 2 => Computed(call, mx_data, e) = (b[<<1, 1>>] * a[<<3, 1>>] - a[<<1, 1>>] * b[<<3, 1>>]) % RingSize
               /\ e[1] = 3 => Computed(call, mx_data, e) = (a[<<1, 1>>] * b[<<2, 1>>] - b[<<1, 1>>] * a[<<2, 1>>]) % RingSize
    BY DEF Computed
  <2> HIDE DEF a, b, call
  <2>7. ASSUME NEW e \in (1 .. 3) \X (1 .. 1)
        PROVE  (a[<<(e[1] % 3) + 1, 1>>] * b[<<((e[1] + 1) % 3) + 1, 1>>]
                - a[<<((e[1] + 1) % 3) + 1, 1>>] * b[<<(e[1] % 3) + 1, 1>>]) % RingSize
               = Computed(call, mx_data, e)
    <3>1. CASE e[1] = 1
      <4>1. (e[1] % 3) + 1 = 2 /\ ((e[1] + 1) % 3) + 1 = 3
        BY <3>1
      <4>2. a[<<3, 1>>] * b[<<2, 1>>] = b[<<2, 1>>] * a[<<3, 1>>]
        BY <2>5
      <4> QED
        BY <2>6, <3>1, <4>1, <4>2
    <3>2. CASE e[1] = 2
      <4>1. (e[1] % 3) + 1 = 3 /\ ((e[1] + 1) % 3) + 1 = 1
        BY <3>2
      <4>2. a[<<3, 1>>] * b[<<1, 1>>] = b[<<1, 1>>] * a[<<3, 1>>]
        BY <2>5
      <4> QED
        BY <2>6, <3>2, <4>1, <4>2
    <3>3. CASE e[1] = 3
      <4>1. (e[1] % 3) + 1 = 1 /\ ((e[1] + 1) % 3) + 1 = 2
        BY <3>3
      <4>2. a[<<2, 1>>] * b[<<1, 1>>] = b[<<1, 1>>] * a[<<2, 1>>]
        BY <2>5
      <4> QED
        BY <2>6, <3>3, <4>1, <4>2
    <3>4. e[1] \in {1, 2, 3}
      OBVIOUS
    <3> QED
      BY <3>1, <3>2, <3>3, <3>4
  <2> QED
    BY <2>1, <2>3, <2>4, <2>7
<1>5. Call("cross", w, v, out, meant, TRUE)
  BY DEF matrix_3x1_cross
<1> HIDE DEF meant
<1> QED
  BY <1>2, <1>3, <1>4, <1>5, CallKeeps

(* Every call keeps the invariant.                                         *)
LEMMA MxStep ==
    ASSUME MxInv, [MxNext]_mx_vars
    PROVE  MxInv'
<1>0. /\ MxTypes
      /\ \A n \in Names \ {"A", "B", "F"} : ~mx_transpose[n]
  BY DEF MxInv, MxTypes
<1>1. ASSUME NEW m \in {"A", "F", "S"}, matrix_init(m) PROVE MxInv'
  BY <1>1, InitKeeps
<1>2. ASSUME NEW m \in Mat3 \cup {"F"}, matrix_transpose(m) PROVE MxInv'
  BY <1>2, TransposeKeeps DEF Mat3
<1>3. ASSUME NEW m \in Mat3, NEW out \in Mat3, matrix_3x3_return_transpose(m, out) PROVE MxInv'
  BY <1>3, CopyKeeps
<1>4. ASSUME NEW A \in Mat3, NEW x \in Vec3, NEW out \in Vec3, matrix_3x3_multiply_vector(A, x, out)
      PROVE  MxInv'
  <2>1. /\ A \in Names /\ x \in Names /\ out \in Names /\ ~mx_transpose[x] /\ ~mx_transpose[out]
        /\ Shape[A] = <<3, 3>> /\ Shape[x] = <<3, 1>> /\ Shape[out] = <<3, 1>>
    BY <1>0, Shapes DEF Mat3, Vec3
  <2>2. Dim(A) = <<Shape[out][1], Shape[x][1]>> /\ Shape[out][2] = Shape[x][2]
    BY <2>1 DEF Dim
  <2>3. Call("flagged", A, x, out, Product(mx_meant[A], mx_meant[x], Shape[x][1]), TRUE)
    BY <1>4, <2>1 DEF matrix_3x3_multiply_vector, TimesVector, Call
  <2> QED
    BY <2>1, <2>2, <2>3, ProductKeeps
<1>5. ASSUME NEW x \in Vec3, matrix_4x3_3x1_multiply_vector(x) PROVE MxInv'
  <2>1. CASE mx_transpose["F"]
    <3>1. UNCHANGED <<mx_data, mx_transpose, mx_meant, mx_clean>>
      BY <1>5, <2>1 DEF matrix_4x3_3x1_multiply_vector, Fail
    <3> QED
      BY <3>1 DEF MxInv, MxTypes, MxMeans, Meaning
  <2>2. CASE ~mx_transpose["F"]
    <3>1. /\ "F" \in Names /\ x \in Names /\ "u" \in Names /\ ~mx_transpose[x] /\ ~mx_transpose["u"]
          /\ Shape["F"] = <<4, 3>> /\ Shape[x] = <<3, 1>> /\ Shape["u"] = <<4, 1>>
      BY <1>0, Shapes DEF Vec3
    <3>2. Dim("F") = <<Shape["u"][1], Shape[x][1]>> /\ Shape["u"][2] = Shape[x][2]
      BY <2>2, <3>1 DEF Dim
    <3>3. Call("flagged", "F", x, "u", Product(mx_meant["F"], mx_meant[x], Shape[x][1]), TRUE)
      BY <1>5, <2>2, <3>1 DEF matrix_4x3_3x1_multiply_vector, TimesVector, Call
    <3> QED
      BY <3>1, <3>2, <3>3, ProductKeeps
  <2> QED
    BY <2>1, <2>2
<1>6. ASSUME NEW out \in Vec3, matrix_4x3T_4x1_multiply_vector(out) PROVE MxInv'
  <2>1. CASE ~mx_transpose["F"]
    <3>1. UNCHANGED <<mx_data, mx_transpose, mx_meant, mx_clean>>
      BY <1>6, <2>1 DEF matrix_4x3T_4x1_multiply_vector, Fail
    <3> QED
      BY <3>1 DEF MxInv, MxTypes, MxMeans, Meaning
  <2>2. CASE mx_transpose["F"]
    <3>1. /\ "F" \in Names /\ out \in Names /\ "u" \in Names /\ ~mx_transpose[out] /\ ~mx_transpose["u"]
          /\ Shape["F"] = <<4, 3>> /\ Shape[out] = <<3, 1>> /\ Shape["u"] = <<4, 1>>
      BY <1>0, Shapes DEF Vec3
    <3>2. Dim("F") = <<Shape[out][1], Shape["u"][1]>> /\ Shape[out][2] = Shape["u"][2]
      BY <2>2, <3>1 DEF Dim
    <3>3. Call("flagged", "F", "u", out, Product(mx_meant["F"], mx_meant["u"], Shape["u"][1]), TRUE)
      BY <1>6, <2>2, <3>1 DEF matrix_4x3T_4x1_multiply_vector, TimesVector, Call
    <3> QED
      BY <3>1, <3>2, <3>3, ProductKeeps
  <2> QED
    BY <2>1, <2>2
<1>7. ASSUME NEW x \in {"p", "q"}, NEW out \in {"p", "q"}, matrix_6x6_multiply_vector(x, out)
      PROVE  MxInv'
  <2>1. /\ "S" \in Names /\ x \in Names /\ out \in Names
        /\ ~mx_transpose["S"] /\ ~mx_transpose[x] /\ ~mx_transpose[out]
        /\ Shape["S"] = <<6, 6>> /\ Shape[x] = <<6, 1>> /\ Shape[out] = <<6, 1>>
    BY <1>0, Shapes
  <2>2. Call("plain", "S", x, out, Product(mx_meant["S"], mx_meant[x], Shape[x][1]), TRUE)
    BY <1>7, <2>1 DEF matrix_6x6_multiply_vector, Call
  <2>3. Shape["S"] = <<Shape[out][1], Shape[x][1]>> /\ Shape[out][2] = Shape[x][2]
    BY <2>1
  <2> QED
    BY <2>1, <2>2, <2>3, ProductKeeps
<1>8. ASSUME NEW w \in Vec3, NEW v \in Vec3, NEW out \in Vec3, matrix_3x1_cross(w, v, out)
      PROVE  MxInv'
  BY <1>8, CrossKeeps
<1>9. ASSUME NEW A \in Mat3, NEW B \in Mat3, NEW out \in Mat3, matrix_3x3_multiply_matrix(A, B, out)
      PROVE  MxInv'
  <2> DEFINE rules == \A m \in {A, B, out} : ~mx_transpose[m]
  <2>1. /\ A \in Names /\ B \in Names /\ out \in Names
        /\ Shape[A] = <<3, 3>> /\ Shape[B] = <<3, 3>> /\ Shape[out] = <<3, 3>>
    BY Shapes DEF Mat3
  <2>2. Call("plain", A, B, out, Product(mx_meant[A], mx_meant[B], Shape[B][1]), rules)
    BY <1>9, <2>1 DEF matrix_3x3_multiply_matrix, Call
  <2>3. rules \in BOOLEAN /\ (rules => ~mx_transpose[A] /\ ~mx_transpose[B] /\ ~mx_transpose[out])
    OBVIOUS
  <2>4. Shape[A] = <<Shape[out][1], Shape[B][1]>> /\ Shape[out][2] = Shape[B][2]
    BY <2>1
  <2> HIDE DEF rules
  <2> QED
    BY <2>1, <2>2, <2>3, <2>4, ProductKeeps
<1>10. CASE UNCHANGED mx_vars
  BY <1>10 DEF mx_vars, MxInv, MxTypes, MxMeans, Meaning
<1> QED
  BY <1>1, <1>2, <1>3, <1>4, <1>5, <1>6, <1>7, <1>8, <1>9, <1>10 DEF MxNext

(* Every clean variable means what the calls that led to it say.           *)
THEOREM CallsMeanWhatTheySay == MxSpec => []MxMeans
<1>1. MxInit => MxInv
  BY MxInitInv
<1>2. MxInv /\ [MxNext]_mx_vars => MxInv'
  BY MxStep
<1>3. MxInv => MxMeans
  BY DEF MxInv
<1> QED
  BY <1>1, <1>2, <1>3, PTL DEF MxSpec
==============================================================================
