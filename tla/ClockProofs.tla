----------------------------- MODULE ClockProofs ------------------------------
(***************************************************************************)
(* What time.c makes of a counter that rolls over, for every period and    *)
(* unit: what one call of time_elapsed adds, and what a time stamp says of *)
(* the ticks that passed since it was taken, however often it is polled.   *)
(***************************************************************************)
EXTENDS Clock, TLAPS

------------------------------------------------------------------------------
(* Division by a number that is not fixed.                                 *)

(* Quotient and remainder recompose the dividend.                          *)
LEMMA DivMod ==
    ASSUME NEW c \in Nat, c > 0, NEW i \in Int
    PROVE  /\ i % c \in 0 .. c - 1
           /\ i \div c \in Int
           /\ i = c * (i \div c) + (i % c)
BY SMT

(* A decomposition with a small remainder is the one % computes.           *)
LEMMA ModUnique ==
    ASSUME NEW c \in Nat, c > 0, NEW i \in Int, NEW q \in Int,
           NEW r \in 0 .. c - 1, i = c * q + r
    PROVE  i % c = r
BY SMT

(* And its quotient is the one \div computes.                              *)
LEMMA DivUnique ==
    ASSUME NEW c \in Nat, c > 0, NEW i \in Int, NEW q \in Int,
           NEW r \in 0 .. c - 1, i = c * q + r
    PROVE  i \div c = q
<1> DEFINE p == i \div c
           s == i % c
<1>1. p \in Int /\ s \in 0 .. c - 1 /\ i = c * p + s
  BY DivMod
<1>2. s = r
  BY ModUnique
<1> HIDE DEF p, s
<1>3. c * p = c * q
  BY <1>1, <1>2
<1>4. p = q
  BY <1>1, <1>3
<1> QED
  BY <1>4 DEF p

(* A quotient is the largest whose multiple does not exceed the dividend.  *)
LEMMA DivBounds ==
    ASSUME NEW c \in Nat, c > 0, NEW i \in Int
    PROVE  /\ i \div c \in Int
           /\ c * (i \div c) <= i /\ i < c * (i \div c) + c
BY DivMod

(* Multiples of a positive number compare as the factors do.               *)
LEMMA FactorLess ==
    ASSUME NEW c \in Nat, c > 0, NEW p \in Int, NEW q \in Int, c * p < c * q
    PROVE  p < q
BY SMT

(* Whole multiples of the modulus do not change a remainder.               *)
LEMMA ModShift ==
    ASSUME NEW c \in Nat, c > 0, NEW i \in Int, NEW j \in Int, NEW q \in Int,
           j = i + c * q
    PROVE  j % c = i % c
<1> DEFINE p == i \div c
           r == i % c
           s == p + q
<1>1. p \in Int /\ r \in 0 .. c - 1 /\ i = c * p + r
  BY DivMod
<1>2. s \in Int /\ s = p + q
  BY <1>1
<1> HIDE DEF p, r, s
<1>3. j = c * s + r
  BY <1>1, <1>2
<1>4. j % c = r
  BY <1>1, <1>2, <1>3, ModUnique
<1> QED
  BY <1>4 DEF r

------------------------------------------------------------------------------
(* The counter and the stamps.                                             *)

(* What the assumption says of each constant, for the solver.              *)
LEMMA ClockConstants ==
    /\ TickPeriod \in Nat /\ TickPeriod > 0
    /\ TicksPerUnit \in Nat /\ TicksPerUnit > 0 /\ TicksPerUnit <= TickPeriod
    /\ First \in Int /\ First >= 0 /\ First <= 1
    /\ StampMod \in Nat /\ StampMod > 0
BY CounterAssumption

(* A reading in ticks, within a unit, and within the period.               *)
LEMMA ReadingBounds ==
    ASSUME NEW c \in Counts
    PROVE  /\ c \in Int
           /\ time_current(c) \in 0 .. time_period
           /\ TicksPerUnit * time_current(c) <= First + c
           /\ First + c < TicksPerUnit * time_current(c) + TicksPerUnit
<1> DEFINE t == time_current(c)
           p == time_period
<1>1. c \in Int /\ c >= 0 /\ c < TickPeriod /\ First + c \in Int
  BY ClockConstants DEF Counts
<1>2. /\ t \in Int /\ TicksPerUnit * t <= First + c
      /\ First + c < TicksPerUnit * t + TicksPerUnit
  BY <1>1, ClockConstants, DivBounds DEF time_current
<1>3. /\ p \in Int /\ TicksPerUnit * p <= TickPeriod
      /\ TickPeriod < TicksPerUnit * p + TicksPerUnit
  BY ClockConstants, DivBounds DEF time_period
<1> HIDE DEF t, p
<1>4. t > -1
  <2>1. TicksPerUnit * (-1) < TicksPerUnit * t
    BY <1>1, <1>2, ClockConstants
  <2> QED
    BY <2>1, <1>2, ClockConstants, FactorLess
<1>5. t < p + 1
  <2>1. TicksPerUnit * t < TicksPerUnit * (p + 1)
    BY <1>1, <1>2, <1>3, ClockConstants
  <2> QED
    BY <2>1, <1>2, <1>3, ClockConstants, FactorLess
<1> QED
  BY <1>1, <1>2, <1>3, <1>4, <1>5 DEF t, p

(* The period in ticks, within a unit.                                     *)
LEMMA PeriodBounds ==
    /\ time_period \in Nat
    /\ TickPeriod = TicksPerUnit * time_period + (TickPeriod % TicksPerUnit)
    /\ TickPeriod % TicksPerUnit \in 0 .. TicksPerUnit - 1
<1> DEFINE p == time_period
           r == TickPeriod % TicksPerUnit
<1>1. /\ p \in Int /\ r \in 0 .. TicksPerUnit - 1
      /\ TickPeriod = TicksPerUnit * p + r
  BY ClockConstants, DivMod DEF time_period
<1> HIDE DEF p, r
<1>2. p > -1
  <2>1. TicksPerUnit * (-1) < TicksPerUnit * p
    BY <1>1, ClockConstants
  <2> QED
    BY <2>1, <1>1, ClockConstants, FactorLess
<1> QED
  BY <1>1, <1>2 DEF p, r

(* What time_elapsed adds for a gap that does not reach the rollover.      *)
LEMMA AdvanceSameLap ==
    ASSUME NEW c \in Counts, NEW u \in Nat, c + u < TickPeriod
    PROVE  LET prev == time_current(c)
               curr == time_current(c + u)
           IN  /\ Advance(curr, prev) = curr - prev
               /\ Advance(curr, prev) \in 0 .. u
<1> DEFINE prev == time_current(c)
           curr == time_current(c + u)
<1>1. c + u \in Counts
  BY ClockConstants DEF Counts
<1>2. /\ c \in Int /\ u \in Int /\ u >= 0 /\ prev \in Int /\ curr \in Int
      /\ TicksPerUnit * prev <= First + c
      /\ First + c < TicksPerUnit * prev + TicksPerUnit
      /\ TicksPerUnit * curr <= First + (c + u)
      /\ First + (c + u) < TicksPerUnit * curr + TicksPerUnit
  BY <1>1, ReadingBounds, ClockConstants DEF time_period
<1> HIDE DEF prev, curr
<1>3. curr >= prev
  <2>1. TicksPerUnit * prev < TicksPerUnit * (curr + 1)
    BY <1>2, ClockConstants
  <2> QED
    BY <2>1, <1>2, ClockConstants, FactorLess
<1>4. curr - prev < u + 1
  <2>1. TicksPerUnit * u >= u
    BY <1>2, ClockConstants
  <2>2. TicksPerUnit * (curr - prev) < TicksPerUnit * (u + 1)
    BY <2>1, <1>2, ClockConstants
  <2>3. curr - prev \in Int /\ u + 1 \in Int
    BY <1>2
  <2> QED
    BY <2>2, <2>3, ClockConstants, FactorLess
<1> QED
  BY <1>2, <1>3, <1>4 DEF Advance, prev, curr

(* And for one that crosses it: the reading falls, so the period is added. *)
LEMMA AdvanceNextLap ==
    ASSUME NEW c \in Counts, NEW u \in Nat, u + TicksPerUnit <= TickPeriod,
           c + u >= TickPeriod
    PROVE  LET prev == time_current(c)
               curr == time_current(c + u - TickPeriod)
           IN  /\ Advance(curr, prev) = time_period + curr - prev
               /\ Advance(curr, prev) \in 0 .. u
<1> DEFINE prev == time_current(c)
           curr == time_current(c + u - TickPeriod)
           p == time_period
<1>1. c + u - TickPeriod \in Counts
  BY ClockConstants DEF Counts
<1>2. /\ c \in Int /\ u \in Int /\ u >= 0
      /\ prev \in Int /\ prev <= p /\ curr \in Int /\ curr >= 0
      /\ u + TicksPerUnit <= TickPeriod
      /\ TicksPerUnit * prev <= First + c
      /\ First + c < TicksPerUnit * prev + TicksPerUnit
      /\ TicksPerUnit * curr <= First + (c + u - TickPeriod)
      /\ First + (c + u - TickPeriod) < TicksPerUnit * curr + TicksPerUnit
  BY <1>1, ReadingBounds, PeriodBounds, ClockConstants
<1>3. p \in Int /\ TicksPerUnit * p <= TickPeriod
  BY PeriodBounds, ClockConstants
<1> HIDE DEF prev, curr, p
<1>4. curr < prev
  <2>1. TicksPerUnit * curr < TicksPerUnit * prev
    BY <1>2, ClockConstants
  <2> QED
    BY <2>1, <1>2, ClockConstants, FactorLess
<1>5. p + curr - prev < u + 1
  <2>1. TicksPerUnit * u >= u
    BY <1>2, ClockConstants
  <2>2. TicksPerUnit * (p + curr - prev) < TicksPerUnit * (u + 1)
    BY <2>1, <1>2, <1>3, ClockConstants
  <2>3. p + curr - prev \in Int /\ u + 1 \in Int
    BY <1>2, <1>3
  <2> QED
    BY <2>2, <2>3, ClockConstants, FactorLess
<1>6. Advance(curr, prev) = p + curr - prev
  BY <1>2, <1>3, <1>4 DEF Advance, p
<1>7. p + curr - prev \in 0 .. u
  BY <1>2, <1>3, <1>5
<1> QED
  BY <1>6, <1>7 DEF p, prev, curr

------------------------------------------------------------------------------
(* A stamp taken at the count o and polled k ticks later.                  *)
Position(o, k) == (o + k) % TickPeriod
Laps(o, k) == (o + k) \div TickPeriod
Stamps == [curr : Int, elapsed : Nat]

(* Its sum is at most what the readings at both ends and the rollovers in  *)
(* between amount to; less if a rollover was missed or the sum has wrapped. *)
NeverAhead(s, o, k) ==
    /\ s.curr = time_current(Position(o, k))
    /\ s.elapsed <= Laps(o, k) * time_period + s.curr - time_current(o)

(* The lap and the place in it of a number of ticks from o.                *)
LEMMA LapPosition ==
    ASSUME NEW o \in Counts, NEW k \in Nat
    PROVE  /\ Position(o, k) \in Counts /\ Laps(o, k) \in Nat
           /\ o \in Int /\ o + k \in Int
           /\ o + k = TickPeriod * Laps(o, k) + Position(o, k)
<1>1. o \in Nat /\ o + k \in Nat
  BY ClockConstants DEF Counts
<1> DEFINE q == Laps(o, k)
<1>2. /\ Position(o, k) \in Counts /\ q \in Int
      /\ o + k = TickPeriod * q + Position(o, k)
  BY <1>1, ClockConstants, DivMod DEF Counts, Position, Laps
<1> HIDE DEF q
<1>3. q > -1
  <2>1. TickPeriod * (-1) < TickPeriod * q
    BY <1>1, <1>2, ClockConstants DEF Counts
  <2> QED
    BY <2>1, <1>2, ClockConstants, FactorLess
<1> QED
  BY <1>1, <1>2, <1>3 DEF q

(* A later reading of the same lap is not smaller.                         *)
LEMMA ReadingsGrow ==
    ASSUME NEW c \in Counts, NEW d \in Counts, c <= d
    PROVE  time_current(c) <= time_current(d)
<1> DEFINE prev == time_current(c)
           curr == time_current(d)
<1>1. /\ c \in Int /\ d \in Int /\ prev \in Int /\ curr \in Int
      /\ TicksPerUnit * prev <= First + c
      /\ First + d < TicksPerUnit * curr + TicksPerUnit
  BY ReadingBounds, PeriodBounds
<1> HIDE DEF prev, curr
<1>2. TicksPerUnit * prev < TicksPerUnit * (curr + 1)
  BY <1>1, ClockConstants
<1>3. prev < curr + 1
  BY <1>1, <1>2, ClockConstants, FactorLess
<1> QED
  BY <1>1, <1>3 DEF prev, curr

(* What time_elapsed adds is at most the period times the rollovers m that *)
(* were crossed, and the difference of the readings.                       *)
LEMMA AdvanceAtMost ==
    ASSUME NEW c \in Counts, NEW d \in Counts, NEW m \in Nat, m = 0 => c <= d
    PROVE  LET prev == time_current(c)
               curr == time_current(d)
           IN  /\ Advance(curr, prev) \in Nat
               /\ Advance(curr, prev) <= m * time_period + curr - prev
<1> DEFINE prev == time_current(c)
           curr == time_current(d)
           p == time_period
<1>1. prev \in 0 .. p /\ curr \in 0 .. p /\ p \in Nat
  BY ReadingBounds, PeriodBounds
<1>2. m = 0 => prev <= curr
  BY ReadingsGrow
<1> HIDE DEF prev, curr
<1>3. m * p \in Nat /\ (m # 0 => m * p >= p)
  BY <1>1
<1> QED
  BY <1>1, <1>2, <1>3 DEF Advance, prev, curr

(* A poll keeps the stamp from running ahead, after any number of ticks.   *)
LEMMA PolledNeverAhead ==
    ASSUME NEW o \in Counts, NEW k \in Nat, NEW u \in Nat, NEW s \in Stamps,
           NeverAhead(s, o, k)
    PROVE  LET t == Polled(s, Position(o, k + u))
           IN  /\ t \in Stamps /\ t.curr \in 0 .. time_period
               /\ t.elapsed \in 0 .. StampMod - 1
               /\ NeverAhead(t, o, k + u)
<1> DEFINE c == Position(o, k)
           d == Position(o, k + u)
           L == Laps(o, k)
           M == Laps(o, k + u)
           p == time_period
           add == Advance(time_current(d), time_current(c))
           sum == s.elapsed + add
           t == Polled(s, d)
<1>1. /\ c \in Counts /\ c \in Int /\ L \in Nat /\ o \in Int
      /\ o + k = TickPeriod * L + c
  BY LapPosition DEF Counts
<1>2. /\ d \in Counts /\ d \in Int /\ M \in Nat /\ k + u \in Nat
      /\ o + (k + u) = TickPeriod * M + d
  <2>1. k + u \in Nat
    OBVIOUS
  <2> QED
    BY <2>1, LapPosition DEF Counts
<1>3. s.curr = time_current(c) /\ s.elapsed \in Nat
      /\ s.elapsed <= L * p + s.curr - time_current(o)
  BY DEF NeverAhead, Stamps
<1>4. /\ time_current(c) \in 0 .. p /\ time_current(d) \in 0 .. p
      /\ time_current(o) \in Int /\ p \in Nat
  BY <1>1, <1>2, ReadingBounds, PeriodBounds
<1> HIDE DEF c, d, L, M, p
<1>5. M >= L /\ (M = L => c <= d)
  <2>1. TickPeriod * L + c <= TickPeriod * M + d /\ c < TickPeriod /\ d < TickPeriod
        /\ c >= 0 /\ d >= 0
    BY <1>1, <1>2, ClockConstants DEF Counts
  <2>2. TickPeriod * L < TickPeriod * (M + 1)
    BY <1>1, <1>2, <2>1, ClockConstants
  <2>3. L < M + 1
    BY <1>1, <1>2, <2>2, ClockConstants, FactorLess
  <2> QED
    BY <1>1, <1>2, <2>1, <2>3, ClockConstants
<1>6. add \in Nat /\ add <= (M - L) * p + time_current(d) - time_current(c)
  <2>1. M - L \in Nat /\ (M - L = 0 => c <= d)
    BY <1>1, <1>2, <1>5
  <2> QED
    BY <1>1, <1>2, <2>1, AdvanceAtMost DEF p
<1> HIDE DEF add
<1>7. sum \in Nat /\ sum <= M * p + time_current(d) - time_current(o)
  <2>1. (M - L) * p = M * p - L * p /\ M * p \in Int /\ L * p \in Int
    BY <1>1, <1>2, <1>4
  <2> QED
    BY <1>3, <1>4, <1>6, <2>1
<1> HIDE DEF sum
<1>8. sum % StampMod \in 0 .. StampMod - 1 /\ sum % StampMod <= sum
  BY <1>7, ClockConstants, SMT
<1>9. t = [curr |-> time_current(d), elapsed |-> sum % StampMod]
  BY <1>3 DEF Polled, add, sum
<1>10. M * p \in Int
  BY <1>2, <1>4
<1>11. /\ t.curr = time_current(d) /\ t.elapsed = sum % StampMod /\ t \in Stamps
  BY <1>4, <1>8, <1>9, ClockConstants DEF Stamps
<1>12. t.elapsed <= M * p + t.curr - time_current(o)
  BY <1>4, <1>7, <1>8, <1>10, <1>11, ClockConstants
<1> QED
  BY <1>4, <1>8, <1>11, <1>12 DEF NeverAhead, M, d, p

(* A stamp that is never ahead shows no unit more than have passed.        *)
LEMMA NeverAheadBound ==
    ASSUME NEW o \in Counts, NEW k \in Nat, NEW s \in Stamps, NeverAhead(s, o, k)
    PROVE  s.elapsed * TicksPerUnit < k + TicksPerUnit
<1> DEFINE c == Position(o, k)
           L == Laps(o, k)
           p == time_period
           h == TicksPerUnit
           x == L * p
           y == time_current(c)
           z == time_current(o)
           e == s.elapsed
<1>1. /\ c \in Counts /\ c \in Int /\ L \in Nat /\ o \in Int
      /\ o + k = TickPeriod * L + c
  BY LapPosition DEF Counts
<1>2. /\ y \in Int /\ z \in Int /\ p \in Nat /\ h * y <= First + c
      /\ First + o < h * z + h /\ h * p <= TickPeriod
  BY <1>1, ReadingBounds, PeriodBounds, ClockConstants
<1>3. e \in Nat /\ e <= x + y - z
  BY DEF NeverAhead, Stamps
<1>4. h \in Nat /\ h > 0 /\ First \in Int /\ TickPeriod \in Nat
  BY ClockConstants
<1> HIDE DEF c, L, p, h, y, z, e
<1>5. x \in Int /\ h * x <= TickPeriod * L
  <2>1. h * x = (h * p) * L /\ h * p \in Int
    BY <1>1, <1>2, <1>4
  <2> QED
    BY <1>1, <1>2, <1>4, <2>1
<1> HIDE DEF x
<1>6. e * h <= (x + y - z) * h
  BY <1>2, <1>3, <1>4, <1>5
<1>7. (x + y - z) * h = h * x + h * y - h * z
  BY <1>2, <1>4, <1>5
<1> DEFINE hx == h * x
           hy == h * y
           hz == h * z
           eh == e * h
           T == TickPeriod * L
<1>8. hx \in Int /\ hy \in Int /\ hz \in Int /\ eh \in Int /\ T \in Int
  BY <1>1, <1>2, <1>3, <1>4, <1>5
<1>9. /\ eh <= hx + hy - hz /\ hx <= T /\ hy <= First + c
      /\ First + o < hz + h /\ o + k = T + c
  BY <1>1, <1>2, <1>5, <1>6, <1>7
<1> HIDE DEF hx, hy, hz, eh, T
<1>10. eh < k + h
  BY <1>1, <1>4, <1>8, <1>9
<1> QED
  BY <1>10 DEF eh, e, h

(* A stamp just taken.                                                     *)
LEMMA NewNeverAhead ==
    ASSUME NEW o \in Counts
    PROVE  /\ NewStamp(o) \in Stamps /\ NewStamp(o).curr \in 0 .. time_period
           /\ NewStamp(o).elapsed \in 0 .. StampMod - 1
           /\ NeverAhead(NewStamp(o), o, 0) /\ Position(o, 0) = o
<1>1. o \in 0 .. TickPeriod - 1 /\ o + 0 = TickPeriod * 0 + o /\ o + 0 \in Int
  BY ClockConstants DEF Counts
<1>2. Position(o, 0) = o /\ Laps(o, 0) = 0
  BY <1>1, ClockConstants, ModUnique, DivUnique DEF Position, Laps
<1>3. time_current(o) \in 0 .. time_period /\ time_period \in Nat
  BY ReadingBounds, PeriodBounds
<1> QED
  BY <1>2, <1>3, ClockConstants DEF NewStamp, NeverAhead, Stamps

(* The counter's own step.                                                 *)
LEMMA PositionTick ==
    ASSUME NEW o \in Counts, NEW k \in Nat
    PROVE  (Position(o, k) + 1) % TickPeriod = Position(o, k + 1)
<1> DEFINE c == Position(o, k)
           L == Laps(o, k)
           a == c + 1
           b == o + (k + 1)
<1>1. c \in Int /\ L \in Int /\ o \in Int /\ o + k = TickPeriod * L + c
  <2>1. c \in Counts /\ L \in Nat /\ o \in Int /\ o + k = TickPeriod * L + c
    BY LapPosition
  <2> QED
    BY <2>1, ClockConstants DEF Counts
<1> HIDE DEF c, L
<1>2. a \in Int /\ b \in Int /\ b = a + TickPeriod * L
  BY <1>1, ClockConstants
<1> HIDE DEF a, b
<1>3. b % TickPeriod = a % TickPeriod
  BY <1>1, <1>2, ClockConstants, ModShift
<1> QED
  BY <1>3 DEF a, b, c, Position

------------------------------------------------------------------------------
(* The units a clock shows to have passed in k ticks from o, and a stamp   *)
(* that has missed none of them.                                           *)
Units(o, k) ==
    Laps(o, k) * time_period + time_current(Position(o, k)) - time_current(o)

Exact(s, o, k) == s.curr = time_current(Position(o, k)) /\ s.elapsed = Units(o, k)

(* Two positions that are less than a period apart: the same lap or the    *)
(* next.                                                                   *)
LEMMA NextPosition ==
    ASSUME NEW o \in Counts, NEW k \in Nat, NEW u \in Nat, u < TickPeriod
    PROVE  LET c == Position(o, k)
           IN  \/ /\ c + u < TickPeriod
                  /\ Position(o, k + u) = c + u /\ Laps(o, k + u) = Laps(o, k)
               \/ /\ c + u >= TickPeriod
                  /\ Position(o, k + u) = c + u - TickPeriod
                  /\ Laps(o, k + u) = Laps(o, k) + 1
<1> DEFINE c == Position(o, k)
           L == Laps(o, k)
           j == o + (k + u)
<1>1. /\ c \in 0 .. TickPeriod - 1 /\ L \in Int /\ o \in Int
      /\ o + k = TickPeriod * L + c
  <2>1. c \in Counts /\ L \in Nat /\ o \in Int /\ o + k = TickPeriod * L + c
    BY LapPosition
  <2> QED
    BY <2>1, ClockConstants DEF Counts
<1> HIDE DEF c, L, j
<1>2. j \in Int /\ j = TickPeriod * L + (c + u)
  BY <1>1, ClockConstants DEF j
<1>3. CASE c + u < TickPeriod
  <2> DEFINE r == c + u
  <2>1. r \in 0 .. TickPeriod - 1
    BY <1>1, <1>3, ClockConstants
  <2> HIDE DEF r
  <2>2. j % TickPeriod = r /\ j \div TickPeriod = L
    BY <1>1, <1>2, <2>1, ClockConstants, ModUnique, DivUnique DEF r
  <2> QED
    BY <1>3, <2>2 DEF r, j, c, L, Position, Laps
<1>4. CASE c + u >= TickPeriod
  <2> DEFINE r == c + u - TickPeriod
             m == L + 1
  <2>1. r \in 0 .. TickPeriod - 1 /\ m \in Int /\ j = TickPeriod * m + r
    BY <1>1, <1>2, <1>4, ClockConstants
  <2> HIDE DEF r, m
  <2>2. j % TickPeriod = r /\ j \div TickPeriod = m
    BY <1>2, <2>1, ClockConstants, ModUnique, DivUnique
  <2> QED
    BY <1>4, <2>2 DEF r, m, j, c, L, Position, Laps
<1>5. c + u \in Int
  BY <1>1
<1> QED
  BY <1>3, <1>4, <1>5, ClockConstants DEF c

(* time_elapsed adds just the units shown, for a gap shorter than a period *)
(* by a unit.                                                              *)
LEMMA AdvanceExact ==
    ASSUME NEW o \in Counts, NEW k \in Nat, NEW u \in Nat,
           u + TicksPerUnit <= TickPeriod
    PROVE  LET add == Advance(time_current(Position(o, k + u)),
                              time_current(Position(o, k)))
           IN  /\ add \in 0 .. u /\ Units(o, k + u) = Units(o, k) + add
               /\ Units(o, k) \in Int /\ Units(o, k + u) \in Int
<1> DEFINE c == Position(o, k)
           d == Position(o, k + u)
           L == Laps(o, k)
           M == Laps(o, k + u)
           p == time_period
           add == Advance(time_current(d), time_current(c))
<1>1. k + u \in Nat /\ u < TickPeriod
  BY ClockConstants
<1>2. /\ c \in Counts /\ L \in Nat /\ d \in Counts /\ M \in Nat
      /\ \/ c + u < TickPeriod /\ d = c + u /\ M = L
         \/ c + u >= TickPeriod /\ d = c + u - TickPeriod /\ M = L + 1
  BY <1>1, LapPosition, NextPosition
<1>3. /\ time_current(c) \in Int /\ time_current(d) \in Int
      /\ time_current(o) \in Int /\ p \in Nat
  BY <1>2, ReadingBounds, PeriodBounds
<1> HIDE DEF c, d, L, M, p
<1>4. /\ add \in 0 .. u
      /\ M * p + time_current(d) = L * p + time_current(c) + add
  <2>1. CASE c + u < TickPeriod /\ d = c + u /\ M = L
    <3>1. add = time_current(d) - time_current(c) /\ add \in 0 .. u
      BY <1>2, <2>1, AdvanceSameLap
    <3> QED
      BY <1>2, <1>3, <2>1, <3>1
  <2>2. CASE c + u >= TickPeriod /\ d = c + u - TickPeriod /\ M = L + 1
    <3>1. add = p + time_current(d) - time_current(c) /\ add \in 0 .. u
      BY <1>2, <2>2, AdvanceNextLap DEF p
    <3>2. M * p = L * p + p
      BY <1>2, <1>3, <2>2
    <3>3. L * p \in Int
      BY <1>2, <1>3
    <3> QED
      BY <1>3, <3>1, <3>2, <3>3
  <2> QED
    BY <1>2, <2>1, <2>2
<1>5. M * p \in Int /\ L * p \in Int
  BY <1>2, <1>3
<1>6. add \in Int
  BY <1>4
<1> HIDE DEF add
<1> QED
  BY <1>3, <1>4, <1>5, <1>6 DEF Units, add, c, d, L, M, p

(* Units do not get fewer, and a unit shown has passed; in less than a     *)
(* period at most one rollover drops a fraction.                           *)
LEMMA UnitsBounds ==
    ASSUME NEW o \in Counts, NEW k \in Nat, k + TicksPerUnit <= TickPeriod
    PROVE  /\ Units(o, k) \in 0 .. k
           /\ Units(o, k) * TicksPerUnit < k + TicksPerUnit
           /\ Units(o, k) * TicksPerUnit > k - 2 * TicksPerUnit
<1> DEFINE c == Position(o, k)
           L == Laps(o, k)
           p == time_period
           h == TicksPerUnit
           y == time_current(c)
           z == time_current(o)
<1>1. /\ c \in Counts /\ c \in Int /\ L \in Nat /\ o \in Counts /\ o \in Int
      /\ o + k = TickPeriod * L + c /\ Position(o, 0) = o /\ 0 \in Nat
  BY LapPosition, NewNeverAhead DEF Counts
<1>2. Units(o, 0) = 0
  <2>1. o \in 0 .. TickPeriod - 1 /\ o + 0 = TickPeriod * 0 + o /\ o + 0 \in Int
    BY <1>1, ClockConstants DEF Counts
  <2>2. Laps(o, 0) = 0
    BY <2>1, ClockConstants, DivUnique DEF Laps
  <2>3. time_current(o) \in Int /\ time_period \in Nat
    BY ReadingBounds, PeriodBounds
  <2> QED
    BY <1>1, <2>2, <2>3 DEF Units
<1>3. 0 + k = k
  OBVIOUS
<1>4. Units(o, k) \in 0 .. k
  BY <1>1, <1>2, <1>3, AdvanceExact
<1>5. /\ y \in Int /\ z \in Int /\ p \in Nat
      /\ h * y <= First + c /\ First + c < h * y + h
      /\ h * z <= First + o /\ First + o < h * z + h
  BY <1>1, ReadingBounds, PeriodBounds
<1>6. h * p <= TickPeriod /\ TickPeriod < h * p + h
  BY PeriodBounds, ClockConstants
<1>7. Units(o, k) = L * p + y - z
  BY DEF Units
<1>8. h \in Nat /\ h > 0 /\ First \in Int /\ TickPeriod \in Nat
      /\ o < TickPeriod /\ k + h <= TickPeriod /\ c >= 0
  BY <1>1, ClockConstants DEF Counts
<1> HIDE DEF c, L, p, h, y, z
<1>9. L \in {0, 1}
  <2>1. TickPeriod * L < TickPeriod * 2
    BY <1>1, <1>8
  <2>2. L < 2
    BY <1>1, <1>8, <2>1, FactorLess
  <2> QED
    BY <1>1, <2>2
<1> DEFINE U == Units(o, k) * h
           hy == h * y
           hz == h * z
           hp == h * p
<1>10. hy \in Int /\ hz \in Int /\ hp \in Int
  BY <1>5, <1>8
<1>11. /\ L = 0 => U = hy - hz /\ o + k = c
       /\ L = 1 => U = hp + hy - hz /\ o + k = TickPeriod + c
  BY <1>1, <1>5, <1>7, <1>8
<1>12. /\ hy <= First + c /\ First + c < hy + h /\ hz <= First + o
       /\ First + o < hz + h /\ hp <= TickPeriod /\ TickPeriod < hp + h
  BY <1>5, <1>6
<1> HIDE DEF U, hy, hz, hp
<1>13. U < k + h /\ U > k - 2 * h
  BY <1>1, <1>8, <1>9, <1>10, <1>11, <1>12
<1> QED
  BY <1>4, <1>13 DEF U, h

(* A stamp polled within a period of its start stays exact.                *)
LEMMA PolledExact ==
    ASSUME NEW o \in Counts, NEW k \in Nat, NEW u \in Nat,
           k + u + TicksPerUnit <= TickPeriod, TickPeriod <= StampMod,
           NEW s \in Stamps, Exact(s, o, k)
    PROVE  Exact(Polled(s, Position(o, k + u)), o, k + u)
<1> DEFINE d == Position(o, k + u)
           add == Advance(time_current(d), time_current(Position(o, k)))
           n == k + u
<1>1. n \in Nat /\ n + TicksPerUnit <= TickPeriod /\ u + TicksPerUnit <= TickPeriod
  BY ClockConstants
<1>2. Units(o, n) = Units(o, k) + add
  BY <1>1, AdvanceExact
<1>3. Units(o, n) \in 0 .. n
  BY <1>1, UnitsBounds
<1> HIDE DEF n
<1>4. Units(o, n) \in 0 .. StampMod - 1
  BY <1>1, <1>3, ClockConstants
<1> DEFINE w == Units(o, n)
<1>5. w % StampMod = w
  <2>1. w \in 0 .. StampMod - 1
    BY <1>4
  <2> HIDE DEF w
  <2> QED
    BY <2>1, ClockConstants, SMT
<1>6. Polled(s, d) = [curr |-> time_current(d), elapsed |-> Units(o, n)]
  BY <1>2, <1>5 DEF Polled, Exact
<1> QED
  BY <1>6 DEF Exact, n

(* A stamp just taken is exact.                                            *)
LEMMA NewExact ==
    ASSUME NEW o \in Counts
    PROVE  Exact(NewStamp(o), o, 0) /\ Position(o, 0) = o /\ NewStamp(o).elapsed = 0
<1>1. NewStamp(o).curr = time_current(Position(o, 0)) /\ Position(o, 0) = o
      /\ NewStamp(o).elapsed = 0
  BY NewNeverAhead DEF NeverAhead, NewStamp
<1>2. Units(o, 0) = 0
  <2>1. 0 \in Nat /\ 0 + TicksPerUnit <= TickPeriod
    BY ClockConstants
  <2>2. Units(o, 0) \in 0 .. 0
    BY <2>1, UnitsBounds
  <2> QED
    BY <2>2
<1> QED
  BY <1>1, <1>2 DEF Exact

(* Units do not get fewer as time passes.                                  *)
LEMMA UnitsGrow ==
    ASSUME NEW o \in Counts, NEW k \in Nat, NEW u \in Nat,
           k + u + TicksPerUnit <= TickPeriod
    PROVE  Units(o, k) <= Units(o, k + u)
<1>1. u + TicksPerUnit <= TickPeriod
  BY ClockConstants
<1> DEFINE add == Advance(time_current(Position(o, k + u)),
                          time_current(Position(o, k)))
<1>2. /\ add \in 0 .. u /\ Units(o, k + u) = Units(o, k) + add
      /\ Units(o, k) \in Int
  BY <1>1, AdvanceExact
<1> HIDE DEF add
<1> QED
  BY <1>2

(* An exact stamp is not ahead.                                            *)
LEMMA ExactNeverAhead ==
    ASSUME NEW o \in Counts, NEW k \in Nat, NEW s \in Stamps, Exact(s, o, k)
    PROVE  NeverAhead(s, o, k)
<1>1. s.elapsed \in Nat
  BY DEF Stamps
<1> QED
  BY <1>1 DEF Exact, NeverAhead, Units

(* On a clock that counts in units, as the host's, units are ticks.        *)
LEMMA UnitsAreTicks ==
    ASSUME NEW o \in Counts, NEW k \in Nat, TicksPerUnit = 1
    PROVE  Units(o, k) = k
<1> DEFINE c == Position(o, k)
           L == Laps(o, k)
<1>1. /\ c \in Counts /\ c \in Int /\ L \in Nat /\ o \in Int
      /\ o + k = TickPeriod * L + c
  BY LapPosition DEF Counts
<1>2. /\ time_current(c) = First + c /\ time_current(o) = First + o
      /\ time_period = TickPeriod
  BY <1>1, ClockConstants DEF time_current, time_period
<1>3. Units(o, k) = L * TickPeriod + (First + c) - (First + o)
  BY <1>2 DEF Units
<1> HIDE DEF c, L
<1>4. L * TickPeriod = TickPeriod * L /\ TickPeriod * L \in Int
  BY <1>1, ClockConstants
<1> DEFINE T == TickPeriod * L
<1> HIDE DEF T
<1>5. T \in Int /\ Units(o, k) = T + (First + c) - (First + o) /\ o + k = T + c
  BY <1>1, <1>3, <1>4 DEF T
<1> QED
  BY <1>1, <1>5, ClockConstants

(* The units shown are behind the ticks by less than a unit, and by the    *)
(* fraction that each rollover drops.                                      *)
LEMMA UnitsLag ==
    ASSUME NEW o \in Counts, NEW k \in Nat
    PROVE  /\ Units(o, k) \in Int
           /\ Units(o, k) * TicksPerUnit >
                k - TicksPerUnit - Laps(o, k) * (TickPeriod % TicksPerUnit)
<1> DEFINE c == Position(o, k)
           L == Laps(o, k)
           p == time_period
           w == TickPeriod % TicksPerUnit
           h == TicksPerUnit
           y == time_current(c)
           z == time_current(o)
<1>1. /\ c \in Counts /\ c \in Int /\ L \in Nat /\ o \in Int
      /\ o + k = TickPeriod * L + c
  BY LapPosition DEF Counts
<1>2. /\ y \in Int /\ z \in Int /\ First + c < h * y + h /\ h * z <= First + o
  BY <1>1, ReadingBounds
<1>3. p \in Nat /\ w \in Nat /\ TickPeriod = h * p + w
  BY PeriodBounds
<1>4. Units(o, k) = L * p + y - z
  BY DEF Units
<1>5. h \in Nat /\ First \in Int /\ TickPeriod \in Nat
  BY ClockConstants
<1> HIDE DEF c, L, p, w, h, y, z
<1> DEFINE A == h * p * L
           W == L * w
           hy == h * y
           hz == h * z
<1>6. A \in Int /\ W \in Int /\ hy \in Int /\ hz \in Int
  BY <1>1, <1>2, <1>3, <1>5
<1>7. TickPeriod * L = A + W
  BY <1>1, <1>3, <1>5
<1>8. Units(o, k) * h = A + hy - hz
  BY <1>1, <1>2, <1>3, <1>4, <1>5
<1>9. o + k = A + W + c /\ First + c < hy + h /\ hz <= First + o
  BY <1>1, <1>2, <1>7
<1>10. Units(o, k) \in Int
  BY <1>1, <1>2, <1>3, <1>4
<1> HIDE DEF A, W, hy, hz
<1>11. A + hy - hz > k - h - W
  BY <1>1, <1>5, <1>6, <1>9
<1> QED
  BY <1>8, <1>10, <1>11 DEF h, W, L, w

(* The rollovers that a number of ticks can bring.                         *)
LEMMA LapsBound ==
    ASSUME NEW o \in Counts, NEW k \in Nat, NEW n \in Nat, k <= n
    PROVE  /\ Laps(o, k) \in Nat /\ (TickPeriod + n) \div TickPeriod \in Nat
           /\ Laps(o, k) <= (TickPeriod + n) \div TickPeriod
<1> DEFINE L == Laps(o, k)
           c == Position(o, k)
           m == TickPeriod + n
           M == m \div TickPeriod
<1>1. L \in Nat /\ o \in Int /\ o + k = TickPeriod * L + c /\ c \in Int /\ c >= 0
  <2>1. c \in Counts /\ L \in Nat /\ o \in Int /\ o + k = TickPeriod * L + c
    BY LapPosition
  <2> QED
    BY <2>1, ClockConstants DEF Counts
<1>2. o < TickPeriod /\ m \in Int
  BY ClockConstants DEF Counts
<1>3. M \in Int /\ TickPeriod * M <= m /\ m < TickPeriod * M + TickPeriod
  BY <1>2, ClockConstants, DivBounds
<1>4. TickPeriod * (M + 1) = TickPeriod * M + TickPeriod
  BY <1>3, ClockConstants
<1> DEFINE B == TickPeriod * (M + 1)
           A == TickPeriod * L
<1>5. A \in Int /\ B \in Int
  BY <1>1, <1>3, ClockConstants
<1> HIDE DEF L, c, M
<1>6. A <= m /\ m < B
  <2> HIDE DEF A, B
  <2>1. o + k = A + c
    BY <1>1 DEF A
  <2>2. m < B
    BY <1>3, <1>4 DEF B
  <2> QED
    BY <1>1, <1>2, <1>5, <2>1, <2>2, ClockConstants
<1>7. TickPeriod * L < TickPeriod * (M + 1)
  BY <1>2, <1>5, <1>6
<1>8. L < M + 1
  BY <1>1, <1>3, <1>7, ClockConstants, FactorLess
<1> QED
  BY <1>1, <1>3, <1>8 DEF L, M

(* A poll after a short gap keeps a stamp exact over any number of         *)
(* rollovers, as long as the sum fits its word.                            *)
LEMMA PolledStaysExact ==
    ASSUME NEW o \in Counts, NEW k \in Nat, NEW u \in Nat,
           u + TicksPerUnit <= TickPeriod,
           NEW s \in Stamps, Exact(s, o, k), s.elapsed + u < StampMod
    PROVE  Exact(Polled(s, Position(o, k + u)), o, k + u)
<1> DEFINE d == Position(o, k + u)
           add == Advance(time_current(d), time_current(Position(o, k)))
           sum == s.elapsed + add
<1>1. add \in 0 .. u /\ Units(o, k + u) = Units(o, k) + add
  BY AdvanceExact
<1> HIDE DEF add
<1>2. s.elapsed \in Nat /\ s.elapsed = Units(o, k)
  BY DEF Stamps, Exact
<1>3. sum \in 0 .. StampMod - 1 /\ sum = Units(o, k + u)
  BY <1>1, <1>2, ClockConstants
<1> HIDE DEF sum
<1>4. sum % StampMod = sum
  BY <1>3, ClockConstants, SMT
<1>5. Polled(s, d) = [curr |-> time_current(d), elapsed |-> sum % StampMod]
  BY DEF Polled, Exact, sum, add
<1> QED
  BY <1>3, <1>4, <1>5 DEF Exact

------------------------------------------------------------------------------
(* A stamp keeps its type, wherever it came from.                          *)
StampType == [curr : 0 .. time_period, elapsed : 0 .. StampMod - 1]

LEMMA StampTypes ==
    /\ \A c \in Counts : NewStamp(c) \in StampType
    /\ \A c \in Counts, s \in StampType : Polled(s, c) \in StampType
    /\ StampType \subseteq Stamps
    /\ [curr |-> 0, elapsed |-> 0] \in StampType
<1>1. time_period \in Nat /\ StampMod \in Nat /\ StampMod > 0
  BY PeriodBounds, ClockConstants
<1>2. \A c \in Counts : NewStamp(c) \in StampType
  BY NewNeverAhead DEF StampType, NewStamp
<1>3. ASSUME NEW c \in Counts, NEW s \in StampType PROVE Polled(s, c) \in StampType
  <2> DEFINE sum == s.elapsed + Advance(time_current(c), s.curr)
  <2>1. time_current(c) \in 0 .. time_period
    BY ReadingBounds
  <2>2. sum \in Int
    BY <1>1, <2>1 DEF StampType, Advance
  <2> HIDE DEF sum
  <2>3. sum % StampMod \in 0 .. StampMod - 1
    BY <1>1, <2>2, DivMod
  <2> QED
    BY <2>1, <2>3 DEF Polled, StampType, sum
<1>4. StampType \subseteq Stamps
  BY <1>1 DEF StampType, Stamps
<1>5. [curr |-> 0, elapsed |-> 0] \in StampType
  BY <1>1 DEF StampType
<1> QED
  BY <1>2, <1>3, <1>4, <1>5
==============================================================================
