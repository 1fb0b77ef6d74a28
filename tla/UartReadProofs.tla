---------------------------- MODULE UartReadProofs ----------------------------
(***************************************************************************)
(* Proofs about UartRead for every stream, receive buffer and clock.  That *)
(* nothing is missing from what is read on the Tiva, and that a read is    *)
(* short only for a reason unless it returns nothing, holds without        *)
(* condition.  That an empty read has its reason too, and a read is over   *)
(* in time, is proved of timeouts that end within one period of the clock: *)
(* Fits.  Longer ones are at the mercy of a stamp that is not polled while *)
(* the caller waits, and so misses the rollover.                           *)
(***************************************************************************)
EXTENDS UartRead, ClockProofs

Fits ==
    /\ LongestTimeout * TicksPerUnit + Slack + TicksPerUnit <= TickPeriod
    /\ TickPeriod <= StampMod
    /\ "host" \in Platforms => TicksPerUnit = 1

(* What the assumptions say of each constant, for the solver.              *)
LEMMA Constants ==
    /\ Platforms \subseteq {"host", "tiva"} /\ Bytes \in Nat
    /\ Ends \subseteq 1 .. Bytes /\ Depth \in Nat /\ Depth > 0
    /\ Lens \subseteq Nat /\ Timeouts \subseteq Nat /\ MaxGap \in Nat
    /\ Entries \subseteq EntryPoints
BY ReadAssumption

LEMMA Longest ==
    /\ LongestTimeout \in Nat /\ \A t \in Timeouts : t <= LongestTimeout
    /\ Slack \in Nat /\ SinceMax \in Nat
    /\ SinceMax = LongestTimeout * TicksPerUnit + Slack + 1
<1>1. LongestTimeout \in Timeouts /\ \A t \in Timeouts : t <= LongestTimeout
  BY TimeoutsBounded DEF LongestTimeout
<1>2. LongestTimeout \in Nat
  BY <1>1, Constants
<1>3. Slack \in Nat
  BY Constants, ClockConstants DEF Slack
<1> DEFINE x == LongestTimeout * TicksPerUnit
<1>4. x \in Nat
  BY <1>2, ClockConstants
<1>5. SinceMax = x + Slack + 1
  BY DEF SinceMax
<1> HIDE DEF x
<1>6. SinceMax \in Nat
  BY <1>3, <1>4, <1>5
<1> QED
  BY <1>1, <1>2, <1>3, <1>5, <1>6 DEF x

(* The definitions that only abbreviate constants.                         *)
LEMMA TypeOKExpanded ==
    TypeOK <=>
    /\ counter \in Counts /\ idle \in 0 .. MaxGap /\ since \in 0 .. SinceMax
    /\ platform \in Platforms /\ faulty \in BOOLEAN
    /\ arrived \in 0 .. Bytes /\ whole \in 0 .. arrived
    /\ damaged \in BOOLEAN /\ lost \in BOOLEAN
    /\ taken \in 0 .. arrived /\ available <= Depth
    /\ pc \in {"idle", "wait", "loop", "read", "error"}
    /\ call \in [len : Nat, timeout : Nat, term : {"none", "char"}, entry : EntryPoints]
    /\ stamp \in StampType /\ waitStamp \in StampType
    /\ waitFailed \in BOOLEAN /\ read \in 0 .. taken
    /\ ret \in -1 .. Bytes
BY DEF TypeOK, StampType

------------------------------------------------------------------------------
(* What holds however long a call lasts.                                   *)
Asked ==
    /\ call.timeout <= LongestTimeout
    /\ Busy => 0 < call.len /\ read <= call.len
    /\ Busy /\ pc # "read" => read < call.len
    /\ pc \in {"idle", "wait"} => read = 0

Base == TypeOK /\ Asked

LEMMA BaseInit == Init => Base
<1> SUFFICES ASSUME Init PROVE Base
  OBVIOUS
<1>1. Unset \in StampType
  BY StampTypes DEF Unset
<1>2. call.timeout = 0 /\ 0 \in 0 .. MaxGap /\ 0 \in 0 .. SinceMax /\ -1 \in -1 .. Bytes
  BY Constants, Longest DEF Init
<1>3. call \in [len : Nat, timeout : Nat, term : {"none", "char"}, entry : EntryPoints]
  BY DEF Init, EntryPoints
<1>4. arrived \in 0 .. Bytes /\ whole \in 0 .. arrived /\ taken \in 0 .. arrived /\ read \in 0 .. taken
  BY Constants DEF Init
<1>5. available <= Depth
  BY Constants DEF Init, available
<1>6. /\ counter \in Counts /\ platform \in Platforms /\ idle = 0 /\ since = 0
      /\ lost = FALSE /\ damaged = FALSE /\ faulty \in BOOLEAN /\ waitFailed = FALSE /\ ret = -1 /\ pc = "idle"
      /\ stamp = Unset /\ waitStamp = Unset
  BY DEF Init
<1>7. TypeOK
  BY <1>1, <1>2, <1>3, <1>4, <1>5, <1>6, TypeOKExpanded
<1> QED
  BY <1>2, <1>7, Longest DEF Base, Asked, Init, Busy

LEMMA BaseTick ==
    ASSUME Base, Tick
    PROVE  Base'
<1>1. /\ counter' = (counter + 1) % TickPeriod
      /\ UNCHANGED <<platform, faulty, arrived, whole, damaged, lost, taken, pc, call, stamp, waitStamp,
                     waitFailed, read, ret>>
  BY DEF Tick, port, thread
<1>2. counter' \in Counts
  BY <1>1, ClockConstants DEF Base, TypeOK, Counts
<1>3. idle' \in 0 .. MaxGap /\ since' \in 0 .. SinceMax
  BY Constants, Longest DEF Tick, Base, TypeOK
<1> QED
  BY <1>1, <1>2, <1>3 DEF Base, TypeOK, Asked, Busy, available, Counts,
     time_period, LongestTimeout

(* A byte comes in, or there was no room for it.                           *)
LEMMA ArriveSteps ==
    ASSUME Base, Arrive
    PROVE  /\ UNCHANGED <<counter, idle, since, platform, faulty, taken, pc, call,
                          stamp, waitStamp, waitFailed, read, ret>>
           /\ arrived < Bytes
           /\ \/ /\ available < Depth /\ arrived' = arrived + 1 /\ lost' = lost
                 /\ \/ /\ whole' = IF lost \/ damaged THEN whole ELSE whole + 1
                       /\ damaged' = damaged
                    \/ /\ platform = "tiva" /\ ~lost /\ ~damaged
                       /\ damaged' = TRUE /\ whole' = whole
              \/ /\ ~(available < Depth) /\ lost' = TRUE
                 /\ UNCHANGED <<arrived, whole, damaged>>
BY DEF Arrive, clock, thread

LEMMA BaseArrive ==
    ASSUME Base, Arrive
    PROVE  Base'
<1>1. /\ UNCHANGED <<counter, idle, since, platform, faulty, taken, pc, call, stamp,
                     waitStamp, waitFailed, read, ret>>
      /\ arrived < Bytes
      /\ \/ /\ available < Depth /\ arrived' = arrived + 1 /\ lost' = lost
            /\ whole' \in {whole, whole + 1} /\ damaged' \in {damaged, TRUE}
         \/ lost' = TRUE /\ UNCHANGED <<arrived, whole, damaged>>
  BY ArriveSteps
<1>2. /\ arrived \in Nat /\ taken \in Nat /\ taken <= arrived /\ arrived <= Bytes
      /\ available = arrived - taken /\ available <= Depth /\ lost \in BOOLEAN
      /\ whole \in Nat /\ whole <= arrived /\ damaged \in BOOLEAN
  BY Constants DEF Base, TypeOK, available
<1>3. available' = arrived' - taken /\ taken' = taken
  BY <1>1 DEF available
<1>4. arrived' \in {arrived, arrived + 1} /\ arrived' - taken <= Depth
      /\ arrived' <= Bytes
  <2>1. arrived' = arrived \/ (available < Depth /\ arrived' = arrived + 1)
    BY <1>1
  <2> QED
    BY <1>1, <1>2, <2>1, Constants
<1>5. lost' \in BOOLEAN /\ damaged' \in BOOLEAN /\ whole' \in 0 .. arrived'
  <2>1. \/ arrived' = arrived + 1 /\ (whole' = whole \/ whole' = whole + 1)
        \/ arrived' = arrived /\ whole' = whole
    BY <1>1
  <2>2. whole' \in 0 .. arrived'
    BY <1>2, <2>1
  <2> QED
    BY <1>1, <1>2, <2>2
<1>6. arrived' \in 0 .. Bytes /\ taken' \in 0 .. arrived' /\ available' <= Depth
  <2>1. arrived' \in Nat /\ taken <= arrived'
    BY <1>2, <1>4
  <2>2. available' <= Depth
    BY <1>3, <1>4
  <2>3. arrived' \in 0 .. Bytes
    <3>1. Bytes \in Nat
      BY Constants
    <3> QED
      BY <1>4, <2>1, <3>1
  <2>4. taken' \in 0 .. arrived'
    BY <1>2, <1>3, <2>1
  <2> QED
    BY <2>2, <2>3, <2>4
<1>7. TypeOK'
  BY <1>1, <1>5, <1>6 DEF Base, TypeOK, Counts, time_period, LongestTimeout, SinceMax, Slack
<1>8. Asked'
  BY <1>1 DEF Base, Asked, Busy, LongestTimeout
<1> QED
  BY <1>7, <1>8 DEF Base

LEMMA BaseCall ==
    ASSUME Base, Call
    PROVE  Base'
<1>1. PICK c \in Calls :
        /\ call' = c /\ pc = "idle" /\ idle' = 0 /\ since' = 0
        /\ UNCHANGED <<counter, platform, faulty, arrived, whole, damaged, lost, taken>>
        /\ \/ c.len = 0 /\ Return(0)
           \/ /\ c.len # 0 /\ pc' = "wait" /\ stamp' = NewStamp(counter)
              /\ waitStamp' = IF platform = "tiva" THEN NewStamp(counter) ELSE Unset
              /\ UNCHANGED <<waitFailed, read, ret>>
  BY DEF Call, port
<1>2. Unset \in StampType /\ NewStamp(counter) \in StampType
  BY StampTypes DEF Unset, Base, TypeOK
<1>3. c \in [len : Nat, timeout : Nat, term : {"none", "char"}, entry : EntryPoints]
      /\ c.timeout <= LongestTimeout
  BY Constants, Longest DEF Calls
<1>4. 0 \in 0 .. MaxGap /\ 0 \in 0 .. SinceMax /\ 0 \in -1 .. Bytes
  BY Constants, Longest
<1>5. CASE c.len = 0 /\ Return(0)
  <2>1. /\ pc' = "idle" /\ ret' = 0 /\ read' = 0 /\ stamp' = Unset
        /\ waitStamp' = Unset /\ waitFailed' = FALSE
    BY <1>5 DEF Return
  <2>2. 0 \in 0 .. taken
    BY DEF Base, TypeOK
  <2> QED
    BY <1>1, <1>2, <1>3, <1>4, <2>1, <2>2 DEF Base, TypeOK, StampType, Asked, Busy,
       available, Counts, time_period, LongestTimeout, SinceMax, Slack
<1>6. CASE /\ c.len # 0 /\ pc' = "wait" /\ stamp' = NewStamp(counter)
           /\ waitStamp' = IF platform = "tiva" THEN NewStamp(counter) ELSE Unset
           /\ UNCHANGED <<waitFailed, read, ret>>
  <2>1. read' = 0 /\ read' < call'.len
    BY <1>1, <1>3, <1>6 DEF Base, Asked
  <2>2. stamp' \in StampType /\ waitStamp' \in StampType
    BY <1>2, <1>6
  <2> QED
    BY <1>1, <1>3, <1>4, <1>6, <2>1, <2>2 DEF Base, TypeOK, StampType, Asked, Busy,
       available, Counts, time_period, LongestTimeout, SinceMax, Slack
<1> QED
  BY <1>1, <1>5, <1>6

(* Waiting changes the wait's own stamp only.                              *)
LEMMA BaseWait ==
    ASSUME Base, WaitData \/ WaitTimeout \/ WaitAgain
    PROVE  Base'
<1>1. /\ pc = "wait" /\ pc' \in {"wait", "loop"} /\ idle' = 0
      /\ UNCHANGED <<counter, since, platform, faulty, arrived, whole, damaged, lost, taken, call, stamp,
                     read, ret>>
      /\ waitFailed' \in BOOLEAN
      /\ waitStamp' \in {waitStamp, Polled(waitStamp, counter)}
  BY DEF WaitData, WaitTimeout, WaitAgain, port, Base, TypeOK
<1>2. waitStamp' \in StampType
  BY <1>1, StampTypes DEF Base, TypeOK, StampType
<1>3. 0 \in 0 .. MaxGap
  BY Constants
<1> QED
  BY <1>1, <1>2, <1>3 DEF Base, TypeOK, StampType, Asked, Busy, available, Counts,
     time_period, LongestTimeout, SinceMax, Slack

LEMMA BaseLoopTest ==
    ASSUME Base, LoopTest
    PROVE  Base'
<1>1. /\ pc = "loop" /\ idle' = 0
      /\ UNCHANGED <<counter, since, platform, faulty, arrived, whole, damaged, lost, taken, call>>
      /\ \/ /\ pc' \in {"read", "error"} /\ stamp' \in {stamp, StampPolled}
            /\ UNCHANGED <<waitStamp, waitFailed, read, ret>>
         \/ Return(read)
  BY DEF LoopTest, GiveUp, port
<1>2. Unset \in StampType /\ StampPolled \in StampType /\ stamp \in StampType
  BY StampTypes DEF Unset, StampPolled, Base, TypeOK, StampType
<1>3. 0 \in 0 .. MaxGap /\ 0 \in 0 .. taken /\ read \in -1 .. Bytes
  BY Constants DEF Base, TypeOK
<1>4. CASE /\ pc' \in {"read", "error"} /\ stamp' \in {stamp, StampPolled}
           /\ UNCHANGED <<waitStamp, waitFailed, read, ret>>
  BY <1>1, <1>2, <1>3, <1>4 DEF Base, TypeOK, StampType, Asked, Busy, available, Counts,
     time_period, LongestTimeout, SinceMax, Slack
<1>5. CASE Return(read)
  BY <1>1, <1>2, <1>3, <1>5 DEF Return, Base, TypeOK, StampType, Asked, Busy, available,
     Counts, time_period, LongestTimeout, SinceMax, Slack
<1> QED
  BY <1>1, <1>4, <1>5

LEMMA BaseReadByte ==
    ASSUME Base, ReadByte
    PROVE  Base'
<1>1. /\ pc = "read" /\ available > 0 /\ read < call.len
      /\ taken' = taken + 1 /\ read' = read + 1
      /\ UNCHANGED <<counter, idle, since, platform, faulty, arrived, whole, damaged,
                     lost, pc, call, stamp, waitStamp, waitFailed, ret>>
  BY DEF ReadByte, MoreToRead, clock, port
<1>2. /\ taken' \in 0 .. arrived /\ available' <= Depth /\ read' \in 0 .. taken'
      /\ read' <= call.len
  BY <1>1, Constants DEF Base, TypeOK, available
<1> QED
  BY <1>1, <1>2 DEF Base, TypeOK, Asked, Busy, Counts, time_period, LongestTimeout,
     SinceMax, Slack

LEMMA BaseReadDone ==
    ASSUME Base, ReadDone
    PROVE  Base'
<1>1. /\ pc = "read" /\ idle' = 0
      /\ UNCHANGED <<counter, since, platform, faulty, arrived, whole, damaged, lost,
                     taken, call>>
      /\ \/ Return(read)
         \/ /\ read # call.len /\ pc' = "loop"
            /\ UNCHANGED <<read, stamp, waitStamp, waitFailed, ret>>
  BY DEF ReadDone, port
<1>2. Unset \in StampType
  BY StampTypes DEF Unset
<1>3. 0 \in 0 .. MaxGap /\ read \in -1 .. Bytes /\ 0 \in 0 .. taken
  BY Constants DEF Base, TypeOK
<1>4. CASE Return(read)
  BY <1>1, <1>2, <1>3, <1>4 DEF Return, Base, TypeOK, StampType, Asked, Busy, available,
     Counts, time_period, LongestTimeout, SinceMax, Slack
<1>5. CASE /\ read # call.len /\ pc' = "loop"
           /\ UNCHANGED <<read, stamp, waitStamp, waitFailed, ret>>
  <2>1. read < call.len
    BY <1>1, <1>5 DEF Base, TypeOK, Asked, Busy
  <2> QED
    BY <1>1, <1>3, <1>5, <2>1 DEF Base, TypeOK, StampType, Asked, Busy, available, Counts,
       time_period, LongestTimeout, SinceMax, Slack
<1> QED
  BY <1>1, <1>4, <1>5

LEMMA BaseDie ==
    ASSUME Base, WaitFails \/ ReadError
    PROVE  Base'
<1>1. /\ pc' = "error" /\ idle' = 0
      /\ UNCHANGED <<counter, since, platform, faulty, arrived, whole, damaged, lost, taken,
                     call, stamp, waitStamp, waitFailed, read, ret>>
  BY DEF WaitFails, ReadError, Die, port
<1>2. 0 \in 0 .. MaxGap
  BY Constants
<1> QED
  BY <1>1, <1>2 DEF Base, TypeOK, Asked, Busy, available, Counts, time_period,
     LongestTimeout, SinceMax, Slack

LEMMA BaseStep == Base /\ [Next]_vars => Base'
<1> SUFFICES ASSUME Base, [Next]_vars PROVE Base'
  OBVIOUS
<1>1. CASE Tick
  BY <1>1, BaseTick
<1>2. CASE Arrive
  BY <1>2, BaseArrive
<1>3. CASE Call
  BY <1>3, BaseCall
<1>4. CASE WaitData \/ WaitTimeout \/ WaitAgain
  BY <1>4, BaseWait
<1>5. CASE LoopTest
  BY <1>5, BaseLoopTest
<1>6. CASE ReadByte
  BY <1>6, BaseReadByte
<1>7. CASE ReadDone
  BY <1>7, BaseReadDone
<1>8. CASE WaitFails \/ ReadError
  BY <1>8, BaseDie
<1>9. CASE UNCHANGED vars
  BY <1>9 DEF vars, clock, port, thread, Base, TypeOK, Asked, Busy, available, Counts,
     time_period, LongestTimeout, SinceMax, Slack
<1> QED
  BY <1>1, <1>2, <1>3, <1>4, <1>5, <1>6, <1>7, <1>8, <1>9 DEF Next, Work

(* Every variable keeps its type: no more is read than arrived or was      *)
(* asked for.                                                              *)
THEOREM TypeCorrect == Spec => []TypeOK
BY BaseInit, BaseStep, PTL DEF Spec, Base

(* Every byte that arrived is whole until one is lost or damaged, so while *)
(* no error shows there is none to read past.                              *)
Prefix == NothingMissing /\ (~lost /\ ~damaged => whole = arrived)

LEMMA PrefixInit == Init => Prefix
BY DEF Init, Prefix, NothingMissing

LEMMA PrefixStep ==
    ASSUME Base, Prefix, [Next]_vars
    PROVE  Prefix'
<1>1. /\ arrived \in Nat /\ taken \in Nat /\ whole \in Nat /\ whole <= arrived
      /\ taken <= arrived /\ available = arrived - taken
  BY Constants DEF Base, TypeOK, available
<1>2. CASE Arrive
  <2>1. platform' = platform /\ taken' = taken
    BY <1>2, ArriveSteps
  <2>2. ~lost' /\ ~damaged' => whole' = arrived'
    <3> SUFFICES ASSUME ~lost', ~damaged' PROVE whole' = arrived'
      OBVIOUS
    <3>1. /\ lost' = lost /\ damaged' = damaged /\ arrived' = arrived + 1
          /\ whole' = IF lost \/ damaged THEN whole ELSE whole + 1
      BY <1>2, ArriveSteps
    <3>2. ~lost /\ ~damaged
      BY <3>1
    <3> QED
      BY <3>1, <3>2 DEF Prefix
  <2>3. whole' = whole \/ whole' = whole + 1
    BY <1>2, ArriveSteps
  <2> QED
    <3>1. platform = "tiva" => taken <= whole'
      BY <1>1, <2>3 DEF Prefix, NothingMissing
    <3> QED
      BY <2>1, <2>2, <3>1 DEF Prefix, NothingMissing
<1>3. CASE ReadByte
  <2>1. /\ UNCHANGED <<platform, arrived, whole, damaged, lost>> /\ taken' = taken + 1
        /\ available > 0 /\ ~ErrorNoticed
    BY <1>3 DEF ReadByte, MoreToRead, port
  <2>2. ASSUME platform = "tiva" PROVE taken + 1 <= whole
    <3>1. ~lost /\ ~(damaged /\ taken = whole)
      BY <2>1, <2>2 DEF ErrorNoticed, ErrorStatus
    <3>2. CASE damaged
      <4>1. taken # whole /\ taken <= whole
        BY <2>2, <3>1, <3>2 DEF Prefix, NothingMissing
      <4> QED
        BY <1>1, <4>1
    <3>3. CASE ~damaged
      BY <1>1, <2>1, <3>1, <3>3 DEF Prefix
    <3> QED
      BY <3>2, <3>3
  <2> QED
    BY <2>1, <2>2 DEF Prefix, NothingMissing
<1>4. CASE Tick \/ Call \/ WaitData \/ WaitTimeout \/ WaitAgain \/ WaitFails
           \/ LoopTest \/ ReadError \/ ReadDone
  <2>1. UNCHANGED <<platform, arrived, whole, damaged, lost, taken>>
    BY <1>4 DEF Tick, Call, WaitData, WaitTimeout, WaitAgain, WaitFails, LoopTest,
       ReadError, ReadDone, Die, port
  <2> QED
    BY <2>1 DEF Prefix, NothingMissing
<1>5. CASE UNCHANGED vars
  BY <1>5 DEF vars, port, Prefix, NothingMissing
<1> QED
  BY <1>2, <1>3, <1>4, <1>5 DEF Next, Work

(* What a caller on the Tiva has read has no hole, though bytes arrive     *)
(* while it reads, are lost for want of room, and are followed by others:  *)
(* the error status is looked at between taking a byte and using it.       *)
THEOREM NothingIsMissing == Spec => []NothingMissing
BY BaseInit, BaseStep, PrefixInit, PrefixStep, PTL DEF Spec, Prefix
------------------------------------------------------------------------------
(* Short only for a reason, whatever the timeout and however late the      *)
(* caller: the stamp is never ahead of the ticks since the call; since     *)
(* itself is capped, at more than any timeout.                             *)
Tracked ==
    Busy /\ since < SinceMax =>
        \E o \in Counts, k \in Nat :
            k <= since /\ NeverAhead(stamp, o, k) /\ counter = Position(o, since)

TimeIsUp == call.timeout # 0 /\ since > (call.timeout - 1) * TicksPerUnit

(* ShortForAReason, but for a call with a terminator that returns nothing: *)
(* it may have compared the byte before the buffer.                        *)
ShortUnlessEmpty ==
    pc = "idle" /\ ret \in 0 .. call.len - 1 /\ (call.term = "none" \/ ret > 0) =>
        (call.term = "char" /\ taken \in Ends) \/ TimeIsUp

Sound == Base /\ Tracked /\ ShortUnlessEmpty

LEMMA SoundInit == Init => Sound
BY BaseInit DEF Init, Sound, Tracked, ShortUnlessEmpty, Busy

LEMMA StampIsStamp == Base => stamp \in Stamps /\ waitStamp \in Stamps
BY StampTypes DEF Base, TypeOK, StampType

LEMMA SoundTick ==
    ASSUME Sound, Tick
    PROVE  Tracked' /\ ShortUnlessEmpty'
<1>1. /\ counter' = (counter + 1) % TickPeriod
      /\ platform' = platform /\ taken' = taken /\ pc' = pc /\ call' = call
      /\ stamp' = stamp /\ ret' = ret
  BY DEF Tick, port, thread
<1>2. Tracked'
  <2> SUFFICES ASSUME Busy, since' < SinceMax
               PROVE  \E o \in Counts, k \in Nat : k <= since' /\ NeverAhead(stamp, o, k)
                                                 /\ counter' = Position(o, since')
    BY <1>1 DEF Tracked, Busy, NeverAhead, Position, Laps, time_current, time_period,
                Counts, SinceMax, LongestTimeout, Slack
  <2>1. since \in Nat /\ since' = since + 1 /\ since < SinceMax
    BY Longest DEF Tick, Sound, Base, TypeOK, Busy
  <2>2. PICK o \in Counts, k \in Nat : k <= since /\ NeverAhead(stamp, o, k)
                                       /\ counter = Position(o, since)
    BY <2>1 DEF Sound, Tracked
  <2>3. counter' = Position(o, since + 1)
    BY <1>1, <2>1, <2>2, PositionTick
  <2>4. k <= since'
    BY <2>1, <2>2
  <2> QED
    BY <2>1, <2>2, <2>3, <2>4
<1>3. ShortUnlessEmpty'
  <2>1. pc = "idle" => since' = since
    BY DEF Tick
  <2> QED
    BY <1>1, <2>1 DEF Sound, ShortUnlessEmpty, TimeIsUp
<1> QED
  BY <1>2, <1>3

LEMMA SoundArrive ==
    ASSUME Sound, Arrive
    PROVE  Tracked' /\ ShortUnlessEmpty'
<1>1. /\ counter' = counter /\ since' = since /\ taken' = taken /\ pc' = pc
      /\ call' = call /\ stamp' = stamp /\ ret' = ret
  BY DEF Arrive, clock, thread
<1> QED
  BY <1>1 DEF Sound, Tracked, ShortUnlessEmpty, TimeIsUp, Busy, NeverAhead, Position, Laps,
     time_current, time_period, Counts, SinceMax, LongestTimeout, Slack

LEMMA SoundCall ==
    ASSUME Sound, Call
    PROVE  Tracked' /\ ShortUnlessEmpty'
<1>1. PICK c \in Calls :
        /\ call' = c /\ since' = 0 /\ counter' = counter
        /\ \/ c.len = 0 /\ pc' = "idle"
           \/ c.len # 0 /\ pc' = "wait" /\ stamp' = NewStamp(counter)
  BY DEF Call, Return
<1>2. NeverAhead(NewStamp(counter), counter, 0) /\ counter = Position(counter, 0)
      /\ counter \in Counts
  BY NewNeverAhead DEF Sound, Base, TypeOK
<1>3. CASE c.len = 0 /\ pc' = "idle"
  <2>1. ~ (ret' \in 0 .. call'.len - 1)
    BY <1>1, <1>3
  <2> QED
    BY <1>3, <2>1 DEF Tracked, ShortUnlessEmpty, Busy
<1>4. CASE c.len # 0 /\ pc' = "wait" /\ stamp' = NewStamp(counter)
  <2>1. 0 \in Nat /\ 0 <= since'
    BY <1>1
  <2>2. \E o \in Counts, k \in Nat : k <= since' /\ NeverAhead(stamp', o, k)
                                     /\ counter' = Position(o, since')
    BY <1>1, <1>2, <1>4, <2>1
  <2> QED
    BY <1>4, <2>2 DEF Tracked, ShortUnlessEmpty, Counts, NeverAhead, Position, Laps,
       time_current, time_period
<1> QED
  BY <1>1, <1>3, <1>4

LEMMA SoundWait ==
    ASSUME Sound, WaitData \/ WaitTimeout \/ WaitAgain
    PROVE  Tracked' /\ ShortUnlessEmpty'
<1>1. /\ pc = "wait" /\ pc' \in {"wait", "loop"}
      /\ counter' = counter /\ since' = since /\ stamp' = stamp
  BY DEF WaitData, WaitTimeout, WaitAgain
<1> QED
  BY <1>1 DEF Sound, Tracked, ShortUnlessEmpty, Busy, NeverAhead, Position, Laps,
     time_current, time_period, Counts, SinceMax, LongestTimeout, Slack

(* A poll in the loop keeps the stamp from running ahead.                  *)
LEMMA PollTracked ==
    ASSUME Sound, Busy, since < SinceMax
    PROVE  \E o \in Counts : /\ NeverAhead(StampPolled, o, since)
                             /\ StampPolled \in Stamps /\ counter = Position(o, since)
<1>1. PICK o \in Counts, k \in Nat : k <= since /\ NeverAhead(stamp, o, k)
                                     /\ counter = Position(o, since)
  BY DEF Sound, Tracked
<1> DEFINE u == since - k
<1>2. since \in Nat /\ stamp \in Stamps
  BY StampIsStamp DEF Sound, Base, TypeOK
<1>3. u \in Nat /\ k + u = since
  BY <1>1, <1>2
<1> HIDE DEF u
<1>4. NeverAhead(StampPolled, o, since) /\ StampPolled \in Stamps
  BY <1>1, <1>2, <1>3, PolledNeverAhead DEF StampPolled
<1> QED
  BY <1>1, <1>4

(* A timeout the loop condition sees has passed, to within a unit.         *)
LEMMA LateIsLate ==
    ASSUME Sound, pc = "loop", Late
    PROVE  TimeIsUp
<1> DEFINE x == call.timeout * TicksPerUnit
           y == LongestTimeout * TicksPerUnit
<1>1. call.timeout \in Nat /\ call.timeout <= LongestTimeout /\ since \in Nat
  BY DEF Sound, Base, Asked, TypeOK
<1>2. x \in Nat /\ y \in Nat /\ x <= y /\ (call.timeout - 1) * TicksPerUnit = x - TicksPerUnit
  BY <1>1, Longest, ClockConstants
<1>3. CASE since < SinceMax
  <2>1. PICK o \in Counts : NeverAhead(StampPolled, o, since) /\ StampPolled \in Stamps
    BY <1>3, PollTracked DEF Busy
  <2>2. StampPolled.elapsed * TicksPerUnit < since + TicksPerUnit
    BY <1>1, <2>1, NeverAheadBound
  <2>3. StampPolled.elapsed \in Nat /\ StampPolled.elapsed >= call.timeout
    BY <2>1 DEF Stamps, Late
  <2>4. StampPolled.elapsed * TicksPerUnit >= x
    BY <1>1, <2>3, ClockConstants
  <2>5. StampPolled.elapsed * TicksPerUnit \in Int
    BY <2>3, ClockConstants
  <2> HIDE DEF x
  <2>6. since > x - TicksPerUnit
    BY <1>1, <1>2, <2>2, <2>4, <2>5, ClockConstants
  <2> QED
    BY <1>2, <2>6 DEF TimeIsUp, Late
<1>4. CASE since >= SinceMax
  <2>1. SinceMax = y + Slack + 1 /\ Slack \in Nat
    BY Longest
  <2> HIDE DEF x, y
  <2>2. since > x - TicksPerUnit
    BY <1>1, <1>2, <1>4, <2>1, ClockConstants
  <2> QED
    BY <1>2, <2>2 DEF TimeIsUp, Late
<1> QED
  BY <1>1, <1>3, <1>4, Longest

LEMMA SoundLoopTest ==
    ASSUME Sound, LoopTest
    PROVE  Tracked' /\ ShortUnlessEmpty'
<1>1. /\ pc = "loop" /\ counter' = counter /\ since' = since /\ taken' = taken
      /\ call' = call
      /\ \/ pc' = "read" /\ stamp' = IF call.timeout = 0 THEN stamp ELSE StampPolled
         \/ pc' = "error"
         \/ pc' = "idle" /\ Late
  BY DEF LoopTest, GiveUp, Return, port
<1>2. CASE pc' = "read" /\ stamp' = IF call.timeout = 0 THEN stamp ELSE StampPolled
  <2> SUFFICES ASSUME since < SinceMax
               PROVE  \E o \in Counts, k \in Nat : k <= since /\ NeverAhead(stamp', o, k)
                                                 /\ counter = Position(o, since)
    BY <1>1, <1>2 DEF Tracked, ShortUnlessEmpty, Busy, NeverAhead, Position, Laps,
       time_current, time_period, Counts, SinceMax, LongestTimeout, Slack
  <2>1. since \in Nat /\ since <= since
    BY DEF Sound, Base, TypeOK
  <2>2. CASE call.timeout = 0
    BY <1>1, <1>2, <2>2 DEF Sound, Tracked, Busy
  <2>3. CASE call.timeout # 0
    BY <1>1, <1>2, <2>1, <2>3, PollTracked DEF Busy
  <2> QED
    BY <2>2, <2>3
<1>3. CASE pc' = "error"
  BY <1>3 DEF Tracked, ShortUnlessEmpty, Busy
<1>4. CASE pc' = "idle" /\ Late
  <2>1. TimeIsUp
    BY <1>1, <1>4, LateIsLate
  <2>2. TimeIsUp'
    BY <1>1, <2>1 DEF TimeIsUp
  <2> QED
    BY <1>4, <2>2 DEF Tracked, ShortUnlessEmpty, Busy
<1> QED
  BY <1>1, <1>2, <1>3, <1>4

LEMMA SoundReadByte ==
    ASSUME Sound, ReadByte
    PROVE  Tracked' /\ ShortUnlessEmpty'
<1>1. /\ pc = "read" /\ pc' = pc /\ counter' = counter /\ since' = since
      /\ stamp' = stamp
  BY DEF ReadByte, clock
<1> QED
  BY <1>1 DEF Sound, Tracked, ShortUnlessEmpty, Busy, NeverAhead, Position, Laps,
     time_current, time_period, Counts, SinceMax, LongestTimeout, Slack

LEMMA SoundReadDone ==
    ASSUME Sound, ReadDone
    PROVE  Tracked' /\ ShortUnlessEmpty'
<1>1. /\ pc = "read" /\ counter' = counter /\ since' = since /\ taken' = taken
      /\ call' = call
      /\ \/ (read = call.len \/ Terminated) /\ Return(read)
         \/ pc' = "loop" /\ stamp' = stamp
  BY DEF ReadDone
<1>2. CASE pc' = "loop" /\ stamp' = stamp
  BY <1>1, <1>2 DEF Sound, Tracked, ShortUnlessEmpty, Busy, NeverAhead, Position, Laps,
     time_current, time_period, Counts, SinceMax, LongestTimeout, Slack
<1>3. CASE (read = call.len \/ Terminated) /\ Return(read)
  <2>1. pc' = "idle" /\ ret' = read
    BY <1>3 DEF Return
  <2>2. CASE read = call.len
    <3>1. ~(ret' \in 0 .. call'.len - 1)
      BY <1>1, <2>1, <2>2 DEF Sound, Base, TypeOK
    <3> QED
      BY <2>1, <3>1 DEF Tracked, ShortUnlessEmpty, Busy
  <2>3. CASE Terminated
    BY <1>1, <2>1, <2>3 DEF Tracked, ShortUnlessEmpty, Busy, Terminated
  <2> QED
    BY <1>3, <2>2, <2>3
<1> QED
  BY <1>1, <1>2, <1>3

LEMMA SoundStep == Sound /\ [Next]_vars => Sound'
<1> SUFFICES ASSUME Sound, [Next]_vars PROVE Sound'
  OBVIOUS
<1>1. Base'
  BY BaseStep DEF Sound
<1>2. CASE Tick
  BY <1>1, <1>2, SoundTick DEF Sound
<1>3. CASE Arrive
  BY <1>1, <1>3, SoundArrive DEF Sound
<1>4. CASE Call
  BY <1>1, <1>4, SoundCall DEF Sound
<1>5. CASE WaitData \/ WaitTimeout \/ WaitAgain
  BY <1>1, <1>5, SoundWait DEF Sound
<1>6. CASE LoopTest
  BY <1>1, <1>6, SoundLoopTest DEF Sound
<1>7. CASE ReadByte
  BY <1>1, <1>7, SoundReadByte DEF Sound
<1>8. CASE ReadDone
  BY <1>1, <1>8, SoundReadDone DEF Sound
<1>9. CASE WaitFails \/ ReadError
  BY <1>1, <1>9 DEF WaitFails, ReadError, Die, Sound, Tracked, ShortUnlessEmpty, Busy
<1>10. CASE UNCHANGED vars
  BY <1>1, <1>10 DEF vars, clock, port, thread, Sound, Tracked, ShortUnlessEmpty, TimeIsUp,
     Busy, NeverAhead, Position, Laps, time_current, time_period, Counts, SinceMax,
     LongestTimeout, Slack
<1> QED
  BY <1>2, <1>3, <1>4, <1>5, <1>6, <1>7, <1>8, <1>9, <1>10 DEF Next, Work

(* A read that comes back short ended in a terminator or had its time,     *)
(* however the clock rolls over and however late the caller runs, unless   *)
(* it looks for a terminator and returns nothing at all.                   *)
THEOREM ShortNotEarly == Spec => []ShortUnlessEmpty
BY SoundInit, SoundStep, PTL DEF Spec, Sound
------------------------------------------------------------------------------
(* With a timeout that ends within a period of the clock the stamp misses  *)
(* nothing, so a call is over in time, and finds its time up when a wait   *)
(* was in vain.                                                            *)
Limit == call.timeout * TicksPerUnit

(* The stamp was polled k ticks after a call at the count o, and that of   *)
(* the wait w ticks after it.                                              *)
PolledAt(o, k) ==
    /\ k <= since /\ counter = Position(o, since) /\ Exact(stamp, o, k)
    /\ pc = "wait" => k = 0
    /\ pc = "read" => since - k <= idle /\ stamp.elapsed < call.timeout
    /\ pc = "loop" /\ read = 0 /\ available = 0 => call.timeout <= Units(o, since)

WaitPolledAt(o, w) ==
    /\ w <= since /\ since - w <= idle /\ Exact(waitStamp, o, w)
    /\ waitStamp.elapsed <= call.timeout

Bounded ==
    /\ since <= Limit + 2 * TicksPerUnit + MaxGap + (IF pc = "wait" THEN 0 ELSE idle)
    /\ pc = "wait" /\ platform = "host" => since <= Limit + MaxGap

Timely ==
    Busy /\ call.timeout # 0 =>
        /\ Bounded
        /\ \E o \in Counts :
              /\ \E k \in Nat : PolledAt(o, k)
              /\ pc = "wait" /\ platform = "tiva" => \E w \in Nat : WaitPolledAt(o, w)

(* The body runs with bytes to read, unless some were read before.         *)
Fed ==
    /\ pc = "read" /\ read = 0 => available > 0
    /\ pc = "loop" /\ read = 0 /\ available = 0 => call.timeout # 0

IInv == Sound /\ Timely /\ Fed /\ ShortForAReason

(* What the next state must show, with the clock's operators closed.       *)
LEMMA PolledNext ==
    ASSUME NEW o \in Counts, NEW k \in Nat
    PROVE  PolledAt(o, k)' <=>
             /\ k <= since' /\ counter' = Position(o, since') /\ Exact(stamp', o, k)
             /\ pc' = "wait" => k = 0
             /\ pc' = "read" => since' - k <= idle' /\ stamp'.elapsed < call'.timeout
             /\ pc' = "loop" /\ read' = 0 /\ available' = 0 =>
                    call'.timeout <= Units(o, since')
BY DEF PolledAt, Position, Exact, Units, Laps, time_current, time_period

LEMMA WaitPolledNext ==
    ASSUME NEW o \in Counts, NEW w \in Nat
    PROVE  WaitPolledAt(o, w)' <=>
             /\ w <= since' /\ since' - w <= idle' /\ Exact(waitStamp', o, w)
             /\ waitStamp'.elapsed <= call'.timeout
BY DEF WaitPolledAt, Position, Exact, Units, Laps, time_current, time_period

LEMMA TimelyNext ==
    ASSUME Busy' /\ call'.timeout # 0 =>
             /\ Bounded'
             /\ \E o \in Counts :
                   /\ \E k \in Nat : PolledAt(o, k)'
                   /\ pc' = "wait" /\ platform' = "tiva" => \E w \in Nat : WaitPolledAt(o, w)'
    PROVE  Timely'
BY DEF Timely, Counts

(* The bounds in ticks that Fits gives to a call with a timeout.           *)
LEMMA InTime ==
    ASSUME Fits, NEW t \in Nat, t <= LongestTimeout, NEW s \in Nat,
           s <= t * TicksPerUnit + Slack
    PROVE  s + TicksPerUnit <= TickPeriod /\ s < SinceMax
<1> DEFINE x == t * TicksPerUnit
           y == LongestTimeout * TicksPerUnit
<1>1. x \in Nat /\ y \in Nat /\ x <= y
  BY Longest, ClockConstants
<1>2. Slack \in Nat /\ SinceMax = y + Slack + 1
  BY Longest
<1>3. y + Slack + TicksPerUnit <= TickPeriod
  BY DEF Fits
<1> HIDE DEF x, y
<1> QED
  BY <1>1, <1>2, <1>3, ClockConstants DEF x

(* The numbers of a call with a timeout.                                   *)
LEMMA Numbers ==
    ASSUME Fits, IInv, Busy, call.timeout # 0
    PROVE  /\ call.timeout \in Nat /\ call.timeout <= LongestTimeout
           /\ Limit \in Nat /\ Limit = call.timeout * TicksPerUnit
           /\ since \in Nat /\ idle \in Nat /\ idle <= MaxGap /\ MaxGap \in Nat
           /\ Slack = 3 * MaxGap + 2 * TicksPerUnit /\ since <= Limit + Slack
           /\ since + TicksPerUnit <= TickPeriod /\ since < SinceMax
           /\ TickPeriod <= StampMod
           /\ stamp \in Stamps /\ waitStamp \in Stamps /\ counter \in Counts
<1>1. /\ call.timeout \in Nat /\ call.timeout <= LongestTimeout /\ since \in Nat
      /\ idle \in Nat /\ idle <= MaxGap /\ MaxGap \in Nat /\ counter \in Counts
  BY Longest, Constants DEF IInv, Sound, Base, Asked, TypeOK
<1>2. Limit \in Nat /\ Limit = call.timeout * TicksPerUnit
  BY <1>1, ClockConstants DEF Limit
<1>3. Slack = 3 * MaxGap + 2 * TicksPerUnit
  BY DEF Slack
<1>4. since <= Limit + Slack
  BY <1>1, <1>2, <1>3, ClockConstants DEF IInv, Timely, Bounded
<1>5. since + TicksPerUnit <= TickPeriod /\ since < SinceMax
  BY <1>1, <1>2, <1>4, InTime
<1> QED
  BY <1>1, <1>2, <1>3, <1>4, <1>5, StampIsStamp DEF Fits, IInv, Sound

(* Ticks after which a clock shows no more than the timeout.               *)
LEMMA UnitsWithin ==
    ASSUME NEW o \in Counts, NEW k \in Nat, k + TicksPerUnit <= TickPeriod,
           NEW t \in Nat, Units(o, k) <= t
    PROVE  k < t * TicksPerUnit + 2 * TicksPerUnit
<1> DEFINE a == Units(o, k)
           x == a * TicksPerUnit
           y == t * TicksPerUnit
<1>1. a \in 0 .. k /\ x > k - 2 * TicksPerUnit
  BY UnitsBounds
<1> HIDE DEF a
<1>2. x \in Int /\ y \in Int /\ x <= y
  BY <1>1, ClockConstants DEF a
<1> HIDE DEF x, y
<1> QED
  BY <1>1, <1>2, ClockConstants DEF y

LEMMA InvInit == Init => IInv
BY SoundInit DEF Init, IInv, Timely, Busy, Fed, ShortForAReason

------------------------------------------------------------------------------
LEMMA TimelyTick ==
    ASSUME Fits, IInv, Tick
    PROVE  Timely' /\ Fed' /\ ShortForAReason'
<1>1. /\ counter' = (counter + 1) % TickPeriod
      /\ platform' = platform /\ taken' = taken /\ arrived' = arrived /\ pc' = pc
      /\ call' = call /\ stamp' = stamp /\ waitStamp' = waitStamp /\ read' = read
      /\ ret' = ret /\ available' = available /\ Limit' = Limit
  BY DEF Tick, port, thread, available, Limit
<1>2. Fed'
  BY <1>1 DEF IInv, Fed
<1>3. ShortForAReason'
  <2>1. pc = "idle" => since' = since
    BY DEF Tick
  <2> QED
    BY <1>1, <2>1 DEF IInv, ShortForAReason
<1>4. ASSUME Busy, call.timeout # 0
      PROVE  /\ Bounded'
             /\ \E o \in Counts :
                   /\ \E k \in Nat : PolledAt(o, k)'
                   /\ pc = "wait" /\ platform = "tiva" => \E w \in Nat : WaitPolledAt(o, w)'
  <2> USE <1>4
  <2>1. /\ Limit \in Nat /\ since \in Nat /\ idle \in Nat /\ idle <= MaxGap
        /\ MaxGap \in Nat /\ since + TicksPerUnit <= TickPeriod /\ since < SinceMax
        /\ call.timeout \in Nat /\ Limit = call.timeout * TicksPerUnit
        /\ Slack = 3 * MaxGap + 2 * TicksPerUnit /\ call.timeout <= LongestTimeout
    BY Numbers
  <2>2. /\ since' = since + 1
        /\ idle' = IF idle < MaxGap THEN idle + 1 ELSE idle
        /\ ~(pc = "wait" /\ platform = "host") => idle' = idle + 1 /\ idle < MaxGap
        /\ pc = "wait" /\ platform = "host" => since < Limit + MaxGap
    BY <2>1 DEF Tick, Busy
  <2>3. PICK o \in Counts :
           /\ \E k \in Nat : PolledAt(o, k)
           /\ pc = "wait" /\ platform = "tiva" => \E w \in Nat : WaitPolledAt(o, w)
    BY DEF IInv, Timely
  <2>4. PICK k \in Nat : PolledAt(o, k)
    BY <2>3
  <2>5. ASSUME pc = "wait", platform = "tiva"
        PROVE  /\ \E w \in Nat : WaitPolledAt(o, w)'
               /\ since' <= Limit + 2 * TicksPerUnit + MaxGap
    <3>1. PICK w \in Nat : WaitPolledAt(o, w)
      BY <2>3, <2>5
    <3>2. /\ w <= since /\ since - w <= idle /\ Exact(waitStamp, o, w)
          /\ waitStamp.elapsed <= call.timeout
      BY <3>1 DEF WaitPolledAt
    <3>3. WaitPolledAt(o, w)'
      BY <1>1, <2>1, <2>2, <2>5, <3>2, WaitPolledNext
    <3>4. w + TicksPerUnit <= TickPeriod /\ Units(o, w) <= call.timeout
      BY <2>1, <3>2, ClockConstants DEF Exact
    <3>5. w < Limit + 2 * TicksPerUnit
      BY <2>1, <3>4, UnitsWithin
    <3>6. since' <= Limit + 2 * TicksPerUnit + MaxGap
      BY <2>1, <2>2, <2>5, <3>2, <3>5, ClockConstants
    <3> QED
      BY <3>3, <3>6
  <2>6. Bounded'
    <3>1. since' <= Limit + 2 * TicksPerUnit + MaxGap + (IF pc = "wait" THEN 0 ELSE idle')
      <4>1. CASE pc # "wait"
        BY <2>1, <2>2, <4>1, ClockConstants DEF IInv, Timely, Bounded
      <4>2. CASE pc = "wait" /\ platform = "tiva"
        BY <2>1, <2>5, <4>2, ClockConstants
      <4>3. CASE pc = "wait" /\ platform = "host"
        BY <2>1, <2>2, <4>3, ClockConstants
      <4> QED
        BY <4>1, <4>2, <4>3, Constants DEF IInv, Sound, Base, TypeOK
    <3>2. pc = "wait" /\ platform = "host" => since' <= Limit + MaxGap
      BY <2>1, <2>2
    <3> QED
      BY <1>1, <3>1, <3>2 DEF Bounded
  <2>7. since' + TicksPerUnit <= TickPeriod
    <3>1. since' \in Nat /\ since' <= call.timeout * TicksPerUnit + Slack
      BY <1>1, <2>1, <2>2, <2>6, ClockConstants DEF Bounded
    <3> QED
      BY <2>1, <3>1, InTime
  <2>8. Units(o, since) <= Units(o, since') /\ counter' = Position(o, since')
        /\ Units(o, since) \in Int /\ Units(o, since') \in Int
    <3>1. since + 1 + TicksPerUnit <= TickPeriod /\ 1 \in Nat /\ since + 1 = since'
          /\ since' \in Nat
      BY <2>1, <2>2, <2>7
    <3>2. Units(o, since) <= Units(o, since + 1)
      BY <2>1, <3>1, UnitsGrow
    <3>3. counter' = Position(o, since + 1)
      BY <1>1, <2>1, <2>4, PositionTick DEF PolledAt
    <3>4. Units(o, since) \in Int /\ Units(o, since') \in Int
      BY <2>1, <2>7, <3>1, UnitsBounds
    <3> QED
      BY <3>1, <3>2, <3>3, <3>4
  <2>9. PolledAt(o, k)'
    <3>1. /\ k <= since /\ Exact(stamp, o, k)
          /\ pc = "wait" => k = 0
          /\ pc = "read" => since - k <= idle /\ stamp.elapsed < call.timeout
          /\ pc = "loop" /\ read = 0 /\ available = 0 => call.timeout <= Units(o, since)
      BY <2>4 DEF PolledAt
    <3>2. k <= since' /\ (pc = "read" => since' - k <= idle')
      BY <2>1, <2>2, <3>1
    <3>3. pc = "loop" /\ read = 0 /\ available = 0 => call.timeout <= Units(o, since')
      BY <2>1, <2>8, <3>1
    <3> QED
      BY <1>1, <2>8, <3>1, <3>2, <3>3, PolledNext
  <2> QED
    BY <2>5, <2>6, <2>9
<1> QED
  BY <1>1, <1>2, <1>3, <1>4, TimelyNext DEF Busy

LEMMA TimelyArrive ==
    ASSUME IInv, Arrive
    PROVE  Timely' /\ Fed' /\ ShortForAReason'
<1>1. /\ counter' = counter /\ since' = since /\ idle' = idle /\ platform' = platform
      /\ taken' = taken /\ pc' = pc /\ call' = call /\ stamp' = stamp
      /\ waitStamp' = waitStamp /\ read' = read /\ ret' = ret /\ Limit' = Limit
  BY DEF Arrive, clock, thread, Limit
<1>2. available \in Nat /\ available' \in {available, available + 1}
  BY Constants DEF Arrive, IInv, Sound, Base, TypeOK, available
<1>3. available' = 0 => available = 0
  BY <1>2
<1>4. Fed'
  BY <1>1, <1>2, <1>3 DEF IInv, Fed
<1>5. ShortForAReason'
  BY <1>1 DEF IInv, ShortForAReason
<1>6. ASSUME Busy, call.timeout # 0 PROVE Bounded'
  BY <1>1, <1>6 DEF IInv, Timely, Bounded
<1>7. ASSUME NEW o \in Counts, NEW k \in Nat, PolledAt(o, k) PROVE PolledAt(o, k)'
  <2>1. /\ k <= since /\ counter = Position(o, since) /\ Exact(stamp, o, k)
        /\ pc = "wait" => k = 0
        /\ pc = "read" => since - k <= idle /\ stamp.elapsed < call.timeout
        /\ pc = "loop" /\ read = 0 /\ available = 0 => call.timeout <= Units(o, since)
    BY <1>7 DEF PolledAt
  <2> QED
    BY <1>1, <1>3, <2>1, PolledNext
<1>8. ASSUME NEW o \in Counts, NEW w \in Nat, WaitPolledAt(o, w) PROVE WaitPolledAt(o, w)'
  <2>1. /\ w <= since /\ since - w <= idle /\ Exact(waitStamp, o, w)
        /\ waitStamp.elapsed <= call.timeout
    BY <1>8 DEF WaitPolledAt
  <2> QED
    BY <1>1, <2>1, WaitPolledNext
<1>9. ASSUME Busy, call.timeout # 0
      PROVE  \E o \in Counts :
                /\ \E k \in Nat : PolledAt(o, k)'
                /\ pc = "wait" /\ platform = "tiva" => \E w \in Nat : WaitPolledAt(o, w)'
  BY <1>7, <1>8, <1>9 DEF IInv, Timely
<1> QED
  BY <1>1, <1>4, <1>5, <1>6, <1>9, TimelyNext DEF Busy

LEMMA TimelyCall ==
    ASSUME IInv, Call
    PROVE  Timely' /\ Fed' /\ ShortForAReason'
<1>1. PICK c \in Calls :
        /\ call' = c /\ since' = 0 /\ idle' = 0 /\ counter' = counter
        /\ platform' = platform
        /\ \/ c.len = 0 /\ pc' = "idle"
           \/ /\ c.len # 0 /\ pc' = "wait" /\ stamp' = NewStamp(counter)
              /\ platform = "tiva" => waitStamp' = NewStamp(counter)
  BY DEF Call, Return, port
<1>2. CASE c.len = 0 /\ pc' = "idle"
  <2>1. ~ (ret' \in 0 .. call'.len - 1)
    BY <1>1, <1>2
  <2> QED
    BY <1>2, <2>1 DEF Timely, Fed, ShortForAReason, Busy
<1>3. CASE /\ c.len # 0 /\ pc' = "wait" /\ stamp' = NewStamp(counter)
           /\ platform = "tiva" => waitStamp' = NewStamp(counter)
  <2>1. counter \in Counts /\ c.timeout \in Nat /\ MaxGap \in Nat /\ TicksPerUnit \in Nat
    BY Constants, ClockConstants DEF IInv, Sound, Base, TypeOK, Calls
  <2>2. PICK o \in Counts : o = counter
    BY <2>1
  <2>3. Exact(NewStamp(o), o, 0) /\ Position(o, 0) = o /\ NewStamp(o).elapsed = 0
    BY NewExact
  <2>4. 0 \in Nat /\ 0 <= since' /\ since' - 0 <= idle'
    BY <1>1
  <2>5. PolledAt(o, 0)'
    BY <1>1, <1>3, <2>2, <2>3, <2>4, PolledNext
  <2>6. platform' = "tiva" => WaitPolledAt(o, 0)'
    <3> SUFFICES ASSUME platform = "tiva" PROVE WaitPolledAt(o, 0)'
      BY <1>1
    <3>1. waitStamp' = NewStamp(o) /\ waitStamp'.elapsed <= call'.timeout
      BY <1>1, <1>3, <2>1, <2>2, <2>3
    <3> QED
      BY <1>1, <2>3, <2>4, <3>1, WaitPolledNext
  <2>7. Bounded'
    <3>1. Limit' = c.timeout * TicksPerUnit
      BY <1>1 DEF Limit
    <3> DEFINE x == c.timeout * TicksPerUnit
    <3>2. x \in Nat
      BY <2>1
    <3> HIDE DEF x
    <3>3. Limit' = x
      BY <3>1 DEF x
    <3> QED
      BY <1>1, <1>3, <2>1, <3>2, <3>3 DEF Bounded
  <2>8. Timely'
    BY <2>4, <2>5, <2>6, <2>7, TimelyNext
  <2> QED
    BY <1>3, <2>8 DEF Fed, ShortForAReason
<1> QED
  BY <1>1, <1>2, <1>3

------------------------------------------------------------------------------
(* A wait that returns leaves at most the gap of the wait behind it.       *)
LEMMA WaitBound ==
    ASSUME Fits, IInv, pc = "wait", call.timeout # 0
    PROVE  since <= Limit + 2 * TicksPerUnit + MaxGap
<1>1. Limit \in Nat /\ since \in Nat /\ MaxGap \in Nat /\ TicksPerUnit \in Nat
  BY Numbers, ClockConstants DEF Busy
<1>2. Bounded
  BY DEF IInv, Timely, Busy
<1> QED
  BY <1>1, <1>2 DEF Bounded

(* What keeps a call timely when it leaves the wait: the time is up if     *)
(* nothing has arrived.                                                    *)
LEMMA TimelyLeave ==
    ASSUME Fits, IInv, pc = "wait", pc' = "loop", idle' = 0,
           UNCHANGED <<counter, since, platform, arrived, taken, call, stamp, read, ret>>,
           available = 0 =>
             /\ call.timeout # 0
             /\ \A o \in Counts :
                  /\ counter = Position(o, since)
                  /\ platform = "tiva" => \E w \in Nat : WaitPolledAt(o, w)
                  => call.timeout <= Units(o, since)
    PROVE  Timely' /\ Fed' /\ ShortForAReason'
<1>1. available' = available /\ Limit' = Limit
  BY DEF available, Limit
<1>2. Fed' /\ ShortForAReason'
  BY <1>1 DEF Fed, ShortForAReason
<1>3. ASSUME call.timeout # 0
      PROVE  Bounded' /\ \E o \in Counts : \E k \in Nat : PolledAt(o, k)'
  <2>1. Limit \in Nat /\ since \in Nat /\ since <= Limit + 2 * TicksPerUnit + MaxGap
    BY <1>3, Numbers, WaitBound DEF Busy
  <2>2. Bounded'
    BY <1>1, <2>1, Constants, ClockConstants DEF Bounded
  <2>3. PICK o \in Counts :
           /\ \E k \in Nat : PolledAt(o, k)
           /\ platform = "tiva" => \E w \in Nat : WaitPolledAt(o, w)
    BY <1>3 DEF IInv, Timely, Busy
  <2>4. PICK k \in Nat : PolledAt(o, k)
    BY <2>3
  <2>5. k <= since /\ counter = Position(o, since) /\ Exact(stamp, o, k)
    BY <2>4 DEF PolledAt
  <2>6. available = 0 => call.timeout <= Units(o, since)
    BY <2>3, <2>5
  <2>7. PolledAt(o, k)'
    BY <1>1, <2>5, <2>6, PolledNext
  <2> QED
    BY <2>2, <2>7
<1> QED
  BY <1>2, <1>3, TimelyNext

LEMMA TimelyWaitData ==
    ASSUME Fits, IInv, WaitData
    PROVE  Timely' /\ Fed' /\ ShortForAReason'
<1>1. /\ pc = "wait" /\ pc' = "loop" /\ idle' = 0 /\ available > 0
      /\ UNCHANGED <<counter, since, platform, arrived, taken, call, stamp, read, ret>>
  BY DEF WaitData, port
<1>2. available # 0
  BY <1>1, Constants DEF IInv, Sound, Base, TypeOK, available
<1> QED
  BY <1>1, <1>2, TimelyLeave

LEMMA TimelyWaitTimeout ==
    ASSUME Fits, IInv, WaitTimeout
    PROVE  Timely' /\ Fed' /\ ShortForAReason'
<1>1. /\ pc = "wait" /\ pc' = "loop" /\ idle' = 0 /\ call.timeout # 0
      /\ UNCHANGED <<counter, since, platform, arrived, taken, call, stamp, read, ret>>
      /\ \/ platform = "host" /\ since >= call.timeout * TicksPerUnit
         \/ platform = "tiva" /\ Polled(waitStamp, counter).elapsed > call.timeout
  BY DEF WaitTimeout, port
<1>2. /\ since \in Nat /\ call.timeout \in Nat /\ since + TicksPerUnit <= TickPeriod
      /\ TickPeriod <= StampMod /\ waitStamp \in Stamps /\ platform \in Platforms
  BY <1>1, Numbers DEF Busy, IInv, Sound, Base, TypeOK
<1>3. ASSUME NEW o \in Counts, counter = Position(o, since),
             platform = "tiva" => \E w \in Nat : WaitPolledAt(o, w)
      PROVE  call.timeout <= Units(o, since)
  <2>1. CASE platform = "host" /\ since >= call.timeout * TicksPerUnit
    <3>1. TicksPerUnit = 1
      BY <1>2, <2>1 DEF Fits
    <3>2. Units(o, since) = since
      BY <1>2, <3>1, UnitsAreTicks
    <3> QED
      BY <1>2, <2>1, <3>1, <3>2
  <2>2. CASE platform = "tiva" /\ Polled(waitStamp, counter).elapsed > call.timeout
    <3>1. PICK w \in Nat : WaitPolledAt(o, w)
      BY <1>3, <2>2
    <3> DEFINE u == since - w
    <3>2. w <= since /\ Exact(waitStamp, o, w)
      BY <3>1 DEF WaitPolledAt
    <3>3. u \in Nat /\ w + u = since
      BY <1>2, <3>2
    <3> HIDE DEF u
    <3>4. w + u + TicksPerUnit <= TickPeriod
      BY <1>2, <3>3
    <3>5. Exact(Polled(waitStamp, Position(o, w + u)), o, w + u)
      BY <1>2, <3>2, <3>3, <3>4, PolledExact
    <3>6. Polled(waitStamp, counter).elapsed = Units(o, since)
      BY <1>3, <3>3, <3>5 DEF Exact
    <3>7. Units(o, since) \in Int
      BY <1>2, UnitsBounds
    <3> QED
      BY <1>2, <2>2, <3>6, <3>7
  <2> QED
    BY <1>1, <2>1, <2>2
<1> QED
  BY <1>1, <1>3, TimelyLeave

LEMMA TimelyWaitAgain ==
    ASSUME Fits, IInv, WaitAgain
    PROVE  Timely' /\ Fed' /\ ShortForAReason'
<1>1. /\ pc = "wait" /\ pc' = "wait" /\ idle' = 0 /\ platform = "tiva"
      /\ UNCHANGED <<counter, since, platform, arrived, taken, call, stamp, read, ret>>
      /\ waitStamp' = Polled(waitStamp, counter)
      /\ call.timeout # 0 => waitStamp'.elapsed <= call.timeout
  BY DEF WaitAgain, port
<1>2. available' = available /\ Limit' = Limit
  BY <1>1 DEF available, Limit
<1>3. Fed' /\ ShortForAReason'
  BY <1>1 DEF Fed, ShortForAReason
<1>4. ASSUME call.timeout # 0
      PROVE  Bounded' /\ \E o \in Counts : /\ \E k \in Nat : PolledAt(o, k)'
                                           /\ \E w \in Nat : WaitPolledAt(o, w)'
  <2>1. /\ since \in Nat /\ since + TicksPerUnit <= TickPeriod
        /\ TickPeriod <= StampMod /\ waitStamp \in Stamps
    BY <1>1, <1>4, Numbers DEF Busy
  <2>2. Bounded'
    BY <1>1, <1>2, <1>4 DEF IInv, Timely, Busy, Bounded
  <2>3. PICK o \in Counts : /\ \E k \in Nat : PolledAt(o, k)
                            /\ \E w \in Nat : WaitPolledAt(o, w)
    BY <1>1, <1>4 DEF IInv, Timely, Busy
  <2>4. PICK k \in Nat : PolledAt(o, k)
    BY <2>3
  <2>5. k <= since /\ counter = Position(o, since) /\ Exact(stamp, o, k) /\ k = 0
    BY <1>1, <2>4 DEF PolledAt
  <2>6. PolledAt(o, k)'
    BY <1>1, <2>5, PolledNext
  <2>7. PICK w \in Nat : WaitPolledAt(o, w)
    BY <2>3
  <2> DEFINE u == since - w
  <2>8. w <= since /\ Exact(waitStamp, o, w)
    BY <2>7 DEF WaitPolledAt
  <2>9. u \in Nat /\ w + u = since
    BY <2>1, <2>8
  <2> HIDE DEF u
  <2>10. w + u + TicksPerUnit <= TickPeriod
    BY <2>1, <2>9
  <2>11. Exact(Polled(waitStamp, Position(o, w + u)), o, w + u)
    BY <2>1, <2>8, <2>9, <2>10, PolledExact
  <2>12. Exact(waitStamp', o, since)
    BY <1>1, <2>5, <2>9, <2>11
  <2>13. since <= since' /\ since' - since <= idle'
    BY <1>1, <2>1
  <2>14. PICK s \in Nat : s = since
    BY <2>1
  <2>15. WaitPolledAt(o, s)'
    BY <1>1, <1>4, <2>1, <2>12, <2>13, <2>14, WaitPolledNext
  <2> QED
    BY <2>2, <2>6, <2>15
<1> QED
  BY <1>1, <1>3, <1>4, TimelyNext

------------------------------------------------------------------------------
(* In the loop the poll is exact, so a wait in vain makes the loop end.    *)
LEMMA TimelyLoopTest ==
    ASSUME Fits, IInv, LoopTest
    PROVE  Timely' /\ Fed' /\ ShortForAReason'
<1>1. /\ pc = "loop" /\ idle' = 0
      /\ UNCHANGED <<counter, since, platform, arrived, taken, call>>
      /\ \/ /\ ~Late /\ pc' = "read" /\ read' = read
            /\ stamp' = IF call.timeout = 0 THEN stamp ELSE StampPolled
         \/ pc' = "error"
         \/ Late /\ pc' = "idle"
  BY DEF LoopTest, GiveUp, Return, port
<1>2. available' = available /\ Limit' = Limit
  BY <1>1 DEF available, Limit
<1>3. CASE /\ ~Late /\ pc' = "read" /\ read' = read
           /\ stamp' = IF call.timeout = 0 THEN stamp ELSE StampPolled
  <2>1. ASSUME call.timeout # 0
        PROVE  /\ \E o \in Counts : \E k \in Nat : PolledAt(o, k)'
               /\ ~(read = 0 /\ available = 0)
               /\ since < Limit + 2 * TicksPerUnit
    <3> USE <2>1
    <3>1. /\ since \in Nat /\ since + TicksPerUnit <= TickPeriod
          /\ TickPeriod <= StampMod /\ stamp \in Stamps /\ call.timeout \in Nat
          /\ Limit = call.timeout * TicksPerUnit
      BY <1>1, Numbers DEF Busy
    <3>2. PICK o \in Counts : \E k \in Nat : PolledAt(o, k)
      BY <1>1 DEF IInv, Timely, Busy
    <3>3. PICK k \in Nat : PolledAt(o, k)
      BY <3>2
    <3>4. /\ k <= since /\ counter = Position(o, since) /\ Exact(stamp, o, k)
          /\ read = 0 /\ available = 0 => call.timeout <= Units(o, since)
      BY <1>1, <3>3 DEF PolledAt
    <3> DEFINE u == since - k
    <3>5. u \in Nat /\ k + u = since
      BY <3>1, <3>4
    <3> HIDE DEF u
    <3>6. k + u + TicksPerUnit <= TickPeriod
      BY <3>1, <3>5
    <3>7. Exact(Polled(stamp, Position(o, k + u)), o, k + u)
      BY <3>1, <3>4, <3>5, <3>6, PolledExact
    <3>8. Exact(StampPolled, o, since)
      BY <3>4, <3>5, <3>7 DEF StampPolled
    <3>9. Units(o, since) \in Int /\ StampPolled.elapsed = Units(o, since)
      BY <3>1, <3>8, UnitsBounds DEF Exact
    <3>10. StampPolled.elapsed < call.timeout
      BY <1>3, <3>1, <3>9 DEF Late
    <3>11. ~(read = 0 /\ available = 0)
      BY <3>1, <3>4, <3>9, <3>10
    <3>12. since <= since' /\ since' - since <= idle'
      BY <1>1, <3>1
    <3>13. PICK s \in Nat : s = since
      BY <3>1
    <3>14. PolledAt(o, s)'
      BY <1>1, <1>3, <2>1, <3>1, <3>4, <3>8, <3>10, <3>12, <3>13, PolledNext
    <3>15. since < Limit + 2 * TicksPerUnit
      BY <3>1, <3>9, <3>10, UnitsWithin
    <3> QED
      BY <3>11, <3>14, <3>15
  <2>2. ASSUME call.timeout # 0 PROVE Bounded'
    <3>1. Limit \in Nat /\ since \in Nat /\ MaxGap \in Nat /\ TicksPerUnit \in Nat
      BY <1>1, <2>2, Numbers, ClockConstants DEF Busy
    <3>2. since < Limit + 2 * TicksPerUnit
      BY <2>1, <2>2
    <3> QED
      BY <1>1, <1>2, <1>3, <3>1, <3>2 DEF Bounded
  <2>3. Fed'
    <3>1. available \in Nat
      BY DEF IInv, Sound, Base, TypeOK, available
    <3>2. ~(read = 0 /\ available = 0)
      BY <1>1, <2>1 DEF IInv, Fed
    <3> QED
      BY <1>2, <1>3, <3>1, <3>2 DEF Fed
  <2> QED
    BY <1>1, <1>3, <2>1, <2>2, <2>3, TimelyNext DEF ShortForAReason
<1>4. CASE pc' = "error"
  BY <1>4 DEF Timely, Fed, ShortForAReason, Busy
<1>5. CASE Late /\ pc' = "idle"
  <2>1. TimeIsUp
    BY <1>1, <1>5, LateIsLate DEF IInv
  <2> QED
    BY <1>1, <1>5, <2>1 DEF Timely, Fed, ShortForAReason, TimeIsUp, Busy
<1> QED
  BY <1>1, <1>3, <1>4, <1>5

LEMMA TimelyReadByte ==
    ASSUME Fits, IInv, ReadByte
    PROVE  Timely' /\ Fed' /\ ShortForAReason'
<1>1. /\ pc = "read" /\ read' = read + 1 /\ Limit' = Limit
      /\ UNCHANGED <<counter, idle, since, platform, arrived, pc, call, stamp>>
  BY DEF ReadByte, clock, port, Limit
<1>2. read' # 0
  BY <1>1 DEF IInv, Sound, Base, TypeOK
<1>3. ASSUME call.timeout # 0
      PROVE  Bounded' /\ \E o \in Counts : \E k \in Nat : PolledAt(o, k)'
  <2>1. PICK o \in Counts : \E k \in Nat : PolledAt(o, k)
    BY <1>1, <1>3 DEF IInv, Timely, Busy
  <2>2. PICK k \in Nat : PolledAt(o, k)
    BY <2>1
  <2>3. /\ k <= since /\ counter = Position(o, since) /\ Exact(stamp, o, k)
        /\ since - k <= idle /\ stamp.elapsed < call.timeout
    BY <1>1, <2>2 DEF PolledAt
  <2>4. PolledAt(o, k)'
    BY <1>1, <2>3, PolledNext
  <2>5. Bounded'
    BY <1>1, <1>3 DEF IInv, Timely, Bounded, Busy
  <2> QED
    BY <2>4, <2>5
<1> QED
  BY <1>1, <1>2, <1>3, TimelyNext DEF Fed, ShortForAReason

(* The body had bytes to read, so one that ends in a terminator ends in    *)
(* one it has read, and the loop goes on with something read.              *)
LEMMA TimelyReadDone ==
    ASSUME Fits, IInv, ReadDone
    PROVE  Timely' /\ Fed' /\ ShortForAReason'
<1>1. /\ pc = "read" /\ idle' = 0 /\ ~(available > 0 /\ read < call.len)
      /\ UNCHANGED <<counter, since, platform, arrived, taken, call>>
      /\ \/ (read = call.len \/ Terminated) /\ Return(read)
         \/ read # call.len /\ pc' = "loop" /\ read' = read /\ stamp' = stamp
  BY DEF ReadDone, MoreToRead, port
<1>2. /\ read \in Nat /\ call.len \in Nat /\ read <= call.len
      /\ read = 0 => available > 0
  BY <1>1 DEF IInv, Fed, Sound, Base, TypeOK, Asked, Busy
<1>3. CASE (read = call.len \/ Terminated) /\ Return(read)
  <2>1. pc' = "idle" /\ ret' = read
    BY <1>3 DEF Return
  <2>2. read = call.len => ~(ret' \in 0 .. call'.len - 1)
    BY <1>1, <1>2, <2>1
  <2>3. ret' \in 0 .. call'.len - 1 => read > 0
    BY <1>1, <1>2, <2>1
  <2>4. Terminated /\ read > 0 => call.term = "char" /\ taken \in Ends
    BY DEF Terminated
  <2> QED
    BY <1>1, <1>3, <2>1, <2>2, <2>3, <2>4 DEF Timely, Fed, ShortForAReason, Busy
<1>4. CASE read # call.len /\ pc' = "loop" /\ read' = read /\ stamp' = stamp
  <2>1. read > 0
    BY <1>1, <1>2, <1>4
  <2>2. ASSUME call.timeout # 0
        PROVE  Bounded' /\ \E o \in Counts : \E k \in Nat : PolledAt(o, k)'
    <3> USE <2>2
    <3>1. /\ since \in Nat /\ since + TicksPerUnit <= TickPeriod /\ stamp \in Stamps
          /\ call.timeout \in Nat /\ Limit = call.timeout * TicksPerUnit
          /\ Limit \in Nat /\ idle \in Nat /\ idle <= MaxGap /\ MaxGap \in Nat
          /\ TicksPerUnit \in Nat
      BY <1>1, Numbers, ClockConstants DEF Busy
    <3>2. PICK o \in Counts : \E k \in Nat : PolledAt(o, k)
      BY <1>1 DEF IInv, Timely, Busy
    <3>3. PICK k \in Nat : PolledAt(o, k)
      BY <3>2
    <3>4. /\ k <= since /\ counter = Position(o, since) /\ Exact(stamp, o, k)
          /\ since - k <= idle /\ stamp.elapsed < call.timeout
      BY <1>1, <3>3 DEF PolledAt
    <3>5. k + TicksPerUnit <= TickPeriod /\ Units(o, k) <= call.timeout
      BY <3>1, <3>4, ClockConstants DEF Exact, Stamps
    <3>6. k < Limit + 2 * TicksPerUnit
      BY <3>1, <3>5, UnitsWithin
    <3>7. since <= Limit + 2 * TicksPerUnit + MaxGap
      BY <3>1, <3>4, <3>6
    <3>8. Limit' = Limit
      BY <1>1 DEF Limit
    <3>9. Bounded'
      BY <1>1, <1>4, <3>1, <3>7, <3>8 DEF Bounded
    <3>10. PolledAt(o, k)'
      BY <1>1, <1>4, <2>1, <3>4, PolledNext
    <3> QED
      BY <3>9, <3>10
  <2> QED
    BY <1>1, <1>4, <2>1, <2>2, TimelyNext DEF Fed, ShortForAReason
<1> QED
  BY <1>1, <1>3, <1>4

LEMMA InvStep == Fits /\ IInv /\ [Next]_vars => IInv'
<1> SUFFICES ASSUME Fits, IInv, [Next]_vars PROVE IInv'
  OBVIOUS
<1>1. Sound'
  BY SoundStep DEF IInv
<1>2. CASE Tick
  BY <1>1, <1>2, TimelyTick DEF IInv
<1>3. CASE Arrive
  BY <1>1, <1>3, TimelyArrive DEF IInv
<1>4. CASE Call
  BY <1>1, <1>4, TimelyCall DEF IInv
<1>5. CASE WaitData
  BY <1>1, <1>5, TimelyWaitData DEF IInv
<1>6. CASE WaitTimeout
  BY <1>1, <1>6, TimelyWaitTimeout DEF IInv
<1>7. CASE WaitAgain
  BY <1>1, <1>7, TimelyWaitAgain DEF IInv
<1>8. CASE LoopTest
  BY <1>1, <1>8, TimelyLoopTest DEF IInv
<1>9. CASE ReadByte
  BY <1>1, <1>9, TimelyReadByte DEF IInv
<1>10. CASE ReadDone
  BY <1>1, <1>10, TimelyReadDone DEF IInv
<1>11. CASE WaitFails \/ ReadError
  BY <1>1, <1>11 DEF WaitFails, ReadError, Die, IInv, Timely, Fed, ShortForAReason, Busy
<1>12. CASE UNCHANGED vars
  <2>1. available' = available
    BY <1>12 DEF vars, clock, port, available
  <2>2. Timely'
    BY <1>12, <2>1 DEF vars, clock, port, thread, IInv, Timely, Busy, Bounded, Limit,
       PolledAt, WaitPolledAt, Position, Exact, Units, Laps, time_current, time_period, Counts
  <2>3. Fed' /\ ShortForAReason'
    BY <1>12, <2>1 DEF vars, clock, port, thread, IInv, Fed, ShortForAReason
  <2> QED
    BY <1>1, <2>2, <2>3 DEF IInv
<1> QED
  BY <1>2, <1>3, <1>4, <1>5, <1>6, <1>7, <1>8, <1>9, <1>10, <1>11,
     <1>12 DEF Next, Work

(* IInv holds always, for timeouts within a period of the clock.           *)
THEOREM Invariance == ASSUME Fits PROVE Spec => []IInv
<1>1. IInv /\ [Next]_vars => IInv'
  BY InvStep, Fits
<1> QED
  BY <1>1, InvInit, PTL DEF Spec

(* A read that returns fewer bytes than asked for ended in a terminator,   *)
(* or had its time.                                                        *)
THEOREM ShortIsForAReason == ASSUME Fits PROVE Spec => []ShortForAReason
BY Invariance, Fits, PTL DEF IInv

(* A read with a timeout is over within three gaps and two units of it.    *)
THEOREM ReadIsOverInTime == ASSUME Fits PROVE Spec => []OverInTime
<1>1. IInv => OverInTime
  <2> SUFFICES ASSUME IInv, Busy, call.timeout # 0
               PROVE  since <= call.timeout * TicksPerUnit + Slack
    BY DEF OverInTime
  <2> QED
    BY Fits, Numbers
<1> QED
  BY <1>1, Invariance, Fits, PTL
------------------------------------------------------------------------------
(* The read is one atomic step, of the whole bytes.                        *)
Whole == IInv /\ Prefix

LEMMA WholeStep == Fits /\ Whole /\ [Next]_vars => Whole'
BY InvStep, PrefixStep DEF Whole, IInv, Sound

(* What the mapping makes of the phases of a call.                         *)
phase == IF Busy THEN "busy" ELSE pc
consumed == taken - read
age == IF call.timeout = 0 THEN 0 ELSE since

LEMMA AtomicVars ==
    [Atomic!Next]_(Atomic!vars) <=>
        \/ Atomic!Next
        \/ /\ UNCHANGED <<platform, faulty, arrived, whole, damaged, lost, call, ret>>
           /\ phase' = phase /\ consumed' = consumed /\ age' = age
BY DEF Atomic!vars, Atomic!line, phase, consumed, age

(* The clock of a call with a timeout never passes what it may take.       *)
LEMMA TickRefines ==
    ASSUME Fits, Whole, Tick
    PROVE  [Atomic!Next]_(Atomic!vars)
<1>1. /\ pc' = pc /\ call' = call /\ taken' = taken /\ read' = read
      /\ UNCHANGED <<platform, faulty, arrived, whole, damaged, lost, ret>>
  BY DEF Tick, port, thread
<1>2. phase' = phase /\ consumed' = consumed
  BY <1>1 DEF phase, consumed, Busy
<1>3. CASE ~Busy \/ call.timeout = 0
  <2>1. pc \in {"idle", "error", "wait", "loop", "read"}
    BY DEF Whole, IInv, Sound, Base, TypeOK
  <2>2. ~Busy => since' = since
    BY <2>1 DEF Busy, Tick
  <2> QED
    BY <1>1, <1>2, <1>3, <2>2, AtomicVars DEF age
<1>4. CASE Busy /\ call.timeout # 0
  <2>1. since \in Nat /\ since < SinceMax /\ Limit \in Nat /\ MaxGap \in Nat
        /\ Limit = call.timeout * TicksPerUnit
        /\ Slack = 3 * MaxGap + 2 * TicksPerUnit
    BY <1>4, Numbers DEF Whole
  <2>2. since' = since + 1
    BY <1>4, <2>1 DEF Busy, Tick
  <2>3. idle' \in Nat /\ idle' <= MaxGap
    BY <2>1, BaseStep DEF Whole, IInv, Sound, Base, TypeOK, Next
  <2>4. since' <= Limit + 2 * TicksPerUnit + MaxGap + (IF pc = "wait" THEN 0 ELSE idle')
    <3>1. Timely' /\ Busy' /\ call'.timeout # 0
      BY <1>1, <1>4, TimelyTick DEF Whole, Busy
    <3>2. Limit' = Limit
      BY <1>1 DEF Limit
    <3> QED
      BY <1>1, <3>1, <3>2 DEF Timely, Bounded
  <2>5. since < Limit + Slack
    BY <2>1, <2>2, <2>3, <2>4, ClockConstants
  <2>6. Atomic!Tick
    BY <1>1, <1>2, <1>4, <2>1, <2>2, <2>5 DEF Atomic!Tick, Atomic!line, phase, consumed
  <2> QED
    BY <2>6 DEF Atomic!Next
<1> QED
  BY <1>3, <1>4

LEMMA ArriveRefines ==
    ASSUME Whole, Arrive
    PROVE  [Atomic!Next]_(Atomic!vars)
<1>1. Base
  BY DEF Whole, IInv, Sound
<1>2. arrived \in Nat /\ taken \in Nat /\ read \in Nat /\ Depth \in Nat
      /\ available = arrived - taken /\ lost \in BOOLEAN /\ damaged \in BOOLEAN
  BY <1>1, Constants DEF Base, TypeOK, available
<1>3. ~(available < Depth) => arrived - (taken - read) >= Depth
  BY <1>2
<1>4. Busy' = Busy
  BY <1>1, ArriveSteps DEF Busy
<1>5. Atomic!ByteComes \/ Atomic!DamagedByteComes \/ Atomic!ByteIsLost
  BY <1>1, <1>3, ArriveSteps DEF Atomic!ByteComes, Atomic!DamagedByteComes,
     Atomic!ByteIsLost, Atomic!Clean, Atomic!pending
<1>6. Atomic!Arrive
  BY <1>1, <1>4, <1>5, ArriveSteps DEF Atomic!Arrive
<1> QED
  BY <1>6 DEF Atomic!Next

LEMMA CallRefines ==
    ASSUME Whole, Call
    PROVE  [Atomic!Next]_(Atomic!vars)
<1>1. PICK c \in Calls :
        /\ call' = c /\ pc = "idle" /\ since' = 0
        /\ UNCHANGED <<platform, faulty, arrived, whole, damaged, lost, taken>>
        /\ \/ c.len = 0 /\ pc' = "idle" /\ ret' = 0 /\ read' = 0
           \/ c.len # 0 /\ pc' = "wait" /\ ret' = ret /\ read' = read
  BY DEF Call, Return, port
<1>2. read = 0
  BY <1>1 DEF Whole, IInv, Sound, Base, Asked
<1>3. Atomic!Call
  BY <1>1, <1>2 DEF Atomic!Call, Atomic!line, Busy
<1> QED
  BY <1>3 DEF Atomic!Next

LEMMA WaitRefines ==
    ASSUME WaitData \/ WaitTimeout \/ WaitAgain
    PROVE  [Atomic!Next]_(Atomic!vars)
<1>1. /\ pc = "wait" /\ pc' \in {"wait", "loop"}
      /\ UNCHANGED <<since, platform, faulty, arrived, whole, damaged, lost, taken, call, read, ret>>
  BY DEF WaitData, WaitTimeout, WaitAgain, port
<1> QED
  BY <1>1, AtomicVars DEF phase, consumed, age, Busy

LEMMA LoopTestRefines ==
    ASSUME Whole, LoopTest
    PROVE  [Atomic!Next]_(Atomic!vars)
<1>1. /\ pc = "loop"
      /\ UNCHANGED <<since, platform, faulty, arrived, whole, damaged, lost, taken, call>>
      /\ \/ pc' = "read" /\ read' = read /\ ret' = ret
         \/ Late /\ timeout_error /\ pc' = "error" /\ read' = read /\ ret' = ret
         \/ Late /\ ~timeout_error /\ pc' = "idle" /\ ret' = read /\ read' = 0
  BY DEF LoopTest, GiveUp, Return, port
<1>2. Late => TimeIsUp /\ Atomic!TimeIsUp
  <2>1. Late => TimeIsUp
    BY <1>1, LateIsLate DEF Whole, IInv
  <2> QED
    BY <2>1 DEF TimeIsUp, Atomic!TimeIsUp
<1>3. CASE pc' = "read" /\ read' = read /\ ret' = ret
  BY <1>1, <1>3, AtomicVars DEF phase, consumed, age, Busy
<1>4. CASE Late /\ timeout_error /\ pc' = "error" /\ read' = read /\ ret' = ret
  <2>1. Atomic!Fail
    BY <1>1, <1>2, <1>4 DEF Atomic!Fail, Atomic!line, Busy, timeout_error
  <2> QED
    BY <2>1 DEF Atomic!Next
<1>5. CASE Late /\ ~timeout_error /\ pc' = "idle" /\ ret' = read /\ read' = 0
  <2>1. /\ read \in 0 .. call.len - 1 /\ taken \in Nat /\ arrived \in Nat
        /\ taken <= arrived /\ read \in Nat
    BY <1>1 DEF Whole, IInv, Sound, Base, TypeOK, Asked, Busy
  <2>2. /\ read <= arrived - (taken - read) /\ taken - 0 = (taken - read) + read
        /\ platform = "tiva" => (taken - read) + read <= whole
    BY <2>1 DEF Whole, Prefix, NothingMissing
  <2>3. Atomic!Return(read)
    BY <1>1, <1>5, <2>2 DEF Atomic!Return, Atomic!pending, Atomic!line, Busy
  <2>4. Atomic!TimeOut
    BY <1>2, <1>5, <2>1, <2>3 DEF Atomic!TimeOut, timeout_error
  <2> QED
    BY <2>4 DEF Atomic!Next
<1> QED
  BY <1>1, <1>3, <1>4, <1>5

(* A byte goes into the caller's buffer, which is not handed over yet.     *)
LEMMA ReadByteRefines ==
    ASSUME Whole, ReadByte
    PROVE  [Atomic!Next]_(Atomic!vars)
<1>1. /\ taken' = taken + 1 /\ read' = read + 1
      /\ UNCHANGED <<since, platform, faulty, arrived, whole, damaged, lost, pc, call, ret>>
  BY DEF ReadByte, clock, port
<1>2. taken' - read' = taken - read
  BY <1>1 DEF Whole, IInv, Sound, Base, TypeOK
<1> QED
  BY <1>1, <1>2, AtomicVars DEF phase, consumed, age, Busy

LEMMA ReadDoneRefines ==
    ASSUME Whole, ReadDone
    PROVE  [Atomic!Next]_(Atomic!vars)
<1>1. /\ pc = "read" /\ ~(available > 0 /\ read < call.len)
      /\ UNCHANGED <<since, platform, faulty, arrived, whole, damaged, lost, taken, call>>
      /\ \/ /\ read = call.len \/ Terminated
            /\ pc' = "idle" /\ ret' = read /\ read' = 0
         \/ pc' = "loop" /\ read' = read /\ ret' = ret
  BY DEF ReadDone, MoreToRead, Return, port
<1>2. /\ read \in Nat /\ taken \in Nat /\ arrived \in Nat /\ taken <= arrived
      /\ call.len \in Nat /\ read <= call.len /\ 0 < call.len
      /\ read = 0 => available > 0
  BY <1>1 DEF Whole, IInv, Sound, Base, TypeOK, Asked, Busy, Fed
<1>3. CASE pc' = "loop" /\ read' = read /\ ret' = ret
  BY <1>1, <1>3, AtomicVars DEF phase, consumed, age, Busy
<1>4. CASE /\ read = call.len \/ Terminated
           /\ pc' = "idle" /\ ret' = read /\ read' = 0
  <2>1. read \in 1 .. call.len
    BY <1>1, <1>2
  <2>2. /\ read <= arrived - (taken - read) /\ taken - 0 = (taken - read) + read
        /\ taken = (taken - read) + read
        /\ platform = "tiva" => (taken - read) + read <= whole
    BY <1>2 DEF Whole, Prefix, NothingMissing
  <2>3. Atomic!Return(read)
    BY <1>1, <1>4, <2>2 DEF Atomic!Return, Atomic!pending, Atomic!line, Busy
  <2>4. read = call.len \/ (call.term = "char" /\ (taken - read) + read \in Ends)
    BY <1>4, <2>1, <2>2 DEF Terminated
  <2>5. Atomic!Deliver
    BY <2>1, <2>3, <2>4 DEF Atomic!Deliver
  <2> QED
    BY <2>5 DEF Atomic!Next
<1> QED
  BY <1>1, <1>3, <1>4

(* The errors of the wait and the read are those of the line or the host.  *)
LEMMA DieRefines ==
    ASSUME Whole, WaitFails \/ ReadError
    PROVE  [Atomic!Next]_(Atomic!vars)
<1>1. /\ pc \in {"wait", "read"} /\ pc' = "error"
      /\ UNCHANGED <<since, platform, faulty, arrived, whole, damaged, lost, taken, call,
                     read, ret>>
      /\ \/ platform = "tiva" /\ (lost \/ damaged) /\ available > 0
         \/ faulty \/ (platform = "host" /\ call.timeout > IntMax)
  BY DEF WaitFails, ReadError, Die, MoreToRead, ErrorNoticed, ErrorStatus, TooLong, port
<1>2. available > 0 => arrived - (taken - read) > 0
  BY DEF Whole, IInv, Sound, Base, TypeOK, available
<1>3. Atomic!Fail
  BY <1>1, <1>2 DEF Atomic!Fail, Atomic!line, Atomic!pending, Atomic!Clean, Busy
<1> QED
  BY <1>3 DEF Atomic!Next

(* A blocking read, with its wait, its polls and its chunks, is to its     *)
(* callers one atomic step, for every stream, receive buffer and timeout   *)
(* that ends within a period of the clock.                                 *)
THEOREM Refinement == ASSUME Fits PROVE Spec => ImplementsAtomicRead
<1>1. Init => Whole /\ Atomic!Init
  <2> SUFFICES ASSUME Init PROVE Whole /\ Atomic!Init
    OBVIOUS
  <2>1. Atomic!Init
    BY DEF Init, Atomic!Init, Busy
  <2> QED
    BY <2>1, InvInit, PrefixInit DEF Whole
<1>2. Whole /\ [Next]_vars => Whole'
  BY Fits, WholeStep
<1>3. Whole /\ [Next]_vars => [Atomic!Next]_(Atomic!vars)
  <2> SUFFICES ASSUME Whole, [Next]_vars PROVE [Atomic!Next]_(Atomic!vars)
    OBVIOUS
  <2>1. CASE Next
    BY <2>1, Fits, TickRefines, ArriveRefines, CallRefines, WaitRefines,
       LoopTestRefines, ReadByteRefines, ReadDoneRefines, DieRefines DEF Next, Work
  <2>2. CASE UNCHANGED vars
    BY <2>2, AtomicVars DEF vars, clock, port, thread, phase, consumed, age, Busy
  <2> QED
    BY <2>1, <2>2
<1> QED
  BY <1>1, <1>2, <1>3, PTL DEF Spec, ImplementsAtomicRead, Atomic!Spec
==============================================================================
