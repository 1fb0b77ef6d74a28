------------------------------- MODULE Encoder -------------------------------
(***************************************************************************)
(* nuhal_all/src/encoder.c: an absolute encoder on a turning shaft, its    *)
(* calibration by encoder_zero_raw and its readings by encoder_ticks.      *)
(*                                                                         *)
(* An angle in radians is known by the whole number of ticks it truncates  *)
(* to: those of (-pi, pi] give all from -((ticks_per_rev - 1) \div 2) to   *)
(* ticks_per_rev \div 2.  The rounding of floats is left out.              *)
(***************************************************************************)
EXTENDS Integers

CONSTANTS Resolutions,     \* the ticks_per_rev of the encoders
          WordSize         \* uint32_t wraps here

ASSUME EncoderAssumption ==
    /\ WordSize \in Nat
    /\ Resolutions \subseteq Nat \ {0}
    /\ \A t \in Resolutions : 2 * t <= WordSize

Orientations == {"UP_UP", "UP_DOWN"}

VARIABLES ticks_per_rev, zero_angle_ticks, orientation,
          single,          \* the raw reading
          shaft            \* history: the angle the shaft really has, in
                           \* ticks from the calibrated zero

encoder == <<ticks_per_rev, zero_angle_ticks, orientation>>
encoder_vars == <<encoder, single, shaft>>

------------------------------------------------------------------------------

(* uint32_t arithmetic.                                                    *)
Word(n) == n % WordSize

(* The angle over a full turn.                                             *)
angle_full ==
    IF single > zero_angle_ticks
    THEN IF orientation = "UP_UP"
         THEN single - zero_angle_ticks
         ELSE Word(ticks_per_rev - (single - zero_angle_ticks))
    ELSE IF orientation = "UP_UP"
         THEN Word(ticks_per_rev - (zero_angle_ticks - single))
         ELSE zero_angle_ticks - single

encoder_ticks ==
    IF angle_full < ticks_per_rev \div 2 THEN angle_full
    ELSE -(ticks_per_rev - angle_full)

(* encoder_zero_raw for an angle that truncates to ticks.  Mutant: the     *)
(* orientation does not matter.                                            *)
uticks(ticks) == IF ticks < 0 THEN Word(ticks + ticks_per_rev) ELSE ticks

ZeroUpUp(ticks) ==
    IF uticks(ticks) < single THEN single - uticks(ticks)
    ELSE Word(Word(ticks_per_rev + single) - uticks(ticks))

ZeroUnoriented(ticks) == ZeroUpUp(ticks)

encoder_zero_raw(ticks) ==
    IF orientation = "UP_UP" THEN ZeroUpUp(ticks)
    ELSE Word(single + uticks(ticks)) % ticks_per_rev

(* The angles encoder_zero_raw accepts.                                    *)
Angles == -((ticks_per_rev - 1) \div 2) .. ticks_per_rev \div 2

EncoderInit ==
    /\ ticks_per_rev \in Resolutions /\ orientation \in Orientations
    /\ zero_angle_ticks = 0 /\ single = 0 /\ shaft = 0

(* The shaft turns by a tick either way.                                   *)
Turn(by) ==
    /\ shaft' = (shaft + by) % ticks_per_rev
    /\ single' = IF orientation = "UP_UP" THEN (single + by) % ticks_per_rev
                                          ELSE (single - by) % ticks_per_rev
    /\ UNCHANGED encoder

(* The application declares what angle the shaft has, and keeps the zero   *)
(* point that follows.                                                     *)
Calibrate ==
    \E ticks \in Angles :
       /\ zero_angle_ticks' = encoder_zero_raw(ticks)
       /\ shaft' = ticks % ticks_per_rev
       /\ UNCHANGED <<ticks_per_rev, orientation, single>>

EncoderNext == Turn(1) \/ Turn(-1) \/ Calibrate

EncoderSpec == EncoderInit /\ [][EncoderNext]_encoder_vars

------------------------------------------------------------------------------
(* Wherever the shaft was calibrated and however it turned since, over the *)
(* raw reading's wrap as well, encoder_ticks is the angle from the zero    *)
(* point, up to whole turns, and lies in the range encoder.h promises for  *)
(* normalized ticks (encoder.h:14 and 112).                                *)
TicksMeasureAngle ==
    /\ (encoder_ticks - shaft) % ticks_per_rev = 0
    /\ -(ticks_per_rev - ticks_per_rev \div 2) <= encoder_ticks
    /\ encoder_ticks <= ticks_per_rev \div 2

(* "finally radians from (-pi, pi]" (encoder.h:16): what encoder_radians   *)
(* makes of a reading is an angle encoder_zero_raw accepts.                *)
RadiansInRange == encoder_ticks \in Angles
==============================================================================
