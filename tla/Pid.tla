--------------------------------- MODULE Pid ---------------------------------
(***************************************************************************)
(* pid_compute of nuhal_all/src/pid.c, called in a control loop.           *)
(*                                                                         *)
(* A number is an integer or NaN, which a broken sensor may deliver: it    *)
(* goes through arithmetic and compares with nothing.  The rounding and    *)
(* the overflow of floats are left out.                                    *)
(***************************************************************************)
EXTENDS Integers

CONSTANTS kp, ki, kd, u_max, u_min, i_max, i_min,   \* pid_gains
          MaxError,        \* bound on reference - measurement
          NaN

Errors == -MaxError .. MaxError

ASSUME PidAssumption ==
    /\ kp \in Nat /\ ki \in Nat \ {0} /\ kd \in Nat
    /\ u_max \in Int /\ u_min \in Int /\ u_min < u_max
    /\ i_max \in Nat /\ -i_min \in Nat
    /\ MaxError \in Nat /\ NaN \notin Int

VARIABLES saturate, antiwindup,
          p_error, i_error, d_error,          \* pid_state
          effort                              \* what pid_compute returned

pid_state == <<p_error, i_error, d_error>>
pid_vars == <<saturate, antiwindup, pid_state, effort>>

Plus(a, b) == IF NaN \in {a, b} THEN NaN ELSE a + b
Minus(a, b) == IF NaN \in {a, b} THEN NaN ELSE a - b
Times(k, a) == IF a = NaN THEN NaN ELSE k * a
Less(a, b) == NaN \notin {a, b} /\ a < b

PidInit ==
    /\ saturate \in {"OUTPUT", "NONE"}
    /\ antiwindup \in {"NONE", "BACK_CALCULATE", "SATURATE"}
    /\ p_error = 0 /\ i_error = 0 /\ d_error = 0 /\ effort = 0

(* The control signal for an integral of i.                                *)
Signal(i, error) ==
    Plus(Plus(Times(kp, error), Times(ki, i)), Times(kd, Minus(error, p_error)))

(* Whether back calculation lets the integral grow.  Mutants: it does not  *)
(* look at the limits; the test is written the other way round, so that a  *)
(* NaN passes.                                                             *)
MayAlways(u, error) == u # NaN
MayUnlessSaturated(u, error) ==
    ~(Less(u_max, u) /\ ~Less(error, 0)) /\ ~(Less(u, u_min) /\ ~Less(0, error))
MayAccumulate(u, error) ==
    \/ Less(u_min, u) /\ Less(u, u_max)
    \/ Less(error, 0) /\ Less(u_max, u)
    \/ Less(0, error) /\ Less(u, u_min)

Integral(error) ==
    LET i == Plus(i_error, error)
    IN  CASE antiwindup = "BACK_CALCULATE" ->
               IF MayAccumulate(Signal(i, error), error) THEN i ELSE i_error
          [] antiwindup = "SATURATE" ->
               IF Less(i_max, i) THEN i_max ELSE IF Less(i, i_min) THEN i_min ELSE i
          [] antiwindup = "NONE" -> i

Bounded(u) ==
    IF saturate = "NONE" THEN u
    ELSE IF Less(u_max, u) THEN u_max ELSE IF Less(u, u_min) THEN u_min ELSE u

pid_compute(error) ==
    /\ i_error' = Integral(error)
    /\ effort' = Bounded(Signal(i_error', error))
    /\ d_error' = Minus(error, p_error)
    /\ p_error' = error
    /\ UNCHANGED <<saturate, antiwindup>>

(* The integral of a controller without anti-windup grows without bound,   *)
(* so the model keeps such a one to errors that hold it within twice the   *)
(* limits.                                                                 *)
InScope(i) == ~Less(i, 2 * i_min) /\ ~Less(2 * i_max, i)

PidNext ==
    \E error \in Errors \cup {NaN} :
       /\ antiwindup = "NONE" => InScope(Plus(i_error, error))
       /\ pid_compute(error)

PidSpec == PidInit /\ [][PidNext]_pid_vars

------------------------------------------------------------------------------
(* What the integral can reach under back calculation: enough to drive the *)
(* signal to its limit against the largest error and its fastest change.   *)
Reach == kp * MaxError + 2 * kd * MaxError

(* No windup: however long the signal stays saturated, and whatever the    *)
(* errors, the integral stays within reach of the limits, so that it is    *)
(* the number of steps of the reverse error that brings the signal back.   *)
IntegralBounded ==
    antiwindup = "BACK_CALCULATE" /\ i_error # NaN =>
       /\ ki * i_error <= (IF u_max > 0 THEN u_max ELSE 0) + Reach
       /\ ki * i_error >= (IF u_min < 0 THEN u_min ELSE 0) - Reach

(* Under back calculation a NaN is forgotten: it never enters the          *)
(* integral, and two good readings later the effort is a number again.     *)
NaNForgotten ==
    antiwindup = "BACK_CALCULATE" =>
       /\ i_error # NaN
       /\ effort = NaN <=> NaN \in {p_error, d_error}
==============================================================================
