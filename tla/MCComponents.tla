----------------------------- MODULE MCComponents -----------------------------
(***************************************************************************)
(* The components of one process side by side: a behaviour is one of       *)
(* Elapsed, QueueIndex, Encoder, Pid, Bytestream, Matrix, Passthrough or   *)
(* Pins, and the others stand still.                                       *)
(***************************************************************************)
EXTENDS Elapsed, QueueIndex, Encoder, Pid, Bytestream, Matrix, Passthrough, Pins

VARIABLE part                      \* the component that runs

MCWeight == [i \in 0 .. Width |-> 2 ^ i]
UMin == -5
IMin == -3

(* What a stream is made of: fields that differ from each other, at the    *)
(* ends of their range, and a colour that is none.                         *)
Extremes(type) == IF type = "i32" THEN { -1, -(Modulus(type) \div 2), Modulus(type) \div 2 - 1 }
                  ELSE { 0, 7, Modulus(type) - 1 }
Numbered(type, k) == IF type = "i32" THEN -k ELSE Modulus(type) - k

MCSamples == [kind \in DOMAIN InjectOrder |->
    LET order == InjectOrder[kind]
        fields == { order[k][1] : k \in DOMAIN order }
        at(f) == CHOOSE k \in DOMAIN order : order[k][1] = f
    IN  IF Len(order) = 1 THEN [fields -> Extremes(order[1][2])]
        ELSE { [f \in fields |-> Numbered(order[at(f)][2], at(f))] }]
MCStrings == { << >>, <<1>>, <<1, 2, 1>> }
MCArrays == { << >>, <<NUL>>, <<3, NUL, 3>> }

(* Contents by which the variables, and the cells of each, differ.         *)
Seed == [ A |-> 1, B |-> 2, x |-> 1, y |-> 2, z |-> 4, F |-> 3, u |-> 5, S |-> 1, p |-> 2, q |-> 3 ]
Filled(name, k) == [e \in Cells(name) |-> (k + 2 * e[1] + e[1] * e[2]) % RingSize]
MCStart == [n \in Names |-> Filled(n, Seed[n])]
MCGiven == [n \in {"A", "F", "S"} |-> Filled(n, 0)]

(* The led's table, another output on its port, a table that claims a pin  *)
(* of the led's, one with a JTAG pin, one with a pin and one with a type   *)
(* that do not exist.                                                      *)
MCTables == { << <<"red", "output">>, <<"green", "output">>, <<"blue", "output">> >>,
              << <<"PF4", "output">> >>,
              << <<"PF0", "qei">>, <<"red", "pwm">> >>,
              << <<"PC1", "ssi">> >>, << <<"PG0", "uart">> >>, << <<"PD7", "i2c">> >> }

IdleTime == /\ counter = 0 /\ origin = 0 /\ curr_time = 0 /\ prev_time = 0
            /\ elapsed_time = 0 /\ loop = "idle" /\ polled = 0 /\ unseen = 0
IdleIndex == /\ capacity = 0 /\ status = "new" /\ mask = 0
             /\ write_index = 0 /\ read_index = 0
IdleEncoder == /\ ticks_per_rev = 1 /\ zero_angle_ticks = 0 /\ orientation = "UP_UP"
               /\ single = 0 /\ shaft = 0
IdlePid == /\ saturate = "NONE" /\ antiwindup = "NONE"
           /\ p_error = 0 /\ i_error = 0 /\ d_error = 0 /\ effort = 0
IdleBytestream == /\ bs_data = << >> /\ bs_capacity = 0 /\ bs_size = 0
                  /\ bs_phase = "inject" /\ bs_in = << >> /\ bs_out = << >> /\ bs_cut = 0
IdleMatrix == /\ mx_data = << >> /\ mx_transpose = << >> /\ mx_calls = 0
              /\ mx_error = FALSE /\ mx_meant = << >> /\ mx_clean = {}

IdlePassthrough == PtInit /\ pt_level = FALSE

MCInit ==
    /\ part \in {"time", "index", "encoder", "pid", "bytestream", "matrix",
                "passthrough", "pins"}
    /\ IF part = "time" THEN Init ELSE IdleTime
    /\ IF part = "index" THEN QiInit ELSE IdleIndex
    /\ IF part = "encoder" THEN EncoderInit ELSE IdleEncoder
    /\ IF part = "pid" THEN PidInit ELSE IdlePid
    /\ IF part = "bytestream" THEN BsInit ELSE IdleBytestream
    /\ IF part = "matrix" THEN MxInit ELSE IdleMatrix
    /\ IF part = "passthrough" THEN PtInit ELSE IdlePassthrough
    /\ PnInit

Only(p) ==
    /\ part = p /\ UNCHANGED part
    /\ p # "time" => UNCHANGED vars
    /\ p # "index" => UNCHANGED qi_vars
    /\ p # "encoder" => UNCHANGED encoder_vars
    /\ p # "pid" => UNCHANGED pid_vars
    /\ p # "bytestream" => UNCHANGED bs_vars
    /\ p # "matrix" => UNCHANGED mx_vars
    /\ p # "passthrough" => UNCHANGED pt_vars
    /\ p # "pins" => UNCHANGED pn_vars

MCNext ==
    \/ Only("time") /\ Next
    \/ Only("index") /\ QiNext
    \/ Only("encoder") /\ EncoderNext
    \/ Only("pid") /\ PidNext
    \/ Only("bytestream") /\ BsNext
    \/ Only("matrix") /\ MxNext
    \/ Only("passthrough") /\ PtNext
    \/ Only("pins") /\ PnNext

all_vars == <<part, vars, qi_vars, encoder_vars, pid_vars, bs_vars, mx_vars,
              pt_vars, pn_vars>>

(* The fairness of Elapsed and of Passthrough.                             *)
MCSpec ==
    /\ MCInit /\ [][MCNext]_all_vars
    /\ WF_vars(Only("time") /\ Tick) /\ WF_vars(Only("time") /\ Poll)
    /\ WF_pt_vars(Only("passthrough") /\ Loop)
    /\ WF_pt_vars(Only("passthrough") /\ BreakStops)
===============================================================================
