------------------------------ MODULE Bytestream ------------------------------
(***************************************************************************)
(* Serialization: nuhal_all/src/bytestream.c and the codecs built on it in *)
(* pid.c, encoder.c and led.c.  One program injects a few items into a     *)
(* buffer; the stream is then started again at its beginning, as a         *)
(* receiver of the bytes does, and the same kinds of items are extracted.  *)
(*                                                                         *)
(* A byte is a digit of base ByteMod, an item is a record of fields, and a *)
(* float is the 32 bits that memcpy moves.  error() ends the program.      *)
(***************************************************************************)
EXTENDS Integers, Sequences, FiniteSets

CONSTANTS ByteMod,          \* values of a byte (256)
          Capacities,       \* sizes of buffer to try
          StringRoom,       \* the receiver's room for a string, terminator included
          MaxItems,         \* bound on the items injected
          Samples,          \* the values of each kind that may be injected
          Strings,          \* the strings
          Arrays            \* the arrays of bytes

ASSUME BytestreamAssumption ==
    ByteMod \in Nat \ {0, 1} /\ Capacities \subseteq Nat
    /\ StringRoom \in Nat /\ MaxItems \in Nat

VARIABLES bs_data,          \* the buffer, and what memory holds after it
          bs_capacity, bs_size,
          bs_phase,         \* "inject", "extract", "refused" or "unreadable"
          bs_in, bs_out,    \* history: the items injected, and extracted
          bs_cut            \* history: how many items went in before a string was cut

bs_vars == <<bs_data, bs_capacity, bs_size, bs_phase, bs_in, bs_out, bs_cut>>

NUL == 0
Byte == 0 .. ByteMod - 1

(***************************************************************************)
(* The primitive types: width in bytes, and value to bytes and back, most  *)
(* significant byte first.                                                 *)
(***************************************************************************)
WidthOf(type) == CASE type = "u8" -> 1 [] type = "u16" -> 2 [] OTHER -> 4

Modulus(type) == CASE type = "u8" -> ByteMod
                   [] type = "u16" -> ByteMod * ByteMod
                   [] OTHER -> ByteMod * ByteMod * ByteMod * ByteMod

Representable(type, v) == IF type = "i32" THEN -Modulus(type) <= 2 * v /\ 2 * v < Modulus(type)
                                    ELSE v \in 0 .. Modulus(type) - 1

Bytes(type, v) ==
    LET u == v % Modulus(type)
        shift8 == u \div ByteMod
        shift16 == shift8 \div ByteMod
        shift24 == shift16 \div ByteMod
    IN  CASE type = "u8" -> << u >>
          [] type = "u16" -> << shift8, u % ByteMod >>
          [] OTHER -> << shift24, shift16 % ByteMod, shift8 % ByteMod, u % ByteMod >>

Value(type, b) ==
    LET u == CASE type = "u8" -> b[1]
               [] type = "u16" -> b[1] * ByteMod + b[2]
               [] OTHER -> ((b[1] * ByteMod + b[2]) * ByteMod + b[3]) * ByteMod + b[4]
    IN  IF type = "i32" /\ 2 * u >= Modulus(type) THEN u - Modulus(type) ELSE u

(***************************************************************************)
(* The structures: the fields in the order of the injecting function, and  *)
(* of the extracting one.  The mutant reads the radians of a joint where   *)
(* its ticks are.                                                          *)
(***************************************************************************)
Field(name, type) == << <<name, type>> >>
Floats(names) == [k \in DOMAIN names |-> <<names[k], "f">>]

pid_gains_inject == Floats(<<"kp", "ki", "kd", "u_max", "u_min", "i_max", "i_min">>)
pid_state_inject == Floats(<<"p_error", "i_error", "d_error">>)
pid_signals_inject == Floats(<<"reference", "measurement", "effort">>)
pid_debug_info_inject == pid_state_inject \o pid_signals_inject
                           \o Field("sequence", "u8") \o Field("missed", "u8")
encoder_joints_inject == Field("before_ticks", "i32") \o Field("before_radians", "f")
                           \o Field("after_ticks", "i32") \o Field("after_radians", "f")
encoder_gimbal_inject ==
    Field("x_ticks", "i32") \o Field("y_ticks", "i32") \o Field("z_ticks", "i32")
      \o Floats(<<"x_radians", "y_radians", "z_radians">>)
led_color_inject == Field("value", "u8")

pid_gains_extract == Floats(<<"kp", "ki", "kd", "u_max", "u_min", "i_max", "i_min">>)
pid_state_extract == Floats(<<"p_error", "i_error", "d_error">>)
pid_signals_extract == Floats(<<"reference", "measurement", "effort">>)
pid_debug_info_extract == pid_state_extract \o pid_signals_extract
                            \o Field("sequence", "u8") \o Field("missed", "u8")
encoder_joints_swapped == Field("before_ticks", "i32") \o Field("after_ticks", "i32")
                            \o Field("before_radians", "f") \o Field("after_radians", "f")
encoder_joints_extract == Field("before_ticks", "i32") \o Field("before_radians", "f")
                            \o Field("after_ticks", "i32") \o Field("after_radians", "f")
encoder_gimbal_extract ==
    Field("x_ticks", "i32") \o Field("y_ticks", "i32") \o Field("z_ticks", "i32")
      \o Floats(<<"x_radians", "y_radians", "z_radians">>)
led_color_extract == Field("value", "u8")

InjectOrder ==
    [ u8 |-> Field("value", "u8"), u16 |-> Field("value", "u16"),
      u32 |-> Field("value", "u32"), i32 |-> Field("value", "i32"),
      f |-> Field("value", "f"), led_color |-> led_color_inject,
      pid_gains |-> pid_gains_inject, pid_debug_info |-> pid_debug_info_inject,
      encoder_joints |-> encoder_joints_inject, encoder_gimbal |-> encoder_gimbal_inject ]
ExtractOrder ==
    [ u8 |-> Field("value", "u8"), u16 |-> Field("value", "u16"),
      u32 |-> Field("value", "u32"), i32 |-> Field("value", "i32"),
      f |-> Field("value", "f"), led_color |-> led_color_extract,
      pid_gains |-> pid_gains_extract, pid_debug_info |-> pid_debug_info_extract,
      encoder_joints |-> encoder_joints_extract, encoder_gimbal |-> encoder_gimbal_extract ]

(* Where field k of a structure begins: the bytes of the fields before it. *)
Offset(order, k) ==
    LET before(types) == { j \in 1 .. k - 1 : order[j][2] \in types }
    IN  Cardinality(before({"u8"})) + 2 * Cardinality(before({"u16"}))
          + 4 * Cardinality(before({"u32", "i32", "f"}))
Length(order) == Offset(order, Len(order) + 1)

(* Byte p of a structure: that of the field it falls in.                   *)
Encoded(order, v) ==
    [p \in 1 .. Length(order) |->
        LET k == CHOOSE k \in DOMAIN order :
                    p - Offset(order, k) \in 1 .. WidthOf(order[k][2])
        IN  Bytes(order[k][2], v[order[k][1]])[p - Offset(order, k)]]

(* What may be injected is what the types of C allow: a number in its      *)
(* range, a string with no NUL in it.                                      *)
ASSUME ItemsAssumption ==
    /\ DOMAIN Samples = DOMAIN InjectOrder
    /\ \A kind \in DOMAIN InjectOrder : \A v \in Samples[kind] :
          LET order == InjectOrder[kind]
          IN  /\ v \in [{ order[k][1] : k \in DOMAIN order } -> Int]
              /\ \A k \in DOMAIN order : Representable(order[k][2], v[order[k][1]])
    /\ Strings \subseteq Seq(Byte \ {NUL}) /\ Arrays \subseteq Seq(Byte)

BsInit ==
    /\ bs_capacity \in Capacities
    /\ \E old \in {NUL, 1} : bs_data = [k \in 1 .. 2 * bs_capacity + 1 |-> old]
    /\ bs_size = 0 /\ bs_phase = "inject"
    /\ bs_in = << >> /\ bs_out = << >> /\ bs_cut = MaxItems + 1

Error == bs_phase' = (IF bs_phase = "inject" THEN "refused" ELSE "unreadable")
         /\ UNCHANGED <<bs_data, bs_capacity, bs_size, bs_in, bs_out, bs_cut>>

(* verify_args.  The mutant lets in one byte too many.                     *)
FitsAlmost(len) == bs_size + len <= bs_capacity + 1
Fits(len) == bs_size + len <= bs_capacity

Put(bytes, item) ==
    /\ bs_data' = [k \in DOMAIN bs_data |->
                     IF k - bs_size \in DOMAIN bytes THEN bytes[k - bs_size] ELSE bs_data[k]]
    /\ bs_size' = bs_size + Len(bytes)
    /\ bs_in' = Append(bs_in, item)

More == bs_phase = "inject" /\ Len(bs_in) < MaxItems

(* A primitive or a structure.  Its fields are verified one by one, so an  *)
(* error may leave some of them in the buffer, which nobody reads.         *)
Inject(kind, v) ==
    LET order == InjectOrder[kind]
    IN  /\ More
        /\ IF (kind = "led_color" /\ v.value > 7) \/ ~Fits(Length(order)) THEN Error
           ELSE /\ Put(Encoded(order, v), <<kind, v>>)
                /\ UNCHANGED <<bs_capacity, bs_phase, bs_out, bs_cut>>

(* The length is cut to the room there is, so that verify_args refuses     *)
(* only a full stream, where the room less one byte wraps around to the    *)
(* largest size_t.  Of a string cut short the terminator is missing.       *)
bytestream_inject_string(str) ==
    LET room == bs_capacity - bs_size - 1
        len == IF room >= 0 /\ room < Len(str) THEN room ELSE Len(str)
    IN  /\ More
        /\ IF ~Fits(len + 1) THEN Error
           ELSE /\ Put(SubSeq(Append(str, NUL), 1, len + 1), <<"string", str>>)
                /\ bs_cut' = IF len < Len(str) /\ bs_cut > MaxItems THEN Len(bs_in) ELSE bs_cut
                /\ UNCHANGED <<bs_capacity, bs_phase, bs_out>>

bytestream_inject_u8_array(bytes) ==
    /\ More
    /\ IF bs_capacity - bs_size <= Len(bytes) THEN Error
       ELSE /\ Put(bytes, <<"u8_array", bytes>>)
            /\ UNCHANGED <<bs_capacity, bs_phase, bs_out, bs_cut>>

(* bytestream_init over the bytes written so far, as on their receipt.     *)
bytestream_init ==
    /\ bs_phase = "inject"
    /\ bs_phase' = "extract" /\ bs_capacity' = bs_size /\ bs_size' = 0
    /\ UNCHANGED <<bs_data, bs_in, bs_out, bs_cut>>

Expected == bs_in[Len(bs_out) + 1]
ToRead(kind) == bs_phase = "extract" /\ Len(bs_out) < Len(bs_in) /\ Expected[1] = kind

Got(item, len) == /\ bs_out' = Append(bs_out, item)
                  /\ bs_size' = bs_size + len
                  /\ UNCHANGED <<bs_data, bs_capacity, bs_phase, bs_in, bs_cut>>

Extract(kind) ==
    LET order == ExtractOrder[kind]
        at(f) == CHOOSE k \in DOMAIN order : order[k][1] = f
        field(f) == LET start == bs_size + Offset(order, at(f))  type == order[at(f)][2]
                    IN  Value(type, SubSeq(bs_data, start + 1, start + WidthOf(type)))
    IN  /\ ToRead(kind)
        /\ IF ~Fits(Length(order)) THEN Error
           ELSE LET v == [f \in { order[k][1] : k \in DOMAIN order } |-> field(f)]
                IN  IF kind = "led_color" /\ v.value > 7 THEN Error
                    ELSE Got(<<kind, v>>, Length(order))

(* The search for the terminator covers bs_capacity bytes from the current *)
(* position, wherever that is.                                             *)
bytestream_extract_string ==
    LET ends == { k \in 0 .. bs_capacity - 1 : bs_data[bs_size + k + 1] = NUL }
        in_len == IF ends = {} THEN bs_capacity ELSE CHOOSE k \in ends : \A m \in ends : k <= m
    IN  /\ ToRead("string")
        /\ IF ~Fits(0) \/ in_len >= bs_capacity \/ in_len >= StringRoom THEN Error
           ELSE Got(<<"string", SubSeq(bs_data, bs_size + 1, bs_size + in_len)>>, in_len + 1)

(* An array is read a byte at a time: the code has no other way.           *)
ExtractBytes ==
    LET len == Len(Expected[2])
    IN  /\ ToRead("u8_array")
        /\ IF ~Fits(len) THEN Error
           ELSE Got(<<"u8_array", SubSeq(bs_data, bs_size + 1, bs_size + len)>>, len)

BsNext ==
    \/ \E kind \in DOMAIN InjectOrder : \E v \in Samples[kind] : Inject(kind, v)
    \/ \E str \in Strings : bytestream_inject_string(str)
    \/ \E bytes \in Arrays : bytestream_inject_u8_array(bytes)
    \/ bytestream_init
    \/ \E kind \in DOMAIN ExtractOrder : Extract(kind)
    \/ bytestream_extract_string
    \/ ExtractBytes

BsSpec == BsInit /\ [][BsNext]_bs_vars

------------------------------------------------------------------------------
(* What one side injects is what the other extracts, item for item and     *)
(* field for field, and nothing that was accepted is refused on the other  *)
(* side: but for a string that was cut short, and one too long for the     *)
(* receiver's variable.                                                    *)
BsRoundTrip ==
    /\ \A k \in DOMAIN bs_out : k <= bs_cut => bs_out[k] = bs_in[k]
    /\ bs_phase = "unreadable" =>
          \/ Len(bs_out) = bs_cut
          \/ Expected[1] = "string" /\ Len(Expected[2]) >= StringRoom

(* Nothing is written past the buffer's end, whatever the order and the    *)
(* sizes of the items; and a stream of whole items is read to its end and  *)
(* no further.                                                             *)
BsWithin == Len(bs_out) <= bs_cut => bs_size <= bs_capacity

(* "if the end of the stream is reached without a null character an error  *)
(* will be issued" (bytestream.h:102): the position never leaves the       *)
(* stream, of a cut string neither.                                        *)
BsStringEnds == bs_size <= bs_capacity
===============================================================================
