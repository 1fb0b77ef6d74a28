--------------------------------- MODULE Pins ---------------------------------
(***************************************************************************)
(* nuhal_tiva/src/pin_tiva.c and led_tiva.c: pins are claimed from tables  *)
(* of the program's modules, then written, read and inverted, the led's    *)
(* three at a time, by the program and by an interrupt handler that runs   *)
(* between any two of the program's accesses to the port's register.       *)
(***************************************************************************)
EXTENDS Integers, Sequences

CONSTANTS Tables,          \* the modules' tables: sequences of <<pin, type>>
          Gpio,            \* pins on the led's port that are not the led's
          BadPins,         \* those whose port or number does not exist
          JtagPins,        \* PC0 to PC3
          NmiPins,         \* PD7 and PF0
          MaxOps           \* bound on the calls of program and handler

Leds == {"red", "green", "blue"}           \* a colour is the set of those that are lit
PortPins == Leds \cup Gpio
Types == {"uart", "output", "input", "input_pull_up", "can", "ssi", "qei", "pwm"}

ASSUME PinsAssumption ==
    /\ JtagPins \cap NmiPins = {} /\ MaxOps \in Nat
    /\ \A t \in Tables : t \in Seq({t[k] : k \in DOMAIN t})
    /\ \A t \in Tables : \A k \in DOMAIN t : Len(t[k]) = 2

VARIABLES pn_assigned,     \* assigned_pins
          pn_unlocked,     \* the commit register
          pn_todo,         \* the rest of the table in pin_setup
          pn_failed,       \* error() was called
          pn_given,        \* the pins configured and their functions, in order
          pn_high,         \* GPIO_O_DATA of the led's port
          pn_call,         \* the program's call
          pn_ops,          \* calls made so far
          pn_alone         \* history: the port, had only the handler written it
                           \* since the call began

setup_vars == <<pn_assigned, pn_unlocked, pn_todo, pn_failed, pn_given>>
port_vars == <<pn_high, pn_call, pn_ops, pn_alone>>
pn_vars == <<setup_vars, port_vars>>

NoCall == [do |-> "none", arg |-> {}, todo |-> << >>, got |-> {}, before |-> {}, met |-> {}]

PnInit ==
    /\ pn_assigned = {} /\ pn_unlocked = {} /\ pn_todo = << >> /\ pn_failed = FALSE
    /\ pn_given = << >>
    /\ pn_high = {} /\ pn_call = NoCall /\ pn_ops = 0 /\ pn_alone = {}

------------------------------------------------------------------------------
pin_setup(table) ==
    /\ ~pn_failed /\ pn_todo = << >> /\ pn_call = NoCall
    /\ pn_todo' = table
    /\ UNCHANGED <<pn_assigned, pn_unlocked, pn_failed, pn_given, port_vars>>

(* Whether pin_configure may go on.  Mutant: a pin is refused only when it *)
(* has the function it is asked for.                                       *)
FreeForType(pin, type) == \A k \in DOMAIN pn_given : pn_given[k] # <<pin, type>>
Free(pin, type) == pin \notin pn_assigned

(* The pin is claimed before it is found to be a JTAG pin, and unlocked    *)
(* before its type is found to be none.                                    *)
pin_configure ==
    /\ ~pn_failed /\ pn_todo # << >>
    /\ LET pin == Head(pn_todo)[1]
           type == Head(pn_todo)[2]
           allowed == pin \notin BadPins \cup JtagPins /\ Free(pin, type)
       IN  /\ pn_assigned' = pn_assigned \cup ({pin} \ BadPins)
           /\ pn_unlocked' = pn_unlocked \cup {p \in {pin} \cap NmiPins : allowed}
           /\ IF allowed /\ type \in Types
              THEN /\ pn_given' = Append(pn_given, <<pin, type>>)
                   /\ pn_todo' = Tail(pn_todo) /\ UNCHANGED pn_failed
              ELSE pn_failed' = TRUE /\ UNCHANGED <<pn_given, pn_todo>>
    /\ UNCHANGED port_vars

------------------------------------------------------------------------------
(* The port after pin_write: the address masks the other pins out of the   *)
(* store.  Mutant: the whole port is written.                              *)
StoreUnmasked(port, pin, value) == IF value THEN PortPins ELSE {}
Store(port, pin, value) == IF value THEN port \cup {pin} ELSE port \ {pin}

led_set_order == <<"red", "blue", "green">>
Reads(pins) == [k \in DOMAIN pins |-> <<"read", pins[k]>>]
Writes(pins) == [k \in DOMAIN pins |-> <<"write", pins[k]>>]
pin_invert_order(pin) == Reads(<<pin>>) \o Writes(<<pin>>)

Ready == /\ ~pn_failed /\ pn_todo = << >> /\ pn_ops < MaxOps
         /\ PortPins \subseteq pn_assigned

Begin(do, arg, todo) ==
    /\ Ready /\ pn_call.todo = << >>
    /\ pn_call' = [do |-> do, arg |-> arg, todo |-> todo, got |-> {},
                   before |-> pn_high, met |-> {}]
    /\ pn_alone' = pn_high /\ pn_ops' = pn_ops + 1
    /\ UNCHANGED <<setup_vars, pn_high>>

led_set == \E color \in SUBSET Leds : Begin("led_set", color, Writes(led_set_order))
led_get == Begin("led_get", {}, Reads(<<"red", "green", "blue">>))
pin_invert == \E pin \in PortPins : Begin("pin_invert", {pin}, pin_invert_order(pin))

(* What the call writes to a pin: pin_invert, the negation of what it read.*)
Level(pin) == IF pn_call.do = "pin_invert" THEN pin \notin pn_call.got ELSE pin \in pn_call.arg

(* The call's next access to the port.                                     *)
Access ==
    /\ pn_call.todo # << >>
    /\ LET access == Head(pn_call.todo)[1]
           pin == Head(pn_call.todo)[2]
           rest == [pn_call EXCEPT !.todo = Tail(@)]
       IN  IF access = "read"
           THEN /\ pn_call' = [rest EXCEPT !.got = IF pin \in pn_high THEN @ \cup {pin} ELSE @]
                /\ UNCHANGED pn_high
           ELSE pn_high' = Store(pn_high, pin, Level(pin)) /\ pn_call' = rest
    /\ UNCHANGED <<setup_vars, pn_ops, pn_alone>>

(* The handler comes in the middle of the call, and sets the led or        *)
(* inverts a pin; it is not interrupted itself.                            *)
StoreAll(port, color) ==
    LET stored(p, pin) == Store(p, pin, pin \in color)
    IN  stored(stored(stored(port, "red"), "blue"), "green")
Interrupt ==
    /\ Ready /\ pn_call.todo # << >>
    /\ \/ \E color \in SUBSET Leds :
             /\ pn_high' = StoreAll(pn_high, color)
             /\ pn_alone' = StoreAll(pn_alone, color)
             /\ pn_call' = [pn_call EXCEPT !.met = @ \cup Leds]
       \/ \E pin \in PortPins :
             /\ pn_high' = Store(pn_high, pin, pin \notin pn_high)
             /\ pn_alone' = Store(pn_alone, pin, pin \notin pn_high)
             /\ pn_call' = [pn_call EXCEPT !.met = @ \cup {pin}]
    /\ pn_ops' = pn_ops + 1 /\ UNCHANGED setup_vars

PnNext ==
    \/ \E table \in Tables : pin_setup(table)
    \/ pin_configure \/ led_set \/ led_get \/ pin_invert \/ Access \/ Interrupt

PnSpec == PnInit /\ [][PnNext]_pn_vars

------------------------------------------------------------------------------
(* However the modules' tables overlap and in whatever order they are set  *)
(* up, no pin is given a function twice, none of the JTAG pins is touched, *)
(* and a pin locked as NMI is unlocked first.                              *)
PnGivenOnce ==
    /\ \A j, k \in DOMAIN pn_given : pn_given[j][1] = pn_given[k][1] => j = k
    /\ \A k \in DOMAIN pn_given :
          pn_given[k][1] \notin JtagPins /\ (pn_given[k][1] \in NmiPins => pn_given[k][1] \in pn_unlocked)

(* A call and a handler that meet on no pin do not disturb each other: a   *)
(* pin the call does not write ends up as the handler left it, and on a    *)
(* pin the handler did not touch the call does what it does uninterrupted. *)
PnUndisturbed ==
    LET call == pn_call
        written == CASE call.do = "led_set" -> Leds [] call.do = "pin_invert" -> call.arg
                     [] OTHER -> {}
        meant == CASE call.do = "pin_invert" -> call.arg \ call.before [] OTHER -> call.arg
    IN  call.todo = << >> =>
           /\ \A pin \in PortPins \ written : pin \in pn_high <=> pin \in pn_alone
           /\ \A pin \in written \ call.met : pin \in pn_high <=> pin \in meant
           /\ call.do = "led_get" =>
                 \A pin \in Leds \ call.met : pin \in call.got <=> pin \in call.before

(* A colour that stays when the calls are over is one somebody set.        *)
PnColourWhole ==
    pn_call.do = "led_set" /\ pn_call.todo = << >> =>
       pn_high \cap Leds \in {pn_call.arg, pn_alone \cap Leds}

(* "the pin's value is the logical NOT of its previous value"              *)
(* (pin_tiva.h:70): of an inversion by the handler as well.                *)
PnInverted ==
    pn_call.do = "pin_invert" /\ pn_call.todo = << >> =>
       \A pin \in pn_call.arg : pin \in pn_high <=> pin \notin pn_alone
===============================================================================
